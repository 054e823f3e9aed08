CONSTANTS
    Tables <- MCTables
    Actions <- MCActions
    Args <- MCArgs
    Packets <- MCPackets
    Matches <- MCMatches
    ActionsOf <- MCActionsOf
    MatchesOf <- MCMatchesOf
    Hits <- MCHits
    Rank <- MCRank
    DefaultOnly <- MCDefaultOnly
    TableOnly <- MCTableOnly
    ParamActions <- MCParamActions
    ProgDefault <- MCProgDefault
    ProgArg <- MCProgArg
    ConstTables = {}
    InitEntries <- MCInitEntries
    MaxEntries = 2
    Api = "P4RUNTIME"
    ImplementedTables = {}
    Profiles = {}
    Selectors = {}
    Members = {}
    AssociatedTables <- NoProfiles
    TableRank <- MCTableRank
    MemberMatch <- NoMembers
    Messages <- MCMessages
    Cond <- MCCond
    Then <- MCThen
    Else <- MCElse
    EmptyBodies <- MCEmptyBodies
    UseSymbolSet = TRUE
    Server = FALSE
    EntryPoints = {"batch"}
    MaxRequests = 3
    MaxBatch = 2
SPECIFICATION Spec
PROPERTY ImplementsAbstractFlay
INVARIANTS
    TypeOK
    ReachabilityExact
    SubstitutionSound
    OptimizedCurrent
    OptimizedEquivalent
    RespecializationsBounded
