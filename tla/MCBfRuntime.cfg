CONSTANTS
    Tables <- MCTables
    Actions <- MCActions
    Args <- MCArgs
    Packets <- MCPackets
    Matches <- MCMatches
    ActionsOf <- ProfileActionsOf
    MatchesOf <- ProfileMatchesOf
    Hits <- MCHits
    Rank <- MCRank
    DefaultOnly <- MCDefaultOnly
    TableOnly <- MCTableOnly
    ParamActions <- MCParamActions
    ProgDefault <- MCProgDefault
    ProgArg <- MCProgArg
    ConstTables = {}
    InitEntries <- MCInitEntries
    MaxEntries = 2
    Api = "BFRUNTIME"
    ImplementedTables = {"acl", "tail"}
    Profiles = {"members"}
    Selectors = {"selector"}
    Members <- Members2
    AssociatedTables <- MCAssociated
    TableRank <- MCTableRank
    MemberMatch <- MCMemberMatch
    Messages <- ProfileMessages
    Cond <- MCCond
    Then <- MCThen
    Else <- MCElse
    EmptyBodies <- MCEmptyBodies
    UseSymbolSet = TRUE
    Server = FALSE
    EntryPoints = {"batch"}
    MaxRequests = 3
    MaxBatch = 2
SPECIFICATION Spec
INVARIANTS
    ReachabilityExact
    AssociatedTablesAgree
