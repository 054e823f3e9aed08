CONSTANTS
    Tables <- MCTables
    Actions <- MCActions
    Args <- MCArgs
    Packets <- MCPackets
    Matches <- MCMatches
    ActionsOf <- MCActionsOf
    MatchesOf <- MCMatchesOf
    Hits <- MCHits
    Rank <- MCRank
    DefaultOnly <- MCDefaultOnly
    TableOnly <- MCTableOnly
    ParamActions <- MCParamActions
    ProgDefault <- MCProgDefault
    ProgArg <- MCProgArg
    ConstTables = {}
    InitEntries <- MCInitEntries
    MaxEntries = 2
    Api = "P4RUNTIME"
    ImplementedTables = {}
    Profiles = {}
    Selectors = {}
    Members = {}
    AssociatedTables <- NoProfiles
    TableRank <- MCTableRank
    MemberMatch <- NoMembers
    Messages <- ServerMessages
    Cond <- MCCond
    Then <- MCThen
    Else <- MCElse
    EmptyBodies <- MCEmptyBodies
    UseSymbolSet = FALSE
    Server = TRUE
    EntryPoints = {"batch", "single"}
    MaxRequests = 4
    MaxBatch = 2
SPECIFICATION FairSpec
PROPERTIES
    FailureKeepsProgram
    RequestAnswered
