CONSTANTS
    Tables <- MCTables
    Actions <- MCActions
    Args = {"v1", "v2"}
    Packets = {"p1", "p2"}
    Matches <- MCMatches
    ActionsOf <- MCActionsOf
    MatchesOf <- MCMatchesOf
    Hits <- MCHits
    Rank <- MCRank
    DefaultOnly <- NoAnnotations
    TableOnly <- NoAnnotations
    ParamActions = {"tag"}
    ProgDefault <- MCProgDefault
    ProgArg <- MCProgArg
    ConstTables = {}
    InitEntries <- MCInitEntries
    MaxEntries = 2
    Api = "P4RUNTIME"
    ImplementedTables = {}
    Profiles = {}
    Selectors = {}
    Members = {}
    AssociatedTables <- NoProfiles
    TableRank <- MCTableRank
    MemberMatch <- NoMembers
    Messages <- MCMessages
    Cond <- MCCond
    Then <- MCThen
    Else <- MCElse
    EmptyBodies = {"nop", "skip"}
    MaxWrites = 2
    Handlers = {h1, h2}
    MaxBatch = 2
SPECIFICATION Spec
INVARIANT QuiescentConsistent
CHECK_DEADLOCK FALSE
