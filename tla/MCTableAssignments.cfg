CONSTANTS
    Table = "acl"
    Tables = {"acl"}
    Actions = {"deny", "tag"}
    Args = {"v1", "v2"}
    Packets = {"p1", "p2", "p3", "p4"}
    Matches <- MCMatches
    ActionsOf <- MCActionsOf
    MatchesOf <- MCMatchesOf
    Hits <- MCHits
    Rank <- MCRank
    DefaultOnly <- MCNone
    TableOnly <- MCNone
    ParamActions = {"tag"}
    ProgDefault <- MCProgDefault
    ProgArg <- MCProgArg
    ConstTables = {}
    InitEntries <- MCInitEntries
    MaxEntries = 3
SPECIFICATION Spec
INVARIANTS
    LoopMeetsClosedForm
    ChoiceIsLookup
