------------------------ MODULE MCConcurrentService --------------------------
(***************************************************************************)
(* Two Write handlers on the program if (fwd.apply().hit) { acl.apply(); },*)
(* where acl has an action with a parameter.  The nodes of acl depend on   *)
(* fwd, so that Writes to different tables may contest them.               *)
(***************************************************************************)
EXTENDS ConcurrentService

MCTables == {"fwd", "acl"}
MCActions == {"toPort", "nop", "tag", "skip"}
MCMatches == {"f1", "a1"}
MCActionsOf ==
    [t \in MCTables |-> IF t = "fwd" THEN {"toPort", "nop"} ELSE {"tag", "skip"}]
MCMatchesOf == [t \in MCTables |-> IF t = "fwd" THEN {"f1"} ELSE {"a1"}]
MCHits == [m \in MCMatches |-> {"p1"}]
MCRank == [m \in MCMatches |-> IF m = "f1" THEN 1 ELSE 2]
NoAnnotations == [t \in MCTables |-> {}]
MCProgDefault == [t \in MCTables |-> IF t = "fwd" THEN "nop" ELSE "skip"]
MCProgArg == [t \in MCTables |-> Unassigned]
MCInitEntries == [t \in MCTables |-> [m \in MCMatches |-> NoEntry]]
MCCond == [t \in MCTables |-> IF t = "fwd" THEN "hit" ELSE "none"]
MCThen == [t \in MCTables |-> IF t = "acl" THEN {"fwd"} ELSE {}]
MCElse == [t \in MCTables |-> {}]
MCTableRank == [t \in MCTables |-> IF t = "acl" THEN 1 ELSE 2]
NoProfiles == [p \in {} |-> {}]
NoMembers == [t \in MCTables |-> [m \in {} |-> BadMatch]]

Msg(table, type, match, action, arg) ==
    [table |-> table, type |-> type, isDefault |-> FALSE, match |-> match,
     action |-> action, arg |-> arg]

\* Inserting an entry twice and deleting one that is not there fail.
MCMessages ==
    {Msg("fwd", type, "f1", "toPort", Unassigned) : type \in {"INSERT", "DELETE"}}
    \cup {Msg("acl", "MODIFY", "a1", "tag", arg) : arg \in {"v1", "v2"}}
=============================================================================
