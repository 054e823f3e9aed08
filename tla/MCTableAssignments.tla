-------------------------- MODULE MCTableAssignments --------------------------
(***************************************************************************)
(* A ternary table: match m4 covers every packet, m1 and m2 overlap on p2. *)
(* With MaxEntries = 3, four entries make the table symbolic.              *)
(***************************************************************************)
EXTENDS TableAssignments

MCActionsOf == [t \in {"acl"} |-> {"deny", "tag"}]
MCMatches == {"m1", "m2", "m3", "m4"}
MCMatchesOf == [t \in {"acl"} |-> MCMatches]
MCHits ==
    [m \in MCMatches |-> CASE m = "m1" -> {"p1", "p2"} [] m = "m2" -> {"p2"}
                           [] m = "m3" -> {"p3"} [] m = "m4" -> {"p1", "p2", "p3", "p4"}]
MCRank == [m \in MCMatches |-> CASE m = "m1" -> 2 [] m = "m2" -> 1
                                 [] m = "m3" -> 4 [] m = "m4" -> 3]
MCNone == [t \in {"acl"} |-> {}]
MCProgDefault == [t \in {"acl"} |-> "tag"]
MCProgArg == [t \in {"acl"} |-> "v1"]
MCInitEntries == [t \in {"acl"} |-> [m \in MCMatches |-> NoEntry]]
=============================================================================
