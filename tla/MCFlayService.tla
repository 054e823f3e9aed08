---------------------------- MODULE MCFlayService ----------------------------
(***************************************************************************)
(* Instances of FlayService for TLC.  The program, in P4:                  *)
(*                                                                         *)
(*     if (fwd.apply().hit) { acl.apply(); } else { tail.apply(); }        *)
(*                                                                         *)
(* fwd and acl have exact keys (match f1 for packet p1; a1, a2, a3 for    *)
(* p1, p2, p3), tail has no key.                                           *)
(***************************************************************************)
EXTENDS FlayRefinement

\* The instance of the wrapper is one the theorems on equivalence are about.
ASSUME WrapperAdmissible == (Api = "P4RUNTIME" /\ ~Server) => Admissible

MCTables == {"fwd", "acl", "tail"}
MCActions == {"toPort", "nop", "deny", "tag", "skip", "mark", "count"}
MCArgs == {"v1", "v2"}
MCPackets == {"p1", "p2", "p3"}
MCMatches == {"f1", "a1", "a2", "a3", "x0", "t1", "t2"}

MCActionsOf ==
    [t \in MCTables |-> CASE t = "fwd"  -> {"toPort", "nop"}
                          [] t = "acl"  -> {"deny", "tag", "skip"}
                          [] t = "tail" -> {"mark", "count"}]
MCMatchesOf ==
    [t \in MCTables |-> CASE t = "fwd"  -> {"f1"}
                          [] t = "acl"  -> {"a1", "a2", "a3"}
                          [] t = "tail" -> {"x0"}]
MCHits ==
    [m \in MCMatches |-> CASE m \in {"f1", "a1", "t1"} -> {"p1"}
                           [] m \in {"a2", "t2"} -> {"p2"}
                           [] m = "a3" -> {"p3"}
                           [] m = "x0" -> {}]
MCRank == [m \in MCMatches |-> CASE m = "f1" -> 1 [] m = "a1" -> 2
                                 [] m = "a2" -> 3 [] m = "a3" -> 4
                                 [] m = "x0" -> 5 [] m = "t1" -> 6
                                 [] m = "t2" -> 7]
MCDefaultOnly == [t \in MCTables |-> IF t = "acl" THEN {"skip"} ELSE {}]
MCTableOnly == [t \in MCTables |-> IF t = "acl" THEN {"tag"} ELSE {}]
MCParamActions == {"toPort", "tag"}
MCProgDefault ==
    [t \in MCTables |-> CASE t = "fwd" -> "nop" [] t = "acl" -> "skip"
                          [] t = "tail" -> "mark"]
MCProgArg == [t \in MCTables |-> Unassigned]
MCInitEntries == [t \in MCTables |-> [m \in MCMatches |-> NoEntry]]
MCCond == [t \in MCTables |-> IF t = "fwd" THEN "hit" ELSE "none"]
MCThen == [t \in MCTables |-> IF t = "acl" THEN {"fwd"} ELSE {}]
MCElse == [t \in MCTables |-> IF t = "tail" THEN {"fwd"} ELSE {}]
MCEmptyBodies == {"nop", "skip"}
MCTableRank == [t \in MCTables |-> CASE t = "acl" -> 1 [] t = "fwd" -> 2
                                     [] t = "tail" -> 3]
NoProfiles == [p \in {} |-> {}]
NoMembers == [t \in MCTables |-> [m \in {} |-> BadMatch]]

\* Variant: the default action of acl is tag(v1), which entries may run too.
TagDefault == [MCProgDefault EXCEPT !["acl"] = "tag"]
TagDefaultArg == [MCProgArg EXCEPT !["acl"] = "v1"]
NoAnnotations == [t \in MCTables |-> {}]

-----------------------------------------------------------------------------
(* Messages.                                                                *)

Msg(table, type, isDefault, match, action, arg) ==
    [table |-> table, type |-> type, isDefault |-> isDefault, match |-> match,
     action |-> action, arg |-> arg]

Types == {"INSERT", "MODIFY", "DELETE"}

AclMessages ==
    {Msg("acl", type, FALSE, match, "deny", Unassigned) :
        type \in Types, match \in MCMatchesOf["acl"]}
      \cup {Msg("acl", type, FALSE, match, "tag", arg) :
        type \in Types \ {"DELETE"}, match \in MCMatchesOf["acl"], arg \in MCArgs}

FwdMessages ==
    {Msg("fwd", type, FALSE, "f1", "toPort", "v1") : type \in Types}

\* tail has no key: its default action is set by messages that are applied as
\* an entry with an empty match as well.
TailMessages ==
    {Msg("tail", type, TRUE, "x0", action, Unassigned) :
        type \in Types, action \in {"mark", "count"}}

BadMessages ==
    {Msg("acl", "INSERT", FALSE, BadMatch, "deny", Unassigned),
     Msg("acl", "MODIFY", TRUE, BadMatch, "deny", Unassigned)}

\* BFRuntime: the same entries, and a DELETE without data for each table.
ClearMessages ==
    {Msg(t, "DELETE", FALSE, BadMatch, NoData, Unassigned) : t \in {"acl", "fwd"}}

FewMessages ==
    {Msg("acl", "INSERT", FALSE, "a1", "deny", Unassigned),
     Msg("fwd", "INSERT", FALSE, "f1", "toPort", "v1")}

BfMessages == FewMessages \cup ClearMessages

ServerMessages == FewMessages \cup BadMessages

MCMessages == AclMessages \cup FwdMessages \cup TailMessages

-----------------------------------------------------------------------------
(* BFRuntime with an action profile: acl and tail are associated with       *)
(* members, and both have an exact key and the actions of acl.  tail is     *)
(* reached after a miss of fwd, acl after a hit.                            *)

ProfileActionsOf == [MCActionsOf EXCEPT !["tail"] = @ \cup {"deny", "tag"}]
ProfileMatchesOf == [MCMatchesOf EXCEPT !["tail"] = {"t1", "t2"}]
Members2 == {"mem1", "mem2"}
MCAssociated == [p \in {"members"} |-> {"acl", "tail"}]
MCMemberMatch ==
    [t \in MCTables |-> [m \in Members2 |->
        CASE t = "acl"  -> IF m = "mem1" THEN "a1" ELSE "a2"
          [] t = "tail" -> IF m = "mem1" THEN "t1" ELSE "t2"
          [] OTHER      -> BadMatch]]

\* No message deletes all entries at once: that reports no symbol.
ProfileMessages ==
    {Msg("members", type, FALSE, match, "deny", Unassigned) :
        type \in Types, match \in Members2}
      \cup {Msg("members", "MODIFY", FALSE, match, "tag", arg) :
        match \in Members2, arg \in MCArgs}
      \cup {Msg("members", "MODIFY", TRUE, "mem1", "deny", Unassigned),
            Msg("members", "INSERT", FALSE, BadMatch, "deny", Unassigned),
            Msg("acl", "INSERT", TRUE, "a1", "deny", Unassigned),
            Msg("tail", "DELETE", FALSE, "t1", "deny", Unassigned),
            Msg("selector", "INSERT", FALSE, "mem1", "deny", Unassigned),
            Msg(BadTable, "INSERT", FALSE, "f1", "deny", Unassigned)}
      \cup {Msg("fwd", type, FALSE, "f1", "toPort", "v1") : type \in {"INSERT", "DELETE"}}
=============================================================================
