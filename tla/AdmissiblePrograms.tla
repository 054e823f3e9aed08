-------------------------- MODULE AdmissiblePrograms --------------------------
(***************************************************************************)
(* Programs and controllers for which the optimized program is meant to be *)
(* equivalent to the original one.  Each condition excludes a behaviour of *)
(* the analysis or of the specializer that is known to change a program;   *)
(* the README names the code.                                              *)
(***************************************************************************)
EXTENDS PartialEvaluation

\* What table t runs when no entry matches and no message has set another action.
ProgCall(t) == [action |-> ProgDefault[t], arg |-> ProgArg[t]]

\* The messages that can be converted for table t: its own, unless they are
\* skipped, and those of the action profiles it is associated with.
TableMessages(t) ==
    {msg \in {msg \in Messages : msg.table = t} :
        ~(Api = "BFRUNTIME" /\ t \in SkippedTables) /\ ConvertibleEntry(msg)}
      \cup {msg \in {ForTable(m, t) : m \in {n \in Messages :
                        n.table \in Profiles /\ t \in AssociatedTables[n.table]}} :
               Api = "BFRUNTIME" /\ ConvertibleEntry(msg)}

\* Entries call an action of the table that entries may call, with an argument
\* exactly if it has a parameter.  They call the default action of the program
\* with its argument only: the specializer does not tell such a call from another
\* one, and the parameter keeps the constant of the default call.
EntryCall(t, call) ==
    /\ call.action \in ActionsOf[t] \ DefaultOnly[t]
    /\ call.arg = Unassigned <=> call.action \notin ParamActions
    /\ call.action = ProgDefault[t] => call = ProgCall(t)

\* A default action set by a message has no parameter, unless it is the program's
\* own, and it is one that the specializer looks at.
DefaultCall(t, call) ==
    /\ call.action \in ActionsOf[t]
    /\ call.action \in DefaultOnly[t] \cup ParamActions => call.action = ProgDefault[t]
    /\ call.action = ProgDefault[t] => call = ProgCall(t)

SetsDefault(t) == \E msg \in TableMessages(t) : msg.isDefault

AdmissibleMessages ==
    \A t \in Tables :
        /\ \A msg \in TableMessages(t) :
              msg.type \in {"INSERT", "MODIFY"} => EntryCall(t, CallOf(msg))
        /\ \A m \in Matches : InitEntries[t][m] # NoEntry =>
              m \in MatchesOf[t] /\ EntryCall(t, InitEntries[t][m])
        \* Default actions are set for a table without a key, that is with one
        \* match at most, and for such a table by all messages.
        /\ SetsDefault(t) =>
              /\ Cond[t] = "none"
              /\ \A m, n \in MatchesOf[t] : m = n
              /\ \A msg \in TableMessages(t) : msg.isDefault /\ DefaultCall(t, CallOf(msg))

\* Entries of one table match different packets.  An entry that no packet matches
\* (that of a table without a key) has no argument of its own.
AdmissibleMatches ==
    \A t \in Tables :
        /\ \A m, n \in MatchesOf[t] : m # n => Hits[m] \cap Hits[n] = {}
        /\ \A m \in MatchesOf[t] :
              Hits[m] = {} => ActionsOf[t] \cap ParamActions \subseteq {ProgDefault[t]}

\* A condition on a table that is decided takes the application of the table with
\* it.  So nothing is lost only if all actions of the table are empty, or if a
\* miss runs an empty action and the analysis never decides for a hit, because
\* some packet misses whatever is installed.
AdmissibleConditions ==
    \A t \in Tables : Cond[t] # "none" =>
        \/ ActionsOf[t] \subseteq EmptyBodies
        \/ /\ ProgDefault[t] \in EmptyBodies
           /\ \E k \in Packets : \A m \in MatchesOf[t] : k \notin Hits[m]
           /\ Cond[t] = "hit" \/ Then[t] = {}

Admissible == AdmissibleMessages /\ AdmissibleMatches /\ AdmissibleConditions
=============================================================================
