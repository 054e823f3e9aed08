-------------------------- MODULE PartialEvaluation --------------------------
(***************************************************************************)
(* The incremental analysis: the reachability condition the data-plane     *)
(* analysis attaches to program nodes, the verdict these conditions get    *)
(* under the current control-plane assignments, the recomputation of the   *)
(* verdicts for a set of symbols, and the program the specializer produces *)
(* from the verdicts.                                                      *)
(*                                                                         *)
(* The P4 program is a control whose tables are applied either as a plain  *)
(* statement or as the condition of an if statement (t.apply().hit or      *)
(* t.apply().miss), nested as Then and Else say.  A condition is evaluated *)
(* semantically: simplification decides a condition exactly when it has    *)
(* the same value for all packets and all values of unassigned variables.  *)
(***************************************************************************)
EXTENDS ControlPlaneUpdate

CONSTANTS
    Cond,        \* [Tables -> {"none", "hit", "miss"}]: how a table is applied
    Then,        \* [Tables -> SUBSET Tables]: the conditions a table is nested under
    Else,        \* [Tables -> SUBSET Tables]: those whose else branch it is in
    EmptyBodies  \* the actions with an empty body

ASSUME ProgramAssumption ==
    /\ Cond \in [Tables -> {"none", "hit", "miss"}]
    /\ Then \in [Tables -> SUBSET {t \in Tables : Cond[t] # "none"}]
    /\ Else \in [Tables -> SUBSET {t \in Tables : Cond[t] # "none"}]
    /\ \A t \in Tables : t \notin Then[t] \cup Else[t]

\* Conditions are properly nested: what is nested under g is nested under
\* everything g is nested under.
ASSUME NestingAssumption ==
    \A t \in Tables : \A g \in Then[t] \cup Else[t] : Then[g] \subseteq Then[t]

-----------------------------------------------------------------------------
(* Conditions of the nodes, as functions of the values of the variables.    *)

\* totalHitCondition of processTableActionOptions.
TotalHitCondition(t, choice, active) ==
    active /\ choice \in ActionsOf[t] \ DefaultOnly[t]

\* actionHitCondition of processTableActionOptions.
ActionHitCondition(t, a, choice, default, active) ==
    \/ a \notin DefaultOnly[t] /\ choice = a
    \/ /\ a \notin TableOnly[t]
       /\ ~TotalHitCondition(t, choice, active)
       /\ default = a

\* The condition of the if statement that applies table t.
BranchCondition(t, hit) == IF Cond[t] = "hit" THEN hit ELSE ~hit

\* The values the condition of t's if statement may take for packet k.
BranchValues(constraints, t, k) ==
    {BranchCondition(t, TotalHitCondition(t, choice, active)) :
        choice \in ChoiceValues(constraints[t], k),
        active \in ActiveValues(constraints[t])}

\* The values the condition of action a of table t may take for packet k.
ActionValues(constraints, t, a, k) ==
    {ActionHitCondition(t, a, choice, default, active) :
        choice \in ChoiceValues(constraints[t], k),
        default \in DefaultValues(constraints[t]),
        active \in ActiveValues(constraints[t])}

BranchNode(t) == <<"branch", t>>

ActionNode(t, a) == <<"action", t, a>>

\* The nodes with a reachability mapping: the if statement (and the hit or miss
\* member in its condition) of every table applied in a condition, and every
\* element of an action list.
Nodes ==
    {BranchNode(t) : t \in {u \in Tables : Cond[u] # "none"}}
      \cup UNION {{ActionNode(t, a) : a \in ActionsOf[t]} : t \in Tables}

\* The symbols of the hit condition of a table.
HitSymbols(t) ==
    {ActiveSymbol(t)}
      \cup (IF ActionsOf[t] \subseteq DefaultOnly[t] THEN {} ELSE {ChoiceSymbol(t)})

\* Mutant of ReachabilitySymbols: the execution condition is not searched.
OwnSymbols(n) ==
    LET t == n[2]
    IN  IF n[1] = "branch" THEN HitSymbols(t)
        ELSE HitSymbols(t) \cup {DefaultSymbol(t)}

\* reachabilitySymbolMap, by node: the symbols SymbolCollector finds in the
\* condition of the node, the execution condition of its position included.
\* Only the true branch of an if statement extends the execution condition.
ReachabilitySymbols(n) ==
    LET t == n[2]
        a == n[3]
        own == IF n[1] = "branch" THEN HitSymbols(t)
               ELSE (IF a \in DefaultOnly[t] THEN {} ELSE {ChoiceSymbol(t)})
                    \cup (IF a \in TableOnly[t] THEN {}
                          ELSE HitSymbols(t) \cup {DefaultSymbol(t)})
    IN  own \cup UNION {HitSymbols(g) : g \in Then[t]}

-----------------------------------------------------------------------------
(* Verdicts: std::optional<bool> of a node.                                 *)

Verdicts == {"true", "false", "unknown"}

OwnValues(constraints, n, k) ==
    IF n[1] = "branch" THEN BranchValues(constraints, n[2], k)
    ELSE ActionValues(constraints, n[2], n[3], k)

CanHold(constraints, n) ==
    \E k \in Packets :
        /\ \A g \in Then[n[2]] : TRUE \in BranchValues(constraints, g, k)
        /\ TRUE \in OwnValues(constraints, n, k)

CanFail(constraints, n) ==
    \E k \in Packets :
        \/ \E g \in Then[n[2]] : FALSE \in BranchValues(constraints, g, k)
        \/ FALSE \in OwnValues(constraints, n, k)

\* The verdict computeNodeReachability gives node n.
NodeReachability(constraints, n) ==
    CASE ~CanHold(constraints, n) -> "false"
      [] ~CanFail(constraints, n) -> "true"
      [] OTHER                    -> "unknown"

\* The expressions with a substitution mapping: the uses of its parameter in
\* the body of an action of a table.
Expressions ==
    {e \in Tables \X Actions : e[2] \in ActionsOf[e[1]] \cap ParamActions}

\* What the expression is mapped to.  The default action of the program is
\* executed first, with its constant argument, and its mapping is kept when
\* the execution of the same body with the symbolic argument is merged.
ExpressionValues(constraints, e) ==
    IF e[2] = ProgDefault[e[1]] THEN {ProgArg[e[1]]}
    ELSE UNION {ArgValues(constraints[e[1]], e[2], k) : k \in Packets}

\* The constant computeNodeSubstitution finds for e, or Unassigned.
NodeSubstitution(constraints, e) ==
    IF \E v \in Args : ExpressionValues(constraints, e) = {v}
    THEN CHOOSE v \in Args : ExpressionValues(constraints, e) = {v}
    ELSE Unassigned

-----------------------------------------------------------------------------
(* Recomputation of the maps.                                               *)

\* Mutant of RecomputeReachability: the map keeps the recomputed nodes only.
RecomputedNodesOnly(reachability, symbolSet, constraints) ==
    [n \in {m \in Nodes : ReachabilitySymbols(m) \cap symbolSet # {}} |->
        NodeReachability(constraints, n)]

\* recomputeReachability(symbolSet, constraints).
RecomputeReachability(reachability, symbolSet, constraints) ==
    [n \in Nodes |-> IF ReachabilitySymbols(n) \cap symbolSet # {}
                     THEN NodeReachability(constraints, n)
                     ELSE reachability[n]]

\* Mutant of RecomputeSubstitution: a constant that is already in the map is kept
\* (emplace instead of an assignment).
KeepFirstConstant(substitution, symbolSet, constraints) ==
    [e \in Expressions |->
        IF ArgSymbol(e[1], e[2]) \in symbolSet /\ substitution[e] = Unassigned
        THEN NodeSubstitution(constraints, e)
        ELSE substitution[e]]

\* recomputeSubstitution(symbolSet, constraints).
RecomputeSubstitution(substitution, symbolSet, constraints) ==
    [e \in Expressions |-> IF ArgSymbol(e[1], e[2]) \in symbolSet
                           THEN NodeSubstitution(constraints, e)
                           ELSE substitution[e]]

\* The maps as initialize() computes them, for every node.
InitialReachability(constraints) ==
    [n \in Nodes |-> NodeReachability(constraints, n)]

InitialSubstitution(constraints) ==
    [e \in Expressions |-> NodeSubstitution(constraints, e)]

-----------------------------------------------------------------------------
(* The specialized program: what became of each table application, of each  *)
(* condition, and of each use of a parameter.                               *)

\* Mutant of SpecializedCall: an action without a definite verdict counts as
\* unreachable.
SpecializedCallEager(t, reachability) ==
    LET considered == ActionsOf[t] \ (DefaultOnly[t] \cup {ProgDefault[t]})
    IN  IF \/ Cond[t] # "none"
           \/ t \in ConstTables
           \/ \E a \in considered : reachability[ActionNode(t, a)] = "true"
        THEN "apply"
        ELSE IF ProgDefault[t] \in EmptyBodies THEN "removed" ELSE "default"

\* ElimDeadCode on a table applied as a statement.  The loop over the action
\* list skips the default action of the program.
SpecializedCall(t, reachability) ==
    LET considered == ActionsOf[t] \ (DefaultOnly[t] \cup {ProgDefault[t]})
    IN  IF \/ Cond[t] # "none"
           \/ t \in ConstTables
           \/ \E a \in considered : reachability[ActionNode(t, a)] # "false"
        THEN "apply"
        ELSE IF ProgDefault[t] \in EmptyBodies THEN "removed" ELSE "default"

\* ElimDeadCode on an if statement and on the hit or miss member in it: a
\* decided condition is replaced by a literal, and the application with it.
SpecializedBranch(t, reachability) ==
    IF Cond[t] = "none" THEN "unknown" ELSE reachability[BranchNode(t)]

\* FlaySpecializer: dead code elimination, then substitution of expressions.
Specialize(reachability, substitution) ==
    [call   |-> [t \in Tables |-> SpecializedCall(t, reachability)],
     branch |-> [t \in Tables |-> SpecializedBranch(t, reachability)],
     param  |-> substitution]

Programs ==
    [call   : [Tables -> {"apply", "default", "removed"}],
     branch : [Tables -> Verdicts],
     param  : [Expressions -> Args \cup {Unassigned}]]

\* The unspecialized program, in the same terms.
OriginalProgram ==
    [call   |-> [t \in Tables |-> "apply"],
     branch |-> [t \in Tables |-> "unknown"],
     param  |-> [e \in Expressions |-> Unassigned]]

-----------------------------------------------------------------------------
(* What a target executes for a packet (P4 semantics, external to Flay).    *)

\* The entries of table t that packet k matches.
MatchingEntries(constraints, t, k) ==
    {m \in Installed(constraints[t]) : k \in Hits[m]}

\* The call a table makes for packet k: that of the matching entry, or the
\* default action, which is the program's unless a message has set another.
LookupCall(constraints, t, k) ==
    LET c == constraints[t]
        matching == MatchingEntries(constraints, t, k)
    IN  IF matching # {} THEN c.entries[CHOOSE m \in matching : TRUE]
        ELSE IF c.dflt.default # None
        THEN [action |-> c.dflt.default, arg |-> c.dflt.args[c.dflt.default]]
        ELSE [action |-> ProgDefault[t], arg |-> ProgArg[t]]

\* The value of t's branch condition for packet k in program p.
BranchTaken(p, constraints, t, k) ==
    IF p.branch[t] = "unknown"
    THEN BranchCondition(t, MatchingEntries(constraints, t, k) # {})
    ELSE p.branch[t] = "true"

Reached(p, constraints, t, k) ==
    /\ \A g \in Then[t] : BranchTaken(p, constraints, g, k)
    /\ \A g \in Else[t] : ~BranchTaken(p, constraints, g, k)

\* The body that runs: its parameter may have been replaced by a constant.
Body(p, t, call) ==
    LET e == <<t, call.action>>
    IN  <<t, call.action, IF e \in Expressions /\ p.param[e] # Unassigned
                          THEN p.param[e] ELSE call.arg>>

\* The non-empty action bodies program p runs for packet k.
Effects(p, constraints, k) ==
    LET run == {t \in Tables : /\ Reached(p, constraints, t, k)
                               /\ p.call[t] # "removed"
                               /\ p.branch[t] = "unknown"}
        call(t) == IF p.call[t] = "default"
                   THEN [action |-> ProgDefault[t], arg |-> ProgArg[t]]
                   ELSE LookupCall(constraints, t, k)
    IN  {Body(p, t, call(t)) : t \in {u \in run : call(u).action \notin EmptyBodies}}
=============================================================================
