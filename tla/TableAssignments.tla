--------------------------- MODULE TableAssignments ---------------------------
(***************************************************************************)
(* One TableConfiguration under the operations of its class, and the loop  *)
(* of computeControlPlaneAssignments, which wraps the assignments of every *)
(* entry around those of the entries before it, one turn at a time.  The   *)
(* result is compared with the closed form the other modules use.  Matches *)
(* may overlap here.                                                       *)
(***************************************************************************)
EXTENDS ControlPlaneObjects

CONSTANT Table  \* the table whose configuration is modelled

ASSUME TableAssumption == Table \in Tables

VARIABLES
    configuration,  \* the TableConfiguration
    computing,      \* computeControlPlaneAssignments is running
    remaining,      \* the entries its loop has not reached
    assignments     \* its local assignment set

vars == <<configuration, computing, remaining, assignments>>

-----------------------------------------------------------------------------
(* The variables a table assigns: its action choice and the argument of     *)
(* each of its actions.                                                     *)

ChoiceVariable == <<"choice">>

ArgVariable(a) == <<"arg", a>>

AssignedVariables == {ChoiceVariable} \cup {ArgVariable(a) : a \in ActionsOf[Table]}

Domain(v) == IF v = ChoiceVariable THEN Actions \cup {None} ELSE Args

\* What the default action assigns to variable v.
DefaultValue(c, v) == IF v = ChoiceVariable THEN c.dflt.choice ELSE c.dflt.args[v[2]]

\* What the entries assign to it, as a function of the entries that do.
EntryValues(c, v) ==
    IF v = ChoiceVariable
    THEN [m \in Installed(c) |-> c.entries[m].action]
    ELSE [m \in AssigningArg(c, v[2]) |-> c.entries[m].arg]

\* An assignment of one variable: absent, or a value set for every packet.
Absent == [present |-> FALSE, value |-> [k \in Packets |-> {}]]

Present(value) == [present |-> TRUE, value |-> value]

\* Mutant of AddConditionally: the later assignment overwrites the earlier one.
AddUnconditionally(assignment, m, value) ==
    Present([k \in Packets |-> {value}])

\* addConditionally: a variable that is already assigned is wrapped in a Mux on
\* the match of entry m; otherwise the assignment is used unconditionally.
AddConditionally(assignment, m, value) ==
    IF assignment.present
    THEN Present([k \in Packets |->
                    IF k \in Hits[m] THEN {value} ELSE assignment.value[k]])
    ELSE Present([k \in Packets |-> {value}])

\* setAllSymbolic: only variables that are assigned become symbolic.
SetSymbolic(assignment, domain) ==
    IF assignment.present THEN Present([k \in Packets |-> domain]) ELSE assignment

\* What a variable may be once the assignments are substituted: a variable
\* without assignment stays free.
Substituted(assignment, domain, k) ==
    IF assignment.present THEN assignment.value[k] ELSE domain

\* The assignments of the default action, with which the computation starts.
DefaultAssignments(c) ==
    [v \in AssignedVariables |->
        IF DefaultValue(c, v) = Unassigned THEN Absent
        ELSE Present([k \in Packets |-> {DefaultValue(c, v)}])]

-----------------------------------------------------------------------------
NoAssignments == [v \in AssignedVariables |-> Absent]

Init ==
    /\ configuration = InitialConfiguration(Table)
    /\ computing = FALSE
    /\ remaining = {}
    /\ assignments = NoAssignments

Calls == {call \in Call : /\ call.action \in ActionsOf[Table]
                          /\ call.action \notin ParamActions => call.arg = Unassigned}

\* An operation of the class; none is called while assignments are computed.
Operation == ~computing /\ UNCHANGED <<computing, remaining, assignments>>

AddEntry(m, call, replace) ==
    LET r == AddTableEntry(configuration, m, call, replace)
    IN  Operation /\ r.ok /\ configuration' = r.cfg

DeleteEntry(m) ==
    LET r == DeleteTableEntry(configuration, m)
    IN  Operation /\ r.ok /\ configuration' = r.cfg

Clear == Operation /\ configuration' = ClearTableEntries(configuration)

SetDefault(call) ==
    Operation /\ configuration' = SetDefaultTableAction(configuration, call)

\* computeControlPlaneAssignments before its loop.  With too many entries there is
\* nothing left to do.
BeginAssignments ==
    LET start == DefaultAssignments(configuration)
    IN  /\ ~computing
        /\ computing' = TRUE
        /\ IF TooManyEntries(configuration)
           THEN /\ assignments' = [v \in AssignedVariables |-> SetSymbolic(start[v], Domain(v))]
                /\ remaining' = {}
           ELSE /\ assignments' = start
                /\ remaining' = Installed(configuration)
        /\ UNCHANGED configuration

\* mergeConditionally: what entry m assigns is added to the set.
MergeConditionally(m) ==
    [v \in AssignedVariables |->
        LET value == EntryValues(configuration, v)
        IN  IF m \in DOMAIN value THEN AddConditionally(assignments[v], m, value[m])
            ELSE assignments[v]]

\* Mutant of MergeEntry: the entries are visited from the last one to the first.
MergeLastEntry(m) ==
    /\ computing
    /\ \A n \in remaining : Rank[n] <= Rank[m]
    /\ assignments' = MergeConditionally(m)
    /\ remaining' = remaining \ {m}
    /\ UNCHANGED <<configuration, computing>>

\* One turn of the loop, for the least entry of the set not seen yet.
MergeEntry(m) ==
    /\ computing
    /\ \A n \in remaining : Rank[m] <= Rank[n]
    /\ assignments' = MergeConditionally(m)
    /\ remaining' = remaining \ {m}
    /\ UNCHANGED <<configuration, computing>>

\* The loop is over, and the set is what the function returns.
Computed == computing /\ remaining = {}

Return ==
    /\ Computed
    /\ computing' = FALSE
    /\ assignments' = NoAssignments
    /\ UNCHANGED <<configuration, remaining>>

Next ==
    \/ \E m \in MatchesOf[Table], call \in Calls, replace \in BOOLEAN :
           AddEntry(m, call, replace)
    \/ \E m \in MatchesOf[Table] : DeleteEntry(m)
    \/ Clear
    \/ \E call \in Calls : SetDefault(call)
    \/ BeginAssignments
    \/ \E m \in remaining : MergeEntry(m)
    \/ Return

Spec == Init /\ [][Next]_vars

-----------------------------------------------------------------------------
\* The nested Muxes the loop of computeControlPlaneAssignments builds, in set
\* order and with the unconditional first assignment, give every variable for
\* every packet the values of the closed form: the greatest matching entry, or
\* the default, or the least entry that assigns the variable.
LoopMeetsClosedForm ==
    Computed =>
        \A k \in Packets :
            /\ Substituted(assignments[ChoiceVariable], Actions \cup {None}, k)
                 = ChoiceValues(configuration, k)
            /\ \A a \in ActionsOf[Table] :
                  Substituted(assignments[ArgVariable(a)], Args, k)
                    = ArgValues(configuration, a, k)

\* As long as no message has overridden the default action, the loop leaves as
\* action choice, for every packet that matches exactly one entry, the action of
\* that entry, and *NONE* for every packet that matches none: the value on which
\* hit, miss and the action conditions rest.
ChoiceIsLookup ==
    (Computed /\ configuration.dflt.choice = None /\ ~TooManyEntries(configuration)) =>
        \A k \in Packets :
            LET matching == {m \in Installed(configuration) : k \in Hits[m]}
                choice == Substituted(assignments[ChoiceVariable], Actions \cup {None}, k)
            IN  /\ matching = {} => choice = {None}
                /\ \A m \in matching : matching = {m} =>
                      choice = {configuration.entries[m].action}
=============================================================================
