------------------------- MODULE ControlPlaneObjects -------------------------
(***************************************************************************)
(* The control-plane configuration Flay keeps for every match-action table *)
(* (class TableConfiguration) and the control-plane assignments it derives *)
(* from it: which value the symbolic variables of a table take for a       *)
(* packet (computeControlPlaneAssignments / computeZ3ControlPlaneAssign-   *)
(* ments).                                                                 *)
(*                                                                         *)
(* Data are abstracted to what the analysis tells apart.  A packet stands  *)
(* for one valuation of all data-plane expressions used as table keys; a   *)
(* match stands for one set of match assignments of an entry, and Hits[m]  *)
(* is the set of packets for which the substituted key match of the table  *)
(* holds.  An action has at most one parameter.                            *)
(***************************************************************************)
EXTENDS Integers, FiniteSets

CONSTANTS
    Tables,        \* the tables of the program
    Actions,       \* control-plane names of actions (localised: one table each)
    Args,          \* values of an action parameter
    Packets,       \* valuations of the data-plane key expressions
    Matches,       \* distinct match assignments of table entries
    ActionsOf,     \* [Tables -> SUBSET Actions]: the action list of a table
    MatchesOf,     \* [Tables -> SUBSET Matches]: matches a message may name
    Hits,          \* [Matches -> SUBSET Packets]; {} for a table without a key
    Rank,          \* [Matches -> Nat]: order of std::set<TableMatchEntry>
    DefaultOnly,   \* [Tables -> SUBSET Actions]: marked @defaultonly
    TableOnly,     \* [Tables -> SUBSET Actions]: marked @tableonly
    ParamActions,  \* the actions that have a parameter
    ProgDefault,   \* [Tables -> Actions]: default_action of the P4 program
    ProgArg,       \* [Tables -> Args or Unassigned]: its argument
    ConstTables,   \* tables with const entries
    InitEntries,   \* entries declared in the program: table |-> match |-> call
    MaxEntries     \* kMaxEntriesPerTable

\* The literal of the action choice when no entry matched.
None == "*NONE*"

\* A symbolic variable for which an assignment set has no assignment.
Unassigned == "unassigned"

\* What an entry or a default action executes: an action and its argument.
\* An argument is Unassigned for an action without parameter, and for one
\* whose message carried the wrong number of parameters.
Call == [action : Actions, arg : Args \cup {Unassigned}]

NoEntry == [action |-> Unassigned, arg |-> Unassigned]

ASSUME ActionsAssumption ==
    /\ ActionsOf \in [Tables -> SUBSET Actions]
    /\ None \notin Actions
    /\ Unassigned \notin Actions \cup Args
    /\ ProgDefault \in [Tables -> Actions]
    /\ \A t \in Tables : ProgDefault[t] \in ActionsOf[t]
    /\ ProgArg \in [Tables -> Args \cup {Unassigned}]

\* The frontend rejects an action that is both @defaultonly and @tableonly; a
\* table whose entries can run no action at all is not considered.
ASSUME AnnotationsAssumption ==
    /\ DefaultOnly \in [Tables -> SUBSET Actions]
    /\ TableOnly \in [Tables -> SUBSET Actions]
    /\ \A t \in Tables : DefaultOnly[t] \cap TableOnly[t] = {}
    /\ \A t \in Tables : \E a \in ActionsOf[t] : a \notin DefaultOnly[t]

ASSUME MatchesAssumption ==
    /\ MatchesOf \in [Tables -> SUBSET Matches]
    /\ Hits \in [Matches -> SUBSET Packets]
    /\ Rank \in [Matches -> Nat]
    /\ \A m, n \in Matches : Rank[m] = Rank[n] => m = n
    /\ InitEntries \in [Tables -> [Matches -> Call \cup {NoEntry}]]
    /\ MaxEntries \in Nat

-----------------------------------------------------------------------------
(* TableDefaultAction: the assignment set of the default action.            *)

DefaultAssignment ==
    [choice  : {None, Unassigned},
     default : Actions \cup {None},
     args    : [Actions -> Args \cup {Unassigned}]]

\* Assignments of the program's own default action.
ComputeDefaultActionConstraints(t) ==
    [choice  |-> None,
     default |-> None,
     args    |-> [a \in Actions |->
                    IF a = ProgDefault[t] THEN ProgArg[t] ELSE Unassigned]]

\* Assignments of a default action set by a control-plane message: only the
\* default action and its argument are assigned.
OverrideAssignment(call) ==
    [choice  |-> Unassigned,
     default |-> call.action,
     args    |-> [a \in Actions |->
                    IF a = call.action THEN call.arg ELSE Unassigned]]

-----------------------------------------------------------------------------
(* TableConfiguration: the default action and the set of entries.  Entries  *)
(* are compared by their match only, so there is one call per match.        *)

TableConfiguration ==
    [dflt : DefaultAssignment, entries : [Matches -> Call \cup {NoEntry}]]

InitialConfiguration(t) ==
    [dflt |-> ComputeDefaultActionConstraints(t), entries |-> InitEntries[t]]

Installed(c) == {m \in Matches : c.entries[m] # NoEntry}

\* addTableEntry: erase an equal entry when replacing, then emplace.
AddTableEntry(c, m, call, replace) ==
    IF replace \/ m \notin Installed(c)
    THEN [ok |-> TRUE, cfg |-> [c EXCEPT !.entries[m] = call]]
    ELSE [ok |-> FALSE, cfg |-> c]

\* deleteTableEntry: fails when no entry has this match.
DeleteTableEntry(c, m) ==
    [ok |-> m \in Installed(c), cfg |-> [c EXCEPT !.entries[m] = NoEntry]]

ClearTableEntries(c) == [c EXCEPT !.entries = [m \in Matches |-> NoEntry]]

SetDefaultTableAction(c, call) == [c EXCEPT !.dflt = OverrideAssignment(call)]

-----------------------------------------------------------------------------
(* The control-plane assignments.  A variable that is not assigned, or that *)
(* was made symbolic because the table has too many entries, may take every *)
(* value of its domain; so a variable has a set of possible values.         *)

TooManyEntries(c) == Cardinality(Installed(c)) > MaxEntries

LastOf(S) == CHOOSE m \in S : \A n \in S : Rank[n] <= Rank[m]

FirstOf(S) == CHOOSE m \in S : \A n \in S : Rank[m] <= Rank[n]

\* The values of a variable for packet k.  The entries m in the domain of value
\* assign value[m] to it, in the order of the set: each assignment wraps the
\* previous one in a Mux on the match of its entry, except that the first
\* assignment of a variable the default does not assign is taken unconditionally.
AssignedValues(c, base, value, domain, k) ==
    LET matching == {m \in DOMAIN value : k \in Hits[m]}
    IN  IF TooManyEntries(c)        THEN domain
        ELSE IF matching # {}       THEN {value[LastOf(matching)]}
        ELSE IF base # Unassigned   THEN {base}
        ELSE IF DOMAIN value # {}   THEN {value[FirstOf(DOMAIN value)]}
        ELSE domain

\* Possible values of the action choice variable for packet k.
ChoiceValues(c, k) ==
    AssignedValues(c, c.dflt.choice, [m \in Installed(c) |-> c.entries[m].action],
                   Actions \cup {None}, k)

\* The entries that assign the argument of action a.
AssigningArg(c, a) ==
    {m \in Installed(c) : c.entries[m].action = a /\ c.entries[m].arg # Unassigned}

\* Possible values of the argument variable of action a for packet k.
ArgValues(c, a, k) ==
    AssignedValues(c, c.dflt.args[a], [m \in AssigningArg(c, a) |-> c.entries[m].arg],
                   Args, k)

\* Possible values of the default action variable.
DefaultValues(c) ==
    IF TooManyEntries(c) THEN Actions \cup {None} ELSE {c.dflt.default}

\* Possible values of the variable saying that the table has entries.
ActiveValues(c) ==
    IF TooManyEntries(c) THEN BOOLEAN ELSE {Installed(c) # {}}
=============================================================================
