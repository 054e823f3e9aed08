-------------------------- MODULE SwitchElimination --------------------------
(***************************************************************************)
(* Dead code elimination in a switch statement (ElimDeadCode::preorder of  *)
(* SwitchStatement): the loop over the cases that drops the unreachable    *)
(* ones, stops at one that is always taken, and moves the statement of a   *)
(* dropped case to the fall-through labels before it.                      *)
(*                                                                         *)
(* A switch is a sequence of cases; a case has a label and a statement, or *)
(* no statement and falls through.  The data-plane analysis knows the set  *)
(* of values the switch expression may take; the verdict of a case is that *)
(* of the expression being equal to its label.                             *)
(***************************************************************************)
EXTENDS Integers, Sequences, SequencesExt

CONSTANTS
    Labels,           \* labels of cases, Default not among them
    MaxCases,         \* bound: number of cases
    DeadFallThrough   \* FALSE: a label that falls through and comes right after
                      \* a case with a statement is reachable

Default == "default"

\* switchCase->statement == nullptr.
NoStatement == 0

\* No label of the switch.
Other == "other"

ASSUME SwitchAssumption ==
    /\ Default \notin Labels /\ Other \notin Labels
    /\ MaxCases \in Nat
    /\ DeadFallThrough \in BOOLEAN

\* The statement of case i is i itself, so that all statements differ.
Case == [label : Labels \cup {Default}, statement : 0..MaxCases]

VARIABLES
    cases,         \* switchStmt->cases
    possible,      \* values of the switch expression
    index,         \* position of the loop
    filtered,      \* filteredSwitchCases
    fallThrough,   \* previousFallThrough
    replacement    \* cases of the returned statement; <<>> while in the loop

vars == <<cases, possible, index, filtered, fallThrough, replacement>>

-----------------------------------------------------------------------------
(* Switch statements and their meaning (P4 semantics, external to Flay).    *)

\* Labels are distinct, and default, if there is one, is last and has a body.
Switches ==
    {s \in UNION {[1..n -> Case] : n \in 1..MaxCases} :
        \A i \in 1..Len(s) :
            /\ s[i].statement \in {NoStatement, i}
            /\ \A j \in 1..(i - 1) : s[j].label # s[i].label
            /\ s[i].label = Default => i = Len(s) /\ s[i].statement = i}

\* The statement a switch runs for value v: that of the case with this label,
\* or of the default case, or the next one if the case falls through.
Executed(s, v) ==
    LET hit == {i \in 1..Len(s) : s[i].label = v}
        at == IF hit # {} THEN hit ELSE {i \in 1..Len(s) : s[i].label = Default}
        bodies == {j \in 1..Len(s) : s[j].statement # NoStatement /\ \A i \in at : j >= i}
    IN  IF at = {} \/ bodies = {} THEN NoStatement
        ELSE s[CHOOSE j \in bodies : \A k \in bodies : j <= k].statement

-----------------------------------------------------------------------------
\* The verdict of the reachability map for a case that is not the default.
Reachability(c) ==
    IF c.label \notin possible THEN "false"
    ELSE IF possible = {c.label} THEN "true"
    ELSE "unknown"

Init ==
    /\ cases \in Switches
    /\ possible \in SUBSET (Labels \cup {Other}) \ {{}}
    /\ \/ DeadFallThrough
       \/ \A i \in 2..Len(cases) :
             (cases[i].statement = NoStatement /\ cases[i - 1].statement # NoStatement)
                => cases[i].label \in possible
    /\ index = 1
    /\ filtered = <<>>
    /\ fallThrough = FALSE
    /\ replacement = <<>>

InLoop == replacement = <<>> /\ index <= Len(cases)

Current == cases[index]

\* The loop is over: what preorder returns.  A switch without cases becomes an
\* empty statement, one with the default case only becomes its statement.
Return(kept) ==
    replacement' = <<IF kept = <<>> THEN "empty"
                     ELSE IF Len(kept) = 1 /\ kept[1].label = Default THEN "block"
                     ELSE "switch", kept>>

\* push_back, and continue with the next case.
Keep ==
    /\ filtered' = Append(filtered, Current)
    /\ fallThrough' = (Current.statement = NoStatement)
    /\ index' = index + 1
    /\ UNCHANGED <<cases, possible, replacement>>

KeepDefault ==
    /\ InLoop
    /\ Current.label = Default
    /\ filtered' = Append(filtered, Current)
    /\ Return(filtered')
    /\ UNCHANGED <<cases, possible, index, fallThrough>>

KeepUndecided ==
    /\ InLoop
    /\ Current.label # Default
    /\ Reachability(Current) = "unknown"
    /\ Keep

\* A case that is always taken ends the loop, unless it falls through.
KeepAlways ==
    /\ InLoop
    /\ Current.label # Default
    /\ Reachability(Current) = "true"
    /\ \/ Current.statement = NoStatement /\ Keep
       \/ /\ Current.statement # NoStatement
          /\ filtered' = Append(filtered, Current)
          /\ fallThrough' = FALSE
          /\ Return(filtered')
          /\ UNCHANGED <<cases, possible, index>>

\* Mutant of Merged: the statement of a dropped case is lost.
NeverMerged(c) == filtered

\* The cases left when case c is dropped: if the case before it fell through,
\* the last case that was kept takes its statement.
Merged(c) ==
    IF fallThrough /\ filtered # <<>> /\ c.statement # NoStatement
    THEN Append(Front(filtered), [Last(filtered) EXCEPT !.statement = c.statement])
    ELSE filtered

Drop ==
    /\ InLoop
    /\ Current.label # Default
    /\ Reachability(Current) = "false"
    /\ filtered' = Merged(Current)
    /\ fallThrough' = (Current.statement = NoStatement)
    /\ index' = index + 1
    /\ UNCHANGED <<cases, possible, replacement>>

EndOfLoop ==
    /\ replacement = <<>>
    /\ index > Len(cases)
    /\ Return(filtered)
    /\ UNCHANGED <<cases, possible, index, filtered, fallThrough>>

Next == KeepDefault \/ KeepUndecided \/ KeepAlways \/ Drop \/ EndOfLoop

Spec == Init /\ [][Next]_vars

-----------------------------------------------------------------------------
\* What runs in place of the switch for value v.
ExecutedAfter(v) ==
    CASE replacement[1] = "empty" -> NoStatement
      [] replacement[1] = "block" -> replacement[2][1].statement
      [] OTHER                    -> Executed(replacement[2], v)

\* For every value the switch expression may take, the statement that replaces
\* the switch runs the body the switch ran: dropping cases, stopping at a case
\* that is always taken and moving statements to fall-through labels agree.
SwitchPreserved ==
    replacement # <<>> => \A v \in possible : ExecutedAfter(v) = Executed(cases, v)
=============================================================================
