-------------------------- MODULE ConcurrentService --------------------------
(***************************************************************************)
(* The gRPC server with several Write handlers at the same time.  gRPC     *)
(* calls FlayService::Write on threads of its own; the handlers share the  *)
(* constraints, both maps, the optimized program and the global error      *)
(* count, and no lock orders them.                                         *)
(*                                                                         *)
(* A handler reads shared state, computes on what it read and writes the   *)
(* result.  Each read and each write of a whole object (one conversion, a  *)
(* map, the program pointer) is one step here; tearing within an object,   *)
(* which the unsynchronized containers also allow, is left out.            *)
(***************************************************************************)
EXTENDS PartialEvaluation

CONSTANTS
    Handlers,    \* Write calls that may be in progress at the same time
    MaxWrites,   \* bound: number of Write calls
    MaxBatch     \* bound: number of updates in a Write

ASSUME HandlersAssumption ==
    /\ Handlers # {}
    /\ MaxWrites \in Nat
    /\ MaxBatch \in Nat

VARIABLES
    constraints,    \* _controlPlaneConstraints
    reachability,   \* _reachabilityMap
    substitution,   \* _substitutionMap
    optimized,      \* _optimizedProgram
    hasErrors,      \* errorCount() > 0
    stage,          \* stage of each handler
    remaining,      \* updates each handler still has to convert
    symbolSet,      \* symbols each handler has collected
    assignments,    \* the constraints each handler computes its assignments from
    changed,        \* whether a handler has seen a verdict change
    pending,        \* the program a handler has specialized but not stored yet
    writes,         \* number of Write calls so far (bound only)
    contested,      \* history: nodes two handlers in progress had symbols of
    overlapped      \* history: two specializations overlapped

shared == <<constraints, reachability, substitution, optimized, hasErrors>>

locals == <<stage, remaining, symbolSet, assignments, changed, pending>>

history == <<contested, overlapped>>

vars == <<shared, locals, writes, history>>

Stages == {"idle", "convert", "reachability", "substitute", "substitution",
           "specialize", "store"}

InitialConstraints == [t \in Tables |-> InitialConfiguration(t)]

Init ==
    /\ constraints = InitialConstraints
    /\ reachability = InitialReachability(constraints)
    /\ substitution = InitialSubstitution(constraints)
    /\ optimized = Specialize(reachability, substitution)
    /\ hasErrors = FALSE
    /\ stage = [h \in Handlers |-> "idle"]
    /\ remaining = [h \in Handlers |-> 0]
    /\ symbolSet = [h \in Handlers |-> {}]
    /\ assignments = [h \in Handlers |-> InitialConstraints]
    /\ changed = [h \in Handlers |-> FALSE]
    /\ pending = [h \in Handlers |-> OriginalProgram]
    /\ writes = 0
    /\ contested = {}
    /\ overlapped = FALSE

Goto(h, s) == stage' = [stage EXCEPT ![h] = s]

\* The handler returns OK or INTERNAL; its locals are gone.
Return(h) ==
    /\ Goto(h, "idle")
    /\ remaining' = [remaining EXCEPT ![h] = 0]
    /\ symbolSet' = [symbolSet EXCEPT ![h] = {}]
    /\ assignments' = [assignments EXCEPT ![h] = InitialConstraints]
    /\ changed' = [changed EXCEPT ![h] = FALSE]
    /\ pending' = [pending EXCEPT ![h] = OriginalProgram]

\* A Write with n updates arrives.
Write(h, n) ==
    /\ stage[h] = "idle"
    /\ writes < MaxWrites
    /\ Goto(h, "convert")
    /\ remaining' = [remaining EXCEPT ![h] = n]
    /\ writes' = writes + 1
    /\ UNCHANGED <<shared, symbolSet, assignments, changed, pending, history>>

Mentions(n, symbols) == ReachabilitySymbols(n) \cap symbols # {}

\* Mutant of ConvertUpdate: the symbols of an update replace those before it.
ConvertKeepsLast(h, msg) ==
    /\ stage[h] = "convert"
    /\ remaining[h] > 0
    /\ LET converted == ConvertControlPlaneUpdate(constraints, msg)
       IN  /\ constraints' = converted.constraints
           /\ \/ /\ converted.ok
                 /\ remaining' = [remaining EXCEPT ![h] = @ - 1]
                 /\ symbolSet' = [symbolSet EXCEPT ![h] = converted.symbols]
                 /\ UNCHANGED <<stage, assignments, changed, pending, hasErrors, contested>>
              \/ /\ ~converted.ok
                 /\ hasErrors' = TRUE
                 /\ Return(h)
                 /\ UNCHANGED contested
    /\ UNCHANGED <<reachability, substitution, optimized, writes, overlapped>>

\* One turn of the conversion loop.
ConvertUpdate(h, msg) ==
    /\ stage[h] = "convert"
    /\ remaining[h] > 0
    /\ LET converted == ConvertControlPlaneUpdate(constraints, msg)
       IN  /\ constraints' = converted.constraints
           /\ \/ /\ converted.ok
                 /\ remaining' = [remaining EXCEPT ![h] = @ - 1]
                 /\ symbolSet' = [symbolSet EXCEPT ![h] = @ \cup converted.symbols]
                 /\ contested' = contested \cup
                        {n \in Nodes : /\ Mentions(n, symbolSet'[h])
                                       /\ \E g \in Handlers \ {h} : Mentions(n, symbolSet[g])}
                 /\ UNCHANGED <<stage, assignments, changed, pending, hasErrors>>
              \/ /\ ~converted.ok
                 /\ hasErrors' = TRUE
                 /\ Return(h)
                 /\ UNCHANGED contested
    /\ UNCHANGED <<reachability, substitution, optimized, writes, overlapped>>

\* recomputeReachability first turns the constraints of all tables into
\* assignments ...
ReadForReachability(h) ==
    /\ stage[h] = "convert"
    /\ remaining[h] = 0
    /\ Goto(h, "reachability")
    /\ assignments' = [assignments EXCEPT ![h] = constraints]
    /\ UNCHANGED <<shared, remaining, symbolSet, changed, pending, writes, history>>

\* ... and then writes the verdicts they give to the nodes of the symbol set.
WriteReachability(h) ==
    /\ stage[h] = "reachability"
    /\ Goto(h, "substitute")
    /\ reachability' = RecomputeReachability(reachability, symbolSet[h], assignments[h])
    /\ changed' = [changed EXCEPT ![h] = reachability' # reachability]
    /\ UNCHANGED <<constraints, substitution, optimized, hasErrors, remaining,
                   symbolSet, assignments, pending, writes, history>>

ReadForSubstitution(h) ==
    /\ stage[h] = "substitute"
    /\ Goto(h, "substitution")
    /\ assignments' = [assignments EXCEPT ![h] = constraints]
    /\ UNCHANGED <<shared, remaining, symbolSet, changed, pending, writes, history>>

\* Mutant of WriteSubstitution: the result of the second map replaces that of
\* the first.
WriteSubstitutionOnly(h) ==
    /\ stage[h] = "substitution"
    /\ substitution' = RecomputeSubstitution(substitution, symbolSet[h], assignments[h])
    /\ \/ /\ substitution' # substitution
          /\ Goto(h, "specialize")
          /\ UNCHANGED <<remaining, symbolSet, assignments, changed, pending>>
       \/ /\ substitution' = substitution
          /\ Return(h)
    /\ UNCHANGED <<constraints, reachability, optimized, hasErrors, writes, history>>

\* The constants are written; the handler is done if nothing changed.
WriteSubstitution(h) ==
    /\ stage[h] = "substitution"
    /\ substitution' = RecomputeSubstitution(substitution, symbolSet[h], assignments[h])
    /\ \/ /\ changed[h] \/ substitution' # substitution
          /\ Goto(h, "specialize")
          /\ UNCHANGED <<remaining, symbolSet, assignments, changed, pending>>
       \/ /\ ~changed[h] /\ substitution' = substitution
          /\ Return(h)
    /\ UNCHANGED <<constraints, reachability, optimized, hasErrors, writes, history>>

\* The specializer reads both maps and builds a program.
SpecializeProgram(h) ==
    /\ stage[h] = "specialize"
    /\ Goto(h, "store")
    /\ pending' = [pending EXCEPT ![h] = Specialize(reachability, substitution)]
    /\ overlapped' = (overlapped \/ \E g \in Handlers \ {h} : stage[g] = "store")
    /\ UNCHANGED <<shared, remaining, symbolSet, assignments, changed, writes, contested>>

\* Mutant of StoreProgram: a handler that finds an error specializes again.
StoreOrRetry(h) ==
    /\ stage[h] = "store"
    /\ \/ /\ hasErrors
          /\ Goto(h, "specialize")
          /\ UNCHANGED <<optimized, remaining, symbolSet, assignments, changed, pending>>
       \/ /\ ~hasErrors
          /\ optimized' = pending[h]
          /\ Return(h)
    /\ UNCHANGED <<constraints, reachability, substitution, hasErrors, writes, history>>

\* The program is stored, unless some handler has reported an error meanwhile.
StoreProgram(h) ==
    /\ stage[h] = "store"
    /\ optimized' = IF hasErrors THEN optimized ELSE pending[h]
    /\ Return(h)
    /\ UNCHANGED <<constraints, reachability, substitution, hasErrors, writes, history>>

Step(h) ==
    \/ \E msg \in Messages : ConvertUpdate(h, msg)
    \/ ReadForReachability(h)
    \/ WriteReachability(h)
    \/ ReadForSubstitution(h)
    \/ WriteSubstitution(h)
    \/ SpecializeProgram(h)
    \/ StoreProgram(h)

Next == \E h \in Handlers : Step(h) \/ \E n \in 1..MaxBatch : Write(h, n)

Spec == Init /\ [][Next]_vars

\* Every handler has a thread of its own, and none waits for another.
FairSpec == Spec /\ \A h \in Handlers : WF_vars(Step(h))

-----------------------------------------------------------------------------
(* Properties.                                                              *)

TypeOK ==
    /\ constraints \in [Tables -> TableConfiguration]
    /\ reachability \in [Nodes -> Verdicts]
    /\ substitution \in [Expressions -> Args \cup {Unassigned}]
    /\ optimized \in Programs
    /\ hasErrors \in BOOLEAN
    /\ stage \in [Handlers -> Stages]
    /\ remaining \in [Handlers -> Nat]
    /\ symbolSet \in [Handlers -> SUBSET Symbols]
    /\ assignments \in [Handlers -> [Tables -> TableConfiguration]]
    /\ changed \in [Handlers -> BOOLEAN]
    /\ pending \in [Handlers -> Programs]
    /\ writes \in Nat
    /\ contested \subseteq Nodes
    /\ overlapped \in BOOLEAN

\* All Writes have been answered and none failed.
Quiescent == ~hasErrors /\ \A h \in Handlers : stage[h] = "idle"

\* How far the missing lock reaches, verdicts: a handler may overwrite what
\* another one computed from newer constraints, but only for a node both of them
\* reported symbols of while they overlapped.  Every other verdict is exact once
\* all Writes are answered, however their steps were interleaved.
UncontestedExact ==
    Quiescent =>
        \A n \in Nodes \ contested : reachability[n] = NodeReachability(constraints, n)

\* How far the missing lock reaches, program: it may be older than the verdicts
\* only if one handler stored its program while another one had read the maps.
\* A handler that finds nothing changed because another one has just written the
\* verdicts may return before the program follows, but the program does follow.
CurrentUnlessOverlapped ==
    (Quiescent /\ ~overlapped) => optimized = Specialize(reachability, substitution)

\* What the constraints and the symbol sets would promise if handlers took turns:
\* all verdicts exact and the program current.  It does not hold here.
QuiescentConsistent ==
    Quiescent => /\ reachability = InitialReachability(constraints)
                 /\ optimized = Specialize(reachability, substitution)

\* Every Write is answered, whatever the other handlers do: an error reported by
\* one of them ends the others too, but keeps none waiting.
EveryWriteAnswered == \A h \in Handlers : (stage[h] # "idle") ~> (stage[h] = "idle")
=============================================================================
