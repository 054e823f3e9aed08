----------------------------- MODULE FlayService -----------------------------
(***************************************************************************)
(* The Flay service: it keeps the control-plane constraints, the verdicts  *)
(* of the incremental analysis and the optimized program, and processes    *)
(* requests, each a batch of control-plane updates.  A request is handled  *)
(* in three stages: every update is converted (and applied to the con-     *)
(* straints), the verdicts of the nodes that depend on the symbols of the  *)
(* updates are recomputed, and the program is specialized if any verdict   *)
(* changed.                                                                *)
(*                                                                         *)
(* The module covers the batch and the single-update entry points of Flay- *)
(* ServiceBase, the wrapper that replays update files and stops at the     *)
(* first failure, and the gRPC server that answers a failed Write and goes *)
(* on (its handlers taken one at a time).                                  *)
(***************************************************************************)
EXTENDS PartialEvaluation

CONSTANTS
    UseSymbolSet,   \* FALSE with --no-symbol-set
    Server,         \* TRUE: gRPC server, FALSE: update-file wrapper
    EntryPoints,    \* the processControlPlaneUpdate overloads in use
    MaxRequests,    \* bound: number of requests
    MaxBatch        \* bound: number of updates in a request

ASSUME ServiceAssumption ==
    /\ UseSymbolSet \in BOOLEAN
    /\ Server \in BOOLEAN
    /\ EntryPoints \subseteq {"batch", "single"}
    /\ MaxRequests \in Nat
    /\ MaxBatch \in Nat

VARIABLES
    constraints,     \* _controlPlaneConstraints
    reachability,    \* _reachabilityMap: the verdict of every node
    substitution,    \* _substitutionMap: the constant of every expression
    optimized,       \* _optimizedProgram
    updateCount,     \* _updateCount
    respecCount,     \* _respecializationCount
    hasErrors,       \* errorCount() > 0; errors are never cleared
    pc,              \* stage of the service
    entryPoint,      \* overload that processes the current request
    remaining,       \* updates of the current request still to convert
    symbolSet,       \* symbols of the updates converted so far
    result,          \* outcome of the last finished request
    requests         \* number of requests received (bound only)

maps == <<reachability, substitution>>

counters == <<updateCount, respecCount>>

vars == <<constraints, reachability, substitution, optimized, updateCount,
          respecCount, hasErrors, pc, entryPoint, remaining, symbolSet, result,
          requests>>

TypeOK ==
    /\ constraints \in [Tables -> TableConfiguration]
    /\ reachability \in [Nodes -> Verdicts]
    /\ substitution \in [Expressions -> Args \cup {Unassigned}]
    /\ optimized \in Programs
    /\ updateCount \in Nat
    /\ respecCount \in Nat
    /\ hasErrors \in BOOLEAN
    /\ pc \in {"idle", "convert", "specialize", "exit"}
    /\ entryPoint \in {"batch", "single"}
    /\ remaining \in Nat
    /\ symbolSet \subseteq Symbols
    /\ result \in {"ok", "failed"}
    /\ requests \in Nat

\* PartialEvaluation::initialize and the constructor of FlayServiceBase: the
\* constraints of the program, all verdicts, an unconditional specialization.
Init ==
    /\ constraints = [t \in Tables |-> InitialConfiguration(t)]
    /\ reachability = InitialReachability(constraints)
    /\ substitution = InitialSubstitution(constraints)
    /\ optimized = Specialize(reachability, substitution)
    /\ updateCount = 0
    /\ respecCount = 0
    /\ hasErrors = FALSE
    /\ pc = "idle"
    /\ entryPoint = "batch"
    /\ remaining = 0
    /\ symbolSet = {}
    /\ result = "ok"
    /\ requests = 0

\* Mutant of Finish: the wrapper goes on with the next file after a failure.
FinishAndGoOn(outcome) ==
    /\ result' = outcome
    /\ pc' = "idle"
    /\ remaining' = 0
    /\ symbolSet' = {}

\* The request is over: the server waits for the next Write, and so does the
\* wrapper after a success; after a failure run() returns.
Finish(outcome) ==
    /\ result' = outcome
    /\ pc' = IF outcome = "failed" /\ ~Server THEN "exit" ELSE "idle"
    /\ remaining' = 0
    /\ symbolSet' = {}

\* A request with n updates reaches one of the entry points.
ReceiveRequest(n, entry) ==
    /\ pc = "idle"
    /\ requests < MaxRequests
    /\ entry = "single" => n = 1
    /\ pc' = "convert"
    /\ entryPoint' = entry
    /\ remaining' = n
    /\ symbolSet' = {}
    /\ updateCount' = updateCount + n
    /\ requests' = requests + 1
    /\ UNCHANGED <<constraints, maps, optimized, respecCount, hasErrors, result>>

\* Mutant of ConvertUpdate: an update that fails is converted again.
RetryUpdate(msg) ==
    /\ pc = "convert"
    /\ remaining > 0
    /\ LET converted == ConvertControlPlaneUpdate(constraints, msg)
       IN  /\ constraints' = converted.constraints
           /\ \/ /\ converted.ok
                 /\ remaining' = remaining - 1
                 /\ symbolSet' = symbolSet \cup converted.symbols
                 /\ UNCHANGED <<pc, hasErrors, result>>
              \/ /\ ~converted.ok
                 /\ hasErrors' = TRUE
                 /\ UNCHANGED <<pc, remaining, symbolSet, result>>
    /\ UNCHANGED <<maps, optimized, counters, entryPoint, requests>>

\* One turn of the conversion loop.  A failing conversion reports an error,
\* keeps what was applied so far, and ends the request.
ConvertUpdate(msg) ==
    /\ pc = "convert"
    /\ remaining > 0
    /\ LET converted == ConvertControlPlaneUpdate(constraints, msg)
       IN  /\ constraints' = converted.constraints
           /\ \/ /\ converted.ok
                 /\ remaining' = remaining - 1
                 /\ symbolSet' = symbolSet \cup converted.symbols
                 /\ UNCHANGED <<pc, hasErrors, result>>
              \/ /\ ~converted.ok
                 /\ hasErrors' = TRUE
                 /\ Finish("failed")
    /\ UNCHANGED <<maps, optimized, counters, entryPoint, requests>>

\* Mutant of CheckForSemanticsChange: a change of the substitution map alone is
\* not reported.
CheckReachabilityOnly ==
    /\ pc = "convert"
    /\ remaining = 0
    /\ UseSymbolSet \/ entryPoint = "single"
    /\ reachability' = RecomputeReachability(reachability, symbolSet, constraints)
    /\ substitution' = RecomputeSubstitution(substitution, symbolSet, constraints)
    /\ \/ /\ reachability' # reachability
          /\ pc' = "specialize"
          /\ UNCHANGED <<remaining, symbolSet, result>>
       \/ /\ reachability' = reachability
          /\ Finish("ok")
    /\ UNCHANGED <<constraints, optimized, counters, hasErrors, entryPoint, requests>>

\* checkForSemanticsChange(symbolSet): recompute the affected verdicts and go
\* on to specialize only if one changed.  Without symbol sets a batch is
\* specialized without any check.
CheckForSemanticsChange ==
    /\ pc = "convert"
    /\ remaining = 0
    /\ UseSymbolSet \/ entryPoint = "single"
    /\ reachability' = RecomputeReachability(reachability, symbolSet, constraints)
    /\ substitution' = RecomputeSubstitution(substitution, symbolSet, constraints)
    /\ \/ /\ maps' # maps
          /\ pc' = "specialize"
          /\ UNCHANGED <<remaining, symbolSet, result>>
       \/ /\ maps' = maps
          /\ Finish("ok")
    /\ UNCHANGED <<constraints, optimized, counters, hasErrors, entryPoint, requests>>

SkipCheck ==
    /\ pc = "convert"
    /\ remaining = 0
    /\ ~UseSymbolSet
    /\ entryPoint = "batch"
    /\ pc' = "specialize"
    /\ UNCHANGED <<constraints, maps, optimized, counters, hasErrors, entryPoint,
                   remaining, symbolSet, result, requests>>

\* Mutant of RespecIncrement: a batch is counted twice as well.
DoubleIncrement(entry) == 2

\* How often one specialization is counted: the single-update overload counts
\* in the loop over the analyses and once more after it.
RespecIncrement(entry) == IF entry = "single" THEN 2 ELSE 1

\* Mutant of SpecializeProgram: the program is replaced before errors are
\* looked at.
SpecializeThenCheck ==
    /\ pc = "specialize"
    /\ optimized' = Specialize(reachability, substitution)
    /\ \/ /\ hasErrors
          /\ Finish("failed")
          /\ UNCHANGED respecCount
       \/ /\ ~hasErrors
          /\ respecCount' = respecCount + RespecIncrement(entryPoint)
          /\ Finish("ok")
    /\ UNCHANGED <<constraints, maps, updateCount, hasErrors, entryPoint, requests>>

\* specializeProgram, always starting from the original program; it fails once
\* any error has been reported.
SpecializeProgram ==
    /\ pc = "specialize"
    /\ \/ /\ hasErrors
          /\ Finish("failed")
          /\ UNCHANGED <<optimized, respecCount>>
       \/ /\ ~hasErrors
          /\ optimized' = Specialize(reachability, substitution)
          /\ respecCount' = respecCount + RespecIncrement(entryPoint)
          /\ Finish("ok")
    /\ UNCHANGED <<constraints, maps, updateCount, hasErrors, entryPoint, requests>>

\* The wrapper has replayed all files; the server is asked to shut down.
Exit ==
    /\ pc = "idle"
    /\ pc' = "exit"
    /\ UNCHANGED <<constraints, maps, optimized, counters, hasErrors, entryPoint,
                   remaining, symbolSet, result, requests>>

Terminated == pc = "exit" /\ UNCHANGED vars

Process ==
    \/ \E msg \in Messages : ConvertUpdate(msg)
    \/ CheckForSemanticsChange
    \/ SkipCheck
    \/ SpecializeProgram

Next ==
    \/ \E n \in 0..MaxBatch, entry \in EntryPoints : ReceiveRequest(n, entry)
    \/ Process
    \/ Exit
    \/ Terminated

Spec == Init /\ [][Next]_vars

\* The thread that handles a request keeps running.
FairSpec == Spec /\ WF_vars(Process)

-----------------------------------------------------------------------------
(* Properties.                                                              *)

\* Nothing failed and no request is being processed: the constraints are those
\* of the messages answered so far.
Settled == pc \in {"idle", "exit"} /\ ~hasErrors

\* The incremental recomputation, restricted to the nodes that mention a symbol
\* of the updates (recomputeReachability with a symbol set), leaves every node
\* with the verdict a recomputation of the whole map would give.
ReachabilityExact ==
    Settled => reachability = InitialReachability(constraints)

\* "A table with an action profile/selector implementation shares the entries
\* with other tables": for every member of a profile, the tables associated with
\* it hold the same call or none.  Messages reach them one table at a time
\* (configureActionProfile), and no other message may touch them.
AssociatedTablesAgree ==
    Settled =>
        \A p \in Profiles : \A t, u \in AssociatedTables[p] : \A m \in Members :
            constraints[t].entries[MemberMatch[t][m]]
              = constraints[u].entries[MemberMatch[u][m]]

\* A constant kept for a parameter, even one recomputed long ago, is the
\* argument of every entry that runs the action: the substitution map may miss
\* a constant but never holds a wrong one.
SubstitutionSound ==
    Settled =>
        \A e \in Expressions :
            substitution[e] # Unassigned =>
                \A m \in AssigningArg(constraints[e[1]], e[2]) :
                    constraints[e[1]].entries[m].arg = substitution[e]

\* The optimized program is the specialization of the current verdicts: the
\* shortcut that skips specialization when no verdict changed never leaves an
\* outdated program behind a request that was answered with success.
OptimizedCurrent ==
    (pc \in {"idle", "exit"} /\ result = "ok") =>
        optimized = Specialize(reachability, substitution)

\* The purpose of the tool: under the current control-plane configuration the
\* optimized program does to every packet what the original program does.
OptimizedEquivalent ==
    Settled =>
        \A k \in Packets :
            Effects(optimized, constraints, k) = Effects(OriginalProgram, constraints, k)

\* "Number of times respecialization was necessary": no more often than there
\* were updates.
RespecializationsBounded == respecCount <= updateCount

\* A failed request never changes the program that is handed out.
FailureKeepsProgram == [][result' = "failed" => optimized' = optimized]_vars

\* Every request is answered.
RequestAnswered == (pc = "convert") ~> (pc \in {"idle", "exit"})
=============================================================================
