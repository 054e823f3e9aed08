----------------------- MODULE ConcurrentServiceProofs -----------------------
(***************************************************************************)
(* Proofs about ConcurrentService for any number of Write handlers, any    *)
(* program and any messages: type correctness, and how far the damage of   *)
(* the missing lock reaches.                                               *)
(***************************************************************************)
EXTENDS ConcurrentService, PartialEvaluationProofs

-----------------------------------------------------------------------------
(* Type correctness.                                                        *)

\* The state before the first Write is well formed.
LEMMA InitType == Init => TypeOK
<1> SUFFICES ASSUME Init PROVE TypeOK
  OBVIOUS
<1>1. InitialConstraints \in [Tables -> TableConfiguration]
  BY InitialConfigurationType DEF InitialConstraints
<1>2. reachability \in [Nodes -> Verdicts]
  BY VerdictType DEF Init, InitialReachability
<1>3. substitution \in [Expressions -> Args \cup {Unassigned}]
  BY ConstantType DEF Init, InitialSubstitution
<1>4. optimized \in Programs
  BY <1>2, <1>3, SpecializeType DEF Init
<1>5. OriginalProgram \in Programs
  BY DEF OriginalProgram, Programs, Verdicts
<1>6. QED
  BY <1>1, <1>2, <1>3, <1>4, <1>5 DEF Init, TypeOK, Stages

\* A handler that returns leaves well-formed locals.
LEMMA ReturnType ==
    ASSUME TypeOK, NEW h \in Handlers, Return(h)
    PROVE  /\ stage' \in [Handlers -> Stages]
           /\ remaining' \in [Handlers -> Nat]
           /\ symbolSet' \in [Handlers -> SUBSET Symbols]
           /\ assignments' \in [Handlers -> [Tables -> TableConfiguration]]
           /\ changed' \in [Handlers -> BOOLEAN]
           /\ pending' \in [Handlers -> Programs]
<1>1. InitialConstraints \in [Tables -> TableConfiguration]
  BY InitialConfigurationType DEF InitialConstraints
<1>2. OriginalProgram \in Programs
  BY DEF OriginalProgram, Programs, Verdicts
<1>3. QED
  BY <1>1, <1>2 DEF TypeOK, Return, Goto, Stages

\* Every step of every handler keeps the state well formed.
LEMMA NextType == TypeOK /\ [Next]_vars => TypeOK'
<1> SUFFICES ASSUME TypeOK, [Next]_vars PROVE TypeOK'
  OBVIOUS
<1>1. ASSUME NEW h \in Handlers, NEW n \in 1..MaxBatch, Write(h, n)
      PROVE  TypeOK'
  <2>1. n \in Nat
    BY HandlersAssumption
  <2>2. QED
    BY <1>1, <2>1 DEF Write, Goto, Stages, TypeOK, shared, history
<1>2. ASSUME NEW h \in Handlers, NEW msg \in Messages, ConvertUpdate(h, msg)
      PROVE  TypeOK'
  <2> DEFINE converted == ConvertControlPlaneUpdate(constraints, msg)
  <2>1. msg \in Message
    BY ApiAssumption
  <2>2. /\ converted.constraints \in [Tables -> TableConfiguration]
        /\ converted.symbols \subseteq Symbols
    BY <2>1, ConvertType DEF TypeOK
  <2>3. /\ constraints' = converted.constraints
        /\ remaining[h] > 0
        /\ UNCHANGED <<reachability, substitution, optimized, writes, overlapped>>
    BY <1>2 DEF ConvertUpdate
  <2>4. \/ /\ remaining' = [remaining EXCEPT ![h] = @ - 1]
           /\ symbolSet' = [symbolSet EXCEPT ![h] = @ \cup converted.symbols]
           /\ contested' = contested \cup
                  {n \in Nodes : /\ Mentions(n, symbolSet'[h])
                                 /\ \E g \in Handlers \ {h} : Mentions(n, symbolSet[g])}
           /\ UNCHANGED <<stage, assignments, changed, pending, hasErrors>>
        \/ /\ hasErrors' = TRUE
           /\ Return(h)
           /\ UNCHANGED contested
    BY <1>2 DEF ConvertUpdate
  <2> HIDE DEF converted
  <2>5. CASE hasErrors' = TRUE /\ Return(h) /\ UNCHANGED contested
    BY <2>2, <2>3, <2>5, ReturnType DEF TypeOK
  <2>6. CASE /\ remaining' = [remaining EXCEPT ![h] = @ - 1]
             /\ symbolSet' = [symbolSet EXCEPT ![h] = @ \cup converted.symbols]
             /\ contested' = contested \cup
                    {n \in Nodes : /\ Mentions(n, symbolSet'[h])
                                   /\ \E g \in Handlers \ {h} : Mentions(n, symbolSet[g])}
             /\ UNCHANGED <<stage, assignments, changed, pending, hasErrors>>
    <3>1. remaining' \in [Handlers -> Nat]
      BY <2>3, <2>6 DEF TypeOK
    <3>2. symbolSet' \in [Handlers -> SUBSET Symbols]
      BY <2>2, <2>6 DEF TypeOK
    <3>3. contested' \subseteq Nodes
      BY <2>6 DEF TypeOK
    <3>4. QED
      BY <2>2, <2>3, <2>6, <3>1, <3>2, <3>3 DEF TypeOK
  <2>7. QED
    BY <2>4, <2>5, <2>6
<1>3. ASSUME NEW h \in Handlers, ReadForReachability(h)
      PROVE  TypeOK'
  BY <1>3 DEF ReadForReachability, Goto, Stages, TypeOK, shared, history
<1>4. ASSUME NEW h \in Handlers, WriteReachability(h)
      PROVE  TypeOK'
  <2>1. reachability' \in [Nodes -> Verdicts]
    BY <1>4, VerdictType DEF WriteReachability, RecomputeReachability, TypeOK
  <2>2. changed' \in [Handlers -> BOOLEAN]
    BY <1>4 DEF WriteReachability, TypeOK
  <2>3. QED
    BY <1>4, <2>1, <2>2 DEF WriteReachability, Goto, Stages, TypeOK, history
<1>5. ASSUME NEW h \in Handlers, ReadForSubstitution(h)
      PROVE  TypeOK'
  BY <1>5 DEF ReadForSubstitution, Goto, Stages, TypeOK, shared, history
<1>6. ASSUME NEW h \in Handlers, WriteSubstitution(h)
      PROVE  TypeOK'
  <2>1. substitution' \in [Expressions -> Args \cup {Unassigned}]
    BY <1>6, ConstantType DEF WriteSubstitution, RecomputeSubstitution, TypeOK
  <2>2. CASE Return(h)
    BY <1>6, <2>1, <2>2, ReturnType DEF WriteSubstitution, TypeOK, history
  <2>3. CASE Goto(h, "specialize")
             /\ UNCHANGED <<remaining, symbolSet, assignments, changed, pending>>
    BY <1>6, <2>1, <2>3 DEF WriteSubstitution, Goto, Stages, TypeOK, history
  <2>4. QED
    BY <1>6, <2>2, <2>3 DEF WriteSubstitution
<1>7. ASSUME NEW h \in Handlers, SpecializeProgram(h)
      PROVE  TypeOK'
  <2>1. Specialize(reachability, substitution) \in Programs
    BY SpecializeType DEF TypeOK
  <2>2. overlapped' \in BOOLEAN
    BY <1>7 DEF SpecializeProgram, TypeOK
  <2>3. QED
    BY <1>7, <2>1, <2>2 DEF SpecializeProgram, Goto, Stages, TypeOK, shared
<1>8. ASSUME NEW h \in Handlers, StoreProgram(h)
      PROVE  TypeOK'
  <2>1. optimized' \in Programs
    BY <1>8 DEF StoreProgram, TypeOK
  <2>2. QED
    BY <1>8, <2>1, ReturnType DEF StoreProgram, TypeOK, history
<1>9. CASE UNCHANGED vars
  BY <1>9 DEF vars, shared, locals, history, TypeOK
<1>10. QED
  BY <1>1, <1>2, <1>3, <1>4, <1>5, <1>6, <1>7, <1>8, <1>9 DEF Next, Step

\* Whatever the interleaving of any number of Write handlers, the shared maps and
\* the locals of every handler stay well formed.
THEOREM TypeCorrect == Spec => []TypeOK
  BY InitType, NextType, PTL DEF Spec

-----------------------------------------------------------------------------
(* Verdicts.                                                                *)

\* Node n has the verdict of the current constraints.
Exact(n) == reachability[n] = NodeReachability(constraints, n)

\* Symbols of a node that is not contested are in the hands of one handler.
OneHolder ==
    \A n \in Nodes \ contested : \A g, h \in Handlers :
        Mentions(n, symbolSet[g]) /\ Mentions(n, symbolSet[h]) => g = h

\* What is known of a node whose symbols handler h holds: nothing while it converts,
\* then that it has read constraints that are current for the node, and after the
\* verdicts are written that the node is exact.
Custody(h, n) ==
    /\ stage[h] = "reachability" =>
          NodeReachability(assignments[h], n) = NodeReachability(constraints, n)
    /\ stage[h] \notin {"convert", "reachability"} => Exact(n)

\* The inductive invariant: a node that is not contested is exact, or the one
\* handler that holds symbols of it is on its way to make it exact.
HolderRepairs ==
    /\ OneHolder
    /\ \A h \in Handlers : stage[h] = "idle" => symbolSet[h] = {}
    /\ ~hasErrors =>
          \A n \in Nodes \ contested :
              /\ (\A h \in Handlers : ~Mentions(n, symbolSet[h])) => Exact(n)
              /\ \A h \in Handlers : Mentions(n, symbolSet[h]) => Custody(h, n)

-----------------------------------------------------------------------------
(* The program.                                                             *)

\* Handler h has changed a map, or seen one change, and will specialize.
Owes(h) ==
    \/ stage[h] = "specialize"
    \/ stage[h] \in {"substitute", "substitution"} /\ changed[h]

\* The inductive invariant: as long as no two specializations overlapped, at most
\* one handler is about to store a program, and the program is that of the maps, or
\* is about to be, or somebody will still specialize.
ProgramFollows ==
    (~hasErrors /\ ~overlapped) =>
        /\ \A g, h \in Handlers : stage[g] = "store" /\ stage[h] = "store" => g = h
        /\ \/ \E h \in Handlers : Owes(h)
           \/ \E h \in Handlers : /\ stage[h] = "store"
                                  /\ pending[h] = Specialize(reachability, substitution)
           \/ /\ \A h \in Handlers : stage[h] # "store"
              /\ optimized = Specialize(reachability, substitution)

-----------------------------------------------------------------------------
(* Proof of the bound on stale verdicts.                                    *)

\* Clearing the symbols of one handler keeps the custody of the others single.
LEMMA ReturnKeepsOneHolder ==
    ASSUME TypeOK, OneHolder, \A h \in Handlers : stage[h] = "idle" => symbolSet[h] = {},
           NEW g \in Handlers, Return(g), contested' = contested
    PROVE  /\ OneHolder'
           /\ (\A h \in Handlers : stage[h] = "idle" => symbolSet[h] = {})'
           /\ \A h \in Handlers : symbolSet'[h] = IF h = g THEN {} ELSE symbolSet[h]
<1>1. \A h \in Handlers : symbolSet'[h] = IF h = g THEN {} ELSE symbolSet[h]
  BY DEF Return, TypeOK
<1>2. \A h \in Handlers : h # g => stage'[h] = stage[h]
  BY DEF Return, Goto, TypeOK
<1>3. \A n : ~Mentions(n, {})
  BY DEF Mentions
<1>4. \A n : \A h \in Handlers : Mentions(n, symbolSet'[h]) => Mentions(n, symbolSet[h])
  BY <1>1, <1>3
<1>5. OneHolder'
  BY <1>4 DEF OneHolder
<1>6. QED
  BY <1>1, <1>2, <1>5

\* A handler that has written its verdicts may return.
LEMMA ReturnRepaired ==
    ASSUME TypeOK, HolderRepairs, NEW g \in Handlers, Return(g),
           stage[g] \in {"substitution", "store"},
           UNCHANGED <<constraints, reachability, hasErrors, contested>>
    PROVE  HolderRepairs'
<1>1. /\ OneHolder'
      /\ (\A h \in Handlers : stage[h] = "idle" => symbolSet[h] = {})'
      /\ \A h \in Handlers : symbolSet'[h] = IF h = g THEN {} ELSE symbolSet[h]
  BY ReturnKeepsOneHolder DEF HolderRepairs
<1>2. \A h \in Handlers : h # g => stage'[h] = stage[h] /\ assignments'[h] = assignments[h]
  BY DEF Return, Goto, TypeOK
<1>3. ASSUME ~hasErrors', NEW n \in Nodes \ contested'
      PROVE  /\ (\A h \in Handlers : ~Mentions(n, symbolSet'[h])) => Exact(n)'
             /\ \A h \in Handlers : Mentions(n, symbolSet'[h]) => Custody(h, n)'
  <2>1. n \in Nodes \ contested /\ ~hasErrors
    BY <1>3
  <2>2. Exact(n)' <=> Exact(n)
    BY DEF Exact
  <2>3. Mentions(n, symbolSet[g]) => Exact(n)
    BY <2>1 DEF HolderRepairs, Custody
  <2>4. ASSUME \A h \in Handlers : ~Mentions(n, symbolSet'[h])
        PROVE  Exact(n)'
    <3>1. CASE Mentions(n, symbolSet[g])
      BY <2>2, <2>3, <3>1
    <3>2. CASE ~Mentions(n, symbolSet[g])
      <4>1. \A h \in Handlers : ~Mentions(n, symbolSet[h])
        BY <1>1, <2>4, <3>2
      <4>2. QED
        BY <2>1, <2>2, <4>1 DEF HolderRepairs
    <3>3. QED
      BY <3>1, <3>2
  <2>5. ASSUME NEW h \in Handlers, Mentions(n, symbolSet'[h])
        PROVE  Custody(h, n)'
    <3>1. h # g /\ Mentions(n, symbolSet[h])
      BY <1>1, <2>5 DEF Mentions
    <3>2. Custody(h, n)
      BY <2>1, <3>1 DEF HolderRepairs
    <3>3. QED
      BY <1>2, <2>2, <3>1, <3>2 DEF Custody
  <2>6. QED
    BY <2>4, <2>5
<1>4. QED
  BY <1>1, <1>3 DEF HolderRepairs

\* A successful conversion by handler g: every node whose verdict it may change is
\* in the custody of g from now on, or contested.
LEMMA ConvertRepairs ==
    ASSUME NoWildcardDelete, TypeOK, HolderRepairs, NEW g \in Handlers,
           NEW msg \in Messages, ConvertUpdate(g, msg), ~hasErrors'
    PROVE  HolderRepairs'
<1> DEFINE converted == ConvertControlPlaneUpdate(constraints, msg)
<1>1. /\ converted.ok
      /\ constraints' = converted.constraints
      /\ symbolSet' = [symbolSet EXCEPT ![g] = @ \cup converted.symbols]
      /\ contested' = contested \cup
             {n \in Nodes : /\ Mentions(n, symbolSet'[g])
                            /\ \E h \in Handlers \ {g} : Mentions(n, symbolSet[h])}
      /\ UNCHANGED <<stage, assignments, hasErrors, reachability>>
      /\ stage[g] = "convert"
  BY DEF ConvertUpdate
<1>2. /\ symbolSet'[g] = symbolSet[g] \cup converted.symbols
      /\ \A h \in Handlers : h # g => symbolSet'[h] = symbolSet[h]
  BY <1>1 DEF TypeOK
<1>3. \A n : Mentions(n, symbolSet[g]) => Mentions(n, symbolSet'[g])
  BY <1>2 DEF Mentions
<1>4. ASSUME NEW n \in Nodes \ contested', Mentions(n, symbolSet'[g])
      PROVE  \A h \in Handlers : h # g => ~Mentions(n, symbolSet'[h])
  BY <1>1, <1>2, <1>4
<1>5. OneHolder'
  <2> SUFFICES ASSUME NEW n \in Nodes \ contested', NEW h \in Handlers, NEW i \in Handlers,
                      Mentions(n, symbolSet'[h]), Mentions(n, symbolSet'[i])
               PROVE  h = i
    BY DEF OneHolder
  <2>1. n \in Nodes \ contested
    BY <1>1
  <2>2. CASE h = g \/ i = g
    BY <1>4, <2>2
  <2>3. CASE h # g /\ i # g
    BY <1>2, <2>1, <2>3 DEF HolderRepairs, OneHolder
  <2>4. QED
    BY <2>2, <2>3
<1>6. ASSUME NEW n \in Nodes \ contested', ~Mentions(n, symbolSet'[g])
      PROVE  NodeReachability(constraints', n) = NodeReachability(constraints, n)
  <2>1. \A t \in Reads(n) : ChoiceSymbol(t) \notin converted.symbols
    BY <1>2, <1>6, NodeMentionsChoice DEF Mentions
  <2>2. Reads(n) \subseteq Tables
    BY ReadsTables DEF Reads
  <2>3. \A t \in Reads(n) : converted.constraints[t] = constraints[t]
    BY <1>1, <2>1, <2>2, ConvertFrame DEF TypeOK
  <2> HIDE DEF converted
  <2>4. NodeReachability(converted.constraints, n) = NodeReachability(constraints, n)
    BY <2>3, VerdictFrame
  <2>5. QED
    BY <1>1, <2>4
<1> HIDE DEF converted
<1>7. ASSUME NEW n \in Nodes \ contested'
      PROVE  /\ (\A h \in Handlers : ~Mentions(n, symbolSet'[h])) => Exact(n)'
             /\ \A h \in Handlers : Mentions(n, symbolSet'[h]) => Custody(h, n)'
  <2>1. n \in Nodes \ contested /\ ~hasErrors
    BY <1>1
  <2>2. ASSUME \A h \in Handlers : ~Mentions(n, symbolSet'[h])
        PROVE  Exact(n)'
    <3>1. \A h \in Handlers : ~Mentions(n, symbolSet[h])
      BY <1>2, <1>3, <2>2
    <3>2. Exact(n)
      BY <2>1, <3>1 DEF HolderRepairs
    <3>3. QED
      BY <1>1, <1>6, <2>2, <3>2 DEF Exact
  <2>3. ASSUME NEW h \in Handlers, Mentions(n, symbolSet'[h])
        PROVE  Custody(h, n)'
    <3>1. CASE h = g
      BY <1>1, <3>1 DEF Custody
    <3>2. CASE h # g
      <4>1. ~Mentions(n, symbolSet'[g]) /\ Mentions(n, symbolSet[h])
        BY <1>2, <1>4, <2>3, <3>2
      <4>2. Custody(h, n)
        BY <2>1, <4>1 DEF HolderRepairs
      <4>3. NodeReachability(constraints', n) = NodeReachability(constraints, n)
        BY <1>6, <4>1
      <4>4. QED
        BY <1>1, <4>2, <4>3 DEF Custody, Exact
    <3>3. QED
      BY <3>1, <3>2
  <2>4. QED
    BY <2>2, <2>3
<1>8. \A h \in Handlers : stage'[h] = "idle" => symbolSet'[h] = {}
  BY <1>1, <1>2 DEF HolderRepairs
<1>9. QED
  BY <1>5, <1>7, <1>8 DEF HolderRepairs

\* Writing the verdicts: the nodes handler g writes are in its custody, and it has
\* read constraints that are still current for them.
LEMMA WriteRepairs ==
    ASSUME TypeOK, HolderRepairs, NEW g \in Handlers, WriteReachability(g)
    PROVE  HolderRepairs'
<1>1. /\ stage[g] = "reachability"
      /\ stage' = [stage EXCEPT ![g] = "substitute"]
      /\ reachability' = RecomputeReachability(reachability, symbolSet[g], assignments[g])
      /\ UNCHANGED <<constraints, hasErrors, symbolSet, assignments, contested>>
  BY DEF WriteReachability, Goto, history
<1>2. /\ stage'[g] = "substitute"
      /\ \A h \in Handlers : h # g => stage'[h] = stage[h]
  BY <1>1 DEF TypeOK
<1>3. OneHolder' /\ \A h \in Handlers : stage'[h] = "idle" => symbolSet'[h] = {}
  BY <1>1, <1>2 DEF HolderRepairs, OneHolder
<1>4. ASSUME ~hasErrors', NEW n \in Nodes \ contested'
      PROVE  /\ (\A h \in Handlers : ~Mentions(n, symbolSet'[h])) => Exact(n)'
             /\ \A h \in Handlers : Mentions(n, symbolSet'[h]) => Custody(h, n)'
  <2>1. ~hasErrors /\ n \in Nodes \ contested
    BY <1>1, <1>4
  <2>2. Mentions(n, symbolSet[g]) => Exact(n)'
    <3>1. Mentions(n, symbolSet[g]) => reachability'[n] = NodeReachability(assignments[g], n)
      BY <1>1 DEF RecomputeReachability, Mentions
    <3>2. Mentions(n, symbolSet[g]) =>
            NodeReachability(assignments[g], n) = NodeReachability(constraints, n)
      BY <1>1, <2>1 DEF HolderRepairs, Custody
    <3>3. QED
      BY <1>1, <3>1, <3>2 DEF Exact
  <2>3. ~Mentions(n, symbolSet[g]) => (Exact(n)' <=> Exact(n))
    BY <1>1 DEF RecomputeReachability, Mentions, Exact
  <2>4. ASSUME \A h \in Handlers : ~Mentions(n, symbolSet'[h])
        PROVE  Exact(n)'
    BY <1>1, <2>1, <2>3, <2>4 DEF HolderRepairs
  <2>5. ASSUME NEW h \in Handlers, Mentions(n, symbolSet'[h])
        PROVE  Custody(h, n)'
    <3>1. CASE h = g
      BY <1>1, <1>2, <2>2, <2>5, <3>1 DEF Custody
    <3>2. CASE h # g
      <4>1. Mentions(n, symbolSet[h]) /\ ~Mentions(n, symbolSet[g])
        BY <1>1, <2>1, <2>5, <3>2 DEF HolderRepairs, OneHolder
      <4>2. Custody(h, n)
        BY <2>1, <4>1 DEF HolderRepairs
      <4>3. QED
        BY <1>1, <1>2, <2>3, <3>2, <4>1, <4>2 DEF Custody
    <3>3. QED
      BY <3>1, <3>2
  <2>6. QED
    BY <2>4, <2>5
<1>5. QED
  BY <1>3, <1>4 DEF HolderRepairs

\* A step of handler g between stages that touches neither the constraints nor the
\* verdicts nor the symbols.
LEMMA AdvanceRepairs ==
    ASSUME TypeOK, HolderRepairs, NEW g \in Handlers, NEW s \in Stages, Goto(g, s),
           s # "idle", UNCHANGED <<constraints, reachability, hasErrors, symbolSet, contested>>,
           \A h \in Handlers : h # g => assignments'[h] = assignments[h],
           stage[g] = "idle" => s = "convert",
           stage[g] = "convert" => s = "reachability" /\ assignments'[g] = constraints,
           stage[g] = "reachability" => FALSE,
           s = "reachability" => stage[g] = "convert"
    PROVE  HolderRepairs'
<1>1. /\ stage'[g] = s
      /\ \A h \in Handlers : h # g => stage'[h] = stage[h]
  BY DEF Goto, TypeOK
<1>2. OneHolder' /\ \A h \in Handlers : stage'[h] = "idle" => symbolSet'[h] = {}
  BY <1>1 DEF HolderRepairs, OneHolder
<1>3. \A n : Exact(n)' <=> Exact(n)
  BY DEF Exact
<1>4. ASSUME ~hasErrors', NEW n \in Nodes \ contested'
      PROVE  /\ (\A h \in Handlers : ~Mentions(n, symbolSet'[h])) => Exact(n)'
             /\ \A h \in Handlers : Mentions(n, symbolSet'[h]) => Custody(h, n)'
  <2>1. ~hasErrors /\ n \in Nodes \ contested
    BY <1>4
  <2>2. (\A h \in Handlers : ~Mentions(n, symbolSet'[h])) => Exact(n)'
    BY <1>3, <2>1 DEF HolderRepairs
  <2>3. ASSUME NEW h \in Handlers, Mentions(n, symbolSet'[h])
        PROVE  Custody(h, n)'
    <3>1. Custody(h, n)
      BY <2>1, <2>3 DEF HolderRepairs
    <3>2. CASE h # g
      BY <1>1, <1>3, <3>1, <3>2 DEF Custody
    <3>3. CASE h = g
      BY <1>1, <1>3, <3>1, <3>3 DEF Custody
    <3>4. QED
      BY <3>2, <3>3
  <2>4. QED
    BY <2>2, <2>3
<1>5. QED
  BY <1>2, <1>4 DEF HolderRepairs

\* HolderRepairs is inductive.
LEMMA NextRepairs ==
    ASSUME NoWildcardDelete
    PROVE  TypeOK /\ HolderRepairs /\ [Next]_vars => HolderRepairs'
<1> SUFFICES ASSUME TypeOK, HolderRepairs, [Next]_vars PROVE HolderRepairs'
  OBVIOUS
<1>1. ASSUME NEW h \in Handlers, NEW n \in 1..MaxBatch, Write(h, n)
      PROVE  HolderRepairs'
  BY <1>1, AdvanceRepairs DEF Write, shared, history, Stages
<1>2. ASSUME NEW h \in Handlers, NEW msg \in Messages, ConvertUpdate(h, msg)
      PROVE  HolderRepairs'
  <2>1. CASE ~hasErrors'
    BY <1>2, <2>1, ConvertRepairs
  <2>2. CASE hasErrors'
    <3>1. CASE Return(h) /\ contested' = contested
      BY <2>2, <3>1, ReturnKeepsOneHolder DEF HolderRepairs
    <3>2. CASE ~(Return(h) /\ contested' = contested)
      <4> DEFINE converted == ConvertControlPlaneUpdate(constraints, msg)
      <4>1. /\ hasErrors' = hasErrors
            /\ stage' = stage
            /\ symbolSet' = [symbolSet EXCEPT ![h] = @ \cup converted.symbols]
            /\ contested' = contested \cup
                   {n \in Nodes : /\ Mentions(n, symbolSet'[h])
                                  /\ \E g \in Handlers \ {h} : Mentions(n, symbolSet[g])}
            /\ stage[h] = "convert"
        BY <1>2, <3>2 DEF ConvertUpdate
      <4> HIDE DEF converted
      <4>2. \A g \in Handlers : g # h => symbolSet'[g] = symbolSet[g]
        BY <4>1 DEF TypeOK
      <4>3. \A g \in Handlers : stage'[g] = "idle" => symbolSet'[g] = {}
        BY <4>1, <4>2 DEF HolderRepairs
      <4>4. OneHolder'
        <5> SUFFICES ASSUME NEW n \in Nodes \ contested', NEW g \in Handlers,
                            NEW i \in Handlers,
                            Mentions(n, symbolSet'[g]), Mentions(n, symbolSet'[i])
                     PROVE  g = i
          BY DEF OneHolder
        <5>1. n \in Nodes \ contested
          BY <4>1
        <5>2. CASE g # h /\ i # h
          BY <4>2, <5>1, <5>2 DEF HolderRepairs, OneHolder
        <5>3. CASE g = h \/ i = h
          BY <4>1, <4>2, <5>3
        <5>4. QED
          BY <5>2, <5>3
      <4>5. QED
        BY <2>2, <4>3, <4>4 DEF HolderRepairs
    <3>3. QED
      BY <3>1, <3>2
  <2>3. QED
    BY <2>1, <2>2
<1>3. ASSUME NEW h \in Handlers, ReadForReachability(h)
      PROVE  HolderRepairs'
  <2>1. /\ assignments'[h] = constraints
        /\ \A g \in Handlers : g # h => assignments'[g] = assignments[g]
    BY <1>3 DEF ReadForReachability, TypeOK
  <2>2. QED
    BY <1>3, <2>1, AdvanceRepairs DEF ReadForReachability, shared, history, Stages
<1>4. ASSUME NEW h \in Handlers, WriteReachability(h)
      PROVE  HolderRepairs'
  BY <1>4, WriteRepairs
<1>5. ASSUME NEW h \in Handlers, ReadForSubstitution(h)
      PROVE  HolderRepairs'
  <2>1. \A g \in Handlers : g # h => assignments'[g] = assignments[g]
    BY <1>5 DEF ReadForSubstitution, TypeOK
  <2>2. QED
    BY <1>5, <2>1, AdvanceRepairs DEF ReadForSubstitution, shared, history, Stages
<1>6. ASSUME NEW h \in Handlers, WriteSubstitution(h)
      PROVE  HolderRepairs'
  <2>1. CASE Return(h)
    BY <1>6, <2>1, ReturnRepaired DEF WriteSubstitution, history
  <2>2. CASE ~Return(h)
    BY <1>6, <2>2, AdvanceRepairs DEF WriteSubstitution, history, Stages
  <2>3. QED
    BY <2>1, <2>2
<1>7. ASSUME NEW h \in Handlers, SpecializeProgram(h)
      PROVE  HolderRepairs'
  BY <1>7, AdvanceRepairs DEF SpecializeProgram, shared, Stages
<1>8. ASSUME NEW h \in Handlers, StoreProgram(h)
      PROVE  HolderRepairs'
  BY <1>8, ReturnRepaired DEF StoreProgram, history
<1>9. CASE UNCHANGED vars
  BY <1>9 DEF vars, shared, locals, history, HolderRepairs, OneHolder, Custody, Exact
<1>10. QED
  BY <1>1, <1>2, <1>3, <1>4, <1>5, <1>6, <1>7, <1>8, <1>9 DEF Next, Step

\* However many Write handlers run and however their steps are interleaved, once
\* all of them have returned without an error every verdict is exact except those
\* of nodes that two handlers in progress had reported symbols of: overlapping
\* Writes to tables no node reads together need no lock for the reachability map.
THEOREM StaleVerdictsAreContested ==
    ASSUME NoWildcardDelete
    PROVE  Spec => []UncontestedExact
<1>1. Init => HolderRepairs
  <2> SUFFICES ASSUME Init PROVE HolderRepairs
    OBVIOUS
  <2>1. \A n : \A h \in Handlers : ~Mentions(n, symbolSet[h])
    BY DEF Init, Mentions
  <2>2. \A n \in Nodes : Exact(n)
    BY DEF Init, Exact, InitialReachability
  <2>3. QED
    BY <2>1, <2>2 DEF HolderRepairs, OneHolder, Init
<1>2. HolderRepairs => UncontestedExact
  <2> SUFFICES ASSUME HolderRepairs, Quiescent, NEW n \in Nodes \ contested
               PROVE  Exact(n)
    BY DEF UncontestedExact, Exact
  <2>1. \A h \in Handlers : ~Mentions(n, symbolSet[h])
    BY DEF HolderRepairs, Quiescent, Mentions
  <2>2. QED
    BY <2>1 DEF HolderRepairs, Quiescent
<1>3. QED
  BY <1>1, <1>2, TypeCorrect, NextRepairs, PTL DEF Spec

-----------------------------------------------------------------------------
(* Proof of the bound on outdated programs.                                 *)

\* A step of handler g that leaves both maps and the program alone, and after which
\* g neither stores nor has ceased to owe a program, keeps ProgramFollows.
LEMMA StepAside ==
    ASSUME TypeOK, ProgramFollows, NEW g \in Handlers,
           UNCHANGED <<reachability, substitution, optimized, overlapped>>,
           ~hasErrors' => ~hasErrors,
           \A h \in Handlers : h # g =>
               stage'[h] = stage[h] /\ changed'[h] = changed[h] /\ pending'[h] = pending[h],
           stage[g] # "store", stage'[g] # "store",
           Owes(g) => Owes(g)'
    PROVE  ProgramFollows'
<1> SUFFICES ASSUME ~hasErrors', ~overlapped' PROVE ProgramFollows'
  BY DEF ProgramFollows
<1>1. ~hasErrors /\ ~overlapped
  OBVIOUS
<1>2. \A h, i \in Handlers : stage'[h] = "store" /\ stage'[i] = "store" => h = i
  BY <1>1 DEF ProgramFollows
<1>3. CASE \E h \in Handlers : Owes(h)
  <2>1. \E h \in Handlers : Owes(h)'
    BY <1>3 DEF Owes
  <2>2. QED
    BY <1>2, <2>1 DEF ProgramFollows
<1>4. CASE \E h \in Handlers : /\ stage[h] = "store"
                               /\ pending[h] = Specialize(reachability, substitution)
  BY <1>2, <1>4 DEF ProgramFollows
<1>5. CASE /\ \A h \in Handlers : stage[h] # "store"
           /\ optimized = Specialize(reachability, substitution)
  BY <1>2, <1>5 DEF ProgramFollows
<1>6. QED
  BY <1>1, <1>3, <1>4, <1>5 DEF ProgramFollows

\* A handler that owes a program after its step makes ProgramFollows true, if it
\* does not store one.
LEMMA StepIntoDebt ==
    ASSUME TypeOK, ProgramFollows, NEW g \in Handlers,
           ~hasErrors' => ~hasErrors, overlapped' = overlapped,
           \A h \in Handlers : h # g => stage'[h] = stage[h],
           stage'[g] # "store", Owes(g)'
    PROVE  ProgramFollows'
  BY DEF ProgramFollows

\* ProgramFollows is inductive.
LEMMA NextFollows == TypeOK /\ ProgramFollows /\ [Next]_vars => ProgramFollows'
<1> SUFFICES ASSUME TypeOK, ProgramFollows, [Next]_vars PROVE ProgramFollows'
  OBVIOUS
<1>1. ASSUME NEW h \in Handlers, NEW n \in 1..MaxBatch, Write(h, n)
      PROVE  ProgramFollows'
  <2>1. /\ \A g \in Handlers : g # h => stage'[g] = stage[g]
        /\ stage[h] = "idle" /\ stage'[h] = "convert"
    BY <1>1 DEF Write, Goto, TypeOK
  <2>2. QED
    BY <1>1, <2>1, StepAside DEF Write, shared, history, Owes
<1>2. ASSUME NEW h \in Handlers, NEW msg \in Messages, ConvertUpdate(h, msg)
      PROVE  ProgramFollows'
  <2>1. CASE hasErrors'
    BY <2>1 DEF ProgramFollows
  <2>2. CASE ~hasErrors'
    <3>1. UNCHANGED <<stage, changed, pending, hasErrors, reachability, substitution,
                      optimized, overlapped>>
      BY <1>2, <2>2 DEF ConvertUpdate
    <3>2. QED
      BY <3>1 DEF ProgramFollows, Owes
  <2>3. QED
    BY <2>1, <2>2
<1>3. ASSUME NEW h \in Handlers, ReadForReachability(h)
      PROVE  ProgramFollows'
  <2>1. /\ \A g \in Handlers : g # h => stage'[g] = stage[g]
        /\ stage[h] = "convert" /\ stage'[h] = "reachability"
    BY <1>3 DEF ReadForReachability, Goto, TypeOK
  <2>2. QED
    BY <1>3, <2>1, StepAside DEF ReadForReachability, shared, history, Owes
<1>4. ASSUME NEW h \in Handlers, WriteReachability(h)
      PROVE  ProgramFollows'
  <2>1. /\ \A g \in Handlers : g # h => stage'[g] = stage[g] /\ changed'[g] = changed[g]
        /\ stage[h] = "reachability" /\ stage'[h] = "substitute"
        /\ changed'[h] = (reachability' # reachability)
        /\ UNCHANGED <<substitution, optimized, overlapped, hasErrors, pending>>
    BY <1>4 DEF WriteReachability, Goto, TypeOK, history
  <2>2. CASE reachability' # reachability
    <3>1. Owes(h)'
      BY <2>1, <2>2 DEF Owes
    <3>2. QED
      BY <2>1, <3>1, StepIntoDebt
  <2>3. CASE reachability' = reachability
    <3>1. ~Owes(h)
      BY <2>1 DEF Owes
    <3>2. QED
      BY <2>1, <2>3, <3>1, StepAside
  <2>4. QED
    BY <2>2, <2>3
<1>5. ASSUME NEW h \in Handlers, ReadForSubstitution(h)
      PROVE  ProgramFollows'
  <2>1. /\ \A g \in Handlers : g # h => stage'[g] = stage[g]
        /\ stage[h] = "substitute" /\ stage'[h] = "substitution"
        /\ changed' = changed
    BY <1>5 DEF ReadForSubstitution, Goto, TypeOK
  <2>2. QED
    BY <1>5, <2>1, StepAside DEF ReadForSubstitution, shared, history, Owes
<1>6. ASSUME NEW h \in Handlers, WriteSubstitution(h)
      PROVE  ProgramFollows'
  <2>1. /\ stage[h] = "substitution"
        /\ UNCHANGED <<reachability, optimized, overlapped, hasErrors>>
    BY <1>6 DEF WriteSubstitution, history
  <2>2. CASE Goto(h, "specialize")
    <3>1. /\ \A g \in Handlers : g # h => stage'[g] = stage[g]
          /\ stage'[h] = "specialize"
      BY <2>2 DEF Goto, TypeOK
    <3>2. QED
      BY <2>1, <3>1, StepIntoDebt DEF Owes
  <2>3. CASE ~changed[h] /\ substitution' = substitution /\ Return(h)
    <3>1. /\ \A g \in Handlers : g # h => /\ stage'[g] = stage[g]
                                          /\ changed'[g] = changed[g]
                                          /\ pending'[g] = pending[g]
          /\ stage'[h] = "idle"
      BY <2>3 DEF Return, Goto, TypeOK
    <3>2. ~Owes(h)
      BY <2>1, <2>3 DEF Owes
    <3>3. QED
      BY <2>1, <2>3, <3>1, <3>2, StepAside
  <2>4. QED
    BY <1>6, <2>2, <2>3 DEF WriteSubstitution
<1>7. ASSUME NEW h \in Handlers, SpecializeProgram(h)
      PROVE  ProgramFollows'
  <2> SUFFICES ASSUME ~hasErrors', ~overlapped' PROVE ProgramFollows'
    BY DEF ProgramFollows
  <2>1. /\ \A g \in Handlers : g # h => stage'[g] = stage[g] /\ stage[g] # "store"
        /\ stage'[h] = "store"
        /\ pending'[h] = Specialize(reachability, substitution)
        /\ UNCHANGED <<reachability, substitution>>
    BY <1>7 DEF SpecializeProgram, Goto, TypeOK, shared
  <2>2. QED
    BY <2>1 DEF ProgramFollows
<1>8. ASSUME NEW h \in Handlers, StoreProgram(h)
      PROVE  ProgramFollows'
  <2> SUFFICES ASSUME ~hasErrors', ~overlapped' PROVE ProgramFollows'
    BY DEF ProgramFollows
  <2>1. /\ \A g \in Handlers : g # h => stage'[g] = stage[g] /\ changed'[g] = changed[g]
        /\ stage[h] = "store" /\ stage'[h] = "idle"
        /\ optimized' = pending[h]
        /\ UNCHANGED <<reachability, substitution, hasErrors, overlapped>>
    BY <1>8 DEF StoreProgram, Return, Goto, TypeOK, history
  <2>2. \A g \in Handlers : stage'[g] # "store"
    BY <2>1 DEF ProgramFollows
  <2>3. CASE \E g \in Handlers : Owes(g)
    <3>1. \E g \in Handlers : Owes(g)'
      BY <2>1, <2>3 DEF Owes
    <3>2. QED
      BY <2>2, <3>1 DEF ProgramFollows
  <2>4. CASE ~\E g \in Handlers : Owes(g)
    <3>1. pending[h] = Specialize(reachability, substitution)
      BY <2>1, <2>4 DEF ProgramFollows
    <3>2. QED
      BY <2>1, <2>2, <3>1 DEF ProgramFollows
  <2>5. QED
    BY <2>3, <2>4
<1>9. CASE UNCHANGED vars
  BY <1>9 DEF vars, shared, locals, history, ProgramFollows, Owes
<1>10. QED
  BY <1>1, <1>2, <1>3, <1>4, <1>5, <1>6, <1>7, <1>8, <1>9 DEF Next, Step

\* However many Write handlers run, the program left when all have returned without
\* an error is the specialization of the verdicts, unless one handler specialized
\* while another one had a finished program it had not stored: a handler that sees
\* no change because another one has just written it may return without harm.
THEOREM OutdatedProgramsOverlapped == Spec => []CurrentUnlessOverlapped
<1>1. Init => ProgramFollows
  BY DEF Init, ProgramFollows
<1>2. ProgramFollows => CurrentUnlessOverlapped
  BY DEF ProgramFollows, CurrentUnlessOverlapped, Quiescent, Owes
<1>3. QED
  BY <1>1, <1>2, TypeCorrect, NextFollows, PTL DEF Spec
=============================================================================
