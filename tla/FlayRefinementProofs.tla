------------------------- MODULE FlayRefinementProofs -------------------------
(***************************************************************************)
(* Proofs, for admissible programs and controllers, of what Flay is for:   *)
(* the constants the service substitutes are right, the optimized program  *)
(* is equivalent to the original one after every successful request, and   *)
(* the wrapper implements the abstract service.                            *)
(***************************************************************************)
EXTENDS FlayRefinement, FlayServiceProofs

-----------------------------------------------------------------------------
(* The inductive invariant.                                                 *)

\* Every table has a configuration that admissible messages can lead to.
Configured == ~hasErrors => \A t \in Tables : WellConfigured(t, constraints[t])

\* The constant of an expression is sound, unless its parameter is among the
\* symbols of the updates that are being converted.
Constants ==
    ~hasErrors =>
        \A e \in Expressions :
            (pc = "convert" => ArgSymbol(e[1], e[2]) \notin symbolSet) =>
                SoundConstant(constraints, e, substitution[e])

\* The program is the specialization of the maps, unless that is pending.
ProgramFollows ==
    (~hasErrors /\ pc # "specialize") => optimized = Specialize(reachability, substitution)

\* The part of the invariant that is proved here.
Sound == Configured /\ Constants /\ ProgramFollows

\* The constructor of the service establishes it.
LEMMA InitSound ==
    ASSUME Admissible
    PROVE  TypeOK /\ Init => Sound
<1> SUFFICES ASSUME TypeOK, Init PROVE Sound
  OBVIOUS
<1>1. \A t \in Tables : WellConfigured(t, constraints[t])
  BY InitialWellConfigured DEF Init
<1>2. constraints \in [Tables -> TableConfiguration]
  BY DEF TypeOK
<1>3. \A e \in Expressions : substitution[e] = NodeSubstitution(constraints, e)
  BY DEF Init, InitialSubstitution
<1>4. \A e \in Expressions : SoundConstant(constraints, e, substitution[e])
  BY <1>1, <1>2, <1>3, ComputedConstantSound
<1>5. QED
  BY <1>1, <1>4 DEF Sound, Configured, Constants, ProgramFollows, Init

\* Every step of the service keeps it.
LEMMA NextSound ==
    ASSUME UseSymbolSet, NoWildcardDelete, Admissible
    PROVE  TypeOK /\ Sound /\ [Next]_vars => Sound'
<1> SUFFICES ASSUME TypeOK, Sound, [Next]_vars, ~hasErrors' PROVE Sound'
  BY DEF Sound, Configured, Constants, ProgramFollows
<1> USE DEF Sound
<1>1. ASSUME NEW m \in 0..MaxBatch, NEW entry \in EntryPoints, ReceiveRequest(m, entry)
      PROVE  Sound'
  BY <1>1 DEF ReceiveRequest, maps, Configured, Constants, ProgramFollows
<1>2. ASSUME NEW msg \in Messages, ConvertUpdate(msg) PROVE Sound'
  <2> DEFINE converted == ConvertControlPlaneUpdate(constraints, msg)
  <2>1. /\ converted.ok
        /\ constraints' = converted.constraints
        /\ symbolSet' = symbolSet \cup converted.symbols
        /\ pc = "convert" /\ pc' = "convert"
        /\ ~hasErrors
        /\ substitution' = substitution /\ reachability' = reachability
        /\ optimized' = optimized
    BY <1>2 DEF ConvertUpdate, maps
  <2>2. constraints \in [Tables -> TableConfiguration]
    BY DEF TypeOK
  <2>3. \A t \in Tables : WellConfigured(t, constraints[t])
    BY <2>1 DEF Configured
  <2>4. \A t \in Tables : WellConfigured(t, converted.constraints[t])
    BY <2>1, <2>2, <2>3, ConvertWellConfigured
  <2>5. \A e \in Expressions : ArgSymbol(e[1], e[2]) \notin symbolSet' =>
           SoundConstant(converted.constraints, e, substitution[e])
    BY <2>1, <2>2, ConstantFrame DEF Constants
  <2> HIDE DEF converted
  <2>6. Configured'
    BY <2>1, <2>4 DEF Configured
  <2>7. Constants'
    BY <2>1, <2>5 DEF Constants
  <2>8. QED
    BY <2>1, <2>6, <2>7 DEF ProgramFollows
<1>3. CASE CheckForSemanticsChange
  <2>1. /\ substitution' = RecomputeSubstitution(substitution, symbolSet, constraints)
        /\ constraints' = constraints /\ optimized' = optimized
        /\ pc = "convert" /\ ~hasErrors /\ hasErrors' = hasErrors
    BY <1>3 DEF CheckForSemanticsChange
  <2>2. constraints \in [Tables -> TableConfiguration]
    BY DEF TypeOK
  <2>3. \A t \in Tables : WellConfigured(t, constraints[t])
    BY <2>1 DEF Configured
  <2>4. \A e \in Expressions : SoundConstant(constraints, e, substitution'[e])
    <3> SUFFICES ASSUME NEW e \in Expressions
                 PROVE  SoundConstant(constraints, e, substitution'[e])
      OBVIOUS
    <3>1. CASE ArgSymbol(e[1], e[2]) \in symbolSet
      <4>1. substitution'[e] = NodeSubstitution(constraints, e)
        BY <2>1, <3>1 DEF RecomputeSubstitution
      <4>2. QED
        BY <2>2, <2>3, <4>1, ComputedConstantSound
    <3>2. CASE ArgSymbol(e[1], e[2]) \notin symbolSet
      <4>1. substitution'[e] = substitution[e]
        BY <2>1, <3>2 DEF RecomputeSubstitution
      <4>2. QED
        BY <2>1, <3>2, <4>1 DEF Constants
    <3>3. QED
      BY <3>1, <3>2
  <2>5. Configured' /\ Constants'
    BY <2>1, <2>3, <2>4 DEF Configured, Constants
  <2>6. CASE pc' = "specialize"
    BY <2>5, <2>6 DEF ProgramFollows
  <2>7. CASE maps' = maps
    BY <2>1, <2>5, <2>7 DEF maps, ProgramFollows
  <2>8. QED
    BY <1>3, <2>6, <2>7 DEF CheckForSemanticsChange
<1>4. CASE SkipCheck
  BY <1>4 DEF SkipCheck
<1>5. CASE SpecializeProgram
  <2>1. /\ optimized' = Specialize(reachability, substitution)
        /\ UNCHANGED <<constraints, reachability, substitution>>
        /\ pc = "specialize" /\ ~hasErrors /\ hasErrors' = hasErrors
    BY <1>5 DEF SpecializeProgram, maps
  <2>2. QED
    BY <2>1 DEF Configured, Constants, ProgramFollows
<1>6. CASE Exit
  BY <1>6 DEF Exit, maps, Configured, Constants, ProgramFollows
<1>7. CASE UNCHANGED vars
  BY <1>7 DEF vars, Configured, Constants, ProgramFollows
<1>8. QED
  BY <1>1, <1>2, <1>3, <1>4, <1>5, <1>6, <1>7 DEF Next, Process, Terminated

\* The maps that are specialized are exact and sound, and specialization from
\* such maps preserves the program.
LEMMA SpecializationEquivalent ==
    ASSUME Admissible, TypeOK, Agreement, Configured, Constants, ~hasErrors, pc # "convert",
           NEW k \in Packets
    PROVE  Effects(Specialize(reachability, substitution), constraints, k)
             = Effects(OriginalProgram, constraints, k)
<1>1. reachability = InitialReachability(constraints)
  BY DEF Agreement, Exact, InitialReachability, TypeOK
<1>2. /\ constraints \in [Tables -> TableConfiguration]
      /\ \A t \in Tables : WellConfigured(t, constraints[t])
      /\ \A e \in Expressions : SoundConstant(constraints, e, substitution[e])
  BY DEF TypeOK, Configured, Constants
<1>3. Effects(Specialized(constraints, substitution), constraints, k)
        = Effects(OriginalProgram, constraints, k)
  BY <1>2, SpecializationPreserves
<1>4. QED
  BY <1>1, <1>3 DEF Specialized

-----------------------------------------------------------------------------
(* The two safety properties.                                               *)

\* With symbol sets, admissible messages and no wildcard delete, no constant of
\* the substitution map is wrong after a successful request, although
\* recomputeSubstitution looks at the reported parameters only.
THEOREM ConstantsAreRight ==
    ASSUME UseSymbolSet, NoWildcardDelete, Admissible
    PROVE  Spec => []SubstitutionSound
<1>1. Sound => SubstitutionSound
  BY DEF Sound, Constants, SubstitutionSound, Settled, SoundConstant
<1>2. QED
  BY <1>1, TypeCorrect, InitSound, NextSound, PTL DEF Spec

\* Under the same assumptions the program the service hands out after a
\* successful request, specialized anew or kept because no verdict changed, does
\* to every packet what the original program does: for the wrapper and for the
\* server, for both APIs and for every program and sequence of requests.
THEOREM OptimizationPreservesProgram ==
    ASSUME UseSymbolSet, NoWildcardDelete, Admissible
    PROVE  Spec => []OptimizedEquivalent
<1>1. TypeOK /\ Agreement /\ Sound => OptimizedEquivalent
  BY SpecializationEquivalent DEF Sound, ProgramFollows, OptimizedEquivalent, Settled
<1>2. QED
  BY <1>1, TypeCorrect, InitAgreement, NextAgreement, InitSound, NextSound, PTL DEF Spec

-----------------------------------------------------------------------------
(* Refinement.  The operators of the abstract specification are those of    *)
(* the detailed one, instantiated.                                          *)

\* Both apply an entry to a configuration in the same way.
LEMMA SameEntry ==
    ASSUME NEW c, NEW msg
    PROVE  Abstract!ApplyEntry(c, msg) = ApplyEntry(c, msg)
  BY DEF ApplyEntry, AddTableEntry, DeleteTableEntry, CallOf, Installed,
         NoEntry, Unassigned, Abstract!ApplyEntry, Abstract!AddTableEntry,
         Abstract!DeleteTableEntry, Abstract!CallOf, Abstract!Installed,
         Abstract!NoEntry, Abstract!Unassigned

\* Both update the configuration of a table in the same way.
LEMMA SameUpdate ==
    ASSUME NEW c, NEW msg
    PROVE  Abstract!UpdateConfiguration(c, msg) = UpdateConfiguration(c, msg)
  BY SameEntry DEF UpdateConfiguration, UpdateEntry, Updated, WithDefault,
         SetDefaultTableAction, OverrideAssignment, ClearTableEntries,
         ConvertibleEntry, ConvertibleAction, ConvertibleMatch, CallOf,
         DefaultSymbols, ActionSymbols, ArgSymbol, ChoiceSymbol,
         DefaultSymbol, BadArg, NoData, NoEntry, Unassigned,
         Abstract!UpdateConfiguration, Abstract!UpdateEntry, Abstract!Updated,
         Abstract!WithDefault, Abstract!SetDefaultTableAction,
         Abstract!OverrideAssignment, Abstract!ClearTableEntries,
         Abstract!ConvertibleEntry, Abstract!ConvertibleAction,
         Abstract!ConvertibleMatch, Abstract!CallOf, Abstract!DefaultSymbols,
         Abstract!ActionSymbols, Abstract!ArgSymbol, Abstract!ChoiceSymbol,
         Abstract!DefaultSymbol, Abstract!BadArg, Abstract!NoData,
         Abstract!NoEntry, Abstract!Unassigned

\* Both read a message for an action profile in the same way.
LEMMA SameForTable ==
    ASSUME NEW msg, NEW t
    PROVE  Abstract!ForTable(msg, t) = ForTable(msg, t)
  BY DEF ForTable, Abstract!ForTable, BadMatch, Abstract!BadMatch

\* Both convert messages in the same way.
LEMMA SameConversion ==
    ASSUME NEW cs, NEW msg
    PROVE  Abstract!ConvertControlPlaneUpdate(cs, msg) = ConvertControlPlaneUpdate(cs, msg)
<1>1. Abstract!UpdateTableEntry(cs, msg) = UpdateTableEntry(cs, msg)
  BY SameUpdate
     DEF UpdateTableEntry, Abstract!UpdateTableEntry, Converted, Abstract!Converted
<1>2. Abstract!ConfigureActionProfile(cs, msg) = ConfigureActionProfile(cs, msg)
  <2> DEFINE old == [t \in AssociatedTables[msg.table] |->
                        UpdateConfiguration(cs[t], ForTable(msg, t))]
             new == [t \in AssociatedTables[msg.table] |->
                        Abstract!UpdateConfiguration(cs[t], Abstract!ForTable(msg, t))]
             failed(u) == {t \in DOMAIN u : ~u[t].ok}
             visited(u) == {t \in DOMAIN u :
                               \A v \in failed(u) : TableRank[t] <= TableRank[v]}
             outcome(u) ==
                 [ok |-> failed(u) = {},
                  constraints |-> [t \in Tables |-> IF t \in visited(u) THEN u[t].cfg ELSE cs[t]],
                  symbols |-> UNION {u[t].symbols : t \in visited(u)}]
  <2>1. old = new
    BY SameUpdate, SameForTable
  <2>2. ConfigureActionProfile(cs, msg) = outcome(old)
    BY DEF ConfigureActionProfile, Converted
  <2>3. Abstract!ConfigureActionProfile(cs, msg) = outcome(new)
    BY DEF Abstract!ConfigureActionProfile, Abstract!Converted
  <2> HIDE DEF old, new, outcome
  <2>4. QED
    BY <2>1, <2>2, <2>3
<1>3. QED
  BY <1>1, <1>2 DEF ConvertControlPlaneUpdate, P4RuntimeUpdate, BfRuntimeUpdate, Converted,
         SkippedTables, Abstract!ConvertControlPlaneUpdate, Abstract!P4RuntimeUpdate,
         Abstract!BfRuntimeUpdate, Abstract!Converted, Abstract!SkippedTables

\* Both mean the same by the effects of a program.
LEMMA SameEffects ==
    ASSUME NEW p, NEW cs, NEW k
    PROVE  /\ Abstract!Effects(p, cs, k) = Effects(p, cs, k)
           /\ Abstract!OriginalProgram = OriginalProgram
  BY DEF Effects, Reached, BranchTaken, BranchCondition, MatchingEntries,
         LookupCall, Body, Expressions, Installed, NoEntry, OriginalProgram,
         Unassigned, None, Abstract!Effects, Abstract!Reached,
         Abstract!BranchTaken, Abstract!BranchCondition,
         Abstract!MatchingEntries, Abstract!LookupCall, Abstract!Body,
         Abstract!Expressions, Abstract!Installed, Abstract!NoEntry,
         Abstract!OriginalProgram, Abstract!Unassigned, Abstract!None

\* Both mean the same by a program.
LEMMA SamePrograms == Abstract!Programs = Programs
  BY DEF Programs, Verdicts, Expressions, Unassigned, Abstract!Programs,
         Abstract!Verdicts, Abstract!Expressions, Abstract!Unassigned

\* Both start from the same configuration.
LEMMA SameInitialConfiguration ==
    ASSUME NEW t
    PROVE  Abstract!InitialConfiguration(t) = InitialConfiguration(t)
  BY DEF InitialConfiguration, ComputeDefaultActionConstraints, None,
         Unassigned, Abstract!InitialConfiguration,
         Abstract!ComputeDefaultActionConstraints, Abstract!None,
         Abstract!Unassigned

\* The invariant of the wrapper: the parts above, what they imply, and that an
\* error ends it.
WrapperInv == TypeOK /\ Agreement /\ Sound /\ Currency /\ OptimizedEquivalent

\* The program the wrapper starts with is one the abstract service may start with.
LEMMA InitRefines == WrapperInv /\ Init => Abstract!Init
<1> SUFFICES ASSUME WrapperInv, Init PROVE Abstract!Init
  OBVIOUS
<1>1. constraints = [t \in Tables |-> Abstract!InitialConfiguration(t)]
  BY SameInitialConfiguration DEF Init
<1>2. optimized \in Abstract!Programs
  BY SamePrograms DEF WrapperInv, TypeOK
<1>3. Abstract!Equivalent(optimized, constraints)
  BY SameEffects DEF Abstract!Equivalent, WrapperInv, OptimizedEquivalent, Settled, Init
<1>4. Phase = "ready"
  BY DEF Phase, Init
<1>5. QED
  BY <1>1, <1>2, <1>3, <1>4 DEF Abstract!Init

\* A request that ends without an error is an answer.
LEMMA AnswerRefines ==
    ASSUME WrapperInv', ~hasErrors', pc' = "idle",
           pc \in {"convert", "specialize"}, constraints' = constraints
    PROVE  Abstract!Answer
<1>1. \A k \in Packets :
        Effects(optimized', constraints, k) = Effects(OriginalProgram, constraints, k)
  BY DEF WrapperInv, OptimizedEquivalent, Settled
<1>2. Abstract!Equivalent(optimized', constraints)
  BY <1>1, SameEffects DEF Abstract!Equivalent
<1>3. optimized' \in Abstract!Programs
  BY SamePrograms DEF WrapperInv, TypeOK
<1>4. Phase = "processing" /\ Phase' = "ready"
  BY DEF Phase
<1>5. QED
  BY <1>2, <1>3, <1>4 DEF Abstract!Answer

\* Every step of the wrapper is a step of the abstract service or invisible.
LEMMA NextRefines ==
    ASSUME UseSymbolSet, ~Server
    PROVE  WrapperInv /\ WrapperInv' /\ [Next]_vars =>
               [Abstract!Next]_(Abstract!abstractVars)
<1> DEFINE Goal == [Abstract!Next]_(Abstract!abstractVars)
<1> SUFFICES ASSUME WrapperInv, WrapperInv', [Next]_vars PROVE Goal
  OBVIOUS
<1>1. ASSUME NEW n \in 0..MaxBatch, NEW entry \in EntryPoints, ReceiveRequest(n, entry)
      PROVE  Goal
  BY <1>1 DEF ReceiveRequest, Phase, Abstract!Accept, Abstract!Next
<1>2. ASSUME NEW msg \in Messages, ConvertUpdate(msg) PROVE Goal
  <2> DEFINE converted == ConvertControlPlaneUpdate(constraints, msg)
  <2>1. /\ pc = "convert" /\ constraints' = converted.constraints /\ optimized' = optimized
        /\ Phase = "processing"
    BY <1>2 DEF ConvertUpdate, Phase
  <2>2. converted = Abstract!ConvertControlPlaneUpdate(constraints, msg)
    BY SameConversion
  <2> HIDE DEF converted
  <2>3. CASE converted.ok /\ pc' = pc
    <3>1. Phase' = "processing"
      BY <2>1, <2>3 DEF Phase
    <3>2. Abstract!Configure(msg)
      BY <2>1, <2>2, <2>3, <3>1 DEF Abstract!Configure
    <3>3. QED
      BY <3>2 DEF Abstract!Next
  <2>4. CASE ~converted.ok /\ pc' = "exit"
    <3>1. Phase' = "stopped"
      BY <2>4 DEF Phase
    <3>2. Abstract!Reject(msg)
      BY <2>1, <2>2, <2>4, <3>1 DEF Abstract!Reject
    <3>3. QED
      BY <3>2 DEF Abstract!Next
  <2>5. QED
    BY <1>2, <2>3, <2>4 DEF ConvertUpdate, Finish, converted
<1>3. CASE CheckForSemanticsChange
  <2>1. /\ pc = "convert" /\ constraints' = constraints /\ optimized' = optimized
        /\ hasErrors' = hasErrors /\ ~hasErrors
    BY <1>3 DEF CheckForSemanticsChange, WrapperInv, Currency
  <2>2. CASE pc' = "specialize"
    BY <2>1, <2>2 DEF Phase, Abstract!abstractVars
  <2>3. CASE pc' = "idle"
    BY <2>1, <2>3, AnswerRefines DEF Abstract!Next
  <2>4. QED
    BY <1>3, <2>2, <2>3 DEF CheckForSemanticsChange, Finish
<1>4. CASE SkipCheck
  BY <1>4 DEF SkipCheck
<1>5. CASE SpecializeProgram
  <2>1. pc = "specialize" /\ ~hasErrors /\ ~hasErrors' /\ constraints' = constraints
    BY <1>5 DEF SpecializeProgram, WrapperInv, Currency
  <2>2. pc' = "idle"
    BY <1>5, <2>1 DEF SpecializeProgram, Finish
  <2>3. QED
    BY <2>1, <2>2, AnswerRefines DEF Abstract!Next
<1>6. CASE Exit
  BY <1>6 DEF Exit, Phase, Abstract!Stop, Abstract!Next
<1>7. CASE UNCHANGED vars
  BY <1>7 DEF vars, Phase, Abstract!abstractVars
<1>8. QED
  BY <1>1, <1>2, <1>3, <1>4, <1>5, <1>6, <1>7 DEF Next, Process, Terminated

\* The wrapper, with admissible messages and symbol sets, implements the abstract
\* service: every answer hands out a program that is equivalent to the original
\* one under the configuration the controller has asked for, and a request that
\* is rejected stops the service and leaves its program alone.
THEOREM WrapperImplementsAbstractFlay ==
    ASSUME UseSymbolSet, NoWildcardDelete, Admissible, ~Server
    PROVE  Spec => ImplementsAbstractFlay
<1>1. Init => Currency
  BY DEF Init, Currency
<1>2. TypeOK /\ Agreement /\ Sound /\ Currency /\ OptimizedEquivalent => WrapperInv
  BY DEF WrapperInv
<1>3. Spec => []WrapperInv
  BY <1>1, <1>2, TypeCorrect, InitAgreement, NextAgreement, InitSound, NextSound,
     NextCurrency, OptimizationPreservesProgram, PTL DEF Spec
<1>4. QED
  BY <1>3, InitRefines, NextRefines, PTL DEF Spec, ImplementsAbstractFlay, Abstract!Spec
=============================================================================
