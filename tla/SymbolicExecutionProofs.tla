----------------------- MODULE SymbolicExecutionProofs -----------------------
(***************************************************************************)
(* The symbolic interpreter is exact: for every program, whatever branches *)
(* are cloned, executed and merged, the execution state describes every    *)
(* packet that executes the current statement, and the conditions that are *)
(* collected for the nodes of the program decide which packets take them.  *)
(***************************************************************************)
EXTENDS SymbolicExecution, SequenceTheorems, FiniteSetTheorems, TLAPS

-----------------------------------------------------------------------------
(* Types of the operators.                                                  *)

\* The types of a program's parts.
LEMMA LocationsType ==
    /\ Fields \subseteq Readable /\ Readable \subseteq Locations
    /\ Valid \in Readable /\ Field \in Readable /\ Param \in Locations \ Readable
    /\ Valid # Field
    /\ Tests \subseteq Readable
    /\ \A e \in Expressions : e[1] \in Operators /\ e[2] \in Readable
                               /\ e[3] \in Readable /\ e[4] \in Readable
    /\ \A args \in Arguments : args[1] \in Readable /\ args[2] \in Readable
<1>1. Valid # Field /\ Valid # Param /\ Field # Param
  BY DEF Valid, Field, Param
<1>2. Param \notin Readable
  BY <1>1, InterpreterAssumption DEF Readable
<1>3. \A e \in Expressions : e[1] \in Operators /\ e[2] \in Readable
                               /\ e[3] \in Readable /\ e[4] \in Readable
  BY InterpreterAssumption
<1>4. \A args \in Arguments : args[1] \in Readable /\ args[2] \in Readable
  BY InterpreterAssumption
<1>5. QED
  BY <1>1, <1>2, <1>3, <1>4, InterpreterAssumption DEF Readable, Locations

\* Symbolic expressions.
LEMMA SymbolicType ==
    /\ \A x \in Values : Constant(x) \in Symbolic
    /\ \A s \in 1..MaxSymbols : Symbol(s) \in Symbolic
    /\ \A e : Holds(e) \subseteq Valuations
    /\ \A c, e, f : e \in Symbolic /\ f \in Symbolic => Mux(c, e, f) \in Symbolic
<1>1. \A x \in Values : Constant(x) \in Symbolic
  BY DEF Constant, Symbolic
<1>2. \A s \in 1..MaxSymbols : Symbol(s) \in Symbolic
  BY DEF Symbol, Symbolic, Valuations
<1>3. \A e : Holds(e) \subseteq Valuations
  BY DEF Holds
<1>4. \A c, e, f : e \in Symbolic /\ f \in Symbolic => Mux(c, e, f) \in Symbolic
  BY DEF Mux, Symbolic
<1>5. QED
  BY <1>1, <1>2, <1>3, <1>4

\* The fields of an execution state.
LEMMA StateFields ==
    ASSUME NEW st \in ExecutionState
    PROVE  /\ st.env \in [Locations -> Symbolic]
           /\ st.cond \subseteq Valuations
           /\ st.reach \in [Nodes -> SUBSET SUBSET Valuations]
           /\ \A l \in Locations : st.env[l] \in Symbolic /\ \A v \in Valuations : st.env[l][v] \in Values
  BY DEF ExecutionState, Symbolic

\* setVar: one variable changes.
LEMMA SetVarShape ==
    ASSUME NEW st \in ExecutionState, NEW l \in Locations, NEW e \in Symbolic
    PROVE  /\ SetVar(st, l, e) \in ExecutionState
           /\ SetVar(st, l, e).cond = st.cond
           /\ SetVar(st, l, e).reach = st.reach
           /\ SetVar(st, l, e).env[l] = e
           /\ \A m \in Locations : m # l => SetVar(st, l, e).env[m] = st.env[m]
  BY DEF SetVar, ExecutionState

\* pushExecutionCondition: the condition is strengthened.
LEMMA PushShape ==
    ASSUME NEW st \in ExecutionState, NEW c
    PROVE  /\ PushExecutionCondition(st, c) \in ExecutionState
           /\ PushExecutionCondition(st, c).cond = st.cond \cap c
           /\ PushExecutionCondition(st, c).env = st.env
  BY DEF PushExecutionCondition, ExecutionState

\* addReachabilityMapping: only the reachability map changes.
LEMMA MappingShape ==
    ASSUME NEW st \in ExecutionState, NEW n, NEW c
    PROVE  /\ AddReachabilityMapping(st, n, c) \in ExecutionState
           /\ AddReachabilityMapping(st, n, c).cond = st.cond
           /\ AddReachabilityMapping(st, n, c).env = st.env
<1> DEFINE old == st.reach[n]
           new == IF old = {} THEN {st.cond \cap c}
                  ELSE {d \cup (st.cond \cap c) : d \in old}
<1>1. AddReachabilityMapping(st, n, c) = [st EXCEPT !.reach = [st.reach EXCEPT ![n] = new]]
  BY DEF AddReachabilityMapping
<1>2. n \in Nodes => new \in SUBSET SUBSET Valuations
  BY DEF ExecutionState
<1>3. [st.reach EXCEPT ![n] = new] \in [Nodes -> SUBSET SUBSET Valuations]
  BY <1>2 DEF ExecutionState
<1>4. QED
  BY <1>1, <1>3 DEF ExecutionState

\* merge: where the other execution condition holds, its values replace these.
LEMMA MergeShape ==
    ASSUME NEW st \in ExecutionState, NEW other \in ExecutionState
    PROVE  /\ Merge(st, other) \in ExecutionState
           /\ Merge(st, other).cond = st.cond
           /\ \A l \in Locations : \A v \in Valuations :
                 Merge(st, other).env[l][v] = IF v \in other.cond THEN other.env[l][v]
                                              ELSE st.env[l][v]
<1>1. [l \in Locations |-> Mux(other.cond, other.env[l], st.env[l])] \in [Locations -> Symbolic]
  BY SymbolicType, StateFields
<1>2. MergeAnnotationMapping(st.reach, other.reach) \in [Nodes -> SUBSET SUBSET Valuations]
  BY StateFields DEF MergeAnnotationMapping
<1>3. Merge(st, other) \in ExecutionState /\ Merge(st, other).cond = st.cond
  BY <1>1, <1>2, StateFields DEF Merge, ExecutionState
<1>4. \A l \in Locations : Merge(st, other).env[l] = Mux(other.cond, other.env[l], st.env[l])
  BY DEF Merge
<1>5. QED
  BY <1>3, <1>4 DEF Mux

-----------------------------------------------------------------------------
(* Tables.                                                                  *)

\* A location with the parameter bound to arg, for packet v.
Bound(st, arg, v, l) == IF l = Param THEN arg[v] ELSE st.env[l][v]

\* A location after the body of action a.
AfterBody(st, shape, a, arg, v, l) ==
    IF Bound(st, arg, v, shape.body[a].test) = 1 /\ l = shape.body[a].dst
    THEN Bound(st, arg, v, shape.body[a].src) ELSE Bound(st, arg, v, l)

\* The parts of a table.
LEMMA ShapeType ==
    ASSUME NEW shape \in Shapes, NEW a \in Acts
    PROVE  /\ shape.body[a].test \in Locations /\ shape.body[a].src \in Locations
           /\ shape.body[a].dst \in Fields /\ shape.body[a].dst \in Readable
           /\ shape.default \in Acts /\ shape.defaultArg \in Values
<1>1. /\ shape.body \in [Acts -> [test : Locations, dst : Fields, src : Locations]]
      /\ shape.default \in Acts /\ shape.defaultArg \in Values
  BY DEF Shapes
<1>2. shape.body[a] \in [test : Locations, dst : Fields, src : Locations]
  BY <1>1
<1>3. QED
  BY <1>1, <1>2, LocationsType

\* callAction: the packets of the state are after the body.
LEMMA CallActionShape ==
    ASSUME NEW st \in ExecutionState, NEW shape \in Shapes, NEW a \in Acts,
           NEW arg \in Symbolic
    PROVE  /\ CallAction(st, shape, a, arg) \in ExecutionState
           /\ CallAction(st, shape, a, arg).cond = st.cond
           /\ \A v \in st.cond, l \in Locations :
                 CallAction(st, shape, a, arg).env[l][v] = AfterBody(st, shape, a, arg, v, l)
<1> DEFINE body   == shape.body[a]
           bound  == SetVar(st, Param, arg)
           test   == Holds(bound.env[body.test])
           mapped == AddReachabilityMapping(bound, BodyNode(a), test)
           pushed == PushExecutionCondition(mapped, test)
           then   == SetVar(pushed, body.dst, mapped.env[body.src])
<1>1. /\ body.test \in Locations /\ body.src \in Locations /\ body.dst \in Locations
      /\ Param \in Locations /\ body.dst # Param
  BY ShapeType, LocationsType
<1>2. /\ bound \in ExecutionState /\ bound.cond = st.cond
      /\ \A l \in Locations : \A v : bound.env[l][v] = Bound(st, arg, v, l)
  BY <1>1, SetVarShape DEF Bound
<1> HIDE DEF bound, body
<1>3. mapped \in ExecutionState /\ mapped.cond = st.cond /\ mapped.env = bound.env
  BY <1>2, MappingShape
<1> HIDE DEF mapped, test
<1>4. /\ pushed \in ExecutionState /\ pushed.cond = st.cond \cap test
      /\ pushed.env = bound.env
  BY <1>3, PushShape
<1> HIDE DEF pushed
<1>5. mapped.env[body.src] \in Symbolic
  BY <1>1, <1>3, StateFields
<1>6. /\ then \in ExecutionState /\ then.cond = pushed.cond
      /\ then.env[body.dst] = mapped.env[body.src]
      /\ \A l \in Locations : l # body.dst => then.env[l] = pushed.env[l]
  <2> DEFINE dst == body.dst
             src == mapped.env[body.src]
  <2>1. dst \in Locations /\ src \in Symbolic
    BY <1>1, <1>5
  <2> HIDE DEF dst, src
  <2>2. /\ SetVar(pushed, dst, src) \in ExecutionState
        /\ SetVar(pushed, dst, src).cond = pushed.cond
        /\ SetVar(pushed, dst, src).env[dst] = src
        /\ \A l \in Locations : l # dst => SetVar(pushed, dst, src).env[l] = pushed.env[l]
    BY <1>4, <2>1, SetVarShape
  <2>3. QED
    BY <2>2 DEF dst, src
<1> HIDE DEF then
<1>7. CallAction(st, shape, a, arg) = Merge(mapped, then)
  BY DEF CallAction, bound, mapped, then, pushed, body, test
<1>8. \A v \in st.cond : v \in test <=> Bound(st, arg, v, body.test) = 1
  BY <1>1, <1>2, StateFields DEF Holds, test
<1>9. ASSUME NEW v \in st.cond, NEW l \in Locations
      PROVE  Merge(mapped, then).env[l][v] = AfterBody(st, shape, a, arg, v, l)
  <2>1. v \in Valuations
    BY StateFields
  <2>2. Merge(mapped, then).env[l][v] = IF v \in test THEN then.env[l][v] ELSE bound.env[l][v]
    BY <1>3, <1>4, <1>6, <2>1, MergeShape
  <2>3. QED
    BY <1>1, <1>2, <1>3, <1>4, <1>6, <1>8, <2>2 DEF AfterBody, body
<1>10. Merge(mapped, then) \in ExecutionState /\ Merge(mapped, then).cond = st.cond
  BY <1>3, <1>6, MergeShape
<1>11. QED
  BY <1>7, <1>9, <1>10

\* The conditions of a table: an action is hit by the packets that choose it.
LEMMA HitConditions ==
    ASSUME NEW shape \in Shapes, NEW s \in 1..MaxSymbols, s + 2 \in 1..MaxSymbols,
           NEW v \in Valuations
    PROVE  /\ ChosenAction(shape, v, s) \in Acts
           /\ v \in TotalHit(shape, s) <=> ActionChoice(shape, v, s) # NoAction
           /\ \A a \in Acts : v \in ActionHit(shape, a, s)
                 <=> ChosenAction(shape, v, s) = a /\ ~ByProgram(shape, v, s)
<1>1. s + 1 \in 1..MaxSymbols
  BY InterpreterAssumption
<1>2. v[s] \in {0, 1} /\ v[s + 1] \in {0, 1} /\ v[s + 2] \in {0, 1}
  BY <1>1 DEF Valuations, Values
<1>3. /\ ActionChoice(shape, v, s) \in {0, 1, 2}
      /\ ActionChoice(shape, v, s) # 2 => ActionChoice(shape, v, s) \notin shape.defaultOnly
      /\ DefaultChoice(shape, v, s) \in {1, 2}
      /\ DefaultChoice(shape, v, s) = 1 => 1 \notin shape.tableOnly
      /\ ActionChoice(shape, v, s) = 2 \/ DefaultChoice(shape, v, s) = 2
  BY <1>2 DEF ActionChoice, DefaultChoice, NoAction
<1>4. v \in TotalHit(shape, s) <=> ActionChoice(shape, v, s) # NoAction
  BY <1>3 DEF TotalHit, Acts, NoAction
<1>5. shape.default \in {0, 1}
  BY DEF Shapes, Acts
<1>6. ChosenAction(shape, v, s) \in Acts
  BY <1>3, <1>5 DEF ChosenAction, Acts, NoAction
<1>7. ASSUME NEW a \in Acts
      PROVE  v \in ActionHit(shape, a, s)
               <=> ChosenAction(shape, v, s) = a /\ ~ByProgram(shape, v, s)
  <2>1. v \in ActionHit(shape, a, s)
          <=> \/ a \notin shape.defaultOnly /\ ActionChoice(shape, v, s) = a
              \/ /\ a \notin shape.tableOnly
                 /\ v \notin TotalHit(shape, s)
                 /\ DefaultChoice(shape, v, s) = a
    BY DEF ActionHit
  <2>2. a \in {0, 1}
    BY DEF Acts
  <2>3. CASE ActionChoice(shape, v, s) # NoAction
    BY <1>3, <1>4, <2>1, <2>2, <2>3 DEF ChosenAction, ByProgram, NoAction
  <2>4. CASE ActionChoice(shape, v, s) = NoAction /\ DefaultChoice(shape, v, s) # NoAction
    <3>1. ChosenAction(shape, v, s) = 1 /\ ~ByProgram(shape, v, s)
      BY <1>3, <2>4 DEF ChosenAction, ByProgram, NoAction
    <3>2. QED
      BY <1>3, <1>4, <2>1, <2>2, <2>4, <3>1 DEF NoAction
  <2>5. CASE ActionChoice(shape, v, s) = NoAction /\ DefaultChoice(shape, v, s) = NoAction
    BY <1>3, <1>4, <2>1, <2>2, <2>5 DEF ByProgram, NoAction
  <2>6. QED
    BY <2>3, <2>4, <2>5
<1>8. QED
  BY <1>4, <1>6, <1>7

\* One action of the loop: it replaces the values of the packets that hit it.
LEMMA ProcessActionShape ==
    ASSUME NEW st \in ExecutionState, NEW reference \in ExecutionState,
           reference.cond = st.cond, NEW shape \in Shapes, NEW a \in Acts, NEW s,
           Symbol(s + 2) \in Symbolic
    PROVE  /\ ProcessAction(st, reference, shape, a, s) \in ExecutionState
           /\ ProcessAction(st, reference, shape, a, s).cond = st.cond
           /\ \A v \in st.cond, l \in Locations :
                 ProcessAction(st, reference, shape, a, s).env[l][v]
                   = IF v \in ActionHit(shape, a, s)
                     THEN AfterBody(reference, shape, a, Symbol(s + 2), v, l)
                     ELSE st.env[l][v]
<1> DEFINE hit    == ActionHit(shape, a, s)
           arg    == Symbol(s + 2)
           mapped == AddReachabilityMapping(st, ActNode(a), hit)
           pushed == PushExecutionCondition(reference, hit)
           called == CallAction(pushed, shape, a, arg)
<1> HIDE DEF hit, arg
<1>1. mapped \in ExecutionState /\ mapped.cond = st.cond /\ mapped.env = st.env
  BY MappingShape
<1>2. /\ pushed \in ExecutionState /\ pushed.cond = st.cond \cap hit
      /\ pushed.env = reference.env
  BY PushShape
<1> HIDE DEF mapped, pushed
<1>3. /\ called \in ExecutionState /\ called.cond = pushed.cond
      /\ \A v \in pushed.cond, l \in Locations :
            called.env[l][v] = AfterBody(pushed, shape, a, arg, v, l)
  BY <1>2, CallActionShape DEF arg
<1> HIDE DEF called
<1>4. \A v, l : AfterBody(pushed, shape, a, arg, v, l) = AfterBody(reference, shape, a, arg, v, l)
  BY <1>2 DEF AfterBody, Bound
<1>5. ProcessAction(st, reference, shape, a, s) = Merge(mapped, called)
  BY DEF ProcessAction, mapped, called, pushed, hit, arg
<1>6. ASSUME NEW v \in st.cond, NEW l \in Locations
      PROVE  Merge(mapped, called).env[l][v]
               = IF v \in hit THEN AfterBody(reference, shape, a, arg, v, l) ELSE st.env[l][v]
  <2>1. v \in Valuations
    BY StateFields
  <2>2. Merge(mapped, called).env[l][v]
          = IF v \in called.cond THEN called.env[l][v] ELSE mapped.env[l][v]
    BY <1>1, <1>3, <2>1, MergeShape
  <2>3. QED
    BY <1>1, <1>2, <1>3, <1>4, <2>2
<1>7. Merge(mapped, called) \in ExecutionState /\ Merge(mapped, called).cond = st.cond
  BY <1>1, <1>3, MergeShape
<1>8. QED
  BY <1>5, <1>6, <1>7 DEF hit, arg

\* processTable: every packet of the state is after the body of its action.
LEMMA ProcessTableShape ==
    ASSUME NEW st \in ExecutionState, NEW shape \in Shapes, NEW s \in 1..MaxSymbols,
           s + 2 \in 1..MaxSymbols
    PROVE  /\ ProcessTable(st, shape, s) \in ExecutionState
           /\ ProcessTable(st, shape, s).cond = st.cond
           /\ \A v \in st.cond, l \in Locations :
                 ProcessTable(st, shape, s).env[l][v]
                   = AfterBody(st, shape, ChosenAction(shape, v, s),
                               IF ByProgram(shape, v, s) THEN Constant(shape.defaultArg)
                               ELSE Symbol(s + 2), v, l)
<1> DEFINE default == CallAction(st, shape, shape.default, Constant(shape.defaultArg))
           first  == ProcessAction(default, st, shape, 0, s)
           second == ProcessAction(first, st, shape, 1, s)
<1>1. /\ Constant(shape.defaultArg) \in Symbolic /\ Symbol(s + 2) \in Symbolic
      /\ shape.default \in Acts /\ 0 \in Acts /\ 1 \in Acts
  BY SymbolicType DEF Shapes, Acts
<1>2. /\ default \in ExecutionState /\ default.cond = st.cond
      /\ \A v \in st.cond, l \in Locations :
            default.env[l][v]
              = AfterBody(st, shape, shape.default, Constant(shape.defaultArg), v, l)
  BY <1>1, CallActionShape
<1> HIDE DEF default
<1>3. /\ first \in ExecutionState /\ first.cond = st.cond
      /\ \A v \in st.cond, l \in Locations :
            first.env[l][v] = IF v \in ActionHit(shape, 0, s)
                              THEN AfterBody(st, shape, 0, Symbol(s + 2), v, l)
                              ELSE default.env[l][v]
  BY <1>1, <1>2, ProcessActionShape
<1> HIDE DEF first
<1>4. /\ second \in ExecutionState /\ second.cond = st.cond
      /\ \A v \in st.cond, l \in Locations :
            second.env[l][v] = IF v \in ActionHit(shape, 1, s)
                               THEN AfterBody(st, shape, 1, Symbol(s + 2), v, l)
                               ELSE first.env[l][v]
  BY <1>1, <1>3, ProcessActionShape
<1>5. ProcessTable(st, shape, s) = second
  BY DEF ProcessTable, second, first, default
<1> HIDE DEF second
<1>6. ASSUME NEW v \in st.cond, NEW l \in Locations
      PROVE  second.env[l][v]
               = AfterBody(st, shape, ChosenAction(shape, v, s),
                           IF ByProgram(shape, v, s) THEN Constant(shape.defaultArg)
                           ELSE Symbol(s + 2), v, l)
  <2>1. v \in Valuations
    BY StateFields
  <2>2. /\ ChosenAction(shape, v, s) \in {0, 1}
        /\ v \in ActionHit(shape, 0, s)
             <=> ChosenAction(shape, v, s) = 0 /\ ~ByProgram(shape, v, s)
        /\ v \in ActionHit(shape, 1, s)
             <=> ChosenAction(shape, v, s) = 1 /\ ~ByProgram(shape, v, s)
    BY <1>1, <2>1, HitConditions DEF Acts
  <2>3. CASE ByProgram(shape, v, s)
    <3>1. ChosenAction(shape, v, s) = shape.default
      BY <2>3 DEF ByProgram, ChosenAction
    <3>2. QED
      BY <1>2, <1>3, <1>4, <2>2, <2>3, <3>1
  <2>4. CASE ~ByProgram(shape, v, s)
    BY <1>3, <1>4, <2>2, <2>4
  <2>5. QED
    BY <2>3, <2>4
<1>7. QED
  BY <1>4, <1>5, <1>6

\* The memory of a packet after a table.
LEMMA RunTableShape ==
    ASSUME NEW mem \in [Locations -> Values], NEW shape \in Shapes, NEW s \in 1..MaxSymbols,
           s + 2 \in 1..MaxSymbols, NEW v \in Valuations
    PROVE  RunTable(mem, shape, v, s).memory \in [Locations -> Values]
<1>1. v[s + 2] \in Values
  BY DEF Valuations
<1>2. ChosenAction(shape, v, s) \in Acts
  BY HitConditions
<1> DEFINE body == shape.body[ChosenAction(shape, v, s)]
           arg  == IF ByProgram(shape, v, s) THEN shape.defaultArg ELSE v[s + 2]
<1>3. /\ body.test \in Locations /\ body.src \in Locations /\ body.dst \in Locations
      /\ arg \in Values
  BY <1>1, <1>2, ShapeType, LocationsType
<1> DEFINE bound == [mem EXCEPT ![Param] = arg]
<1>4. bound \in [Locations -> Values]
  BY <1>3
<1>5. RunTable(mem, shape, v, s).memory
        = IF bound[body.test] = 1 THEN [bound EXCEPT ![body.dst] = bound[body.src]] ELSE bound
  BY DEF RunTable
<1> HIDE DEF bound, body
<1>6. QED
  BY <1>3, <1>4, <1>5

\* The interpreter and a packet that its state describes agree after a table.
LEMMA TableExact ==
    ASSUME NEW st \in ExecutionState, NEW shape \in Shapes, NEW s \in 1..MaxSymbols,
           s + 2 \in 1..MaxSymbols, NEW v \in st.cond, NEW mem \in [Locations -> Values],
           \A l \in Readable : st.env[l][v] = mem[l],
           NEW l \in Readable
    PROVE  ProcessTable(st, shape, s).env[l][v] = RunTable(mem, shape, v, s).memory[l]
<1> DEFINE a == ChosenAction(shape, v, s)
           body == shape.body[a]
           arg == IF ByProgram(shape, v, s) THEN shape.defaultArg ELSE v[s + 2]
           bound == [mem EXCEPT ![Param] = arg]
           symbolic == IF ByProgram(shape, v, s) THEN Constant(shape.defaultArg)
                       ELSE Symbol(s + 2)
<1>1. v \in Valuations
  BY StateFields
<1>2. a \in Acts
  BY <1>1, HitConditions
<1>3. symbolic[v] = arg
  BY <1>1 DEF Constant, Symbol
<1>4. /\ body.test \in Locations /\ body.src \in Locations /\ body.dst \in Locations
      /\ l \in Locations
  BY <1>2, ShapeType, LocationsType
<1>5. \A m \in Locations : bound[m] = Bound(st, symbolic, v, m)
  BY <1>3, LocationsType DEF Bound, Readable, Locations
<1>6. ProcessTable(st, shape, s).env[l][v] = AfterBody(st, shape, a, symbolic, v, l)
  BY <1>4, ProcessTableShape
<1>7. RunTable(mem, shape, v, s).memory
        = IF bound[body.test] = 1 THEN [bound EXCEPT ![body.dst] = bound[body.src]] ELSE bound
  BY DEF RunTable
<1>8. DOMAIN bound = Locations
  OBVIOUS
<1>9. AfterBody(st, shape, a, symbolic, v, l)
        = IF Bound(st, symbolic, v, body.test) = 1 /\ l = body.dst
          THEN Bound(st, symbolic, v, body.src) ELSE Bound(st, symbolic, v, l)
  BY DEF AfterBody
<1> HIDE DEF bound, body, symbolic, a
<1>10. QED
  BY <1>4, <1>5, <1>6, <1>7, <1>8, <1>9

-----------------------------------------------------------------------------
(* Expressions and extern calls.                                            *)

\* What an implementation may do, see Externs.
EffectKinds ==
    {"nothing", "constant", "result", "verification", "update", "header", "greater",
     "smaller", "placeholder", "register", "unimplemented"}

\* A set of implementations whose effects are known.
Known(impls) == \A i \in impls : i.effect \in EffectKinds

\* All implementations of all targets have one of the known effects.
LEMMA KnownExterns == Known(CoreExterns) /\ Known(Bmv2Externs) /\ Known(TofinoExterns)
                        /\ Known(PsaExterns) /\ Known(XsaExterns)
<1>1. Known(CoreExterns)
  BY DEF Known, EffectKinds, Impl, CoreExterns, CorePacketIn, CoreOther
<1>2. Known(Bmv2Externs)
  <2>1. Known(Bmv2Drop) /\ Known(Bmv2Random) /\ Known(Bmv2Register) /\ Known(Bmv2Counter)
    BY DEF Known, EffectKinds, Impl, Bmv2Drop, Bmv2Random, Bmv2Register, Bmv2Counter
  <2>2. Known(Bmv2Meter) /\ Known(Bmv2Digest) /\ Known(Bmv2ClonePreserving) /\ Known(Bmv2Clone)
    BY DEF Known, EffectKinds, Impl, Bmv2Meter, Bmv2Digest, Bmv2ClonePreserving, Bmv2Clone
  <2>3. Known(Bmv2Again) /\ Known(Bmv2Hash) /\ Known(Bmv2Checks)
    BY DEF Known, EffectKinds, Impl, Impls, Bmv2Again, Bmv2Hash, Bmv2Checks
  <2>4. Known(Bmv2Checksum)
    BY DEF Known, EffectKinds, Impl, Impls, Bmv2Checksum
  <2>5. QED
    BY <2>1, <2>2, <2>3, <2>4 DEF Known, Bmv2Externs
<1>3. Known(TofinoExterns)
  <2>1. Known(TofinoChecksum) /\ Known(TofinoParser)
    BY DEF Known, EffectKinds, Impl, Impls, TofinoChecksum, TofinoParser
  <2>2. Known(TofinoFunctions)
    BY DEF Known, EffectKinds, Impl, Impls, TofinoFunctions
  <2>3. Known(TofinoCounter) /\ Known(TofinoMeter) /\ Known(TofinoFilter)
    BY DEF Known, EffectKinds, Impl, TofinoCounter, TofinoMeter, TofinoFilter
  <2>4. Known(TofinoRegister) /\ Known(TofinoRegisterAction)
    BY DEF Known, EffectKinds, Impl, TofinoRegister, TofinoRegisterAction
  <2>5. Known(TofinoDirectRegisterAction) /\ Known(TofinoEmit)
    BY DEF Known, EffectKinds, Impl, TofinoDirectRegisterAction, TofinoEmit
  <2>6. QED
    BY <2>1, <2>2, <2>3, <2>4, <2>5 DEF Known, TofinoExterns
<1>4. Known(PsaExterns)
  <2>1. Known(PsaRandom) /\ Known(PsaChecks) /\ Known(PsaRegister) /\ Known(PsaCounter)
    BY DEF Known, EffectKinds, Impl, Impls, PsaRandom, PsaChecks, PsaRegister, PsaCounter
  <2>2. Known(PsaMeter) /\ Known(PsaDigest) /\ Known(PsaPaths) /\ Known(PsaHash)
    BY DEF Known, EffectKinds, Impl, Impls, PsaMeter, PsaDigest, PsaPaths, PsaHash
  <2>3. Known(PsaChecksum) /\ Known(PsaInternetChecksum)
    BY DEF Known, EffectKinds, Impl, Impls, PsaChecksum, PsaInternetChecksum
  <2>4. QED
    BY <2>1, <2>2, <2>3 DEF Known, PsaExterns
<1>5. Known(XsaExterns)
  BY DEF Known, EffectKinds, Impl, XsaExterns
<1>6. QED
  BY <1>1, <1>2, <1>3, <1>4, <1>5

\* ExternMethodImpls::find in a known list.
LEMMA FindType ==
    ASSUME NEW impls, Known(impls), NEW method, NEW args
    PROVE  Find(impls, method, args) \in EffectKinds \cup {"ambiguous", "unknown"}
<1> DEFINE matching == {i \in impls : i.method = method /\ Matches(i.params, args)}
<1>1. matching # {} => (CHOOSE i \in matching : TRUE) \in impls
  OBVIOUS
<1>2. QED
  BY <1>1 DEF Find, Known

\* processExtern finds a known effect, or none.
LEMMA ProcessExternType ==
    ASSUME NEW t \in Targets, NEW method, NEW args
    PROVE  ProcessExtern(t, method, args) \in EffectKinds \cup {"ambiguous"}
<1> DEFINE lists == ImplLists(t)
           known == {k \in DOMAIN lists : Find(lists[k], method, args) # "unknown"}
           first == CHOOSE k \in known : \A j \in known : k <= j
<1>1. /\ DOMAIN lists \in {1..2, 1..3}
      /\ \A k \in DOMAIN lists : Known(lists[k])
  <2>1. Known({})
    BY DEF Known
  <2>2. CASE t = "bmv2"
    BY <2>1, <2>2, KnownExterns DEF ImplLists
  <2>3. CASE t = "tofino"
    BY <2>1, <2>3, KnownExterns DEF ImplLists
  <2>4. CASE t = "nikss"
    BY <2>1, <2>4, KnownExterns DEF ImplLists
  <2>5. CASE t = "fpga"
    BY <2>1, <2>5, KnownExterns DEF ImplLists
  <2>6. QED
    BY <2>2, <2>3, <2>4, <2>5 DEF Targets
<1>2. "unimplemented" \in EffectKinds
  BY DEF EffectKinds
<1>3. ProcessExtern(t, method, args)
        = IF known = {} THEN "unimplemented" ELSE Find(lists[first], method, args)
  BY DEF ProcessExtern
<1>4. \A k \in known : k \in {1, 2, 3}
  BY <1>1
<1>5. known # {} => \E k \in known : \A j \in known : k <= j
  <2> HIDE DEF known
  <2>1. CASE 1 \in known
    BY <1>4, <2>1
  <2>2. CASE 1 \notin known /\ 2 \in known
    BY <1>4, <2>2
  <2>3. CASE 1 \notin known /\ 2 \notin known
    BY <1>4, <2>3
  <2>4. QED
    BY <2>1, <2>2, <2>3
<1>6. known # {} => first \in known
  <2> HIDE DEF known
  <2>1. QED
    BY <1>5
<1>7. \A k \in known : Find(lists[k], method, args) \in EffectKinds \cup {"ambiguous"}
  BY <1>1, FindType
<1> HIDE DEF known, first, lists
<1>8. QED
  BY <1>2, <1>3, <1>6, <1>7

\* The effects of a call that leaves a value in its destination.
ValueEffects == (EffectKinds \ {"header", "unimplemented"}) \cup {"failure"}

\* The methods that do less than their comments say.
Unfaithful ==
    {"meter.execute_meter", "direct_meter.read", "verify_checksum",
     "verify_checksum_with_payload"}

\* The calls of a program.
LEMMA CallEffectsType ==
    ASSUME NEW c \in CallEffects
    PROVE  /\ c[1] \in Platforms
           /\ c[2] \in EffectKinds \cup {"ambiguous"}
           /\ c[2] \notin {"header", "unimplemented", "ambiguous"} =>
                 c[2] \in ValueEffects /\ c[3] \in ValueEffects
           /\ Methods \cap Unfaithful = {} => c[3] = c[2]
<1>a. PICK t \in Platforms : \E d \in CallsOf(t) :
         /\ d[1] \in Methods
         /\ c = LET effect == ProcessExtern(t, d[1], d[2])
                IN  <<t, effect, Documented(d[1], effect), d[1] \in Terminating>>
  BY DEF CallEffects
<1>1. PICK d \in CallsOf(t) :
         /\ d[1] \in Methods
         /\ c = <<t, ProcessExtern(t, d[1], d[2]),
                  Documented(d[1], ProcessExtern(t, d[1], d[2])), d[1] \in Terminating>>
  BY <1>a
<1> DEFINE effect == ProcessExtern(t, d[1], d[2])
<1>2. c[1] = t /\ c[2] = effect /\ c[3] = Documented(d[1], effect)
  BY <1>1
<1>3. effect \in EffectKinds \cup {"ambiguous"}
  BY InterpreterAssumption, ProcessExternType
<1> HIDE DEF effect
<1>4. Documented(d[1], effect) \in {"result", "failure", effect}
  BY DEF Documented
<1>5. d[1] \notin Unfaithful => Documented(d[1], effect) = effect
  BY DEF Documented, Unfaithful
<1>6. "result" \in ValueEffects /\ "failure" \in ValueEffects
  BY DEF ValueEffects, EffectKinds
<1>7. effect \notin {"header", "unimplemented", "ambiguous"} => effect \in ValueEffects
  BY <1>3 DEF ValueEffects
<1>8. QED
  BY <1>1, <1>2, <1>3, <1>4, <1>5, <1>6, <1>7

\* Expressions and extern calls compute values.
LEMMA ApplyType ==
    ASSUME NEW op \in Operators, NEW x \in Values, NEW y \in Values, NEW z \in Values
    PROVE  Apply(op, x, y, z) \in Values
  BY DEF Apply, Operators, Values

\* The value of an extern call.
LEMMA ExternValueType ==
    ASSUME NEW effect \in ValueEffects, NEW old \in Values, NEW x \in Values,
           NEW y \in Values, NEW answer \in Values
    PROVE  ExternValue(effect, old, x, y, answer) \in Values
<1>1. 0 \in Values /\ 1 \in Values
  BY DEF Values
<1>2. effect \in {"nothing", "constant", "result", "verification", "update", "greater",
                  "smaller", "placeholder", "register", "failure"}
  BY DEF ValueEffects, EffectKinds
<1>3. QED
  BY <1>1, <1>2 DEF ExternValue

\* An assignment resolves its operands for every packet.
LEMMA ResolveType ==
    ASSUME NEW st \in ExecutionState, NEW op \in Operators, NEW x \in Readable,
           NEW y \in Readable, NEW z \in Readable
    PROVE  Resolve(st.env, op, x, y, z) \in Symbolic
<1>1. \A v \in Valuations : Apply(op, st.env[x][v], st.env[y][v], st.env[z][v]) \in Values
  BY StateFields, LocationsType, ApplyType
<1>2. QED
  BY <1>1 DEF Resolve, Symbolic

\* The variables of all packets.
Memories == [Valuations -> [Locations -> Values]]

\* Packets store values.
LEMMA StoreShape ==
    ASSUME NEW mem \in Memories, NEW S,
           NEW l \in Locations, NEW f \in Symbolic
    PROVE  /\ Store(mem, S, l, f) \in Memories
           /\ \A v \in Valuations : v \notin S => Store(mem, S, l, f)[v] = mem[v]
           /\ \A v \in Valuations : v \in S =>
                 /\ Store(mem, S, l, f)[v][l] = f[v]
                 /\ \A m \in Locations : m # l => Store(mem, S, l, f)[v][m] = mem[v][m]
<1>1. \A v \in Valuations : v \in S => [mem[v] EXCEPT ![l] = f[v]] \in [Locations -> Values]
  BY DEF Symbolic, Memories
<1>2. QED
  BY <1>1 DEF Store, Memories

-----------------------------------------------------------------------------
(* Frames.                                                                  *)

\* The frame of a statement that is opened.
LEMMA NewFrameType ==
    ASSUME active \subseteq Valuations, NEW kind \in {"then", "switch", "select"},
           NEW outer \in ExecutionState, NEW key \in Symbolic,
           NEW asked \in [Valuations -> Values], NEW left \in SUBSET Valuations
    PROVE  NewFrame(kind, outer, key, asked, left) \in Frame
<1>1. <<>> \in Seq(ExecutionState)
  OBVIOUS
<1>2. kind \in Kinds /\ {} \in SUBSET Values /\ Valuations \in SUBSET Valuations
  BY DEF Kinds
<1>3. (IF kind = "select" THEN "select" ELSE "switch") \in {"switch", "select"}
  OBVIOUS
<1>4. QED
  BY <1>1, <1>2, <1>3 DEF NewFrame, Frame

\* The fields of a frame.
LEMMA FrameFields ==
    ASSUME NEW f \in Frame
    PROVE  /\ f.kind \in Kinds /\ f.outer \in ExecutionState
           /\ f.pending \in Seq(ExecutionState)
           /\ f.key \in Symbolic /\ f.asked \in [Valuations -> Values]
           /\ f.resume \in {"switch", "select"} /\ f.labels \subseteq Values
           /\ f.notCond \subseteq Valuations /\ f.all \subseteq Valuations
           /\ f.left \subseteq Valuations
  BY DEF Frame

\* The innermost frame.
LEMMA TopType ==
    ASSUME frames \in Seq(Frame), Depth > 0
    PROVE  Top \in Frame /\ Depth \in Nat \ {0} /\ Depth \in DOMAIN frames
<1>1. Depth \in Nat /\ DOMAIN frames = 1..Depth
  BY DEF Depth
<1>2. QED
  BY <1>1, ElementOfSeq DEF Top, Depth

\* Entering a statement with branches.
LEMMA EnterShape ==
    ASSUME frames \in Seq(Frame), NEW f \in Frame, frames' = Append(frames, f)
    PROVE  /\ frames' \in Seq(Frame) /\ Depth' = Depth + 1 /\ Depth \in Nat
           /\ \A i \in 1..Depth : frames'[i] = frames[i]
           /\ frames'[Depth + 1] = f
<1>1. /\ Append(frames, f) \in Seq(Frame) /\ Len(Append(frames, f)) = Len(frames) + 1
      /\ Len(frames) \in Nat
      /\ \A i \in 1..Len(frames) : Append(frames, f)[i] = frames[i]
      /\ Append(frames, f)[Len(frames) + 1] = f
  OBVIOUS
<1>2. QED
  BY <1>1 DEF Depth

\* Resuming.
LEMMA ResumeShape ==
    ASSUME frames \in Seq(Frame), Depth > 0, NEW f \in Frame, Resume(f)
    PROVE  /\ frames' \in Seq(Frame) /\ Depth' = Depth /\ Depth \in Nat \ {0}
           /\ \A i \in 1..Depth : frames'[i] = IF i = Depth THEN f ELSE frames[i]
<1>1. Depth \in Nat \ {0} /\ Len(frames) = Depth /\ Depth \in 1..Len(frames)
  BY TopType DEF Depth
<1>2. frames' = [frames EXCEPT ![Depth] = f]
  BY DEF Resume
<1>3. /\ frames' \in Seq(Frame) /\ Len(frames') = Depth
      /\ \A i \in 1..Depth : frames'[i] = IF i = Depth THEN f ELSE frames[i]
  BY <1>1, <1>2, ExceptSeq
<1>4. QED
  BY <1>1, <1>3 DEF Depth

\* Leaving.
LEMMA LeaveShape ==
    ASSUME frames \in Seq(Frame), Depth > 0, frames' = SubSeq(frames, 1, Depth - 1)
    PROVE  /\ frames' \in Seq(Frame) /\ Depth' = Depth - 1 /\ Depth \in Nat \ {0}
           /\ \A i \in 1..(Depth - 1) : frames'[i] = frames[i]
<1>1. Depth \in Nat \ {0} /\ Len(frames) = Depth
  BY TopType DEF Depth
<1>2. Depth - 1 \in Int /\ \A i \in 1..(Depth - 1) : i \in 1..Len(frames)
  BY <1>1
<1>3. /\ frames' \in Seq(Frame)
      /\ Len(frames') = IF 1 <= Depth - 1 THEN (Depth - 1) - 1 + 1 ELSE 0
      /\ \A i \in 1..((Depth - 1) - 1 + 1) : frames'[i] = frames[1 + i - 1]
  BY <1>2, SubSeqProperties
<1>4. Len(frames') = Depth - 1 /\ \A i \in 1..(Depth - 1) : frames'[i] = frames[i]
  <2> DEFINE d == Depth
  <2>1. d \in Nat \ {0}
    BY <1>1
  <2> HIDE DEF d
  <2>2. \A i \in 1..(d - 1) : i \in 1..((d - 1) - 1 + 1) /\ 1 + i - 1 = i
    BY <2>1
  <2>3. (IF 1 <= d - 1 THEN (d - 1) - 1 + 1 ELSE 0) = d - 1
    BY <2>1
  <2>4. QED
    BY <1>3, <2>2, <2>3 DEF d
<1>5. Depth' = Len(frames')
  BY DEF Depth
<1>6. QED
  BY <1>1, <1>3, <1>4, <1>5

-----------------------------------------------------------------------------
(* The invariant.                                                           *)

\* State st describes packet v, whose variables are in mem.
Describes(st, mem, v) ==
    /\ v \in st.cond
    /\ \A l \in Readable : st.env[l][v] = mem[v][l]

\* The packets that execute the branch of frame i, and its execution condition.
Inside(i) == IF i = Depth THEN active ELSE frames[i + 1].all

InsideCond(i) == IF i = Depth THEN state.cond ELSE frames[i + 1].outer.cond

\* The frame is in a branch that is executed in a clone of its own.
InClone(f) == f.kind \in {"then", "case"}

\* The packets of a frame: those in the branch, and those that took none so far;
\* outside of clones the latter are the ones that execute.
Divided(f, in, cond) ==
    /\ in \subseteq f.all
    /\ f.left \subseteq f.all
    /\ InClone(f) => in \cap f.left = {}
    /\ ~InClone(f) => in = f.left /\ cond = f.outer.cond

\* The frame records what it is in the middle of.
Progress(f) ==
    /\ f.kind = "then" => f.pending = <<>>
    /\ f.kind \in {"switch", "select"} => f.resume = f.kind

\* A packet in no pending state.
Unmerged(f, v) == \A j \in DOMAIN f.pending : v \notin f.pending[j].cond

\* A packet described by one of the pending states.
Waiting(f, mem, v) ==
    \E j \in DOMAIN f.pending :
        /\ Describes(f.pending[j], mem, v)
        /\ \A k \in DOMAIN f.pending : k # j => v \notin f.pending[k].cond

\* A packet that took a branch: its state is still to be merged, or has been.
Done(f, st, mem, v) ==
    \/ Waiting(f, mem, v)
    \/ f.kind = "merge" /\ Unmerged(f, v) /\ Describes(st, mem, v)

\* The cases so far match the packets that took one of them.
Matched(f, v) ==
    f.kind \in {"switch", "select", "case"} =>
        /\ f.resume = "switch" => (v \notin f.left => f.asked[v] \in f.labels)
        /\ f.resume = "select" => (v \in f.left <=> v \in f.notCond)

\* What a frame records of packet v.
Recorded(f, in, cond, st, mem, v) ==
    /\ v \in f.outer.cond
    /\ f.key[v] = f.asked[v]
    /\ Matched(f, v)
    /\ v \in in \cup f.left => Unmerged(f, v)
    /\ v \notin in \cup f.left => Done(f, st, mem, v)
    /\ InClone(f) /\ v \notin in => v \notin cond
    /\ InClone(f) /\ v \in f.left => Describes(f.outer, mem, v)

\* A frame accounts for all packets that entered it and were not terminated.
FrameExact(f, in, cond, st, mem, done) ==
    /\ Divided(f, in, cond)
    /\ Progress(f)
    /\ \A v \in f.all \ done : Recorded(f, in, cond, st, mem, v)

\* Frames are nested; the outer ones are in the middle of a branch.
Nested ==
    /\ \A i \in 1..Depth : active \subseteq frames[i].all
    /\ \A i, j \in 1..Depth : i <= j => frames[j].all \subseteq frames[i].all
    /\ \A i \in 1..Depth : i < Depth => frames[i].kind \in {"then", "case", "default"}

\* The inductive invariant: the current state describes the packets that execute,
\* and every frame accounts for the packets that entered it.
Exact ==
    /\ \A v \in Live : Describes(state, memory, v)
    /\ Nested
    /\ \A i \in 1..Depth :
          FrameExact(frames[i], Inside(i), InsideCond(i), state, memory, ended)

-----------------------------------------------------------------------------
(* Type correctness.                                                        *)

\* The variables of the header are among those created so far.
Typed ==
    /\ TypeOK
    /\ header # 0 => header + 1 <= symbols

\* The variables that some statements leave alone.
LEMMA Values01 == 0 \in Values /\ 1 \in Values /\ Constant(0) \in Symbolic
                    /\ Constant(1) \in Symbolic
  BY SymbolicType DEF Values

\* The initial state has its types.
LEMMA InitType == Init => Typed
<1> SUFFICES ASSUME Init PROVE Typed
  OBVIOUS
<1>1. \A l : InputOf(l) \in 0..Len(Inputs)
  BY InterpreterAssumption DEF InputOf
<1>2. Len(Inputs) \in Nat /\ \A i \in 0..Len(Inputs) : i # 0 => i \in 1..MaxSymbols
  BY InterpreterAssumption
<1>3. [l \in Locations |-> IF InputOf(l) = 0 THEN Constant(0) ELSE Symbol(InputOf(l))]
        \in [Locations -> Symbolic]
  BY <1>1, <1>2, Values01, SymbolicType
<1>4. state \in ExecutionState
  BY <1>3 DEF Init, InitialState, ExecutionState
<1>5. memory \in Memories
  <2>1. \A v \in Valuations : \A l \in Locations :
           (IF InputOf(l) = 0 THEN 0 ELSE v[InputOf(l)]) \in Values
    BY <1>1, <1>2, Values01 DEF Valuations
  <2>2. QED
    BY <2>1 DEF Init, Memories
<1>6. frames \in Seq(Frame) /\ symbols \in 0..MaxSymbols
  BY <1>2, InterpreterAssumption DEF Init
<1>7. QED
  BY <1>4, <1>5, <1>6, InterpreterAssumption DEF Init, Typed, TypeOK, Memories

\* What the statements without branches keep.
LEMMA StatementType ==
    ASSUME Typed, Execute, UNCHANGED <<frames, status>>,
           state' \in ExecutionState, symbols' \in 0..MaxSymbols,
           header' \in 0..MaxSymbols, header' # 0 => header' + 1 <= symbols',
           nodes' = nodes, tables' \in {0, 1}, target' \in Platforms \cup {AnyTarget},
           memory' \in Memories,
           active' = active, extracted' \subseteq Valuations, ended' \subseteq Valuations,
           seen' \in [Nodes -> SUBSET Valuations], taken' \in [Nodes -> SUBSET Valuations]
    PROVE  Typed'
<1>1. statements' \in 0..MaxStatements
  BY InterpreterAssumption DEF Typed, TypeOK, Execute, CanExecute
<1>2. QED
  BY <1>1 DEF Typed, TypeOK, Memories

\* The value every packet reads.
LEMMA MemoryType ==
    ASSUME Typed, NEW v \in Valuations, NEW l \in Locations
    PROVE  memory[v][l] \in Values
  BY DEF Typed, TypeOK

-----------------------------------------------------------------------------
(* Statements without branches.                                             *)

\* A statement that treats the packets that execute it as the state says, and
\* leaves the others alone.
Faithful ==
    /\ UNCHANGED <<frames, active>>
    /\ ended \subseteq ended'
    /\ state' \in ExecutionState
    /\ state'.cond = state.cond
    /\ \A v \in Valuations : v \notin Live => memory'[v] = memory[v]
    /\ \A v \in Live : Describes(state, memory, v) => Describes(state', memory', v)

\* An assignment of the same value to the state and to a packet.
LEMMA SetDescribes ==
    ASSUME NEW st \in ExecutionState, NEW mem \in Memories,
           NEW S \in SUBSET Valuations, NEW l \in Readable, NEW e \in Symbolic,
           NEW f \in Symbolic, NEW v \in S, e[v] = f[v], Describes(st, mem, v)
    PROVE  Describes(SetVar(st, l, e), Store(mem, S, l, f), v)
<1>1. l \in Locations /\ v \in Valuations
  BY LocationsType
<1>2. /\ SetVar(st, l, e).cond = st.cond
      /\ SetVar(st, l, e).env[l] = e
      /\ \A m \in Locations : m # l => SetVar(st, l, e).env[m] = st.env[m]
  BY <1>1, SetVarShape
<1>3. /\ Store(mem, S, l, f)[v][l] = f[v]
      /\ \A m \in Locations : m # l => Store(mem, S, l, f)[v][m] = mem[v][m]
  BY <1>1, StoreShape
<1>4. Readable \subseteq Locations
  BY LocationsType
<1>5. ASSUME NEW m \in Readable
      PROVE  SetVar(st, l, e).env[m][v] = Store(mem, S, l, f)[v][m]
  BY <1>2, <1>3, <1>4 DEF Describes
<1>6. QED
  BY <1>2, <1>5 DEF Describes

\* One assignment.
LEMMA SetFaithful ==
    ASSUME Typed, NEW l \in Readable, NEW e \in Symbolic, NEW f \in Symbolic,
           \A v \in Live : Describes(state, memory, v) => e[v] = f[v],
           state' = SetVar(state, l, e), memory' = Store(memory, Live, l, f),
           UNCHANGED <<frames, active, ended>>
    PROVE  Faithful /\ memory' \in Memories
<1>1. state \in ExecutionState /\ memory \in Memories
  BY DEF Typed, TypeOK, Memories
<1>2. l \in Locations /\ Live \in SUBSET Valuations
  BY LocationsType DEF Typed, TypeOK, Live
<1>3. state' \in ExecutionState /\ state'.cond = state.cond
  BY <1>1, <1>2, SetVarShape
<1>4. /\ memory' \in Memories
      /\ \A v \in Valuations : v \notin Live => memory'[v] = memory[v]
  <2>1. Store(memory, Live, l, f) \in Memories
    BY <1>1, <1>2, StoreShape
  <2>2. \A v \in Valuations : v \notin Live => Store(memory, Live, l, f)[v] = memory[v]
    BY DEF Store
  <2>3. QED
    BY <2>1, <2>2
<1>5. ASSUME NEW v \in Live, Describes(state, memory, v)
      PROVE  Describes(state', memory', v)
  BY <1>1, <1>2, <1>5, SetDescribes
<1>6. QED
  BY <1>3, <1>4, <1>5 DEF Faithful

\* Two assignments.
LEMMA SetTwoFaithful ==
    ASSUME Typed, NEW l \in Readable, NEW e \in Symbolic, NEW m \in Readable,
           NEW f \in Symbolic,
           state' = SetVar(SetVar(state, l, e), m, f),
           memory' = Store(Store(memory, Live, l, e), Live, m, f),
           UNCHANGED <<frames, active, ended>>
    PROVE  Faithful /\ memory' \in Memories
<1>1. state \in ExecutionState /\ memory \in Memories
  BY DEF Typed, TypeOK, Memories
<1>2. l \in Locations /\ m \in Locations /\ Live \in SUBSET Valuations
  BY LocationsType DEF Typed, TypeOK, Live
<1> DEFINE st == SetVar(state, l, e)
           mem == Store(memory, Live, l, e)
<1>3. /\ st \in ExecutionState /\ st.cond = state.cond
      /\ mem \in Memories
      /\ \A v \in Valuations : v \notin Live => mem[v] = memory[v]
  <2>1. st \in ExecutionState /\ st.cond = state.cond
    BY <1>1, <1>2, SetVarShape
  <2>2. \A v \in Valuations : v \notin Live => Store(memory, Live, l, e)[v] = memory[v]
    BY DEF Store
  <2>3. Store(memory, Live, l, e) \in Memories
    BY <1>1, <1>2, StoreShape
  <2>4. QED
    BY <2>1, <2>2, <2>3
<1>4. \A v \in Live : Describes(state, memory, v) => Describes(st, mem, v)
  BY <1>1, <1>2, SetDescribes
<1>5. state' = SetVar(st, m, f) /\ memory' = Store(mem, Live, m, f)
  OBVIOUS
<1> HIDE DEF st, mem
<1>6. state' \in ExecutionState /\ state'.cond = state.cond
  BY <1>2, <1>3, <1>5, SetVarShape
<1>7. /\ memory' \in Memories
      /\ \A v \in Valuations : v \notin Live => memory'[v] = memory[v]
  <2>1. Store(mem, Live, m, f) \in Memories
    BY <1>2, <1>3, StoreShape
  <2>2. \A v \in Valuations : v \notin Live => Store(mem, Live, m, f)[v] = mem[v]
    BY DEF Store
  <2>3. QED
    BY <1>3, <1>5, <2>1, <2>2
<1>8. ASSUME NEW v \in Live, Describes(state, memory, v)
      PROVE  Describes(state', memory', v)
  BY <1>2, <1>3, <1>4, <1>5, <1>8, SetDescribes
<1>9. QED
  BY <1>6, <1>7, <1>8 DEF Faithful

\* Assignments.
LEMMA AssignStep ==
    ASSUME Typed, NEW dst \in Fields, NEW op \in Operators, NEW x \in Readable,
           NEW y \in Readable, NEW z \in Readable, Assign(dst, op, x, y, z)
    PROVE  Typed' /\ Faithful
<1> DEFINE e == Resolve(state.env, op, x, y, z)
           f == [v \in Valuations |-> Apply(op, memory[v][x], memory[v][y], memory[v][z])]
<1>1. /\ Execute /\ state' = SetVar(state, dst, e) /\ memory' = Store(memory, Live, dst, f)
      /\ UNCHANGED <<frames, status, counters, active, extracted, ended, seen, taken>>
  BY DEF Assign
<1>2. dst \in Readable /\ Readable \subseteq Locations
  BY LocationsType
<1>3. e \in Symbolic
  BY ResolveType DEF Typed, TypeOK
<1>4. f \in Symbolic
  <2>1. \A v \in Valuations : Apply(op, memory[v][x], memory[v][y], memory[v][z]) \in Values
    BY <1>2, MemoryType, ApplyType
  <2>2. QED
    BY <2>1 DEF Symbolic
<1>5. \A v \in Live : Describes(state, memory, v) => e[v] = f[v]
  BY DEF Resolve, Describes, Live, Typed, TypeOK
<1> HIDE DEF e, f
<1>6. Faithful /\ memory' \in Memories
  BY <1>1, <1>2, <1>3, <1>4, <1>5, SetFaithful
<1>7. QED
  BY <1>1, <1>6, StatementType DEF Faithful, counters, Typed, TypeOK

\* setValid and setInvalid.
LEMMA ValidityStep ==
    ASSUME Typed, SetValid \/ SetInvalid
    PROVE  Typed' /\ Faithful
<1>1. PICK x \in Values :
        /\ Execute
        /\ state' = SetVar(SetVar(state, Field, Constant(0)), Valid, Constant(x))
        /\ memory' = Store(Store(memory, Live, Field, Constant(0)), Live, Valid, Constant(x))
        /\ UNCHANGED <<frames, status, counters, active, extracted, ended, seen, taken>>
  BY Values01 DEF SetValid, SetInvalid
<1>2. Constant(0) \in Symbolic /\ Constant(x) \in Symbolic
  BY Values01, SymbolicType
<1>3. Faithful /\ memory' \in Memories
  BY <1>1, <1>2, LocationsType, SetTwoFaithful
<1>4. QED
  BY <1>1, <1>3, StatementType DEF Faithful, counters, Typed, TypeOK

\* packet_in.extract.
LEMMA ExtractStep ==
    ASSUME Typed, NEW effect, Extract(effect), target' \in Platforms \cup {AnyTarget}
    PROVE  Typed' /\ Faithful
<1>1. /\ Execute
      /\ header' = IF header = 0 THEN symbols + 1 ELSE header
      /\ symbols' = IF header = 0 THEN symbols + 2 ELSE symbols
      /\ symbols' <= MaxSymbols
      /\ state' = SetVar(SetVar(state, Valid, Symbol(header')), Field, Symbol(header' + 1))
      /\ memory' = Store(Store(memory, Live, Valid, Symbol(header')),
                         Live, Field, Symbol(header' + 1))
      /\ extracted' = extracted \cup Live
      /\ UNCHANGED <<frames, status, nodes, tables, active, ended, seen, taken>>
  BY DEF Extract, Symbol
<1>2. /\ header' \in 1..MaxSymbols /\ header' + 1 \in 1..MaxSymbols
      /\ header' + 1 <= symbols' /\ symbols' \in 0..MaxSymbols
  BY <1>1, InterpreterAssumption DEF Typed, TypeOK
<1>3. Symbol(header') \in Symbolic /\ Symbol(header' + 1) \in Symbolic
  BY <1>2, SymbolicType
<1>4. Faithful /\ memory' \in Memories
  <2> DEFINE e == Symbol(header')
             f == Symbol(header' + 1)
  <2>1. /\ state' = SetVar(SetVar(state, Valid, e), Field, f)
        /\ memory' = Store(Store(memory, Live, Valid, e), Live, Field, f)
    BY <1>1
  <2> HIDE DEF e, f
  <2>2. QED
    BY <1>1, <1>3, <2>1, LocationsType, SetTwoFaithful DEF e, f
<1>5. extracted' \subseteq Valuations /\ header' \in 0..MaxSymbols
  BY <1>1, <1>2 DEF Typed, TypeOK, Live
<1>6. QED
  BY <1>1, <1>2, <1>4, <1>5, StatementType DEF Faithful, Typed, TypeOK

\* Extern calls: a faithful statement if the implementation does what is documented.
LEMMA CallExternStep ==
    ASSUME Typed, NEW effect \in ValueEffects, NEW documented \in ValueEffects,
           NEW dst \in Fields, NEW x \in Readable, NEW y \in Readable,
           CallExtern(effect, documented, dst, x, y), target' \in Platforms \cup {AnyTarget}
    PROVE  Typed' /\ (documented = effect => Faithful)
<1> DEFINE answer(v) == IF effect \in Answering THEN v[symbols'] ELSE 0
           e == [v \in Valuations |->
                    ExternValue(effect, state.env[dst][v], state.env[x][v],
                                state.env[y][v], answer(v))]
           f == [v \in Valuations |->
                    ExternValue(documented, memory[v][dst], memory[v][x],
                                memory[v][y], answer(v))]
<1>1. /\ Execute
      /\ symbols' = IF effect \in Answering THEN symbols + 1 ELSE symbols
      /\ symbols' <= MaxSymbols
      /\ state' = SetVar(state, dst, e)
      /\ memory' = Store(memory, Live, dst, f)
      /\ UNCHANGED <<frames, status, header, nodes, tables, active, extracted, ended, seen,
                     taken>>
  BY DEF CallExtern
<1>2. dst \in Readable /\ Readable \subseteq Locations /\ dst \in Locations
  BY LocationsType
<1>3. /\ symbols' \in 0..MaxSymbols /\ symbols <= symbols'
      /\ effect \in Answering => symbols' \in 1..MaxSymbols
  BY <1>1, InterpreterAssumption DEF Typed, TypeOK
<1>4. \A v \in Valuations : answer(v) \in Values
  BY <1>3, Values01 DEF Valuations
<1>5. state \in ExecutionState /\ memory \in Memories
  BY DEF Typed, TypeOK, Memories
<1> HIDE DEF answer
<1>6. e \in Symbolic
  <2>1. \A v \in Valuations : ExternValue(effect, state.env[dst][v], state.env[x][v],
                                          state.env[y][v], answer(v)) \in Values
    BY <1>2, <1>4, <1>5, StateFields, ExternValueType
  <2>2. QED
    BY <2>1 DEF Symbolic
<1>7. f \in Symbolic
  <2>1. \A v \in Valuations : ExternValue(documented, memory[v][dst], memory[v][x],
                                          memory[v][y], answer(v)) \in Values
    BY <1>2, <1>4, MemoryType, ExternValueType
  <2>2. QED
    BY <2>1 DEF Symbolic
<1>8. documented = effect => \A v \in Live : Describes(state, memory, v) => e[v] = f[v]
  BY <1>2 DEF Describes, Live, Typed, TypeOK
<1> HIDE DEF e, f
<1>9. state' \in ExecutionState
  BY <1>1, <1>2, <1>5, <1>6, SetVarShape
<1>10. memory' \in Memories
  BY <1>1, <1>2, <1>5, <1>7, StoreShape
<1>11. documented = effect => Faithful
  BY <1>1, <1>2, <1>6, <1>7, <1>8, SetFaithful
<1>12. header' \in 0..MaxSymbols /\ (header' # 0 => header' + 1 <= symbols')
  BY <1>1, <1>3, InterpreterAssumption DEF Typed, TypeOK
<1>13. QED
  BY <1>1, <1>3, <1>9, <1>10, <1>11, <1>12, StatementType DEF Typed, TypeOK

\* assert, assume and verify.
LEMMA CheckStep ==
    ASSUME Typed, NEW x, Check(x), target' \in Platforms \cup {AnyTarget}
    PROVE  Typed' /\ Faithful
<1>1. /\ Execute
      /\ ended' = ended \cup {v \in Live : memory[v][x] = 0}
      /\ UNCHANGED <<state, frames, status, symbols, header, nodes, tables, active, memory,
                     extracted, seen, taken>>
  BY DEF Check
<1>2. state' \in ExecutionState /\ memory' \in Memories
  BY <1>1 DEF Typed, TypeOK, Memories
<1>3. ended \subseteq ended' /\ ended' \subseteq Valuations
  BY <1>1 DEF Typed, TypeOK, Live
<1>4. Faithful
  BY <1>1, <1>2, <1>3 DEF Faithful
<1>5. QED
  BY <1>1, <1>2, <1>3, <1>4, StatementType DEF Typed, TypeOK

\* An unsupported call.
LEMMA AbortStep ==
    ASSUME Typed, NEW effect, Abort(effect), target' \in Platforms \cup {AnyTarget}
    PROVE  Typed' /\ Faithful
<1>1. /\ Execute /\ status' = "aborted"
      /\ UNCHANGED <<state, frames, symbols, header, nodes, tables, active, memory,
                     extracted, ended, seen, taken>>
  BY DEF Abort, packets
<1>2. statements' \in 0..MaxStatements
  BY <1>1, InterpreterAssumption DEF Typed, TypeOK, Execute, CanExecute
<1>3. Typed'
  BY <1>1, <1>2 DEF Typed, TypeOK
<1>4. QED
  BY <1>1, <1>3 DEF Faithful, Typed, TypeOK

\* Tables.
LEMMA TableStep ==
    ASSUME Typed, NEW shape \in TableShapes, NEW dst \in Fields, ApplyTable(shape, dst)
    PROVE  Typed' /\ Faithful
<1> DEFINE s == symbols + 1
           after == ProcessTable(state, shape, s)
           run(v) == RunTable(memory[v], shape, v, s)
           runs(a) == {v \in Live : ChosenAction(shape, v, s) = a}
           chosen(a) == {v \in runs(a) : ~ByProgram(shape, v, s)}
           hit == Mux(TotalHit(shape, s), Constant(1), Constant(0))
           mem == [v \in Valuations |-> IF v \in Live THEN run(v).memory ELSE memory[v]]
<1>1. /\ Execute
      /\ symbols + 3 <= MaxSymbols /\ tables' = 1 /\ symbols' = symbols + 3
      /\ state' = SetVar(after, dst, hit)
      /\ memory' = Store(mem, Live, dst, hit)
      /\ UNCHANGED <<frames, status, header, nodes, target, active, extracted, ended>>
  BY DEF ApplyTable
<1>2. /\ seen' = [n \in Nodes |->
                    seen[n] \cup UNION {IF n = ActNode(a) THEN Live
                                        ELSE IF n = BodyNode(a) THEN runs(a)
                                        ELSE {} : a \in Acts}]
      /\ taken' = [n \in Nodes |->
                    taken[n] \cup UNION {IF n = ActNode(a) THEN chosen(a)
                                         ELSE IF n = BodyNode(a)
                                         THEN {v \in runs(a) : run(v).test}
                                         ELSE {} : a \in Acts}]
  BY DEF ApplyTable
<1>3. Live \in SUBSET Valuations
  BY DEF Live, Typed, TypeOK
<1>4. seen' \in [Nodes -> SUBSET Valuations]
  BY <1>2, <1>3 DEF Typed, TypeOK
<1>5. taken' \in [Nodes -> SUBSET Valuations]
  BY <1>2, <1>3 DEF Typed, TypeOK
<1>6. /\ s \in 1..MaxSymbols /\ s + 2 \in 1..MaxSymbols /\ symbols' \in 0..MaxSymbols
      /\ header' \in 0..MaxSymbols /\ (header' # 0 => header' + 1 <= symbols')
  BY <1>1, InterpreterAssumption DEF Typed, TypeOK
<1>7. shape \in Shapes /\ dst \in Readable /\ dst \in Locations
  BY LocationsType, InterpreterAssumption
<1>8. state \in ExecutionState /\ memory \in Memories
  BY DEF Typed, TypeOK, Memories
<1>9. hit \in Symbolic
  BY Values01, SymbolicType
<1> HIDE DEF s, hit
<1>10. after \in ExecutionState /\ after.cond = state.cond
  BY <1>6, <1>7, <1>8, ProcessTableShape
<1>11. mem \in Memories
  <2>1. \A v \in Valuations : memory[v] \in [Locations -> Values]
    BY <1>8 DEF Memories
  <2>2. \A v \in Valuations : RunTable(memory[v], shape, v, s).memory \in [Locations -> Values]
    BY <1>6, <1>7, <2>1, RunTableShape
  <2>3. QED
    BY <2>1, <2>2 DEF Memories
<1>12. ASSUME NEW v \in Live, Describes(state, memory, v)
       PROVE  Describes(after, mem, v)
  <2>1. /\ v \in Valuations /\ v \in state.cond /\ memory[v] \in [Locations -> Values]
        /\ \A l \in Readable : state.env[l][v] = memory[v][l]
    BY <1>3, <1>8, <1>12 DEF Describes, Memories
  <2>2. \A l \in Readable :
           ProcessTable(state, shape, s).env[l][v] = RunTable(memory[v], shape, v, s).memory[l]
    BY <1>6, <1>7, <1>8, <2>1, TableExact
  <2>3. mem[v] = RunTable(memory[v], shape, v, s).memory
    BY <2>1
  <2>4. QED
    BY <1>10, <2>1, <2>2, <2>3 DEF Describes
<1>13. \A v \in Valuations : v \notin Live => mem[v] = memory[v]
  OBVIOUS
<1> HIDE DEF after, mem
<1>14. state' \in ExecutionState /\ state'.cond = state.cond
  BY <1>1, <1>7, <1>9, <1>10, SetVarShape
<1>15. memory' \in Memories
  BY <1>1, <1>7, <1>9, <1>11, StoreShape
<1>16. \A v \in Valuations : v \notin Live => memory'[v] = memory[v]
  BY <1>1, <1>13 DEF Store
<1>17. ASSUME NEW v \in Live, Describes(state, memory, v)
       PROVE  Describes(state', memory', v)
  BY <1>1, <1>3, <1>7, <1>9, <1>10, <1>11, <1>12, <1>17, SetDescribes
<1>18. Faithful
  BY <1>1, <1>14, <1>16, <1>17 DEF Faithful
<1>19. QED
  BY <1>1, <1>4, <1>5, <1>6, <1>14, <1>15, <1>18, StatementType DEF Typed, TypeOK

\* Every statement without branches is faithful, provided the program calls no
\* extern method that does less than documented.
LEMMA StatementStep ==
    ASSUME Typed, Statement
    PROVE  Typed' /\ (Methods \cap Unfaithful = {} => Faithful)
<1>1. CASE \E dst \in Fields, e \in Expressions : Assign(dst, e[1], e[2], e[3], e[4])
  <2>1. PICK dst \in Fields, e \in Expressions : Assign(dst, e[1], e[2], e[3], e[4])
    BY <1>1
  <2>2. e[1] \in Operators /\ e[2] \in Readable /\ e[3] \in Readable /\ e[4] \in Readable
    BY LocationsType
  <2>3. QED
    BY <2>1, <2>2, AssignStep
<1>2. CASE SetValid \/ SetInvalid
  BY <1>2, ValidityStep
<1>3. CASE \E c \in CallEffects : /\ target \in {AnyTarget, c[1]}
                                  /\ target' = c[1]
                                  /\ Call(c[2], c[3], c[4])
  <2>1. PICK c \in CallEffects : target' = c[1] /\ Call(c[2], c[3], c[4])
    BY <1>3
  <2>2. target' \in Platforms \cup {AnyTarget}
    BY <2>1, CallEffectsType
  <2>3. CASE Extract(c[2])
    BY <2>2, <2>3, ExtractStep
  <2>4. CASE Abort(c[2])
    BY <2>2, <2>4, AbortStep
  <2>5. CASE \E x \in Tests : Check(x)
    BY <2>2, <2>5, CheckStep
  <2>6. CASE /\ c[2] \notin {"header", "unimplemented", "ambiguous"}
             /\ \E dst \in Fields, args \in Arguments :
                   CallExtern(c[2], c[3], dst, args[1], args[2])
    <3>1. PICK dst \in Fields, args \in Arguments :
             CallExtern(c[2], c[3], dst, args[1], args[2])
      BY <2>6
    <3>2. args[1] \in Readable /\ args[2] \in Readable
      BY LocationsType
    <3>3. /\ c[2] \in ValueEffects /\ c[3] \in ValueEffects
          /\ Methods \cap Unfaithful = {} => c[3] = c[2]
      BY <2>6, CallEffectsType
    <3>4. Typed' /\ (c[3] = c[2] => Faithful)
      BY <2>2, <3>1, <3>2, <3>3, CallExternStep
    <3>5. QED
      BY <3>3, <3>4
  <2>7. QED
    BY <2>1, <2>3, <2>4, <2>5, <2>6 DEF Call
<1>4. CASE \E shape \in TableShapes, dst \in Fields : ApplyTable(shape, dst)
  BY <1>4, TableStep
<1>5. QED
  BY <1>1, <1>2, <1>3, <1>4 DEF Statement

-----------------------------------------------------------------------------
(* How the frames carry the invariant.                                      *)

\* A frame that merges nothing keeps its account, whatever happens to the state and
\* to the packets inside.
LEMMA FrameKept ==
    ASSUME NEW f, NEW in, NEW cond, NEW st, NEW st2, NEW mem, NEW mem2, NEW done, NEW done2,
           FrameExact(f, in, cond, st, mem, done), f.kind # "merge", done \subseteq done2,
           \A v \in f.all : v \notin in \/ v \in done => mem2[v] = mem[v]
    PROVE  FrameExact(f, in, cond, st2, mem2, done2)
<1>1. Divided(f, in, cond) /\ Progress(f)
  BY DEF FrameExact
<1>2. ASSUME NEW v \in f.all \ done2
      PROVE  Recorded(f, in, cond, st2, mem2, v)
  <2>1. Recorded(f, in, cond, st, mem, v)
    BY DEF FrameExact
  <2>2. v \notin in => mem2[v] = mem[v]
    OBVIOUS
  <2>3. v \notin in \cup f.left => Done(f, st2, mem2, v)
    BY <2>1, <2>2 DEF Recorded, Done, Waiting, Describes
  <2>4. InClone(f) /\ v \in f.left => Describes(f.outer, mem2, v)
    BY <1>1, <2>1, <2>2 DEF Recorded, Divided, Describes
  <2>5. QED
    BY <2>1, <2>3, <2>4 DEF Recorded
<1>3. QED
  BY <1>1, <1>2 DEF FrameExact

\* A statement without branches.
LEMMA StatementExact ==
    ASSUME Typed, Exact, CanExecute, Faithful
    PROVE  Exact'
<1>1. /\ frames' = frames /\ active' = active /\ Depth' = Depth
      /\ \A i : Inside(i)' = Inside(i) /\ InsideCond(i)' = InsideCond(i)
  BY DEF Faithful, Inside, InsideCond, Depth
<1>2. \A v \in Live' : Describes(state', memory', v)
  BY DEF Live, Faithful, Exact
<1>3. Nested'
  BY <1>1 DEF Exact, Nested
<1>4. ASSUME NEW i \in 1..Depth
      PROVE  FrameExact(frames[i], Inside(i), InsideCond(i), state', memory', ended')
  <2>1. FrameExact(frames[i], Inside(i), InsideCond(i), state, memory, ended)
    BY DEF Exact
  <2>2. frames \in Seq(Frame) /\ Depth \in Nat /\ Len(frames) = Depth
    BY DEF Typed, TypeOK, Depth
  <2>3. frames[i] \in Frame /\ frames[i].all \subseteq Valuations
    BY <2>2, ElementOfSeq, FrameFields
  <2>4. frames[i].kind \in {"then", "case", "default"}
    BY <2>2 DEF CanExecute, Top, Exact, Nested
  <2>5. active \subseteq Inside(i)
    BY <2>2 DEF Inside, Exact, Nested
  <2>6. \A v \in frames[i].all : v \notin Inside(i) \/ v \in ended => memory'[v] = memory[v]
    BY <2>3, <2>5 DEF Live, Faithful
  <2>7. ended \subseteq ended' /\ frames[i].kind # "merge"
    BY <2>4 DEF Faithful
  <2> DEFINE f == frames[i]
             in == Inside(i)
             cond == InsideCond(i)
  <2> HIDE DEF f, in, cond
  <2>8. FrameExact(f, in, cond, state', memory', ended')
    BY <2>1, <2>6, <2>7, FrameKept DEF f, in, cond
  <2>9. QED
    BY <2>8 DEF f, in, cond
<1>5. QED
  BY <1>1, <1>2, <1>3, <1>4 DEF Exact

\* A frame is entered.
LEMMA EnterExact ==
    ASSUME Typed, Exact, CanExecute, NEW f \in Frame, frames' = Append(frames, f),
           UNCHANGED <<memory, ended>>,
           f.all = active, f.outer.cond = state.cond, active' \subseteq active,
           \A v \in active' \ ended : Describes(state', memory, v),
           FrameExact(f, active', state'.cond, state', memory, ended)
    PROVE  Exact'
<1>1. /\ frames \in Seq(Frame) /\ Depth' = Depth + 1 /\ Depth \in Nat
      /\ \A i \in 1..Depth : frames'[i] = frames[i]
      /\ frames'[Depth + 1] = f
  BY EnterShape DEF Typed, TypeOK
<1>2. Nested'
  <2>1. \A i \in 1..(Depth + 1) : i \in 1..Depth \/ i = Depth + 1
    BY <1>1
  <2>2. \A i \in 1..(Depth + 1) : active' \subseteq frames'[i].all
    BY <1>1, <2>1 DEF Exact, Nested
  <2>3. ASSUME NEW i \in 1..(Depth + 1), NEW j \in 1..(Depth + 1), i <= j
        PROVE  frames'[j].all \subseteq frames'[i].all
    <3>1. CASE j \in 1..Depth
      <4>1. i \in 1..Depth
        BY <1>1, <2>3, <3>1
      <4>2. QED
        BY <1>1, <2>3, <3>1, <4>1 DEF Exact, Nested
    <3>2. CASE j = Depth + 1
      <4>1. CASE i = Depth + 1
        BY <3>2, <4>1
      <4>2. CASE i \in 1..Depth
        BY <1>1, <3>2, <4>2 DEF Exact, Nested
      <4>3. QED
        BY <2>1, <4>1, <4>2
    <3>3. QED
      BY <2>1, <3>1, <3>2
  <2>4. \A i \in 1..Depth : frames[i].kind \in {"then", "case", "default"}
    <3>1. \A i \in 1..Depth : i < Depth \/ (i = Depth /\ Depth > 0)
      BY <1>1
    <3>2. QED
      BY <3>1 DEF CanExecute, Top, Exact, Nested
  <2>5. \A i \in 1..(Depth + 1) : i < Depth + 1 => i \in 1..Depth
    BY <1>1
  <2>6. QED
    BY <1>1, <2>2, <2>3, <2>4, <2>5 DEF Nested
<1>3. ASSUME NEW i \in 1..Depth
      PROVE  FrameExact(frames'[i], Inside(i)', InsideCond(i)', state', memory', ended')
  <2>1. Inside(i)' = Inside(i) /\ InsideCond(i)' = InsideCond(i)
    <3>1. CASE i = Depth
      <4>1. frames'[i + 1] = f
        BY <1>1, <3>1, Zenon
      <4>2. i # Depth'
        BY <1>1, <3>1
      <4>3. QED
        BY <3>1, <4>1, <4>2 DEF Inside, InsideCond
    <3>2. CASE i # Depth
      <4>1. i + 1 \in 1..Depth /\ i # Depth + 1
        BY <1>1, <3>2
      <4>2. QED
        BY <1>1, <3>2, <4>1 DEF Inside, InsideCond
    <3>3. QED
      BY <3>1, <3>2
  <2>2. FrameExact(frames[i], Inside(i), InsideCond(i), state, memory, ended)
    BY DEF Exact
  <2>3. frames[i].kind # "merge"
    BY <1>1 DEF CanExecute, Top, Exact, Nested
  <2> DEFINE g == frames[i]
             in == Inside(i)
             cond == InsideCond(i)
  <2> HIDE DEF g, in, cond
  <2>4. FrameExact(g, in, cond, state', memory, ended)
    BY <2>2, <2>3, FrameKept DEF g, in, cond
  <2>5. QED
    BY <1>1, <2>1, <2>4 DEF g, in, cond
<1>4. ASSUME NEW i \in {Depth + 1}
      PROVE  FrameExact(frames'[i], Inside(i)', InsideCond(i)', state', memory', ended')
  <2>1. Inside(i)' = active' /\ InsideCond(i)' = state'.cond
    BY <1>1 DEF Inside, InsideCond
  <2>2. QED
    BY <1>1, <2>1
<1>5. \A i \in 1..(Depth + 1) :
         FrameExact(frames'[i], Inside(i)', InsideCond(i)', state', memory', ended')
  <2>1. \A i \in 1..(Depth + 1) : i \in 1..Depth \/ i \in {Depth + 1}
    BY <1>1
  <2>2. QED
    BY <1>3, <1>4, <2>1
<1>6. \A v \in Live' : Describes(state', memory', v)
  BY DEF Live
<1>7. QED
  BY <1>1, <1>2, <1>5, <1>6 DEF Exact

\* The innermost frame is replaced.
LEMMA ResumeExact ==
    ASSUME Typed, Exact, Depth > 0, NEW f \in Frame, Resume(f), UNCHANGED <<memory, ended>>,
           f.all = Top.all, f.outer.cond = Top.outer.cond, active' \subseteq f.all,
           \A v \in active' \ ended : Describes(state', memory, v),
           FrameExact(f, active', state'.cond, state', memory, ended)
    PROVE  Exact'
<1>1. /\ Depth' = Depth /\ Depth \in Nat \ {0}
      /\ \A i \in 1..Depth : frames'[i] = IF i = Depth THEN f ELSE frames[i]
  BY ResumeShape DEF Typed, TypeOK
<1>2. \A i \in 1..Depth : /\ frames'[i].all = frames[i].all
                          /\ frames'[i].outer.cond = frames[i].outer.cond
  BY <1>1 DEF Top
<1>3. Nested'
  <2>1. \A i \in 1..Depth : active' \subseteq frames'[i].all
    <3>1. \A i \in 1..Depth : i <= Depth /\ Depth \in 1..Depth
      BY <1>1
    <3>2. QED
      BY <1>2, <3>1 DEF Top, Exact, Nested
  <2>2. \A i, j \in 1..Depth : i <= j => frames'[j].all \subseteq frames'[i].all
    BY <1>2 DEF Exact, Nested
  <2>3. \A i \in 1..Depth : i < Depth => frames'[i].kind \in {"then", "case", "default"}
    BY <1>1 DEF Exact, Nested
  <2>4. QED
    BY <1>1, <2>1, <2>2, <2>3 DEF Nested
<1>4. ASSUME NEW i \in 1..Depth
      PROVE  FrameExact(frames'[i], Inside(i)', InsideCond(i)', state', memory', ended')
  <2>1. CASE i = Depth
    <3>1. Inside(i)' = active' /\ InsideCond(i)' = state'.cond
      BY <1>1, <2>1 DEF Inside, InsideCond
    <3>2. QED
      BY <1>1, <2>1, <3>1
  <2>2. CASE i # Depth
    <3>1. i + 1 \in 1..Depth /\ i < Depth
      BY <1>1, <2>2
    <3>2. Inside(i)' = Inside(i) /\ InsideCond(i)' = InsideCond(i)
      BY <1>1, <1>2, <2>2, <3>1 DEF Inside, InsideCond
    <3>3. FrameExact(frames[i], Inside(i), InsideCond(i), state, memory, ended)
      BY DEF Exact
    <3>4. frames[i].kind # "merge"
      BY <3>1 DEF Exact, Nested
    <3> DEFINE g == frames[i]
               in == Inside(i)
               cond == InsideCond(i)
    <3> HIDE DEF g, in, cond
    <3>5. FrameExact(g, in, cond, state', memory, ended)
      BY <3>3, <3>4, FrameKept DEF g, in, cond
    <3>6. QED
      BY <1>1, <2>2, <3>2, <3>5 DEF g, in, cond
  <2>3. QED
    BY <2>1, <2>2
<1>5. \A v \in Live' : Describes(state', memory', v)
  BY DEF Live
<1>6. QED
  BY <1>1, <1>3, <1>4, <1>5 DEF Exact

\* The invariant at the innermost frame.
LEMMA TopExact ==
    ASSUME Typed, Exact, Depth > 0
    PROVE  /\ FrameExact(Top, active, state.cond, state, memory, ended)
           /\ \A v \in active \ ended : Describes(state, memory, v)
<1>1. Depth \in 1..Depth
  BY TopType DEF Typed, TypeOK
<1>2. FrameExact(frames[Depth], Inside(Depth), InsideCond(Depth), state, memory, ended)
  BY <1>1 DEF Exact
<1>3. QED
  BY <1>1, <1>2 DEF Exact, Live, Top, Inside, InsideCond

\* The innermost frame has merged everything and is left.
LEMMA LeaveExact ==
    ASSUME Typed, Exact, Leave
    PROVE  Exact'
<1>1. /\ Depth > 0 /\ Top.kind \in {"default", "switch", "select", "merge"}
      /\ Top.pending = <<>> /\ frames' = SubSeq(frames, 1, Depth - 1)
      /\ active' = Top.all /\ UNCHANGED <<state, memory, ended>>
  BY DEF Leave, In, packets
<1>2. /\ Depth' = Depth - 1 /\ Depth \in Nat \ {0}
      /\ \A i \in 1..(Depth - 1) : frames'[i] = frames[i]
  BY <1>1, LeaveShape DEF Typed, TypeOK
<1>3. \A i \in 1..(Depth - 1) : i \in 1..Depth /\ i < Depth /\ i <= Depth
  BY <1>2
<1>4. /\ Depth \in 1..Depth
      /\ FrameExact(Top, active, state.cond, state, memory, ended)
  BY <1>1, <1>2, TopExact
<1>5. state.cond = Top.outer.cond /\ active = Top.left
  BY <1>1, <1>4 DEF FrameExact, Divided, InClone
<1>6. \A v \in Live' : Describes(state', memory', v)
  <2>1. SUFFICES ASSUME NEW v \in Top.all \ ended
                 PROVE  Describes(state, memory, v)
    BY <1>1 DEF Live
  <2>2. CASE v \in Top.left
    BY <1>5, <2>2 DEF Exact, Live
  <2>3. CASE v \notin Top.left
    <3>1. Done(Top, state, memory, v)
      BY <1>4, <1>5, <2>3 DEF FrameExact, Recorded
    <3>2. DOMAIN Top.pending = {}
      BY <1>1
    <3>3. QED
      BY <3>1, <3>2 DEF Done, Waiting
  <2>4. QED
    BY <2>2, <2>3
<1>7. Nested'
  <2>1. \A i \in 1..(Depth - 1) : active' \subseteq frames'[i].all
    BY <1>1, <1>2, <1>3, <1>4 DEF Exact, Nested, Top
  <2>2. \A i, j \in 1..(Depth - 1) : i <= j => frames'[j].all \subseteq frames'[i].all
    BY <1>2, <1>3 DEF Exact, Nested
  <2>3. \A i \in 1..(Depth - 1) : frames'[i].kind \in {"then", "case", "default"}
    BY <1>2, <1>3 DEF Exact, Nested
  <2>4. QED
    BY <1>2, <2>1, <2>2, <2>3 DEF Nested
<1>8. ASSUME NEW i \in 1..(Depth - 1)
      PROVE  FrameExact(frames'[i], Inside(i)', InsideCond(i)', state', memory', ended')
  <2>1. FrameExact(frames[i], Inside(i), InsideCond(i), state, memory, ended)
    BY <1>3 DEF Exact
  <2>2. i # Depth
    BY <1>3
  <2>3. CASE i = Depth - 1
    <3>1. i = Depth' /\ i + 1 = Depth
      BY <1>2, <2>3
    <3>2. /\ Inside(i) = Top.all /\ InsideCond(i) = Top.outer.cond
          /\ Inside(i)' = Top.all /\ InsideCond(i)' = state.cond
      BY <1>1, <2>2, <3>1 DEF Inside, InsideCond, Top
    <3>3. QED
      BY <1>1, <1>2, <1>5, <2>1, <3>2
  <2>4. CASE i # Depth - 1
    <3>1. i # Depth' /\ i + 1 \in 1..(Depth - 1)
      BY <1>2, <2>4
    <3>2. Inside(i)' = Inside(i) /\ InsideCond(i)' = InsideCond(i)
      BY <1>2, <2>2, <3>1 DEF Inside, InsideCond
    <3>3. QED
      BY <1>1, <1>2, <2>1, <3>2
  <2>5. QED
    BY <2>3, <2>4
<1>9. QED
  BY <1>2, <1>6, <1>7, <1>8 DEF Exact

-----------------------------------------------------------------------------
(* Branches.                                                                *)

\* What the steps of branches keep.
LEMMA BranchType ==
    ASSUME Typed, state' \in ExecutionState, frames' \in Seq(Frame),
           symbols' \in 0..MaxSymbols, symbols <= symbols', nodes' \in 0..MaxNodes,
           statements' \in 0..MaxStatements, active' \subseteq Valuations,
           seen' \in [Nodes -> SUBSET Valuations], taken' \in [Nodes -> SUBSET Valuations],
           UNCHANGED <<status, header, tables, target, memory, extracted, ended>>
    PROVE  Typed'
<1>1. header' # 0 => header' + 1 <= symbols'
  BY DEF Typed, TypeOK
<1>2. QED
  BY <1>1 DEF Typed, TypeOK

\* A statement or a case is counted.
LEMMA CountType ==
    ASSUME Typed, Execute \/ CountCase
    PROVE  statements' \in 0..MaxStatements
  BY InterpreterAssumption DEF Typed, TypeOK, Execute, CanExecute, CountCase

\* What a packet finds in a condition.
LEMMA AskedType ==
    ASSUME Typed, NEW x \in Readable
    PROVE  /\ [v \in Valuations |-> memory[v][x]] \in [Valuations -> Values]
           /\ state.env[x] \in Symbolic
           /\ state \in ExecutionState
<1>1. \A v \in Valuations : memory[v][x] \in Values
  BY MemoryType, LocationsType
<1>2. QED
  BY <1>1, StateFields, LocationsType DEF Typed, TypeOK

\* if: the packets for which the condition is true go into the branch.
LEMMA OpenIfStep ==
    ASSUME Typed, NEW x \in Tests, OpenIf(x)
    PROVE  Typed' /\ (Exact => Exact')
<1> DEFINE cond   == Holds(state.env[x])
           mapped == AddReachabilityMapping(state, nodes', cond)
           true   == {v \in active : memory[v][x] = 1}
           asked  == [v \in Valuations |-> memory[v][x]]
           left   == active \ true
           f      == NewFrame("then", mapped, state.env[x], asked, left)
<1>1. /\ Execute /\ nodes < MaxNodes /\ nodes' = nodes + 1
      /\ state' = PushExecutionCondition(mapped, cond)
      /\ frames' = Append(frames, f)
      /\ active' = true
      /\ Visit(nodes', Live, true)
      /\ UNCHANGED <<status, symbols, header, tables, target, memory, extracted, ended>>
  BY DEF OpenIf, Enter
<1>2. x \in Readable /\ active \subseteq Valuations /\ ended \subseteq Valuations
  BY LocationsType DEF Typed, TypeOK
<1>3. /\ asked \in [Valuations -> Values] /\ state.env[x] \in Symbolic
      /\ state \in ExecutionState /\ left \in SUBSET Valuations
  BY <1>2, AskedType
<1>4. \A v \in active \ ended : Describes(state, memory, v) =>
         /\ v \in Valuations
         /\ state.env[x][v] = asked[v]
         /\ v \in true <=> v \in cond
  BY <1>2 DEF Describes, Holds
<1>5. mapped \in ExecutionState /\ mapped.cond = state.cond /\ mapped.env = state.env
  BY <1>3, MappingShape
<1> HIDE DEF mapped, cond, asked
<1>6. state' \in ExecutionState /\ state'.cond = state.cond \cap cond /\ state'.env = state.env
  BY <1>1, <1>5, PushShape
<1>7. f \in Frame
  BY <1>2, <1>3, <1>5, NewFrameType
<1>8. /\ f.kind = "then" /\ f.outer = mapped /\ f.pending = <<>> /\ f.key = state.env[x]
      /\ f.asked = asked /\ f.all = active /\ f.left = left
  BY DEF NewFrame
<1> HIDE DEF f
<1>9. Typed'
  <2>1. frames' \in Seq(Frame)
    BY <1>1, <1>7, EnterShape DEF Typed, TypeOK
  <2>2. nodes' \in 0..MaxNodes /\ symbols' \in 0..MaxSymbols /\ symbols <= symbols'
    BY <1>1, InterpreterAssumption DEF Typed, TypeOK
  <2>3. seen' \in [Nodes -> SUBSET Valuations] /\ taken' \in [Nodes -> SUBSET Valuations]
    BY <1>1, <1>2 DEF Visit, Live, Typed, TypeOK
  <2>4. statements' \in 0..MaxStatements
    BY <1>1, CountType
  <2>5. active' \subseteq Valuations
    BY <1>1, <1>2
  <2>6. QED
    BY <1>1, <1>6, <2>1, <2>2, <2>3, <2>4, <2>5, BranchType
<1>10. ASSUME Exact PROVE Exact'
  <2>1. \A v \in active \ ended : Describes(state, memory, v)
    BY <1>10 DEF Exact, Live
  <2>2. \A v \in true \ ended : Describes(state', memory, v)
    BY <1>4, <1>6, <2>1 DEF Describes
  <2>3. FrameExact(f, true, state'.cond, state', memory, ended)
    <3>1. Divided(f, true, state'.cond) /\ Progress(f)
      BY <1>8 DEF Divided, Progress, InClone
    <3>2. ASSUME NEW v \in active \ ended
          PROVE  Recorded(f, true, state'.cond, state', memory, v)
      <4>1. Describes(state, memory, v)
        BY <2>1
      <4>2. Describes(mapped, memory, v)
        BY <1>5, <4>1 DEF Describes
      <4>3. Unmerged(f, v) /\ Matched(f, v)
        BY <1>8 DEF Unmerged, Matched
      <4>4. QED
        BY <1>4, <1>6, <1>8, <4>1, <4>2, <4>3 DEF Recorded, Describes
    <3>3. QED
      BY <1>8, <3>1, <3>2 DEF FrameExact
  <2>4. true \subseteq active
    OBVIOUS
  <2> HIDE DEF true
  <2>5. QED
    BY <1>1, <1>5, <1>7, <1>8, <1>10, <2>2, <2>3, <2>4, EnterExact DEF Execute
<1>11. QED
  BY <1>9, <1>10

\* switch and select: all packets are yet to match.
LEMMA OpenCasesStep ==
    ASSUME Typed, NEW x \in Tests, NEW kind \in {"switch", "select"}, OpenCases(kind, x)
    PROVE  Typed' /\ (Exact => Exact')
<1> DEFINE asked == [v \in Valuations |-> memory[v][x]]
           f     == NewFrame(kind, state, state.env[x], asked, active)
<1>1. /\ Execute /\ frames' = Append(frames, f)
      /\ UNCHANGED <<state, status, symbols, header, nodes, tables, target, active, memory,
                     extracted, ended, seen, taken>>
  BY DEF OpenCases, Enter, counters, packets
<1>2. x \in Readable /\ active \in SUBSET Valuations
  BY LocationsType DEF Typed, TypeOK
<1>3. /\ asked \in [Valuations -> Values] /\ state.env[x] \in Symbolic
      /\ state \in ExecutionState
  BY <1>2, AskedType
<1>4. \A v \in active \ ended : Describes(state, memory, v) =>
         v \in Valuations /\ state.env[x][v] = asked[v]
  BY <1>2 DEF Describes
<1> HIDE DEF asked
<1>5. f \in Frame
  BY <1>2, <1>3, NewFrameType
<1>6. /\ f.kind = kind /\ f.outer = state /\ f.pending = <<>> /\ f.key = state.env[x]
      /\ f.asked = asked /\ f.all = active /\ f.left = active /\ f.notCond = Valuations
      /\ f.resume = IF kind = "select" THEN "select" ELSE "switch"
  BY DEF NewFrame
<1> HIDE DEF f
<1>7. Typed'
  <2>1. frames' \in Seq(Frame)
    BY <1>1, <1>5, EnterShape DEF Typed, TypeOK
  <2>2. symbols <= symbols' /\ statements' \in 0..MaxStatements
    BY <1>1, CountType DEF Typed, TypeOK
  <2>3. QED
    BY <1>1, <2>1, <2>2, BranchType DEF Typed, TypeOK
<1>8. ASSUME Exact PROVE Exact'
  <2>1. \A v \in active \ ended : Describes(state, memory, v)
    BY <1>8 DEF Exact, Live
  <2>2. FrameExact(f, active, state.cond, state, memory, ended)
    <3>1. Divided(f, active, state.cond) /\ Progress(f)
      BY <1>6 DEF Divided, Progress, InClone
    <3>2. ASSUME NEW v \in active \ ended
          PROVE  Recorded(f, active, state.cond, state, memory, v)
      BY <1>4, <1>6, <2>1 DEF Recorded, Describes, Unmerged, Matched, InClone
    <3>3. QED
      BY <1>6, <3>1, <3>2 DEF FrameExact
  <2>3. QED
    BY <1>1, <1>5, <1>6, <1>8, <2>1, <2>2, EnterExact DEF Execute
<1>9. QED
  BY <1>7, <1>8

\* A step that only moves on in the innermost frame.
LEMMA ResumeType ==
    ASSUME Typed, Depth > 0, NEW f \in Frame, Resume(f), state' \in ExecutionState,
           active' \subseteq Valuations, UNCHANGED <<status, counters, statements, packets>>
    PROVE  Typed'
<1>1. frames' \in Seq(Frame)
  BY ResumeShape DEF Typed, TypeOK
<1>2. symbols <= symbols'
  BY DEF counters, Typed, TypeOK
<1>3. QED
  BY <1>1, <1>2, BranchType DEF counters, packets, Typed, TypeOK

\* The frame g after a branch: its state waits behind the others.
Ended(f, st, g) ==
    /\ g.outer = f.outer /\ g.key = f.key /\ g.asked = f.asked /\ g.resume = f.resume
    /\ g.labels = f.labels /\ g.notCond = f.notCond /\ g.all = f.all /\ g.left = f.left
    /\ g.pending = Append(f.pending, st)
    /\ g.kind = "default" \/ (g.kind = f.resume /\ f.kind = "case")

\* The end of a branch that was executed in a clone.
LEMMA EndBranchExact ==
    ASSUME Typed, Exact, Depth > 0, InClone(Top), NEW g \in Frame, Ended(Top, state, g),
           Resume(g), state' = Top.outer, active' = Top.left, UNCHANGED <<memory, ended>>
    PROVE  Exact'
<1>1. /\ Top \in Frame /\ Top.pending \in Seq(ExecutionState) /\ state \in ExecutionState
      /\ Top.resume \in {"switch", "select"}
  BY TopType, FrameFields DEF Typed, TypeOK
<1>2. /\ FrameExact(Top, active, state.cond, state, memory, ended)
      /\ \A v \in active \ ended : Describes(state, memory, v)
  BY TopExact
<1> DEFINE n == Len(Top.pending)
<1>3. /\ n \in Nat /\ DOMAIN Top.pending = 1..n /\ DOMAIN g.pending = 1..(n + 1)
      /\ \A j \in 1..n : g.pending[j] = Top.pending[j]
      /\ g.pending[n + 1] = state
  BY <1>1, AppendProperties, LenProperties DEF Ended
<1>4. /\ g.kind \in {"default", "switch", "select"} /\ g.all = Top.all /\ g.left = Top.left
      /\ g.outer = Top.outer
  BY <1>1 DEF Ended
<1>5. ~InClone(g)
  BY <1>4 DEF InClone
<1> HIDE DEF n
<1>6. Divided(g, Top.left, Top.outer.cond) /\ Progress(g)
  BY <1>2, <1>4, <1>5 DEF FrameExact, Divided, Progress, Ended
<1>7. ASSUME NEW v \in Top.all \ ended
      PROVE  /\ Recorded(g, Top.left, Top.outer.cond, Top.outer, memory, v)
             /\ v \in Top.left => Describes(Top.outer, memory, v)
  <2>1. Recorded(Top, active, state.cond, state, memory, v)
    BY <1>2 DEF FrameExact
  <2>2. active \cap Top.left = {}
    BY <1>2 DEF FrameExact, Divided
  <2>3. Matched(g, v)
    BY <2>1 DEF Recorded, Matched, Ended, InClone
  <2>4. v \in Top.left => Unmerged(g, v)
    <3>1. ASSUME v \in Top.left, NEW j \in 1..(n + 1)
          PROVE  v \notin g.pending[j].cond
      <4>1. CASE j = n + 1
        BY <1>3, <2>1, <2>2, <3>1, <4>1 DEF Recorded
      <4>2. CASE j # n + 1
        <5>1. j \in 1..n
          BY <1>3, <4>2
        <5>2. QED
          BY <1>3, <2>1, <3>1, <5>1 DEF Recorded, Unmerged
      <4>3. QED
        BY <4>1, <4>2
    <3>2. QED
      BY <1>3, <3>1 DEF Unmerged
  <2>5. CASE v \in active
    <3>1. n + 1 \in 1..(n + 1) /\ \A k \in 1..(n + 1) : k # n + 1 => k \in 1..n
      BY <1>3
    <3>2. \A k \in 1..(n + 1) : k # n + 1 => v \notin g.pending[k].cond
      BY <1>3, <2>1, <2>5, <3>1 DEF Recorded, Unmerged
    <3>3. Waiting(g, memory, v)
      BY <1>2, <1>3, <2>5, <3>1, <3>2 DEF Waiting
    <3>4. QED
      BY <1>4, <1>5, <2>1, <2>2, <2>3, <2>5, <3>3 DEF Recorded, Done, Ended
  <2>6. CASE v \notin active /\ v \notin Top.left
    <3>1. Waiting(Top, memory, v) /\ v \notin state.cond
      BY <2>1, <2>6 DEF Recorded, Done, InClone
    <3>2. PICK j \in 1..n : /\ Describes(Top.pending[j], memory, v)
                            /\ \A k \in 1..n : k # j => v \notin Top.pending[k].cond
      BY <1>3, <3>1 DEF Waiting
    <3>3. j \in 1..(n + 1) /\ \A k \in 1..(n + 1) : k = n + 1 \/ k \in 1..n
      BY <1>3
    <3>4. Describes(g.pending[j], memory, v)
      BY <1>3, <3>2
    <3>5. \A k \in 1..(n + 1) : k # j => v \notin g.pending[k].cond
      BY <1>3, <3>1, <3>2, <3>3
    <3>6. Waiting(g, memory, v)
      BY <1>3, <3>3, <3>4, <3>5 DEF Waiting
    <3>7. QED
      BY <1>4, <1>5, <2>1, <2>3, <2>6, <3>6 DEF Recorded, Done, Ended
  <2>7. CASE v \in Top.left
    BY <1>4, <1>5, <2>1, <2>3, <2>4, <2>7 DEF Recorded, Ended
  <2>8. QED
    BY <2>5, <2>6, <2>7
<1>8. FrameExact(g, Top.left, Top.outer.cond, Top.outer, memory, ended)
  BY <1>4, <1>6, <1>7 DEF FrameExact
<1>9. Top.left \subseteq Top.all
  BY <1>2 DEF FrameExact, Divided
<1>10. QED
  BY <1>4, <1>7, <1>8, <1>9, ResumeExact

\* The else branch begins.
LEMMA BeginElseStep ==
    ASSUME Typed, BeginElse
    PROVE  Typed' /\ (Exact => Exact')
<1> DEFINE g == [Top EXCEPT !.kind = "default", !.pending = <<state>>]
<1>1. /\ Depth > 0 /\ Top.kind = "then" /\ state' = Top.outer /\ active' = Top.left
      /\ Resume(g) /\ UNCHANGED <<status, counters, statements, packets>>
  BY DEF BeginElse, In
<1>2. Top \in Frame /\ state \in ExecutionState
  BY <1>1, TopType DEF Typed, TypeOK
<1>3. <<state>> \in Seq(ExecutionState)
  BY <1>2
<1>4. g \in Frame
  BY <1>2, <1>3 DEF Frame, Kinds
<1>5. /\ g.outer = Top.outer /\ g.key = Top.key /\ g.asked = Top.asked
      /\ g.resume = Top.resume /\ g.labels = Top.labels /\ g.notCond = Top.notCond
      /\ g.all = Top.all /\ g.left = Top.left /\ g.kind = "default" /\ g.pending = <<state>>
  BY <1>2 DEF Frame
<1> HIDE DEF g
<1>6. Typed'
  BY <1>1, <1>2, <1>4, FrameFields, ResumeType
<1>7. ASSUME Exact PROVE Exact'
  <2>1. Top.pending = <<>>
    BY <1>1, <1>7, TopExact DEF FrameExact, Progress
  <2>2. Append(Top.pending, state) = <<state>>
    BY <2>1
  <2>3. Ended(Top, state, g) /\ InClone(Top)
    BY <1>1, <1>5, <2>2 DEF Ended, InClone
  <2>4. QED
    BY <1>1, <1>4, <1>7, <2>3, EndBranchExact DEF packets
<1>8. QED
  BY <1>6, <1>7

\* The end of a case.
LEMMA EndCaseStep ==
    ASSUME Typed, EndCase
    PROVE  Typed' /\ (Exact => Exact')
<1> DEFINE g == [Top EXCEPT !.kind = Top.resume, !.pending = Append(@, state)]
<1>1. /\ Depth > 0 /\ Top.kind = "case" /\ state' = Top.outer /\ active' = Top.left
      /\ Resume(g) /\ UNCHANGED <<status, counters, statements, packets>>
  BY DEF EndCase, In
<1>2. Top \in Frame /\ state \in ExecutionState
  BY <1>1, TopType DEF Typed, TypeOK
<1>3. Append(Top.pending, state) \in Seq(ExecutionState) /\ Top.resume \in Kinds
  BY <1>2, FrameFields, AppendProperties DEF Kinds
<1>4. g \in Frame
  BY <1>2, <1>3 DEF Frame
<1>5. Ended(Top, state, g)
  BY <1>1, <1>2 DEF Frame, Ended
<1> HIDE DEF g
<1>6. Typed'
  BY <1>1, <1>2, <1>4, FrameFields, ResumeType
<1>7. ASSUME Exact PROVE Exact'
  BY <1>1, <1>4, <1>5, <1>7, EndBranchExact DEF packets, InClone
<1>8. QED
  BY <1>6, <1>7

\* The default case begins.
LEMMA BeginDefaultStep ==
    ASSUME Typed, BeginDefault
    PROVE  Typed' /\ (Exact => Exact')
<1> DEFINE g == [Top EXCEPT !.kind = "default"]
<1>1. /\ Depth > 0 /\ Top.kind \in {"switch", "select"} /\ Resume(g)
      /\ UNCHANGED <<state, status, counters, statements, active, packets>>
  BY DEF BeginDefault, In
<1>2. Top \in Frame /\ state \in ExecutionState /\ active \subseteq Valuations
  BY <1>1, TopType DEF Typed, TypeOK
<1>3. g \in Frame
  BY <1>2 DEF Frame, Kinds
<1>4. /\ g.outer = Top.outer /\ g.key = Top.key /\ g.asked = Top.asked
      /\ g.all = Top.all /\ g.left = Top.left /\ g.kind = "default" /\ g.pending = Top.pending
  BY <1>2 DEF Frame
<1> HIDE DEF g
<1>5. Typed'
  BY <1>1, <1>2, <1>3, ResumeType
<1>6. ASSUME Exact PROVE Exact'
  <2>1. /\ FrameExact(Top, active, state.cond, state, memory, ended)
        /\ \A v \in active \ ended : Describes(state, memory, v)
    BY <1>1, <1>6, TopExact
  <2>2. active \subseteq Top.all
    BY <2>1 DEF FrameExact, Divided
  <2>3. FrameExact(g, active, state.cond, state, memory, ended)
    <3>1. Divided(g, active, state.cond) /\ Progress(g)
      BY <1>1, <1>4, <2>1 DEF FrameExact, Divided, Progress, InClone
    <3>2. ASSUME NEW v \in Top.all \ ended
          PROVE  Recorded(g, active, state.cond, state, memory, v)
      <4>1. Recorded(Top, active, state.cond, state, memory, v)
        BY <2>1 DEF FrameExact
      <4>2. Matched(g, v) /\ ~InClone(g)
        BY <1>4 DEF Matched, InClone
      <4>3. Unmerged(Top, v) => Unmerged(g, v)
        BY <1>4 DEF Unmerged
      <4>4. Done(Top, state, memory, v) => Done(g, state, memory, v)
        BY <1>1, <1>4 DEF Done, Waiting
      <4>5. QED
        BY <1>4, <4>1, <4>2, <4>3, <4>4 DEF Recorded
    <3>3. QED
      BY <1>4, <3>1, <3>2 DEF FrameExact
  <2>4. QED
    BY <1>1, <1>3, <1>4, <1>6, <2>1, <2>2, <2>3, ResumeExact DEF packets
<1>7. QED
  BY <1>5, <1>6

\* One turn of the merging loop.
LEMMA MergeStep ==
    ASSUME Typed, MergeNext
    PROVE  Typed' /\ (Exact => Exact')
<1> DEFINE g == [Top EXCEPT !.kind = "merge", !.pending = Tail(@)]
           head == Head(Top.pending)
<1>1. /\ Depth > 0 /\ Top.kind \in {"default", "switch", "select", "merge"}
      /\ Top.pending # <<>> /\ state' = Merge(state, head) /\ Resume(g)
      /\ UNCHANGED <<status, counters, statements, active, packets>>
  BY DEF MergeNext, In
<1>2. /\ Top \in Frame /\ Top.pending \in Seq(ExecutionState) /\ state \in ExecutionState
      /\ active \subseteq Valuations /\ Top.all \subseteq Valuations
  BY <1>1, TopType, FrameFields DEF Typed, TypeOK
<1> DEFINE n == Len(Top.pending)
<1>3. /\ head \in ExecutionState /\ Tail(Top.pending) \in Seq(ExecutionState)
      /\ n \in Nat \ {0} /\ DOMAIN Top.pending = 1..n /\ head = Top.pending[1]
  BY <1>1, <1>2, HeadTailProperties, EmptySeq, LenProperties
<1>4. g \in Frame
  BY <1>2, <1>3 DEF Frame, Kinds
<1>5. /\ g.outer = Top.outer /\ g.key = Top.key /\ g.asked = Top.asked
      /\ g.all = Top.all /\ g.left = Top.left /\ g.kind = "merge"
      /\ g.pending = Tail(Top.pending)
  BY <1>2 DEF Frame
<1>6. /\ DOMAIN g.pending = 1..(n - 1)
      /\ \A j \in 1..(n - 1) : g.pending[j] = Top.pending[j + 1]
  BY <1>1, <1>2, <1>3, <1>5, HeadTailProperties, LenProperties
<1> HIDE DEF g, head, n
<1>7. /\ state' \in ExecutionState /\ state'.cond = state.cond
      /\ \A l \in Locations : \A v \in Valuations :
            state'.env[l][v] = IF v \in head.cond THEN head.env[l][v] ELSE state.env[l][v]
  BY <1>1, <1>2, <1>3, MergeShape
<1>8. Typed'
  BY <1>1, <1>2, <1>4, <1>7, ResumeType
<1>9. ASSUME Exact PROVE Exact'
  <2>1. /\ FrameExact(Top, active, state.cond, state, memory, ended)
        /\ \A v \in active \ ended : Describes(state, memory, v)
    BY <1>1, <1>9, TopExact
  <2>2. active = Top.left /\ active \subseteq Top.all /\ state.cond = Top.outer.cond
    BY <1>1, <2>1 DEF FrameExact, Divided, InClone
  <2>3. \A v \in Valuations : v \notin head.cond /\ Describes(state, memory, v)
           => Describes(state', memory, v)
    BY <1>7, LocationsType DEF Describes
  <2>4. \A v \in Valuations : v \in state.cond /\ Describes(head, memory, v)
           => Describes(state', memory, v)
    BY <1>7, LocationsType DEF Describes
  <2>5. 1 \in 1..n /\ \A j \in 1..(n - 1) : j + 1 \in 1..n /\ j + 1 # 1
    BY <1>3
  <2>6. ASSUME NEW v, Unmerged(Top, v)
        PROVE  Unmerged(g, v) /\ v \notin head.cond
    BY <1>3, <1>6, <2>5, <2>6 DEF Unmerged
  <2>7. ASSUME NEW v \in Top.all \ ended
        PROVE  Recorded(g, active, state'.cond, state', memory, v)
    <3>1. Recorded(Top, active, state.cond, state, memory, v)
      BY <2>1 DEF FrameExact
    <3>2. Matched(g, v) /\ ~InClone(g)
      BY <1>5 DEF Matched, InClone
    <3>3. v \in Valuations /\ v \in state.cond
      BY <1>2, <2>2, <3>1 DEF Recorded
    <3>4. ASSUME v \notin active
          PROVE  Done(g, state', memory, v)
      <4>1. Done(Top, state, memory, v)
        BY <2>2, <3>1, <3>4 DEF Recorded
      <4>2. CASE Waiting(Top, memory, v)
        <5>1. PICK j \in 1..n : /\ Describes(Top.pending[j], memory, v)
                                /\ \A k \in 1..n : k # j => v \notin Top.pending[k].cond
          BY <1>3, <4>2 DEF Waiting
        <5>2. CASE j = 1
          <6>1. Describes(state', memory, v)
            BY <1>3, <2>4, <3>3, <5>1, <5>2
          <6>2. Unmerged(g, v)
            BY <1>6, <2>5, <5>1, <5>2 DEF Unmerged
          <6>3. QED
            BY <1>5, <6>1, <6>2 DEF Done
        <5>3. CASE j # 1
          <6>1. j - 1 \in 1..(n - 1) /\ (j - 1) + 1 = j
            BY <1>3, <5>3
          <6>2. \A k \in 1..(n - 1) : k # j - 1 => k + 1 # j
            BY <1>3
          <6>3. Describes(g.pending[j - 1], memory, v)
            BY <1>6, <5>1, <6>1
          <6>4. \A k \in 1..(n - 1) : k # j - 1 => v \notin g.pending[k].cond
            BY <1>6, <2>5, <5>1, <6>2
          <6>5. QED
            BY <1>6, <6>1, <6>3, <6>4 DEF Done, Waiting
        <5>4. QED
          BY <5>2, <5>3
      <4>3. CASE Unmerged(Top, v) /\ Describes(state, memory, v)
        BY <1>5, <2>3, <2>6, <3>3, <4>3 DEF Done
      <4>4. QED
        BY <4>1, <4>2, <4>3 DEF Done
    <3>5. QED
      BY <1>5, <2>2, <2>6, <3>1, <3>2, <3>4 DEF Recorded
  <2>8. \A v \in active \ ended : Describes(state', memory, v)
    <3>1. SUFFICES ASSUME NEW v \in active \ ended PROVE Describes(state', memory, v)
      OBVIOUS
    <3>2. Recorded(Top, active, state.cond, state, memory, v)
      BY <2>1, <2>2 DEF FrameExact
    <3>3. v \notin head.cond
      BY <2>6, <3>2 DEF Recorded
    <3>4. QED
      BY <1>2, <2>1, <2>3, <3>3
  <2>9. FrameExact(g, active, state'.cond, state', memory, ended)
    <3>1. Divided(g, active, state'.cond) /\ Progress(g)
      BY <1>5, <1>7, <2>2 DEF Divided, Progress, InClone
    <3>2. QED
      BY <1>5, <2>7, <3>1 DEF FrameExact
  <2>10. QED
    BY <1>1, <1>4, <1>5, <1>9, <2>2, <2>8, <2>9, ResumeExact DEF packets
<1>10. QED
  BY <1>8, <1>9

\* All branches have been merged.
LEMMA LeaveStep ==
    ASSUME Typed, Leave
    PROVE  Typed' /\ (Exact => Exact')
<1>1. /\ Depth > 0 /\ frames' = SubSeq(frames, 1, Depth - 1) /\ active' = Top.all
      /\ UNCHANGED <<state, status, counters, statements, packets>>
  BY DEF Leave, In
<1>2. frames' \in Seq(Frame) /\ active' \subseteq Valuations
  BY <1>1, LeaveShape, TopType, FrameFields DEF Typed, TypeOK
<1>3. symbols <= symbols'
  BY <1>1 DEF counters, Typed, TypeOK
<1>4. Typed'
  BY <1>1, <1>2, <1>3, BranchType DEF counters, packets, Typed, TypeOK
<1>5. QED
  BY <1>4, LeaveExact

\* A case begins in a clone, for the packets in matched; frame g of the case.
Begun(f, st, matched, g) ==
    /\ g.kind = "case" /\ g.outer.cond = st.cond /\ g.outer.env = st.env
    /\ g.pending = f.pending /\ g.key = f.key /\ g.asked = f.asked /\ g.resume = f.resume
    /\ g.all = f.all /\ g.left = f.left \ matched

\* The condition of the case holds for the packets that match it.
LEMMA BeginCaseExact ==
    ASSUME Typed, Exact, Depth > 0, Top.kind \in {"switch", "select"}, NEW g \in Frame,
           NEW match, NEW matched, Begun(Top, state, matched, g), Resume(g),
           UNCHANGED <<memory, ended>>, active' = Top.left \cap matched,
           state'.cond = state.cond \cap match, state'.env = state.env,
           \A v \in Top.all \ ended : Top.key[v] = Top.asked[v] /\ Matched(Top, v) =>
               /\ v \in Top.left \cap matched <=> v \in match
               /\ Matched(g, v)
    PROVE  Exact'
<1>1. /\ FrameExact(Top, active, state.cond, state, memory, ended)
      /\ \A v \in active \ ended : Describes(state, memory, v)
  BY TopExact
<1>2. active = Top.left /\ active \subseteq Top.all /\ state.cond = Top.outer.cond
  BY <1>1 DEF FrameExact, Divided, InClone
<1>3. InClone(g) /\ g.all = Top.all /\ g.outer.cond = Top.outer.cond
  BY <1>2 DEF InClone, Begun
<1>4. ASSUME NEW v \in Top.all \ ended
      PROVE  /\ Recorded(g, active', state'.cond, state', memory, v)
             /\ v \in active' => Describes(state', memory, v)
  <2>1. Recorded(Top, active, state.cond, state, memory, v)
    BY <1>1 DEF FrameExact
  <2>2. (v \in active' <=> v \in match) /\ Matched(g, v) /\ v \in state.cond
    BY <1>2, <2>1 DEF Recorded
  <2>3. v \in active' \cup g.left <=> v \in active
    BY <1>2 DEF Begun
  <2>4. v \in active => Unmerged(g, v)
    BY <2>1 DEF Recorded, Unmerged, Begun
  <2>5. v \notin active => Done(g, state', memory, v)
    BY <1>2, <2>1 DEF Recorded, Done, Waiting, Begun
  <2>6. v \in active => Describes(g.outer, memory, v)
    BY <1>1 DEF Describes, Begun
  <2>7. v \in active' => Describes(state', memory, v)
    BY <1>1, <1>2, <2>2 DEF Describes
  <2>8. QED
    BY <1>2, <1>3, <2>1, <2>2, <2>3, <2>4, <2>5, <2>6, <2>7 DEF Recorded, Begun
<1>5. Divided(g, active', state'.cond) /\ Progress(g)
  BY <1>2, <1>3 DEF Divided, Progress, Begun
<1>6. FrameExact(g, active', state'.cond, state', memory, ended)
  BY <1>3, <1>4, <1>5 DEF FrameExact
<1>7. active' \subseteq g.all
  BY <1>2, <1>3
<1>8. QED
  BY <1>2, <1>3, <1>4, <1>6, <1>7, ResumeExact

\* A switch case: its labels are not those of the cases before it.
LEMMA SwitchCaseStep ==
    ASSUME Typed, NEW labels \in SUBSET Values, BeginSwitchCase(labels)
    PROVE  Typed' /\ (Exact => Exact')
<1> DEFINE equal(l) == {v \in Valuations : Top.key[v] = l}
           asked(l) == {v \in Top.all : Top.asked[v] = l}
           label(n) == {l \in labels : LabelNode(labels, l) = n}
           reach == [n \in Nodes |-> IF label(n) = {} THEN state.reach[n]
                                     ELSE {state.cond \cap equal(l) : l \in label(n)}]
           mapped == [state EXCEPT !.reach = reach]
           match == UNION {equal(l) : l \in labels}
           matched == UNION {asked(l) : l \in labels}
           g == [Top EXCEPT !.kind = "case", !.outer = mapped,
                            !.labels = @ \cup labels, !.left = @ \ matched]
<1>1. /\ Depth > 0 /\ Top.kind = "switch" /\ CountCase
      /\ labels \cap Top.labels = {}
      /\ nodes' = nodes + Cardinality(labels) /\ nodes' <= MaxNodes
      /\ state' = PushExecutionCondition(mapped, match)
      /\ active' = Top.left \cap matched
      /\ Resume(g)
      /\ UNCHANGED <<status, symbols, header, tables, target, memory, extracted, ended>>
  BY DEF BeginSwitchCase, In
<1>2. /\ seen' = [n \in Nodes |-> IF label(n) = {} THEN seen[n] ELSE Top.all \ ended]
      /\ taken' = [n \in Nodes |-> IF label(n) = {} THEN taken[n]
                                   ELSE (UNION {asked(l) : l \in label(n)}) \ ended]
  BY DEF BeginSwitchCase
<1>3. /\ Top \in Frame /\ state \in ExecutionState /\ Top.all \subseteq Valuations
      /\ Top.labels \subseteq Values /\ Top.left \subseteq Valuations
  BY <1>1, TopType, FrameFields DEF Typed, TypeOK
<1>4. reach \in [Nodes -> SUBSET SUBSET Valuations]
  BY <1>3, StateFields
<1>5. \A v : v \in matched <=> v \in Top.all /\ Top.asked[v] \in labels
  OBVIOUS
<1>6. \A v : v \in match <=> v \in Valuations /\ Top.key[v] \in labels
  OBVIOUS
<1>7. /\ seen' \in [Nodes -> SUBSET Valuations]
      /\ taken' \in [Nodes -> SUBSET Valuations]
  BY <1>2, <1>3 DEF Typed, TypeOK
<1> HIDE DEF reach, match, matched
<1>8. mapped \in ExecutionState /\ mapped.cond = state.cond /\ mapped.env = state.env
  BY <1>3, <1>4 DEF ExecutionState
<1> HIDE DEF mapped
<1>9. /\ state' \in ExecutionState /\ state'.cond = state.cond \cap match
      /\ state'.env = state.env
  BY <1>1, <1>8, PushShape
<1>10. g \in Frame
  BY <1>3, <1>8 DEF Frame, Kinds
<1>11. Begun(Top, state, matched, g) /\ g.labels = Top.labels \cup labels
  BY <1>3, <1>8 DEF Frame, Begun
<1> HIDE DEF g
<1>12. Typed'
  <2>1. frames' \in Seq(Frame)
    BY <1>1, <1>10, ResumeShape DEF Typed, TypeOK
  <2>2. Cardinality(labels) \in Nat
    <3>1. IsFiniteSet({0})
      BY FS_Singleton, Zenon
    <3>2. IsFiniteSet({0} \cup {1})
      BY <3>1, FS_AddElement, Zenon
    <3>3. Values = {0} \cup {1}
      BY DEF Values
    <3>4. QED
      BY <3>2, <3>3, FS_Subset, FS_CardinalityType
  <2>3. nodes' \in 0..MaxNodes /\ symbols' \in 0..MaxSymbols /\ symbols <= symbols'
    BY <1>1, <2>2, InterpreterAssumption DEF Typed, TypeOK
  <2>4. statements' \in 0..MaxStatements
    BY <1>1, CountType
  <2>5. active' \subseteq Valuations
    BY <1>1, <1>3
  <2>6. QED
    BY <1>1, <1>7, <1>9, <2>1, <2>3, <2>4, <2>5, BranchType
<1>13. ASSUME Exact PROVE Exact'
  <2>1. Top.resume = "switch"
    BY <1>1, <1>13, TopExact DEF FrameExact, Progress
  <2>2. ASSUME NEW v \in Top.all \ ended, Top.key[v] = Top.asked[v], Matched(Top, v)
        PROVE  /\ v \in Top.left \cap matched <=> v \in match
               /\ Matched(g, v)
    <3>1. v \notin Top.left => Top.asked[v] \in Top.labels
      BY <1>1, <2>1, <2>2 DEF Matched
    <3>2. v \in Top.left \cap matched <=> v \in match
      BY <1>1, <1>3, <1>5, <1>6, <2>2, <3>1
    <3>3. v \notin g.left => g.asked[v] \in g.labels
      BY <1>5, <1>11, <3>1 DEF Begun
    <3>4. QED
      BY <1>11, <2>1, <3>2, <3>3 DEF Matched, Begun
  <2>3. QED
    BY <1>1, <1>9, <1>10, <1>11, <1>13, <2>2, BeginCaseExact
<1>14. QED
  BY <1>12, <1>13

\* A select case: its condition excludes the cases before it.
LEMMA SelectCaseStep ==
    ASSUME Typed, In({"select"}), CountCase, NEW match, NEW matched,
           SelectCase(match, matched),
           \A v \in Valuations : Top.key[v] = Top.asked[v] => (v \in match <=> v \in matched),
           symbols' \in 0..MaxSymbols, symbols <= symbols',
           UNCHANGED <<status, header, nodes, tables, target, packets>>
    PROVE  Typed' /\ (Exact => Exact')
<1> DEFINE g == [Top EXCEPT !.kind = "case", !.outer = state, !.notCond = @ \ match,
                            !.left = @ \ matched]
           first == Top.notCond \cap match
<1>1. /\ Depth > 0 /\ Top.kind = "select"
      /\ state' = PushExecutionCondition(state, first)
      /\ active' = Top.left \cap matched
      /\ Resume(g)
  BY DEF SelectCase, SelectState, In
<1>2. /\ Top \in Frame /\ state \in ExecutionState /\ Top.all \subseteq Valuations
      /\ Top.notCond \subseteq Valuations /\ Top.left \subseteq Valuations
  BY <1>1, TopType, FrameFields DEF Typed, TypeOK
<1>3. \A v : v \in first <=> v \in Top.notCond /\ v \in match
  OBVIOUS
<1> HIDE DEF first
<1>4. /\ state' \in ExecutionState /\ state'.cond = state.cond \cap first
      /\ state'.env = state.env
  BY <1>1, <1>2, PushShape
<1>5. g \in Frame
  BY <1>2 DEF Frame, Kinds
<1>6. Begun(Top, state, matched, g) /\ g.notCond = Top.notCond \ match
  BY <1>2 DEF Frame, Begun
<1> HIDE DEF g
<1>7. Typed'
  <2>1. frames' \in Seq(Frame)
    BY <1>1, <1>5, ResumeShape DEF Typed, TypeOK
  <2>2. statements' \in 0..MaxStatements
    BY CountType
  <2>3. active' \subseteq Valuations
    BY <1>1, <1>2
  <2>4. QED
    BY <1>4, <2>1, <2>2, <2>3, BranchType DEF packets, Typed, TypeOK
<1>8. ASSUME Exact PROVE Exact'
  <2>1. Top.resume = "select"
    BY <1>1, <1>8, TopExact DEF FrameExact, Progress
  <2>2. ASSUME NEW v \in Top.all \ ended, Top.key[v] = Top.asked[v], Matched(Top, v)
        PROVE  /\ v \in Top.left \cap matched <=> v \in first
               /\ Matched(g, v)
    <3>1. v \in Top.left <=> v \in Top.notCond
      BY <1>1, <2>1, <2>2 DEF Matched
    <3>2. v \in match <=> v \in matched
      BY <1>2, <2>2
    <3>3. v \in g.left <=> v \in g.notCond
      BY <1>6, <3>1, <3>2 DEF Begun
    <3>4. QED
      BY <1>3, <1>6, <2>1, <3>1, <3>2, <3>3 DEF Matched, Begun
  <2>3. QED
    BY <1>1, <1>4, <1>5, <1>6, <1>8, <2>2, BeginCaseExact DEF packets
<1>9. QED
  BY <1>7, <1>8

\* A step of a branch.
LEMMA BranchStep ==
    ASSUME Typed, Branch
    PROVE  Typed' /\ (Exact => Exact')
<1>1. CASE \E x \in Tests : OpenIf(x)
  BY <1>1, OpenIfStep
<1>2. CASE \E x \in Tests : \E kind \in {"switch", "select"} : OpenCases(kind, x)
  BY <1>2, OpenCasesStep
<1>3. CASE BeginElse
  BY <1>3, BeginElseStep
<1>4. CASE \E labels \in SUBSET Values : BeginSwitchCase(labels)
  BY <1>4, SwitchCaseStep
<1>5. CASE \E keyset \in SUBSET Values : BeginSelectCase(keyset)
  <2>1. PICK keyset \in SUBSET Values : BeginSelectCase(keyset)
    BY <1>5
  <2> DEFINE match == {v \in Valuations : Top.key[v] \in keyset}
             matched == {v \in Valuations : Top.asked[v] \in keyset}
  <2>2. /\ In({"select"}) /\ CountCase /\ SelectCase(match, matched)
        /\ UNCHANGED <<status, symbols, header, nodes, tables, target, packets>>
    BY <2>1 DEF BeginSelectCase, counters
  <2>3. \A v \in Valuations : Top.key[v] = Top.asked[v] => (v \in match <=> v \in matched)
    OBVIOUS
  <2>4. symbols' \in 0..MaxSymbols /\ symbols <= symbols'
    BY <2>2 DEF Typed, TypeOK
  <2> HIDE DEF match, matched
  <2>5. QED
    BY <2>2, <2>3, <2>4, SelectCaseStep
<1>6. CASE BeginValueSetCase
  <2> DEFINE match == {v \in Valuations : Top.key[v] = v[symbols + 1] /\ v[symbols'] = 1}
             matched == {v \in Valuations : Top.asked[v] = v[symbols + 1] /\ v[symbols'] = 1}
  <2>1. /\ In({"select"}) /\ CountCase /\ SelectCase(match, matched)
        /\ symbols + 2 <= MaxSymbols /\ symbols' = symbols + 2
        /\ UNCHANGED <<status, header, nodes, tables, target, packets>>
    BY <1>6 DEF BeginValueSetCase
  <2>2. \A v \in Valuations : Top.key[v] = Top.asked[v] => (v \in match <=> v \in matched)
    OBVIOUS
  <2>3. symbols' \in 0..MaxSymbols /\ symbols <= symbols'
    BY <2>1, InterpreterAssumption DEF Typed, TypeOK
  <2> HIDE DEF match, matched
  <2>4. QED
    BY <2>1, <2>2, <2>3, SelectCaseStep
<1>7. CASE EndCase
  BY <1>7, EndCaseStep
<1>8. CASE BeginDefault
  BY <1>8, BeginDefaultStep
<1>9. CASE MergeNext
  BY <1>9, MergeStep
<1>10. CASE Leave
  BY <1>10, LeaveStep
<1>11. QED
  BY <1>1, <1>2, <1>3, <1>4, <1>5, <1>6, <1>7, <1>8, <1>9, <1>10 DEF Branch

-----------------------------------------------------------------------------
(* The theorems.                                                            *)

\* Types are kept by every step.
LEMMA NextType ==
    ASSUME Typed, [Next]_vars
    PROVE  Typed'
<1>1. CASE Statement
  BY <1>1, StatementStep
<1>2. CASE Branch
  BY <1>2, BranchStep
<1>3. CASE UNCHANGED vars
  BY <1>3 DEF vars, counters, packets, Typed, TypeOK
<1>4. QED
  BY <1>1, <1>2, <1>3 DEF Next

\* Every variable of the interpreter and of the packets keeps its type, for all
\* programs: the execution state stays an execution state through cloning and
\* merging (ExecutionState::merge), and every symbolic variable that is used has
\* been created.
THEOREM TypeCorrect == Spec => []TypeOK
<1>1. Init => Typed
  BY InitType
<1>2. Typed /\ [Next]_vars => Typed'
  BY NextType
<1>3. Typed => TypeOK
  BY DEF Typed
<1>4. QED
  BY <1>1, <1>2, <1>3, PTL DEF Spec

\* The packets that enter a program are as the initial state says.
LEMMA InitExact == Init => Exact
<1> SUFFICES ASSUME Init PROVE Exact
  OBVIOUS
<1>1. Depth = 0
  BY DEF Init, Depth
<1>2. \A v \in Live : v \in Valuations
  BY DEF Init, Live
<1>3. ASSUME NEW v \in Live, NEW l \in Readable
      PROVE  state.env[l][v] = memory[v][l]
  <2>1. l \in Locations
    BY LocationsType
  <2>2. state.env[l] = IF InputOf(l) = 0 THEN Constant(0) ELSE Symbol(InputOf(l))
    BY <2>1 DEF Init, InitialState
  <2>3. memory[v][l] = IF InputOf(l) = 0 THEN 0 ELSE v[InputOf(l)]
    BY <1>2, <2>1 DEF Init
  <2>4. QED
    BY <1>2, <2>2, <2>3 DEF Constant, Symbol
<1>4. \A v \in Live : v \in state.cond
  BY <1>2 DEF Init, InitialState
<1>5. QED
  BY <1>1, <1>3, <1>4 DEF Exact, Nested, Describes

\* A program calls an extern method that does less than documented only if Methods
\* has one.
LEMMA NextExact ==
    ASSUME Methods \cap Unfaithful = {}, Typed, Exact, [Next]_vars
    PROVE  Exact'
<1>1. CASE Statement
  <2>1. CanExecute
    BY <1>1 DEF Statement, Assign, SetValid, SetInvalid, Call, Extract, Abort, Check,
                CallExtern, ApplyTable, Execute
  <2>2. QED
    BY <1>1, <2>1, StatementStep, StatementExact
<1>2. CASE Branch
  BY <1>2, BranchStep
<1>3. CASE UNCHANGED vars
  <2>1. /\ state' = state /\ frames' = frames /\ active' = active /\ memory' = memory
        /\ ended' = ended
    BY <1>3 DEF vars, packets
  <2>2. /\ Depth' = Depth /\ Live' = Live
        /\ \A i : Inside(i)' = Inside(i) /\ InsideCond(i)' = InsideCond(i)
    BY <2>1 DEF Depth, Live, Inside, InsideCond
  <2>3. Nested'
    BY <2>1, <2>2 DEF Exact, Nested
  <2>4. QED
    BY <2>1, <2>2, <2>3 DEF Exact
<1>4. QED
  BY <1>1, <1>2, <1>3 DEF Next

\* Symbolic execution is exact: for all programs, tables, targets and bounds, the
\* execution state describes every packet that executes the current statement,
\* however branches are nested, cloned and merged.  The program calls no method
\* whose implementation does less than its comment says: the meters and checksum
\* checks of Unfaithful.
THEOREM ExecutionExact ==
    ASSUME Methods \cap Unfaithful = {}
    PROVE  Spec => []StateExact
<1>1. Init => Typed /\ Exact
  BY InitType, InitExact
<1>2. Typed /\ Exact /\ [Next]_vars => (Typed /\ Exact)'
  BY NextType, NextExact
<1>3. Typed /\ Exact => StateExact
  BY DEF Exact, Describes, StateExact
<1>4. QED
  BY <1>1, <1>2, <1>3, PTL DEF Spec

-----------------------------------------------------------------------------
(* Verdicts: the invariant.                                                 *)

\* The reachability maps that a frame will merge, or go on with.
FrameMaps(f) ==
    {f.pending[j].reach : j \in DOMAIN f.pending}
      \cup {m \in {f.outer.reach} : InClone(f)}

Maps == {state.reach} \cup UNION {FrameMaps(frames[i]) : i \in 1..Depth}

\* The nodes that were visited: those of branches, and those of the table.
Visited(n) == n <= nodes \/ (n > MaxNodes /\ tables = 1)

\* The conditions a map keeps for a node decide about the packets that came there.
Right(conds, came, took) == \A v \in came : \E c \in conds : v \in c <=> v \in took

\* The invariant: a node has no condition before it is visited, the right one in
\* every map that mentions it, and is mentioned in some map after it was visited.
Verdicts ==
    \A n \in Nodes :
        /\ ~Visited(n) => seen[n] = {} /\ taken[n] = {} /\ \A m \in Maps : m[n] = {}
        /\ \A m \in Maps : m[n] # {} => Right(m[n], seen[n], taken[n])
        /\ seen[n] # {} => \E m \in Maps : m[n] # {}

\* Membership in the maps.
LEMMA MapsMember ==
    \A m : m \in Maps <=> m = state.reach \/ \E i \in 1..Depth : m \in FrameMaps(frames[i])
  BY DEF Maps

\* Merging and going on keep the invariant: every map is made of the conditions of
\* the maps before, and no node is forgotten.
LEMMA VerdictsKept ==
    ASSUME Verdicts, UNCHANGED <<nodes, tables, seen, taken>>,
           \A m2 \in Maps' : \A n \in Nodes : m2[n] = {} \/ \E m \in Maps : m2[n] = m[n],
           \A m \in Maps : \A n \in Nodes : m[n] # {} => \E m2 \in Maps' : m2[n] # {}
    PROVE  Verdicts'
<1> SUFFICES ASSUME NEW n \in Nodes
             PROVE  /\ ~Visited(n)' => /\ seen'[n] = {} /\ taken'[n] = {}
                                       /\ \A m \in Maps' : m[n] = {}
                    /\ \A m \in Maps' : m[n] # {} => Right(m[n], seen'[n], taken'[n])
                    /\ seen'[n] # {} => \E m \in Maps' : m[n] # {}
  BY DEF Verdicts, Right
<1>1. Visited(n)' <=> Visited(n)
  BY DEF Visited
<1>2. \A m2 \in Maps' : m2[n] # {} => \E m \in Maps : m2[n] = m[n]
  OBVIOUS
<1>3. /\ ~Visited(n) => seen[n] = {} /\ taken[n] = {} /\ \A m \in Maps : m[n] = {}
      /\ \A m \in Maps : m[n] # {} => Right(m[n], seen[n], taken[n])
      /\ seen[n] # {} => \E m \in Maps : m[n] # {}
  BY DEF Verdicts
<1>4. QED
  BY <1>1, <1>2, <1>3

\* Visits of the nodes in N keep the invariant: state gets the map m0.
LEMMA VerdictsVisited ==
    ASSUME Verdicts, NEW N \in SUBSET Nodes, NEW m0,
           \A n \in N : ~Visited(n),
           \A n \in Nodes : Visited(n)' <=> (Visited(n) \/ n \in N),
           m0 \in Maps', \A m2 \in Maps' : m2 = m0 \/ m2 \in Maps,
           \A m \in Maps : m = state.reach \/ m \in Maps',
           \A n \in Nodes : n \notin N =>
               m0[n] = state.reach[n] /\ seen'[n] = seen[n] /\ taken'[n] = taken[n],
           \A n \in N : m0[n] # {} /\ Right(m0[n], seen'[n], taken'[n])
    PROVE  Verdicts'
<1> SUFFICES ASSUME NEW n \in Nodes
             PROVE  /\ ~Visited(n)' => /\ seen'[n] = {} /\ taken'[n] = {}
                                       /\ \A m \in Maps' : m[n] = {}
                    /\ \A m \in Maps' : m[n] # {} => Right(m[n], seen'[n], taken'[n])
                    /\ seen'[n] # {} => \E m \in Maps' : m[n] # {}
  BY DEF Verdicts, Right
<1>1. /\ ~Visited(n) => seen[n] = {} /\ taken[n] = {} /\ \A m \in Maps : m[n] = {}
      /\ \A m \in Maps : m[n] # {} => Right(m[n], seen[n], taken[n])
      /\ seen[n] # {} => \E m \in Maps : m[n] # {}
  BY DEF Verdicts
<1>2. state.reach \in Maps
  BY DEF Maps
<1>3. CASE n \in N
  BY <1>1, <1>3
<1>4. CASE n \notin N
  <2>1. m0[n] = state.reach[n] /\ seen'[n] = seen[n] /\ taken'[n] = taken[n]
    BY <1>4
  <2>2. \A m2 \in Maps' : \E m \in Maps : m2[n] = m[n]
    BY <1>2, <2>1
  <2>3. \A m \in Maps : \E m2 \in Maps' : m2[n] = m[n]
    BY <2>1
  <2>4. Visited(n)' <=> Visited(n)
    BY <1>4
  <2>5. QED
    BY <1>1, <2>1, <2>2, <2>3, <2>4
<1>5. QED
  BY <1>3, <1>4

\* The maps when the innermost frame is replaced.
LEMMA ResumeMaps ==
    ASSUME Typed, Depth > 0, NEW g \in Frame, Resume(g)
    PROVE  \E others : /\ Maps = {state.reach} \cup others \cup FrameMaps(Top)
                       /\ Maps' = {state'.reach} \cup others \cup FrameMaps(g)
<1> DEFINE others == UNION {FrameMaps(frames[i]) : i \in 1..(Depth - 1)}
<1>1. /\ Depth' = Depth /\ Depth \in Nat \ {0}
      /\ \A i \in 1..Depth : frames'[i] = IF i = Depth THEN g ELSE frames[i]
  BY ResumeShape DEF Typed, TypeOK
<1>2. \A i : i \in 1..Depth <=> i = Depth \/ i \in 1..(Depth - 1)
  BY <1>1
<1>3. \A i \in 1..(Depth - 1) : i # Depth
  BY <1>1
<1>4. \A m : m \in others <=> \E i \in 1..(Depth - 1) : m \in FrameMaps(frames[i])
  OBVIOUS
<1>5. Maps = {state.reach} \cup others \cup FrameMaps(Top)
  <2>1. \A m : m \in Maps <=> m \in {state.reach} \cup others \cup FrameMaps(Top)
    BY <1>2, <1>4, MapsMember DEF Top
  <2>2. QED
    BY <2>1
<1>6. Maps' = {state'.reach} \cup others \cup FrameMaps(g)
  <2>1. \A m : m \in Maps' <=> m = state'.reach \/ \E i \in 1..Depth : m \in FrameMaps(frames'[i])
    BY <1>1 DEF Maps
  <2>2. \A m : (\E i \in 1..Depth : m \in FrameMaps(frames'[i]))
                 <=> m \in others \/ m \in FrameMaps(g)
    BY <1>1, <1>2, <1>3, <1>4
  <2> HIDE DEF others
  <2>3. \A m : m \in Maps' <=> m \in {state'.reach} \cup others \cup FrameMaps(g)
    BY <2>1, <2>2
  <2>4. QED
    BY <2>3
<1>7. QED
  BY <1>5, <1>6

\* The maps when a frame is entered.
LEMMA EnterMaps ==
    ASSUME Typed, NEW f \in Frame, frames' = Append(frames, f)
    PROVE  \A m : m \in Maps' <=> \/ m = state'.reach \/ m \in FrameMaps(f)
                                  \/ \E i \in 1..Depth : m \in FrameMaps(frames[i])
<1>1. /\ Depth' = Depth + 1 /\ Depth \in Nat
      /\ \A i \in 1..Depth : frames'[i] = frames[i]
      /\ frames'[Depth + 1] = f
  BY EnterShape DEF Typed, TypeOK
<1>2. \A i : i \in 1..(Depth + 1) <=> i = Depth + 1 \/ i \in 1..Depth
  BY <1>1
<1>3. \A m : m \in Maps' <=> m = state'.reach \/ \E i \in 1..(Depth + 1) : m \in FrameMaps(frames'[i])
  BY <1>1 DEF Maps
<1>4. QED
  BY <1>1, <1>2, <1>3

\* The maps when the innermost frame is left.
LEMMA LeaveMaps ==
    ASSUME Typed, Depth > 0, frames' = SubSeq(frames, 1, Depth - 1), state' = state,
           FrameMaps(Top) = {}
    PROVE  Maps' = Maps
<1>1. /\ Depth' = Depth - 1 /\ Depth \in Nat \ {0}
      /\ \A i \in 1..(Depth - 1) : frames'[i] = frames[i]
  BY LeaveShape DEF Typed, TypeOK
<1>2. \A i : i \in 1..Depth <=> i = Depth \/ i \in 1..(Depth - 1)
  BY <1>1
<1>3. \A m : m \in Maps' <=> m = state.reach
                             \/ \E i \in 1..(Depth - 1) : m \in FrameMaps(frames'[i])
  BY <1>1 DEF Maps
<1>4. \A m : m \in Maps' <=> m \in Maps
  BY <1>1, <1>2, <1>3, MapsMember DEF Top
<1>5. QED
  BY <1>4

\* The program starts without any visited node.
LEMMA InitVerdicts == Init => Verdicts
<1> SUFFICES ASSUME Init PROVE Verdicts
  OBVIOUS
<1>1. Depth = 0
  BY DEF Init, Depth
<1>2. Maps = {state.reach}
  BY <1>1 DEF Maps
<1>3. \A n \in Nodes : state.reach[n] = {} /\ seen[n] = {} /\ taken[n] = {}
  BY DEF Init, InitialState
<1>4. QED
  BY <1>2, <1>3 DEF Verdicts

-----------------------------------------------------------------------------
(* Verdicts: steps that visit no node.                                      *)

\* A statement that visits no node.
Unvisiting == state'.reach = state.reach /\ UNCHANGED <<frames, nodes, tables, seen, taken>>

\* setVar leaves the reachability map alone.
LEMMA SetVarReach ==
    ASSUME NEW st, "reach" \in DOMAIN st, NEW l, NEW e
    PROVE  SetVar(st, l, e).reach = st.reach /\ "reach" \in DOMAIN SetVar(st, l, e)
  BY DEF SetVar

\* The statements that visit no node: all but the application of a table.
LEMMA StatementUnvisiting ==
    ASSUME Typed, Statement
    PROVE  Unvisiting \/ \E shape \in TableShapes, dst \in Fields : ApplyTable(shape, dst)
<1>1. "reach" \in DOMAIN state
  BY DEF Typed, TypeOK, ExecutionState
<1>2. CASE \E dst \in Fields, e \in Expressions : Assign(dst, e[1], e[2], e[3], e[4])
  BY <1>1, <1>2, SetVarReach DEF Assign, Unvisiting, counters
<1>3. CASE SetValid \/ SetInvalid
  BY <1>1, <1>3, SetVarReach DEF SetValid, SetInvalid, Unvisiting, counters
<1>4. ASSUME NEW c \in CallEffects, Call(c[2], c[3], c[4])
      PROVE  Unvisiting
  <2>1. CASE Extract(c[2])
    BY <1>1, <2>1, SetVarReach DEF Extract, Unvisiting
  <2>2. CASE Abort(c[2])
    BY <2>2 DEF Abort, packets, Unvisiting
  <2>3. CASE \E x \in Tests : Check(x)
    BY <2>3 DEF Check, Unvisiting
  <2>4. CASE \E dst \in Fields, args \in Arguments :
                CallExtern(c[2], c[3], dst, args[1], args[2])
    BY <1>1, <2>4, SetVarReach DEF CallExtern, Unvisiting
  <2>5. QED
    BY <1>4, <2>1, <2>2, <2>3, <2>4 DEF Call
<1>5. QED
  BY <1>2, <1>3, <1>4 DEF Statement

\* The maps of a program state are those of any other with the same frames.
LEMMA UnvisitingVerdicts ==
    ASSUME Verdicts, Unvisiting
    PROVE  Verdicts'
<1>1. Maps' = Maps
  BY DEF Unvisiting, Maps, Depth
<1>2. QED
  BY <1>1, VerdictsKept DEF Unvisiting

\* Moving on in the innermost frame, when it and the state hold the same maps.
LEMMA ResumeVerdicts ==
    ASSUME Typed, Verdicts, Depth > 0, NEW g \in Frame, Resume(g),
           UNCHANGED <<nodes, tables, seen, taken>>,
           {state'.reach} \cup FrameMaps(g) = {state.reach} \cup FrameMaps(Top)
    PROVE  Verdicts'
<1>1. PICK others : /\ Maps = {state.reach} \cup others \cup FrameMaps(Top)
                    /\ Maps' = {state'.reach} \cup others \cup FrameMaps(g)
  BY ResumeMaps
<1>2. Maps' = Maps
  BY <1>1
<1>3. QED
  BY <1>2, VerdictsKept

\* The maps of the states that wait, when one more does.
LEMMA PendingMaps ==
    ASSUME NEW s \in Seq(ExecutionState), NEW st \in ExecutionState
    PROVE  {Append(s, st)[j].reach : j \in DOMAIN Append(s, st)}
             = {s[j].reach : j \in DOMAIN s} \cup {st.reach}
<1>1. /\ Len(s) \in Nat /\ DOMAIN s = 1..Len(s)
      /\ DOMAIN Append(s, st) = 1..(Len(s) + 1)
      /\ \A j \in 1..Len(s) : Append(s, st)[j] = s[j]
      /\ Append(s, st)[Len(s) + 1] = st
  BY AppendProperties, LenProperties
<1>2. \A j : j \in 1..(Len(s) + 1) <=> j \in 1..Len(s) \/ j = Len(s) + 1
  BY <1>1
<1>3. \A m : (\E j \in 1..(Len(s) + 1) : m = Append(s, st)[j].reach)
               <=> (\E j \in 1..Len(s) : m = s[j].reach) \/ m = st.reach
  BY <1>1, <1>2
<1>4. QED
  BY <1>1, <1>3

\* The end of a branch that was executed in a clone.
LEMMA EndBranchVerdicts ==
    ASSUME Typed, Verdicts, Depth > 0, InClone(Top), NEW g \in Frame, Ended(Top, state, g),
           Resume(g), state' = Top.outer, UNCHANGED <<nodes, tables, seen, taken>>
    PROVE  Verdicts'
<1>1. Top.pending \in Seq(ExecutionState) /\ state \in ExecutionState
      /\ Top.resume \in {"switch", "select"}
  BY TopType, FrameFields DEF Typed, TypeOK
<1>2. ~InClone(g)
  BY <1>1 DEF Ended, InClone
<1>3. g.pending = Append(Top.pending, state)
  BY DEF Ended
<1>4. FrameMaps(g) = {Top.pending[j].reach : j \in DOMAIN Top.pending} \cup {state.reach}
  BY <1>1, <1>2, <1>3, PendingMaps DEF FrameMaps
<1>5. FrameMaps(Top) = {Top.pending[j].reach : j \in DOMAIN Top.pending} \cup {state'.reach}
  BY DEF FrameMaps
<1>6. {state'.reach} \cup FrameMaps(g) = {state.reach} \cup FrameMaps(Top)
  BY <1>4, <1>5
<1>7. QED
  BY <1>6, ResumeVerdicts

\* The else branch.
LEMMA BeginElseVerdicts ==
    ASSUME Typed, Exact, Verdicts, BeginElse
    PROVE  Verdicts'
<1> DEFINE g == [Top EXCEPT !.kind = "default", !.pending = <<state>>]
<1>1. /\ Depth > 0 /\ Top.kind = "then" /\ state' = Top.outer
      /\ Resume(g) /\ UNCHANGED <<status, counters, statements, packets>>
  BY DEF BeginElse, In
<1>2. Top \in Frame /\ state \in ExecutionState
  BY <1>1, TopType DEF Typed, TypeOK
<1>3. <<state>> \in Seq(ExecutionState)
  BY <1>2
<1>4. g \in Frame
  BY <1>2, <1>3 DEF Frame, Kinds
<1>5. Top.pending = <<>>
  BY <1>1, TopExact DEF FrameExact, Progress
<1>6. Ended(Top, state, g)
  BY <1>2, <1>5 DEF Frame, Ended
<1> HIDE DEF g
<1>7. QED
  BY <1>1, <1>4, <1>6, EndBranchVerdicts DEF InClone, counters, packets

\* The end of a case.
LEMMA EndCaseVerdicts ==
    ASSUME Typed, Verdicts, EndCase
    PROVE  Verdicts'
<1> DEFINE g == [Top EXCEPT !.kind = Top.resume, !.pending = Append(@, state)]
<1>1. /\ Depth > 0 /\ Top.kind = "case" /\ state' = Top.outer
      /\ Resume(g) /\ UNCHANGED <<status, counters, statements, packets>>
  BY DEF EndCase, In
<1>2. Top \in Frame /\ state \in ExecutionState
  BY <1>1, TopType DEF Typed, TypeOK
<1>3. Append(Top.pending, state) \in Seq(ExecutionState) /\ Top.resume \in Kinds
  BY <1>2, FrameFields, AppendProperties DEF Kinds
<1>4. g \in Frame
  BY <1>2, <1>3 DEF Frame
<1>5. Ended(Top, state, g)
  BY <1>1, <1>2 DEF Frame, Ended
<1> HIDE DEF g
<1>6. QED
  BY <1>1, <1>4, <1>5, EndBranchVerdicts DEF InClone, counters, packets

\* The default case.
LEMMA BeginDefaultVerdicts ==
    ASSUME Typed, Verdicts, BeginDefault
    PROVE  Verdicts'
<1> DEFINE g == [Top EXCEPT !.kind = "default"]
<1>1. /\ Depth > 0 /\ Top.kind \in {"switch", "select"} /\ Resume(g)
      /\ UNCHANGED <<state, status, counters, statements, active, packets>>
  BY DEF BeginDefault, In
<1>2. Top \in Frame
  BY <1>1, TopType DEF Typed, TypeOK
<1>3. g \in Frame
  BY <1>2 DEF Frame, Kinds
<1>4. g.kind = "default" /\ g.pending = Top.pending
  BY <1>2 DEF Frame
<1> HIDE DEF g
<1>5. FrameMaps(g) = FrameMaps(Top)
  BY <1>1, <1>4 DEF FrameMaps, InClone
<1>6. QED
  BY <1>1, <1>3, <1>5, ResumeVerdicts DEF counters, packets

\* A select case: the state is cloned.
LEMMA SelectCaseVerdicts ==
    ASSUME Typed, Verdicts, In({"select"}), NEW match, NEW matched,
           SelectCase(match, matched), UNCHANGED <<nodes, tables, seen, taken>>
    PROVE  Verdicts'
<1> DEFINE g == [Top EXCEPT !.kind = "case", !.outer = state, !.notCond = @ \ match,
                            !.left = @ \ matched]
<1>1. /\ Depth > 0 /\ Top.kind = "select"
      /\ state' = PushExecutionCondition(state, Top.notCond \cap match)
      /\ Resume(g)
  BY DEF SelectCase, SelectState, In
<1>2. /\ Top \in Frame /\ state \in ExecutionState
      /\ Top.notCond \subseteq Valuations /\ Top.left \subseteq Valuations
  BY <1>1, TopType, FrameFields DEF Typed, TypeOK
<1>3. state'.reach = state.reach
  BY <1>1, <1>2 DEF PushExecutionCondition, ExecutionState
<1>4. g \in Frame
  BY <1>2 DEF Frame, Kinds
<1>5. g.kind = "case" /\ g.pending = Top.pending /\ g.outer = state
  BY <1>2 DEF Frame
<1> HIDE DEF g
<1>6. FrameMaps(g) = FrameMaps(Top) \cup {state.reach}
  BY <1>1, <1>5 DEF FrameMaps, InClone
<1>7. {state'.reach} \cup FrameMaps(g) = {state.reach} \cup FrameMaps(Top)
  BY <1>3, <1>6
<1>8. QED
  BY <1>1, <1>4, <1>7, ResumeVerdicts

\* Merging: a node has a condition afterwards if it had one in either map.
LEMMA MergeVerdicts ==
    ASSUME Typed, Verdicts, MergeNext
    PROVE  Verdicts'
<1> DEFINE g == [Top EXCEPT !.kind = "merge", !.pending = Tail(@)]
           head == Head(Top.pending)
           n == Len(Top.pending)
<1>1. /\ Depth > 0 /\ Top.kind \in {"default", "switch", "select", "merge"}
      /\ Top.pending # <<>> /\ state' = Merge(state, head) /\ Resume(g)
      /\ UNCHANGED <<status, counters, statements, active, packets>>
  BY DEF MergeNext, In
<1>2. Top \in Frame /\ Top.pending \in Seq(ExecutionState)
  BY <1>1, TopType, FrameFields DEF Typed, TypeOK
<1>3. /\ Tail(Top.pending) \in Seq(ExecutionState)
      /\ n \in Nat \ {0} /\ DOMAIN Top.pending = 1..n /\ head = Top.pending[1]
  BY <1>1, <1>2, HeadTailProperties, EmptySeq, LenProperties
<1>4. g \in Frame
  BY <1>2, <1>3 DEF Frame, Kinds
<1>5. g.kind = "merge" /\ g.pending = Tail(Top.pending)
  BY <1>2 DEF Frame
<1>6. /\ DOMAIN g.pending = 1..(n - 1)
      /\ \A j \in 1..(n - 1) : g.pending[j] = Top.pending[j + 1]
  BY <1>1, <1>2, <1>3, <1>5, HeadTailProperties, LenProperties
<1>7. state'.reach = MergeAnnotationMapping(state.reach, head.reach)
  BY <1>1 DEF Merge
<1> HIDE DEF g, head, n
<1>8. \A k \in Nodes : state'.reach[k] = IF state.reach[k] = {} THEN head.reach[k]
                                         ELSE state.reach[k]
  BY <1>7 DEF MergeAnnotationMapping
<1>9. FrameMaps(Top) = FrameMaps(g) \cup {head.reach}
  <2>1. \A m : m \in FrameMaps(Top) <=> \E j \in 1..n : m = Top.pending[j].reach
    BY <1>1, <1>3 DEF FrameMaps, InClone
  <2>2. \A m : m \in FrameMaps(g) <=> \E j \in 1..(n - 1) : m = Top.pending[j + 1].reach
    BY <1>5, <1>6 DEF FrameMaps, InClone
  <2>3. \A j \in 1..(n - 1) : j + 1 \in 1..n
    BY <1>3
  <2>4. \A j \in 1..n : j = 1 \/ (j - 1 \in 1..(n - 1) /\ (j - 1) + 1 = j)
    BY <1>3
  <2>5. 1 \in 1..n
    BY <1>3
  <2>6. \A m : (\E j \in 1..n : m = Top.pending[j].reach)
                  <=> m = head.reach \/ \E j \in 1..(n - 1) : m = Top.pending[j + 1].reach
    BY <1>3, <2>3, <2>4, <2>5
  <2>7. QED
    BY <2>1, <2>2, <2>6
<1>10. PICK others : /\ Maps = {state.reach} \cup others \cup FrameMaps(Top)
                     /\ Maps' = {state'.reach} \cup others \cup FrameMaps(g)
  BY <1>1, <1>4, ResumeMaps
<1>11. ASSUME NEW m2 \in Maps', NEW k \in Nodes
       PROVE  \E m \in Maps : m2[k] = m[k]
  BY <1>8, <1>9, <1>10
<1>12. ASSUME NEW m \in Maps, NEW k \in Nodes, m[k] # {}
       PROVE  \E m2 \in Maps' : m2[k] # {}
  <2>1. CASE m \in {state.reach, head.reach}
    BY <1>8, <1>10, <1>12, <2>1
  <2>2. CASE m \notin {state.reach, head.reach}
    BY <1>9, <1>10, <1>12, <2>2
  <2>3. QED
    BY <2>1, <2>2
<1>13. QED
  BY <1>1, <1>11, <1>12, VerdictsKept DEF counters, packets

\* Leaving: nothing is left to be merged.
LEMMA LeaveVerdicts ==
    ASSUME Typed, Verdicts, Leave
    PROVE  Verdicts'
<1>1. /\ Depth > 0 /\ frames' = SubSeq(frames, 1, Depth - 1)
      /\ Top.kind \in {"default", "switch", "select", "merge"} /\ Top.pending = <<>>
      /\ UNCHANGED <<state, status, counters, statements, packets>>
  BY DEF Leave, In
<1>2. FrameMaps(Top) = {}
  BY <1>1 DEF FrameMaps, InClone
<1>3. Maps' = Maps
  BY <1>1, <1>2, LeaveMaps
<1>4. QED
  BY <1>1, <1>3, VerdictsKept DEF counters, packets

\* switch and select statements: no map is added.
LEMMA OpenCasesVerdicts ==
    ASSUME Typed, Verdicts, NEW x \in Tests, NEW kind \in {"switch", "select"},
           OpenCases(kind, x)
    PROVE  Verdicts'
<1> DEFINE asked == [v \in Valuations |-> memory[v][x]]
           f     == NewFrame(kind, state, state.env[x], asked, active)
<1>1. /\ frames' = Append(frames, f)
      /\ UNCHANGED <<state, status, symbols, header, nodes, tables, target, active, memory,
                     extracted, ended, seen, taken>>
  BY DEF OpenCases, Enter, counters, packets
<1>2. x \in Readable /\ active \in SUBSET Valuations
  BY LocationsType DEF Typed, TypeOK
<1>3. f \in Frame
  BY <1>2, AskedType, NewFrameType DEF Typed, TypeOK
<1>4. f.kind = kind /\ f.pending = <<>>
  BY DEF NewFrame
<1> HIDE DEF f
<1>5. FrameMaps(f) = {}
  BY <1>4 DEF FrameMaps, InClone
<1>6. \A m : m \in Maps' <=> m = state.reach \/ \E i \in 1..Depth : m \in FrameMaps(frames[i])
  BY <1>1, <1>3, <1>5, EnterMaps
<1>7. Maps' = Maps
  BY <1>6, MapsMember
<1>8. QED
  BY <1>1, <1>7, VerdictsKept

-----------------------------------------------------------------------------
(* Verdicts: visits.                                                        *)

\* addReachabilityMapping: the condition of a node that had none.
LEMMA MappingReach ==
    ASSUME NEW st \in ExecutionState, NEW n \in Nodes, NEW c, st.reach[n] = {}
    PROVE  /\ AddReachabilityMapping(st, n, c).reach[n] = {st.cond \cap c}
           /\ \A k \in Nodes : k # n =>
                 AddReachabilityMapping(st, n, c).reach[k] = st.reach[k]
  BY DEF AddReachabilityMapping, ExecutionState

\* if: the condition of the node holds for the packets that find it true.
LEMMA OpenIfVerdicts ==
    ASSUME Typed, Exact, Verdicts, NEW x \in Tests, OpenIf(x)
    PROVE  Verdicts'
<1> DEFINE cond   == Holds(state.env[x])
           node   == nodes + 1
           mapped == AddReachabilityMapping(state, node, cond)
           true   == {v \in active : memory[v][x] = 1}
           asked  == [v \in Valuations |-> memory[v][x]]
           left   == active \ true
           f      == NewFrame("then", mapped, state.env[x], asked, left)
<1>1. /\ nodes < MaxNodes /\ nodes' = node
      /\ state' = PushExecutionCondition(mapped, cond)
      /\ frames' = Append(frames, f)
      /\ Visit(node, Live, true)
      /\ UNCHANGED <<status, symbols, header, tables, target, memory, extracted, ended>>
  BY DEF OpenIf, Enter
<1>2. x \in Readable /\ active \subseteq Valuations
  BY LocationsType DEF Typed, TypeOK
<1>3. /\ asked \in [Valuations -> Values] /\ state.env[x] \in Symbolic
      /\ state \in ExecutionState /\ left \in SUBSET Valuations
  BY <1>2, AskedType
<1>4. \A v \in Live : v \in state.cond /\ (v \in true <=> v \in cond)
  BY <1>2 DEF Exact, Describes, Holds, Live
<1>5. /\ node \in Nodes /\ ~Visited(node)
      /\ \A n \in Nodes : Visited(n)' <=> Visited(n) \/ n = node
  BY <1>1, InterpreterAssumption DEF Nodes, Visited, Typed, TypeOK
<1>6. mapped \in ExecutionState
  BY <1>3, MappingShape
<1>7. state'.reach = mapped.reach
  BY <1>1, <1>6 DEF PushExecutionCondition, ExecutionState
<1>8. f \in Frame
  BY <1>2, <1>3, <1>6, NewFrameType
<1>9. f.kind = "then" /\ f.outer = mapped /\ f.pending = <<>>
  BY DEF NewFrame
<1>10. seen[node] = {} /\ taken[node] = {} /\ state.reach[node] = {}
  BY <1>5 DEF Verdicts, Maps
<1>11. /\ mapped.reach[node] = {state.cond \cap cond}
       /\ \A n \in Nodes : n # node => mapped.reach[n] = state.reach[n]
  <2> HIDE DEF node, cond
  <2>1. /\ AddReachabilityMapping(state, node, cond).reach[node] = {state.cond \cap cond}
        /\ \A n \in Nodes : n # node =>
              AddReachabilityMapping(state, node, cond).reach[n] = state.reach[n]
    BY <1>3, <1>5, <1>10, MappingReach
  <2>2. QED
    BY <2>1
<1>12. /\ seen'[node] = Live /\ taken'[node] = Live \cap true
       /\ \A n \in Nodes : n # node => seen'[n] = seen[n] /\ taken'[n] = taken[n]
  BY <1>1, <1>5, <1>10 DEF Visit, Typed, TypeOK
<1> HIDE DEF f, mapped, cond, true, node, asked
<1>13. FrameMaps(f) = {mapped.reach}
  BY <1>9 DEF FrameMaps, InClone
<1>14. \A m : m \in Maps' <=> m = mapped.reach
                              \/ \E i \in 1..Depth : m \in FrameMaps(frames[i])
  BY <1>1, <1>7, <1>8, <1>13, EnterMaps
<1>15. mapped.reach[node] # {} /\ Right(mapped.reach[node], seen'[node], taken'[node])
  BY <1>4, <1>11, <1>12 DEF Right
<1> DEFINE N == {node}
           m0 == mapped.reach
<1>16. /\ m0 \in Maps' /\ (\A m2 \in Maps' : m2 = m0 \/ m2 \in Maps)
       /\ \A m \in Maps : m = state.reach \/ m \in Maps'
  BY <1>14, MapsMember
<1>17. /\ N \in SUBSET Nodes /\ (\A n \in N : ~Visited(n))
       /\ \A n \in Nodes : Visited(n)' <=> (Visited(n) \/ n \in N)
  BY <1>5
<1>18. /\ \A n \in Nodes : n \notin N =>
             m0[n] = state.reach[n] /\ seen'[n] = seen[n] /\ taken'[n] = taken[n]
       /\ \A n \in N : m0[n] # {} /\ Right(m0[n], seen'[n], taken'[n])
  BY <1>11, <1>12, <1>15
<1> HIDE DEF N, m0
<1>19. QED
  BY <1>16, <1>17, <1>18, VerdictsVisited

\* The sizes of sets of switch labels.
LEMMA LabelsSize ==
    ASSUME NEW labels \in SUBSET Values
    PROVE  Cardinality(labels) = (IF 0 \in labels THEN 1 ELSE 0) + (IF 1 \in labels THEN 1 ELSE 0)
<1>1. /\ Cardinality({}) = 0
      /\ IsFiniteSet({0}) /\ Cardinality({0}) = 1 /\ Cardinality({1}) = 1
  BY FS_EmptySet, FS_Singleton, Zenon
<1>2. Cardinality({0} \cup {1}) = Cardinality({0}) + 1
  <2>1. 1 \notin {0}
    OBVIOUS
  <2>2. Cardinality({0} \cup {1}) = IF 1 \in {0} THEN Cardinality({0}) ELSE Cardinality({0}) + 1
    BY <1>1, FS_AddElement, Zenon
  <2>3. QED
    BY <2>1, <2>2
<1>3. labels = IF 0 \in labels THEN IF 1 \in labels THEN {0} \cup {1} ELSE {0}
               ELSE IF 1 \in labels THEN {1} ELSE {}
  BY DEF Values
<1>4. CASE 0 \in labels /\ 1 \in labels
  <2>1. labels = {0} \cup {1}
    BY <1>3, <1>4
  <2>2. Cardinality(labels) = 2
    BY <1>1, <1>2, <2>1
  <2>3. QED
    BY <1>4, <2>2
<1>5. CASE 0 \in labels /\ 1 \notin labels
  <2>1. labels = {0}
    BY <1>3, <1>5
  <2>2. Cardinality(labels) = 1
    BY <1>1, <2>1
  <2>3. QED
    BY <1>5, <2>2
<1>6. CASE 0 \notin labels /\ 1 \in labels
  <2>1. labels = {1}
    BY <1>3, <1>6
  <2>2. Cardinality(labels) = 1
    BY <1>1, <2>1
  <2>3. QED
    BY <1>6, <2>2
<1>7. CASE 0 \notin labels /\ 1 \notin labels
  <2>1. labels = {}
    BY <1>3, <1>7
  <2>2. Cardinality(labels) = 0
    BY <1>1, <2>1
  <2>3. QED
    BY <1>7, <2>2
<1>8. QED
  BY <1>4, <1>5, <1>6, <1>7

\* Every switch label has a node of its own, among the new ones.
LEMMA LabelNodes ==
    ASSUME NEW labels \in SUBSET Values, nodes \in Nat
    PROVE  /\ \A l \in labels : LabelNode(labels, l) \in (nodes + 1)..(nodes + Cardinality(labels))
           /\ \A n \in (nodes + 1)..(nodes + Cardinality(labels)) :
                 \E l \in labels : LabelNode(labels, l) = n
           /\ \A k, l \in labels : LabelNode(labels, k) = LabelNode(labels, l) => k = l
<1> DEFINE zero == IF 0 \in labels THEN 1 ELSE 0
           one  == IF 1 \in labels THEN 1 ELSE 0
<1>1. Cardinality(labels) = zero + one
  BY LabelsSize
<1>0. /\ \A k \in labels : k = 0 \/ k = 1
      /\ ~(0 < 0) /\ ~(1 < 0) /\ 0 < 1 /\ ~(1 < 1)
  BY DEF Values
<1>2. LabelNode(labels, 0) = nodes + 1
  <2>1. {k \in labels : k < 0} = {}
    BY <1>0, Zenon
  <2>2. Cardinality({k \in labels : k < 0}) = 0
    BY <2>1, FS_EmptySet, Zenon
  <2>3. QED
    BY <2>2 DEF LabelNode
<1>3. LabelNode(labels, 1) = nodes + 1 + zero
  <2> DEFINE low == {k \in labels : k < 1}
  <2>1. low \in SUBSET Values /\ 1 \notin low /\ (0 \in low <=> 0 \in labels)
    BY <1>0, Zenon
  <2> HIDE DEF low
  <2>2. Cardinality(low) = zero
    BY <2>1, LabelsSize
  <2>3. QED
    BY <2>2 DEF LabelNode, low
<1>4. /\ \A l \in labels : (l = 0 /\ zero = 1) \/ (l = 1 /\ one = 1)
      /\ zero = 1 => 0 \in labels
      /\ one = 1 => 1 \in labels
      /\ zero \in {0, 1} /\ one \in {0, 1}
  BY DEF Values
<1> HIDE DEF zero, one
<1>5. QED
  BY <1>1, <1>2, <1>3, <1>4

\* switch: the condition of a label holds for the packets with this value.
LEMMA SwitchCaseVerdicts ==
    ASSUME Typed, Exact, Verdicts, NEW labels \in SUBSET Values, BeginSwitchCase(labels)
    PROVE  Verdicts'
<1> DEFINE equal(l) == {v \in Valuations : Top.key[v] = l}
           asked(l) == {v \in Top.all : Top.asked[v] = l}
           label(n) == {l \in labels : LabelNode(labels, l) = n}
           reach == [n \in Nodes |-> IF label(n) = {} THEN state.reach[n]
                                     ELSE {state.cond \cap equal(l) : l \in label(n)}]
           mapped == [state EXCEPT !.reach = reach]
           match == UNION {equal(l) : l \in labels}
           matched == UNION {asked(l) : l \in labels}
           g == [Top EXCEPT !.kind = "case", !.outer = mapped,
                            !.labels = @ \cup labels, !.left = @ \ matched]
           N == {n \in Nodes : label(n) # {}}
<1>1. /\ Depth > 0 /\ Top.kind = "switch"
      /\ nodes' = nodes + Cardinality(labels) /\ nodes' <= MaxNodes
      /\ state' = PushExecutionCondition(mapped, match)
      /\ Resume(g)
      /\ UNCHANGED <<status, symbols, header, tables, target, memory, extracted, ended>>
      /\ seen' = [n \in Nodes |-> IF label(n) = {} THEN seen[n] ELSE Top.all \ ended]
      /\ taken' = [n \in Nodes |-> IF label(n) = {} THEN taken[n]
                                   ELSE (UNION {asked(l) : l \in label(n)}) \ ended]
  BY DEF BeginSwitchCase, In
<1>2. /\ Top \in Frame /\ state \in ExecutionState /\ Top.all \subseteq Valuations
      /\ Top.labels \subseteq Values /\ Top.left \subseteq Valuations
      /\ nodes \in Nat
  BY <1>1, TopType, FrameFields DEF Typed, TypeOK
<1>3. reach \in [Nodes -> SUBSET SUBSET Valuations]
  BY <1>2, StateFields
<1>4. /\ mapped \in ExecutionState /\ mapped.reach = reach
  BY <1>2, <1>3 DEF ExecutionState
<1>5. state'.reach = reach
  BY <1>1, <1>4 DEF PushExecutionCondition, ExecutionState
<1>6. g \in Frame
  BY <1>2, <1>4 DEF Frame, Kinds
<1>7. g.kind = "case" /\ g.pending = Top.pending /\ g.outer = mapped
  BY <1>2 DEF Frame
<1>8. /\ FrameExact(Top, active, state.cond, state, memory, ended)
  BY <1>1, TopExact
<1>9. ASSUME NEW v \in Top.all \ ended
      PROVE  v \in Valuations /\ v \in state.cond /\ Top.key[v] = Top.asked[v]
  BY <1>1, <1>2, <1>8 DEF FrameExact, Divided, Recorded, InClone
<1>10. \A n \in Nodes : n \notin N =>
          reach[n] = state.reach[n] /\ seen'[n] = seen[n] /\ taken'[n] = taken[n]
  BY <1>1
<1>11. ASSUME NEW n \in N
       PROVE  reach[n] # {} /\ Right(reach[n], seen'[n], taken'[n])
  <2>1. PICK l \in labels : LabelNode(labels, l) = n
    OBVIOUS
  <2>2. label(n) = {l}
    BY <1>2, <2>1, LabelNodes
  <2>3. reach[n] = {state.cond \cap equal(l)}
    BY <2>2
  <2>4. seen'[n] = Top.all \ ended /\ taken'[n] = asked(l) \ ended
    <3> HIDE DEF asked
    <3>1. n \in Nodes /\ label(n) # {}
      BY <2>2
    <3>2. seen'[n] = Top.all \ ended
      BY <1>1, <3>1
    <3>3. taken'[n] = (UNION {asked(k) : k \in label(n)}) \ ended
      BY <1>1, <3>1, Zenon
    <3> HIDE DEF label
    <3>4. UNION {asked(k) : k \in label(n)} = asked(l)
      BY <2>2
    <3>5. QED
      BY <3>2, <3>3, <3>4, Zenon
  <2>5. \A v \in Top.all \ ended : v \in state.cond \cap equal(l) <=> v \in asked(l) \ ended
    BY <1>9
  <2> HIDE DEF equal, asked, reach, label
  <2>6. QED
    BY <2>3, <2>4, <2>5 DEF Right
<1>12. \A n \in Nodes : n \in N <=> n > nodes /\ n <= nodes'
  <2>1. Cardinality(labels) \in Nat
    BY LabelsSize
  <2>2. \A n \in Nodes : n \in (nodes + 1)..(nodes + Cardinality(labels))
                            <=> n > nodes /\ n <= nodes'
    BY <1>1, <1>2, <2>1 DEF Nodes
  <2>3. QED
    BY <1>2, <2>2, LabelNodes
<1> HIDE DEF g, mapped, reach, N
<1>13. /\ \A n \in N : ~Visited(n)
       /\ \A n \in Nodes : Visited(n)' <=> (Visited(n) \/ n \in N)
  <2>1. nodes <= nodes' /\ nodes' \in Nat
    BY <1>1, <1>2, LabelsSize
  <2>2. N \subseteq Nodes
    BY DEF N
  <2>3. QED
    BY <1>1, <1>2, <1>12, <2>1, <2>2, InterpreterAssumption DEF Visited, Nodes
<1>14. FrameMaps(g) = FrameMaps(Top) \cup {reach}
  BY <1>1, <1>4, <1>7 DEF FrameMaps, InClone
<1>15. PICK others : /\ Maps = {state.reach} \cup others \cup FrameMaps(Top)
                     /\ Maps' = {state'.reach} \cup others \cup FrameMaps(g)
  BY <1>1, <1>6, ResumeMaps
<1>16. /\ reach \in Maps' /\ (\A m2 \in Maps' : m2 = reach \/ m2 \in Maps)
       /\ \A m \in Maps : m = state.reach \/ m \in Maps'
  BY <1>5, <1>14, <1>15
<1>17. N \in SUBSET Nodes
  BY DEF N
<1>18. QED
  BY <1>10, <1>11, <1>13, <1>16, <1>17, VerdictsVisited

-----------------------------------------------------------------------------
(* Verdicts: tables.                                                        *)

\* The nodes of a table are different from each other and from those of branches.
LEMMA TableNodes ==
    /\ \A a \in Acts : ActNode(a) \in Nodes /\ BodyNode(a) \in Nodes
    /\ \A a \in Acts : ActNode(a) > MaxNodes /\ BodyNode(a) > MaxNodes
    /\ \A a, b \in Acts : ActNode(a) # BodyNode(b)
    /\ \A a, b \in Acts : ActNode(a) = ActNode(b) \/ BodyNode(a) = BodyNode(b) => a = b
    /\ \A n \in Nodes : n > MaxNodes => \E a \in Acts : n = ActNode(a) \/ n = BodyNode(a)
  BY InterpreterAssumption DEF ActNode, BodyNode, Nodes, Acts

\* The packets for which the test of action a is true, with parameter arg.
BodyTest(st, shape, a, arg) ==
    {v \in Valuations : Bound(st, arg, v, shape.body[a].test) = 1}

\* callAction: the condition of the statement in the body.
LEMMA CallActionReach ==
    ASSUME NEW st \in ExecutionState, NEW shape \in Shapes, NEW a \in Acts,
           NEW arg \in Symbolic, st.reach[BodyNode(a)] = {}
    PROVE  /\ CallAction(st, shape, a, arg).reach[BodyNode(a)]
                = {st.cond \cap BodyTest(st, shape, a, arg)}
           /\ \A k \in Nodes : k # BodyNode(a) =>
                 CallAction(st, shape, a, arg).reach[k] = st.reach[k]
<1> DEFINE body   == shape.body[a]
           bound  == SetVar(st, Param, arg)
           test   == Holds(bound.env[body.test])
           node   == BodyNode(a)
           mapped == AddReachabilityMapping(bound, node, test)
           pushed == PushExecutionCondition(mapped, test)
           then   == SetVar(pushed, body.dst, mapped.env[body.src])
<1>1. /\ body.test \in Locations /\ Param \in Locations /\ node \in Nodes
  BY ShapeType, LocationsType, TableNodes
<1>2. /\ bound \in ExecutionState /\ bound.cond = st.cond /\ bound.reach = st.reach
      /\ \A l \in Locations : \A v : bound.env[l][v] = Bound(st, arg, v, l)
  BY <1>1, SetVarShape DEF Bound
<1> HIDE DEF bound, body
<1>3. \A v \in Valuations : v \in test <=> v \in BodyTest(st, shape, a, arg)
  BY <1>1, <1>2 DEF Holds, BodyTest, body
<1>4. bound.cond \cap test = st.cond \cap BodyTest(st, shape, a, arg)
  BY <1>2, <1>3, StateFields
<1> HIDE DEF test, node
<1>5. bound.reach[node] = {}
  BY <1>2 DEF node
<1>6. /\ mapped.reach[node] = {bound.cond \cap test}
      /\ \A k \in Nodes : k # node => mapped.reach[k] = bound.reach[k]
  BY <1>1, <1>2, <1>5, MappingReach
<1>7. mapped \in ExecutionState
  BY <1>2, MappingShape
<1> HIDE DEF mapped
<1>8. pushed.reach = mapped.reach /\ "reach" \in DOMAIN pushed
  BY <1>7 DEF PushExecutionCondition, ExecutionState
<1> HIDE DEF pushed
<1>9. then.reach = mapped.reach
  BY <1>8, SetVarReach
<1> HIDE DEF then
<1>10. CallAction(st, shape, a, arg) = Merge(mapped, then)
  BY DEF CallAction, bound, mapped, then, pushed, body, test, node
<1>11. \A k \in Nodes : Merge(mapped, then).reach[k] = mapped.reach[k]
  BY <1>9 DEF Merge, MergeAnnotationMapping
<1>12. QED
  BY <1>1, <1>2, <1>4, <1>6, <1>10, <1>11 DEF node

\* The reachability map m after one action: its node is mapped, and the one in its
\* body unless that has a condition.
ActionReach(m, st, reference, shape, a, s) ==
    /\ m[ActNode(a)] = {st.cond \cap ActionHit(shape, a, s)}
    /\ m[BodyNode(a)] = IF st.reach[BodyNode(a)] # {} THEN st.reach[BodyNode(a)]
                        ELSE {reference.cond \cap ActionHit(shape, a, s)
                                \cap BodyTest(reference, shape, a, Symbol(s + 2))}
    /\ \A k \in Nodes : k # ActNode(a) /\ k # BodyNode(a) =>
          m[k] = IF st.reach[k] = {} THEN reference.reach[k] ELSE st.reach[k]

\* One turn of the loop of processTableActionOptions.
LEMMA ProcessActionReach ==
    ASSUME NEW st \in ExecutionState, NEW reference \in ExecutionState,
           NEW shape \in Shapes, NEW a \in Acts, NEW s, Symbol(s + 2) \in Symbolic,
           st.reach[ActNode(a)] = {}, reference.reach[BodyNode(a)] = {}
    PROVE  ActionReach(ProcessAction(st, reference, shape, a, s).reach,
                       st, reference, shape, a, s)
<1> DEFINE hit    == ActionHit(shape, a, s)
           arg    == Symbol(s + 2)
           act    == ActNode(a)
           node   == BodyNode(a)
           mapped == AddReachabilityMapping(st, act, hit)
           pushed == PushExecutionCondition(reference, hit)
           called == CallAction(pushed, shape, a, arg)
<1>1. act \in Nodes /\ node \in Nodes /\ act # node
  BY TableNodes
<1> HIDE DEF hit, arg, act
<1>2. st.reach[act] = {}
  BY DEF act
<1>3. /\ mapped.reach[act] = {st.cond \cap hit}
      /\ \A k \in Nodes : k # act => mapped.reach[k] = st.reach[k]
  BY <1>1, <1>2, MappingReach
<1>4. /\ pushed \in ExecutionState /\ pushed.cond = reference.cond \cap hit
      /\ pushed.env = reference.env /\ pushed.reach = reference.reach
  BY PushShape DEF PushExecutionCondition, ExecutionState
<1> HIDE DEF mapped, pushed
<1>5. BodyTest(pushed, shape, a, arg) = BodyTest(reference, shape, a, arg)
  BY <1>4 DEF BodyTest, Bound
<1>6. /\ called.reach[node] = {pushed.cond \cap BodyTest(pushed, shape, a, arg)}
      /\ \A k \in Nodes : k # node => called.reach[k] = pushed.reach[k]
  BY <1>4, CallActionReach DEF arg
<1> HIDE DEF called
<1>7. ProcessAction(st, reference, shape, a, s) = Merge(mapped, called)
  BY DEF ProcessAction, mapped, called, pushed, hit, arg, act
<1>8. \A k \in Nodes : Merge(mapped, called).reach[k]
                         = IF mapped.reach[k] = {} THEN called.reach[k] ELSE mapped.reach[k]
  BY DEF Merge, MergeAnnotationMapping
<1> HIDE DEF node
<1>9. /\ Merge(mapped, called).reach[act] = {st.cond \cap hit}
      /\ Merge(mapped, called).reach[node]
           = IF st.reach[node] # {} THEN st.reach[node]
             ELSE {(reference.cond \cap hit) \cap BodyTest(reference, shape, a, arg)}
      /\ \A k \in Nodes : k # act /\ k # node =>
            Merge(mapped, called).reach[k]
              = IF st.reach[k] = {} THEN reference.reach[k] ELSE st.reach[k]
  BY <1>1, <1>3, <1>4, <1>5, <1>6, <1>8
<1>10. QED
  BY <1>7, <1>9 DEF act, node, hit, arg, ActionReach

\* The reachability map m after a table.  The node in the body of the default action
\* of the program keeps the condition under which the program calls it.
TableReach(m, st, shape, s) ==
    /\ \A a \in Acts :
          /\ m[ActNode(a)] = {st.cond \cap ActionHit(shape, a, s)}
          /\ m[BodyNode(a)]
                = IF a = shape.default
                  THEN {st.cond \cap BodyTest(st, shape, a, Constant(shape.defaultArg))}
                  ELSE {st.cond \cap ActionHit(shape, a, s)
                          \cap BodyTest(st, shape, a, Symbol(s + 2))}
    /\ \A n \in Nodes : n <= MaxNodes => m[n] = st.reach[n]

\* processTable: the default action, then every action.
LEMMA ProcessTableReach ==
    ASSUME NEW st \in ExecutionState, NEW shape \in Shapes, NEW s \in 1..MaxSymbols,
           s + 2 \in 1..MaxSymbols, \A n \in Nodes : n > MaxNodes => st.reach[n] = {}
    PROVE  TableReach(ProcessTable(st, shape, s).reach, st, shape, s)
<1> DEFINE arg    == Constant(shape.defaultArg)
           def    == shape.default
           first  == CallAction(st, shape, def, arg)
           second == ProcessAction(first, st, shape, 0, s)
           third  == ProcessAction(second, st, shape, 1, s)
           body(a) == {st.cond \cap ActionHit(shape, a, s)
                         \cap BodyTest(st, shape, a, Symbol(s + 2))}
<1>1. /\ arg \in Symbolic /\ Symbol(s + 2) \in Symbolic /\ def \in Acts
      /\ 0 \in Acts /\ 1 \in Acts /\ (\A a \in Acts : a = 0 \/ a = 1)
  BY SymbolicType, ShapeType DEF Acts
<1>2. ProcessTable(st, shape, s) = third
  BY DEF ProcessTable
<1>3. \A a \in Acts : st.reach[ActNode(a)] = {} /\ st.reach[BodyNode(a)] = {}
  BY TableNodes
<1> HIDE DEF arg, def
<1>4. /\ first.reach[BodyNode(def)] = {st.cond \cap BodyTest(st, shape, def, arg)}
      /\ \A k \in Nodes : k # BodyNode(def) => first.reach[k] = st.reach[k]
      /\ first \in ExecutionState /\ first.cond = st.cond
  BY <1>1, <1>3, CallActionReach, CallActionShape
<1> HIDE DEF first
<1>5. \A a \in Acts : first.reach[ActNode(a)] = {}
  BY <1>1, <1>3, <1>4, TableNodes
<1>6. /\ second.reach[ActNode(0)] = {first.cond \cap ActionHit(shape, 0, s)}
      /\ second.reach[BodyNode(0)]
           = IF first.reach[BodyNode(0)] # {} THEN first.reach[BodyNode(0)] ELSE body(0)
      /\ \A k \in Nodes : k # ActNode(0) /\ k # BodyNode(0) =>
            second.reach[k] = IF first.reach[k] = {} THEN st.reach[k] ELSE first.reach[k]
      /\ second \in ExecutionState /\ second.cond = first.cond
  <2>1. first.reach[ActNode(0)] = {} /\ st.reach[BodyNode(0)] = {}
    BY <1>1, <1>3, <1>5
  <2>2. second \in ExecutionState /\ second.cond = first.cond
    BY <1>1, <1>4, ProcessActionShape
  <2>3. ActionReach(second.reach, first, st, shape, 0, s)
    BY <1>1, <1>4, <2>1, ProcessActionReach
  <2>4. QED
    BY <2>2, <2>3 DEF ActionReach
<1> HIDE DEF second
<1>7. second.reach[ActNode(1)] = {}
  BY <1>1, <1>3, <1>5, <1>6, TableNodes
<1>8. /\ third.reach[ActNode(1)] = {second.cond \cap ActionHit(shape, 1, s)}
      /\ third.reach[BodyNode(1)]
           = IF second.reach[BodyNode(1)] # {} THEN second.reach[BodyNode(1)] ELSE body(1)
      /\ \A k \in Nodes : k # ActNode(1) /\ k # BodyNode(1) =>
            third.reach[k] = IF second.reach[k] = {} THEN st.reach[k] ELSE second.reach[k]
  <2>1. second \in ExecutionState /\ st.reach[BodyNode(1)] = {}
    BY <1>1, <1>3, <1>6
  <2>2. ActionReach(third.reach, second, st, shape, 1, s)
    BY <1>1, <1>7, <2>1, ProcessActionReach
  <2>3. QED
    BY <2>2 DEF ActionReach
<1> HIDE DEF third
<1>9. \A a : body(a) # {}
  OBVIOUS
<1> HIDE DEF body
<1>10. /\ ActNode(0) \in Nodes /\ ActNode(1) \in Nodes /\ BodyNode(0) \in Nodes
       /\ BodyNode(1) \in Nodes /\ ActNode(0) # ActNode(1) /\ BodyNode(0) # BodyNode(1)
       /\ ActNode(0) # BodyNode(0) /\ ActNode(0) # BodyNode(1)
       /\ ActNode(1) # BodyNode(0) /\ ActNode(1) # BodyNode(1)
  BY <1>1, TableNodes
<1>11. third.reach[ActNode(0)] = {st.cond \cap ActionHit(shape, 0, s)}
  BY <1>4, <1>6, <1>8, <1>10
<1>12. third.reach[ActNode(1)] = {st.cond \cap ActionHit(shape, 1, s)}
  BY <1>4, <1>6, <1>8
<1>13. third.reach[BodyNode(0)] = IF 0 = def THEN {st.cond \cap BodyTest(st, shape, 0, arg)}
                                  ELSE body(0)
  <2>1. second.reach[BodyNode(0)] = IF 0 = def THEN {st.cond \cap BodyTest(st, shape, 0, arg)}
                                    ELSE body(0)
    <3>1. CASE def = 0
      BY <1>4, <1>6, <3>1
    <3>2. CASE def = 1
      BY <1>1, <1>3, <1>4, <1>6, <1>10, <3>2
    <3>3. QED
      BY <1>1, <3>1, <3>2
  <2>2. second.reach[BodyNode(0)] # {}
    BY <1>9, <2>1
  <2>3. QED
    BY <1>8, <1>10, <2>1, <2>2
<1>14. third.reach[BodyNode(1)] = IF 1 = def THEN {st.cond \cap BodyTest(st, shape, 1, arg)}
                                  ELSE body(1)
  <2>1. CASE def = 1
    <3>1. first.reach[BodyNode(1)] = {st.cond \cap BodyTest(st, shape, 1, arg)}
      BY <1>4, <2>1
    <3>2. second.reach[BodyNode(1)] = first.reach[BodyNode(1)]
      BY <1>6, <1>10, <3>1
    <3>3. QED
      BY <1>8, <2>1, <3>1, <3>2
  <2>2. CASE def = 0
    <3>1. first.reach[BodyNode(1)] = {} /\ st.reach[BodyNode(1)] = {}
      BY <1>1, <1>3, <1>4, <1>10, <2>2
    <3>2. second.reach[BodyNode(1)] = {}
      BY <1>6, <1>10, <3>1
    <3>3. QED
      BY <1>8, <2>2, <3>2
  <2>3. QED
    BY <1>1, <2>1, <2>2
<1>15. ASSUME NEW n \in Nodes, n <= MaxNodes
       PROVE  third.reach[n] = st.reach[n]
  <2>1. \A a \in Acts : n # ActNode(a) /\ n # BodyNode(a)
    BY <1>15, TableNodes, InterpreterAssumption DEF Nodes, ActNode, BodyNode, Acts
  <2>2. first.reach[n] = st.reach[n]
    BY <1>1, <1>4, <2>1
  <2>3. second.reach[n] = st.reach[n]
    BY <1>1, <1>6, <2>1, <2>2
  <2>4. QED
    BY <1>1, <1>8, <2>1, <2>3
<1>16. QED
  BY <1>1, <1>2, <1>11, <1>12, <1>13, <1>14, <1>15 DEF body, def, arg, TableReach

\* The test in the body of the action a packet runs, in its memory and in the state.
LEMMA TestExact ==
    ASSUME NEW st \in ExecutionState, NEW shape \in Shapes, NEW s \in 1..MaxSymbols,
           s + 2 \in 1..MaxSymbols, NEW v \in Valuations,
           NEW mem \in [Locations -> Values], \A l \in Readable : st.env[l][v] = mem[l]
    PROVE  RunTable(mem, shape, v, s).test
             <=> Bound(st, IF ByProgram(shape, v, s) THEN Constant(shape.defaultArg)
                           ELSE Symbol(s + 2), v,
                       shape.body[ChosenAction(shape, v, s)].test) = 1
<1> DEFINE a     == ChosenAction(shape, v, s)
           body  == shape.body[a]
           arg   == IF ByProgram(shape, v, s) THEN shape.defaultArg ELSE v[s + 2]
           bound == [mem EXCEPT ![Param] = arg]
           symbolic == IF ByProgram(shape, v, s) THEN Constant(shape.defaultArg)
                       ELSE Symbol(s + 2)
<1>1. a \in Acts
  BY HitConditions
<1>2. symbolic[v] = arg
  BY DEF Constant, Symbol
<1>3. body.test \in Locations
  BY <1>1, ShapeType
<1>4. \A m \in Locations : bound[m] = Bound(st, symbolic, v, m)
  BY <1>2, LocationsType DEF Bound, Readable, Locations
<1>5. RunTable(mem, shape, v, s).test <=> bound[body.test] = 1
  BY DEF RunTable
<1> HIDE DEF bound, symbolic, a, arg
<1>6. bound[body.test] = Bound(st, symbolic, v, body.test)
  BY <1>3, <1>4
<1>7. QED
  BY <1>5, <1>6 DEF symbolic, a

\* The default actions of a program do not test their parameter: the node in the body
\* of a default action keeps the condition under which the program calls it.
FixedDefaults ==
    \A shape \in TableShapes : shape.body[shape.default].test # Param

\* t.apply(): the conditions of the nodes of a table decide about the packets that
\* run its actions.
LEMMA TableVerdicts ==
    ASSUME FixedDefaults, Typed, Exact, Verdicts, NEW shape \in TableShapes,
           NEW dst \in Fields, ApplyTable(shape, dst)
    PROVE  Verdicts'
<1> DEFINE s == symbols + 1
           after == ProcessTable(state, shape, s)
           run(v) == RunTable(memory[v], shape, v, s)
           runs(a) == {v \in Live : ChosenAction(shape, v, s) = a}
           chosen(a) == {v \in runs(a) : ~ByProgram(shape, v, s)}
           hit == Mux(TotalHit(shape, s), Constant(1), Constant(0))
           tested(a) == {v \in runs(a) : run(v).test}
           came(n) == UNION {IF n = ActNode(a) THEN Live
                             ELSE IF n = BodyNode(a) THEN runs(a) ELSE {} : a \in Acts}
           took(n) == UNION {IF n = ActNode(a) THEN chosen(a)
                             ELSE IF n = BodyNode(a) THEN tested(a) ELSE {} : a \in Acts}
           N == {n \in Nodes : n > MaxNodes}
<1>1. /\ tables = 0 /\ symbols + 3 <= MaxSymbols /\ tables' = 1
      /\ state' = SetVar(after, dst, hit)
      /\ UNCHANGED <<frames, status, header, nodes, target, active, extracted, ended>>
  BY DEF ApplyTable
<1>2. /\ seen' = [n \in Nodes |-> seen[n] \cup came(n)]
      /\ taken' = [n \in Nodes |-> taken[n] \cup took(n)]
  BY DEF ApplyTable
<1>3. Live \in SUBSET Valuations /\ state \in ExecutionState /\ memory \in Memories
  BY DEF Live, Typed, TypeOK, Memories
<1>4. s \in 1..MaxSymbols /\ s + 2 \in 1..MaxSymbols
  BY <1>1, InterpreterAssumption DEF Typed, TypeOK
<1>5. shape \in Shapes
  BY InterpreterAssumption
<1>6. \A n \in Nodes : Visited(n) <=> n <= nodes
  BY <1>1 DEF Visited
<1>7. nodes \in Nat /\ nodes <= MaxNodes /\ MaxNodes \in Nat
  BY InterpreterAssumption DEF Typed, TypeOK
<1>8. /\ \A n \in N : ~Visited(n)
      /\ \A n \in Nodes : Visited(n)' <=> (Visited(n) \/ n \in N)
  BY <1>1, <1>6, <1>7 DEF Visited, Nodes
<1>9. \A n \in N : state.reach[n] = {} /\ seen[n] = {} /\ taken[n] = {}
  BY <1>8 DEF Verdicts, Maps
<1> HIDE DEF s, hit
<1>10. /\ \A a \in Acts :
             /\ after.reach[ActNode(a)] = {state.cond \cap ActionHit(shape, a, s)}
             /\ after.reach[BodyNode(a)]
                  = IF a = shape.default
                    THEN {state.cond \cap BodyTest(state, shape, a, Constant(shape.defaultArg))}
                    ELSE {state.cond \cap ActionHit(shape, a, s)
                            \cap BodyTest(state, shape, a, Symbol(s + 2))}
       /\ \A n \in Nodes : n <= MaxNodes => after.reach[n] = state.reach[n]
  <2>1. \A n \in Nodes : n > MaxNodes => state.reach[n] = {}
    BY <1>9
  <2>2. TableReach(after.reach, state, shape, s)
    BY <1>3, <1>4, <1>5, <2>1, ProcessTableReach
  <2>3. QED
    BY <2>2 DEF TableReach
<1>11. after \in ExecutionState
  BY <1>3, <1>4, <1>5, ProcessTableShape
<1> HIDE DEF after
<1>12. state'.reach = after.reach
  BY <1>1, <1>11, SetVarReach DEF ExecutionState
<1>13. ASSUME NEW v \in Live
       PROVE  /\ v \in Valuations /\ v \in state.cond
              /\ \A l \in Readable : state.env[l][v] = memory[v][l]
              /\ memory[v] \in [Locations -> Values]
  BY <1>3 DEF Exact, Describes, Memories
<1>14. ASSUME NEW a \in Acts
       PROVE  Right(after.reach[ActNode(a)], Live, chosen(a))
  <2>1. \A v \in Live : v \in state.cond \cap ActionHit(shape, a, s) <=> v \in chosen(a)
    BY <1>4, <1>5, <1>13, HitConditions
  <2> HIDE DEF chosen
  <2>2. QED
    BY <1>10, <2>1 DEF Right
<1>15. ASSUME NEW a \in Acts
       PROVE  Right(after.reach[BodyNode(a)], runs(a), tested(a))
  <2> DEFINE cond == IF a = shape.default
                     THEN state.cond \cap BodyTest(state, shape, a, Constant(shape.defaultArg))
                     ELSE state.cond \cap ActionHit(shape, a, s)
                            \cap BodyTest(state, shape, a, Symbol(s + 2))
  <2>1. ASSUME NEW v \in runs(a)
        PROVE  v \in cond <=> v \in tested(a)
    <3> DEFINE test == shape.body[a].test
    <3>1. /\ v \in Live /\ ChosenAction(shape, v, s) = a
          /\ v \in tested(a) <=> RunTable(memory[v], shape, v, s).test
      OBVIOUS
    <3>2. v \in Valuations /\ v \in state.cond
      BY <1>13, <3>1
    <3>3. RunTable(memory[v], shape, v, s).test
            <=> Bound(state, IF ByProgram(shape, v, s) THEN Constant(shape.defaultArg)
                             ELSE Symbol(s + 2), v, test) = 1
      BY <1>3, <1>4, <1>5, <1>13, <3>1, TestExact
    <3>4. v \in ActionHit(shape, a, s) <=> ~ByProgram(shape, v, s)
      BY <1>4, <1>5, <3>1, <3>2, HitConditions
    <3>5. CASE a = shape.default
      <4>1. test # Param
        BY <3>5 DEF FixedDefaults
      <4>2. \A f, g : Bound(state, f, v, test) = Bound(state, g, v, test)
        BY <4>1 DEF Bound
      <4>3. v \in cond <=> Bound(state, Constant(shape.defaultArg), v, test) = 1
        BY <3>2, <3>5 DEF BodyTest
      <4> HIDE DEF cond, tested, test
      <4>4. QED
        BY <3>1, <3>3, <4>2, <4>3
    <3>6. CASE a # shape.default
      <4>1. ~ByProgram(shape, v, s)
        BY <3>1, <3>6 DEF ByProgram, ChosenAction
      <4>2. v \in cond <=> Bound(state, Symbol(s + 2), v, test) = 1
        BY <3>2, <3>4, <3>6, <4>1 DEF BodyTest
      <4> HIDE DEF cond, tested, test
      <4>3. QED
        BY <3>1, <3>3, <4>1, <4>2
    <3>7. QED
      BY <3>5, <3>6
  <2>2. after.reach[BodyNode(a)] = {cond}
    BY <1>10
  <2> HIDE DEF cond, runs, tested
  <2>3. QED
    BY <2>1, <2>2 DEF Right
<1>16. ASSUME NEW a \in Acts
       PROVE  /\ came(ActNode(a)) = Live /\ took(ActNode(a)) = chosen(a)
              /\ came(BodyNode(a)) = runs(a) /\ took(BodyNode(a)) = tested(a)
  <2> HIDE DEF runs, chosen, tested
  <2>1. \A b \in Acts : /\ ActNode(a) = ActNode(b) <=> a = b
                        /\ BodyNode(a) = BodyNode(b) <=> a = b
                        /\ ActNode(a) # BodyNode(b) /\ BodyNode(a) # ActNode(b)
    BY TableNodes
  <2>2. \A v : v \in came(ActNode(a)) <=> v \in Live
    BY <2>1
  <2>3. \A v : v \in took(ActNode(a)) <=> v \in chosen(a)
    BY <2>1
  <2>4. \A v : v \in came(BodyNode(a)) <=> v \in runs(a)
    BY <2>1
  <2>5. \A v : v \in took(BodyNode(a)) <=> v \in tested(a)
    BY <2>1
  <2> HIDE DEF came, took
  <2>6. QED
    BY <2>2, <2>3, <2>4, <2>5
<1>17. \A n \in Nodes : n <= MaxNodes => came(n) = {} /\ took(n) = {}
  <2>1. \A n \in Nodes : n <= MaxNodes => \A a \in Acts : n # ActNode(a) /\ n # BodyNode(a)
    BY InterpreterAssumption DEF ActNode, BodyNode, Nodes, Acts
  <2> HIDE DEF runs, chosen, tested
  <2>2. QED
    BY <2>1
<1> HIDE DEF came, took, runs, chosen, tested, run
<1>18. ASSUME NEW n \in Nodes, n \notin N
       PROVE  /\ after.reach[n] = state.reach[n]
              /\ seen'[n] = seen[n] /\ taken'[n] = taken[n]
  <2>1. n <= MaxNodes
    BY <1>7, <1>18 DEF Nodes
  <2>2. QED
    BY <1>2, <1>10, <1>17, <2>1
<1>19. ASSUME NEW n \in N
       PROVE  after.reach[n] # {} /\ Right(after.reach[n], seen'[n], taken'[n])
  <2>1. n \in Nodes /\ seen'[n] = came(n) /\ taken'[n] = took(n)
    BY <1>2, <1>9
  <2>2. PICK a \in Acts : n = ActNode(a) \/ n = BodyNode(a)
    BY TableNodes
  <2>3. after.reach[ActNode(a)] # {} /\ after.reach[BodyNode(a)] # {}
    BY <1>10
  <2>4. QED
    BY <1>14, <1>15, <1>16, <2>1, <2>2, <2>3
<1> DEFINE m0 == after.reach
<1>20. \A m : m \in Maps' <=> m = m0 \/ \E i \in 1..Depth : m \in FrameMaps(frames[i])
  BY <1>1, <1>12 DEF Maps, Depth
<1>21. /\ m0 \in Maps' /\ (\A m2 \in Maps' : m2 = m0 \/ m2 \in Maps)
       /\ \A m \in Maps : m = state.reach \/ m \in Maps'
  BY <1>20, MapsMember
<1>22. N \in SUBSET Nodes
  OBVIOUS
<1> HIDE DEF N
<1>23. QED
  BY <1>8, <1>18, <1>19, <1>21, <1>22, VerdictsVisited

-----------------------------------------------------------------------------
(* Verdicts: the theorem.                                                   *)

\* Every step keeps the verdicts right.
LEMMA NextVerdicts ==
    ASSUME FixedDefaults, Typed, Exact, Verdicts, [Next]_vars
    PROVE  Verdicts'
<1>1. CASE Statement
  BY <1>1, StatementUnvisiting, UnvisitingVerdicts, TableVerdicts
<1>2. CASE \E x \in Tests : OpenIf(x)
  BY <1>2, OpenIfVerdicts
<1>3. CASE \E x \in Tests : \E kind \in {"switch", "select"} : OpenCases(kind, x)
  BY <1>3, OpenCasesVerdicts
<1>4. CASE BeginElse
  BY <1>4, BeginElseVerdicts
<1>5. CASE \E labels \in SUBSET Values : BeginSwitchCase(labels)
  BY <1>5, SwitchCaseVerdicts
<1>6. CASE (\E keyset \in SUBSET Values : BeginSelectCase(keyset)) \/ BeginValueSetCase
  <2>1. PICK match, matched : /\ In({"select"}) /\ SelectCase(match, matched)
                              /\ UNCHANGED <<nodes, tables, seen, taken>>
    BY <1>6 DEF BeginSelectCase, BeginValueSetCase, counters, packets
  <2>2. QED
    BY <2>1, SelectCaseVerdicts
<1>7. CASE EndCase
  BY <1>7, EndCaseVerdicts
<1>8. CASE BeginDefault
  BY <1>8, BeginDefaultVerdicts
<1>9. CASE MergeNext
  BY <1>9, MergeVerdicts
<1>10. CASE Leave
  BY <1>10, LeaveVerdicts
<1>11. CASE UNCHANGED vars
  BY <1>11, UnvisitingVerdicts DEF vars, counters, packets, Unvisiting
<1>12. QED
  BY <1>1, <1>2, <1>3, <1>4, <1>5, <1>6, <1>7, <1>8, <1>9, <1>10, <1>11 DEF Next, Branch

\* The verdicts are exact: for all programs, tables and bounds, the condition that
\* is left for a node when the program has been executed holds for a packet that
\* came to the node if and only if the packet took the branch, although maps are
\* cloned with the states, merged, and keep the first condition of a node
\* (mergeAnnotationMapping).  The program calls no method of Unfaithful, and its
\* default actions do not test their parameter: their bodies are visited under two
\* conditions, and the one of the program's own call is kept.
THEOREM VerdictsDecideNodes ==
    ASSUME Methods \cap Unfaithful = {}, FixedDefaults
    PROVE  Spec => []VerdictsExact
<1>1. Init => Typed /\ Exact /\ Verdicts
  BY InitType, InitExact, InitVerdicts
<1>2. Typed /\ Exact /\ Verdicts /\ [Next]_vars => (Typed /\ Exact /\ Verdicts)'
  BY NextType, NextExact, NextVerdicts
<1>3. Verdicts => VerdictsExact
  <2> SUFFICES ASSUME Verdicts, Depth = 0, NEW n \in Nodes, NEW v \in seen[n]
               PROVE  \E cond \in state.reach[n] : v \in cond <=> v \in taken[n]
    BY DEF VerdictsExact
  <2>1. Maps = {state.reach}
    BY DEF Maps
  <2>2. state.reach[n] # {} /\ Right(state.reach[n], seen[n], taken[n])
    BY <2>1 DEF Verdicts
  <2>3. QED
    BY <2>2 DEF Right
<1>4. QED
  BY <1>1, <1>2, <1>3, PTL DEF Spec
=============================================================================
