-------------------------- MODULE SymbolicExecution --------------------------
(***************************************************************************)
(* The symbolic interpreter: FlayStepper, ParserStepper, ExpressionResol-  *)
(* ver, TableExecutor and the ExecutionState they share, next to the       *)
(* packets that execute the same program.                                  *)
(*                                                                         *)
(* A behaviour executes one program, statement by statement, chosen as it  *)
(* goes.  Branches of the program are executed one after the other, each   *)
(* in a clone of the execution state, and merged at the end; frames is the *)
(* C++ call stack between the two.  Symbolic expressions are represented   *)
(* by their values: an expression is a function of the values of the sym-  *)
(* bolic variables, a condition is the set of valuations that satisfy it.  *)
(*                                                                         *)
(* A packet is given by what it, the extern objects and the control plane  *)
(* answer whenever the program asks, so there is one packet per valuation. *)
(* The packets that execute the current statement are the active ones.     *)
(***************************************************************************)
EXTENDS Externs

CONSTANTS
    Platforms,       \* the targets programs are written for
    Methods,         \* the extern methods it may call
    Fields,          \* its variables
    Inputs,          \* those that hold a symbolic value at the start, in order
    Expressions,     \* the right-hand sides of its assignments
    Arguments,       \* the arguments of its extern calls
    Tests,           \* what it tests in if, switch, select, assert and assume
    TableShapes,     \* the tables it may apply
    MaxSymbols,      \* bound: symbolic variables
    MaxStatements,   \* bound: statements
    MaxNodes,        \* bound: nodes with a reachability mapping
    MaxDepth         \* bound: nested branches

\* A header with one field, and the parameter of an action.
Valid == "h.valid"
Field == "h.field"
Param == "param"

Locations == Fields \cup {Valid, Field, Param}

\* What a program can read: a parameter is only visible in its action.
Readable == Fields \cup {Valid, Field}

Values == {0, 1}

Valuations == [1..MaxSymbols -> Values]

Symbolic == [Valuations -> Values]

\* A table has two actions, each of the form  if (test) { dst = src; } .
Acts == {0, 1}

Shapes ==
    [default : Acts, defaultArg : Values, defaultOnly : SUBSET Acts, tableOnly : SUBSET Acts,
     body : [Acts -> [test : Locations, dst : Fields, src : Locations]]]

ActNode(a) == MaxNodes + 1 + a

BodyNode(a) == MaxNodes + 3 + a

Nodes == 1..(MaxNodes + 4)

Operators == {"zero", "one", "copy", "not", "mux"}

ASSUME InterpreterAssumption ==
    /\ Platforms \subseteq Targets
    /\ Fields \cap {Valid, Field, Param} = {}
    /\ Inputs \in Seq(Fields)
    /\ Len(Inputs) <= MaxSymbols
    /\ Expressions \subseteq Operators \X Readable \X Readable \X Readable
    /\ Arguments \subseteq Readable \X Readable
    /\ Tests \subseteq Readable
    /\ TableShapes \subseteq Shapes
    /\ MaxSymbols \in Nat
    /\ MaxStatements \in Nat
    /\ MaxNodes \in Nat
    /\ MaxDepth \in Nat

-----------------------------------------------------------------------------
(* Symbolic values and execution states.                                    *)

Constant(x) == [v \in Valuations |-> x]

Symbol(s) == [v \in Valuations |-> v[s]]

Holds(e) == {v \in Valuations : e[v] = 1}

Mux(c, e, f) == [v \in Valuations |-> IF v \in c THEN e[v] ELSE f[v]]

\* Symbolic environment, execution condition, and the reachability condition of
\* every node: none or one.
ExecutionState ==
    [env : [Locations -> Symbolic], cond : SUBSET Valuations,
     reach : [Nodes -> SUBSET SUBSET Valuations]]

\* The input a location holds at the start: a number, or 0.
InputOf(l) ==
    LET S == {i \in 1..Len(Inputs) : Inputs[i] = l}
    IN  IF S = {} THEN 0 ELSE CHOOSE i \in S : TRUE

\* The variables a block starts with: what was parsed is symbolic
\* (createSymbolicExpression), everything else is initialized.
InitialState ==
    [env   |-> [l \in Locations |-> IF InputOf(l) = 0 THEN Constant(0)
                                   ELSE Symbol(InputOf(l))],
     cond  |-> Valuations,
     reach |-> [n \in Nodes |-> {}]]

SetVar(st, l, e) == [st EXCEPT !.env[l] = e]

PushExecutionCondition(st, c) == [st EXCEPT !.cond = @ \cap c]

\* addReachabilityMapping: the condition of the node under the execution
\* condition, or-ed to the one it may have.
AddReachabilityMapping(st, n, c) ==
    [st EXCEPT !.reach[n] = IF @ = {} THEN {st.cond \cap c}
                            ELSE {d \cup (st.cond \cap c) : d \in @}]

\* Mutant of MergeAnnotationMapping: the other map is forgotten.
KeepAnnotationMapping(reach, other) == reach

\* mergeAnnotationMapping: a node that is already mapped keeps its condition.
MergeAnnotationMapping(reach, other) ==
    [n \in Nodes |-> IF reach[n] = {} THEN other[n] ELSE reach[n]]

\* merge: where the execution condition of the other state holds its values
\* replace those of this state.
Merge(st, other) ==
    [env   |-> [l \in Locations |-> Mux(other.cond, other.env[l], st.env[l])],
     cond  |-> st.cond,
     reach |-> MergeAnnotationMapping(st.reach, other.reach)]

-----------------------------------------------------------------------------
(* Expressions and extern calls, on values: the interpreter applies them to *)
(* every valuation, a packet to the values in its memory.                   *)

\* Mutant of Apply: a complement is not cut to the width of its operand.
ApplyUnmasked(op, x, y, z) ==
    CASE op = "zero" -> 0
      [] op = "one"  -> 1
      [] op = "copy" -> x
      [] op = "not"  -> 3 - x
      [] op = "mux"  -> IF x = 1 THEN y ELSE z

Apply(op, x, y, z) ==
    CASE op = "zero" -> 0
      [] op = "one"  -> 1
      [] op = "copy" -> x
      [] op = "not"  -> 1 - x
      [] op = "mux"  -> IF x = 1 THEN y ELSE z

\* ExpressionResolver: the operands are resolved in the current environment.
Resolve(env, op, x, y, z) ==
    [v \in Valuations |-> Apply(op, env[x][v], env[y][v], env[z][v])]

\* The value an extern call leaves in its destination: old is the value before
\* the call, x and y are arguments, answer is the result of the call.
ExternValue(effect, old, x, y, answer) ==
    CASE effect \in {"nothing", "placeholder"} -> old
      [] effect = "constant"     -> 1
      [] effect = "result"       -> answer
      [] effect = "verification" -> IF x = 1 THEN answer ELSE 0
      [] effect = "failure"      -> IF x = 1 /\ answer = 1 THEN 1 ELSE old
      [] effect = "update"       -> IF x = 1 THEN answer ELSE old
      [] effect = "greater"      -> IF x > y THEN x ELSE y
      [] effect = "smaller"      -> IF x < y THEN x ELSE y
      [] effect = "register"     -> IF answer = 1 THEN x ELSE 0

\* The effects after which a call has a symbolic result.
Answering == {"result", "verification", "update", "register"}

-----------------------------------------------------------------------------
(* Tables.                                                                  *)

\* The control-plane variables of a table, from the symbols s and s + 1: the
\* action an entry chose and the default action set by the control plane.  An
\* annotation restricts what the control plane can choose; otherwise *NONE*.
NoAction == 2

ActionChoice(shape, v, s) ==
    IF v[s] = 1 /\ v[s + 1] \notin shape.defaultOnly THEN v[s + 1] ELSE NoAction

DefaultChoice(shape, v, s) ==
    IF v[s] = 0 /\ v[s + 1] = 1 /\ 1 \notin shape.tableOnly THEN 1 ELSE NoAction

\* totalHitCondition and actionHitCondition of processTableActionOptions.
TotalHit(shape, s) ==
    {v \in Valuations : \E a \in Acts \ shape.defaultOnly : ActionChoice(shape, v, s) = a}

ActionHit(shape, a, s) ==
    {v \in Valuations :
        \/ a \notin shape.defaultOnly /\ ActionChoice(shape, v, s) = a
        \/ /\ a \notin shape.tableOnly
           /\ v \notin TotalHit(shape, s)
           /\ DefaultChoice(shape, v, s) = a}

\* callAction: bind the parameter, then execute the body.
CallAction(st, shape, a, arg) ==
    LET body   == shape.body[a]
        bound  == SetVar(st, Param, arg)
        test   == Holds(bound.env[body.test])
        mapped == AddReachabilityMapping(bound, BodyNode(a), test)
        then   == SetVar(PushExecutionCondition(mapped, test), body.dst, mapped.env[body.src])
    IN  Merge(mapped, then)

\* Mutant of ProcessAction: the state after the default action is cloned.
ProcessActionFromState(st, reference, shape, a, s) ==
    LET hit    == ActionHit(shape, a, s)
        mapped == AddReachabilityMapping(st, ActNode(a), hit)
    IN  Merge(mapped, CallAction(PushExecutionCondition(mapped, hit), shape, a, Symbol(s + 2)))

\* One turn of the loop of processTableActionOptions: the action is executed in
\* a clone of the state before the table and merged.
ProcessAction(st, reference, shape, a, s) ==
    LET hit    == ActionHit(shape, a, s)
        mapped == AddReachabilityMapping(st, ActNode(a), hit)
    IN  Merge(mapped, CallAction(PushExecutionCondition(reference, hit), shape, a, Symbol(s + 2)))

\* processTable: the default action of the program, then all actions.
ProcessTable(st, shape, s) ==
    LET default == CallAction(st, shape, shape.default, Constant(shape.defaultArg))
    IN  ProcessAction(ProcessAction(default, st, shape, 0, s), st, shape, 1, s)

-----------------------------------------------------------------------------
VARIABLES
    state,        \* execution state of the current branch
    frames,       \* enclosing branches, innermost last
    status,       \* "running", or "aborted" by an unsupported call
    symbols,      \* symbolic variables created so far
    header,       \* first of the variables labelled with the header, or 0
    nodes,        \* nodes visited so far
    tables,       \* number of tables applied
    target,       \* the target of the program, known from its first extern call
    statements,   \* number of statements executed
    memory,       \* the variables of every packet
    active,       \* the packets that execute the current branch
    extracted,    \* the packets that have extracted the header
    ended,        \* the packets whose processing was terminated
    seen,         \* the packets that came to a node
    taken         \* the packets for which its condition was true

counters == <<symbols, header, nodes, tables, target>>

packets == <<memory, extracted, ended, seen, taken>>

vars == <<state, frames, status, counters, statements, active, packets>>

AnyTarget == "any"

\* Suspended work: "then" is the true branch of an if statement; "switch" and
\* "select" are between two cases, "case" is in one of them; "default" is the
\* default case or the else branch; "merge" merges the states of the branches.
Kinds == {"then", "switch", "select", "case", "default", "merge"}

Frame ==
    [kind    : Kinds,
     outer   : ExecutionState,         \* the state that was cloned
     pending : Seq(ExecutionState),    \* the states still to be merged
     key     : Symbolic,               \* value of the switch or select expression
     asked   : [Valuations -> Values], \* the value a packet found there
     resume  : {"switch", "select"},   \* what goes on after a case
     labels  : SUBSET Values,          \* labels of the switch cases so far
     notCond : SUBSET Valuations,      \* no select case so far matched
     all     : SUBSET Valuations,      \* the packets that entered
     left    : SUBSET Valuations]      \* those that took no branch so far

TypeOK ==
    /\ state \in ExecutionState
    /\ frames \in Seq(Frame)
    /\ status \in {"running", "aborted"}
    /\ symbols \in 0..MaxSymbols
    /\ header \in 0..MaxSymbols
    /\ nodes \in 0..MaxNodes
    /\ tables \in {0, 1}
    /\ target \in Platforms \cup {AnyTarget}
    /\ statements \in 0..MaxStatements
    /\ memory \in [Valuations -> [Locations -> Values]]
    /\ active \subseteq Valuations
    /\ extracted \subseteq Valuations
    /\ ended \subseteq Valuations
    /\ seen \in [Nodes -> SUBSET Valuations]
    /\ taken \in [Nodes -> SUBSET Valuations]

Init ==
    /\ state = InitialState
    /\ frames = <<>>
    /\ status = "running"
    /\ symbols = Len(Inputs)
    /\ header = 0
    /\ nodes = 0
    /\ tables = 0
    /\ target = AnyTarget
    /\ statements = 0
    /\ memory = [v \in Valuations |->
                   [l \in Locations |-> IF InputOf(l) = 0 THEN 0 ELSE v[InputOf(l)]]]
    /\ active = Valuations
    /\ extracted = {}
    /\ ended = {}
    /\ seen = [n \in Nodes |-> {}]
    /\ taken = [n \in Nodes |-> {}]

Depth == Len(frames)

Top == frames[Depth]

\* Statements are executed outside of all branches or in the body of one.
CanExecute ==
    /\ status = "running"
    /\ statements < MaxStatements
    /\ Depth > 0 => Top.kind \in {"then", "case", "default"}

Execute == CanExecute /\ statements' = statements + 1

\* The packets a statement has an effect on.
Live == active \ ended

\* Packets in S have value f[v] in location l from now on.
Store(mem, S, l, f) ==
    [v \in Valuations |-> IF v \in S THEN [mem[v] EXCEPT ![l] = f[v]] ELSE mem[v]]

\* Packets in S come to node n; those in T find its condition true.
Visit(n, S, T) ==
    /\ seen' = [seen EXCEPT ![n] = @ \cup S]
    /\ taken' = [taken EXCEPT ![n] = @ \cup (S \cap T)]

-----------------------------------------------------------------------------
(* Statements without branches.                                             *)

\* preorder(AssignmentStatement).
Assign(dst, op, x, y, z) ==
    /\ Execute
    /\ state' = SetVar(state, dst, Resolve(state.env, op, x, y, z))
    /\ memory' = Store(memory, Live, dst,
                       [v \in Valuations |->
                           Apply(op, memory[v][x], memory[v][y], memory[v][z])])
    /\ UNCHANGED <<frames, status, counters, active, extracted, ended, seen, taken>>

\* preorder(MethodCallExpression) for setValid: the fields are initialized.  It
\* is called on a header that is not valid.
SetValid ==
    /\ Execute
    /\ \A v \in Live : memory[v][Valid] = 0
    /\ state' = SetVar(SetVar(state, Field, Constant(0)), Valid, Constant(1))
    /\ memory' = Store(Store(memory, Live, Field, Constant(0)), Live, Valid, Constant(1))
    /\ UNCHANGED <<frames, status, counters, active, extracted, ended, seen, taken>>

SetInvalid ==
    /\ Execute
    /\ state' = SetVar(SetVar(state, Field, Constant(0)), Valid, Constant(0))
    /\ memory' = Store(Store(memory, Live, Field, Constant(0)), Live, Valid, Constant(0))
    /\ UNCHANGED <<frames, status, counters, active, extracted, ended, seen, taken>>

\* packet_in.extract: the variables carry the name of the header, so they are
\* the same for every extraction of it.  A packet extracts the header once.
Extract(effect) ==
    /\ effect = "header"
    /\ Execute
    /\ Live \cap extracted = {}
    /\ header' = IF header = 0 THEN symbols + 1 ELSE header
    /\ symbols' = IF header = 0 THEN symbols + 2 ELSE symbols
    /\ symbols' <= MaxSymbols
    /\ state' = SetVar(SetVar(state, Valid, Symbol(header')), Field, Symbol(header' + 1))
    /\ memory' = Store(Store(memory, Live, Valid, [v \in Valuations |-> v[header']]),
                       Live, Field, [v \in Valuations |-> v[header' + 1]])
    /\ extracted' = extracted \cup Live
    /\ UNCHANGED <<frames, status, nodes, tables, active, ended, seen, taken>>

\* A call whose implementation has the given effect and the given documented
\* effect, with destination dst and arguments x and y.
CallExtern(effect, documented, dst, x, y) ==
    /\ Execute
    /\ symbols' = IF effect \in Answering THEN symbols + 1 ELSE symbols
    /\ symbols' <= MaxSymbols
    /\ LET answer(v) == IF effect \in Answering THEN v[symbols'] ELSE 0
       IN  /\ state' = SetVar(state, dst,
                              [v \in Valuations |->
                                  ExternValue(effect, state.env[dst][v], state.env[x][v],
                                              state.env[y][v], answer(v))])
           /\ memory' = Store(memory, Live, dst,
                              [v \in Valuations |->
                                  ExternValue(documented, memory[v][dst], memory[v][x],
                                              memory[v][y], answer(v))])
    /\ UNCHANGED <<frames, status, header, nodes, tables, active, extracted, ended, seen,
                   taken>>

\* assert and assume are no-ops for the interpreter; a packet for which the
\* condition x is false gets no further.
Check(x) ==
    /\ Execute
    /\ ended' = ended \cup {v \in Live : memory[v][x] = 0}
    /\ UNCHANGED <<state, frames, status, symbols, header, nodes, tables, active, memory,
                   extracted, seen, taken>>

\* P4C_UNIMPLEMENTED and the internal error for an ambiguous call.
Abort(effect) ==
    /\ effect \in {"unimplemented", "ambiguous"}
    /\ Execute
    /\ status' = "aborted"
    /\ UNCHANGED <<state, frames, symbols, header, nodes, tables, active, packets>>

\* The packet's view of a table: the action it runs and the argument it passes.
ChosenAction(shape, v, s) ==
    CASE ActionChoice(shape, v, s) # NoAction  -> ActionChoice(shape, v, s)
      [] DefaultChoice(shape, v, s) # NoAction -> DefaultChoice(shape, v, s)
      [] OTHER                                 -> shape.default

ByProgram(shape, v, s) ==
    ActionChoice(shape, v, s) = NoAction /\ DefaultChoice(shape, v, s) = NoAction

RunTable(mem, shape, v, s) ==
    LET body  == shape.body[ChosenAction(shape, v, s)]
        bound == [mem EXCEPT ![Param] = IF ByProgram(shape, v, s) THEN shape.defaultArg
                                        ELSE v[s + 2]]
    IN  [test   |-> bound[body.test] = 1,
         memory |-> IF bound[body.test] = 1
                    THEN [bound EXCEPT ![body.dst] = bound[body.src]] ELSE bound]

\* t.apply().hit, assigned to dst.
ApplyTable(shape, dst) ==
    /\ Execute
    /\ tables = 0
    /\ symbols + 3 <= MaxSymbols
    /\ tables' = 1
    /\ symbols' = symbols + 3
    /\ LET s == symbols + 1
           after == ProcessTable(state, shape, s)
           run(v) == RunTable(memory[v], shape, v, s)
           runs(a) == {v \in Live : ChosenAction(shape, v, s) = a}
           chosen(a) == {v \in runs(a) : ~ByProgram(shape, v, s)}
           hit == Mux(TotalHit(shape, s), Constant(1), Constant(0))
       IN  /\ state' = SetVar(after, dst, hit)
           /\ memory' = Store([v \in Valuations |-> IF v \in Live THEN run(v).memory
                                                    ELSE memory[v]],
                              Live, dst, hit)
           /\ seen' = [n \in Nodes |->
                          seen[n] \cup UNION {IF n = ActNode(a) THEN Live
                                              ELSE IF n = BodyNode(a) THEN runs(a)
                                              ELSE {} : a \in Acts}]
           /\ taken' = [n \in Nodes |->
                          taken[n] \cup UNION {IF n = ActNode(a) THEN chosen(a)
                                               ELSE IF n = BodyNode(a)
                                               THEN {v \in runs(a) : run(v).test}
                                               ELSE {} : a \in Acts}]
    /\ UNCHANGED <<frames, status, header, nodes, target, active, extracted, ended>>

-----------------------------------------------------------------------------
(* Branches.                                                                *)

NewFrame(kind, outer, key, asked, left) ==
    [kind |-> kind, outer |-> outer, pending |-> <<>>, key |-> key, asked |-> asked,
     resume |-> IF kind = "select" THEN "select" ELSE "switch", labels |-> {},
     notCond |-> Valuations, all |-> active, left |-> left]

Enter(frame) == Depth < MaxDepth /\ frames' = Append(frames, frame)

Resume(frame) == frames' = [frames EXCEPT ![Depth] = frame]

In(kinds) == status = "running" /\ Depth > 0 /\ Top.kind \in kinds

\* preorder(IfStatement): the true branch in a clone of the state.
OpenIf(x) ==
    /\ Execute
    /\ nodes < MaxNodes
    /\ nodes' = nodes + 1
    /\ LET cond   == Holds(state.env[x])
           mapped == AddReachabilityMapping(state, nodes', cond)
           true   == {v \in active : memory[v][x] = 1}
       IN  /\ state' = PushExecutionCondition(mapped, cond)
           /\ Enter(NewFrame("then", mapped, state.env[x],
                             [v \in Valuations |-> memory[v][x]], active \ true))
           /\ active' = true
           /\ Visit(nodes', Live, true)
    /\ UNCHANGED <<status, symbols, header, tables, target, memory, extracted, ended>>

\* The alternative, in the state itself and under its condition.
BeginElse ==
    /\ In({"then"})
    /\ state' = Top.outer
    /\ active' = Top.left
    /\ Resume([Top EXCEPT !.kind = "default", !.pending = <<state>>])
    /\ UNCHANGED <<status, counters, statements, packets>>

\* preorder(SwitchStatement), processSelectExpression: resolve the expression.
OpenCases(kind, x) ==
    /\ Execute
    /\ Enter(NewFrame(kind, state, state.env[x], [v \in Valuations |-> memory[v][x]], active))
    /\ UNCHANGED <<state, status, counters, active, packets>>

CountCase == statements < MaxStatements /\ statements' = statements + 1

\* The node of switch label l in a group of labels that share a statement.
LabelNode(labels, l) == nodes + 1 + Cardinality({k \in labels : k < l})

\* The statement of a switch case, with the labels that fall through to it.
BeginSwitchCase(labels) ==
    /\ In({"switch"})
    /\ CountCase
    /\ labels # {}
    /\ labels \cap Top.labels = {}
    /\ nodes' = nodes + Cardinality(labels)
    /\ nodes' <= MaxNodes
    /\ LET equal(l) == {v \in Valuations : Top.key[v] = l}
           asked(l) == {v \in Top.all : Top.asked[v] = l}
           label(n) == {l \in labels : LabelNode(labels, l) = n}
           mapped == [state EXCEPT !.reach =
                         [n \in Nodes |->
                             IF label(n) = {} THEN @[n]
                             ELSE {state.cond \cap equal(l) : l \in label(n)}]]
           matched == UNION {asked(l) : l \in labels}
       IN  /\ state' = PushExecutionCondition(mapped, UNION {equal(l) : l \in labels})
           /\ active' = Top.left \cap matched
           /\ Resume([Top EXCEPT !.kind = "case", !.outer = mapped,
                                 !.labels = @ \cup labels, !.left = @ \ matched])
           /\ seen' = [n \in Nodes |->
                          IF label(n) = {} THEN seen[n] ELSE Top.all \ ended]
           /\ taken' = [n \in Nodes |->
                          IF label(n) = {} THEN taken[n]
                          ELSE (UNION {asked(l) : l \in label(n)}) \ ended]
    /\ UNCHANGED <<status, symbols, header, tables, target, memory, extracted, ended>>

\* The clone a select case is executed in: no case before it matched.
SelectState(match) == PushExecutionCondition(state, Top.notCond \cap match)

SelectCase(match, matched) ==
    /\ state' = SelectState(match)
    /\ active' = Top.left \cap matched
    /\ Resume([Top EXCEPT !.kind = "case", !.outer = state, !.notCond = @ \ match,
                          !.left = @ \ matched])

\* A select case whose keyset (a literal, mask, range or a set of them) matches
\* the given values.
BeginSelectCase(keyset) ==
    /\ In({"select"})
    /\ CountCase
    /\ keyset # {}
    /\ SelectCase({v \in Valuations : Top.key[v] \in keyset},
                  {v \in Valuations : Top.asked[v] \in keyset})
    /\ UNCHANGED <<status, counters, packets>>

\* A select case with a parser value set: a symbolic element, which only counts
\* if the value set is configured.
BeginValueSetCase ==
    /\ In({"select"})
    /\ CountCase
    /\ symbols + 2 <= MaxSymbols
    /\ symbols' = symbols + 2
    /\ SelectCase({v \in Valuations : Top.key[v] = v[symbols + 1] /\ v[symbols'] = 1},
                  {v \in Valuations : Top.asked[v] = v[symbols + 1] /\ v[symbols'] = 1})
    /\ UNCHANGED <<status, header, nodes, tables, target, packets>>

\* The state of a case is kept for later merging.
EndCase ==
    /\ In({"case"})
    /\ state' = Top.outer
    /\ active' = Top.left
    /\ Resume([Top EXCEPT !.kind = Top.resume, !.pending = Append(@, state)])
    /\ UNCHANGED <<status, counters, statements, packets>>

\* The default label comes last and is executed in the state itself.
BeginDefault ==
    /\ In({"switch", "select"})
    /\ Resume([Top EXCEPT !.kind = "default"])
    /\ UNCHANGED <<state, status, counters, statements, active, packets>>

\* "After, merge all the accumulated state.": one turn of the loop.
MergeNext ==
    /\ In({"default", "switch", "select", "merge"})
    /\ Top.pending # <<>>
    /\ state' = Merge(state, Head(Top.pending))
    /\ Resume([Top EXCEPT !.kind = "merge", !.pending = Tail(@)])
    /\ UNCHANGED <<status, counters, statements, active, packets>>

Leave ==
    /\ In({"default", "switch", "select", "merge"})
    /\ Top.pending = <<>>
    /\ frames' = SubSeq(frames, 1, Depth - 1)
    /\ active' = Top.all
    /\ UNCHANGED <<state, status, counters, statements, packets>>

-----------------------------------------------------------------------------

\* The calls a program can make: the target, the effect of the implementation
\* that is found, the documented effect, and whether it may end the packet.
CallEffects ==
    UNION {{LET effect == ProcessExtern(t, c[1], c[2])
            IN  <<t, effect, Documented(c[1], effect), c[1] \in Terminating>> :
               c \in {d \in CallsOf(t) : d[1] \in Methods}} : t \in Platforms}

Call(effect, documented, terminating) ==
    \/ Extract(effect)
    \/ Abort(effect)
    \/ terminating /\ \E x \in Tests : Check(x)
    \/ /\ ~terminating
       /\ effect \notin {"header", "unimplemented", "ambiguous"}
       /\ \E dst \in Fields, args \in Arguments :
             CallExtern(effect, documented, dst, args[1], args[2])

Statement ==
    \/ \E dst \in Fields, e \in Expressions : Assign(dst, e[1], e[2], e[3], e[4])
    \/ SetValid
    \/ SetInvalid
    \/ \E c \in CallEffects :
          /\ target \in {AnyTarget, c[1]}
          /\ target' = c[1]
          /\ Call(c[2], c[3], c[4])
    \/ \E shape \in TableShapes, dst \in Fields : ApplyTable(shape, dst)

Branch ==
    \/ \E x \in Tests : OpenIf(x) \/ \E kind \in {"switch", "select"} : OpenCases(kind, x)
    \/ BeginElse
    \/ \E labels \in SUBSET Values : BeginSwitchCase(labels) \/ BeginSelectCase(labels)
    \/ BeginValueSetCase
    \/ EndCase
    \/ BeginDefault
    \/ MergeNext
    \/ Leave

Next == Statement \/ Branch

Spec == Init /\ [][Next]_vars

-----------------------------------------------------------------------------
(* Properties.                                                              *)

\* The execution state describes every packet that executes the current branch:
\* for the valuation of the packet its execution condition holds and every
\* variable has the value it has in the packet's memory, after any nesting of
\* if, switch and select, of tables and of extern calls, all cloned, executed
\* one after the other and merged (ExecutionState::merge).
StateExact ==
    status = "running" =>
        \A v \in Live :
            /\ v \in state.cond
            /\ \A l \in Readable : state.env[l][v] = memory[v][l]

\* The reachability map decides about nodes on behalf of all packets: when the
\* program has been executed, the condition kept for a node (the first one, if
\* two merged states had one) holds for a packet that came to the node if and
\* only if that packet took the branch.
VerdictsExact ==
    (status = "running" /\ Depth = 0) =>
        \A n \in Nodes : \A v \in seen[n] :
            \E cond \in state.reach[n] : v \in cond <=> v \in taken[n]
=============================================================================
