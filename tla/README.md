# A TLA+ verification of Flay

Flay specializes a P4 data-plane program for the control-plane configuration
that is currently installed. It executes the program symbolically once, attaches
a condition to every program node, and keeps, for every node, a verdict under
the current table entries: always executed, never executed, or undecided. Each
control-plane update (an entry inserted, modified or deleted, a default action
set) may change verdicts. If one changes, Flay recompiles the *original* program
into an optimized one; if none changes, it keeps the program it has. The tool is
correct when the optimized program always does to every packet what the original
program would do under the same configuration, and useful when it recomputes and
recompiles as little as possible. These two aims pull in opposite directions;
this project is about the place where they meet.

## 1. Inventory

Paths are relative to `src/`.

| Component | State it keeps | Operations | Where |
|---|---|---|---|
| Table configuration | default action assignment, ordered set of entries (equal iff same match) | add (with or without replacing), delete, clear, set default, compute assignments | `core/control_plane/control_plane_objects.cpp` |
| Assignment sets | variable to value or nested Mux | `addConditionally`, `setAllSymbolic`, `substitute` | `core/control_plane/z3_control_plane_assignment.h` |
| Initial control-plane state | one configuration per table, parser value sets | a visitor over the program | `core/control_plane/symbolic_state.cpp` |
| P4Runtime and BFRuntime conversion | none; writes the configurations and a symbol set | `updateControlPlaneConstraintsWithEntityMessage` and its helpers | `core/control_plane/{p4runtime,bfruntime}/protobuf.cpp` |
| Interpreter | execution state, execution condition, node map | steppers for controls, parsers, tables, expressions, externs | `core/interpreter/` |
| Node map | node to condition, symbol to nodes | add, merge, initialize | `core/interpreter/node_map.cpp` |
| Reachability and substitution maps | verdict of every node, constant of every expression | full and incremental recomputation | `core/specialization/z3/` (and the IR variants) |
| Partial evaluation | constraints and both maps | initialize, convert, check for a change, specialize | `core/interpreter/partial_evaluator.cpp`, `core/lib/incremental_analysis.h` |
| Specializer | none | dead code elimination, replacement of expressions | `core/specialization/passes/` |
| Flay service | original and optimized program, counters | `processControlPlaneUpdate` for one update and for a batch, `specializeProgram` | `core/specialization/flay_service.cpp` |
| Wrappers | list of update files | parse and replay, stop at the first failure | `core/specialization/service_wrapper*.cpp`, `flay.cpp` |
| gRPC server | none of its own | `Write` | `grpc_service/flay_grpc_service.cpp` |
| Library | none | simplification, strength reduction, collapsing of data-plane variables, complexity metrics | `core/lib/` |
| Targets | target state for externs and pipelines | one executor per extern | `targets/` |

How they interact. The service receives a batch and hands it to each
incremental analysis. The analysis converts the updates one after the other;
every conversion writes the shared configurations and returns the symbolic
variables it touched. Then the two maps are recomputed for the nodes that mention
one of these variables, and the service specializes if a verdict changed. Errors
go through the compiler's global error counter, which nobody resets.

What is hard here:

* *Staleness.* The whole design rests on "a node whose condition mentions none
  of the reported symbols keeps its verdict". A conversion that changes a table
  and reports too little leaves a wrong verdict behind for good.
* *Partial failure.* A batch can fail at its last update, and a single message
  can fail after it has set a default action. What was applied stays applied.
* *A change that is noticed once.* The maps are updated before specialization
  succeeds, so a failed specialization is not repeated.
* *Thresholds.* A table with more than `kMaxEntriesPerTable` entries turns
  symbolic, and concrete again after a deletion.
* *Order.* Entries are wrapped in the order of a `std::set`, and the first
  assignment of a variable nobody assigned yet is unconditional.
* *Dead code elimination* with fall-through labels, default actions, actions
  that are only default or only in the table, and empty bodies.
* *Threads.* gRPC handlers share everything without a lock.
* *Symbolic merging.* Branches are executed one after the other in clones of the
  execution state and merged under conditions. A clone of the wrong state, a
  merge in the wrong order or a lost condition shows only in the packets for
  which two branches interfere.
* *Rewriting.* Every condition passes through a simplifier that reasons about
  nested Muxes, and on request through one that forgets data-plane operations.

`PROJECT.json` lists these under `hazards`, each at its line.

## 2. Modules

| Module | Models | State |
|---|---|---|
| `ControlPlaneObjects` | `TableConfiguration`, `TableDefaultAction`, `TableMatchEntry`; the values the variables of a table may take for a packet | none (operators) |
| `TableAssignments` | one configuration under all operations of its class; the loop of `computeControlPlaneAssignments`, one entry at a time, with `addConditionally` and `setAllSymbolic` | configuration, loop variables |
| `MatchKeys` | the conversion of the match fields of an entry, from a message or from the program, and the condition built from the match kinds | the entry under conversion |
| `ControlPlaneUpdate` | both `updateTableEntry` functions, with early returns and reported symbols; action profiles and selectors of BFRuntime | none (operators) |
| `PartialEvaluation` | conditions of nodes, symbols of conditions, verdicts, recomputation, the specializer on tables and if statements, and what a program does to a packet | none (operators) |
| `FlayService` | initialization, the request pipeline, both entry points, wrapper and server | thirteen variables, named after the fields |
| `AbstractFlay` | what the service promises: a configuration, a program that is equivalent under it, and answers | three variables |
| `AdmissiblePrograms` | conditions on programs and messages that exclude the known ways in which the optimized program differs from the original one | none (operators) |
| `FlayRefinement` | the mapping of `FlayService` to `AbstractFlay` | |
| `ConcurrentService` | interleaved `Write` handlers, split at every read and write of shared state | the shared fields, the locals of each handler |
| `Externs` | the extern methods of the core library, bmv2, Tofino, PSA and XSA, and the lookup of an implementation | none (operators) |
| `SymbolicExecution` | stepper, parser stepper, expression resolver, table executor and execution state, next to the packets that execute the same program | execution state, call stack, memory of the packets |
| `IRExpressions` | the expressions of the IR and their values | none (operators) |
| `StrengthReduction` | `ExpressionStrengthReduction`, one operator per visited class | none (operators) |
| `SimplifyExpression` | the two Mux passes, the collapsing pass, and the pass lists | the expression under rewriting |
| `SwitchElimination` | the loop of `ElimDeadCode` over the cases of a switch | loop variables |
| `PartialEvaluationProofs` | lemmas about conversions and verdicts that all services share; the specializer preserves a program | |
| `FlayServiceProofs` | theorems about `FlayService` | |
| `FlayRefinementProofs` | equivalence of the optimized program, and the refinement | |
| `ConcurrentServiceProofs` | theorems about `ConcurrentService` | |
| `SymbolicExecutionProofs` | theorems about `SymbolicExecution` | |
| `TableAssignmentsProofs`, `SwitchEliminationProofs` | the two loops, by their loop invariants | |
| `MatchKeysProofs` | theorems about `MatchKeys` | |
| `MCFlayService`, `MCTableAssignments`, `MCConcurrentService`, `MCSymbolicExecution`, `MCSimplifyExpression` | constants, messages, programs and expressions for TLC | |

`FlayService` EXTENDS `PartialEvaluation`, which EXTENDS `ControlPlaneUpdate`,
which EXTENDS `ControlPlaneObjects`. `ConcurrentService` and `AbstractFlay`
EXTEND `PartialEvaluation` too, so that all three services convert, recompute and
specialize with the same operators. `SymbolicExecution` EXTENDS `Externs`;
`SimplifyExpression` EXTENDS `StrengthReduction`, which EXTENDS `IRExpressions`.
`PartialEvaluation` starts from the conditions the interpreter derives;
`SymbolicExecution` is about how it derives them. Operators named "Mutant of ..." are faulty
variants of the definition below them. No specification uses them; they show
that a property notices a plausible mistake.

### Data that is abstracted

* A **packet** is one valuation of all data-plane expressions that occur in
  table keys. A **match** is the match part of an entry; `Hits[m]` is the set of
  packets that satisfy it. All match kinds are covered by this; how a condition
  is built from bits is the subject of `MatchKeys`, which has no tables or
  requests.
* An **action** has at most one parameter and belongs to one table, which is
  what the `LocalizeActions` pass of the frontend establishes.
* A **variable** (action choice, default action, argument, table active) has a
  *set of possible values* for a packet. A singleton is an assigned variable,
  the whole domain one that is unassigned or was made symbolic.
* A **message** is the outcome of its lookups: known or unknown table, action,
  parameter, convertible or inconvertible match. A message for an action profile
  has a *member* as key; `MemberMatch` says which match of each associated table
  the same key fields stand for.
* A **condition** is evaluated semantically: a node is decided when its
  condition has the same value for all packets and all values of the free
  variables. Flay's simplification may leave such a condition undecided. That
  makes Flay's program less optimized, and `OptimizedEquivalent` is checked for
  the sharper verdicts, for which it is harder to satisfy.
* The optimized **program** is described by what became of every table
  application (kept, replaced by the default call, removed), of every condition
  and of every parameter use.

### State and actions of `FlayService`

| Variable or action | Code |
|---|---|
| `constraints` | `PartialEvaluation::_controlPlaneConstraints` |
| `reachability`, `substitution` | `_reachabilityMap`, `_substitutionMap` |
| `optimized` | `FlayServiceBase::_optimizedProgram` |
| `updateCount`, `respecCount` | `_updateCount`, `_respecializationCount` |
| `hasErrors` | `::P4::errorCount() > 0` |
| `pc`, `entryPoint`, `remaining`, `symbolSet` | control state and locals of `processControlPlaneUpdate` |
| `ReceiveRequest` | entry of either overload, `_updateCount +=` |
| `ConvertUpdate` | one turn of the conversion loop |
| `CheckForSemanticsChange`, `SkipCheck` | the check with a symbol set, and its absence with `--no-symbol-set` |
| `SpecializeProgram` | `specializeProgram` of analysis and service |
| `Exit` | end of the replay, or shutdown of the server |

The service is sequential, so splitting a request into these steps adds no
behaviour; it makes the states between them visible to the invariants.

### Refinement

`AbstractFlay` has no verdicts, symbols, counters or stages. Its configuration
moves ahead of its program while a request is processed; the answer promises a
program that does to every packet what the original one does under the
configuration, and a rejected request stops the service with the program
untouched. `FlayRefinement` maps `constraints` and `optimized` to configuration
and program and `pc` to ready, processing or stopped;
`ImplementsAbstractFlay` says that every run of the wrapper is a run of the
abstract service. The step that earns it is the answer without specialization:
the old program must be right for a configuration nobody looked at as a whole.
The server is not a refinement, since it goes on after a failure
(`server_after_failure`).

### State and actions of `ConcurrentService`

The shared variables are those of `FlayService`. Each handler has a stage and the
locals of its call: updates to convert, symbols collected, the constraints its
assignments were computed from, whether a verdict changed, and the program it has
built but not stored. `ReadForReachability` and `ReadForSubstitution` are the loops
over the constraints at the start of the two recomputations, `WriteReachability`
and `WriteSubstitution` the loops over nodes and expressions, `SpecializeProgram`
the visit of the program by the specializer, `StoreProgram` the assignment of
`_optimizedProgram`. Each is one step; tearing inside a container, which a data
race also permits, the counters and `_eliminatedNodes` are left out, so what the
module shows is the least that can go wrong. `contested` and `overlapped` are
history variables that no action reads; they delimit what the missing lock can
damage.

### State and actions of `SymbolicExecution`

A behaviour executes one program, chosen statement by statement. A symbolic
expression is represented by its value under every valuation of the symbolic
variables, a condition by the valuations that satisfy it: this keeps apart the
question whether the interpreter combines expressions correctly (this module) and
whether the simplifier preserves them (`SimplifyExpression`). There is one packet
per valuation; it executes the program concretely, in `memory`, and asks for the
values the valuation gives to fields, extern results and control-plane variables.

| Variable or action | Code |
|---|---|
| `state` | the `ExecutionState` of the current branch: environment, execution condition, reachability map |
| `frames` | the C++ call stack: the state that was cloned, the states to be merged, the select or switch expression |
| `Assign`, `SetValid`, `SetInvalid`, `Extract`, `CallExtern`, `Check`, `Abort` | `preorder` of assignments and of method calls, and the extern implementations |
| `OpenIf`, `BeginElse` | `preorder(IfStatement)` |
| `OpenCases`, `BeginSwitchCase`, `EndCase`, `BeginDefault`, `MergeNext`, `Leave` | `preorder(SwitchStatement)` |
| `OpenCases`, `BeginSelectCase`, `BeginValueSetCase`, the same ends | `processSelectExpression` |
| `ApplyTable` | `processTable`, with the default action, all actions and their merging |
| `memory`, `active`, `extracted`, `ended`, `seen`, `taken` | the packets; not part of Flay |

`Externs` lists every implementation with its parameters and what it does to the
execution state; a call without argument names that fits two overloads is an
internal error there, as in the code.

### State and actions of `SimplifyExpression`

An expression is a tuple of the name of its IR class and its operands. `Fold`,
`Lift` and `Collapse` are the passes of `ExpressionRewriter`; `Reduce` is the
strength reduction, which the list of passes names in a comment only and which is
therefore run on its own. The rules of a class are tried in the order of the code,
and `FreshVariable` is the variable with a random name that the collapsing pass
creates; two of them are never equal.

## 3. Runs

The instance of `MCFlayService` is
`if (fwd.apply().hit) { acl.apply(); } else { tail.apply(); }`. The table `acl`
has a `@defaultonly` and a `@tableonly` action and one with a parameter; `tail`
has no key. It is the smallest program with a node that depends on another
table, a node in an else branch, an argument and both annotations. In the run
`bfruntime` `tail` has a key, and `acl` and `tail` share the action profile
`members`: messages go to the profile, to its selector (a no-op), to the tables
themselves (skipped) and to `fwd`, and some of them fail.

| Run | Question | Properties |
|---|---|---|
| `wrapper` | Do entries inserted, modified and deleted in any order, over the entry limit and back, keep verdicts, constants and program right? | `TypeOK`, `ReachabilityExact`, `SubstitutionSound`, `OptimizedCurrent`, `OptimizedEquivalent`, `RespecializationsBounded`, `ImplementsAbstractFlay` |
| `server` | Do messages that fail half way leave the program alone, and is every request answered? | `FailureKeepsProgram`, `RequestAnswered` |
| `bfruntime` | Do messages to an action profile, applied to one table after the other, keep verdicts exact and the tables in agreement? | `ReachabilityExact`, `AssociatedTablesAgree` |
| `match_keys` | Does the condition of an entry hold for the packets the entry matches, for all kinds but lpm and whichever way a field is written? | `CertainMatchIsReal`, `RealMatchIsPossible` |
| `assignments` | Does the wrapping loop give every variable the value of the closed form, and does the choice variable agree with table lookup? | `LoopMeetsClosedForm`, `ChoiceIsLookup` |
| `switch_cases` | Does a switch run the same body for every possible value after elimination? | `SwitchPreserved` |
| `interpreter` | Do cloned and merged execution states, and the conditions of nodes, describe what every packet does? | `TypeOK`, `StateExact`, `VerdictsExact` |
| `rewriting` | Does a rewritten expression keep its value, a collapsed one all its possible values, and is a reported error a real one? | `RewritingKeepsValue`, `CollapseKeepsOutcomes`, `ErrorsAreReal` |
| `concurrent` | How far does the damage of unsynchronized `Write` handlers reach, and is every Write answered? | `TypeOK`, `UncontestedExact`, `CurrentUnlessOverlapped`, `EveryWriteAnswered` |

The remaining runs are expected to be violated. Each states what a comment of
the repository says, and the finding in `PROJECT.json` quotes it.

| Run | What TLC shows |
|---|---|
| `lpm_prefix` | the mask of an lpm field is built by shifting by the prefix length instead of by the remaining bits: length 0 is an exact match, full length matches everything |
| `server_after_failure` | after a failed Write the server answers OK with a program that is out of date |
| `concurrent_writes` | two overlapping Writes are answered OK and leave a verdict, or a program, that the configuration contradicts |

Further observations made while modelling have no run of their own. The first four
are violations that TLC finds as soon as a constant of a passing run is changed:

* The elimination of a table skips every action with the name of the default
  action, so an entry that runs this action with another argument does not count
  as reachable, and the table is replaced by the default call
  (`elim_dead_code.cpp:172`). `OptimizedEquivalent` fails in `wrapper` with
  `TagDefault`, `TagDefaultArg` and `NoAnnotations` for the program.
* `preorder(Member)` replaces `t.apply().hit` by a literal whatever the default
  action of `t` does (`elim_dead_code.cpp:140`). `OptimizedEquivalent` fails if the
  default action of `fwd` has a body, that is, is not in `EmptyBodies`.
* A BFRuntime wildcard delete clears a table and reports no symbol
  (`bfruntime/protobuf.cpp:236`). `ReachabilityExact` fails with the messages
  `BfMessages`; the theorem about it excludes these messages.
* The statement of a dropped switch case overwrites that of a kept case if the
  fall-through label between them was dropped too (`elim_dead_code.cpp:89`).
  `SwitchPreserved` fails with `DeadFallThrough = TRUE`.

The others:

* With `--no-symbol-set` a batch goes from conversion straight to
  `specializeProgram` (action `SkipCheck`); `checkForSemanticsChange` without a
  symbol set is called nowhere, so the program is specialized again with the
  verdicts it started with.
* A MODIFY that replaces an entry reports the symbols of the new action only. A
  constant for the parameter of the replaced action is not recomputed; it may be
  missed but is never wrong (`SubstitutionSound`).
* The single-update overload of `FlayServiceBase::processControlPlaneUpdate`
  increments `_respecializationCount` twice for one specialization
  (`RespecIncrement`).
* The parameter of the program's default action keeps the constant of the default
  call when the body is executed a second time for the entries, because
  `mergeAnnotationMapping` keeps the first mapping (`ExpressionValues`).
* The constant `Excluded` of `MatchKeys` names three cases the run `match_keys`
  leaves out, because with any of them a property fails: a range of a single
  value has the unsatisfiable condition `min < max`; an absent optional field is
  converted to value 0 and mask 0, but the constraint of the kind has no mask;
  and `resolveKey` drops a literal key element next to a packet field.
* The body of a program default action is visited twice, once for the default
  call and once for the entries; the merge keeps the condition of the first visit.
  If the body tests its parameter, `VerdictsExact` fails; the tables of
  `MCSymbolicExecution` have no such action.
* `meter.execute_meter` and `direct_meter.read` of bmv2 are no-ops although their
  comments say that the result is written, and a second `verify_checksum` overwrites
  the failure of the first. `StateExact` fails for each of them (constant `Methods`),
  so `FaithfulMethods` leaves them out. `verify`, `assert` and `assume` do not end
  anything either, but this only leaves states that no packet is in.
* Two overloads of `Meter.execute` and of `DirectMeter.execute` on Tofino have the
  same number of parameters: a call without argument names is an internal error
  (`Abort`). `DirectRegisterAction.execute` requires two type arguments and then
  reads a third one when the action has an output.
* With `--collapse-data-plane-variables`, `CollapseKeepsOutcomes` fails for
  `!(b && X)` and `(b && X) || Y`, with `b` from the data plane and `X`, `Y` from
  the control plane, and for the sum of two concatenations below a slice: an
  operation is replaced by an operand that is not itself a variable. A shift is
  replaced by its amount, which has another width, if only that is from the data
  plane. The expressions of the run exclude these shapes.
* `simplify` keeps its list of passes in one static object, which concurrent
  handlers would share, and fails an internal check once any error was reported.
* A parser loop that goes through a default case is not detected, and the name
  space of a parser state that ends in a select is not left.
* `compareNat` orders update files; it is not a strict weak ordering (two equal
  names without digits, numbers of more than 31 bits).

### Bounds

* `MaxRequests` 3 (4 for the server) and `MaxBatch` 2: insert, replace and
  delete of an entry fit in three requests, and two updates in one batch are
  enough for one to hide the effect of the other. Empty batches are included.
* `MaxEntries` 2 against three matches of `acl` (3 against four in
  `MCTableAssignments`): the limit is crossed in both directions. The code's
  value is a constant too.
* Three packets: one matched by `fwd` and `acl`, two matched by `acl` only.
* `MCTableAssignments` has overlapping matches, one of them matching all packets
  and neither first nor last in the order, so that every order of wrapping occurs.
* `MatchKeys`: values are vectors of bits; width 2 has prefix lengths 0, 1 and full, masks that are and are
  not prefixes, and ranges with interior values; two fields are the fewest for
  which one can be right and the other wrong, or one missing.
* `MaxCases` 4 with three labels and a default: a kept case, a fall-through
  label, a dropped case and a case after it. `DeadFallThrough = FALSE` excludes
  an unreachable fall-through label right after a case with a statement.
* `MCInterpreter`: four statements, two levels of nesting, four symbolic variables
  (one input, and a header, a table or extern results) and two nodes besides those
  of the table. Two branches that write and read the same variable, a table within
  a branch, an extern call or an extraction in one branch of two, and a select case
  that overlaps an earlier one all fit. `Platforms` has the two targets with the
  richest externs; the methods of the others have the same effects. Every node is
  visited once, a table is applied once, a packet extracts the header once, and
  `setValid` is called on an invalid header.
* `MCRewriting`: width 2 has a value that is neither zero nor all ones; Muxes are
  nested two and three deep with conditions that repeat, are negated or occur in a
  connective; strength reduction sees two levels, the smallest in which a rule sees
  the result of another.
* `MCConcurrent`: two handlers and three Writes, so that one handler can overtake
  another twice; two updates in a Write; an insert or a delete that fails. Two
  tables, one of which decides about the other, so that Writes to different tables
  contest a node.

Deadlock is checked in all runs of the service, whose specification stutters
explicitly after `Exit`. `SwitchElimination`, `MatchKeys` and `SimplifyExpression`
stop when their loop or list of passes is over, `SymbolicExecution` and
`ConcurrentService` at their bounds, so their configurations disable the check.

### Fairness

`FairSpec` has weak fairness of `Process`: once a request has been received, the
thread that handles it keeps running, because the code between receipt and
answer waits for nothing. Nothing is assumed about the arrival of requests.
`RequestAnswered` uses it. `ConcurrentService` has weak fairness of the steps of
each handler separately: every handler has a thread of its own and waits for no
other. `EveryWriteAnswered` uses that.

## 4. Proofs

All theorems hold for every program, every set of messages, any number of
tables, entries, packets and handlers, and unbounded batches and request counts.
`PartialEvaluationProofs` has the lemmas about conversions and verdicts that the
sequential and the concurrent service share. Every inductive invariant was
checked by TLC on the instance of its run before it was proved.

### The service (`FlayServiceProofs`)

* `TypeCorrect`: `Spec => []TypeOK`. The lemmas go through the conversions, one
  early return at a time.
* `IncrementalReachability`: with symbol sets and without BFRuntime wildcard
  deletes (`NoWildcardDelete`), `Spec => []ReachabilityExact`. `ReachabilityExact`
  is not inductive, since it says nothing while a batch is converted. The
  inductive invariant `Agreement` says that in that stage every node that mentions
  *none* of the symbols collected so far is exact. It is preserved because of three
  facts, each a lemma: a successful conversion changes only a table whose action
  choice it reports (`ConvertFrame`); the verdict of a node depends only on the
  tables it reads (`VerdictFrame`); and the symbols of a node contain the action
  choice of each of these (`NodeMentionsChoice`). The last one needs that an action
  is not both `@defaultonly` and `@tableonly` and that some action of each table is
  not `@defaultonly` (`AnnotationsAssumption`). The two hypotheses of the theorem
  are necessary: without symbol sets nothing is recomputed, and wildcard deletes
  violate the property.
* `WrapperProgramCurrent`: in the wrapper, `Spec => []OptimizedCurrent`. The
  invariant `Currency` adds that an error implies the wrapper has exited with a
  failure. The server run `server_after_failure` shows why it has to be the
  wrapper.
* `FailureIsHarmless`: `Spec => FailureKeepsProgram`, for server and wrapper.
* `ProfileTablesAgree`: `Spec => []AssociatedTablesAgree` under `SharedProfiles`:
  a table belongs to at most one profile and its own messages are skipped,
  different members have different matches, and the program declares no entries
  for them. The inductive invariant `ProfileAgreement` is the property in every
  state before the first error, also between two updates of a batch. Its core is
  `MemberEntryUpdated`: whatever the table, a successful message leaves the same
  entry for a member. After a failure at a later table the tables do differ, and
  the property says nothing.
* `SpecializationsAccounted`: with symbol sets and batches only,
  `Spec => []RespecializationsBounded`. The invariant `Accounted` keeps one update
  in reserve while there is something to convert or a symbol was collected; an
  *empty* batch has none, but then nothing is recomputed (`NothingToRecompute`). The
  overload for a single update counts twice, so it is excluded.

### The optimized program (`PartialEvaluationProofs`, `FlayRefinementProofs`)

* `SpecializationPreserves` is about one configuration: if the verdicts are exact
  and the constants sound, the specialized program does to every packet what the
  original one does. The lemmas follow a packet: the entry it matches and the
  default action it would run are *possible* values of the control-plane variables
  (`MatchIsPossible`, `MissIsPossible`, `OverrideIsPossible`), hence so is the
  branch it takes (`BranchIsPossible`); a decided verdict agrees with every possible
  value (`BranchVerdictSound`); so the packet reaches the same applications
  (`SameReached`), the action it runs is kept (`PossibleActionKept`) or the default
  call does the same (`ReplacedRunsDefault`), and the argument it reads is the
  constant that replaced it (`ComputedConstantSound`, `SameBody`).
* `ConstantsAreRight` and `OptimizationPreservesProgram`:
  `Spec => []SubstitutionSound` and `Spec => []OptimizedEquivalent`. A MODIFY reports
  the symbols of the new action only, so constants are not exact and "the constant
  is what a full recomputation would give" is not an invariant. The inductive
  invariant `Sound` says that every configuration is one that admissible messages
  can produce (`Configured`), that every constant whose symbol was *not* collected
  is the value of the expression for all packets that reach it (`Constants`), and
  that the program follows the maps (`ProgramFollows`). It is used on top of
  `Agreement`.
* `WrapperImplementsAbstractFlay`: in the wrapper, `Spec => ImplementsAbstractFlay`.
  Conversions map to steps of the abstract configuration (`SameConversion`), the
  check and the specialization to the answer (`AnswerRefines`), everything else to
  stuttering. The interesting case is the answer without specialization; it uses
  `OptimizedEquivalent` for a program nobody has touched.

Hypotheses: symbol sets, no wildcard deletes, and `Admissible`, which the program
of the `wrapper` run satisfies (assumption `WrapperAdmissible`, evaluated by TLC).
Each of its conditions excludes something the code does:

| Condition | Code |
|---|---|
| entries call the default action of the program with the argument of the program only | the elimination of a table skips actions with the name of the default action (`elim_dead_code.cpp:172`), and the first mapping of an expression is kept |
| an overriding default action has no parameter, is not `@defaultonly`, and is set for tables without key that decide no condition | arguments of an overridden default are assigned like those of entries; the first entry assigns the choice variable unconditionally |
| entries of a table match different packets | priorities are not looked at |
| a table that decides a condition has empty actions, or an empty default action and a packet it never matches | `preorder(Member)` and dead branches take the application with them (`elim_dead_code.cpp:140`) |

`NestingAssumption` says that if statements are nested: a table under a condition
is under everything that condition is under.

### Concurrent handlers (`ConcurrentServiceProofs`)

* `TypeCorrect`: `Spec => []TypeOK`.
* `StaleVerdictsAreContested`: without wildcard deletes, `Spec => []UncontestedExact`.
  The invariant `HolderRepairs` names, for every node that is not contested, at most
  one handler with symbols of the node in hand (`OneHolder`); while there is none
  the verdict is exact, and while there is one that handler is on its way to make
  it exact: it is still converting, or has read constraints that are current for
  the node, or has written the verdict (`Custody`).
* `OutdatedProgramsOverlapped`: `Spec => []CurrentUnlessOverlapped`. The invariant
  `ProgramFollows` says that as long as nothing overlapped, a program that is out of
  date is *owed* by some handler that will specialize (`Owes`). It is needed
  because a handler may find nothing changed and return while another one, which
  wrote the verdicts, has not stored the program yet.

### Loops

* `LoopComputesClosedForm` and `ChoiceAgreesWithLookup` (`TableAssignmentsProofs`):
  `Spec => []LoopMeetsClosedForm` and `Spec => []ChoiceIsLookup`, for any entries,
  overlapping ones too. The loop invariant `LoopInv` says that the entries seen come
  before those remaining, and that every variable has the value of the last entry
  seen that matches, or of the default, or of the *first* entry seen that assigns it
  (`Wrapped`). This justifies the closed form `AssignedValues` the services use.
* `EliminationPreservesSwitch` (`SwitchEliminationProofs`): with
  `DeadFallThrough = FALSE`, `Spec => []SwitchPreserved` for switches of any length.
  The loop invariant `SwitchInv` says that `previousFallThrough` is right about the
  last case seen *and* about the last one kept (`FlagRight`), and that every case a
  possible value selects has a counterpart among those kept that runs the same
  statement or has fallen through so far (`Followed`). With an unreachable
  fall-through label after a case with a statement `FlagRight` fails, and so does
  the property.

### The interpreter (`SymbolicExecutionProofs`)

* `TypeCorrect`: `Spec => []TypeOK`. The invariant `Typed` adds that the variables
  of an extracted header are among those created. The effects of all extern
  implementations of the four targets are part of it (`KnownExterns`).
* `ExecutionExact`: `Spec => []StateExact` for every program, any tables, targets,
  numbers of symbolic variables and depth of nesting, if the program calls none of
  the four methods in `Unfaithful`, for which the property fails. `StateExact` is
  about the current branch only. The inductive invariant `Exact` accounts for every
  packet of every enclosing frame (`Recorded`): it is in the branch that executes;
  or it took no branch so far and is described by the state that was cloned; or it
  is described by *exactly one* of the states that wait to be merged and excluded by
  the execution conditions of all others (`Waiting`); or it has been merged. The
  exclusion is what merging rests on, since `ExecutionState::merge` takes the values
  of every state whose condition holds, in order. It comes from the labels of a
  switch being different and from the negated conditions a select collects
  (`Matched`). A statement without branches is handled once, as a step that treats
  the packets of the state alike and leaves all others alone (`Faithful`); one lemma
  shows this of each statement, and `StatementExact` that frames survive it. For a
  table it is `TableExact`: the default action, then all actions in clones of the
  state before the table, leave each packet where its own action would.
* `VerdictsDecideNodes`: `Spec => []VerdictsExact` for the same programs, if the body
  of a program default action does not test its parameter (`FixedDefaults`); section
  3 says why the property fails otherwise. `VerdictsExact` looks at the one state
  that is left after the outermost branch. While branches are open, the conditions of
  nodes are spread over maps: that of the executing state, those of the states that
  wait to be merged, and those of the states that were cloned (`Maps`). The
  inductive invariant `Verdicts` says that no map mentions a node before it is
  visited, that *every* map that mentions it has a condition that decides the node
  for all packets that came there (`Right`), and that some map mentions it
  afterwards. "Every" is what a merge needs, since `mergeAnnotationMapping` keeps
  whichever condition it finds first; "some" is why no node is forgotten when a
  state is dropped. `Exact` is used where a node gets its condition: the packets of
  the state are those of the branch (`TestExact`). A table visits its nodes twice,
  for the default action and for the actions in the clones, and `TableVerdicts`
  shows that both conditions agree.

### Match keys (`MatchKeysProofs`)

* `ConditionClaimsNoOther`: `Spec => []CertainMatchIsReal` for keys of any length over
  fields of any width, if no field is `lpm` and `resolveKey` drops no literal (keys
  with a literal next to a packet field are excluded). `ConditionExcludesNone`:
  `Spec => []RealMatchIsPossible`, if no field is `lpm`, no range has a single value
  and no optional field is absent. The hypotheses are sharper than the bounds of
  `match_keys`: a dropped literal can only make an entry match too much, the other
  cases only too little. The invariant `Conversions` ties every converted field to
  the result of its conversion; `FieldExact` compares, for each kind, target and way
  of writing a field, the constraint of the kind with what P4 accepts. Since a value
  is the vector of its bits and `AtMost` compares from the left, no induction over
  the width is needed. `lpm` is excluded because of the finding of `lpm_prefix`.

### Only model-checked

* `RequestAnswered` and `EveryWriteAnswered`: liveness, which the prover does not
  handle.
* `SimplifyExpression`: the passes are recursive over expressions and use bitwise
  operators.

## 5. What is not modelled

* Priorities of entries: the code stores them and reads them nowhere
  (`CompareTableMatch` is not used), and neither does the model. `ChoiceIsLookup`
  is about packets that match one entry.
* Messages whose match type differs from the kind of the field; P4Runtime forbids
  them and the code does not look.
* Clone sessions and the placeholder of `instance_type`; copy-in and copy-out of
  blocks, header stacks, lists and structs as values; casts.
* Two applications of one table: its variables and its key match are shared, and
  the code does not say what the configuration means for the first application.
* `--skip-parsers`, parser loops (the code gives up) and name spaces.
* Data races below the level of a whole container, and the counters, when handlers
  overlap. `flay.cpp` starts the server only under `FLAY_WITH_GRPC`.
* The order of update files, which depends on the characters of their names; the
  model takes messages in every order.
* Output files, statistics, timing, options and tools, the map from identifiers to
  IR nodes: no state that a property could relate.
* Pipelines and program infos of the targets, and Tofino's control-plane
  architecture: declarations without operations.

## 6. Plan

Done: the request pipeline with the conversions, the incremental maps, the
specializer on tables, action profiles and match keys; the abstract service and
the refinement; concurrent handlers; the interpreter with its externs; the
rewriting passes; the proofs of section 4. Every safety property of the passing
runs is a theorem, except for those of the rewriting passes. Left, in order:

1. Parser pruning and header-validity calls in the specializer.
2. A second application of a table, once the code says what it means.
3. The rewriting passes one node at a time, with the value of the operands as a
   parameter, so that what a single rewrite preserves can be proved.
