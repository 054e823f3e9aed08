-------------------------- MODULE FlayServiceProofs --------------------------
(***************************************************************************)
(* Proofs about FlayService for all values of its constants: type correct- *)
(* ness, agreement of the incremental with the full recomputation of the   *)
(* reachability verdicts, and currency of the optimized program.           *)
(***************************************************************************)
EXTENDS FlayService, PartialEvaluationProofs

-----------------------------------------------------------------------------
(* Type correctness.                                                        *)

\* initialize() leaves a well-formed state.
LEMMA InitType == Init => TypeOK
<1> SUFFICES ASSUME Init PROVE TypeOK
  OBVIOUS
<1>1. constraints \in [Tables -> TableConfiguration]
  BY InitialConfigurationType DEF Init
<1>2. reachability \in [Nodes -> Verdicts]
  BY VerdictType DEF Init, InitialReachability
<1>3. substitution \in [Expressions -> Args \cup {Unassigned}]
  BY ConstantType DEF Init, InitialSubstitution
<1>4. optimized \in Programs
  BY <1>2, <1>3, SpecializeType DEF Init
<1>5. QED
  BY <1>1, <1>2, <1>3, <1>4 DEF Init, TypeOK

\* Every step of the service keeps the state well formed.
LEMMA NextType == TypeOK /\ [Next]_vars => TypeOK'
<1> SUFFICES ASSUME TypeOK, [Next]_vars PROVE TypeOK'
  OBVIOUS
<1> USE DEF TypeOK
<1>1. ASSUME NEW n \in 0..MaxBatch, NEW entry \in EntryPoints,
             ReceiveRequest(n, entry)
      PROVE  TypeOK'
  BY <1>1, ServiceAssumption DEF ReceiveRequest, maps
<1>2. ASSUME NEW msg \in Messages, ConvertUpdate(msg)
      PROVE  TypeOK'
  <2>1. msg \in Message
    BY ApiAssumption
  <2>2. /\ constraints' \in [Tables -> TableConfiguration]
        /\ ConvertControlPlaneUpdate(constraints, msg).symbols \subseteq Symbols
    BY <1>2, <2>1, ConvertType DEF ConvertUpdate
  <2>3. /\ remaining' \in Nat
        /\ symbolSet' \subseteq Symbols
        /\ pc' \in {"idle", "convert", "specialize", "exit"}
        /\ hasErrors' \in BOOLEAN
        /\ result' \in {"ok", "failed"}
    <3> DEFINE converted == ConvertControlPlaneUpdate(constraints, msg)
    <3>1. CASE /\ remaining' = remaining - 1
               /\ symbolSet' = symbolSet \cup converted.symbols
               /\ UNCHANGED <<pc, hasErrors, result>>
      BY <1>2, <2>2, <3>1 DEF ConvertUpdate
    <3>2. CASE hasErrors' = TRUE /\ Finish("failed")
      BY <3>2 DEF Finish
    <3>3. QED
      BY <1>2, <3>1, <3>2 DEF ConvertUpdate
  <2>4. QED
    BY <1>2, <2>2, <2>3 DEF ConvertUpdate, maps, counters
<1>3. CASE CheckForSemanticsChange
  <2>1. reachability' \in [Nodes -> Verdicts]
    BY <1>3, VerdictType DEF CheckForSemanticsChange, RecomputeReachability
  <2>2. substitution' \in [Expressions -> Args \cup {Unassigned}]
    BY <1>3, ConstantType DEF CheckForSemanticsChange, RecomputeSubstitution
  <2>3. /\ remaining' \in Nat
        /\ symbolSet' \subseteq Symbols
        /\ pc' \in {"idle", "convert", "specialize", "exit"}
        /\ result' \in {"ok", "failed"}
    BY <1>3 DEF CheckForSemanticsChange, Finish
  <2>4. QED
    BY <1>3, <2>1, <2>2, <2>3 DEF CheckForSemanticsChange, counters
<1>4. CASE SkipCheck
  BY <1>4 DEF SkipCheck, maps, counters
<1>5. CASE SpecializeProgram
  <2>1. Specialize(reachability, substitution) \in Programs
    BY SpecializeType
  <2>2. optimized' \in Programs /\ respecCount' \in Nat
    BY <1>5, <2>1 DEF SpecializeProgram, RespecIncrement
  <2>3. /\ remaining' \in Nat
        /\ symbolSet' \subseteq Symbols
        /\ pc' \in {"idle", "convert", "specialize", "exit"}
        /\ result' \in {"ok", "failed"}
    BY <1>5 DEF SpecializeProgram, Finish
  <2>4. QED
    BY <1>5, <2>2, <2>3 DEF SpecializeProgram, maps
<1>6. CASE Exit
  BY <1>6 DEF Exit, maps, counters
<1>7. CASE UNCHANGED vars
  BY <1>7 DEF vars
<1>8. QED
  BY <1>1, <1>2, <1>3, <1>4, <1>5, <1>6, <1>7 DEF Next, Process, Terminated

\* For all programs, messages and bounds, the state of FlayServiceBase and of
\* PartialEvaluation stays well formed: every table keeps a configuration, every
\* node a verdict, whatever a conversion did before it failed.
THEOREM TypeCorrect == Spec => []TypeOK
  BY InitType, NextType, PTL DEF Spec

-----------------------------------------------------------------------------
(* Agreement of the incremental with the full recomputation.                *)

\* Node n has the verdict of the current constraints.
Exact(n) == reachability[n] = NodeReachability(constraints, n)

\* While updates are being converted only the nodes that mention none of the
\* symbols collected so far are known to be exact; otherwise all nodes are.
Agreement ==
    ~hasErrors =>
        \A n \in Nodes :
            (pc = "convert" => ReachabilitySymbols(n) \cap symbolSet = {}) => Exact(n)

\* initialize() computes the verdict of every node from the initial constraints.
LEMMA InitAgreement == Init => Agreement
  BY DEF Init, Agreement, Exact, InitialReachability

\* Agreement is inductive: a table whose configuration differs from the one the
\* verdicts were computed for has its action choice among the symbols of the batch.
LEMMA NextAgreement ==
    ASSUME UseSymbolSet, NoWildcardDelete
    PROVE  TypeOK /\ Agreement /\ [Next]_vars => Agreement'
<1> SUFFICES ASSUME TypeOK, Agreement, [Next]_vars, ~hasErrors', NEW n \in Nodes,
                    pc' = "convert" => ReachabilitySymbols(n) \cap symbolSet' = {}
             PROVE  Exact(n)'
  BY DEF Agreement
<1>1. ASSUME NEW m \in 0..MaxBatch, NEW entry \in EntryPoints,
             ReceiveRequest(m, entry)
      PROVE  Exact(n)'
  BY <1>1 DEF ReceiveRequest, maps, Agreement, Exact
<1>2. ASSUME NEW msg \in Messages, ConvertUpdate(msg)
      PROVE  Exact(n)'
  <2> DEFINE converted == ConvertControlPlaneUpdate(constraints, msg)
  <2>1. /\ converted.ok
        /\ constraints' = converted.constraints
        /\ symbolSet' = symbolSet \cup converted.symbols
        /\ pc = "convert" /\ pc' = "convert"
        /\ ~hasErrors
        /\ reachability' = reachability
    BY <1>2 DEF ConvertUpdate, maps
  <2>2. Exact(n)
    BY <2>1 DEF Agreement
  <2>3. \A t \in Reads(n) : ChoiceSymbol(t) \notin converted.symbols
    BY <2>1, NodeMentionsChoice
  <2>4. Reads(n) \subseteq Tables
    BY ReadsTables DEF Reads
  <2>5. \A t \in Reads(n) : converted.constraints[t] = constraints[t]
    BY <2>1, <2>3, <2>4, ConvertFrame DEF TypeOK
  <2>6. NodeReachability(constraints', n) = NodeReachability(constraints, n)
    <3> HIDE DEF converted
    <3>1. NodeReachability(converted.constraints, n) = NodeReachability(constraints, n)
      BY <2>5, VerdictFrame
    <3>2. QED
      BY <2>1, <3>1
  <2>7. QED
    BY <2>1, <2>2, <2>6 DEF Exact
<1>3. CASE CheckForSemanticsChange
  <2>1. /\ reachability' = RecomputeReachability(reachability, symbolSet, constraints)
        /\ constraints' = constraints
        /\ pc = "convert"
        /\ ~hasErrors
    BY <1>3 DEF CheckForSemanticsChange
  <2>2. CASE ReachabilitySymbols(n) \cap symbolSet = {}
    BY <2>1, <2>2 DEF RecomputeReachability, Agreement, Exact
  <2>3. CASE ReachabilitySymbols(n) \cap symbolSet # {}
    BY <2>1, <2>3 DEF RecomputeReachability, Exact
  <2>4. QED
    BY <2>2, <2>3
<1>4. CASE SkipCheck
  BY <1>4 DEF SkipCheck
<1>5. CASE SpecializeProgram
  BY <1>5 DEF SpecializeProgram, maps, Agreement, Exact
<1>6. CASE Exit
  BY <1>6 DEF Exit, maps, Agreement, Exact
<1>7. CASE UNCHANGED vars
  BY <1>7 DEF vars, Agreement, Exact
<1>8. QED
  BY <1>1, <1>2, <1>3, <1>4, <1>5, <1>6, <1>7 DEF Next, Process, Terminated

\* With symbol sets and without wildcard deletes, recomputing only the nodes
\* that mention a reported symbol (recomputeReachability with a symbol set)
\* leaves every node with the verdict of a full recomputation: for every
\* program, every batch size and every sequence of requests, of the server as
\* well as of the wrapper.
THEOREM IncrementalReachability ==
    ASSUME UseSymbolSet, NoWildcardDelete
    PROVE  Spec => []ReachabilityExact
<1>1. TypeOK /\ Agreement => ReachabilityExact
  BY DEF Agreement, ReachabilityExact, Settled, Exact, InitialReachability, TypeOK
<1>2. QED
  BY <1>1, TypeCorrect, InitAgreement, NextAgreement, PTL DEF Spec

-----------------------------------------------------------------------------
(* Currency of the optimized program.                                       *)

\* An error ends the wrapper, so a specialization always succeeds; and outside
\* of a pending specialization the program is that of the current maps.
Currency ==
    /\ hasErrors => pc = "exit" /\ result = "failed"
    /\ (~hasErrors /\ pc # "specialize") =>
          optimized = Specialize(reachability, substitution)

\* Currency is inductive: in the wrapper a request that fails ends the service, so
\* maps that changed are always followed by a specialization.
LEMMA NextCurrency ==
    ASSUME ~Server
    PROVE  Currency /\ [Next]_vars => Currency'
<1> SUFFICES ASSUME Currency, [Next]_vars PROVE Currency'
  OBVIOUS
<1>1. ASSUME NEW m \in 0..MaxBatch, NEW entry \in EntryPoints,
             ReceiveRequest(m, entry)
      PROVE  Currency'
  BY <1>1 DEF ReceiveRequest, maps, Currency
<1>2. ASSUME NEW msg \in Messages, ConvertUpdate(msg)
      PROVE  Currency'
  BY <1>2 DEF ConvertUpdate, Finish, maps, Currency
<1>3. CASE CheckForSemanticsChange
  <2>1. pc = "convert" /\ ~hasErrors /\ hasErrors' = hasErrors /\ optimized' = optimized
    BY <1>3 DEF CheckForSemanticsChange, Currency
  <2>2. CASE pc' = "specialize"
    BY <2>1, <2>2 DEF Currency
  <2>3. CASE maps' = maps
    BY <2>1, <2>3 DEF maps, Currency
  <2>4. QED
    BY <1>3, <2>2, <2>3 DEF CheckForSemanticsChange
<1>4. CASE SkipCheck
  BY <1>4 DEF SkipCheck, maps, Currency
<1>5. CASE SpecializeProgram
  BY <1>5 DEF SpecializeProgram, Finish, maps, Currency
<1>6. CASE Exit
  BY <1>6 DEF Exit, maps, Currency
<1>7. CASE UNCHANGED vars
  BY <1>7 DEF vars, Currency
<1>8. QED
  BY <1>1, <1>2, <1>3, <1>4, <1>5, <1>6, <1>7 DEF Next, Process, Terminated

\* In the wrapper, which stops at the first failure, every request that was
\* answered with success leaves the specialization of the current verdicts, with
\* and without symbol sets and for both entry points: skipping specialization
\* when checkForSemanticsChange found no change is never wrong.
THEOREM WrapperProgramCurrent ==
    ASSUME ~Server
    PROVE  Spec => []OptimizedCurrent
<1>1. Init => Currency
  BY DEF Init, Currency
<1>2. TypeOK /\ Currency => OptimizedCurrent
  BY DEF Currency, OptimizedCurrent, TypeOK
<1>3. QED
  BY <1>1, <1>2, TypeCorrect, NextCurrency, PTL DEF Spec

\* Whatever the constants, a failed request (of the server or the wrapper) never
\* changes the optimized program.
THEOREM FailureIsHarmless == Spec => FailureKeepsProgram
<1>1. [Next]_vars => [result' = "failed" => optimized' = optimized]_vars
  <2> SUFFICES ASSUME Next, result' = "failed" PROVE optimized' = optimized
    BY DEF vars
  <2>1. CASE SpecializeProgram
    BY <2>1 DEF SpecializeProgram, Finish
  <2>2. CASE ~SpecializeProgram
    BY <2>2 DEF Next, Process, ReceiveRequest, ConvertUpdate,
                CheckForSemanticsChange, SkipCheck, Exit, Terminated, vars
  <2>3. QED
    BY <2>1, <2>2
<1>2. QED
  BY <1>1, PTL DEF Spec, FailureKeepsProgram
-----------------------------------------------------------------------------
(* Tables associated with an action profile.                                *)

\* BFRuntime; a table belongs to at most one profile, and its own messages are
\* skipped; members have different matches in every table; the program declares
\* no entries for members.
SharedProfiles ==
    /\ Api = "BFRUNTIME"
    /\ \A p \in Profiles : AssociatedTables[p] \subseteq ImplementedTables
    /\ \A p, q \in Profiles : p # q => AssociatedTables[p] \cap AssociatedTables[q] = {}
    /\ \A p \in Profiles : \A t \in AssociatedTables[p] : \A m \in Members :
          /\ MemberMatch[t][m] \in Matches
          /\ InitEntries[t][MemberMatch[t][m]] = NoEntry
          /\ \A n \in Members : MemberMatch[t][m] = MemberMatch[t][n] => m = n

\* The entry of member m in the configuration c of table t.
MemberEntry(c, t, m) == c.entries[MemberMatch[t][m]]

\* The tables of every profile agree on member m, also within a batch.
Agree(cs) ==
    \A p \in Profiles : \A t, u \in AssociatedTables[p] : \A m \in Members :
        MemberEntry(cs[t], t, m) = MemberEntry(cs[u], u, m)

\* What a message makes of the entry of member m, whatever the table.
NewEntry(msg, m, old) ==
    IF msg.type = "DELETE" /\ msg.action = NoData THEN NoEntry
    ELSE IF m # msg.match THEN old
    ELSE IF msg.type = "DELETE" THEN NoEntry ELSE CallOf(msg)

\* Setting a default action leaves the entries alone.
LEMMA DefaultKeepsEntries ==
    ASSUME NEW c \in TableConfiguration, NEW msg
    PROVE  WithDefault(c, msg).entries = c.entries
  BY DEF WithDefault, SetDefaultTableAction, TableConfiguration

\* A successful update of one associated table has the effect NewEntry says.
LEMMA MemberEntryUpdated ==
    ASSUME SharedProfiles, NEW p \in Profiles, NEW t \in AssociatedTables[p],
           NEW c \in TableConfiguration, NEW msg \in Message, NEW m \in Members,
           UpdateConfiguration(c, ForTable(msg, t)).ok
    PROVE  MemberEntry(UpdateConfiguration(c, ForTable(msg, t)).cfg, t, m)
             = NewEntry(msg, m, MemberEntry(c, t, m))
<1> DEFINE tmsg == ForTable(msg, t)
           d == WithDefault(c, tmsg)
<1>1. t \in Tables
  BY ProfilesAssumption
<1>2. tmsg \in Message /\ tmsg.table = t
  BY <1>1, ForTableType
<1>3. /\ tmsg.type = msg.type /\ tmsg.action = msg.action /\ CallOf(tmsg) = CallOf(msg)
      /\ tmsg.match = IF msg.match \in Members THEN MemberMatch[t][msg.match] ELSE BadMatch
  BY DEF ForTable, Message, CallOf
<1>4. MemberMatch[t][m] \in Matches
  BY DEF SharedProfiles
<1>5. d.entries = c.entries
  BY DefaultKeepsEntries
<1>6. CASE msg.type = "DELETE" /\ msg.action = NoData
  <2>1. UpdateConfiguration(c, tmsg).cfg = ClearTableEntries(d)
    BY <1>3, <1>6 DEF UpdateConfiguration, Updated, SharedProfiles
  <2>2. d \in TableConfiguration
    BY <1>2, <1>3, <1>6, CallType, SetDefaultType
       DEF WithDefault, UpdateConfiguration, Updated
  <2>3. ClearTableEntries(d).entries = [n \in Matches |-> NoEntry]
    BY <2>2 DEF ClearTableEntries, TableConfiguration
  <2>4. QED
    BY <1>4, <1>6, <2>1, <2>3 DEF MemberEntry, NewEntry
<1>7. CASE ~(msg.type = "DELETE" /\ msg.action = NoData)
  <2>1. UpdateConfiguration(c, tmsg) = UpdateEntry(d, tmsg)
    BY <1>3, <1>7 DEF UpdateConfiguration, Updated
  <2>2. ConvertibleEntry(tmsg) /\ UpdateConfiguration(c, tmsg).cfg = ApplyEntry(d, tmsg).cfg
        /\ ApplyEntry(d, tmsg).ok
    BY <2>1 DEF UpdateEntry, Updated
  <2>3. msg.match \in Members /\ tmsg.match \in Matches
    <3>1. tmsg.match \in Matches
      BY <1>1, <1>2, <2>2, MatchesAssumption DEF ConvertibleEntry, ConvertibleMatch
    <3>2. QED
      BY <1>3, <3>1, ApiAssumption
  <2>4. d \in TableConfiguration
    BY <1>2, <2>2, CallType, SetDefaultType DEF WithDefault, ConvertibleEntry
  <2>5. MemberMatch[t][m] = tmsg.match <=> m = msg.match
    BY <1>3, <2>3 DEF SharedProfiles
  <2>6. ApplyEntry(d, tmsg).cfg
          = [d EXCEPT !.entries[tmsg.match] =
                IF msg.type = "DELETE" THEN NoEntry ELSE CallOf(msg)]
    BY <1>3, <2>2 DEF ApplyEntry, AddTableEntry, DeleteTableEntry
  <2>7. ApplyEntry(d, tmsg).cfg.entries[MemberMatch[t][m]]
          = IF m = msg.match THEN (IF msg.type = "DELETE" THEN NoEntry ELSE CallOf(msg))
            ELSE d.entries[MemberMatch[t][m]]
    BY <1>4, <2>3, <2>4, <2>5, <2>6 DEF TableConfiguration
  <2>8. QED
    BY <1>5, <1>7, <2>2, <2>7 DEF MemberEntry, NewEntry
<1>8. QED
  BY <1>6, <1>7

\* A message that is converted successfully keeps the tables in agreement.
LEMMA ConvertAgrees ==
    ASSUME SharedProfiles, NEW cs \in [Tables -> TableConfiguration],
           NEW msg \in Message, Agree(cs), ConvertControlPlaneUpdate(cs, msg).ok
    PROVE  Agree(ConvertControlPlaneUpdate(cs, msg).constraints)
<1> DEFINE ds == ConvertControlPlaneUpdate(cs, msg).constraints
<1>1. ConvertControlPlaneUpdate(cs, msg) = BfRuntimeUpdate(cs, msg)
  BY DEF ConvertControlPlaneUpdate, SharedProfiles
<1>2. SUFFICES ASSUME NEW p \in Profiles, NEW t \in AssociatedTables[p],
                      NEW u \in AssociatedTables[p], NEW m \in Members
               PROVE  MemberEntry(ds[t], t, m) = MemberEntry(ds[u], u, m)
  BY DEF Agree
<1>3. /\ t \in Tables /\ u \in Tables
      /\ t \in ImplementedTables /\ u \in ImplementedTables
  BY ProfilesAssumption DEF SharedProfiles
<1>4. CASE msg.table \in Profiles
  <2> DEFINE updated == [v \in AssociatedTables[msg.table] |->
                            UpdateConfiguration(cs[v], ForTable(msg, v))]
  <2>1. BfRuntimeUpdate(cs, msg) = ConfigureActionProfile(cs, msg)
    BY <1>4, ProfilesAssumption DEF BfRuntimeUpdate, SkippedTables
  <2>2. ConfigureActionProfile(cs, msg).ok
    BY <1>1, <2>1
  <2>3. \A v \in AssociatedTables[msg.table] : updated[v].ok
    BY <2>2 DEF ConfigureActionProfile, Converted
  <2>4. \A v \in Tables : ConfigureActionProfile(cs, msg).constraints[v]
                            = IF v \in AssociatedTables[msg.table]
                              THEN updated[v].cfg ELSE cs[v]
    BY <2>3 DEF ConfigureActionProfile, Converted
  <2>5. \A v \in Tables : ds[v] = IF v \in AssociatedTables[msg.table]
                                  THEN updated[v].cfg ELSE cs[v]
    BY <1>1, <2>1, <2>4
  <2>6. CASE p = msg.table
    <3>1. MemberEntry(ds[t], t, m) = NewEntry(msg, m, MemberEntry(cs[t], t, m))
      <4>1. UpdateConfiguration(cs[t], ForTable(msg, t)).ok
        BY <2>3, <2>6
      <4>2. ds[t] = UpdateConfiguration(cs[t], ForTable(msg, t)).cfg
        BY <1>3, <2>5, <2>6
      <4>3. cs[t] \in TableConfiguration
        BY <1>3
      <4> HIDE DEF ds
      <4>4. QED
        BY <4>1, <4>2, <4>3, MemberEntryUpdated
    <3>2. MemberEntry(ds[u], u, m) = NewEntry(msg, m, MemberEntry(cs[u], u, m))
      <4>1. UpdateConfiguration(cs[u], ForTable(msg, u)).ok
        BY <2>3, <2>6
      <4>2. ds[u] = UpdateConfiguration(cs[u], ForTable(msg, u)).cfg
        BY <1>3, <2>5, <2>6
      <4>3. cs[u] \in TableConfiguration
        BY <1>3
      <4> HIDE DEF ds
      <4>4. QED
        BY <4>1, <4>2, <4>3, MemberEntryUpdated
    <3>3. QED
      BY <3>1, <3>2 DEF Agree
  <2>7. CASE p # msg.table
    <3>1. ds[t] = cs[t] /\ ds[u] = cs[u]
      BY <1>3, <1>4, <2>5, <2>7 DEF SharedProfiles
    <3>2. QED
      BY <3>1 DEF Agree
  <2>8. QED
    BY <2>6, <2>7
<1>5. CASE msg.table \notin Profiles
  <2>1. ds[t] = cs[t] /\ ds[u] = cs[u]
    BY <1>1, <1>3, <1>5
       DEF BfRuntimeUpdate, SkippedTables, Converted, UpdateTableEntry
  <2>2. QED
    BY <2>1 DEF Agree
<1>6. QED
  BY <1>4, <1>5

\* The inductive invariant: the tables agree as long as no error was reported.
ProfileAgreement == ~hasErrors => Agree(constraints)

\* Every step keeps the tables in agreement.
LEMMA NextAgree ==
    ASSUME SharedProfiles
    PROVE  TypeOK /\ ProfileAgreement /\ [Next]_vars => ProfileAgreement'
<1> SUFFICES ASSUME TypeOK, ProfileAgreement, [Next]_vars, ~hasErrors'
             PROVE  Agree(constraints')
  BY DEF ProfileAgreement
<1>1. ASSUME NEW msg \in Messages, ConvertUpdate(msg)
      PROVE  Agree(constraints')
  <2>1. /\ ConvertControlPlaneUpdate(constraints, msg).ok
        /\ constraints' = ConvertControlPlaneUpdate(constraints, msg).constraints
        /\ ~hasErrors
    BY <1>1 DEF ConvertUpdate
  <2>2. msg \in Message /\ constraints \in [Tables -> TableConfiguration]
    BY ApiAssumption DEF TypeOK
  <2>3. Agree(ConvertControlPlaneUpdate(constraints, msg).constraints)
    BY <2>1, <2>2, ConvertAgrees DEF ProfileAgreement
  <2>4. QED
    BY <2>1, <2>3
<1>2. ASSUME ~\E msg \in Messages : ConvertUpdate(msg)
      PROVE  constraints' = constraints /\ ~hasErrors
  BY <1>2 DEF Next, Process, ReceiveRequest, CheckForSemanticsChange, SkipCheck,
              SpecializeProgram, Exit, Terminated, vars
<1>3. QED
  BY <1>1, <1>2 DEF ProfileAgreement

\* The tables associated with an action profile never diverge: as long as nothing
\* failed they hold the same call for every member, although every message is
\* applied to one of them after the other.
THEOREM ProfileTablesAgree ==
    ASSUME SharedProfiles
    PROVE  Spec => []AssociatedTablesAgree
<1>1. Init => ProfileAgreement
  <2> SUFFICES ASSUME Init, NEW p \in Profiles, NEW t \in AssociatedTables[p],
                      NEW m \in Members
               PROVE  MemberEntry(constraints[t], t, m) = NoEntry
    BY DEF ProfileAgreement, Agree
  <2>1. t \in Tables
    BY ProfilesAssumption
  <2>2. constraints[t].entries = InitEntries[t]
    BY <2>1 DEF Init, InitialConfiguration
  <2>3. QED
    BY <2>2 DEF MemberEntry, SharedProfiles
<1>2. ProfileAgreement => AssociatedTablesAgree
  BY DEF ProfileAgreement, Agree, AssociatedTablesAgree, Settled, MemberEntry
<1>3. QED
  BY <1>1, <1>2, TypeCorrect, NextAgree, PTL DEF Spec

-----------------------------------------------------------------------------
(* The number of specializations.                                           *)

\* A request that may still specialize has an update to account for it: one that
\* is still to be converted, or one whose symbols were collected.
Accounted ==
    /\ respecCount <= updateCount
    /\ entryPoint = "batch"
    /\ pc = "convert" /\ (remaining > 0 \/ symbolSet # {}) => respecCount < updateCount
    /\ pc = "specialize" => respecCount < updateCount

\* Without symbols nothing is recomputed and the maps stay what they are.
LEMMA NothingToRecompute ==
    ASSUME NEW r \in [Nodes -> Verdicts],
           NEW s \in [Expressions -> Args \cup {Unassigned}], NEW cs
    PROVE  /\ RecomputeReachability(r, {}, cs) = r
           /\ RecomputeSubstitution(s, {}, cs) = s
<1>1. RecomputeReachability(r, {}, cs) = [n \in Nodes |-> r[n]]
  BY DEF RecomputeReachability
<1>2. RecomputeSubstitution(s, {}, cs) = [e \in Expressions |-> s[e]]
  BY DEF RecomputeSubstitution
<1>3. QED
  BY <1>1, <1>2

\* Accounted is inductive.
LEMMA NextAccounted ==
    ASSUME UseSymbolSet, EntryPoints \subseteq {"batch"}
    PROVE  TypeOK /\ Accounted /\ [Next]_vars => Accounted'
<1> SUFFICES ASSUME TypeOK, Accounted, [Next]_vars PROVE Accounted'
  OBVIOUS
<1>0. updateCount \in Nat /\ respecCount \in Nat /\ remaining \in Nat
  BY DEF TypeOK
<1>1. ASSUME NEW n \in 0..MaxBatch, NEW entry \in EntryPoints,
             ReceiveRequest(n, entry)
      PROVE  Accounted'
  BY <1>0, <1>1, ServiceAssumption DEF ReceiveRequest, Accounted
<1>2. ASSUME NEW msg \in Messages, ConvertUpdate(msg)
      PROVE  Accounted'
  BY <1>0, <1>2 DEF ConvertUpdate, Finish, counters, Accounted
<1>3. CASE CheckForSemanticsChange
  <2>1. symbolSet = {} => maps' = maps
    BY <1>3, NothingToRecompute DEF CheckForSemanticsChange, maps, TypeOK
  <2>2. CASE pc' = "specialize"
    <3>1. symbolSet # {} /\ pc = "convert"
      BY <1>3, <2>1, <2>2 DEF CheckForSemanticsChange, Finish
    <3>2. QED
      BY <1>3, <2>2, <3>1 DEF CheckForSemanticsChange, counters, Accounted
  <2>3. CASE pc' # "specialize"
    BY <1>3, <2>3 DEF CheckForSemanticsChange, Finish, counters, Accounted
  <2>4. QED
    BY <2>2, <2>3
<1>4. CASE SkipCheck
  BY <1>4 DEF SkipCheck
<1>5. CASE SpecializeProgram
  BY <1>0, <1>5 DEF SpecializeProgram, RespecIncrement, Finish, Accounted
<1>6. CASE Exit
  BY <1>6 DEF Exit, counters, Accounted
<1>7. CASE UNCHANGED vars
  BY <1>7 DEF vars, Accounted
<1>8. QED
  BY <1>1, <1>2, <1>3, <1>4, <1>5, <1>6, <1>7 DEF Next, Process, Terminated

\* Batches processed with symbol sets never specialize more often than there were
\* updates, however many batches are empty or report nothing: the statistics Flay
\* prints are consistent.  (The single-update overload counts twice, and without
\* symbol sets an empty batch is specialized too.)
THEOREM SpecializationsAccounted ==
    ASSUME UseSymbolSet, EntryPoints \subseteq {"batch"}
    PROVE  Spec => []RespecializationsBounded
<1>1. Init => Accounted
  BY DEF Init, Accounted
<1>2. Accounted => RespecializationsBounded
  BY DEF Accounted, RespecializationsBounded
<1>3. QED
  BY <1>1, <1>2, TypeCorrect, NextAccounted, PTL DEF Spec
=============================================================================
