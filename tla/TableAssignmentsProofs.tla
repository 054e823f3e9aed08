------------------------ MODULE TableAssignmentsProofs ------------------------
(***************************************************************************)
(* The loop of computeControlPlaneAssignments computes its closed form for *)
(* any table and any entries, overlapping ones included.                   *)
(***************************************************************************)
EXTENDS TableAssignments, TLAPS

-----------------------------------------------------------------------------
(* One variable: base is what the default action assigns, value[m] what     *)
(* entry m does.                                                            *)

\* Entry m is the last, or the first, one of a set.
IsLast(m, S) == m \in S /\ \A n \in S : Rank[n] <= Rank[m]

IsFirst(m, S) == m \in S /\ \A n \in S : Rank[m] <= Rank[n]

\* The entries of S that packet k matches.
MatchedIn(S, k) == {m \in S : k \in Hits[m]}

\* The assignment of a variable after the loop has seen the entries seen of those
\* that assign it.
Wrapped(assignment, base, value, seen) ==
    /\ assignment.present <=> base # Unassigned \/ seen # {}
    /\ \A k \in Packets :
          \/ \E m \in seen : /\ IsLast(m, MatchedIn(seen, k))
                             /\ assignment.value[k] = {value[m]}
          \/ /\ MatchedIn(seen, k) = {}
             /\ base # Unassigned
             /\ assignment.value[k] = {base}
          \/ /\ MatchedIn(seen, k) = {}
             /\ base = Unassigned
             /\ \E m \in seen : IsFirst(m, seen) /\ assignment.value[k] = {value[m]}
          \/ seen = {} /\ base = Unassigned

\* The last entry of a set is unique, since entries with equal rank are equal.
LEMMA LastIsLastOf ==
    ASSUME NEW S, S \subseteq Matches, NEW m, IsLast(m, S)
    PROVE  LastOf(S) = m
<1>1. \A n \in S : Rank[n] \in Nat
  BY MatchesAssumption
<1>2. ASSUME NEW n \in S, \A x \in S : Rank[x] <= Rank[n]
      PROVE  n = m
  <2>1. m \in S /\ Rank[m] = Rank[n]
    BY <1>1, <1>2 DEF IsLast
  <2>2. QED
    BY <2>1, MatchesAssumption
<1>3. m \in S /\ \A x \in S : Rank[x] <= Rank[m]
  BY DEF IsLast
<1>4. (CHOOSE n \in S : \A x \in S : Rank[x] <= Rank[n]) = m
  BY <1>2, <1>3
<1>5. QED
  BY <1>4 DEF LastOf

\* The same for the first one.
LEMMA FirstIsFirstOf ==
    ASSUME NEW S, S \subseteq Matches, NEW m, IsFirst(m, S)
    PROVE  FirstOf(S) = m
<1>1. \A n \in S : Rank[n] \in Nat
  BY MatchesAssumption
<1>2. ASSUME NEW n \in S, \A x \in S : Rank[n] <= Rank[x]
      PROVE  n = m
  <2>1. m \in S /\ Rank[m] = Rank[n]
    BY <1>1, <1>2 DEF IsFirst
  <2>2. QED
    BY <2>1, MatchesAssumption
<1>3. m \in S /\ \A x \in S : Rank[m] <= Rank[x]
  BY DEF IsFirst
<1>4. (CHOOSE n \in S : \A x \in S : Rank[n] <= Rank[x]) = m
  BY <1>2, <1>3
<1>5. QED
  BY <1>4 DEF FirstOf

\* The assignment of the default action is that before any entry was seen.
LEMMA WrappedAtStart ==
    ASSUME NEW base, NEW value, NEW assignment,
           assignment = IF base = Unassigned THEN Absent
                        ELSE Present([k \in Packets |-> {base}])
    PROVE  Wrapped(assignment, base, value, {})
<1>1. assignment.present <=> base # Unassigned
  BY DEF Absent, Present
<1>2. \A k \in Packets : base # Unassigned => assignment.value[k] = {base}
  BY DEF Present
<1>3. \A k : MatchedIn({}, k) = {}
  BY DEF MatchedIn
<1>4. QED
  BY <1>1, <1>2, <1>3 DEF Wrapped

\* A turn of the loop: addConditionally for an entry after all those seen.
LEMMA AddConditionallyWraps ==
    ASSUME NEW base, NEW value, NEW assignment, NEW seen, seen \subseteq Matches,
           NEW m \in Matches, m \notin seen, \A n \in seen : Rank[n] < Rank[m],
           Wrapped(assignment, base, value, seen)
    PROVE  Wrapped(AddConditionally(assignment, m, value[m]), base, value, seen \cup {m})
<1> DEFINE after == AddConditionally(assignment, m, value[m])
           now == seen \cup {m}
<1>1. Rank[m] \in Nat /\ \A n \in seen : Rank[n] \in Nat
  BY MatchesAssumption
<1>2. after.present
  BY DEF AddConditionally, Present
<1>3. ASSUME NEW k \in Packets, k \in Hits[m]
      PROVE  IsLast(m, MatchedIn(now, k)) /\ after.value[k] = {value[m]}
  <2>1. IsLast(m, MatchedIn(now, k))
    BY <1>1, <1>3 DEF IsLast, MatchedIn
  <2>2. after.value[k] = {value[m]}
    BY <1>3 DEF AddConditionally, Present
  <2>3. QED
    BY <2>1, <2>2
<1>4. ASSUME NEW k \in Packets, k \notin Hits[m]
      PROVE  /\ MatchedIn(now, k) = MatchedIn(seen, k)
             /\ assignment.present => after.value[k] = assignment.value[k]
             /\ ~assignment.present => after.value[k] = {value[m]}
  <2>1. MatchedIn(now, k) = MatchedIn(seen, k)
    BY <1>4 DEF MatchedIn
  <2>2. assignment.present => after.value[k] = assignment.value[k]
    BY <1>4 DEF AddConditionally, Present
  <2>3. ~assignment.present => after.value[k] = {value[m]}
    BY <1>4 DEF AddConditionally, Present
  <2>4. QED
    BY <2>1, <2>2, <2>3
<1>5. \A n : IsFirst(n, seen) => IsFirst(n, now)
  BY <1>1 DEF IsFirst
<1>6. seen = {} => IsFirst(m, now)
  BY <1>1 DEF IsFirst
<1>7. \A k : MatchedIn(seen, k) \subseteq seen
  BY DEF MatchedIn
<1> HIDE DEF after
<1>8. ASSUME NEW k \in Packets
      PROVE  \/ \E n \in now : /\ IsLast(n, MatchedIn(now, k))
                               /\ after.value[k] = {value[n]}
             \/ /\ MatchedIn(now, k) = {}
                /\ base # Unassigned
                /\ after.value[k] = {base}
             \/ /\ MatchedIn(now, k) = {}
                /\ base = Unassigned
                /\ \E n \in now : IsFirst(n, now) /\ after.value[k] = {value[n]}
  <2>1. CASE k \in Hits[m]
    BY <1>3, <2>1
  <2>2. CASE k \notin Hits[m] /\ assignment.present
    BY <1>4, <1>5, <2>2 DEF Wrapped
  <2>3. CASE k \notin Hits[m] /\ ~assignment.present
    <3>1. base = Unassigned /\ seen = {}
      BY <2>3 DEF Wrapped
    <3>2. QED
      BY <1>4, <1>6, <1>7, <2>3, <3>1
  <2>4. QED
    BY <2>1, <2>2, <2>3
<1>9. QED
  BY <1>2, <1>8 DEF Wrapped, after

\* Once all entries were seen, the assignment is that of the closed form.
LEMMA WrappedAtEnd ==
    ASSUME NEW c, ~TooManyEntries(c), NEW base, NEW value, DOMAIN value \subseteq Matches,
           NEW assignment, Wrapped(assignment, base, value, DOMAIN value),
           NEW domain, NEW k \in Packets
    PROVE  Substituted(assignment, domain, k) = AssignedValues(c, base, value, domain, k)
<1> DEFINE matching == {m \in DOMAIN value : k \in Hits[m]}
<1>1. MatchedIn(DOMAIN value, k) = matching /\ matching \subseteq Matches
  BY DEF MatchedIn
<1>2. AssignedValues(c, base, value, domain, k)
        = IF matching # {}          THEN {value[LastOf(matching)]}
          ELSE IF base # Unassigned THEN {base}
          ELSE IF DOMAIN value # {} THEN {value[FirstOf(DOMAIN value)]}
          ELSE domain
  BY DEF AssignedValues
<1> HIDE DEF matching
<1>3. ASSUME NEW m, IsLast(m, matching), assignment.value[k] = {value[m]}
      PROVE  matching # {} /\ assignment.value[k] = {value[LastOf(matching)]}
  BY <1>1, <1>3, LastIsLastOf DEF IsLast
<1>4. ASSUME NEW m, IsFirst(m, DOMAIN value), assignment.value[k] = {value[m]}
      PROVE  DOMAIN value # {} /\ assignment.value[k] = {value[FirstOf(DOMAIN value)]}
  BY <1>4, FirstIsFirstOf DEF IsFirst
<1>5. matching # {} => DOMAIN value # {}
  BY DEF matching
<1>6. assignment.present <=> base # Unassigned \/ DOMAIN value # {}
  BY DEF Wrapped
<1>7. CASE \E m \in DOMAIN value : IsLast(m, matching) /\ assignment.value[k] = {value[m]}
  BY <1>2, <1>3, <1>5, <1>6, <1>7 DEF Substituted
<1>8. CASE matching = {} /\ base # Unassigned /\ assignment.value[k] = {base}
  BY <1>2, <1>6, <1>8 DEF Substituted
<1>9. CASE /\ matching = {} /\ base = Unassigned
           /\ \E m \in DOMAIN value : /\ IsFirst(m, DOMAIN value)
                                      /\ assignment.value[k] = {value[m]}
  BY <1>2, <1>4, <1>6, <1>9 DEF Substituted
<1>10. CASE DOMAIN value = {} /\ base = Unassigned
  BY <1>2, <1>5, <1>6, <1>10 DEF Substituted
<1>11. QED
  BY <1>1, <1>7, <1>8, <1>9, <1>10 DEF Wrapped

-----------------------------------------------------------------------------
(* The loop invariant.                                                      *)

Seen(v) == DOMAIN EntryValues(configuration, v) \ remaining

\* A table with too many entries is symbolic as far as the default assigns it.
Symbolic ==
    /\ remaining = {}
    /\ \A v \in AssignedVariables :
          assignments[v] = SetSymbolic(DefaultAssignments(configuration)[v], Domain(v))

\* Otherwise the entries seen come before those remaining, and every variable is
\* assigned what the entries seen say.
Wrapping ==
    /\ remaining \subseteq Installed(configuration)
    /\ \A m \in Installed(configuration) \ remaining, n \in remaining : Rank[m] < Rank[n]
    /\ \A v \in AssignedVariables :
          Wrapped(assignments[v], DefaultValue(configuration, v),
                  EntryValues(configuration, v), Seen(v))

LoopInv ==
    /\ configuration \in TableConfiguration
    /\ ~computing => remaining = {}
    /\ computing /\ TooManyEntries(configuration) => Symbolic
    /\ computing /\ ~TooManyEntries(configuration) => Wrapping

\* Only installed entries assign something.
LEMMA EntryValuesDomain ==
    ASSUME NEW c, NEW v
    PROVE  DOMAIN EntryValues(c, v) \subseteq Installed(c) /\ Installed(c) \subseteq Matches
  BY DEF EntryValues, AssigningArg, Installed

\* The loop invariant holds initially.
LEMMA InitLoop == Init => LoopInv
<1>1. ComputeDefaultActionConstraints(Table) \in DefaultAssignment
  BY ActionsAssumption, TableAssumption DEF ComputeDefaultActionConstraints, DefaultAssignment
<1>2. InitEntries[Table] \in [Matches -> Call \cup {NoEntry}]
  BY MatchesAssumption, TableAssumption
<1>3. InitialConfiguration(Table) \in TableConfiguration
  BY <1>1, <1>2 DEF InitialConfiguration, TableConfiguration
<1>4. QED
  BY <1>3 DEF Init, LoopInv

\* One turn of the loop.
LEMMA MergeWraps ==
    ASSUME LoopInv, NEW m \in remaining, MergeEntry(m), ~TooManyEntries(configuration)
    PROVE  Wrapping'
<1>1. /\ Wrapping /\ remaining' = remaining \ {m} /\ configuration' = configuration
      /\ assignments' = MergeConditionally(m) /\ \A n \in remaining : Rank[m] <= Rank[n]
  BY DEF LoopInv, MergeEntry
<1>2. /\ m \in Installed(configuration) /\ Installed(configuration) \subseteq Matches
      /\ remaining \subseteq Installed(configuration)
  BY <1>1 DEF Wrapping, Installed
<1>3. \A n \in Matches : Rank[n] \in Nat
  BY MatchesAssumption
<1>4. \A n \in remaining \ {m} : Rank[m] < Rank[n]
  <2> SUFFICES ASSUME NEW n \in remaining \ {m}
               PROVE  Rank[m] < Rank[n]
    OBVIOUS
  <2>1. Rank[m] # Rank[n]
    BY <1>2, MatchesAssumption
  <2>2. QED
    BY <1>1, <1>2, <1>3, <2>1
<1>5. \A x \in Installed(configuration) \ (remaining \ {m}), n \in remaining \ {m} : Rank[x] < Rank[n]
  BY <1>1, <1>4 DEF Wrapping
<1>6. ASSUME NEW v \in AssignedVariables
      PROVE  Wrapped(assignments'[v], DefaultValue(configuration, v),
                     EntryValues(configuration, v),
                     DOMAIN EntryValues(configuration, v) \ (remaining \ {m}))
  <2> DEFINE value == EntryValues(configuration, v)
             seen == DOMAIN value \ remaining
             base == DefaultValue(configuration, v)
  <2>1. Wrapped(assignments[v], base, value, seen)
    BY <1>1 DEF Wrapping, Seen
  <2>2. assignments'[v] = IF m \in DOMAIN value
                          THEN AddConditionally(assignments[v], m, value[m])
                          ELSE assignments[v]
    BY <1>1 DEF MergeConditionally
  <2>3. seen \subseteq Installed(configuration) \ remaining /\ m \notin seen
    BY EntryValuesDomain
  <2> HIDE DEF value, base
  <2>4. CASE m \in DOMAIN value
    <3>1. DOMAIN value \ (remaining \ {m}) = seen \cup {m}
      BY <2>4
    <3>2. seen \subseteq Matches /\ \A n \in seen : Rank[n] < Rank[m]
      BY <1>1, <1>2, <2>3 DEF Wrapping
    <3> HIDE DEF seen
    <3>3. Wrapped(AddConditionally(assignments[v], m, value[m]), base, value, seen \cup {m})
      BY <1>2, <2>1, <2>3, <3>2, AddConditionallyWraps
    <3>4. QED
      BY <2>2, <2>4, <3>1, <3>3 DEF value, base
  <2>5. CASE m \notin DOMAIN value
    <3>1. DOMAIN value \ (remaining \ {m}) = seen
      BY <2>5
    <3>2. QED
      BY <2>1, <2>2, <2>5, <3>1 DEF value, base
  <2>6. QED
    BY <2>4, <2>5
<1>7. QED
  BY <1>1, <1>2, <1>5, <1>6 DEF Wrapping, Seen

\* It is kept by every operation of the class and every turn of the loop.
LEMMA NextLoop == LoopInv /\ [Next]_vars => LoopInv'
<1> SUFFICES ASSUME LoopInv, [Next]_vars
             PROVE  LoopInv'
  OBVIOUS
<1>1. ASSUME Operation, configuration' \in TableConfiguration
      PROVE  LoopInv'
  BY <1>1 DEF LoopInv, Operation
<1>2. MatchesOf[Table] \subseteq Matches /\ Calls \subseteq Call
  BY MatchesAssumption, TableAssumption DEF Calls
<1>3. configuration \in TableConfiguration
  BY DEF LoopInv
<1>4. ASSUME NEW m \in MatchesOf[Table], NEW call \in Calls, NEW replace \in BOOLEAN,
             AddEntry(m, call, replace)
      PROVE  LoopInv'
  <2>1. [configuration EXCEPT !.entries[m] = call] \in TableConfiguration
    BY <1>2, <1>3 DEF TableConfiguration
  <2>2. AddTableEntry(configuration, m, call, replace).cfg \in TableConfiguration
    BY <1>3, <2>1 DEF AddTableEntry
  <2>3. QED
    BY <1>1, <1>4, <2>2 DEF AddEntry
<1>5. ASSUME NEW m \in MatchesOf[Table], DeleteEntry(m)
      PROVE  LoopInv'
  <2>1. DeleteTableEntry(configuration, m).cfg \in TableConfiguration
    BY <1>2, <1>3 DEF DeleteTableEntry, TableConfiguration
  <2>2. QED
    BY <1>1, <1>5, <2>1 DEF DeleteEntry
<1>6. CASE Clear
  <2>1. ClearTableEntries(configuration) \in TableConfiguration
    BY <1>3 DEF ClearTableEntries, TableConfiguration
  <2>2. QED
    BY <1>1, <1>6, <2>1 DEF Clear
<1>7. ASSUME NEW call \in Calls, SetDefault(call)
      PROVE  LoopInv'
  <2>1. OverrideAssignment(call) \in DefaultAssignment
    BY <1>2 DEF OverrideAssignment, DefaultAssignment, Call
  <2>2. SetDefaultTableAction(configuration, call) \in TableConfiguration
    BY <1>3, <2>1 DEF SetDefaultTableAction, TableConfiguration
  <2>3. QED
    BY <1>1, <1>7, <2>2 DEF SetDefault
<1>8. CASE BeginAssignments
  <2>1. computing' /\ configuration' = configuration
    BY <1>8 DEF BeginAssignments
  <2>2. CASE TooManyEntries(configuration)
    <3>1. Symbolic'
      BY <1>8, <2>1, <2>2 DEF BeginAssignments, Symbolic, DefaultAssignments, DefaultValue
    <3>2. TooManyEntries(configuration)'
      BY <2>1, <2>2 DEF TooManyEntries, Installed
    <3>3. QED
      BY <1>3, <2>1, <3>1, <3>2 DEF LoopInv
  <2>3. CASE ~TooManyEntries(configuration)
    <3>1. remaining' = Installed(configuration)
          /\ assignments' = DefaultAssignments(configuration)
      BY <1>8, <2>3 DEF BeginAssignments
    <3>2. ASSUME NEW v \in AssignedVariables
          PROVE  Wrapped(assignments'[v], DefaultValue(configuration, v),
                         EntryValues(configuration, v), {})
      <4>1. assignments'[v] = IF DefaultValue(configuration, v) = Unassigned THEN Absent
                              ELSE Present([k \in Packets |-> {DefaultValue(configuration, v)}])
        BY <3>1 DEF DefaultAssignments
      <4>2. QED
        BY <4>1, WrappedAtStart
    <3>3. \A v : DOMAIN EntryValues(configuration, v) \ Installed(configuration) = {}
      BY EntryValuesDomain
    <3>4. Wrapping'
      BY <2>1, <3>1, <3>2, <3>3 DEF Wrapping, Seen
    <3>5. ~TooManyEntries(configuration)'
      BY <2>1, <2>3 DEF TooManyEntries, Installed
    <3>6. QED
      BY <1>3, <2>1, <3>4, <3>5 DEF LoopInv
  <2>4. QED
    BY <2>2, <2>3
<1>9. ASSUME NEW m \in remaining, MergeEntry(m)
      PROVE  LoopInv'
  <2>1. computing /\ computing' /\ configuration' = configuration
    BY <1>9 DEF MergeEntry
  <2>2. ~TooManyEntries(configuration)
    BY <1>9, <2>1 DEF LoopInv, Symbolic
  <2>3. Wrapping'
    BY <1>9, <2>2, MergeWraps
  <2>4. ~TooManyEntries(configuration)'
    BY <2>1, <2>2 DEF TooManyEntries, Installed
  <2>5. QED
    BY <1>3, <2>1, <2>3, <2>4 DEF LoopInv
<1>10. CASE Return
  BY <1>3, <1>10 DEF Return, Computed, LoopInv
<1>11. CASE UNCHANGED vars
  <2>1. /\ configuration' = configuration /\ computing' = computing
        /\ remaining' = remaining /\ assignments' = assignments
    BY <1>11 DEF vars
  <2>2. QED
    BY <2>1 DEF LoopInv, Symbolic, Wrapping, Seen, TooManyEntries, Installed
<1>12. QED
  BY <1>4, <1>5, <1>6, <1>7, <1>8, <1>9, <1>10, <1>11 DEF Next

-----------------------------------------------------------------------------
(* The results.                                                             *)

\* At the end of the loop every variable has the values of the closed form.
LEMMA ComputedAssignment ==
    ASSUME LoopInv, Computed, NEW v \in AssignedVariables, NEW k \in Packets
    PROVE  Substituted(assignments[v], Domain(v), k)
             = AssignedValues(configuration, DefaultValue(configuration, v),
                              EntryValues(configuration, v), Domain(v), k)
<1>1. CASE TooManyEntries(configuration)
  <2>1. assignments[v] = SetSymbolic(DefaultAssignments(configuration)[v], Domain(v))
    BY <1>1 DEF LoopInv, Computed, Symbolic
  <2>2. Substituted(assignments[v], Domain(v), k) = Domain(v)
    BY <2>1 DEF SetSymbolic, Substituted, Present
  <2>3. QED
    BY <1>1, <2>2 DEF AssignedValues
<1>2. CASE ~TooManyEntries(configuration)
  <2> DEFINE value == EntryValues(configuration, v)
  <2>1. Wrapped(assignments[v], DefaultValue(configuration, v), value, DOMAIN value)
    <3>1. Seen(v) = DOMAIN value
      BY DEF Computed, Seen
    <3>2. QED
      BY <1>2, <3>1 DEF LoopInv, Wrapping, Computed
  <2>2. DOMAIN value \subseteq Matches
    BY EntryValuesDomain
  <2> HIDE DEF value
  <2>3. QED
    BY <1>2, <2>1, <2>2, WrappedAtEnd DEF value
<1>3. QED
  BY <1>1, <1>2

\* The closed form of the loop follows from the loop invariant.
LEMMA LoopComputes == LoopInv => LoopMeetsClosedForm
<1> SUFFICES ASSUME LoopInv, Computed, NEW k \in Packets
             PROVE  /\ Substituted(assignments[ChoiceVariable], Actions \cup {None}, k)
                         = ChoiceValues(configuration, k)
                    /\ \A a \in ActionsOf[Table] :
                          Substituted(assignments[ArgVariable(a)], Args, k)
                            = ArgValues(configuration, a, k)
  BY DEF LoopMeetsClosedForm
<1>1. ChoiceVariable \in AssignedVariables
      /\ \A a \in ActionsOf[Table] : ArgVariable(a) \in AssignedVariables
  BY DEF AssignedVariables
<1>2. Substituted(assignments[ChoiceVariable], Actions \cup {None}, k)
        = ChoiceValues(configuration, k)
  <2>1. /\ Domain(ChoiceVariable) = Actions \cup {None}
        /\ DefaultValue(configuration, ChoiceVariable) = configuration.dflt.choice
        /\ EntryValues(configuration, ChoiceVariable)
             = [m \in Installed(configuration) |-> configuration.entries[m].action]
    BY DEF Domain, DefaultValue, EntryValues
  <2>2. QED
    BY <1>1, <2>1, ComputedAssignment DEF ChoiceValues
<1>3. ASSUME NEW a \in ActionsOf[Table]
      PROVE  Substituted(assignments[ArgVariable(a)], Args, k) = ArgValues(configuration, a, k)
  <2>1. ArgVariable(a) # ChoiceVariable /\ ArgVariable(a)[2] = a
    BY DEF ArgVariable, ChoiceVariable
  <2>2. /\ Domain(ArgVariable(a)) = Args
        /\ DefaultValue(configuration, ArgVariable(a)) = configuration.dflt.args[a]
        /\ EntryValues(configuration, ArgVariable(a))
             = [m \in AssigningArg(configuration, a) |-> configuration.entries[m].arg]
    BY <2>1 DEF Domain, DefaultValue, EntryValues
  <2>3. QED
    BY <1>1, <2>2, ComputedAssignment DEF ArgValues
<1>4. QED
  BY <1>2, <1>3

\* computeControlPlaneAssignments computes the closed form on which the analysis
\* of the services is built, for any table, any number of entries and any limit,
\* after any sequence of operations.
THEOREM LoopComputesClosedForm == Spec => []LoopMeetsClosedForm
<1>1. Spec => []LoopInv
  BY InitLoop, NextLoop, PTL DEF Spec
<1>2. QED
  BY <1>1, LoopComputes, PTL

\* The action choice agrees with the lookup of a packet in the table, unless
\* several entries match it or a message has set the default action.
THEOREM ChoiceAgreesWithLookup == Spec => []ChoiceIsLookup
<1>1. LoopInv => ChoiceIsLookup
  <2> SUFFICES ASSUME LoopInv, Computed, configuration.dflt.choice = None,
                      ~TooManyEntries(configuration), NEW k \in Packets
               PROVE  LET matching == {m \in Installed(configuration) : k \in Hits[m]}
                          choice == Substituted(assignments[ChoiceVariable],
                                                Actions \cup {None}, k)
                      IN  /\ matching = {} => choice = {None}
                          /\ \A m \in matching : matching = {m} =>
                                choice = {configuration.entries[m].action}
    BY DEF ChoiceIsLookup
  <2> DEFINE value == [m \in Installed(configuration) |-> configuration.entries[m].action]
             matching == {m \in Installed(configuration) : k \in Hits[m]}
             choice == Substituted(assignments[ChoiceVariable], Actions \cup {None}, k)
  <2>1. choice = ChoiceValues(configuration, k)
    BY LoopComputes DEF LoopMeetsClosedForm
  <2>2. ChoiceValues(configuration, k)
          = IF matching # {} THEN {value[LastOf(matching)]} ELSE {None}
    <3>1. None # Unassigned
      BY DEF None, Unassigned
    <3>2. QED
      BY <3>1 DEF ChoiceValues, AssignedValues
  <2>3. ASSUME NEW m \in matching, matching = {m}
        PROVE  choice = {configuration.entries[m].action}
    <3>1. matching \subseteq Matches /\ IsLast(m, matching)
      <4>1. m \in Matches /\ Rank[m] \in Nat
        BY MatchesAssumption DEF Installed
      <4>2. QED
        BY <2>3, <4>1 DEF IsLast
    <3>2. LastOf(matching) = m
      BY <3>1, LastIsLastOf
    <3>3. QED
      BY <2>1, <2>2, <3>2
  <2>4. QED
    BY <2>1, <2>2, <2>3
<1>2. Spec => []LoopInv
  BY InitLoop, NextLoop, PTL DEF Spec
<1>3. QED
  BY <1>1, <1>2, PTL
=============================================================================
