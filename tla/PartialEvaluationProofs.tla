----------------------- MODULE PartialEvaluationProofs -----------------------
(***************************************************************************)
(* Facts about the operators the services are built from: what a conversi- *)
(* on returns and leaves alone, what the verdict of a node depends on, and *)
(* why specialization preserves the program: for admissible programs and   *)
(* controllers, the program built from exact verdicts and from constants   *)
(* that no entry contradicts does to every packet what the original does.  *)
(* They hold for all constants and say nothing about the order of steps,   *)
(* so that the sequential and the concurrent service share them; the inva- *)
(* riants that carry them from state to state are in the modules of the    *)
(* services.                                                               *)
(***************************************************************************)
EXTENDS AdmissiblePrograms, TLAPS

-----------------------------------------------------------------------------
(* Types of the operators the actions are built from.                       *)

\* Adding or replacing an entry keeps a configuration well formed.
LEMMA SetEntryType ==
    ASSUME NEW c \in TableConfiguration, NEW m \in Matches,
           NEW call \in Call \cup {NoEntry}
    PROVE  [c EXCEPT !.entries[m] = call] \in TableConfiguration
  BY DEF TableConfiguration

\* So does overriding the default action.
LEMMA SetDefaultType ==
    ASSUME NEW c \in TableConfiguration, NEW call \in Call
    PROVE  SetDefaultTableAction(c, call) \in TableConfiguration
<1>1. OverrideAssignment(call) \in DefaultAssignment
  BY DEF OverrideAssignment, DefaultAssignment, Call
<1>2. QED
  BY <1>1 DEF SetDefaultTableAction, TableConfiguration

\* The call of a message whose action can be converted.
LEMMA CallType ==
    ASSUME NEW msg \in Message, ConvertibleAction(msg)
    PROVE  CallOf(msg) \in Call
  BY DEF ConvertibleAction, CallOf, Call, Message

\* Applying a converted entry keeps a configuration well formed.
LEMMA ApplyEntryType ==
    ASSUME NEW c \in TableConfiguration, NEW msg \in Message,
           ConvertibleAction(msg), msg.match \in Matches
    PROVE  ApplyEntry(c, msg).cfg \in TableConfiguration
<1>1. CallOf(msg) \in Call
  BY CallType
<1>2. [c EXCEPT !.entries[msg.match] = CallOf(msg)] \in TableConfiguration
  BY <1>1, SetEntryType
<1>3. [c EXCEPT !.entries[msg.match] = NoEntry] \in TableConfiguration
  BY SetEntryType
<1>4. AddTableEntry(c, msg.match, CallOf(msg), TRUE).cfg \in TableConfiguration
  BY <1>2 DEF AddTableEntry
<1>5. AddTableEntry(c, msg.match, CallOf(msg), FALSE).cfg \in TableConfiguration
  BY <1>2 DEF AddTableEntry
<1>6. DeleteTableEntry(c, msg.match).cfg \in TableConfiguration
  BY <1>3 DEF DeleteTableEntry
<1>7. QED
  BY <1>4, <1>5, <1>6 DEF ApplyEntry

\* The symbols a message reports belong to the tables of the program.
LEMMA MessageSymbolsType ==
    ASSUME NEW msg \in Message, msg.table \in Tables, ConvertibleAction(msg)
    PROVE  /\ DefaultSymbols(msg) \subseteq Symbols
           /\ ActionSymbols(msg, ChoiceSymbol(msg.table)) \subseteq Symbols
<1>1. ChoiceSymbol(msg.table) \in Symbols /\ DefaultSymbol(msg.table) \in Symbols
  BY DEF Symbols
<1>2. ArgSymbol(msg.table, msg.action) \in Symbols
  BY DEF Symbols, ConvertibleAction
<1>3. QED
  BY <1>1, <1>2 DEF DefaultSymbols, ActionSymbols

\* Converting and applying the entry of a message yields a well-formed
\* configuration and symbols.
LEMMA UpdateEntryType ==
    ASSUME NEW c \in TableConfiguration, NEW msg \in Message, msg.table \in Tables
    PROVE  /\ UpdateEntry(c, msg).cfg \in TableConfiguration
           /\ UpdateEntry(c, msg).symbols \subseteq Symbols
<1>1. CASE ConvertibleEntry(msg)
  <2>1. ConvertibleAction(msg) /\ msg.match \in Matches
    BY <1>1, MatchesAssumption DEF ConvertibleEntry, ConvertibleMatch
  <2>2. ApplyEntry(c, msg).cfg \in TableConfiguration
    BY <2>1, ApplyEntryType
  <2>3. QED
    BY <1>1, <2>1, <2>2, MessageSymbolsType DEF UpdateEntry, Updated
<1>2. CASE ~ConvertibleEntry(msg)
  BY <1>2 DEF UpdateEntry, Updated
<1>3. QED
  BY <1>1, <1>2

\* updateTableEntry yields a well-formed configuration and symbols.
LEMMA UpdateConfigurationType ==
    ASSUME NEW c \in TableConfiguration, NEW msg \in Message, msg.table \in Tables
    PROVE  /\ UpdateConfiguration(c, msg).cfg \in TableConfiguration
           /\ UpdateConfiguration(c, msg).symbols \subseteq Symbols
<1>1. CASE msg.isDefault /\ ~ConvertibleAction(msg)
  BY <1>1 DEF UpdateConfiguration, Updated
<1>2. CASE msg.isDefault => ConvertibleAction(msg)
  <2>1. WithDefault(c, msg) \in TableConfiguration
    BY <1>2, CallType, SetDefaultType DEF WithDefault
  <2>2. /\ UpdateEntry(WithDefault(c, msg), msg).cfg \in TableConfiguration
        /\ UpdateEntry(WithDefault(c, msg), msg).symbols \subseteq Symbols
    BY <2>1, UpdateEntryType
  <2>3. DefaultSymbols(msg) \subseteq Symbols
    BY <1>2, MessageSymbolsType DEF DefaultSymbols
  <2>4. ClearTableEntries(WithDefault(c, msg)) \in TableConfiguration
    BY <2>1 DEF ClearTableEntries, TableConfiguration
  <2>5. QED
    BY <1>2, <2>1, <2>2, <2>3, <2>4 DEF UpdateConfiguration, Updated
<1>3. QED
  BY <1>1, <1>2

\* A message for an action profile reads as a message for each of its tables.
LEMMA ForTableType ==
    ASSUME NEW msg \in Message, NEW t \in Tables
    PROVE  ForTable(msg, t) \in Message /\ ForTable(msg, t).table = t
<1> DEFINE match == IF msg.match \in Members THEN MemberMatch[t][msg.match] ELSE BadMatch
<1>1. match \in Matches \cup {BadMatch}
  BY ProfilesAssumption
<1>2. ForTable(msg, t) = [msg EXCEPT !.table = t, !.match = match]
  BY DEF ForTable, Message
<1> HIDE DEF match
<1>3. QED
  BY <1>1, <1>2 DEF Message

\* An action profile message, applied to all or to some of its tables, yields
\* well-formed constraints and symbols.
LEMMA ConfigureType ==
    ASSUME NEW cs \in [Tables -> TableConfiguration], NEW msg \in Message,
           msg.table \in Profiles
    PROVE  /\ ConfigureActionProfile(cs, msg).constraints
                \in [Tables -> TableConfiguration]
           /\ ConfigureActionProfile(cs, msg).symbols \subseteq Symbols
<1> DEFINE updated == [t \in AssociatedTables[msg.table] |->
                          UpdateConfiguration(cs[t], ForTable(msg, t))]
<1>1. AssociatedTables[msg.table] \subseteq Tables
  BY ProfilesAssumption
<1>2. \A t \in AssociatedTables[msg.table] :
        /\ updated[t].cfg \in TableConfiguration
        /\ updated[t].symbols \subseteq Symbols
  BY <1>1, ForTableType, UpdateConfigurationType
<1>3. DOMAIN updated = AssociatedTables[msg.table]
  OBVIOUS
<1> HIDE DEF updated
<1>4. QED
  BY <1>2, <1>3 DEF ConfigureActionProfile, Converted, updated

\* Converting a message of either API, successfully or not, yields well-formed
\* constraints and symbols.
LEMMA ConvertType ==
    ASSUME NEW cs \in [Tables -> TableConfiguration], NEW msg \in Message
    PROVE  /\ ConvertControlPlaneUpdate(cs, msg).constraints
                \in [Tables -> TableConfiguration]
           /\ ConvertControlPlaneUpdate(cs, msg).symbols \subseteq Symbols
<1>1. msg.table \in Tables =>
        /\ UpdateTableEntry(cs, msg).constraints \in [Tables -> TableConfiguration]
        /\ UpdateTableEntry(cs, msg).symbols \subseteq Symbols
  BY UpdateConfigurationType DEF UpdateTableEntry, Converted
<1>2. /\ Converted(TRUE, cs, {}).constraints \in [Tables -> TableConfiguration]
      /\ Converted(TRUE, cs, {}).symbols \subseteq Symbols
      /\ Converted(FALSE, cs, {}).constraints \in [Tables -> TableConfiguration]
      /\ Converted(FALSE, cs, {}).symbols \subseteq Symbols
  BY DEF Converted
<1>3. CASE Api = "P4RUNTIME"
  BY <1>1, <1>2, <1>3 DEF ConvertControlPlaneUpdate, P4RuntimeUpdate
<1>4. CASE Api = "BFRUNTIME"
  BY <1>1, <1>2, <1>4, ConfigureType DEF ConvertControlPlaneUpdate, BfRuntimeUpdate
<1>5. QED
  BY <1>3, <1>4, ApiAssumption

\* The configuration a table starts with is well formed.
LEMMA InitialConfigurationType ==
    ASSUME NEW t \in Tables
    PROVE  InitialConfiguration(t) \in TableConfiguration
<1>1. ComputeDefaultActionConstraints(t) \in DefaultAssignment
  BY ActionsAssumption DEF ComputeDefaultActionConstraints, DefaultAssignment
<1>2. QED
  BY <1>1, MatchesAssumption DEF InitialConfiguration, TableConfiguration

\* Verdicts and constants, under any constraints.
LEMMA VerdictType ==
    ASSUME NEW cs, NEW n
    PROVE  NodeReachability(cs, n) \in Verdicts
  BY DEF NodeReachability, Verdicts

\* The constant of an expression is an argument value or Unassigned.
LEMMA ConstantType ==
    ASSUME NEW cs, NEW e
    PROVE  NodeSubstitution(cs, e) \in Args \cup {Unassigned}
  BY Zenon DEF NodeSubstitution

\* What the specializer produces from well-formed maps is a program.
LEMMA SpecializeType ==
    ASSUME NEW r \in [Nodes -> Verdicts],
           NEW s \in [Expressions -> Args \cup {Unassigned}]
    PROVE  Specialize(r, s) \in Programs
<1>1. \A t \in Tables : SpecializedCall(t, r) \in {"apply", "default", "removed"}
  BY DEF SpecializedCall
<1>2. \A t \in Tables : SpecializedBranch(t, r) \in Verdicts
  <2>1. \A t \in Tables : Cond[t] # "none" => BranchNode(t) \in Nodes
    BY DEF Nodes
  <2>2. QED
    BY <2>1 DEF SpecializedBranch, Verdicts
<1>3. QED
  BY <1>1, <1>2 DEF Specialize, Programs

-----------------------------------------------------------------------------
(* Frames: what a conversion changes and what a verdict reads.              *)

\* No BFRuntime message deletes all entries of a table at once.
NoWildcardDelete ==
    Api = "BFRUNTIME" => \A msg \in Messages : msg.type = "DELETE" => msg.action # NoData

\* The tables whose configuration the condition of node n reads.
Reads(n) == {n[2]} \cup Then[n[2]]

\* The table and the guarding tables of a node are tables of the program.
LEMMA ReadsTables ==
    ASSUME NEW n \in Nodes
    PROVE  n[2] \in Tables /\ Then[n[2]] \subseteq Tables
  BY ActionsAssumption, ProgramAssumption DEF Nodes, BranchNode, ActionNode

\* The hit condition of a table mentions its action choice.
LEMMA HitMentionsChoice ==
    ASSUME NEW t \in Tables
    PROVE  ChoiceSymbol(t) \in HitSymbols(t)
  BY AnnotationsAssumption DEF HitSymbols

\* A node mentions the action choice of every table its condition reads.
LEMMA NodeMentionsChoice ==
    ASSUME NEW n \in Nodes, NEW t \in Reads(n)
    PROVE  ChoiceSymbol(t) \in ReachabilitySymbols(n)
<1>1. n[2] \in Tables /\ Then[n[2]] \subseteq Tables
  BY ReadsTables
<1>2. CASE t \in Then[n[2]]
  BY <1>1, <1>2, HitMentionsChoice DEF ReachabilitySymbols
<1>3. CASE t = n[2]
  <2>1. ChoiceSymbol(t) \in HitSymbols(t)
    BY <1>1, <1>3, HitMentionsChoice
  <2>2. DefaultOnly[t] \cap TableOnly[t] = {}
    BY <1>1, <1>3, AnnotationsAssumption
  <2>3. QED
    BY <1>3, <2>1, <2>2 DEF ReachabilitySymbols
<1>4. QED
  BY <1>2, <1>3 DEF Reads

\* The verdict of a node depends on the configurations it reads only.
LEMMA VerdictFrame ==
    ASSUME NEW n \in Nodes, NEW cs, NEW ds, \A t \in Reads(n) : cs[t] = ds[t]
    PROVE  NodeReachability(cs, n) = NodeReachability(ds, n)
<1>1. \A t \in Reads(n) : \A k : BranchValues(cs, t, k) = BranchValues(ds, t, k)
  BY DEF BranchValues
<1>2. \A a, k : ActionValues(cs, n[2], a, k) = ActionValues(ds, n[2], a, k)
  BY DEF ActionValues, Reads
<1>3. \A k : OwnValues(cs, n, k) = OwnValues(ds, n, k)
  BY <1>1, <1>2 DEF OwnValues, Reads
<1>4. CanHold(cs, n) <=> CanHold(ds, n)
  BY <1>1, <1>3 DEF CanHold, Reads
<1>5. CanFail(cs, n) <=> CanFail(ds, n)
  BY <1>1, <1>3 DEF CanFail, Reads
<1>6. QED
  BY <1>4, <1>5 DEF NodeReachability

\* updateTableEntry reports the action choice of the table whenever it succeeds.
LEMMA UpdateReportsChoice ==
    ASSUME NEW c, NEW msg, UpdateConfiguration(c, msg).ok,
           Api = "BFRUNTIME" => (msg.type = "DELETE" => msg.action # NoData)
    PROVE  ChoiceSymbol(msg.table) \in UpdateConfiguration(c, msg).symbols
<1>1. UpdateConfiguration(c, msg) = UpdateEntry(WithDefault(c, msg), msg)
  BY DEF UpdateConfiguration, Updated
<1>2. ConvertibleEntry(msg)
  BY <1>1 DEF UpdateEntry, Updated
<1>3. QED
  BY <1>1, <1>2 DEF UpdateEntry, Updated, ActionSymbols

\* A message that is converted successfully changes the configuration of a
\* table only if it reports the action choice of that table.
LEMMA ConvertFrame ==
    ASSUME NEW cs \in [Tables -> TableConfiguration], NEW msg \in Messages,
           NoWildcardDelete, ConvertControlPlaneUpdate(cs, msg).ok,
           NEW t \in Tables,
           ChoiceSymbol(t) \notin ConvertControlPlaneUpdate(cs, msg).symbols
    PROVE  ConvertControlPlaneUpdate(cs, msg).constraints[t] = cs[t]
<1>1. msg \in Message /\ (Api = "BFRUNTIME" => (msg.type = "DELETE" => msg.action # NoData))
  BY ApiAssumption DEF NoWildcardDelete
<1>2. ASSUME msg.table \in Tables, UpdateTableEntry(cs, msg).ok,
             ChoiceSymbol(t) \notin UpdateTableEntry(cs, msg).symbols
      PROVE  UpdateTableEntry(cs, msg).constraints[t] = cs[t]
  <2>1. ChoiceSymbol(msg.table) \in UpdateTableEntry(cs, msg).symbols
    BY <1>1, <1>2, UpdateReportsChoice DEF UpdateTableEntry, Converted
  <2>2. QED
    BY <1>2, <2>1 DEF UpdateTableEntry, Converted
<1>3. ASSUME msg.table \in Profiles, ConfigureActionProfile(cs, msg).ok,
             ChoiceSymbol(t) \notin ConfigureActionProfile(cs, msg).symbols
      PROVE  ConfigureActionProfile(cs, msg).constraints[t] = cs[t]
  <2> DEFINE updated == [u \in AssociatedTables[msg.table] |->
                            UpdateConfiguration(cs[u], ForTable(msg, u))]
  <2>1. \A u \in AssociatedTables[msg.table] : updated[u].ok
    BY <1>3 DEF ConfigureActionProfile, Converted
  <2>2. t \notin AssociatedTables[msg.table]
    <3> SUFFICES ASSUME t \in AssociatedTables[msg.table] PROVE FALSE
      OBVIOUS
    <3>1. ForTable(msg, t).table = t
          /\ ForTable(msg, t).type = msg.type /\ ForTable(msg, t).action = msg.action
      BY <1>1 DEF ForTable, Message
    <3>2. ChoiceSymbol(t) \in updated[t].symbols
      BY <1>1, <2>1, <3>1, UpdateReportsChoice
    <3>3. updated[t].symbols \subseteq ConfigureActionProfile(cs, msg).symbols
      BY <2>1 DEF ConfigureActionProfile, Converted
    <3>4. QED
      BY <1>3, <3>2, <3>3
  <2>3. QED
    BY <2>2 DEF ConfigureActionProfile, Converted
<1>4. CASE Api = "P4RUNTIME"
  BY <1>2, <1>4 DEF ConvertControlPlaneUpdate, P4RuntimeUpdate, Converted
<1>5. CASE Api = "BFRUNTIME"
  BY <1>2, <1>3, <1>5, ProfilesAssumption
     DEF ConvertControlPlaneUpdate, BfRuntimeUpdate, Converted, SkippedTables
<1>6. QED
  BY <1>4, <1>5, ApiAssumption


-----------------------------------------------------------------------------
(* Configurations admissible messages lead to.                              *)

\* The entries of table t are admissible; its default action is the program's or
\* one set by messages, and then every entry of the table runs it too, because
\* the message that set it was applied as an entry as well.
WellConfigured(t, c) ==
    /\ \A m \in Installed(c) : m \in MatchesOf[t] /\ EntryCall(t, c.entries[m])
    /\ \/ c.dflt = ComputeDefaultActionConstraints(t)
       \/ /\ SetsDefault(t)
          /\ \E d \in Call : /\ DefaultCall(t, d)
                             /\ c.dflt = OverrideAssignment(d)
                             /\ \A m \in Installed(c) : c.entries[m] = d

\* What a message leaves at its match.
NewCall(msg) == IF msg.type = "DELETE" THEN NoEntry ELSE CallOf(msg)

\* What a successful update of a table does to its configuration.
LEMMA UpdateShape ==
    ASSUME NEW c \in TableConfiguration, NEW msg \in Message, msg.table \in Tables,
           Api = "BFRUNTIME" => (msg.type = "DELETE" => msg.action # NoData),
           UpdateConfiguration(c, msg).ok
    PROVE  LET cfg == UpdateConfiguration(c, msg).cfg
           IN  /\ ConvertibleEntry(msg)
               /\ msg.match \in Matches
               /\ msg.type \in {"INSERT", "MODIFY", "DELETE"}
               /\ cfg.dflt = IF msg.isDefault THEN OverrideAssignment(CallOf(msg)) ELSE c.dflt
               /\ \A m \in Matches :
                     cfg.entries[m] = IF m = msg.match THEN NewCall(msg) ELSE c.entries[m]
               /\ UpdateConfiguration(c, msg).symbols
                    = DefaultSymbols(msg) \cup ActionSymbols(msg, ChoiceSymbol(msg.table))
<1> DEFINE d == WithDefault(c, msg)
<1>1. UpdateConfiguration(c, msg) = UpdateEntry(d, msg)
  BY DEF UpdateConfiguration, Updated
<1>2. /\ ConvertibleEntry(msg)
      /\ UpdateConfiguration(c, msg).cfg = ApplyEntry(d, msg).cfg
      /\ ApplyEntry(d, msg).ok
      /\ UpdateConfiguration(c, msg).symbols
           = DefaultSymbols(msg) \cup ActionSymbols(msg, ChoiceSymbol(msg.table))
  BY <1>1 DEF UpdateEntry, Updated
<1>3. msg.match \in Matches
  BY <1>2, MatchesAssumption DEF ConvertibleEntry, ConvertibleMatch
<1>4. CallOf(msg) \in Call
  BY <1>2, CallType DEF ConvertibleEntry
<1>5. d \in TableConfiguration /\ d.entries = c.entries
      /\ d.dflt = IF msg.isDefault THEN OverrideAssignment(CallOf(msg)) ELSE c.dflt
  BY <1>4, SetDefaultType DEF WithDefault, SetDefaultTableAction, TableConfiguration
<1>6. msg.type \in {"INSERT", "MODIFY", "DELETE"}
  BY <1>2 DEF ApplyEntry, Message
<1>7. ApplyEntry(d, msg).cfg = [d EXCEPT !.entries[msg.match] = NewCall(msg)]
  BY <1>2, <1>6 DEF ApplyEntry, AddTableEntry, DeleteTableEntry, NewCall
<1> HIDE DEF d
<1>8. /\ ApplyEntry(d, msg).cfg.dflt = d.dflt
      /\ \A m \in Matches : ApplyEntry(d, msg).cfg.entries[m]
                              = IF m = msg.match THEN NewCall(msg) ELSE d.entries[m]
  BY <1>3, <1>5, <1>7 DEF TableConfiguration
<1>9. QED
  BY <1>2, <1>3, <1>5, <1>6, <1>8

\* A call that is installed differs from the absence of an entry.
LEMMA CallIsEntry ==
    ASSUME NEW call \in Call
    PROVE  call # NoEntry
  BY ActionsAssumption DEF Call, NoEntry

\* An admissible message keeps the configuration of its table admissible.
LEMMA UpdateWellConfigured ==
    ASSUME Admissible, NEW t \in Tables, NEW c \in TableConfiguration, WellConfigured(t, c),
           NEW msg \in TableMessages(t), msg \in Message, msg.table = t,
           Api = "BFRUNTIME" => (msg.type = "DELETE" => msg.action # NoData),
           UpdateConfiguration(c, msg).ok
    PROVE  WellConfigured(t, UpdateConfiguration(c, msg).cfg)
<1> DEFINE cfg == UpdateConfiguration(c, msg).cfg
<1>1. /\ ConvertibleEntry(msg)
      /\ msg.match \in Matches
      /\ msg.type \in {"INSERT", "MODIFY", "DELETE"}
      /\ cfg.dflt = IF msg.isDefault THEN OverrideAssignment(CallOf(msg)) ELSE c.dflt
      /\ \A m \in Matches :
            cfg.entries[m] = IF m = msg.match THEN NewCall(msg) ELSE c.entries[m]
  BY UpdateShape
<1> HIDE DEF cfg
<1>2. msg.match \in MatchesOf[t] /\ CallOf(msg) \in Call
  BY <1>1, CallType DEF ConvertibleEntry, ConvertibleMatch
<1>3. \A m \in Installed(cfg) :
        \/ m = msg.match /\ cfg.entries[m] = CallOf(msg) /\ msg.type \in {"INSERT", "MODIFY"}
        \/ m \in Installed(c) /\ cfg.entries[m] = c.entries[m] /\ m # msg.match
  BY <1>1 DEF Installed, NewCall
<1>4. \A m \in Installed(cfg) : m \in MatchesOf[t] /\ EntryCall(t, cfg.entries[m])
  BY <1>2, <1>3 DEF WellConfigured, Admissible, AdmissibleMessages
<1>5. CASE ~msg.isDefault
  <2>1. ~SetsDefault(t)
    BY <1>5 DEF Admissible, AdmissibleMessages
  <2>2. cfg.dflt = ComputeDefaultActionConstraints(t)
    BY <1>1, <1>5, <2>1 DEF WellConfigured
  <2>3. QED
    BY <1>4, <2>2 DEF WellConfigured, cfg
<1>6. CASE msg.isDefault
  <2>1. SetsDefault(t)
    BY <1>6 DEF SetsDefault
  <2>2. DefaultCall(t, CallOf(msg)) /\ \A m, n \in MatchesOf[t] : m = n
    BY <2>1 DEF Admissible, AdmissibleMessages
  <2>3. \A m \in Installed(cfg) : cfg.entries[m] = CallOf(msg)
    BY <1>2, <1>3, <1>4, <2>2
  <2>4. cfg.dflt = OverrideAssignment(CallOf(msg))
    BY <1>1, <1>6
  <2>5. QED
    BY <1>2, <1>4, <2>1, <2>2, <2>3, <2>4 DEF WellConfigured, cfg
<1>7. QED
  BY <1>5, <1>6

\* A message that is converted successfully updates each table with one of its
\* admissible messages and reports the symbols of that update, or leaves it alone.
LEMMA ConvertCases ==
    ASSUME NoWildcardDelete, NEW cs \in [Tables -> TableConfiguration],
           NEW msg \in Messages, ConvertControlPlaneUpdate(cs, msg).ok, NEW t \in Tables
    PROVE  \/ ConvertControlPlaneUpdate(cs, msg).constraints[t] = cs[t]
           \/ \E tmsg \in TableMessages(t) :
                 /\ tmsg \in Message /\ tmsg.table = t
                 /\ Api = "BFRUNTIME" => (tmsg.type = "DELETE" => tmsg.action # NoData)
                 /\ UpdateConfiguration(cs[t], tmsg).ok
                 /\ ConvertControlPlaneUpdate(cs, msg).constraints[t]
                      = UpdateConfiguration(cs[t], tmsg).cfg
                 /\ UpdateConfiguration(cs[t], tmsg).symbols
                      \subseteq ConvertControlPlaneUpdate(cs, msg).symbols
<1>1. msg \in Message /\ (Api = "BFRUNTIME" => (msg.type = "DELETE" => msg.action # NoData))
  BY ApiAssumption DEF NoWildcardDelete
<1>2. CASE /\ msg.table \in Tables
           /\ ~(Api = "BFRUNTIME" /\ msg.table \in SkippedTables)
  <2>1. ConvertControlPlaneUpdate(cs, msg) = UpdateTableEntry(cs, msg)
    BY <1>2, ApiAssumption, ProfilesAssumption
       DEF ConvertControlPlaneUpdate, P4RuntimeUpdate, BfRuntimeUpdate, SkippedTables
  <2>2. CASE msg.table # t
    BY <2>1, <2>2 DEF UpdateTableEntry, Converted
  <2>3. CASE msg.table = t
    <3>1. /\ UpdateConfiguration(cs[t], msg).ok
          /\ UpdateTableEntry(cs, msg).constraints[t] = UpdateConfiguration(cs[t], msg).cfg
          /\ UpdateTableEntry(cs, msg).symbols = UpdateConfiguration(cs[t], msg).symbols
      BY <2>1, <2>3 DEF UpdateTableEntry, Converted
    <3>2. cs[t] \in TableConfiguration
      OBVIOUS
    <3>3. ConvertibleEntry(msg)
      BY <1>1, <1>2, <2>3, <3>1, <3>2, UpdateShape
    <3>4. msg \in TableMessages(t)
      BY <1>2, <2>3, <3>3 DEF TableMessages
    <3>5. QED
      BY <1>1, <2>1, <2>3, <3>1, <3>4
  <2>4. QED
    BY <2>2, <2>3
<1>3. CASE Api = "BFRUNTIME" /\ msg.table \in Profiles
  <2> DEFINE updated == [u \in AssociatedTables[msg.table] |->
                            UpdateConfiguration(cs[u], ForTable(msg, u))]
  <2>1. ConvertControlPlaneUpdate(cs, msg) = ConfigureActionProfile(cs, msg)
    BY <1>3, ProfilesAssumption
       DEF ConvertControlPlaneUpdate, BfRuntimeUpdate, SkippedTables
  <2>0. ConfigureActionProfile(cs, msg).ok
    BY <2>1
  <2>2. \A u \in AssociatedTables[msg.table] : updated[u].ok
    BY <2>0 DEF ConfigureActionProfile, Converted
  <2>3. CASE t \notin AssociatedTables[msg.table]
    BY <2>1, <2>3 DEF ConfigureActionProfile, Converted
  <2>4. CASE t \in AssociatedTables[msg.table]
    <3>1. /\ ForTable(msg, t) \in Message /\ ForTable(msg, t).table = t
          /\ ForTable(msg, t).type = msg.type /\ ForTable(msg, t).action = msg.action
      BY <1>1, ForTableType DEF ForTable, Message
    <3>2. /\ UpdateConfiguration(cs[t], ForTable(msg, t)).ok
          /\ ConfigureActionProfile(cs, msg).constraints[t]
               = UpdateConfiguration(cs[t], ForTable(msg, t)).cfg
      BY <2>2, <2>4 DEF ConfigureActionProfile, Converted
    <3>3. UpdateConfiguration(cs[t], ForTable(msg, t)).symbols
            \subseteq ConfigureActionProfile(cs, msg).symbols
      BY <2>2, <2>4 DEF ConfigureActionProfile, Converted
    <3>4. cs[t] \in TableConfiguration
      OBVIOUS
    <3>5. ConvertibleEntry(ForTable(msg, t))
      BY <1>1, <3>1, <3>2, <3>4, UpdateShape
    <3>6. ForTable(msg, t) \in TableMessages(t)
      BY <1>3, <2>4, <3>5 DEF TableMessages
    <3>7. QED
      BY <1>1, <2>1, <3>1, <3>2, <3>3, <3>6
  <2>5. QED
    BY <2>3, <2>4
<1>4. CASE \/ Api = "P4RUNTIME" /\ msg.table \notin Tables
           \/ Api = "BFRUNTIME" /\ msg.table \in SkippedTables
           \/ Api = "BFRUNTIME" /\ msg.table \notin Tables \cup Profiles
  BY <1>4, ProfilesAssumption
     DEF ConvertControlPlaneUpdate, P4RuntimeUpdate, BfRuntimeUpdate, Converted,
         SkippedTables
<1>5. QED
  BY <1>2, <1>3, <1>4, ApiAssumption

\* All configurations stay admissible.
LEMMA ConvertWellConfigured ==
    ASSUME Admissible, NoWildcardDelete, NEW cs \in [Tables -> TableConfiguration],
           \A t \in Tables : WellConfigured(t, cs[t]),
           NEW msg \in Messages, ConvertControlPlaneUpdate(cs, msg).ok
    PROVE  \A t \in Tables :
               WellConfigured(t, ConvertControlPlaneUpdate(cs, msg).constraints[t])
<1> SUFFICES ASSUME NEW t \in Tables
             PROVE  WellConfigured(t, ConvertControlPlaneUpdate(cs, msg).constraints[t])
  OBVIOUS
<1>1. cs[t] \in TableConfiguration /\ WellConfigured(t, cs[t])
  OBVIOUS
<1>2. CASE ConvertControlPlaneUpdate(cs, msg).constraints[t] = cs[t]
  BY <1>1, <1>2
<1>3. CASE ConvertControlPlaneUpdate(cs, msg).constraints[t] # cs[t]
  <2>1. PICK tmsg \in TableMessages(t) :
                 /\ tmsg \in Message /\ tmsg.table = t
                 /\ Api = "BFRUNTIME" => (tmsg.type = "DELETE" => tmsg.action # NoData)
                 /\ UpdateConfiguration(cs[t], tmsg).ok
                 /\ ConvertControlPlaneUpdate(cs, msg).constraints[t]
                      = UpdateConfiguration(cs[t], tmsg).cfg
    BY <1>3, ConvertCases
  <2>2. WellConfigured(t, UpdateConfiguration(cs[t], tmsg).cfg)
    BY <1>1, <2>1, UpdateWellConfigured
  <2>3. QED
    BY <2>1, <2>2
<1>4. QED
  BY <1>2, <1>3

\* The program starts with admissible configurations.
LEMMA InitialWellConfigured ==
    ASSUME Admissible, NEW t \in Tables
    PROVE  WellConfigured(t, InitialConfiguration(t))
  BY DEF InitialConfiguration, WellConfigured, Admissible, AdmissibleMessages, Installed

-----------------------------------------------------------------------------
(* The assignments cover what a packet really meets.                        *)

\* Two entries of a table that a packet matches are the same.
LEMMA OneMatch ==
    ASSUME Admissible, NEW cs, NEW t \in Tables, WellConfigured(t, cs[t]), NEW k \in Packets,
           NEW m \in MatchingEntries(cs, t, k), NEW n \in MatchingEntries(cs, t, k)
    PROVE  m = n
  BY DEF MatchingEntries, WellConfigured, Admissible, AdmissibleMatches

\* The only entry of a set is its last and its first one.
LEMMA LastOfOne ==
    ASSUME NEW m \in Matches
    PROVE  LastOf({m}) = m /\ FirstOf({m}) = m
<1>1. Rank[m] \in Nat
  BY MatchesAssumption
<1>2. \E x \in {m} : \A n \in {m} : Rank[n] <= Rank[x]
  BY <1>1
<1>3. \E x \in {m} : \A n \in {m} : Rank[x] <= Rank[n]
  BY <1>1
<1>4. QED
  BY <1>2, <1>3 DEF LastOf, FirstOf

\* The variable of a table takes, for a packet that matches one of the entries
\* that assign it, the value of that entry.
LEMMA MatchAssigns ==
    ASSUME NEW c, NEW base, NEW value, NEW domain, NEW k,
           DOMAIN value \subseteq Matches, NEW m \in DOMAIN value, k \in Hits[m],
           \A n \in DOMAIN value : k \in Hits[n] => n = m,
           value[m] \in domain
    PROVE  /\ value[m] \in AssignedValues(c, base, value, domain, k)
           /\ AssignedValues(c, base, value, domain, k) \in {{value[m]}, domain}
<1>1. {n \in DOMAIN value : k \in Hits[n]} = {m}
  OBVIOUS
<1>2. LastOf({m}) = m
  BY LastOfOne
<1>3. AssignedValues(c, base, value, domain, k)
        = IF TooManyEntries(c) THEN domain ELSE {value[m]}
  BY <1>1, <1>2 DEF AssignedValues
<1>4. QED
  BY <1>3

\* The action of the matching entry is a possible choice.
LEMMA MatchIsPossible ==
    ASSUME Admissible, NEW cs \in [Tables -> TableConfiguration], NEW t \in Tables,
           WellConfigured(t, cs[t]), NEW k \in Packets, NEW m \in MatchingEntries(cs, t, k)
    PROVE  cs[t].entries[m].action \in ChoiceValues(cs[t], k)
<1> DEFINE c == cs[t]
           value == [n \in Installed(c) |-> c.entries[n].action]
<1>1. /\ m \in Installed(c) /\ k \in Hits[m] /\ Installed(c) \subseteq Matches
      /\ c \in TableConfiguration
  BY DEF MatchingEntries, Installed
<1>2. \A n \in Installed(c) : k \in Hits[n] => n = m
  BY OneMatch DEF MatchingEntries
<1>3. value[m] \in Actions \cup {None}
  BY <1>1 DEF Installed, TableConfiguration, Call
<1>4. DOMAIN value = Installed(c) /\ value[m] = c.entries[m].action
  BY <1>1
<1> HIDE DEF value
<1>5. value[m] \in AssignedValues(c, c.dflt.choice, value, Actions \cup {None}, k)
  BY <1>1, <1>2, <1>3, <1>4, MatchAssigns
<1>6. QED
  BY <1>4, <1>5 DEF ChoiceValues, value

\* Without a matching entry "no action" is a possible choice as long as the
\* default action is the program's.
LEMMA MissIsPossible ==
    ASSUME NEW cs, NEW t \in Tables, NEW k \in Packets, MatchingEntries(cs, t, k) = {},
           cs[t].dflt = ComputeDefaultActionConstraints(t)
    PROVE  None \in ChoiceValues(cs[t], k)
<1> DEFINE value == [n \in Installed(cs[t]) |-> cs[t].entries[n].action]
<1>1. {n \in DOMAIN value : k \in Hits[n]} = {}
  BY DEF MatchingEntries
<1>2. cs[t].dflt.choice = None /\ None # Unassigned
  BY DEF ComputeDefaultActionConstraints, None, Unassigned
<1> HIDE DEF value
<1>3. None \in AssignedValues(cs[t], cs[t].dflt.choice, value, Actions \cup {None}, k)
  BY <1>1, <1>2 DEF AssignedValues
<1>4. QED
  BY <1>3 DEF ChoiceValues, value

\* Without a matching entry a default action set by a message is a possible
\* choice: it is that of all entries, or the choice is not assigned at all.
LEMMA OverrideIsPossible ==
    ASSUME NEW cs, NEW t \in Tables, NEW k \in Packets, MatchingEntries(cs, t, k) = {},
           NEW d \in Call, cs[t].dflt = OverrideAssignment(d),
           \A m \in Installed(cs[t]) : cs[t].entries[m] = d,
           \A m, n \in Installed(cs[t]) : m = n
    PROVE  d.action \in ChoiceValues(cs[t], k)
<1> DEFINE value == [n \in Installed(cs[t]) |-> cs[t].entries[n].action]
<1>1. {n \in DOMAIN value : k \in Hits[n]} = {}
  BY DEF MatchingEntries
<1>2. cs[t].dflt.choice = Unassigned
  BY DEF OverrideAssignment
<1>3. DOMAIN value \subseteq Matches /\ \A n \in DOMAIN value : value[n] = d.action
  BY DEF Installed
<1>4. d.action \in Actions \cup {None}
  BY DEF Call
<1> HIDE DEF value
<1>5. CASE DOMAIN value = {}
  <2>1. AssignedValues(cs[t], cs[t].dflt.choice, value, Actions \cup {None}, k)
          = Actions \cup {None}
    BY <1>1, <1>2, <1>5 DEF AssignedValues
  <2>2. QED
    BY <1>4, <2>1 DEF ChoiceValues, value
<1>6. CASE DOMAIN value # {} /\ ~TooManyEntries(cs[t])
  <2>0. PICK m \in Matches : DOMAIN value = {m}
    BY <1>3, <1>6 DEF value
  <2>1. FirstOf(DOMAIN value) \in DOMAIN value
    BY <2>0, LastOfOne
  <2>2. d.action \in AssignedValues(cs[t], cs[t].dflt.choice, value, Actions \cup {None}, k)
    BY <1>1, <1>2, <1>3, <1>6, <2>1 DEF AssignedValues
  <2>3. QED
    BY <2>2 DEF ChoiceValues, value
<1>7. CASE TooManyEntries(cs[t])
  BY <1>4, <1>7 DEF ChoiceValues, AssignedValues
<1>8. QED
  BY <1>5, <1>6, <1>7

\* The values of the other two variables of a table are possible too.
LEMMA StateIsPossible ==
    ASSUME NEW c \in TableConfiguration
    PROVE  /\ (Installed(c) # {}) \in ActiveValues(c)
           /\ c.dflt.default \in DefaultValues(c)
  BY DEF ActiveValues, DefaultValues, TableConfiguration, DefaultAssignment

-----------------------------------------------------------------------------
(* Branches and reachability.                                               *)

\* The branch the original program takes.
Taken(cs, t, k) == BranchCondition(t, MatchingEntries(cs, t, k) # {})

\* The value of a condition is among those the analysis considers.
LEMMA BranchIsPossible ==
    ASSUME Admissible, NEW cs \in [Tables -> TableConfiguration],
           NEW t \in Tables, WellConfigured(t, cs[t]), Cond[t] # "none", NEW k \in Packets
    PROVE  Taken(cs, t, k) \in BranchValues(cs, t, k)
<1> DEFINE active == Installed(cs[t]) # {}
<1> HIDE DEF active
<1>1. cs[t] \in TableConfiguration /\ active \in ActiveValues(cs[t])
  BY StateIsPossible DEF active
<1>2. cs[t].dflt = ComputeDefaultActionConstraints(t)
  BY DEF WellConfigured, Admissible, AdmissibleMessages
<1>0. \A choice \in ChoiceValues(cs[t], k) : active \in ActiveValues(cs[t]) =>
         BranchCondition(t, TotalHitCondition(t, choice, active)) \in BranchValues(cs, t, k)
  BY DEF BranchValues
<1>3. CASE MatchingEntries(cs, t, k) = {}
  <2>1. None \in ChoiceValues(cs[t], k)
    BY <1>2, <1>3, MissIsPossible
  <2>2. TotalHitCondition(t, None, active) = FALSE
    BY ActionsAssumption DEF TotalHitCondition
  <2>3. BranchCondition(t, TotalHitCondition(t, None, active))
          \in BranchValues(cs, t, k)
    BY <1>0, <1>1, <2>1
  <2>4. (MatchingEntries(cs, t, k) # {}) = FALSE
    BY <1>3
  <2>5. QED
    BY <2>2, <2>3, <2>4, Zenon DEF Taken
<1>4. CASE MatchingEntries(cs, t, k) # {}
  <2>1. PICK m \in MatchingEntries(cs, t, k) : TRUE
    BY <1>4
  <2>2. cs[t].entries[m].action \in ChoiceValues(cs[t], k)
    BY MatchIsPossible
  <2>3. m \in Installed(cs[t]) /\ EntryCall(t, cs[t].entries[m])
    BY DEF MatchingEntries, WellConfigured
  <2>4. TotalHitCondition(t, cs[t].entries[m].action, active) = TRUE
    BY <2>3 DEF TotalHitCondition, EntryCall, active
  <2>5. BranchCondition(t, TotalHitCondition(t, cs[t].entries[m].action, active))
          \in BranchValues(cs, t, k)
    BY <1>0, <1>1, <2>2
  <2>6. (MatchingEntries(cs, t, k) # {}) = TRUE
    BY <1>4
  <2>7. QED
    BY <2>4, <2>5, <2>6, Zenon DEF Taken
<1>5. QED
  BY <1>3, <1>4

\* What a decided condition says of the original program: a true one is true for
\* every packet, a false one is false for every packet that gets there.
LEMMA BranchVerdictSound ==
    ASSUME Admissible, NEW cs \in [Tables -> TableConfiguration],
           \A u \in Tables : WellConfigured(u, cs[u]),
           NEW t \in Tables, Cond[t] # "none", NEW k \in Packets
    PROVE  /\ NodeReachability(cs, BranchNode(t)) = "true" => Taken(cs, t, k)
           /\ NodeReachability(cs, BranchNode(t)) = "false" =>
                 ~Taken(cs, t, k) \/ \E g \in Then[t] : ~Taken(cs, g, k)
<1>1. \A g \in Then[t] \cup {t} : Taken(cs, g, k) \in BranchValues(cs, g, k)
  BY BranchIsPossible, ProgramAssumption
<1>2. \A g \in Then[t] \cup {t} : Taken(cs, g, k) \in BOOLEAN
  BY DEF Taken, BranchCondition
<1>3. /\ BranchNode(t)[2] = t
      /\ OwnValues(cs, BranchNode(t), k) = BranchValues(cs, t, k)
  BY DEF BranchNode, OwnValues
<1>4. ASSUME NodeReachability(cs, BranchNode(t)) = "true"
      PROVE  Taken(cs, t, k)
  <2>1. ~CanFail(cs, BranchNode(t))
    BY <1>4 DEF NodeReachability
  <2>2. FALSE \notin BranchValues(cs, t, k)
    BY <1>3, <2>1 DEF CanFail
  <2>3. Taken(cs, t, k) # FALSE
    BY <1>1, <2>2
  <2>4. QED
    BY <1>2, <2>3
<1>5. ASSUME NodeReachability(cs, BranchNode(t)) = "false"
      PROVE  ~Taken(cs, t, k) \/ \E g \in Then[t] : ~Taken(cs, g, k)
  <2>1. ~CanHold(cs, BranchNode(t))
    BY <1>5 DEF NodeReachability
  <2>2. \/ \E g \in Then[t] : TRUE \notin BranchValues(cs, g, k)
        \/ TRUE \notin BranchValues(cs, t, k)
    BY <1>3, <2>1 DEF CanHold
  <2>3. Taken(cs, t, k) # TRUE \/ \E g \in Then[t] : Taken(cs, g, k) # TRUE
    BY <1>1, <2>2
  <2>4. QED
    BY <1>2, <2>3
<1>6. QED
  BY <1>4, <1>5

\* The program specialized from exact verdicts and constants s.
Specialized(cs, s) == Specialize(InitialReachability(cs), s)

\* The verdicts the specialized program is built from.
LEMMA SpecializedParts ==
    ASSUME NEW cs, NEW s, NEW t \in Tables
    PROVE  /\ Specialized(cs, s).branch[t] =
                 IF Cond[t] = "none" THEN "unknown" ELSE NodeReachability(cs, BranchNode(t))
           /\ Specialized(cs, s).call[t] = SpecializedCall(t, InitialReachability(cs))
           /\ Specialized(cs, s).param = s
<1>1. Cond[t] # "none" => BranchNode(t) \in Nodes
  BY DEF Nodes
<1>2. QED
  BY <1>1 DEF Specialized, Specialize, SpecializedBranch, InitialReachability

\* Original and specialized program reach the same tables.
LEMMA SameReached ==
    ASSUME Admissible, NEW cs \in [Tables -> TableConfiguration],
           \A u \in Tables : WellConfigured(u, cs[u]), NEW s,
           NEW t \in Tables, NEW k \in Packets
    PROVE  /\ Reached(OriginalProgram, cs, t, k) <=>
                 (\A g \in Then[t] : Taken(cs, g, k)) /\ (\A g \in Else[t] : ~Taken(cs, g, k))
           /\ Reached(Specialized(cs, s), cs, t, k) <=> Reached(OriginalProgram, cs, t, k)
<1> DEFINE p == Specialized(cs, s)
           New(g) == BranchTaken(p, cs, g, k)
           Old(g) == Taken(cs, g, k)
           verdict(g) == NodeReachability(cs, BranchNode(g))
<1>1. \A g \in Then[t] \cup Else[t] : g \in Tables /\ Cond[g] # "none" /\ Then[g] \subseteq Then[t]
  BY ProgramAssumption, NestingAssumption
<1>2. \A g \in Then[t] \cup Else[t] :
        New(g) = IF verdict(g) = "unknown" THEN Old(g) ELSE verdict(g) = "true"
  BY <1>1, SpecializedParts DEF BranchTaken, Taken
<1>3. \A g \in Then[t] \cup Else[t] : BranchTaken(OriginalProgram, cs, g, k) = Old(g)
  BY <1>1 DEF BranchTaken, Taken, OriginalProgram
<1>4. \A g \in Then[t] \cup Else[t] : verdict(g) \in {"true", "false", "unknown"}
  BY VerdictType DEF Verdicts
<1>5. \A g \in Then[t] \cup Else[t] : verdict(g) = "true" => Old(g)
  BY <1>1, BranchVerdictSound
<1>6. \A g \in Then[t] \cup Else[t] : verdict(g) = "false" =>
         ~Old(g) \/ \E h \in Then[t] : ~Old(h)
  <2> SUFFICES ASSUME NEW g \in Then[t] \cup Else[t], verdict(g) = "false"
               PROVE  ~Old(g) \/ \E h \in Then[t] : ~Old(h)
    OBVIOUS
  <2>1. ~Old(g) \/ \E h \in Then[g] : ~Old(h)
    BY <1>1, BranchVerdictSound
  <2>2. QED
    BY <1>1, <2>1
<1> HIDE DEF New, Old, verdict
<1>7. (\A g \in Then[t] : New(g)) <=> (\A g \in Then[t] : Old(g))
  BY <1>2, <1>4, <1>5, <1>6
<1>8. (\A g \in Then[t] : Old(g)) => \A g \in Else[t] : New(g) <=> Old(g)
  BY <1>2, <1>4, <1>5, <1>6
<1>9. Reached(p, cs, t, k) <=> (\A g \in Then[t] : New(g)) /\ (\A g \in Else[t] : ~New(g))
  BY DEF Reached, New
<1>10. Reached(OriginalProgram, cs, t, k)
         <=> (\A g \in Then[t] : Old(g)) /\ (\A g \in Else[t] : ~Old(g))
  BY <1>3 DEF Reached
<1>11. QED
  BY <1>7, <1>8, <1>9, <1>10 DEF Old

-----------------------------------------------------------------------------
(* What a table runs.                                                       *)

\* The call of a table: that of a matching entry, the program's default action,
\* or a default action set by a message.
LEMMA LookupCases ==
    ASSUME NEW cs \in [Tables -> TableConfiguration], NEW t \in Tables,
           WellConfigured(t, cs[t]), NEW k \in Packets
    PROVE  \/ \E m \in MatchingEntries(cs, t, k) : LookupCall(cs, t, k) = cs[t].entries[m]
           \/ /\ MatchingEntries(cs, t, k) = {}
              /\ LookupCall(cs, t, k) = ProgCall(t)
           \/ /\ MatchingEntries(cs, t, k) = {}
              /\ SetsDefault(t)
              /\ DefaultCall(t, LookupCall(cs, t, k))
              /\ LookupCall(cs, t, k) \in Call
              /\ cs[t].dflt = OverrideAssignment(LookupCall(cs, t, k))
              /\ \A m \in Installed(cs[t]) : cs[t].entries[m] = LookupCall(cs, t, k)
<1>1. CASE MatchingEntries(cs, t, k) # {}
  <2>1. (CHOOSE m \in MatchingEntries(cs, t, k) : TRUE) \in MatchingEntries(cs, t, k)
    BY <1>1
  <2>2. QED
    BY <1>1, <2>1 DEF LookupCall
<1>2. CASE MatchingEntries(cs, t, k) = {} /\ cs[t].dflt = ComputeDefaultActionConstraints(t)
  BY <1>2 DEF LookupCall, ProgCall, ComputeDefaultActionConstraints
<1>3. CASE MatchingEntries(cs, t, k) = {} /\ cs[t].dflt # ComputeDefaultActionConstraints(t)
  <2>1. PICK d \in Call : /\ SetsDefault(t) /\ DefaultCall(t, d)
                          /\ cs[t].dflt = OverrideAssignment(d)
                          /\ \A m \in Installed(cs[t]) : cs[t].entries[m] = d
    BY <1>3 DEF WellConfigured
  <2>2. d.action \in Actions /\ d.action # None /\ d = [action |-> d.action, arg |-> d.arg]
    BY ActionsAssumption DEF Call
  <2>3. /\ cs[t].dflt.default = d.action
        /\ cs[t].dflt.args[d.action] = d.arg
    BY <2>1, <2>2 DEF OverrideAssignment
  <2>4. LookupCall(cs, t, k) = d
    BY <1>3, <2>2, <2>3 DEF LookupCall
  <2>5. QED
    BY <1>3, <2>1, <2>4
<1>4. QED
  BY <1>1, <1>2, <1>3

\* A table whose application is removed with a decided condition runs an action
\* without a body for every packet that gets there.
LEMMA DecidedRunsNothing ==
    ASSUME Admissible, NEW cs \in [Tables -> TableConfiguration],
           \A u \in Tables : WellConfigured(u, cs[u]),
           NEW t \in Tables, NEW k \in Packets, Reached(OriginalProgram, cs, t, k),
           Cond[t] # "none", NodeReachability(cs, BranchNode(t)) # "unknown"
    PROVE  LookupCall(cs, t, k).action \in EmptyBodies
<1>1. ~SetsDefault(t)
  BY DEF Admissible, AdmissibleMessages
<1>2. \/ \E m \in MatchingEntries(cs, t, k) : LookupCall(cs, t, k) = cs[t].entries[m]
      \/ MatchingEntries(cs, t, k) = {} /\ LookupCall(cs, t, k) = ProgCall(t)
  BY <1>1, LookupCases
<1>3. CASE ActionsOf[t] \subseteq EmptyBodies
  <2>1. \A m \in MatchingEntries(cs, t, k) : cs[t].entries[m].action \in ActionsOf[t]
    BY DEF MatchingEntries, WellConfigured, EntryCall
  <2>2. ProgCall(t).action \in ActionsOf[t]
    BY ActionsAssumption DEF ProgCall
  <2>3. QED
    BY <1>2, <1>3, <2>1, <2>2
<1>4. CASE ~(ActionsOf[t] \subseteq EmptyBodies)
  <2>1. /\ ProgDefault[t] \in EmptyBodies
        /\ Cond[t] = "hit" \/ Then[t] = {}
    BY <1>4 DEF Admissible, AdmissibleConditions
  <2>2. PICK miss \in Packets : \A m \in MatchesOf[t] : miss \notin Hits[m]
    BY <1>4 DEF Admissible, AdmissibleConditions
  <2>3. MatchingEntries(cs, t, miss) = {}
    BY <2>2 DEF MatchingEntries, WellConfigured
  <2>4. \A g \in Then[t] : Taken(cs, g, k)
    BY SameReached
  <2>5. NodeReachability(cs, BranchNode(t)) \in {"true", "false"}
    BY VerdictType DEF Verdicts
  <2>6. MatchingEntries(cs, t, k) = {}
    <3>1. CASE Cond[t] = "hit"
      <4>1. ~Taken(cs, t, miss)
        BY <2>3, <3>1 DEF Taken, BranchCondition
      <4>2. NodeReachability(cs, BranchNode(t)) = "false"
        BY <2>5, <4>1, BranchVerdictSound
      <4>3. ~Taken(cs, t, k)
        BY <2>4, <4>2, BranchVerdictSound
      <4>4. QED
        BY <3>1, <4>3 DEF Taken, BranchCondition
    <3>2. CASE Cond[t] # "hit"
      <4>1. Taken(cs, t, miss)
        BY <2>3, <3>2 DEF Taken, BranchCondition
      <4>2. NodeReachability(cs, BranchNode(t)) = "true"
        BY <2>1, <2>5, <3>2, <4>1, BranchVerdictSound
      <4>3. Taken(cs, t, k)
        BY <4>2, BranchVerdictSound
      <4>4. QED
        BY <3>2, <4>3 DEF Taken, BranchCondition
    <3>3. QED
      BY <3>1, <3>2
  <2>7. QED
    BY <1>2, <2>1, <2>6 DEF ProgCall
<1>5. QED
  BY <1>3, <1>4

\* An action whose choice is possible for a packet that reaches its table has
\* no verdict "false".
LEMMA PossibleActionKept ==
    ASSUME Admissible, NEW cs \in [Tables -> TableConfiguration],
           \A u \in Tables : WellConfigured(u, cs[u]),
           NEW t \in Tables, NEW k \in Packets, Reached(OriginalProgram, cs, t, k),
           NEW a \in ChoiceValues(cs[t], k), a \notin DefaultOnly[t]
    PROVE  NodeReachability(cs, ActionNode(t, a)) # "false"
<1> DEFINE active == Installed(cs[t]) # {}
<1> HIDE DEF active
<1>1. cs[t] \in TableConfiguration /\ active \in ActiveValues(cs[t])
      /\ cs[t].dflt.default \in DefaultValues(cs[t])
  BY StateIsPossible DEF active
<1>2. ActionHitCondition(t, a, a, cs[t].dflt.default, active) = TRUE
  BY DEF ActionHitCondition
<1>3. ActionHitCondition(t, a, a, cs[t].dflt.default, active) \in ActionValues(cs, t, a, k)
  <2>1. \A choice \in ChoiceValues(cs[t], k), default \in DefaultValues(cs[t]) :
           active \in ActiveValues(cs[t]) =>
             ActionHitCondition(t, a, choice, default, active) \in ActionValues(cs, t, a, k)
    BY DEF ActionValues
  <2>2. QED
    BY <1>1, <2>1
<1>4. \A g \in Then[t] : TRUE \in BranchValues(cs, g, k)
  <2>1. \A g \in Then[t] : Taken(cs, g, k)
    BY SameReached
  <2>2. \A g \in Then[t] : Taken(cs, g, k) \in BranchValues(cs, g, k)
    BY BranchIsPossible, ProgramAssumption
  <2>3. \A g \in Then[t] : Taken(cs, g, k) = TRUE
    BY <2>1 DEF Taken, BranchCondition
  <2>4. QED
    BY <2>2, <2>3
<1>5. /\ ActionNode(t, a)[2] = t
      /\ OwnValues(cs, ActionNode(t, a), k) = ActionValues(cs, t, a, k)
  BY DEF ActionNode, OwnValues
<1>6. TRUE \in OwnValues(cs, ActionNode(t, a), k)
  BY <1>2, <1>3, <1>5
<1>7. CanHold(cs, ActionNode(t, a))
  BY <1>4, <1>5, <1>6 DEF CanHold
<1>8. QED
  BY <1>7 DEF NodeReachability

\* A table whose application is replaced runs the default action of the program
\* for every packet that gets there.
LEMMA ReplacedRunsDefault ==
    ASSUME Admissible, NEW cs \in [Tables -> TableConfiguration],
           \A u \in Tables : WellConfigured(u, cs[u]),
           NEW t \in Tables, NEW k \in Packets, Reached(OriginalProgram, cs, t, k),
           SpecializedCall(t, InitialReachability(cs)) # "apply"
    PROVE  LookupCall(cs, t, k) = ProgCall(t)
<1>1. \A a \in ActionsOf[t] \ (DefaultOnly[t] \cup {ProgDefault[t]}) :
         NodeReachability(cs, ActionNode(t, a)) = "false"
  <2>1. \A a \in ActionsOf[t] : ActionNode(t, a) \in Nodes
    BY DEF Nodes
  <2>2. \A a \in ActionsOf[t] \ (DefaultOnly[t] \cup {ProgDefault[t]}) :
           InitialReachability(cs)[ActionNode(t, a)] = "false"
    BY DEF SpecializedCall
  <2>3. QED
    BY <2>1, <2>2 DEF InitialReachability
<1>2. CASE \E m \in MatchingEntries(cs, t, k) : LookupCall(cs, t, k) = cs[t].entries[m]
  <2>1. PICK m \in MatchingEntries(cs, t, k) : LookupCall(cs, t, k) = cs[t].entries[m]
    BY <1>2
  <2>2. EntryCall(t, cs[t].entries[m])
    BY DEF MatchingEntries, WellConfigured
  <2>3. cs[t].entries[m].action \in ChoiceValues(cs[t], k)
    BY MatchIsPossible
  <2>4. cs[t].entries[m].action = ProgDefault[t]
    BY <1>1, <2>2, <2>3, PossibleActionKept DEF EntryCall
  <2>5. QED
    BY <2>1, <2>2, <2>4 DEF EntryCall
<1>3. CASE /\ MatchingEntries(cs, t, k) = {}
           /\ SetsDefault(t)
           /\ DefaultCall(t, LookupCall(cs, t, k))
           /\ LookupCall(cs, t, k) \in Call
           /\ cs[t].dflt = OverrideAssignment(LookupCall(cs, t, k))
           /\ \A m \in Installed(cs[t]) : cs[t].entries[m] = LookupCall(cs, t, k)
  <2>1. \A m, n \in Installed(cs[t]) : m = n
    BY <1>3 DEF WellConfigured, Admissible, AdmissibleMessages
  <2>2. LookupCall(cs, t, k).action \in ChoiceValues(cs[t], k)
    BY <1>3, <2>1, OverrideIsPossible
  <2>3. LookupCall(cs, t, k).action = ProgDefault[t]
    BY <1>1, <1>3, <2>2, PossibleActionKept DEF DefaultCall
  <2>4. QED
    BY <1>3, <2>3 DEF DefaultCall
<1>4. QED
  BY <1>2, <1>3, LookupCases

-----------------------------------------------------------------------------
(* Constants.                                                               *)

\* The constant v, if there is one, is what the parameter of expression e is
\* bound to by every entry and by the program's own default action.
SoundConstant(cs, e, v) ==
    v # Unassigned =>
        /\ \A m \in AssigningArg(cs[e[1]], e[2]) : cs[e[1]].entries[m].arg = v
        /\ e[2] = ProgDefault[e[1]] => v = ProgArg[e[1]]

\* The constant computed from the current assignments is sound.
LEMMA ComputedConstantSound ==
    ASSUME Admissible, NEW cs \in [Tables -> TableConfiguration],
           \A u \in Tables : WellConfigured(u, cs[u]), NEW e \in Expressions
    PROVE  SoundConstant(cs, e, NodeSubstitution(cs, e))
<1> DEFINE v == NodeSubstitution(cs, e)
           t == e[1]
           a == e[2]
           c == cs[t]
<1> SUFFICES ASSUME v # Unassigned
             PROVE  /\ \A m \in AssigningArg(c, a) : c.entries[m].arg = v
                    /\ a = ProgDefault[t] => v = ProgArg[t]
  BY DEF SoundConstant
<1>1. t \in Tables /\ a \in ActionsOf[t] /\ a \in ParamActions
  BY DEF Expressions
<1>2. c \in TableConfiguration /\ WellConfigured(t, c)
  BY <1>1
<1>3. ExpressionValues(cs, e) = {v}
  <2>1. \E w \in Args : ExpressionValues(cs, e) = {w}
    BY DEF NodeSubstitution
  <2>2. v = CHOOSE w \in Args : ExpressionValues(cs, e) = {w}
    BY <2>1 DEF NodeSubstitution
  <2>3. QED
    BY <2>1, <2>2
<1>4. AssigningArg(c, a) \subseteq Installed(c) /\ Installed(c) \subseteq Matches
  BY DEF AssigningArg, Installed
<1>5. \A m \in AssigningArg(c, a) :
        /\ m \in MatchesOf[t] /\ EntryCall(t, c.entries[m]) /\ c.entries[m].action = a
        /\ c.entries[m].arg \in Args
  BY <1>2, <1>4 DEF AssigningArg, WellConfigured, Installed, TableConfiguration, Call
<1> HIDE DEF v
<1>6. CASE a = ProgDefault[t]
  <2>1. v = ProgArg[t]
    BY <1>3, <1>6 DEF ExpressionValues
  <2>2. \A m \in AssigningArg(c, a) : c.entries[m].arg = ProgArg[t]
    BY <1>5, <1>6 DEF EntryCall, ProgCall
  <2>3. QED
    BY <2>1, <2>2
<1>7. CASE a # ProgDefault[t]
  <2> SUFFICES ASSUME NEW m \in AssigningArg(c, a) PROVE c.entries[m].arg = v
    BY <1>7
  <2>1. PICK k \in Packets : k \in Hits[m]
    <3>1. Hits[m] # {}
      BY <1>1, <1>5, <1>7 DEF Admissible, AdmissibleMatches
    <3>2. QED
      BY <1>4, <3>1, MatchesAssumption
  <2> DEFINE value == [n \in AssigningArg(c, a) |-> c.entries[n].arg]
  <2>2. \A n \in AssigningArg(c, a) : k \in Hits[n] => n = m
    BY <1>1, <1>5, <2>1 DEF Admissible, AdmissibleMatches
  <2>3. DOMAIN value = AssigningArg(c, a) /\ value[m] = c.entries[m].arg
    OBVIOUS
  <2>4. value[m] \in Args
    BY <1>5, <2>3
  <2> HIDE DEF value
  <2>5. value[m] \in AssignedValues(c, c.dflt.args[a], value, Args, k)
    BY <1>4, <2>1, <2>2, <2>3, <2>4, MatchAssigns
  <2>6. value[m] \in ArgValues(c, a, k)
    BY <2>5 DEF ArgValues, value
  <2>7. value[m] \in ExpressionValues(cs, e)
    BY <1>7, <2>6 DEF ExpressionValues
  <2>8. QED
    BY <1>3, <2>3, <2>7
<1>8. QED
  BY <1>6, <1>7

\* A constant stays sound when a message is converted that does not report the
\* parameter: an entry that binds it is new only if its message reports it.
LEMMA ConstantFrame ==
    ASSUME NoWildcardDelete, NEW cs \in [Tables -> TableConfiguration],
           NEW msg \in Messages, ConvertControlPlaneUpdate(cs, msg).ok,
           NEW e \in Expressions, NEW v, SoundConstant(cs, e, v),
           ArgSymbol(e[1], e[2]) \notin ConvertControlPlaneUpdate(cs, msg).symbols
    PROVE  SoundConstant(ConvertControlPlaneUpdate(cs, msg).constraints, e, v)
<1> DEFINE t == e[1]
           a == e[2]
           d == ConvertControlPlaneUpdate(cs, msg).constraints[t]
<1>1. t \in Tables /\ a \in Actions /\ cs[t] \in TableConfiguration
  BY DEF Expressions
<1>2. \A m \in AssigningArg(d, a) : m \in AssigningArg(cs[t], a) /\ d.entries[m] = cs[t].entries[m]
  <2>1. CASE d = cs[t]
    BY <2>1
  <2>2. CASE d # cs[t]
    <3>1. PICK tmsg \in TableMessages(t) :
                 /\ tmsg \in Message /\ tmsg.table = t
                 /\ Api = "BFRUNTIME" => (tmsg.type = "DELETE" => tmsg.action # NoData)
                 /\ UpdateConfiguration(cs[t], tmsg).ok
                 /\ d = UpdateConfiguration(cs[t], tmsg).cfg
                 /\ UpdateConfiguration(cs[t], tmsg).symbols
                      \subseteq ConvertControlPlaneUpdate(cs, msg).symbols
      BY <1>1, <2>2, ConvertCases
    <3> HIDE DEF d
    <3>2. /\ tmsg.type \in {"INSERT", "MODIFY", "DELETE"}
          /\ \A m \in Matches :
                d.entries[m] = IF m = tmsg.match THEN NewCall(tmsg) ELSE cs[t].entries[m]
          /\ ActionSymbols(tmsg, ChoiceSymbol(t)) \subseteq UpdateConfiguration(cs[t], tmsg).symbols
      BY <1>1, <3>1, UpdateShape
    <3>3. ~(CallOf(tmsg).action = a /\ CallOf(tmsg).arg # Unassigned)
      BY <3>1, <3>2 DEF ActionSymbols, CallOf
    <3>4. ~(NewCall(tmsg).action = a /\ NewCall(tmsg).arg # Unassigned)
      BY <3>3, <1>1, ActionsAssumption DEF NewCall, NoEntry
    <3>5. QED
      BY <3>2, <3>4 DEF AssigningArg, Installed
  <2>3. QED
    BY <2>1, <2>2
<1>3. QED
  BY <1>2 DEF SoundConstant

\* With sound constants the body a table runs is the same in both programs.
LEMMA SameBody ==
    ASSUME Admissible, NEW cs \in [Tables -> TableConfiguration], NEW t \in Tables,
           WellConfigured(t, cs[t]), NEW k \in Packets,
           NEW s, \A e \in Expressions : SoundConstant(cs, e, s[e])
    PROVE  Body(Specialized(cs, s), t, LookupCall(cs, t, k))
             = Body(OriginalProgram, t, LookupCall(cs, t, k))
<1> DEFINE call == LookupCall(cs, t, k)
           e == <<t, call.action>>
<1>1. Specialized(cs, s).param = s
  BY SpecializedParts
<1>2. Body(OriginalProgram, t, call) = <<t, call.action, call.arg>>
  BY DEF Body, OriginalProgram
<1>3. ASSUME e \in Expressions, s[e] # Unassigned PROVE s[e] = call.arg
  <2>1. /\ \A m \in AssigningArg(cs[t], call.action) : cs[t].entries[m].arg = s[e]
        /\ call.action = ProgDefault[t] => s[e] = ProgArg[t]
    BY <1>3 DEF SoundConstant
  <2>2. call.action \in ParamActions
    BY <1>3 DEF Expressions
  <2>3. CASE \E m \in MatchingEntries(cs, t, k) : call = cs[t].entries[m]
    <3>1. PICK m \in MatchingEntries(cs, t, k) : call = cs[t].entries[m]
      BY <2>3
    <3>2. m \in Installed(cs[t]) /\ EntryCall(t, cs[t].entries[m])
      BY DEF MatchingEntries, WellConfigured
    <3>3. cs[t].entries[m].arg # Unassigned
      BY <2>2, <3>1, <3>2 DEF EntryCall
    <3>4. m \in AssigningArg(cs[t], call.action)
      BY <3>1, <3>2, <3>3 DEF AssigningArg
    <3>5. QED
      BY <2>1, <3>1, <3>4
  <2>4. CASE call = ProgCall(t)
    BY <2>1, <2>4 DEF ProgCall
  <2>5. CASE DefaultCall(t, call)
    BY <2>1, <2>2, <2>4, <2>5 DEF DefaultCall
  <2>6. QED
    BY <2>3, <2>4, <2>5, LookupCases
<1> HIDE DEF call
<1>4. QED
  BY <1>1, <1>2, <1>3 DEF Body, call

-----------------------------------------------------------------------------
(* The result.                                                              *)

\* Specializing from exact verdicts and sound constants preserves the program:
\* for every packet the tables that are reached and have not lost their body run
\* the same actions with the same arguments.
THEOREM SpecializationPreserves ==
    ASSUME Admissible, NEW cs \in [Tables -> TableConfiguration],
           \A t \in Tables : WellConfigured(t, cs[t]),
           NEW s, \A e \in Expressions : SoundConstant(cs, e, s[e]), NEW k \in Packets
    PROVE  Effects(Specialized(cs, s), cs, k) = Effects(OriginalProgram, cs, k)
<1> DEFINE p == Specialized(cs, s)
           old(t) == LookupCall(cs, t, k)
           new(t) == IF p.call[t] = "default" THEN ProgCall(t) ELSE old(t)
           Old == {t \in Tables : Reached(OriginalProgram, cs, t, k)
                                    /\ old(t).action \notin EmptyBodies}
           New == {t \in Tables : /\ Reached(p, cs, t, k)
                                  /\ p.call[t] # "removed"
                                  /\ p.branch[t] = "unknown"
                                  /\ new(t).action \notin EmptyBodies}
<1>1. Effects(p, cs, k) = {Body(p, t, new(t)) : t \in New}
  BY DEF Effects, ProgCall
<1>2. Effects(OriginalProgram, cs, k) = {Body(OriginalProgram, t, old(t)) : t \in Old}
  BY DEF Effects, OriginalProgram
<1>3. \A t \in Tables : Reached(OriginalProgram, cs, t, k) =>
         /\ p.call[t] # "apply" => old(t) = ProgCall(t)
         /\ p.call[t] = "removed" => old(t).action \in EmptyBodies
         /\ p.branch[t] # "unknown" => old(t).action \in EmptyBodies
  <2> SUFFICES ASSUME NEW t \in Tables, Reached(OriginalProgram, cs, t, k)
               PROVE  /\ p.call[t] # "apply" => old(t) = ProgCall(t)
                      /\ p.call[t] = "removed" => old(t).action \in EmptyBodies
                      /\ p.branch[t] # "unknown" => old(t).action \in EmptyBodies
    OBVIOUS
  <2>1. /\ p.branch[t] = IF Cond[t] = "none" THEN "unknown"
                         ELSE NodeReachability(cs, BranchNode(t))
        /\ p.call[t] = SpecializedCall(t, InitialReachability(cs))
    BY SpecializedParts
  <2>2. p.call[t] # "apply" => old(t) = ProgCall(t)
    BY <2>1, ReplacedRunsDefault
  <2>3. p.call[t] = "removed" => ProgDefault[t] \in EmptyBodies
    BY <2>1 DEF SpecializedCall
  <2>4. p.branch[t] # "unknown" => old(t).action \in EmptyBodies
    BY <2>1, DecidedRunsNothing
  <2>5. QED
    BY <2>2, <2>3, <2>4 DEF ProgCall
<1>4. \A t \in Tables : Reached(p, cs, t, k) <=> Reached(OriginalProgram, cs, t, k)
  BY SameReached
<1>5. \A t \in Tables : Reached(OriginalProgram, cs, t, k) => new(t) = old(t)
  BY <1>3
<1> HIDE DEF p, old
<1>6. New = Old
  BY <1>3, <1>4, <1>5
<1>7. \A t \in Old : Body(p, t, new(t)) = Body(OriginalProgram, t, old(t))
  <2>1. \A t \in Tables : Body(p, t, old(t)) = Body(OriginalProgram, t, old(t))
    BY SameBody DEF p, old
  <2>2. QED
    BY <1>5, <2>1
<1> HIDE DEF new, New, Old
<1>8. {Body(p, t, new(t)) : t \in New} = {Body(OriginalProgram, t, old(t)) : t \in Old}
  BY <1>6, <1>7
<1>9. QED
  BY <1>1, <1>2, <1>8 DEF p
=============================================================================
