-------------------------- MODULE ControlPlaneUpdate --------------------------
(***************************************************************************)
(* Conversion of control-plane messages: what one P4Runtime or BFRuntime   *)
(* table entry message does to the table configurations and which symbolic *)
(* variables it reports as affected (the symbol set).  Both conversions    *)
(* may fail half way, after they have changed a configuration.             *)
(*                                                                         *)
(* A message is abstracted to the outcome of its lookups: BadTable, Bad-   *)
(* Action, BadArg and BadMatch stand for an identifier the P4Info does not *)
(* know or for match fields that cannot be converted; NoData is a message  *)
(* that carries no action.  A BFRuntime message may address an action pro- *)
(* file: its key is a member, and the message is applied to every table    *)
(* associated with the profile as if it were a message for that table.     *)
(***************************************************************************)
EXTENDS ControlPlaneObjects

CONSTANTS
    Api,                \* the --control-plane option
    ImplementedTables,  \* tables with an action profile or selector
    Profiles,           \* action profiles
    Selectors,          \* action selectors
    Members,            \* keys of action profile messages
    AssociatedTables,   \* [Profiles -> SUBSET Tables]
    TableRank,          \* [Tables -> Nat]: order of std::set<cstring>
    MemberMatch,        \* the match a member's key is converted to, by table
    Messages            \* the messages a controller may send

BadTable  == "badTable"
BadAction == "badAction"
NoData    == "noData"
BadArg    == "badArg"
BadMatch  == "badMatch"

Message ==
    [table     : Tables \cup Profiles \cup Selectors \cup {BadTable},
     type      : {"INSERT", "MODIFY", "DELETE", "UNSPECIFIED"},
     isDefault : BOOLEAN,
     match     : Matches \cup Members \cup {BadMatch},
     action    : Actions \cup {BadAction, NoData},
     arg       : Args \cup {Unassigned, BadArg}]

ASSUME ApiAssumption ==
    /\ Api \in {"P4RUNTIME", "BFRUNTIME"}
    /\ Messages \subseteq Message
    /\ BadTable \notin Tables \cup Profiles \cup Selectors
    /\ {BadAction, NoData} \cap Actions = {}
    /\ BadArg \notin Args
    /\ BadMatch \notin Matches

ASSUME ProfilesAssumption ==
    /\ Profiles \cap Tables = {} /\ Selectors \cap Tables = {}
    /\ Profiles \cap Selectors = {}
    /\ ImplementedTables \subseteq Tables
    /\ AssociatedTables \in [Profiles -> SUBSET Tables]
    /\ TableRank \in [Tables -> Nat]
    /\ \A t, u \in Tables : TableRank[t] = TableRank[u] => t = u
    /\ MemberMatch \in [Tables -> [Members -> Matches \cup {BadMatch}]]

-----------------------------------------------------------------------------
(* The symbolic variables of a table.                                       *)

ChoiceSymbol(t)  == <<"choice", t>>
DefaultSymbol(t) == <<"default", t>>
ActiveSymbol(t)  == <<"active", t>>
ArgSymbol(t, a)  == <<"arg", t, a>>

Symbols ==
    {ChoiceSymbol(t) : t \in Tables} \cup {DefaultSymbol(t) : t \in Tables}
      \cup {ActiveSymbol(t) : t \in Tables}
      \cup {ArgSymbol(t, a) : t \in Tables, a \in Actions}

-----------------------------------------------------------------------------
(* Conversions.                                                             *)

CallOf(msg) == [action |-> msg.action, arg |-> msg.arg]

\* The action of the message is known and each parameter it carries exists.
ConvertibleAction(msg) == msg.action \in Actions /\ msg.arg # BadArg

\* Every match field of the table is either in the message, with a match type
\* that is supported, or of a kind that may be left out.
ConvertibleMatch(msg) == msg.match \in MatchesOf[msg.table]

\* produceTableEntry: the action and all match fields can be converted.
ConvertibleEntry(msg) == ConvertibleAction(msg) /\ ConvertibleMatch(msg)

\* Symbols recorded by convertTableAction, for a default action or an entry.
\* (The match symbols of an entry are recorded too; no condition of the data
\* plane mentions them.)
ActionSymbols(msg, symbol) ==
    {symbol} \cup (IF msg.arg = Unassigned THEN {}
                   ELSE {ArgSymbol(msg.table, msg.action)})

DefaultSymbols(msg) ==
    IF msg.isDefault THEN ActionSymbols(msg, DefaultSymbol(msg.table)) ELSE {}

\* Applying a converted entry according to the update type.  MODIFY is an
\* upsert: it does not require the entry to exist.
ApplyEntry(c, msg) ==
    CASE msg.type = "MODIFY" -> AddTableEntry(c, msg.match, CallOf(msg), TRUE)
      [] msg.type = "INSERT" -> AddTableEntry(c, msg.match, CallOf(msg), FALSE)
      [] msg.type = "DELETE" -> DeleteTableEntry(c, msg.match)
      [] OTHER               -> [ok |-> FALSE, cfg |-> c]

\* The configuration after the default action of the message has been set.
WithDefault(c, msg) ==
    IF msg.isDefault THEN SetDefaultTableAction(c, CallOf(msg)) ELSE c

\* One table after a message: success, its configuration, the symbols.
Updated(ok, cfg, symbols) == [ok |-> ok, cfg |-> cfg, symbols |-> symbols]

\* The last part of updateTableEntry: conversion of the entry and its
\* application to c, which already holds the default action of the message.
UpdateEntry(c, msg) ==
    LET r == ApplyEntry(c, msg)
    IN  IF ConvertibleEntry(msg)
        THEN Updated(r.ok, r.cfg, DefaultSymbols(msg)
                                    \cup ActionSymbols(msg, ChoiceSymbol(msg.table)))
        ELSE Updated(FALSE, c, {})

\* updateTableEntry on the configuration of the table of the message.  A message
\* that sets a default action goes on to convert and apply an entry as well.  In
\* BFRuntime a DELETE without data clears the table.
UpdateConfiguration(c, msg) ==
    IF msg.isDefault /\ ~ConvertibleAction(msg)
    THEN Updated(FALSE, c, {})
    ELSE IF msg.table \in ConstTables
    THEN Updated(FALSE, WithDefault(c, msg), {})
    ELSE IF Api = "BFRUNTIME" /\ msg.type = "DELETE" /\ msg.action = NoData
    THEN Updated(TRUE, ClearTableEntries(WithDefault(c, msg)), DefaultSymbols(msg))
    ELSE UpdateEntry(WithDefault(c, msg), msg)

\* A converted message: success, the configurations left behind, the symbols.
Converted(ok, constraints, symbols) ==
    [ok |-> ok, constraints |-> constraints, symbols |-> symbols]

\* A message for a table of the program.
UpdateTableEntry(constraints, msg) ==
    LET r == UpdateConfiguration(constraints[msg.table], msg)
    IN  Converted(r.ok, [constraints EXCEPT ![msg.table] = r.cfg], r.symbols)

\* The message for an action profile, as updateTableEntry reads it for table t.
ForTable(msg, t) ==
    [msg EXCEPT !.table = t,
                !.match = IF @ \in Members THEN MemberMatch[t][@] ELSE BadMatch]

\* Mutant of ConfigureActionProfile: the symbols of one table are reported.
ConfigureFirstSymbols(constraints, msg) ==
    LET updated == [t \in AssociatedTables[msg.table] |->
                       UpdateConfiguration(constraints[t], ForTable(msg, t))]
        failed == {t \in DOMAIN updated : ~updated[t].ok}
        visited == {t \in DOMAIN updated :
                       \A u \in failed : TableRank[t] <= TableRank[u]}
    IN  Converted(failed = {},
                  [t \in Tables |-> IF t \in visited THEN updated[t].cfg
                                    ELSE constraints[t]],
                  UNION {updated[t].symbols :
                            t \in {v \in visited : \A u \in visited :
                                                       TableRank[v] <= TableRank[u]}})

\* configureActionProfile: one associated table after the other, up to and
\* including the first that fails.
ConfigureActionProfile(constraints, msg) ==
    LET updated == [t \in AssociatedTables[msg.table] |->
                       UpdateConfiguration(constraints[t], ForTable(msg, t))]
        failed == {t \in DOMAIN updated : ~updated[t].ok}
        visited == {t \in DOMAIN updated :
                       \A u \in failed : TableRank[t] <= TableRank[u]}
    IN  Converted(failed = {},
                  [t \in Tables |-> IF t \in visited THEN updated[t].cfg
                                    ELSE constraints[t]],
                  UNION {updated[t].symbols : t \in visited})

\* Mutant of SkippedTables: messages for tables with an implementation are not
\* skipped.
NoSkippedTables == {}

\* Tables whose own messages BFRuntime skips with a warning.
SkippedTables == ImplementedTables

\* P4Runtime knows tables only.
P4RuntimeUpdate(constraints, msg) ==
    IF msg.table \in Tables THEN UpdateTableEntry(constraints, msg)
    ELSE Converted(FALSE, constraints, {})

\* BFRuntime: a table, an action profile, or a selector, which is a no-op.
BfRuntimeUpdate(constraints, msg) ==
    CASE msg.table \in Tables \ SkippedTables -> UpdateTableEntry(constraints, msg)
      [] msg.table \in SkippedTables -> Converted(TRUE, constraints, {})
      [] msg.table \in Profiles      -> ConfigureActionProfile(constraints, msg)
      [] msg.table \in Selectors     -> Converted(TRUE, constraints, {})
      [] OTHER                       -> Converted(FALSE, constraints, {})

\* convertControlPlaneUpdate: dispatch on the kind of update.
ConvertControlPlaneUpdate(constraints, msg) ==
    IF Api = "P4RUNTIME" THEN P4RuntimeUpdate(constraints, msg)
    ELSE BfRuntimeUpdate(constraints, msg)
=============================================================================
