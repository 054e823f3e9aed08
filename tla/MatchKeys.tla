------------------------------ MODULE MatchKeys ------------------------------
(***************************************************************************)
(* From the match fields of a table entry to the condition under which the *)
(* entry is taken.  An entry comes from a message of the controller        *)
(* (produceTableEntry) or from the P4 program (computeEntryKeySet); its    *)
(* fields are converted one by one into values for the symbolic variables  *)
(* of the key, and these are substituted into the key match the table      *)
(* executor built from the match kinds.  A variable that received no value *)
(* stays free.                                                             *)
(*                                                                         *)
(* A value is the vector of its W bits, bit 0 the least significant.  A    *)
(* field of an entry is a record whose form says how it was written: a     *)
(* value a, a value and mask a &&& b, a value and prefix length a/b, a     *)
(* range a..b, or absent (not set in the message, or _ in the program).    *)
(***************************************************************************)
EXTENDS Integers, Sequences

CONSTANTS
    W,          \* width of the key fields
    Kinds,      \* match kinds of the tables
    MaxFields,  \* bound: number of key elements
    Targets,    \* "bmv2", or "other" for tofino, nikss and fpga
    Excluded    \* cases left out: see Irregular

ASSUME MatchKeysAssumption ==
    /\ W \in Nat \ {0}
    /\ Kinds \subseteq {"exact", "ternary", "lpm", "optional", "range", "selector"}
    /\ MaxFields \in Nat
    /\ Targets \subseteq {"bmv2", "other"}
    /\ Excluded \subseteq {"singleValueRange", "absentOptional", "mixedKey"}

Positions == 0 .. (W - 1)
Value == [Positions -> {0, 1}]
Zero == [i \in Positions |-> 0]
MaxValue == [i \in Positions |-> 1]

\* The bits of a number, and the number with given bits.
Bits(n) == [i \in Positions |-> (n \div 2^i) % 2]
Number(v) == CHOOSE n \in 0 .. (2^W - 1) : Bits(n) = v

\* v <= w: where v has the larger bit, w has a larger one further left.
AtMost(v, w) ==
    \A i \in Positions : v[i] > w[i] => \E j \in Positions : j > i /\ v[j] < w[j]

\* A key element is a field of the packet or a literal of the program.
KeyElement == [kind : Kinds, literal : BOOLEAN]
LiteralValue == Bits(1)

\* A symbolic variable is assigned one value or none.
Variables == {"key", "mask", "prefix", "min", "max"}
Unset == [v \in Variables |-> {}]

Field ==
    [form : {"value"}, a : Value, b : {Zero}]
      \cup [form : {"masked"}, a : Value, b : Value]
      \cup [form : {"prefix"}, a : Value, b : 0..W]
      \cup {f \in [form : {"range"}, a : Value, b : Value] : AtMost(f.a, f.b)}
      \cup [form : {"absent"}, a : {Zero}, b : {Zero}]

VARIABLES
    target,
    source,   \* "message" or "program"
    key,      \* the key elements of the table
    fields,   \* the fields converted so far
    keySet,   \* for each of them, the values of its variables
    status    \* "converting", "done" or "failed"

vars == <<target, source, key, fields, keySet, status>>

-----------------------------------------------------------------------------
(* Bit vectors.                                                             *)

\* (a & mask) == (b & mask).
EqualUnder(mask, a, b) == \A i \in Positions : mask[i] = 1 => a[i] = b[i]

\* v << n.
Shl(v, n) == [i \in Positions |-> IF i >= n THEN v[i - n] ELSE 0]

-----------------------------------------------------------------------------
(* Which packets a field accepts (P4 semantics, external to Flay).  The     *)
(* elements of an action selector take no part in the match.                *)

Accepts(f, v) ==
    CASE f.form = "value"  -> v = f.a
      [] f.form = "masked" -> EqualUnder(f.b, v, f.a)
      [] f.form = "prefix" -> EqualUnder(Shl(MaxValue, W - f.b), v, f.a)
      [] f.form = "range"  -> AtMost(f.a, v) /\ AtMost(v, f.b)
      [] f.form = "absent" -> TRUE

\* Forms a well-formed message (message) and a type-checked program (program)
\* may use for a kind.
FormsOf(from, kind) ==
    CASE kind = "exact"    -> {"value"}
      [] kind = "ternary"  -> IF from = "message" THEN {"masked", "absent"}
                              ELSE {"value", "masked", "absent"}
      [] kind = "lpm"      -> IF from = "message" THEN {"prefix", "absent"}
                              ELSE {"value", "masked", "absent"}
      [] kind = "optional" -> {"value", "absent"}
      [] kind = "range"    -> IF from = "message" THEN {"range", "absent"}
                              ELSE {"value", "range", "absent"}
      [] kind = "selector" -> {"absent"}

\* The mask of a program's lpm field is a prefix.
PrefixMask(mask) == \E n \in 0..W : mask = Shl(MaxValue, n)

-----------------------------------------------------------------------------
(* Conversion of one field.  The result is a set: empty if it fails.        *)

Key(v)          == [Unset EXCEPT !["key"] = {v}]
KeyMask(v, m)   == [Unset EXCEPT !["key"] = {v}, !["mask"] = {m}]
KeyPrefix(v, n) == [Unset EXCEPT !["key"] = {v}, !["prefix"] = {n}]
MinMax(lo, hi)  == [Unset EXCEPT !["min"] = {lo}, !["max"] = {hi}]

\* produceTableMatch: by the match type of the message, P4Runtime and BFRuntime.
ProduceTableMatch(f) ==
    CASE f.form = "value"  -> {Key(f.a)}
      [] f.form = "masked" -> {KeyMask(f.a, f.b)}
      [] f.form = "prefix" -> {KeyPrefix(f.a, Bits(f.b))}
      [] f.form = "range"  -> {MinMax(f.a, f.b)}

\* Mutant of ProduceTableMatchForMissingField: a missing field is an exact 0.
MissingFieldIsZero(kind) ==
    IF kind \in {"ternary", "optional"} THEN {KeyMask(Zero, MaxValue)} ELSE {}

\* produceTableMatchForMissingField: by the kind in the P4Info.
ProduceTableMatchForMissingField(kind) ==
    IF kind \in {"ternary", "optional"} THEN {KeyMask(Zero, Zero)} ELSE {}

\* computeMatch of the core: exact, lpm and ternary.
ComputeCoreMatch(kind, f) ==
    CASE kind = "exact" /\ f.form = "value"    -> {Key(f.a)}
      [] kind = "lpm" /\ f.form = "absent"     -> {KeyPrefix(Zero, Zero)}
      [] kind = "lpm" /\ f.form = "masked"     -> {KeyPrefix(f.a, f.b)}
      [] kind = "lpm" /\ f.form = "value"      -> {KeyPrefix(f.a, Bits(W))}
      [] kind = "ternary" /\ f.form = "absent" -> {KeyMask(Zero, Zero)}
      [] kind = "ternary" /\ f.form = "masked" -> {KeyMask(f.a, f.b)}
      [] kind = "ternary" /\ f.form = "value"  -> {KeyMask(f.a, MaxValue)}
      [] OTHER -> {}

\* A range field of the program: any value, low .. high, or a single value.
RangeMatch(f) ==
    CASE f.form = "absent" -> {MinMax(Zero, MaxValue)}
      [] f.form = "range"  -> {MinMax(f.a, f.b)}
      [] f.form = "value"  -> {MinMax(f.a, f.a)}

\* An optional field written _ leaves the variable of the key free, except on
\* bmv2.
OptionalMatch(t, f) ==
    IF f.form = "value" THEN {Key(f.a)}
    ELSE IF t = "bmv2" THEN {KeyMask(Zero, Zero)} ELSE {Unset}

\* computeMatch of the targets: range and optional, then the core.
ComputeMatch(t, kind, f) ==
    CASE kind = "range"    -> RangeMatch(f)
      [] kind = "optional" -> OptionalMatch(t, f)
      [] OTHER             -> ComputeCoreMatch(kind, f)

\* One turn of the loop of produceTableEntry or computeEntryKeySet.  The P4Info
\* has no match field for an element of a selector.
Converted(kind, f) ==
    IF source = "program" THEN ComputeMatch(target, kind, f)
    ELSE IF kind = "selector" THEN {Unset}
    ELSE IF f.form = "absent" THEN ProduceTableMatchForMissingField(kind)
    ELSE ProduceTableMatch(f)

-----------------------------------------------------------------------------
(* The key match of the table.                                              *)

\* The variables in the constraint of a kind.
VariablesOf(kind) ==
    CASE kind \in {"exact", "optional", "selector"} -> {"key"}
      [] kind = "ternary" -> {"key", "mask"}
      [] kind = "lpm"     -> {"key", "prefix"}
      [] kind = "range"   -> {"min", "max"}

\* createRangeKey.
InRange(min, max, v) ==
    /\ AtMost(min, max) /\ min # max
    /\ AtMost(min, v) /\ AtMost(v, max)

\* Mutant of KeyConstraint: bits of the key that are 0 are not compared.
OneSidedConstraint(kind, x, v) ==
    CASE kind \in {"exact", "optional", "selector"} -> x["key"] = v
      [] kind = "ternary" ->
             \A i \in Positions : x["mask"][i] = 0 \/ x["key"][i] = 0 \/ v[i] = 1
      [] kind = "lpm"     -> EqualUnder(Shl(MaxValue, Number(x["prefix"])), v, x["key"])
      [] kind = "range"   -> InRange(x["min"], x["max"], v)

\* computeControlPlaneConstraint of the key classes, for the value v of the key
\* expression and values x of the variables.
KeyConstraint(kind, x, v) ==
    CASE kind \in {"exact", "optional", "selector"} -> x["key"] = v
      [] kind = "ternary" -> EqualUnder(x["mask"], v, x["key"])
      [] kind = "lpm"     -> EqualUnder(Shl(MaxValue, Number(x["prefix"])), v, x["key"])
      [] kind = "range"   -> InRange(x["min"], x["max"], v)

\* resolveKey: if some element is not symbolic yet, only those elements are kept.
Resolved ==
    LET changed == {i \in DOMAIN key : ~key[i].literal}
    IN  IF changed # {} THEN changed ELSE DOMAIN key

\* The values the variables of element i may take after the substitution.
Valuations(i) ==
    {x \in [VariablesOf(key[i].kind) -> Value] :
        \A v \in DOMAIN x : keySet[i][v] \subseteq {x[v]}}

\* The condition of the entry (buildKeyMatches, then substitute) holds for every
\* value of the free variables, or for some.
CertainlyTaken(packet) ==
    /\ Resolved # {}
    /\ \A i \in Resolved : \A x \in Valuations(i) :
          KeyConstraint(key[i].kind, x, packet[i])
PossiblyTaken(packet) ==
    /\ Resolved # {}
    /\ \A i \in Resolved : \E x \in Valuations(i) :
          KeyConstraint(key[i].kind, x, packet[i])

-----------------------------------------------------------------------------
\* Inputs on which the condition is known to differ from P4: a range of a single
\* value never matches, an absent optional field that is converted to 0 matches
\* only 0, and a literal next to a packet field is dropped by resolveKey.
Irregular(kind, f) ==
    \/ /\ kind = "range" /\ f.form \in {"value", "range"}
       /\ f.form = "value" \/ f.a = f.b
       /\ "singleValueRange" \in Excluded
    \/ /\ kind = "optional" /\ f.form = "absent"
       /\ source = "message" \/ target = "bmv2"
       /\ "absentOptional" \in Excluded

Mixed(k) == \E i, j \in DOMAIN k : k[i].literal # k[j].literal

Init ==
    /\ target \in Targets
    /\ source \in {"message", "program"}
    /\ key \in UNION {[1..n -> KeyElement] : n \in 0..MaxFields}
    /\ "mixedKey" \in Excluded => ~Mixed(key)
    /\ fields = <<>>
    /\ keySet = <<>>
    /\ status = "converting"

\* The next field of the entry is converted, or the conversion fails.
ConvertField(f) ==
    LET kind == key[Len(fields) + 1].kind
    IN  /\ status = "converting"
        /\ Len(fields) < Len(key)
        /\ f.form \in FormsOf(source, kind)
        /\ kind = "lpm" /\ f.form = "masked" => PrefixMask(f.b)
        /\ ~Irregular(kind, f)
        /\ fields' = Append(fields, f)
        /\ \/ \E x \in Converted(kind, f) :
                 keySet' = Append(keySet, x) /\ UNCHANGED status
           \/ /\ Converted(kind, f) = {}
              /\ status' = "failed" /\ UNCHANGED keySet
        /\ UNCHANGED <<target, source, key>>

\* All fields are converted: the entry is complete.
FinishEntry ==
    /\ status = "converting"
    /\ Len(fields) = Len(key)
    /\ status' = "done"
    /\ UNCHANGED <<target, source, key, fields, keySet>>

Next == (\E f \in Field : ConvertField(f)) \/ FinishEntry

Spec == Init /\ [][Next]_vars

-----------------------------------------------------------------------------
(* Properties.                                                              *)

\* Packets, and those that match the entry in P4.  A table without key never
\* hits.
Packets ==
    {p \in [DOMAIN key -> Value] :
        \A i \in DOMAIN key : key[i].literal => p[i] = LiteralValue}
Matching(packet) ==
    key # <<>> /\ \A i \in DOMAIN key : Accepts(fields[i], packet[i])

\* The condition of an entry never claims a packet the entry does not match: an
\* action that can only run on a hit is not taken to run always.
CertainMatchIsReal ==
    status = "done" => \A p \in Packets : CertainlyTaken(p) => Matching(p)

\* A packet that matches the entry satisfies its condition, for some value of
\* the variables the conversion left free: the action of the entry is not taken
\* to be unreachable.
RealMatchIsPossible ==
    status = "done" => \A p \in Packets : Matching(p) => PossiblyTaken(p)
=============================================================================
