---------------------------- MODULE MatchKeysProofs ----------------------------
(***************************************************************************)
(* The condition of an entry agrees with the packets the entry matches,    *)
(* for fields of any width and keys of any length, of every kind but lpm.  *)
(***************************************************************************)
EXTENDS MatchKeys, SequenceTheorems, TLAPS

-----------------------------------------------------------------------------
(* One field.                                                               *)

\* The values of the variables of a kind that agree with a conversion x.
ValuationsOf(kind, x) ==
    {y \in [VariablesOf(kind) -> Value] : \A v \in DOMAIN y : x[v] \subseteq {y[v]}}

\* What the kind makes of a conversion for the value v of the key: its condition
\* holds whatever the free variables are, or for some values of them.
Certain(kind, x, v) == \A y \in ValuationsOf(kind, x) : KeyConstraint(kind, y, v)
Possible(kind, x, v) == \E y \in ValuationsOf(kind, x) : KeyConstraint(kind, y, v)

\* Constants of a key field.
LEMMA ConstantsType ==
    /\ Zero \in Value /\ MaxValue \in Value /\ Zero # MaxValue
    /\ \A v \in Value : AtMost(Zero, v) /\ AtMost(v, MaxValue)
<1>1. Zero \in Value /\ MaxValue \in Value
  BY DEF Zero, MaxValue, Value
<1>2. Zero # MaxValue
  <2>0. W \in Nat \ {0}
    BY MatchKeysAssumption
  <2>1. 0 \in Positions
    BY <2>0 DEF Positions
  <2>2. Zero[0] = 0 /\ MaxValue[0] = 1
    BY <2>1 DEF Zero, MaxValue
  <2>3. QED
    BY <2>2
<1>3. ASSUME NEW v \in Value
      PROVE  AtMost(Zero, v) /\ AtMost(v, MaxValue)
  <2>1. \A i \in Positions : v[i] \in {0, 1} /\ Zero[i] = 0 /\ MaxValue[i] = 1
    BY DEF Value, Zero, MaxValue
  <2>2. QED
    BY <2>1 DEF AtMost
<1>4. QED
  BY <1>1, <1>2, <1>3

\* Equality under a full mask is equality, under an empty one it is no condition.
LEMMA EqualUnderConstants ==
    ASSUME NEW v \in Value, NEW w \in Value
    PROVE  /\ EqualUnder(MaxValue, v, w) <=> v = w
           /\ EqualUnder(Zero, v, w)
<1>1. EqualUnder(MaxValue, v, w) => v = w
  <2> SUFFICES ASSUME EqualUnder(MaxValue, v, w) PROVE v = w
    OBVIOUS
  <2>1. \A i \in Positions : v[i] = w[i]
    BY DEF EqualUnder, MaxValue
  <2>2. QED
    BY <2>1 DEF Value
<1>2. v = w => EqualUnder(MaxValue, v, w)
  BY DEF EqualUnder
<1>3. EqualUnder(Zero, v, w)
  BY DEF EqualUnder, Zero
<1>4. QED
  BY <1>1, <1>2, <1>3

\* The valuations of a conversion, by the kind of its variables.
LEMMA KeyValuation ==
    ASSUME NEW kind \in {"exact", "optional", "selector"}, NEW a \in Value
    PROVE  /\ \A y \in ValuationsOf(kind, Key(a)) : y["key"] = a
           /\ \E y \in ValuationsOf(kind, Key(a)) : y["key"] = a
           /\ \E y \in ValuationsOf(kind, Unset) : y["key"] = a
<1>1. VariablesOf(kind) = {"key"}
  BY DEF VariablesOf
<1>2. Key(a)["key"] = {a} /\ Unset["key"] = {}
  BY DEF Key, Unset, Variables
<1>3. \A y \in ValuationsOf(kind, Key(a)) : y["key"] = a
  BY <1>1, <1>2 DEF ValuationsOf
<1> DEFINE y == [u \in {"key"} |-> a]
<1>4. y \in ValuationsOf(kind, Key(a)) /\ y \in ValuationsOf(kind, Unset) /\ y["key"] = a
  BY <1>1, <1>2 DEF ValuationsOf
<1>5. QED
  BY <1>3, <1>4

LEMMA MaskValuation ==
    ASSUME NEW a \in Value, NEW b \in Value
    PROVE  /\ \A y \in ValuationsOf("ternary", KeyMask(a, b)) : y["key"] = a /\ y["mask"] = b
           /\ \E y \in ValuationsOf("ternary", KeyMask(a, b)) : y["key"] = a /\ y["mask"] = b
<1>1. VariablesOf("ternary") = {"key", "mask"}
  BY DEF VariablesOf
<1>2. KeyMask(a, b)["key"] = {a} /\ KeyMask(a, b)["mask"] = {b}
  BY DEF KeyMask, Unset, Variables
<1>3. \A y \in ValuationsOf("ternary", KeyMask(a, b)) : y["key"] = a /\ y["mask"] = b
  BY <1>1, <1>2 DEF ValuationsOf
<1> DEFINE y == [u \in {"key", "mask"} |-> IF u = "key" THEN a ELSE b]
<1>4. y \in ValuationsOf("ternary", KeyMask(a, b)) /\ y["key"] = a /\ y["mask"] = b
  BY <1>1, <1>2 DEF ValuationsOf
<1>5. QED
  BY <1>3, <1>4

LEMMA RangeValuation ==
    ASSUME NEW a \in Value, NEW b \in Value
    PROVE  /\ \A y \in ValuationsOf("range", MinMax(a, b)) : y["min"] = a /\ y["max"] = b
           /\ \E y \in ValuationsOf("range", MinMax(a, b)) : y["min"] = a /\ y["max"] = b
<1>1. VariablesOf("range") = {"min", "max"}
  BY DEF VariablesOf
<1>2. MinMax(a, b)["min"] = {a} /\ MinMax(a, b)["max"] = {b}
  BY DEF MinMax, Unset, Variables
<1>3. \A y \in ValuationsOf("range", MinMax(a, b)) : y["min"] = a /\ y["max"] = b
  BY <1>1, <1>2 DEF ValuationsOf
<1> DEFINE y == [u \in {"min", "max"} |-> IF u = "min" THEN a ELSE b]
<1>4. y \in ValuationsOf("range", MinMax(a, b)) /\ y["min"] = a /\ y["max"] = b
  BY <1>1, <1>2 DEF ValuationsOf
<1>5. QED
  BY <1>3, <1>4

\* The constraint of a kind, for given values of its variables.
LEMMA ConstraintOf ==
    ASSUME NEW y, NEW v
    PROVE  /\ \A kind \in {"exact", "optional", "selector"} :
                 KeyConstraint(kind, y, v) <=> y["key"] = v
           /\ KeyConstraint("ternary", y, v) <=> EqualUnder(y["mask"], v, y["key"])
           /\ KeyConstraint("range", y, v) <=> InRange(y["min"], y["max"], v)
  BY DEF KeyConstraint

\* What a conversion of each shape makes of the key.
LEMMA KeyMeaning ==
    ASSUME NEW kind \in {"exact", "optional", "selector"}, NEW a \in Value, NEW v \in Value
    PROVE  /\ Certain(kind, Key(a), v) => v = a
           /\ v = a => Possible(kind, Key(a), v)
           /\ Possible(kind, Unset, v)
<1>1. \E y \in ValuationsOf(kind, Key(a)) : y["key"] = a
  BY KeyValuation
<1>2. \E y \in ValuationsOf(kind, Unset) : y["key"] = v
  BY KeyValuation
<1>3. QED
  BY <1>1, <1>2, ConstraintOf DEF Certain, Possible

LEMMA MaskMeaning ==
    ASSUME NEW a \in Value, NEW b \in Value, NEW v \in Value
    PROVE  /\ Certain("ternary", KeyMask(a, b), v) => EqualUnder(b, v, a)
           /\ EqualUnder(b, v, a) => Possible("ternary", KeyMask(a, b), v)
<1>1. \E y \in ValuationsOf("ternary", KeyMask(a, b)) : y["key"] = a /\ y["mask"] = b
  BY MaskValuation
<1>2. QED
  BY <1>1, ConstraintOf DEF Certain, Possible

LEMMA RangeMeaning ==
    ASSUME NEW a \in Value, NEW b \in Value, NEW v \in Value
    PROVE  /\ Certain("range", MinMax(a, b), v) => InRange(a, b, v)
           /\ InRange(a, b, v) => Possible("range", MinMax(a, b), v)
<1>1. \E y \in ValuationsOf("range", MinMax(a, b)) : y["min"] = a /\ y["max"] = b
  BY RangeValuation
<1>2. QED
  BY <1>1, ConstraintOf DEF Certain, Possible

\* A field on which the condition of the entry is known to agree with P4.
Regular(from, to, kind, f) ==
    /\ ~(kind = "range" /\ (f.form = "value" \/ (f.form = "range" /\ f.a = f.b)))
    /\ ~(kind = "optional" /\ f.form = "absent" /\ (from = "message" \/ to = "bmv2"))

\* What is known of a field that may be converted: its form, and the vectors.
LEMMA FieldType ==
    ASSUME NEW f \in Field
    PROVE  /\ f.form \in {"value", "masked", "prefix", "range", "absent"}
           /\ f.a \in Value
           /\ f.form \in {"masked", "range"} => f.b \in Value
           /\ f.form = "range" => AtMost(f.a, f.b)
  BY ConstantsType DEF Field

\* The condition of one field agrees with P4, however the field was written: it
\* never claims a value the field does not accept, and excludes none it accepts,
\* unless the field is one of those that are known to be converted wrongly.
LEMMA FieldExact ==
    ASSUME "lpm" \notin Kinds,
           source \in {"message", "program"}, target \in Targets,
           NEW kind \in Kinds, NEW f \in Field, f.form \in FormsOf(source, kind),
           NEW x \in Converted(kind, f), NEW v \in Value
    PROVE  /\ Certain(kind, x, v) => Accepts(f, v)
           /\ Regular(source, target, kind, f) /\ Accepts(f, v) => Possible(kind, x, v)
<1>1. kind \in {"exact", "ternary", "optional", "range", "selector"}
  BY MatchKeysAssumption
<1>2. f.form \in {"value", "masked", "prefix", "range", "absent"} /\ f.a \in Value
  BY FieldType
<1>3. Zero \in Value /\ MaxValue \in Value
  BY ConstantsType
<1>4. f.form = "value" => (Accepts(f, v) <=> v = f.a)
  BY DEF Accepts
<1>5. f.form = "masked" => (Accepts(f, v) <=> EqualUnder(f.b, v, f.a))
  BY DEF Accepts
<1>6. f.form = "range" => (Accepts(f, v) <=> AtMost(f.a, v) /\ AtMost(v, f.b))
  BY DEF Accepts
<1>7. f.form = "absent" => Accepts(f, v)
  BY DEF Accepts
<1>8. CASE kind = "exact"
  <2>1. f.form = "value"
    BY <1>8 DEF FormsOf
  <2>2. x = Key(f.a)
    BY <1>8, <2>1 DEF Converted, ComputeMatch, ComputeCoreMatch, ProduceTableMatch
  <2>3. QED
    BY <1>2, <1>4, <1>8, <2>1, <2>2, KeyMeaning
<1>9. CASE kind = "ternary"
  <2>1. f.form \in {"value", "masked", "absent"}
    BY <1>9 DEF FormsOf
  <2>2. CASE f.form = "value"
    <3>1. source = "program"
      BY <1>9, <2>2 DEF FormsOf
    <3>2. x = KeyMask(f.a, MaxValue)
      BY <1>9, <2>2, <3>1 DEF Converted, ComputeMatch, ComputeCoreMatch
    <3>3. EqualUnder(MaxValue, v, f.a) <=> v = f.a
      BY <1>2, EqualUnderConstants
    <3>4. QED
      BY <1>2, <1>3, <1>4, <1>9, <2>2, <3>2, <3>3, MaskMeaning
  <2>3. CASE f.form = "masked"
    <3>1. x = KeyMask(f.a, f.b)
      BY <1>9, <2>3 DEF Converted, ComputeMatch, ComputeCoreMatch, ProduceTableMatch
    <3>2. f.b \in Value
      BY <2>3, FieldType
    <3>3. QED
      BY <1>2, <1>5, <1>9, <2>3, <3>1, <3>2, MaskMeaning
  <2>4. CASE f.form = "absent"
    <3>1. x = KeyMask(Zero, Zero)
      BY <1>9, <2>4 DEF Converted, ComputeMatch, ComputeCoreMatch,
                        ProduceTableMatchForMissingField
    <3>2. EqualUnder(Zero, v, Zero)
      BY <1>3, EqualUnderConstants
    <3>3. QED
      BY <1>3, <1>7, <1>9, <2>4, <3>1, <3>2, MaskMeaning
  <2>5. QED
    BY <2>1, <2>2, <2>3, <2>4
<1>10. CASE kind = "optional"
  <2>1. f.form \in {"value", "absent"}
    BY <1>10 DEF FormsOf
  <2>2. CASE f.form = "value"
    <3>1. x = Key(f.a)
      BY <1>10, <2>2 DEF Converted, ComputeMatch, OptionalMatch, ProduceTableMatch
    <3>2. QED
      BY <1>2, <1>4, <1>10, <2>2, <3>1, KeyMeaning
  <2>3. CASE f.form = "absent"
    <3>1. Regular(source, target, kind, f) => source = "program" /\ target # "bmv2"
      BY <1>10, <2>3 DEF Regular
    <3>2. Regular(source, target, kind, f) => x = Unset
      BY <1>10, <2>3, <3>1 DEF Converted, ComputeMatch, OptionalMatch
    <3>3. QED
      BY <1>7, <1>10, <2>3, <3>2, KeyMeaning, <1>3
  <2>4. QED
    BY <2>1, <2>2, <2>3
<1>11. CASE kind = "range"
  <2>1. f.form \in {"value", "range", "absent"}
    BY <1>11 DEF FormsOf
  <2>2. CASE f.form = "value"
    <3>1. source = "program"
      BY <1>11, <2>2 DEF FormsOf
    <3>2. x = MinMax(f.a, f.a)
      BY <1>11, <2>2, <3>1 DEF Converted, ComputeMatch, RangeMatch
    <3>3. ~Certain(kind, x, v)
      BY <1>2, <1>11, <3>2, RangeMeaning DEF InRange
    <3>4. ~Regular(source, target, kind, f)
      BY <1>11, <2>2 DEF Regular
    <3>5. QED
      BY <3>3, <3>4
  <2>3. CASE f.form = "range"
    <3>1. x = MinMax(f.a, f.b)
      BY <1>11, <2>3 DEF Converted, ComputeMatch, RangeMatch, ProduceTableMatch
    <3>2. f.b \in Value /\ AtMost(f.a, f.b)
      BY <2>3, FieldType
    <3>3. Certain(kind, x, v) => AtMost(f.a, v) /\ AtMost(v, f.b)
      BY <1>2, <1>11, <3>1, <3>2, RangeMeaning DEF InRange
    <3>4. f.a # f.b /\ AtMost(f.a, v) /\ AtMost(v, f.b) => Possible(kind, x, v)
      BY <1>2, <1>11, <3>1, <3>2, RangeMeaning DEF InRange
    <3>5. Regular(source, target, kind, f) => f.a # f.b
      BY <1>11, <2>3 DEF Regular
    <3>6. QED
      BY <1>6, <2>3, <3>3, <3>4, <3>5
  <2>4. CASE f.form = "absent"
    <3>1. x = MinMax(Zero, MaxValue)
      BY <1>11, <2>4 DEF Converted, ComputeMatch, RangeMatch,
                         ProduceTableMatchForMissingField
    <3>2. InRange(Zero, MaxValue, v)
      BY ConstantsType DEF InRange
    <3>3. QED
      BY <1>3, <1>7, <1>11, <2>4, <3>1, <3>2, RangeMeaning
  <2>5. QED
    BY <2>1, <2>2, <2>3, <2>4
<1>12. CASE kind = "selector"
  <2>1. f.form = "absent"
    BY <1>12 DEF FormsOf
  <2>2. x = Unset
    BY <1>12, <2>1 DEF Converted, ComputeMatch, ComputeCoreMatch
  <2>3. QED
    BY <1>3, <1>7, <1>12, <2>1, <2>2, KeyMeaning
<1>13. QED
  BY <1>1, <1>8, <1>9, <1>10, <1>11, <1>12

-----------------------------------------------------------------------------
(* The entry.                                                               *)

\* A conversion assigns constants of the key field to variables.
Conversion == [Variables -> SUBSET (Value \cup {Bits(n) : n \in 0..W})]

\* The state of the loop over the key: what was converted so far are fields the
\* entry may have, and for each of them a result of its conversion.
Conversions ==
    /\ target \in Targets /\ source \in {"message", "program"}
    /\ key \in Seq(KeyElement)
    /\ "mixedKey" \in Excluded => ~Mixed(key)
    /\ fields \in Seq(Field) /\ Len(fields) <= Len(key)
    /\ keySet \in Seq(Conversion)
    /\ \A i \in 1..Len(fields) :
          fields[i].form \in FormsOf(source, key[i].kind) /\ ~Irregular(key[i].kind, fields[i])
    /\ status \in {"converting", "done"} =>
          /\ Len(keySet) = Len(fields)
          /\ \A i \in 1..Len(fields) : keySet[i] \in Converted(key[i].kind, fields[i])
    /\ status = "done" => Len(fields) = Len(key)

\* Whatever a field is converted to assigns constants to variables.
LEMMA ConversionType ==
    ASSUME source \in {"message", "program"},
           NEW kind \in Kinds, NEW f \in Field, f.form \in FormsOf(source, kind),
           NEW x \in Converted(kind, f)
    PROVE  x \in Conversion
<1> DEFINE Constants == Value \cup {Bits(n) : n \in 0..W}
<1>1. Zero \in Constants /\ MaxValue \in Constants /\ f.a \in Constants
  BY ConstantsType, FieldType
<1>2. W \in 0..W
  <2>1. W \in Nat
    BY MatchKeysAssumption
  <2>2. QED
    BY <2>1
<1>3. f.form = "prefix" => f.b \in 0..W
  BY DEF Field
<1>4. f.form = "prefix" => Bits(f.b) \in Constants
  BY <1>3
<1>5. Bits(W) \in Constants
  BY <1>2
<1>6. f.form \in {"masked", "range"} => f.b \in Constants
  BY FieldType
<1> HIDE DEF Constants
<1>7. Unset \in [Variables -> SUBSET Constants]
  BY DEF Unset
<1>8. \A a \in Constants, b \in Constants :
         /\ Key(a) \in [Variables -> SUBSET Constants]
         /\ KeyMask(a, b) \in [Variables -> SUBSET Constants]
         /\ KeyPrefix(a, b) \in [Variables -> SUBSET Constants]
         /\ MinMax(a, b) \in [Variables -> SUBSET Constants]
  BY <1>7 DEF Key, KeyMask, KeyPrefix, MinMax
<1>9. f.form # "absent" =>
        \A y \in ProduceTableMatch(f) : y \in [Variables -> SUBSET Constants]
  <2>1. f.form \in {"value", "masked", "prefix", "range", "absent"}
    BY FieldType
  <2>2. CASE f.form = "value"
    BY <1>1, <1>8, <2>2 DEF ProduceTableMatch
  <2>3. CASE f.form = "masked"
    BY <1>1, <1>6, <1>8, <2>3 DEF ProduceTableMatch
  <2>4. CASE f.form = "prefix"
    BY <1>1, <1>4, <1>8, <2>4 DEF ProduceTableMatch
  <2>5. CASE f.form = "range"
    BY <1>1, <1>6, <1>8, <2>5 DEF ProduceTableMatch
  <2>6. QED
    BY <2>1, <2>2, <2>3, <2>4, <2>5
<1>10. \A y \in ProduceTableMatchForMissingField(kind) : y \in [Variables -> SUBSET Constants]
  BY <1>1, <1>8 DEF ProduceTableMatchForMissingField
<1>11. \A y \in ComputeMatch(target, kind, f) : y \in [Variables -> SUBSET Constants]
  <2>1. CASE kind = "range"
    <3>1. f.form \in {"value", "range", "absent"}
      BY <2>1 DEF FormsOf
    <3>2. CASE f.form = "value"
      BY <1>1, <1>8, <2>1, <3>2 DEF ComputeMatch, RangeMatch
    <3>3. CASE f.form = "range"
      BY <1>1, <1>6, <1>8, <2>1, <3>3 DEF ComputeMatch, RangeMatch
    <3>4. CASE f.form = "absent"
      BY <1>1, <1>8, <2>1, <3>4 DEF ComputeMatch, RangeMatch
    <3>5. QED
      BY <3>1, <3>2, <3>3, <3>4
  <2>2. CASE kind = "optional"
    BY <1>1, <1>7, <1>8, <2>2 DEF ComputeMatch, OptionalMatch
  <2>3. CASE kind \notin {"range", "optional"}
    <3>1. \A y \in ComputeCoreMatch(kind, f) : y \in [Variables -> SUBSET Constants]
      <4>1. CASE kind = "exact" /\ f.form = "value"
        BY <1>1, <1>8, <4>1 DEF ComputeCoreMatch
      <4>2. CASE kind = "lpm" /\ f.form = "absent"
        BY <1>1, <1>8, <4>2 DEF ComputeCoreMatch
      <4>3. CASE kind = "lpm" /\ f.form = "masked"
        BY <1>1, <1>6, <1>8, <4>3 DEF ComputeCoreMatch
      <4>4. CASE kind = "lpm" /\ f.form = "value"
        BY <1>1, <1>5, <1>8, <4>4 DEF ComputeCoreMatch
      <4>5. CASE kind = "ternary" /\ f.form = "absent"
        BY <1>1, <1>8, <4>5 DEF ComputeCoreMatch
      <4>6. CASE kind = "ternary" /\ f.form = "masked"
        BY <1>1, <1>6, <1>8, <4>6 DEF ComputeCoreMatch
      <4>7. CASE kind = "ternary" /\ f.form = "value"
        BY <1>1, <1>8, <4>7 DEF ComputeCoreMatch
      <4>8. CASE ~(kind = "exact" /\ f.form = "value")
                 /\ ~(kind \in {"lpm", "ternary"} /\ f.form \in {"absent", "masked", "value"})
        BY <4>8 DEF ComputeCoreMatch
      <4>9. QED
        BY <4>1, <4>2, <4>3, <4>4, <4>5, <4>6, <4>7, <4>8
    <3>2. QED
      BY <2>3, <3>1 DEF ComputeMatch
  <2>4. QED
    BY <2>1, <2>2, <2>3
<1>12. x \in [Variables -> SUBSET Constants]
  BY <1>7, <1>9, <1>10, <1>11 DEF Converted
<1>13. QED
  BY <1>12 DEF Conversion, Constants

\* Before the first field nothing is converted.
LEMMA InitConversions == Init => Conversions
<1> SUFFICES ASSUME Init PROVE Conversions
  OBVIOUS
<1>1. PICK n \in 0..MaxFields : key \in [1..n -> KeyElement]
  BY DEF Init
<1>2. n \in Nat
  <2>1. MaxFields \in Nat
    BY MatchKeysAssumption
  <2>2. QED
    BY <2>1
<1>3. key \in Seq(KeyElement)
  BY <1>1, <1>2, SeqDef
<1>4. Len(key) \in Nat
  BY <1>3, LenProperties
<1>5. fields \in Seq(Field) /\ Len(fields) = 0 /\ keySet \in Seq(Conversion) /\ Len(keySet) = 0
  BY EmptySeq DEF Init
<1>6. 1..Len(fields) = {}
  BY <1>5
<1>7. /\ target \in Targets /\ source \in {"message", "program"} /\ status = "converting"
      /\ "mixedKey" \in Excluded => ~Mixed(key)
  BY DEF Init
<1>8. Len(fields) <= Len(key) /\ Len(keySet) = Len(fields)
  BY <1>4, <1>5
<1>9. QED
  BY <1>3, <1>5, <1>6, <1>7, <1>8 DEF Conversions

\* The loop converts the fields in order and stops at the first failure.
LEMMA NextConversions == Conversions /\ [Next]_vars => Conversions'
<1> SUFFICES ASSUME Conversions, [Next]_vars PROVE Conversions'
  OBVIOUS
<1> USE DEF Conversions
<1>1. ASSUME NEW f \in Field, ConvertField(f)
      PROVE  Conversions'
  <2> DEFINE kind == key[Len(fields) + 1].kind
  <2>1. /\ status = "converting" /\ Len(fields) < Len(key)
        /\ f.form \in FormsOf(source, kind) /\ ~Irregular(kind, f)
        /\ fields' = Append(fields, f)
        /\ UNCHANGED <<target, source, key>>
    BY <1>1 DEF ConvertField
  <2>2. /\ fields' \in Seq(Field) /\ Len(fields') = Len(fields) + 1
        /\ \A i \in 1..Len(fields) : fields'[i] = fields[i]
        /\ fields'[Len(fields) + 1] = f
    BY <2>1, AppendProperties
  <2>3. /\ \A i \in 1..Len(fields') : i \in 1..Len(fields) \/ i = Len(fields) + 1
        /\ Len(fields') <= Len(key)
        /\ key[Len(fields) + 1] \in KeyElement
    <3>1. Len(fields) \in Nat /\ Len(key) \in Nat
      BY LenProperties
    <3>2. Len(fields) + 1 \in 1..Len(key)
      BY <2>1, <3>1
    <3>3. key[Len(fields) + 1] \in KeyElement
      BY <3>2, ElementOfSeq
    <3>4. QED
      BY <2>1, <2>2, <3>1, <3>3
  <2>4. /\ \A k, g : (Irregular(k, g))' <=> Irregular(k, g)
        /\ \A k, g : (Converted(k, g))' = Converted(k, g)
    BY <2>1 DEF Irregular, Converted
  <2>5. \A i \in 1..Len(fields') :
           /\ fields'[i].form \in FormsOf(source, key[i].kind)
           /\ ~Irregular(key[i].kind, fields'[i])
    BY <2>1, <2>2, <2>3
  <2>6. CASE Converted(kind, f) = {} /\ status' = "failed" /\ UNCHANGED keySet
    BY <2>1, <2>2, <2>4, <2>5, <2>6
  <2>7. CASE \E x \in Converted(kind, f) : keySet' = Append(keySet, x) /\ UNCHANGED status
    <3>1. PICK x \in Converted(kind, f) : keySet' = Append(keySet, x) /\ UNCHANGED status
      BY <2>7
    <3>2. x \in Conversion
      <4>1. kind \in Kinds
        BY <2>3 DEF KeyElement
      <4>2. QED
        BY <2>1, <3>1, <4>1, ConversionType
    <3>3. Len(keySet) = Len(fields)
      BY <2>1
    <3>4. /\ keySet' \in Seq(Conversion) /\ Len(keySet') = Len(fields')
          /\ \A i \in 1..Len(fields) : keySet'[i] = keySet[i]
          /\ keySet'[Len(fields) + 1] = x
      BY <2>2, <3>1, <3>2, <3>3, AppendProperties
    <3>5. \A i \in 1..Len(fields') : keySet'[i] \in Converted(key[i].kind, fields'[i])
      BY <2>1, <2>2, <2>3, <3>1, <3>4
    <3>6. status' # "done"
      BY <2>1, <3>1
    <3>7. QED
      BY <2>1, <2>2, <2>4, <2>5, <3>4, <3>5, <3>6
  <2>8. QED
    BY <1>1, <2>6, <2>7 DEF ConvertField
<1>2. CASE FinishEntry
  BY <1>2 DEF FinishEntry, Irregular, Converted
<1>3. CASE UNCHANGED vars
  BY <1>3 DEF vars, Irregular, Converted
<1>4. QED
  BY <1>1, <1>2, <1>3 DEF Next

\* What holds of every field of a complete entry.
LEMMA EntryExact ==
    ASSUME "lpm" \notin Kinds, Conversions, status = "done",
           NEW p \in Packets, NEW i \in DOMAIN key
    PROVE  /\ Valuations(i) = ValuationsOf(key[i].kind, keySet[i])
           /\ Certain(key[i].kind, keySet[i], p[i]) => Accepts(fields[i], p[i])
           /\ ({"singleValueRange", "absentOptional"} \subseteq Excluded /\
                 Accepts(fields[i], p[i])) => Possible(key[i].kind, keySet[i], p[i])
<1>1. key \in Seq(KeyElement) /\ i \in 1..Len(key) /\ i \in 1..Len(fields)
  BY LenProperties DEF Conversions
<1>2. key[i] \in KeyElement /\ fields[i] \in Field
  BY <1>1, ElementOfSeq DEF Conversions
<1>3. key[i].kind \in Kinds
  BY <1>2 DEF KeyElement
<1>4. p[i] \in Value
  BY DEF Packets
<1>5. /\ source \in {"message", "program"} /\ target \in Targets
      /\ fields[i].form \in FormsOf(source, key[i].kind)
      /\ keySet[i] \in Converted(key[i].kind, fields[i])
  BY <1>1 DEF Conversions
<1>6. {"singleValueRange", "absentOptional"} \subseteq Excluded =>
        Regular(source, target, key[i].kind, fields[i])
  BY <1>1 DEF Conversions, Irregular, Regular
<1>7. Valuations(i) = ValuationsOf(key[i].kind, keySet[i])
  BY DEF Valuations, ValuationsOf
<1>8. QED
  BY <1>2, <1>3, <1>4, <1>5, <1>6, <1>7, FieldExact

-----------------------------------------------------------------------------
(* Theorems.                                                                *)

\* For keys of any length and fields of any width, from messages and programs of
\* every target: the condition of an entry claims no packet the entry does not
\* match, unless resolveKey drops a literal of the key, or a field is lpm.
THEOREM ConditionClaimsNoOther ==
    ASSUME "lpm" \notin Kinds, "mixedKey" \in Excluded
    PROVE  Spec => []CertainMatchIsReal
<1>1. Conversions => CertainMatchIsReal
  <2> SUFFICES ASSUME Conversions, status = "done", NEW p \in Packets, CertainlyTaken(p)
               PROVE  Matching(p)
    BY DEF CertainMatchIsReal
  <2>1. ~Mixed(key)
    BY DEF Conversions
  <2>2. Resolved = DOMAIN key
    BY <2>1 DEF Resolved, Mixed
  <2>3. DOMAIN key # {}
    BY <2>2 DEF CertainlyTaken
  <2>4. key # <<>>
    BY <2>3, LenProperties, EmptySeq DEF Conversions
  <2>5. ASSUME NEW i \in DOMAIN key
        PROVE  Accepts(fields[i], p[i])
    <3>1. \A x \in Valuations(i) : KeyConstraint(key[i].kind, x, p[i])
      BY <2>2, <2>5 DEF CertainlyTaken
    <3>2. Certain(key[i].kind, keySet[i], p[i])
      BY <3>1, EntryExact DEF Certain
    <3>3. QED
      BY <3>2, EntryExact
  <2>6. QED
    BY <2>4, <2>5 DEF Matching
<1>2. QED
  BY <1>1, InitConversions, NextConversions, PTL DEF Spec

\* No packet the entry matches is excluded by its condition, unless a range is of
\* a single value, an optional field is absent, or a field is lpm.  Dropping a
\* literal of the key does no harm here.
THEOREM ConditionExcludesNone ==
    ASSUME "lpm" \notin Kinds,
           {"singleValueRange", "absentOptional"} \subseteq Excluded
    PROVE  Spec => []RealMatchIsPossible
<1>1. Conversions => RealMatchIsPossible
  <2> SUFFICES ASSUME Conversions, status = "done", NEW p \in Packets, Matching(p)
               PROVE  PossiblyTaken(p)
    BY DEF RealMatchIsPossible
  <2>1. Resolved \subseteq DOMAIN key
    BY DEF Resolved
  <2>2. Resolved # {}
    <3>1. DOMAIN key # {}
      <4>1. key \in Seq(KeyElement) /\ key # <<>>
        BY DEF Matching, Conversions
      <4>2. DOMAIN key = 1..Len(key)
        BY <4>1, LenProperties
      <4>3. Len(key) \in Nat \ {0}
        BY <4>1, EmptySeq
      <4>4. 1 \in 1..Len(key)
        BY <4>3
      <4>5. QED
        BY <4>2, <4>4
    <3>2. QED
      BY <3>1 DEF Resolved
  <2>3. ASSUME NEW i \in Resolved
        PROVE  \E x \in Valuations(i) : KeyConstraint(key[i].kind, x, p[i])
    <3>1. i \in DOMAIN key /\ Accepts(fields[i], p[i])
      BY <2>1 DEF Matching
    <3>2. Possible(key[i].kind, keySet[i], p[i])
      BY <3>1, EntryExact
    <3>3. QED
      BY <3>1, <3>2, EntryExact DEF Possible
  <2>4. QED
    BY <2>2, <2>3 DEF PossiblyTaken
<1>2. QED
  BY <1>1, InitConversions, NextConversions, PTL DEF Spec
=============================================================================
