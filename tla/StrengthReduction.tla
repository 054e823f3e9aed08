-------------------------- MODULE StrengthReduction --------------------------
(***************************************************************************)
(* ExpressionStrengthReduction: algebraic rules, one operator per visited  *)
(* IR class, applied once to every node from the leaves to the root.  The  *)
(* rules of a class are tried in the order of the code.                    *)
(*                                                                         *)
(* The pass is a copy of the compiler's strength reduction.  The list of   *)
(* passes of ExpressionRewriter names it in a comment only.                *)
(***************************************************************************)
EXTENDS IRExpressions

IsOne(expr) == Kind(expr) = "Constant" /\ expr[3] = 1

\* Every expression of type bit<0> is zero.
IsZero(expr) == Type(expr) = 0 \/ (Kind(expr) = "Constant" /\ expr[3] = 0)

IsTrue(expr) == expr = True

IsFalse(expr) == expr = False

IsAllOnes(expr) ==
    /\ Kind(expr) = "Constant"
    /\ expr[2] # InfInt
    /\ expr[3] > 0
    /\ expr[3] = 2^expr[2] - 1

ReduceCmpl(a) == IF Kind(a) = "Cmpl" THEN a[2] ELSE <<"Cmpl", a>>

\* ~a & ~b is ~(a | b), and the other way round.
DeMorgan(other, l, r) == <<"Cmpl", <<other, l[2], r[2]>>>>

ReduceBAnd(l, r) ==
    IF IsAllOnes(l) THEN r
    ELSE IF IsAllOnes(r) THEN l
    ELSE IF Kind(l) = "Cmpl" /\ Kind(r) = "Cmpl" THEN DeMorgan("BOr", l, r)
    ELSE IF IsZero(l) THEN l
    ELSE IF IsZero(r) \/ l = r THEN r
    ELSE <<"BAnd", l, r>>

ReduceBOr(l, r) ==
    IF IsZero(l) THEN r
    ELSE IF IsZero(r) THEN l
    ELSE IF Kind(l) = "Cmpl" /\ Kind(r) = "Cmpl" THEN DeMorgan("BAnd", l, r)
    ELSE IF l = r THEN l
    ELSE <<"BOr", l, r>>

ReduceEqu(l, r) ==
    IF IsTrue(l) THEN r
    ELSE IF IsTrue(r) THEN l
    ELSE IF IsFalse(l) THEN <<"LNot", r>>
    ELSE IF IsFalse(r) THEN <<"LNot", l>>
    ELSE <<"Equ", l, r>>

ReduceNeq(l, r) ==
    IF IsTrue(l) THEN <<"LNot", r>>
    ELSE IF IsTrue(r) THEN <<"LNot", l>>
    ELSE IF IsFalse(l) THEN r
    ELSE IF IsFalse(r) THEN l
    ELSE <<"Neq", l, r>>

Stripped(expr) == IF Kind(expr) = "Cmpl" THEN expr[2] ELSE expr

\* A complement on one side moves to the front; on both sides they cancel.
ReduceBXor(l, r) ==
    LET inner == <<"BXor", Stripped(l), Stripped(r)>>
    IN  IF IsZero(l) THEN r
        ELSE IF IsZero(r) THEN l
        ELSE IF (Kind(l) = "Cmpl") # (Kind(r) = "Cmpl") THEN <<"Cmpl", inner>>
        ELSE IF Stripped(l) = Stripped(r) THEN Constant(Type(Stripped(l)), 0)
        ELSE inner

ReduceLAnd(l, r) ==
    IF IsFalse(l) THEN l
    ELSE IF IsFalse(r) \/ IsTrue(l) THEN r
    ELSE IF IsTrue(r) THEN l
    ELSE <<"LAnd", l, r>>

ReduceLOr(l, r) ==
    IF IsTrue(l) THEN l
    ELSE IF IsTrue(r) \/ IsFalse(l) THEN r
    ELSE IF IsFalse(r) THEN l
    ELSE <<"LOr", l, r>>

\* The relation that holds when the given one does not.
Negated(kind) ==
    CASE kind = "Equ" -> "Neq"
      [] kind = "Neq" -> "Equ"
      [] kind = "Leq" -> "Grt"
      [] kind = "Geq" -> "Lss"
      [] kind = "Lss" -> "Geq"
      [] kind = "Grt" -> "Leq"

ReduceLNot(a) ==
    IF Kind(a) = "LNot" THEN a[2]
    ELSE IF Kind(a) \in Relations THEN <<Negated(Kind(a)), a[2], a[3]>>
    ELSE <<"LNot", a>>

ReduceSub(l, r) ==
    IF IsZero(r) THEN l
    ELSE IF IsZero(l) THEN <<"Neg", r>>
    ELSE IF l = r THEN Constant(Type(l), 0)
    ELSE <<"Sub", l, r>>

ReduceAdd(l, r) ==
    IF IsZero(r) THEN l
    ELSE IF IsZero(l) THEN r
    ELSE <<"Add", l, r>>

\* Two shifts by amounts of unlimited width become one; amounts of a limited
\* width are left alone because their sum could wrap.
ReduceShift(kind, l, r) ==
    IF IsZero(r) THEN l
    ELSE IF Kind(l) = kind /\ Type(l[3]) = InfInt /\ Type(r) = InfInt
         THEN <<kind, l[2], <<"Add", l[3], r>>>>
    ELSE IF IsZero(l) THEN l
    ELSE <<kind, l, r>>

ReduceMul(l, r) ==
    IF IsOne(l) THEN r
    ELSE IF IsOne(r) THEN l
    ELSE IF IsZero(l) THEN l
    ELSE IF IsZero(r) THEN r
    ELSE <<"Mul", l, r>>

\* A division by the constant zero is reported and left alone.
ReduceDiv(l, r) ==
    IF IsZero(r) THEN <<"Div", l, r>>
    ELSE IF IsOne(r) \/ IsZero(l) THEN l
    ELSE <<"Div", l, r>>

ReduceMod(l, r) ==
    IF IsZero(l) /\ ~IsZero(r) THEN l
    ELSE <<"Mod", l, r>>

ReduceMux(c, l, r) ==
    IF IsTrue(l) /\ IsFalse(r) THEN c
    ELSE IF IsFalse(l) /\ IsTrue(r) THEN <<"LNot", c>>
    ELSE IF Kind(c) = "LNot" THEN <<"Mux", c[2], r, l>>
    ELSE IF l = r THEN l
    ELSE <<"Mux", c, l, r>>

ReduceMask(value, mask) == IF IsAllOnes(mask) THEN value ELSE <<"Mask", value, mask>>

ReduceRange(low, high) ==
    IF Kind(low) = "Constant" /\ Kind(high) = "Constant" /\ low[3] = high[3]
    THEN low
    ELSE <<"Range", low, high>>

ReduceConcat(l, r) ==
    IF Type(l) = 0 THEN r
    ELSE IF Type(r) = 0 THEN l
    ELSE <<"Concat", l, r>>

KnownIndex(stack, index) == Kind(stack) = "HeaderStack" /\ Kind(index) = "Constant"

\* A constant index out of bounds is reported and left alone.
ReduceArrayIndex(stack, index) ==
    IF KnownIndex(stack, index) /\ index[3] + 2 \in 2..Len(stack)
    THEN stack[index[3] + 2]
    ELSE <<"ArrayIndex", stack, index>>

\* postorder of the class of expr, whose operands have been visited.
ReduceNode(expr) ==
    LET k == Kind(expr)
    IN  CASE k = "Cmpl" -> ReduceCmpl(expr[2])
          [] k = "UPlus" -> expr[2]
          [] k = "LNot" -> ReduceLNot(expr[2])
          [] k = "BAnd" -> ReduceBAnd(expr[2], expr[3])
          [] k = "BOr" -> ReduceBOr(expr[2], expr[3])
          [] k = "BXor" -> ReduceBXor(expr[2], expr[3])
          [] k = "Equ" -> ReduceEqu(expr[2], expr[3])
          [] k = "Neq" -> ReduceNeq(expr[2], expr[3])
          [] k = "LAnd" -> ReduceLAnd(expr[2], expr[3])
          [] k = "LOr" -> ReduceLOr(expr[2], expr[3])
          [] k = "Sub" -> ReduceSub(expr[2], expr[3])
          [] k = "Add" -> ReduceAdd(expr[2], expr[3])
          [] k \in {"Shl", "Shr"} -> ReduceShift(k, expr[2], expr[3])
          [] k = "Mul" -> ReduceMul(expr[2], expr[3])
          [] k = "Div" -> ReduceDiv(expr[2], expr[3])
          [] k = "Mod" -> ReduceMod(expr[2], expr[3])
          [] k = "Mux" -> ReduceMux(expr[2], expr[3], expr[4])
          [] k = "Mask" -> ReduceMask(expr[2], expr[3])
          [] k = "Range" -> ReduceRange(expr[2], expr[3])
          [] k = "Concat" -> ReduceConcat(expr[2], expr[3])
          [] k = "ArrayIndex" -> ReduceArrayIndex(expr[2], expr[3])
          [] OTHER -> expr

RECURSIVE ReduceStrength(_)
ReduceStrength(expr) ==
    ReduceNode([i \in DOMAIN expr |->
                  IF i \in Operands(expr) THEN ReduceStrength(expr[i]) ELSE expr[i]])

\* Mutant of NodeError: the last element of a stack is out of bounds too.
ErrorAtLastElement(expr) ==
    \/ Kind(expr) \in {"Div", "Mod"} /\ IsZero(expr[3])
    \/ /\ Kind(expr) = "ArrayIndex"
       /\ KnownIndex(expr[2], expr[3])
       /\ expr[3][3] + 3 \notin 2..Len(expr[2])

\* The error the visit of a node reports, if any.
NodeError(expr) ==
    \/ Kind(expr) \in {"Div", "Mod"} /\ IsZero(expr[3])
    \/ /\ Kind(expr) = "ArrayIndex"
       /\ KnownIndex(expr[2], expr[3])
       /\ expr[3][3] + 2 \notin 2..Len(expr[2])

RECURSIVE ReportsError(_)
ReportsError(expr) ==
    \/ \E i \in Operands(expr) : ReportsError(expr[i])
    \/ NodeError([i \in DOMAIN expr |->
                     IF i \in Operands(expr) THEN ReduceStrength(expr[i]) ELSE expr[i]])
=============================================================================
