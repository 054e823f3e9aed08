---------------------------- MODULE IRExpressions ----------------------------
(***************************************************************************)
(* The P4 expressions the rewriting passes of Flay work on, and what they  *)
(* evaluate to.  An expression is a tuple that starts with the name of its *)
(* IR class.  A variable is sourced from the control plane or from the     *)
(* data plane; the control-plane variables of an expression are fixed by   *)
(* the configuration, those of the data plane by the packet.               *)
(*                                                                         *)
(* All values are numbers: a Boolean is 0 or 1, and the result of a di-    *)
(* vision by zero or of an index out of bounds is undefined.               *)
(***************************************************************************)
EXTENDS Integers, Sequences, FiniteSets, Bitwise

\* Types: the width of a bit string, or one of these.
Boolean == -1
InfInt == -2

True == <<"BoolLiteral", 1>>
False == <<"BoolLiteral", 0>>
Constant(width, value) == <<"Constant", width, value>>
SymbolicVariable(type, name) == <<"SymbolicVariable", type, name>>
DataPlaneVariable(type, name) == <<"DataPlaneVariable", type, name>>

\* A data-plane variable with a random name, different from all others.
FreshVariable(type) == <<"FreshVariable", type>>

Literals == {"BoolLiteral", "Constant"}
Variables == {"SymbolicVariable", "DataPlaneVariable", "FreshVariable"}
Relations == {"Equ", "Neq", "Leq", "Geq", "Lss", "Grt"}
Unary == {"Cmpl", "Neg", "UPlus", "LNot"}
Binary == {"BAnd", "BOr", "BXor", "Add", "Sub", "Mul", "Div", "Mod", "Shl", "Shr",
           "LAnd", "LOr", "Concat"} \cup Relations

Kind(expr) == expr[1]

\* The positions of the subexpressions; the bounds of a slice are numbers.
Operands(expr) ==
    IF Kind(expr) \in Literals \cup Variables THEN {}
    ELSE IF Kind(expr) = "Slice" THEN {2}
    ELSE 2..Len(expr)

RECURSIVE Type(_)
Type(expr) ==
    CASE Kind(expr) = "BoolLiteral" -> Boolean
      [] Kind(expr) \in {"Constant"} \cup Variables -> expr[2]
      [] Kind(expr) \in Relations \cup {"LAnd", "LOr", "LNot"} -> Boolean
      [] Kind(expr) = "Concat" -> Type(expr[2]) + Type(expr[3])
      [] Kind(expr) = "Slice" -> expr[3] - expr[4] + 1
      [] Kind(expr) = "Mux" -> Type(expr[3])
      [] Kind(expr) = "ArrayIndex" -> Type(expr[2][2])
      [] OTHER -> Type(expr[2])

ValuesOfType(type) == IF type = Boolean THEN {0, 1} ELSE 0..(2^type - 1)

Undefined == -1

Wrap(type, value) == IF type = InfInt THEN value ELSE value % 2^type

Truth(condition) == IF condition THEN 1 ELSE 0

UnaryValue(kind, type, a) ==
    CASE a = Undefined -> Undefined
      [] kind = "Cmpl" -> 2^type - 1 - a
      [] kind = "Neg" -> Wrap(type, 2^type - a)
      [] kind = "UPlus" -> a
      [] kind = "LNot" -> 1 - a

\* && and || look at their right operand only if they have to.
Decided(kind, a) == <<kind, a>> \in {<<"LAnd", 0>>, <<"LOr", 1>>}

BinaryValue(kind, type, right, a, b) ==
    CASE Decided(kind, a) -> a
      [] ~Decided(kind, a) /\ Undefined \in {a, b} -> Undefined
      [] OTHER ->
           CASE kind \in {"LAnd", "LOr"} -> b
             [] kind = "BAnd" -> a & b
             [] kind = "BOr" -> a | b
             [] kind = "BXor" -> a ^^ b
             [] kind = "Add" -> Wrap(type, a + b)
             [] kind = "Sub" -> Wrap(type, a - b)
             [] kind = "Mul" -> Wrap(type, a * b)
             [] kind = "Div" -> IF b = 0 THEN Undefined ELSE a \div b
             [] kind = "Mod" -> IF b = 0 THEN Undefined ELSE a % b
             [] kind = "Shl" -> Wrap(type, a * 2^b)
             [] kind = "Shr" -> a \div 2^b
             [] kind = "Concat" -> a * 2^right + b
             [] kind = "Equ" -> Truth(a = b)
             [] kind = "Neq" -> Truth(a # b)
             [] kind = "Leq" -> Truth(a <= b)
             [] kind = "Geq" -> Truth(a >= b)
             [] kind = "Lss" -> Truth(a < b)
             [] kind = "Grt" -> Truth(a > b)

\* What expr may evaluate to when its named variables have the values env: one
\* value, unless it contains fresh variables.
RECURSIVE Values(_, _)
Values(expr, env) ==
    CASE Kind(expr) = "BoolLiteral" -> {expr[2]}
      [] Kind(expr) = "Constant" -> {expr[3]}
      [] Kind(expr) \in {"SymbolicVariable", "DataPlaneVariable"} -> {env[expr[3]]}
      [] Kind(expr) = "FreshVariable" -> ValuesOfType(expr[2])
      [] Kind(expr) \in Unary ->
           {UnaryValue(Kind(expr), Type(expr), a) : a \in Values(expr[2], env)}
      [] Kind(expr) \in Binary ->
           {BinaryValue(Kind(expr), Type(expr), Type(expr[3]), a, b) :
               a \in Values(expr[2], env), b \in Values(expr[3], env)}
      [] Kind(expr) = "Slice" ->
           {IF a = Undefined THEN a ELSE (a \div 2^expr[4]) % 2^(expr[3] - expr[4] + 1) :
               a \in Values(expr[2], env)}
      [] Kind(expr) = "Mux" ->
           UNION {IF c = Undefined THEN {c} ELSE Values(expr[4 - c], env) :
                     c \in Values(expr[2], env)}
      [] Kind(expr) = "ArrayIndex" ->
           UNION {IF i + 2 \in 2..Len(expr[2]) THEN Values(expr[2][i + 2], env)
                  ELSE {Undefined} : i \in Values(expr[3], env)}

\* The values of a select or table key that a set expression stands for.
KeySet(expr, env) ==
    CASE Kind(expr) = "Mask" ->
           {key \in ValuesOfType(Type(expr[2])) :
               \E a \in Values(expr[2], env), mask \in Values(expr[3], env) :
                   key & mask = a & mask}
      [] Kind(expr) = "Range" ->
           {key \in ValuesOfType(Type(expr[2])) :
               \E low \in Values(expr[2], env), high \in Values(expr[3], env) :
                   low <= key /\ key <= high}
      [] OTHER -> Values(expr, env)
=============================================================================
