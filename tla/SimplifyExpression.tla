------------------------- MODULE SimplifyExpression --------------------------
(***************************************************************************)
(* SimplifyExpression::simplify: the pass that pushes the condition of a   *)
(* Mux into its branches, the pass that lifts the conditions of nested     *)
(* Muxes, and the pass that collapses operations on data-plane variables   *)
(* when the user asks for it.  Every condition and every merged value of   *)
(* the interpreter goes through simplify.  The strength reduction of the   *)
(* same library is run on its own.                                         *)
(***************************************************************************)
EXTENDS StrengthReduction, TLC

CONSTANTS
    MuxExpressions,         \* expressions for the two Mux passes
    DataPlaneExpressions,   \* expressions for the collapsing pass
    ReducedExpressions,     \* expressions for the strength reduction
    ControlPlaneTypes,      \* the type of every control-plane variable
    DataPlaneTypes          \* the type of every data-plane variable

ASSUME ExpressionAssumption ==
    DOMAIN ControlPlaneTypes \cap DOMAIN DataPlaneTypes = {}

-----------------------------------------------------------------------------
(* FoldMuxConditionDown                                                     *)

\* optionalValue: what is known of a condition, as a set of at most one value.
\* known is a set of pairs of a condition and its value.
OptionalValue(known, cond) ==
    IF Kind(cond) = "BoolLiteral" THEN {cond[2]}
    ELSE {pair[2] : pair \in {p \in known : p[1] = cond}}

Literal(value) == IF value = 1 THEN True ELSE False

\* The literal of a known condition, the condition itself otherwise.
Known(known, cond) ==
    LET value == OptionalValue(known, cond)
    IN  IF value = {} THEN cond ELSE Literal(CHOOSE v \in value : TRUE)

\* && and || differ in the value that decides them: 0 and 1.
FoldConnective(kind, decisive, known, l, r) ==
    LET left == OptionalValue(known, l)
        right == OptionalValue(known, r)
    IN  IF left = {decisive} THEN Literal(decisive)
        ELSE IF left # {} THEN Known(known, r)
        ELSE IF right = {decisive} THEN Literal(decisive)
        ELSE IF right # {} THEN l
        ELSE <<kind, l, r>>

\* The postorder functions of FoldExpression.  LNot looks only at what is known.
FoldNode(known, expr) ==
    CASE Kind(expr) = "LAnd" -> FoldConnective("LAnd", 0, known, expr[2], expr[3])
      [] Kind(expr) = "LOr" -> FoldConnective("LOr", 1, known, expr[2], expr[3])
      [] Kind(expr) = "LNot" ->
           (IF \E p \in known : p[1] = expr[2]
            THEN Literal(1 - (CHOOSE p \in known : p[1] = expr[2])[2])
            ELSE expr)
      [] Kind(expr) = "Mux" ->
           (LET cond == OptionalValue(known, expr[2])
            IN  IF cond = {1} THEN expr[3]
                ELSE IF cond = {0} \/ expr[3] = expr[4] THEN expr[4]
                ELSE expr)
      [] OTHER -> expr

RECURSIVE FoldExpression(_, _)
FoldExpression(known, expr) ==
    FoldNode(known, [i \in DOMAIN expr |->
        IF i \in Operands(expr) THEN FoldExpression(known, expr[i]) ELSE expr[i]])

\* Mutant of FoldMux: both branches are folded with the condition true.
FoldMuxBothTrue(c, l, r) ==
    LET cond == FoldExpression({}, c)
    IN  <<"Mux", cond, FoldExpression({<<cond, 1>>}, l), FoldExpression({<<cond, 1>>}, r)>>

\* preorder(Mux): the branches are folded with the folded condition, and the
\* pass does not descend any further.
FoldMux(c, l, r) ==
    LET cond == FoldExpression({}, c)
    IN  <<"Mux", cond, FoldExpression({<<cond, 1>>}, l), FoldExpression({<<cond, 0>>}, r)>>

RECURSIVE FoldMuxConditionDown(_)
FoldMuxConditionDown(expr) ==
    IF Kind(expr) = "Mux" THEN FoldMux(expr[2], expr[3], expr[4])
    ELSE [i \in DOMAIN expr |->
            IF i \in Operands(expr) THEN FoldMuxConditionDown(expr[i]) ELSE expr[i]]

-----------------------------------------------------------------------------
(* LiftMuxConditions                                                        *)

\* preorder(Mux): one nested Mux that shares a branch with the outer one is
\* absorbed; that of the true branch is looked at first.
LiftMux(c, l, r) ==
    IF Kind(l) = "Mux" /\ r = l[3] THEN <<"Mux", <<"LAnd", c, <<"LNot", l[2]>>>>, l[4], r>>
    ELSE IF Kind(l) = "Mux" /\ r = l[4] THEN <<"Mux", <<"LAnd", c, l[2]>>, l[3], r>>
    ELSE IF Kind(r) = "Mux" /\ l = r[3] THEN <<"Mux", <<"LOr", c, r[2]>>, l, r[4]>>
    ELSE IF Kind(r) = "Mux" /\ l = r[4] THEN <<"Mux", <<"LOr", c, <<"LNot", r[2]>>>>, l, r[3]>>
    ELSE <<"Mux", c, l, r>>

\* The Mux is lifted before its operands are visited; afterwards a Mux with two
\* equal branches is replaced by one of them.
RECURSIVE LiftMuxConditions(_)
LiftMuxConditions(expr) ==
    LET lifted == IF Kind(expr) = "Mux" THEN LiftMux(expr[2], expr[3], expr[4]) ELSE expr
        visited == [i \in DOMAIN lifted |->
                      IF i \in Operands(lifted) THEN LiftMuxConditions(lifted[i]) ELSE lifted[i]]
    IN  IF Kind(visited) = "Mux" /\ visited[3] = visited[4] THEN visited[3] ELSE visited

-----------------------------------------------------------------------------
(* DataPlaneVariablePropagator                                              *)

BitWidth(type) == IF type = Boolean THEN 1 ELSE type

AllBits(expr) == 0..(BitWidth(Type(expr)) - 1)

IsDataPlaneVariable(expr) == Kind(expr) \in {"DataPlaneVariable", "FreshVariable"}

\* computeDataPlaneBits: the positions of the bits sourced from the data plane.
RECURSIVE DataPlaneBits(_)
DataPlaneBits(expr) ==
    LET k == Kind(expr)
        operand(i) == DataPlaneBits(expr[i])
    IN  CASE IsDataPlaneVariable(expr) -> AllBits(expr)
          [] k \in Literals \cup {"SymbolicVariable"} -> {}
          [] k = "Concat" -> {b + Type(expr[3]) : b \in operand(2)} \cup operand(3)
          [] k = "Slice" -> {b \in AllBits(expr) : b + expr[4] \in operand(2)}
          [] k = "Shl" /\ Kind(expr[3]) = "Constant" ->
               {b \in AllBits(expr) : b - expr[3][3] \in operand(2)}
          [] k = "Shr" /\ Kind(expr[3]) = "Constant" ->
               {b \in AllBits(expr) : b + expr[3][3] \in operand(2)}
          [] k \in {"Shl", "Shr"} /\ Kind(expr[3]) # "Constant" -> AllBits(expr)
          [] k \in {"BAnd", "BOr", "BXor"} -> operand(2) \cup operand(3)
          [] k \in Unary -> operand(2)
          [] k = "Mux" -> operand(3) \cap operand(4)
          [] OTHER -> IF operand(2) \cup operand(3) = {} THEN {} ELSE AllBits(expr)

\* hasDataPlaneVariable: may expr be folded into one data-plane variable?
RECURSIVE HasDataPlaneVariable(_)
HasDataPlaneVariable(expr) ==
    LET k == Kind(expr)
    IN  CASE IsDataPlaneVariable(expr) -> TRUE
          [] k \in Literals \cup {"SymbolicVariable"} -> FALSE
          [] k = "Slice" -> DataPlaneBits(expr[2]) \cap (expr[4]..expr[3]) # {}
          [] k = "Mux" -> HasDataPlaneVariable(expr[3]) /\ HasDataPlaneVariable(expr[4])
          [] <<k, expr[2]>> \in {<<"LAnd", False>>, <<"LOr", True>>} -> FALSE
          [] OTHER -> \E i \in Operands(expr) : HasDataPlaneVariable(expr[i])

\* Mutant of CollapseNode: the left operand is kept even if only the right one is
\* sourced from the data plane.
CollapseToLeft(expr) ==
    LET k == Kind(expr)
        sourced == {i \in Operands(expr) : HasDataPlaneVariable(expr[i])}
    IN  CASE k = "Concat" \/ Operands(expr) = {} -> expr
          [] k = "LAnd" ->
               IF IsDataPlaneVariable(expr[2]) /\ IsDataPlaneVariable(expr[3])
               THEN FreshVariable(Boolean) ELSE expr
          [] k \in Relations -> IF sourced = {} THEN expr ELSE FreshVariable(Boolean)
          [] k = "Slice" ->
               IF HasDataPlaneVariable(expr) THEN FreshVariable(Type(expr)) ELSE expr
          [] OTHER ->
               IF sourced = {} THEN expr ELSE expr[2]

\* The postorder functions.  A relation and a slice become a variable with a new
\* name; any other operation but Concat and && is replaced by its first operand
\* with a data-plane variable.
CollapseNode(expr) ==
    LET k == Kind(expr)
        sourced == {i \in Operands(expr) : HasDataPlaneVariable(expr[i])}
    IN  CASE k = "Concat" \/ Operands(expr) = {} -> expr
          [] k = "LAnd" ->
               IF IsDataPlaneVariable(expr[2]) /\ IsDataPlaneVariable(expr[3])
               THEN FreshVariable(Boolean) ELSE expr
          [] k \in Relations -> IF sourced = {} THEN expr ELSE FreshVariable(Boolean)
          [] k = "Slice" ->
               IF HasDataPlaneVariable(expr) THEN FreshVariable(Type(expr)) ELSE expr
          [] OTHER ->
               IF 2 \in sourced THEN expr[2]
               ELSE IF 3 \in sourced THEN expr[3]
               ELSE expr

\* A Mux is collapsed as a whole or not visited at all.
RECURSIVE CollapseDataPlane(_)
CollapseDataPlane(expr) ==
    IF Kind(expr) = "Mux"
    THEN IF HasDataPlaneVariable(expr) THEN FreshVariable(Type(expr)) ELSE expr
    ELSE CollapseNode([i \in DOMAIN expr |->
            IF i \in Operands(expr) THEN CollapseDataPlane(expr[i]) ELSE expr[i]])

-----------------------------------------------------------------------------
(* The passes as steps on an expression.                                    *)

VARIABLES
    original,   \* the expression handed to simplify
    current,    \* the expression after the passes run so far
    passes,     \* the list of passes
    done,       \* number of passes run so far
    errors      \* whether a pass reported an error

vars == <<original, current, passes, done, errors>>

SimplifyPasses == <<"fold", "lift">>

\* simplify with and without --collapse-data-plane-variables, and the strength
\* reduction, which no list of passes contains.
Init ==
    /\ \/ original \in MuxExpressions /\ passes = SimplifyPasses
       \/ original \in DataPlaneExpressions /\ passes = Append(SimplifyPasses, "collapse")
       \/ original \in ReducedExpressions /\ passes = <<"reduce">>
    /\ current = original
    /\ done = 0
    /\ errors = FALSE

RunPass(name, rewritten, error) ==
    /\ done < Len(passes)
    /\ passes[done + 1] = name
    /\ current' = rewritten
    /\ done' = done + 1
    /\ errors' = (errors \/ error)
    /\ UNCHANGED <<original, passes>>

Fold == RunPass("fold", FoldMuxConditionDown(current), FALSE)

Lift == RunPass("lift", LiftMuxConditions(current), FALSE)

Collapse == RunPass("collapse", CollapseDataPlane(current), FALSE)

Reduce == RunPass("reduce", ReduceStrength(current), ReportsError(current))

Next == Fold \/ Lift \/ Collapse \/ Reduce

Spec == Init /\ [][Next]_vars

-----------------------------------------------------------------------------
(* Properties.                                                              *)

\* The valuations of a set of variables.
Valuations(types) ==
    LET values == UNION {ValuesOfType(types[n]) : n \in DOMAIN types}
    IN  {v \in [DOMAIN types -> values] :
            \A n \in DOMAIN types : v[n] \in ValuesOfType(types[n])}

Configurations == Valuations(ControlPlaneTypes)

Packets == Valuations(DataPlaneTypes)

Environments == {c @@ p : c \in Configurations, p \in Packets}

\* What expr can be under a configuration, over all packets.
Outcomes(expr, configuration) ==
    UNION {KeySet(expr, configuration @@ packet) : packet \in Packets}

Collapsed == done > 0 /\ passes[done] = "collapse"

\* The expression keeps its value under every valuation for which the original
\* is defined, whatever is nested in it: a fold under the wrong condition, a lift
\* that swaps branches or a reduction that forgets a complement changes it.
RewritingKeepsValue ==
    (current # original /\ ~Collapsed) =>
        \A env \in Environments :
            \/ Undefined \in KeySet(original, env)
            \/ KeySet(current, env) = KeySet(original, env)

\* Collapsing may forget how a value depends on the packet, but under every
\* configuration it leaves the expression all the values it can have: a verdict
\* drawn from the collapsed condition excludes no execution.
CollapseKeepsOutcomes ==
    Collapsed =>
        \A c \in Configurations : Outcomes(original, c) \subseteq Outcomes(current, c)

\* An error is reported only for an operation that is undefined whatever its
\* variables are.
RECURSIVE NeverDefined(_)
NeverDefined(expr) ==
    \/ \E i \in Operands(expr) : NeverDefined(expr[i])
    \/ /\ Kind(expr) \in {"Div", "Mod", "ArrayIndex"}
       /\ \A env \in Environments : Undefined \in Values(expr, env)

ErrorsAreReal == errors => NeverDefined(original)
=============================================================================
