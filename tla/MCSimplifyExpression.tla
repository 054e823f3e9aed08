------------------------ MODULE MCSimplifyExpression -------------------------
(***************************************************************************)
(* Expressions for SimplifyExpression: all nestings of Mux, connectives    *)
(* and negation up to a depth, operations on fields of both planes, and    *)
(* two levels of the operations the strength reduction knows.              *)
(***************************************************************************)
EXTENDS SimplifyExpression

CONSTANT W      \* width of a field

TypesOfControlPlane == [n \in {"X", "Y", "f"} |-> IF n = "f" THEN W ELSE Boolean]

TypesOfDataPlane == [n \in {"b", "d"} |-> IF n = "d" THEN W ELSE Boolean]

X == SymbolicVariable(Boolean, "X")
Y == SymbolicVariable(Boolean, "Y")
F == SymbolicVariable(W, "f")
B == DataPlaneVariable(Boolean, "b")
D == DataPlaneVariable(W, "d")

Nodes2(kinds, ls, rs) == {<<k, l, r>> : k \in kinds, l \in ls, r \in rs}

Nodes1(kinds, as) == {<<k, a>> : k \in kinds, a \in as}

Muxes(cs, ls, rs) == {<<"Mux", c, l, r>> : c \in cs, l \in ls, r \in rs}

\* Conditions with up to one connective, and Muxes of Muxes below a relation.
Conditions ==
    {X, Y, True, <<"LNot", X>>, <<"LAnd", X, Y>>, <<"LOr", Y, X>>}

Branches == {F, D} \cup Muxes(Conditions, {F, D}, {F, D})

MuxConditions == {X, <<"LNot", X>>, <<"LAnd", X, Y>>, <<"LOr", Y, X>>, <<"Mux", X, Y, X>>}

NestedMuxes ==
    LET nested == Muxes(MuxConditions, Branches, Branches)
    IN  nested \cup Nodes2({"Equ"}, Muxes({X, Y}, Branches, {F}), {F})
               \cup Muxes({X}, Muxes({X}, {F}, Muxes({Y, X}, {F, D}, {F, D})), {F, D})

\* Operations on fields of both planes.  && joins control-plane conditions only,
\* and Concat occurs below a slice only.
Fields == {F, D, Constant(W, 1)}

Computed ==
    Fields \cup Nodes1({"Neg", "Cmpl"}, Fields)
           \cup Nodes2({"Add", "BAnd", "BXor", "Shl", "Shr"}, Fields, Fields)
           \cup Muxes({X, B}, Fields, Fields)

Slices ==
    {<<"Slice", <<"Concat", l, r>>, b[1], b[2]>> :
        l \in Fields, r \in Fields, b \in {<<W - 1, 0>>, <<2 * W - 1, W>>, <<W, W - 1>>}}
    \cup {<<"Slice", a, 0, 0>> : a \in Computed}

OfBothPlanes ==
    LET relations == Nodes2({"Equ", "Lss"}, Computed, {F, D})
    IN  Nodes2({"Add", "BOr"}, Computed, Fields) \cup Slices \cup relations
        \cup Nodes1({"LNot"}, relations) \cup Nodes2({"LOr"}, relations, {X, B})
        \cup Nodes2({"LAnd"}, {<<"Equ", F, Constant(W, 1)>>, X}, {X, Y})

\* Two levels of every operation.
Small == {F, D, Constant(W, 0), Constant(W, 1), Constant(W, 2^W - 1)}

OneLevel ==
    Small \cup Nodes1({"Cmpl", "Neg", "UPlus"}, Small)
          \cup Nodes2({"Div", "Sub"}, {F}, Small)
          \cup Nodes2({"BXor", "Shl", "Shr"}, {F}, {D, Constant(W, 0), Constant(InfInt, 1)})

Booleans ==
    {X, B, True, False} \cup Nodes1({"LNot"}, {X, B})
                        \cup Nodes2(Relations, {F}, {D, Constant(W, 1)})

TwoLevels ==
    Nodes2({"BAnd", "BOr", "BXor", "Add", "Sub", "Mul", "Div", "Mod"}, OneLevel,
           Small \cup Nodes1({"Cmpl"}, {F, D}))
    \cup Nodes2({"Shl", "Shr"}, OneLevel, {F, Constant(W, 0), Constant(InfInt, 1), Constant(InfInt, 2)})
    \cup Nodes1({"Cmpl", "UPlus"}, OneLevel)
    \cup Nodes1({"LNot"}, Booleans)
    \cup Nodes2({"Equ", "Neq", "LAnd", "LOr"}, Booleans, Booleans)
    \cup Muxes(Booleans, {X, True, False}, {X, True, False})
    \cup Nodes2({"Mask", "Range"}, Small, Small)
    \cup Nodes2({"Concat"}, OneLevel \cup {Constant(0, 0)}, Small \cup {Constant(0, 0)})
    \cup Nodes2({"ArrayIndex"}, {<<"HeaderStack", F, D>>}, {F} \cup {Constant(W, v) : v \in 0..2})
=============================================================================
