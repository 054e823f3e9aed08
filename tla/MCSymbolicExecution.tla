------------------------- MODULE MCSymbolicExecution -------------------------
(***************************************************************************)
(* Programs for TLC: two variables and a header, and tables whose actions  *)
(* copy a variable or their argument.                                      *)
(***************************************************************************)
EXTENDS SymbolicExecution

Copy(test, dst, src) == [test |-> test, dst |-> dst, src |-> src]

\* The default action passes an argument and can only be the default.
AnnotatedTable ==
    [default |-> 0, defaultArg |-> 1, defaultOnly |-> {0}, tableOnly |-> {1},
     body |-> [a \in Acts |-> IF a = 0 THEN Copy("x", "y", Param) ELSE Copy(Param, "x", "y")]]

\* An action that is the default action and changes what the others test.
ChainedTable ==
    [default |-> 1, defaultArg |-> 0, defaultOnly |-> {}, tableOnly |-> {0},
     body |-> [a \in Acts |-> IF a = 0 THEN Copy("x", "y", "x") ELSE Copy("y", "x", Valid)]]

MCTableShapes == {AnnotatedTable, ChainedTable}

MCInputs == <<"x">>

MCExpressions == {<<"not", "x", "x", "x">>, <<"mux", Field, "y", "x">>}

MCArguments == {<<"x", "y">>}

MCTests == {"x", Valid}

AllMethods == UNION {{c[1] : c \in CallsOf(t)} : t \in Targets}

\* Without the methods that do not do what their comments say, and without verify
\* and max, which behave like assert and min.
FaithfulMethods ==
    AllMethods \ {"meter.execute_meter", "direct_meter.read", "verify", "verify_checksum",
                  "verify_checksum_with_payload", "max"}
=============================================================================
