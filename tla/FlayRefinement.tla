--------------------------- MODULE FlayRefinement ----------------------------
(***************************************************************************)
(* The update-file wrapper implements the abstract service: incremental    *)
(* recomputation, the test for a change and the specialization in stages   *)
(* are invisible to a user who only sees configuration, program and        *)
(* answers.                                                                *)
(***************************************************************************)
EXTENDS FlayService, AdmissiblePrograms

Phase ==
    CASE pc = "idle" -> "ready"
      [] pc = "exit" -> "stopped"
      [] OTHER -> "processing"

Abstract == INSTANCE AbstractFlay
    WITH configuration <- constraints, program <- optimized, phase <- Phase

\* Every run of the wrapper is a run of the abstract service.  In particular a
\* request that is answered without specialization, because no verdict changed,
\* leaves a program that is right for the new configuration, although nobody
\* looked at the configuration as a whole.
ImplementsAbstractFlay == Abstract!Spec
=============================================================================
