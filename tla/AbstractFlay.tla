---------------------------- MODULE AbstractFlay -----------------------------
(***************************************************************************)
(* What Flay promises to its user.  There are no verdicts, symbols or      *)
(* counters: a service holds the control-plane configuration and a program *)
(* that does to every packet what the original program would do under the  *)
(* configuration.  While a request is processed the configuration moves    *)
(* ahead of the program; the answer says whether the program has caught    *)
(* up.  A request that is rejected leaves the program alone and stops the  *)
(* service.                                                                *)
(***************************************************************************)
EXTENDS PartialEvaluation

VARIABLES
    configuration,   \* the configuration the controller has asked for so far
    program,         \* the program handed out
    phase            \* ready, processing a request, or stopped

abstractVars == <<configuration, program, phase>>

Equivalent(p, config) ==
    \A k \in Packets : Effects(p, config, k) = Effects(OriginalProgram, config, k)

Init ==
    /\ configuration = [t \in Tables |-> InitialConfiguration(t)]
    /\ program \in Programs
    /\ Equivalent(program, configuration)
    /\ phase = "ready"

Accept ==
    /\ phase = "ready"
    /\ phase' = "processing"
    /\ UNCHANGED <<configuration, program>>

Configure(msg) ==
    /\ phase = "processing"
    /\ LET converted == ConvertControlPlaneUpdate(configuration, msg)
       IN  converted.ok /\ configuration' = converted.constraints
    /\ UNCHANGED <<program, phase>>

\* The request succeeds: any program will do that is right for the configuration,
\* and keeping the old one is the cheapest.
Answer ==
    /\ phase = "processing"
    /\ phase' = "ready"
    /\ program' \in Programs
    /\ Equivalent(program', configuration)
    /\ UNCHANGED configuration

\* An update cannot be applied, or only in part.
Reject(msg) ==
    /\ phase = "processing"
    /\ LET converted == ConvertControlPlaneUpdate(configuration, msg)
       IN  ~converted.ok /\ configuration' = converted.constraints
    /\ phase' = "stopped"
    /\ UNCHANGED program

Stop ==
    /\ phase = "ready"
    /\ phase' = "stopped"
    /\ UNCHANGED <<configuration, program>>

Next ==
    \/ Accept
    \/ \E msg \in Messages : Configure(msg)
    \/ Answer
    \/ \E msg \in Messages : Reject(msg)
    \/ Stop

Spec == Init /\ [][Next]_abstractVars
=============================================================================
