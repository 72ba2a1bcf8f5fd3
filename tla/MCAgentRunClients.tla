-------------------------- MODULE MCAgentRunClients --------------------------
(***************************************************************************)
(* Two small instances of the clients of the agent-run store.  In "steps"  *)
(* the steps of a run go through all of their states and wait for an       *)
(* approval; in "trace" a run that may be a live start gets two            *)
(* checkpoints and two events, so that one of them can be the last.        *)
(***************************************************************************)
EXTENDS AgentRunClients, TLC

VARIABLE instance

Tracing ==
    INSTANCE AgentRunClients WITH
        Approvals <- {}, Setups <- {"setup"}, Readinesses <- {"readiness"},
        MaxRevision <- 3, MaxStepRevision <- 0, MaxTrace <- 2

InstanceInit ==
    \/ instance = "steps" /\ ClientsInit
    \/ instance = "trace" /\ Tracing!ClientsInit

InstanceNext ==
    /\ \/ instance = "steps" /\ ClientsNext
       \/ instance = "trace" /\ Tracing!ClientsNext
    /\ UNCHANGED instance

InstanceSpec == InstanceInit /\ [][InstanceNext]_<<clientVars, instance>>

\* Clients are interchangeable: no constant names one of them.
ClientSymmetry == Permutations(Clients)
=============================================================================
