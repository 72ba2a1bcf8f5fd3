--------------------------- MODULE MCAgentRuntime ---------------------------
(***************************************************************************)
(* Small instances of the generic agent runtime.                           *)
(***************************************************************************)
EXTENDS AgentRuntime, TLC

StepApprovals == Runs \X Ordinals

Interchangeable == Permutations(Processes)
=============================================================================
