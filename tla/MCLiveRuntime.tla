---------------------------- MODULE MCLiveRuntime ----------------------------
(***************************************************************************)
(* Small instances of the live runtime.                                    *)
(***************************************************************************)
EXTENDS LiveRuntime, TLC

Interchangeable == Permutations(Processes) \cup Permutations(Runs)
=============================================================================
