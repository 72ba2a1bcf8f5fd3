------------------------- MODULE MCOperatorRuntime -------------------------
(***************************************************************************)
(* Two small instances of workers over the operator store.  In "shared"    *)
(* two runs share an idempotency key, one of them registered without an    *)
(* event, and every row is as the code accepts it; in "reclaim" the        *)
(* expired lease of one run can be reclaimed, with the revisions a second  *)
(* life of the run takes.                                                  *)
(***************************************************************************)
EXTENDS OperatorRuntime, TLC

CONSTANTS r1, r2, k1, w1, w2

VARIABLE instance

SharedKey == r1 :> k1 @@ r2 :> k1

Reclaiming ==
    INSTANCE OperatorRuntime WITH
        Runs <- {r1}, Sessions <- {}, Started <- {r1}, ReplayOf <- r1 :> k1,
        LeaseTerm <- 1, Deadline <- 2, MaxClock <- 3, MaxRevision <- 6, ReleasePrecedesExpiry <- FALSE

InstanceInit ==
    \/ instance = "shared" /\ RuntimeInit
    \/ instance = "reclaim" /\ Reclaiming!RuntimeInit

InstanceNext ==
    /\ \/ instance = "shared" /\ RuntimeNext
       \/ instance = "reclaim" /\ Reclaiming!RuntimeNext
    /\ UNCHANGED instance

InstanceSpec == InstanceInit /\ [][InstanceNext]_<<runtimeVars, instance>>

\* Workers are interchangeable: no constant names one of them.
WorkerSymmetry == Permutations(Workers)
=============================================================================
