-------------------------- MODULE MCOperatorStore --------------------------
(***************************************************************************)
(* Small instances of the operator store.                                  *)
(***************************************************************************)
EXTENDS OperatorStore, TLC

CONSTANTS r1, k1

\* A run whose call carries an idempotency key, and one whose call carries none.
OneKey == r1 :> k1

NoKey == r1 :> None
=============================================================================
