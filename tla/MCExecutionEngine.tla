------------------------- MODULE MCExecutionEngine -------------------------
(***************************************************************************)
(* A small instance of the engine: a human-only benchmarked operation and  *)
(* a plain one, both with exact replay, one without replay and one that is *)
(* past its sunset.                                                        *)
(***************************************************************************)
EXTENDS ExecutionEngine, TLC

CONSTANTS c1, c2, publish, order, report, legacy, k1, i1, i2, o1, o2

MCOperations == {publish, order, report, legacy}

Entry(human, sunset, exact, bench) ==
    [humanOnly |-> human, sunset |-> sunset, handler |-> TRUE,
     exactReplay |-> exact, benchmarked |-> bench]

MCRegistry ==
    publish :> Entry(TRUE, FALSE, TRUE, TRUE) @@
    order :> Entry(FALSE, FALSE, TRUE, FALSE) @@
    report :> Entry(FALSE, FALSE, FALSE, TRUE) @@
    legacy :> Entry(FALSE, TRUE, FALSE, FALSE)

Ask(op, key, input, approval, delegation) ==
    [op |-> op, key |-> key, input |-> input, human |-> FALSE,
     approval |-> approval, delegation |-> delegation]

MCRequests ==
    {Ask(order, k1, i, "none", "none") : i \in {i1, i2}} \cup
    {Ask(publish, k1, i1, a, "valid") : a \in {"none", "verified"}} \cup
    {Ask(report, Unset, i1, "none", "none"), Ask(legacy, Unset, i1, "none", "none"),
     Ask(order, Unset, i1, "none", "none"), Ask(order, k1, i1, "none", "refused")}
=============================================================================
