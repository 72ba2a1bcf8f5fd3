---------------------------- MODULE ReplayLedger ----------------------------
(***************************************************************************)
(* What exact replay promises to a client that names a slot: an operation  *)
(* and an idempotency key.  One input is bound to the slot for ever, the   *)
(* effect starts at most once, the slot settles at most once, and every    *)
(* successful answer is the one settled output.                            *)
(*                                                                         *)
(* The ledger says nothing about callers, transactions or crashes.  The    *)
(* execution engine over the SQLite replay table implements it.            *)
(***************************************************************************)
CONSTANTS
    Slots,      \* the operation and idempotency key pairs a client can name
    Inputs,     \* canonical input digests
    Outputs,    \* canonical outputs of a handler
    Unset       \* the value of a field that is not set yet

VARIABLES
    ledger,     \* ledger[s]: the settlement of slot s and the input bound to it
    starts,     \* starts[s]: how many times an effect of slot s was started
    answers     \* answers[s]: the outputs that were returned for slot s

ledgerVars == <<ledger, starts, answers>>

Row(state, input, output) == [state |-> state, input |-> input, output |-> output]

Free == Row("free", Unset, Unset)

LInit ==
    /\ ledger = [s \in Slots |-> Free]
    /\ starts = [s \in Slots |-> 0]
    /\ answers = [s \in Slots |-> {}]

\* A free slot is taken by one input.
Take(s, i) ==
    /\ ledger[s] = Free
    /\ ledger' = [ledger EXCEPT ![s] = Row("taken", i, Unset)]
    /\ UNCHANGED <<starts, answers>>

\* The effect of a taken slot starts, once.
StartEffect(s) ==
    /\ ledger[s].state = "taken"
    /\ starts[s] = 0
    /\ starts' = [starts EXCEPT ![s] = 1]
    /\ UNCHANGED <<ledger, answers>>

\* The slot settles with an output, which is the first answer given for it.
Settle(s, o) ==
    /\ ledger[s].state = "taken"
    /\ starts[s] = 1
    /\ ledger' = [ledger EXCEPT ![s] = Row("settled", @.input, o)]
    /\ answers' = [answers EXCEPT ![s] = {o}]
    /\ UNCHANGED starts

\* The slot is closed without an output; it never answers.
Spoil(s) ==
    /\ ledger[s].state = "taken"
    /\ ledger' = [ledger EXCEPT ![s] = Row("spoiled", @.input, Unset)]
    /\ UNCHANGED <<starts, answers>>

\* A settled slot answers again, with the same output.
Repeat(s) ==
    /\ ledger[s].state = "settled"
    /\ answers' = [answers EXCEPT ![s] = @ \cup {ledger[s].output}]
    /\ UNCHANGED <<ledger, starts>>

LNext ==
    \E s \in Slots :
        \/ \E i \in Inputs : Take(s, i)
        \/ StartEffect(s)
        \/ \E o \in Outputs : Settle(s, o)
        \/ Spoil(s)
        \/ Repeat(s)

LSpec == LInit /\ [][LNext]_ledgerVars
=============================================================================
