-------------------------- MODULE ExecutionEngine --------------------------
(***************************************************************************)
(* ExecutionEngine::execute over the SQLite replay table.                  *)
(*                                                                         *)
(* Several callers, threads of one process or processes on one database,   *)
(* run execute_inner concurrently.  Every storage method is one            *)
(* transaction and so one action; between two of them any other caller may *)
(* run, the caller may crash, and the storage call itself may fail.        *)
(***************************************************************************)
EXTENDS Naturals

CONSTANTS
    Callers,      \* the concurrent invocations of the engine
    Operations,   \* operation and version pairs
    Keys,         \* UUIDv7 idempotency keys
    Inputs,       \* canonical input digests
    Outputs,      \* canonical outputs of a handler
    Registry,     \* Registry[op]: what the registry and the handler say of op
    Requests,     \* the requests callers may make
    Unset,        \* the value of a field that is not set
    MaxCalls,     \* bound: how many calls get past the governance gate
    MaxFaults     \* bound: how many crashes and storage errors happen

RegistryEntry ==
    [humanOnly : BOOLEAN, sunset : BOOLEAN, handler : BOOLEAN,
     exactReplay : BOOLEAN, benchmarked : BOOLEAN]

\* approval is the answer of verify_for_execution, delegation the answer of
\* enforce_delegation (or of chain.validate); "none" when there is nothing to check.
Request ==
    [op : Operations, key : Keys \cup {Unset}, input : Inputs, human : BOOLEAN,
     approval : {"none", "verified", "refused"}, delegation : {"none", "valid", "refused"}]

ASSUME EngineAssumption ==
    /\ Registry \in [Operations -> RegistryEntry]
    /\ Requests \subseteq Request
    /\ MaxCalls \in Nat
    /\ MaxFaults \in Nat
    /\ Unset \notin Keys \cup Inputs \cup Outputs

Slots == Operations \X Keys

Slot(q) == <<q.op, q.key>>

VARIABLES
    replays,   \* replays[s]: the execution_replays row of slot s
    calls,     \* calls[c]: where caller c is in execute_inner, and its locals
    admitted,  \* calls past the gate; a claim token (Uuid::now_v7) is its number
    starts,    \* starts[s]: handler invocations made under a claim of slot s
    answers,   \* answers[s]: outputs returned for slot s, replayed ones included
    evidence,  \* rows of execution_contexts and proofs, handler runs, fresh answers
    faults     \* crashes and storage errors so far

vars == <<replays, calls, admitted, starts, answers, evidence, faults>>

ReplayStates == {"none", "claimed", "completed", "failed"}

NoRow == [state |-> "none", input |-> Unset, token |-> 0, output |-> Unset]

ReplayRow ==
    [state : ReplayStates, input : Inputs \cup {Unset}, token : Nat, output : Outputs \cup {Unset}]

\* Where a call stands: the next thing execute_inner does.
Stages == {"idle", "benchmark", "handler", "proof", "complete", "saveContext", "saveProof", "fail"}

Idle == [stage |-> "idle", req |-> Unset, token |-> 0, output |-> Unset]

Call ==
    [stage : Stages, req : Requests \cup {Unset}, token : Nat, output : Outputs \cup {Unset}]

Evidence == [contexts : Nat, proofs : Nat, runs : Nat, fresh : Nat]

Init ==
    /\ replays = [s \in Slots |-> NoRow]
    /\ calls = [c \in Callers |-> Idle]
    /\ admitted = 0
    /\ starts = [s \in Slots |-> 0]
    /\ answers = [s \in Slots |-> {}]
    /\ evidence = [contexts |-> 0, proofs |-> 0, runs |-> 0, fresh |-> 0]
    /\ faults = 0

-----------------------------------------------------------------------------
(* The gate, and the claim. *)

\* The checks execute_inner makes before it touches the replay table.
Admitted(q) ==
    LET entry == Registry[q.op] IN
    /\ entry.humanOnly /\ ~q.human => q.approval = "verified"
    /\ ~entry.sunset
    /\ q.delegation # "refused"
    /\ entry.handler
    /\ entry.exactReplay => q.key # Unset

Advance(c, stage) == calls' = [calls EXCEPT ![c].stage = stage]

Return(c) == calls' = [calls EXCEPT ![c] = Idle]

\* The call is past the gate and holds a claim token (0 for an operation without replay).
Enter(c, q, token) ==
    calls' = [calls EXCEPT ![c] =
        [stage |-> IF Registry[q.op].benchmarked THEN "benchmark" ELSE "handler",
         req |-> q, token |-> token, output |-> Unset]]

\* An operation whose policy is IdempotencyPolicy::None is not claimed.
ExecuteUnclaimed(c, q) ==
    /\ calls[c].stage = "idle"
    /\ admitted < MaxCalls
    /\ Admitted(q)
    /\ ~Registry[q.op].exactReplay
    /\ Enter(c, q, 0)
    /\ admitted' = admitted + 1
    /\ UNCHANGED <<replays, starts, answers, evidence, faults>>

\* Mutants of Claimable: a failed row is retried, a claimed row is taken over,
\* a completed row is claimed again.
ClaimableAfterFailure(row) == row.state \in {"none", "failed"}

ClaimableAfterCompletion(row) == row.state \in {"none", "completed"}

\* Only an absent row is acquired; failed claims are never reclaimed.
Claimable(row) == row.state = "none"

\* claim_execution_replay finds no row: the caller acquires the slot.
ClaimAcquired(c, q) ==
    /\ calls[c].stage = "idle"
    /\ admitted < MaxCalls
    /\ Admitted(q)
    /\ Registry[q.op].exactReplay
    /\ Claimable(replays[Slot(q)])
    /\ admitted' = admitted + 1
    /\ replays' = [replays EXCEPT ![Slot(q)] =
           [state |-> "claimed", input |-> q.input, token |-> admitted + 1, output |-> Unset]]
    /\ Enter(c, q, admitted + 1)
    /\ UNCHANGED <<starts, answers, evidence, faults>>

\* claim_execution_replay finds the completed row of the same input: the stored
\* outcome is returned.  Every other existing row (another input, claimed,
\* failed) makes the call return an error and changes nothing.
ClaimReplayed(c, q) ==
    LET row == replays[Slot(q)] IN
    /\ calls[c].stage = "idle"
    /\ Admitted(q)
    /\ Registry[q.op].exactReplay
    /\ row.state = "completed"
    /\ row.input = q.input
    /\ answers' = [answers EXCEPT ![Slot(q)] = @ \cup {row.output}]
    /\ UNCHANGED <<replays, calls, admitted, starts, evidence, faults>>

-----------------------------------------------------------------------------
(* Benchmark check, handler, proof. *)

\* A storage call fails, or the process dies: bounded, and otherwise unpredictable.
Fault ==
    /\ faults < MaxFaults
    /\ faults' = faults + 1

\* Mutants of Abort: the error path forgets the claim; a failure is treated as a result.
AbortWithoutRecord(c) == Return(c)

\* fail_acquired_claim: an error before completion goes on to record the failure,
\* if there is a claim to fail.
Abort(c) == IF calls[c].token = 0 THEN Return(c) ELSE Advance(c, "fail")

\* The latest proof of the operation is absent or not expired.
BenchmarkPasses(c) ==
    /\ calls[c].stage = "benchmark"
    /\ Advance(c, "handler")
    /\ UNCHANGED <<replays, admitted, starts, answers, evidence, faults>>

\* The latest proof is expired (no fault), or it could not be read.
BenchmarkFails(c) ==
    /\ calls[c].stage = "benchmark"
    /\ Abort(c)
    /\ Fault \/ UNCHANGED faults
    /\ UNCHANGED <<replays, admitted, starts, answers, evidence>>

\* handler.execute_versioned runs; whatever it returns, its effect has started.
RunHandler(c) ==
    LET s == Slot(calls[c].req) IN
    /\ calls[c].stage = "handler"
    /\ evidence' = [evidence EXCEPT !.runs = @ + 1]
    /\ starts' = IF calls[c].token = 0 THEN starts ELSE [starts EXCEPT ![s] = @ + 1]
    /\ \/ \E o \in Outputs : calls' = [calls EXCEPT ![c] = [@ EXCEPT !.stage = "proof", !.output = o]]
       \/ Abort(c)
    /\ UNCHANGED <<replays, admitted, answers, faults>>

\* Without a claim the context is saved next, with one the claim is completed.
AfterProof(c) == IF calls[c].token = 0 THEN "saveContext" ELSE "complete"

\* create_operation_proof signs the outcome.
SignProof(c) ==
    /\ calls[c].stage = "proof"
    /\ \/ Advance(c, AfterProof(c))
       \/ Abort(c)
    /\ UNCHANGED <<replays, admitted, starts, answers, evidence, faults>>

-----------------------------------------------------------------------------
(* The writes that end a call. *)

\* The row a completion or a failure may settle: the caller's own claim.
OwnsClaim(c) ==
    LET row == replays[Slot(calls[c].req)] IN
    /\ row.input = calls[c].req.input
    /\ row.token = calls[c].token

\* complete_execution_replay: context, proof and row in one transaction, and the
\* output is returned.  The row must be the caller's claim, still open; the error
\* both writes return otherwise is shown unreachable by SettlementIsNeverRefused.
CompleteClaim(c) ==
    LET s == Slot(calls[c].req) IN
    /\ calls[c].stage = "complete"
    /\ OwnsClaim(c)
    /\ replays[s].state = "claimed"
    /\ replays' = [replays EXCEPT ![s] = [@ EXCEPT !.state = "completed", !.output = calls[c].output]]
    /\ evidence' = [evidence EXCEPT !.contexts = @ + 1, !.proofs = @ + 1, !.fresh = @ + 1]
    /\ answers' = [answers EXCEPT ![s] = @ \cup {calls[c].output}]
    /\ Return(c)
    /\ UNCHANGED <<admitted, starts, faults>>

\* fail_execution_replay marks the claim failed for good; the call returns its error.
FailClaim(c) ==
    LET s == Slot(calls[c].req) IN
    /\ calls[c].stage = "fail"
    /\ OwnsClaim(c)
    /\ replays[s].state = "claimed"
    /\ replays' = [replays EXCEPT ![s].state = "failed"]
    /\ Return(c)
    /\ UNCHANGED <<admitted, starts, answers, evidence, faults>>

\* Without a claim: save_execution_context, then save_proof, two transactions.
SaveContext(c) ==
    /\ calls[c].stage = "saveContext"
    /\ evidence' = [evidence EXCEPT !.contexts = @ + 1]
    /\ Advance(c, "saveProof")
    /\ UNCHANGED <<replays, admitted, starts, answers, faults>>

SaveProof(c) ==
    /\ calls[c].stage = "saveProof"
    /\ evidence' = [evidence EXCEPT !.proofs = @ + 1, !.fresh = @ + 1]
    /\ Return(c)
    /\ UNCHANGED <<replays, admitted, starts, answers, faults>>

\* A write that ends the call fails, and the engine returns StorageFailed (the
\* claim stays claimed); or the process dies anywhere inside the call.
StorageFailsOrCrash(c) ==
    /\ calls[c].stage # "idle"
    /\ Fault
    /\ Return(c)
    /\ UNCHANGED <<replays, admitted, starts, answers, evidence>>

-----------------------------------------------------------------------------
Execute(c) ==
    \E q \in Requests : ExecuteUnclaimed(c, q) \/ ClaimAcquired(c, q) \/ ClaimReplayed(c, q)

Proceed(c) ==
    \/ BenchmarkPasses(c)
    \/ BenchmarkFails(c)
    \/ RunHandler(c)
    \/ SignProof(c)
    \/ CompleteClaim(c)
    \/ FailClaim(c)
    \/ SaveContext(c)
    \/ SaveProof(c)

Next == \E c \in Callers : Execute(c) \/ Proceed(c) \/ StorageFailsOrCrash(c)

Spec == Init /\ [][Next]_vars

\* execute_inner is straight-line code: a call that was admitted keeps going.
FairSpec == Spec /\ \A c \in Callers : WF_vars(Proceed(c))

-----------------------------------------------------------------------------
(* Properties. *)

\* The type of the state.
TypeOK ==
    /\ replays \in [Slots -> ReplayRow]
    /\ calls \in [Callers -> Call]
    /\ admitted \in 0..MaxCalls
    /\ starts \in [Slots -> Nat]
    /\ answers \in [Slots -> SUBSET Outputs]
    /\ evidence \in Evidence
    /\ faults \in 0..MaxFaults

\* Whatever callers race, crash, fail or retry, the handler of an exact-replay
\* operation is invoked at most once for an idempotency key (the claim taken by
\* claim_execution_replay before handler.execute_versioned).
EffectStartsAtMostOnce == \A s \in Slots : starts[s] <= 1

\* All successful answers for a key, first-hand or replayed, are the output of the
\* completed row; a key that was not completed never answered.
OneAnswerPerKey ==
    \A s \in Slots :
        answers[s] \subseteq (IF replays[s].state = "completed" THEN {replays[s].output} ELSE {})

\* A call that comes back to settle its claim always finds it open and its own:
\* the Conflict branches of complete_execution_replay and fail_execution_replay
\* are never taken by the engine.
SettlementIsNeverRefused ==
    \A c \in Callers :
        calls[c].stage \in {"complete", "fail"} =>
            OwnsClaim(c) /\ replays[Slot(calls[c].req)].state = "claimed"

SettledRowsKept ==
    \A s \in Slots :
        /\ replays[s].state \in {"completed", "failed"} => replays'[s] = replays[s]
        /\ replays[s].state = "claimed" =>
               /\ replays'[s].input = replays[s].input
               /\ replays'[s].token = replays[s].token
               /\ replays'[s].state # "none"

\* A claim is bound to its input for ever and a settled row never changes again:
\* no retry, late caller or failure path reopens or rewrites it.
RowsSettleOnce == [][SettledRowsKept]_vars

\* Without a crash or storage error a claimed row is settled, on every error path
\* of execute_inner too; with one it may stay claimed, and the slot then answers
\* InProgress rather than run the handler again.
ClaimSettles ==
    \A s \in Slots :
        (replays[s].state = "claimed") ~>
            (replays[s].state \in {"completed", "failed"} \/ faults > 0)

LedgerRow(row) ==
    [state |-> CASE row.state = "none" -> "free"
                 [] row.state = "claimed" -> "taken"
                 [] row.state = "completed" -> "settled"
                 [] row.state = "failed" -> "spoiled",
     input |-> row.input,
     output |-> row.output]

Ledger == INSTANCE ReplayLedger WITH ledger <- [s \in Slots |-> LedgerRow(replays[s])]

\* The engine implements the ledger of exact replay: a slot is taken once, its
\* effect starts once, it settles once, and every answer is the settled output.
ImplementsLedger == Ledger!LSpec
=============================================================================
