----------------------- MODULE ExecutionEngineProofs -----------------------
(***************************************************************************)
(* Exact replay, proved for any number of callers, operations, keys and    *)
(* faults: the handler of a claimed slot starts at most once, the slot     *)
(* answers with one output, and the engine implements ReplayLedger.        *)
(***************************************************************************)
EXTENDS ExecutionEngine, TLAPS

\* Time limits for the leaves that name no prover.
USE SMTT(30), ZenonT(30)

Holds(c) == calls[c].token # 0

\* What a call in flight knows about its own locals.
CallsInFlight ==
    \A c \in Callers :
        /\ calls[c].stage = "idle" => calls[c] = Idle
        /\ calls[c].stage # "idle" => calls[c].req \in Requests
        /\ calls[c].token <= admitted
        /\ calls[c].stage \in {"complete", "fail"} => Holds(c)
        /\ calls[c].stage \in {"saveContext", "saveProof"} => ~Holds(c)
        /\ calls[c].stage \in {"proof", "complete"} => calls[c].output \in Outputs

\* A caller with a claim token is the one owner of an open row, and knows from
\* where it stands whether the handler of that row has started.
ClaimsAreHeld ==
    \A c \in Callers : Holds(c) =>
        LET s == Slot(calls[c].req) IN
        /\ s \in Slots
        /\ OwnsClaim(c)
        /\ replays[s].state = "claimed"
        /\ calls[c].stage \in {"benchmark", "handler"} => starts[s] = 0
        /\ calls[c].stage \in {"proof", "complete"} => starts[s] = 1

\* No two callers hold the same claim token.
TokensAreDistinct ==
    \A c, d \in Callers : Holds(c) /\ calls[c].token = calls[d].token => c = d

\* Rows that were not claimed saw no effect, rows that were not completed no answer.
RowsAreSound ==
    \A s \in Slots :
        /\ starts[s] <= 1
        /\ replays[s].state = "none" => replays[s] = NoRow /\ starts[s] = 0
        /\ replays[s].state # "completed" => answers[s] = {} /\ replays[s].output = Unset
        /\ replays[s].state = "completed" =>
              replays[s].output \in Outputs /\ answers[s] = {replays[s].output}

IInv == TypeOK /\ CallsInFlight /\ ClaimsAreHeld /\ TokensAreDistinct /\ RowsAreSound


\* The initial state satisfies the invariant.
LEMMA InitInv == Init => IInv
  BY EngineAssumption DEF Init, IInv, TypeOK, CallsInFlight, ClaimsAreHeld, TokensAreDistinct,
     RowsAreSound, Holds, Idle, Call, Stages, NoRow, ReplayRow, ReplayStates, Evidence

\* Entering execute_inner without a claim changes only the caller's locals.
LEMMA ExecuteUnclaimedInv ==
  ASSUME IInv, NEW c \in Callers, NEW q \in Requests, ExecuteUnclaimed(c, q)
  PROVE  IInv'
  <1> USE EngineAssumption DEF IInv, ExecuteUnclaimed, Enter
  <1>1. TypeOK'
    BY DEF TypeOK, Call, Stages
  <1>2. CallsInFlight'
    BY DEF TypeOK, CallsInFlight, Holds, Call, Stages
  <1>3. ClaimsAreHeld'
    BY DEF TypeOK, ClaimsAreHeld, Holds, OwnsClaim, Call
  <1>4. TokensAreDistinct'
    BY DEF TypeOK, TokensAreDistinct, Holds, Call
  <1>5. RowsAreSound'
    BY DEF RowsAreSound
  <1> QED BY <1>1, <1>2, <1>3, <1>4, <1>5

\* A fresh claim is the only claim of its slot, and no handler of it has started.
LEMMA ClaimAcquiredInv ==
  ASSUME IInv, NEW c \in Callers, NEW q \in Requests, ClaimAcquired(c, q)
  PROVE  IInv'
  <1> USE EngineAssumption DEF IInv, ClaimAcquired, Enter, Claimable
  <1>0. /\ Slot(q) \in Slots
        /\ q.input \in Inputs
    BY DEF Slot, Slots, Admitted, Request
  <1>1. TypeOK'
    BY <1>0 DEF TypeOK, Call, Stages, ReplayRow, ReplayStates
  <1>2. CallsInFlight'
    BY DEF TypeOK, CallsInFlight, Holds, Call, Stages
  <1>3. ClaimsAreHeld'
    BY <1>0 DEF TypeOK, ClaimsAreHeld, RowsAreSound, Holds, OwnsClaim, Call, ReplayRow, Stages
  <1>4. TokensAreDistinct'
    BY DEF TypeOK, TokensAreDistinct, CallsInFlight, Holds, Call
  <1>5. RowsAreSound'
    BY <1>0 DEF TypeOK, RowsAreSound, NoRow, ReplayRow
  <1> QED BY <1>1, <1>2, <1>3, <1>4, <1>5

\* The stored outcome is the answer that was given already.
LEMMA ClaimReplayedInv ==
  ASSUME IInv, NEW c \in Callers, NEW q \in Requests, ClaimReplayed(c, q)
  PROVE  IInv'
  <1> USE EngineAssumption DEF IInv, ClaimReplayed
  <1>0. Slot(q) \in Slots
    BY DEF Slot, Slots, Admitted, Request
  <1>1. answers' = answers
    BY <1>0 DEF TypeOK, RowsAreSound
  <1>2. TypeOK' /\ RowsAreSound'
    <2>1. UNCHANGED <<replays, calls, admitted, starts, answers, evidence, faults>>
      BY Zenon, <1>1
    <2> HIDE DEF ClaimReplayed
    <2>2. TypeOK'
      BY Zenon, <2>1 DEF TypeOK
    <2>3. RowsAreSound'
      BY Zenon, <2>1 DEF RowsAreSound
    <2> QED
      BY Zenon, <2>2, <2>3
  <1>3. CallsInFlight' /\ TokensAreDistinct'
    BY DEF CallsInFlight, TokensAreDistinct, Holds
  <1>4. ClaimsAreHeld'
    BY DEF ClaimsAreHeld, Holds, OwnsClaim
  <1> QED BY <1>2, <1>3, <1>4

\* A call ends (by an error, a crash or after its last write) without settling a row.
LEMMA ReturnInv ==
  ASSUME IInv, NEW c \in Callers, calls[c].stage # "idle", Return(c),
         UNCHANGED <<replays, admitted, starts, answers>>,
         evidence' \in Evidence,
         faults' \in 0..MaxFaults
  PROVE  IInv'
  <1> USE DEF IInv, Return, Idle
  <1>1. TypeOK'
    BY DEF TypeOK, Call, Stages
  <1>2. CallsInFlight'
    BY DEF TypeOK, CallsInFlight, Holds, Call, Stages
  <1>3. ClaimsAreHeld'
    BY DEF TypeOK, ClaimsAreHeld, Holds, OwnsClaim, Call
  <1>4. TokensAreDistinct'
    BY DEF TypeOK, TokensAreDistinct, Holds, Call
  <1>5. RowsAreSound'
    BY DEF RowsAreSound
  <1> QED BY <1>1, <1>2, <1>3, <1>4, <1>5

\* A call goes on to its next stage without touching the tables.
LEMMA AdvanceInv ==
  ASSUME IInv, NEW c \in Callers, NEW stage \in Stages, calls[c].stage # "idle", stage # "idle",
         Advance(c, stage), UNCHANGED <<replays, admitted, starts, answers>>,
         evidence' \in Evidence,
         faults' \in 0..MaxFaults,
         stage \in {"complete", "fail"} => Holds(c),
         stage \in {"saveContext", "saveProof"} => ~Holds(c),
         stage \in {"proof", "complete"} => calls[c].stage = "proof",
         stage \in {"benchmark", "handler"} => calls[c].stage = "benchmark"
  PROVE  IInv'
  <1> USE DEF IInv, Advance
  <1>1. TypeOK'
    BY DEF TypeOK, Call
  <1>2. CallsInFlight'
    BY DEF TypeOK, CallsInFlight, Holds, Call
  <1>3. ClaimsAreHeld'
    BY DEF TypeOK, ClaimsAreHeld, Holds, OwnsClaim, Call
  <1>4. TokensAreDistinct'
    BY DEF TypeOK, TokensAreDistinct, Holds, Call
  <1>5. RowsAreSound'
    BY DEF RowsAreSound
  <1> QED BY <1>1, <1>2, <1>3, <1>4, <1>5

\* The error path of a call, with or without a claim.
LEMMA AbortInv ==
  ASSUME IInv, NEW c \in Callers, calls[c].stage # "idle", Abort(c),
         UNCHANGED <<replays, admitted, starts, answers>>,
         evidence' \in Evidence,
         faults' \in 0..MaxFaults
  PROVE  IInv'
  <1>1. CASE calls[c].token = 0
    BY <1>1, ReturnInv DEF Abort
  <1>2. CASE calls[c].token # 0
    BY <1>2, AdvanceInv DEF Abort, Holds, Stages
  <1> QED BY <1>1, <1>2

\* What is left of a call whose handler ran: only its stage and output changed.
HandlerReturned(c, stage, o) ==
    /\ calls' \in [Callers -> Call]
    /\ calls'[c].stage = stage /\ calls'[c].output = o
    /\ calls'[c].req = calls[c].req /\ calls'[c].token = calls[c].token
    /\ \A d \in Callers \ {c} : calls'[d] = calls[d]

\* The handler either returned an output, or an error that goes to the error path.
LEMMA HandlerReturns ==
  ASSUME TypeOK, NEW c \in Callers, RunHandler(c)
  PROVE  \/ \E o \in Outputs : HandlerReturned(c, "proof", o)
         \/ Abort(c)
  <1>1. ASSUME NEW o \in Outputs, calls' = [calls EXCEPT ![c] = [@ EXCEPT !.stage = "proof", !.output = o]]
        PROVE  HandlerReturned(c, "proof", o)
    BY Zenon, <1>1 DEF TypeOK, HandlerReturned, Call, Stages
  <1> QED BY Zenon, <1>1 DEF RunHandler

\* The evidence counters stay natural numbers.
LEMMA EvidenceType ==
  ASSUME evidence \in Evidence, NEW c \in Callers,
         RunHandler(c) \/ CompleteClaim(c) \/ SaveContext(c) \/ SaveProof(c)
  PROVE  evidence' \in Evidence
  <1>1. \/ evidence' = [evidence EXCEPT !.runs = @ + 1]
        \/ evidence' = [evidence EXCEPT !.contexts = @ + 1, !.proofs = @ + 1, !.fresh = @ + 1]
        \/ evidence' = [evidence EXCEPT !.contexts = @ + 1]
        \/ evidence' = [evidence EXCEPT !.proofs = @ + 1, !.fresh = @ + 1]
    BY Zenon DEF RunHandler, CompleteClaim, SaveContext, SaveProof
  <1>2. CASE evidence' = [evidence EXCEPT !.runs = @ + 1]
    BY <1>2 DEF Evidence
  <1>3. CASE evidence' = [evidence EXCEPT !.contexts = @ + 1, !.proofs = @ + 1, !.fresh = @ + 1]
    <2>1. evidence' = [contexts |-> evidence.contexts + 1, proofs |-> evidence.proofs + 1,
                       runs |-> evidence.runs, fresh |-> evidence.fresh + 1]
      BY <1>3, Zenon DEF Evidence
    <2> QED BY <2>1 DEF Evidence
  <1>4. CASE evidence' = [evidence EXCEPT !.contexts = @ + 1]
    BY <1>4 DEF Evidence
  <1>5. CASE evidence' = [evidence EXCEPT !.proofs = @ + 1, !.fresh = @ + 1]
    <2>1. evidence' = [contexts |-> evidence.contexts, proofs |-> evidence.proofs + 1,
                       runs |-> evidence.runs, fresh |-> evidence.fresh + 1]
      BY Zenon, <1>5 DEF Evidence
    <2> QED BY <2>1 DEF Evidence
  <1> QED BY <1>1, <1>2, <1>3, <1>4, <1>5

\* The handler of a held claim starts for the first time: its owner stands before
\* the handler, so starts is 0, and no other caller owns the slot.
LEMMA RunHandlerInv ==
  ASSUME IInv, NEW c \in Callers, RunHandler(c)
  PROVE  IInv'
  <1> USE DEF IInv
  <1>0. /\ evidence' \in Evidence
        /\ UNCHANGED <<replays, admitted, answers, faults>>
        /\ calls[c].stage = "handler"
    BY Zenon, EvidenceType DEF TypeOK, RunHandler
  <1> DEFINE s == Slot(calls[c].req)
  <1>1. CASE calls[c].token = 0
    <2>1. CASE Abort(c)
      BY <1>0, <1>1, <2>1, AbortInv DEF RunHandler, TypeOK
    <2>2. ASSUME NEW o \in Outputs, HandlerReturned(c, "proof", o)
          PROVE  IInv'
      <3> USE <2>2 DEF HandlerReturned
      <3>0. starts' = starts
        BY Zenon, <1>1 DEF RunHandler
      <3>1. TypeOK'
        BY Zenon, <1>0, <1>1 DEF RunHandler, TypeOK
      <3>2. CallsInFlight'
        BY <1>0, <1>1 DEF TypeOK, CallsInFlight, Holds
      <3>3. ClaimsAreHeld'
        BY <1>0, <1>1, <3>0 DEF TypeOK, ClaimsAreHeld, Holds, OwnsClaim
      <3>4. TokensAreDistinct'
        BY ZenonT(40), <1>1 DEF TypeOK, TokensAreDistinct, Holds
      <3>5. RowsAreSound'
        BY Zenon, <1>1 DEF RunHandler, RowsAreSound
      <3> QED BY Zenon, <3>1, <3>2, <3>3, <3>4, <3>5
    <2> QED BY <2>1, <2>2, HandlerReturns
  <1>2. CASE calls[c].token # 0
    <2>1. s \in Slots /\ starts[s] = 0 /\ replays[s].state = "claimed" /\ OwnsClaim(c)
      BY Zenon, <1>2 DEF RunHandler, ClaimsAreHeld, Holds
    <2>2. starts' = [starts EXCEPT ![s] = 1]
      <3>1. starts' = [starts EXCEPT ![s] = starts[s] + 1]
        BY Zenon, <1>2 DEF RunHandler
      <3> QED BY <2>1, <3>1
    <2>3. \E stage \in {"proof", "fail"}, o \in Outputs \cup {Unset} :
             HandlerReturned(c, stage, o) /\ (stage = "proof" => o \in Outputs)
      <3>1. CASE Abort(c)
        BY <1>2, <3>1 DEF Abort, Advance, TypeOK, Call, Stages, HandlerReturned
      <3> QED BY <3>1, HandlerReturns
    <2>4. PICK stage \in {"proof", "fail"}, o \in Outputs \cup {Unset} :
             HandlerReturned(c, stage, o) /\ (stage = "proof" => o \in Outputs)
      BY <2>3
    <2>5. \A d \in Callers : Holds(d) /\ Slot(calls[d].req) = s => d = c
      BY <1>2, <2>1 DEF ClaimsAreHeld, TokensAreDistinct, OwnsClaim, Holds
    <2> USE <2>4 DEF HandlerReturned
    <2>6. TypeOK'
      BY <1>0, <2>1, <2>2 DEF TypeOK
    <2>7. CallsInFlight'
      BY <1>0, <1>2 DEF TypeOK, CallsInFlight, Holds
    <2>8. ClaimsAreHeld'
      BY <1>0, <1>2, <2>1, <2>2, <2>5 DEF TypeOK, ClaimsAreHeld, Holds, OwnsClaim
    <2>9. TokensAreDistinct'
      BY DEF TypeOK, TokensAreDistinct, Holds
    <2>10. RowsAreSound'
      BY <1>0, <2>1, <2>2 DEF TypeOK, RowsAreSound
    <2> QED BY Zenon, <2>6, <2>7, <2>8, <2>9, <2>10
  <1> QED BY <1>1, <1>2

\* Completing or failing a held claim settles the row; nobody else owns it.
LEMMA SettleInv ==
  ASSUME IInv, NEW c \in Callers, CompleteClaim(c) \/ FailClaim(c)
  PROVE  IInv'
  <1> USE DEF IInv
  <1> DEFINE s == Slot(calls[c].req)
  <1>1. /\ Holds(c) /\ s \in Slots /\ replays[s].state = "claimed"
        /\ calls[c].stage = "complete" => calls[c].output \in Outputs
    BY Zenon DEF CallsInFlight, ClaimsAreHeld, CompleteClaim, FailClaim
  <1>2. calls' = [calls EXCEPT ![c] = Idle] /\ UNCHANGED <<admitted, starts, faults>>
    BY DEF CompleteClaim, FailClaim, Return
  <1>3. \A d \in Callers : Holds(d) /\ Slot(calls[d].req) = s => d = c
    BY <1>1 DEF ClaimsAreHeld, TokensAreDistinct, OwnsClaim, Holds
  <1>4. \A d \in Callers : Holds(d)' => Holds(d) /\ d # c /\ calls'[d] = calls[d] /\ Slot(calls[d].req) # s
    BY <1>2, <1>3 DEF TypeOK, Holds, Idle
  <1>5. \A r \in Slots \ {s} : replays'[r] = replays[r] /\ answers'[r] = answers[r]
    BY DEF TypeOK, CompleteClaim, FailClaim
  <1>6. CallsInFlight'
    BY <1>2 DEF TypeOK, CallsInFlight, Holds, Idle
  <1>7. ClaimsAreHeld'
    BY <1>2, <1>4, <1>5 DEF ClaimsAreHeld, OwnsClaim
  <1>8. TokensAreDistinct'
    BY <1>2, <1>4 DEF TypeOK, TokensAreDistinct, Holds, Idle
  <1>9. CASE CompleteClaim(c)
    <2>1. /\ replays' = [replays EXCEPT ![s] = [@ EXCEPT !.state = "completed", !.output = calls[c].output]]
          /\ answers' = [answers EXCEPT ![s] = {calls[c].output}]
          /\ calls[c].output \in Outputs
      BY Zenon, <1>1, <1>9 DEF TypeOK, CompleteClaim, RowsAreSound
    <2>2. TypeOK'
      <3>1. [replays[s] EXCEPT !.state = "completed", !.output = calls[c].output] \in ReplayRow
        BY Zenon, <1>1, <2>1 DEF TypeOK, ReplayRow, ReplayStates
      <3>2. replays' \in [Slots -> ReplayRow] /\ answers' \in [Slots -> SUBSET Outputs]
        BY <1>1, <2>1, <3>1 DEF TypeOK
      <3>3. calls' \in [Callers -> Call]
        BY <1>2 DEF TypeOK, Idle, Call, Stages
      <3>4. evidence' \in Evidence
        BY Zenon, <1>9, EvidenceType DEF TypeOK, CompleteClaim
      <3> QED BY <1>2, <3>2, <3>3, <3>4 DEF TypeOK
    <2>3. RowsAreSound'
      BY <1>1, <1>2, <2>1 DEF TypeOK, RowsAreSound, ReplayRow
    <2> QED BY <1>6, <1>7, <1>8, <2>2, <2>3
  <1>10. CASE FailClaim(c)
    <2>1. /\ replays' = [replays EXCEPT ![s].state = "failed"]
          /\ UNCHANGED <<answers, evidence>>
      BY <1>10 DEF FailClaim
    <2>2. TypeOK'
      BY ZenonT(40), <1>1, <1>2, <2>1 DEF TypeOK, Idle, Call, Stages, ReplayRow, ReplayStates
    <2>3. RowsAreSound'
      BY <1>1, <1>2, <2>1 DEF TypeOK, RowsAreSound, ReplayRow
    <2> QED BY <1>6, <1>7, <1>8, <2>2, <2>3
  <1> QED BY <1>9, <1>10

\* Every action of execute_inner preserves the invariant.
LEMMA NextInv == IInv /\ [Next]_vars => IInv'
  <1> SUFFICES ASSUME IInv, [Next]_vars PROVE IInv'
    OBVIOUS
  <1>t. evidence \in Evidence /\ faults \in 0..MaxFaults /\ MaxFaults \in Nat
    BY EngineAssumption DEF IInv, TypeOK
  <1>f. Fault => faults' \in 0..MaxFaults
    BY <1>t DEF Fault
  <1>1. ASSUME NEW c \in Callers, Execute(c) PROVE IInv'
    BY <1>1, ExecuteUnclaimedInv, ClaimAcquiredInv, ClaimReplayedInv DEF Execute
  <1>2. ASSUME NEW c \in Callers, BenchmarkPasses(c) PROVE IInv'
    BY <1>2, <1>t, AdvanceInv DEF BenchmarkPasses, Stages
  <1>3. ASSUME NEW c \in Callers, BenchmarkFails(c) PROVE IInv'
    BY <1>3, <1>t, <1>f, AbortInv DEF BenchmarkFails
  <1>4. ASSUME NEW c \in Callers, SignProof(c) PROVE IInv'
    <2>1. CASE Abort(c)
      BY <1>4, <1>t, <2>1, AbortInv DEF SignProof
    <2>2. CASE Advance(c, AfterProof(c))
      BY Zenon, <1>4, <1>t, <2>2, AdvanceInv DEF SignProof, AfterProof, Stages, Holds
    <2> QED BY <1>4, <2>1, <2>2 DEF SignProof
  <1>5. ASSUME NEW c \in Callers, SaveContext(c) PROVE IInv'
    BY Zenon, <1>5, <1>t, AdvanceInv, EvidenceType DEF SaveContext, Stages, IInv, CallsInFlight
  <1>6. ASSUME NEW c \in Callers, SaveProof(c) PROVE IInv'
    BY <1>6, <1>t, ReturnInv, EvidenceType DEF SaveProof
  <1>7. ASSUME NEW c \in Callers, StorageFailsOrCrash(c) PROVE IInv'
    BY <1>7, <1>t, <1>f, ReturnInv DEF StorageFailsOrCrash
  <1>8. CASE UNCHANGED vars
    <2>1. TypeOK' /\ RowsAreSound'
      BY <1>8 DEF vars, IInv, TypeOK, RowsAreSound
    <2>2. CallsInFlight' /\ TokensAreDistinct'
      BY <1>8 DEF vars, IInv, CallsInFlight, TokensAreDistinct, Holds
    <2>3. ClaimsAreHeld'
      BY Zenon, <1>8 DEF vars, IInv, ClaimsAreHeld, Holds, OwnsClaim
    <2> QED BY <2>1, <2>2, <2>3 DEF IInv
  <1> QED
    BY <1>1, <1>2, <1>3, <1>4, <1>5, <1>6, <1>7, <1>8, RunHandlerInv, SettleInv DEF Next, Proceed

\* The invariant holds in every reachable state.
LEMMA Invariance == Spec => []IInv
  BY InitInv, NextInv, PTL DEF Spec

\* Type correctness of the engine's state, for any callers, operations and bounds.
THEOREM TypeCorrect == Spec => []TypeOK
  <1>1. IInv => TypeOK
    BY DEF IInv
  <1> QED BY Invariance, <1>1, PTL

\* The handler of an exact-replay operation is invoked at most once per key,
\* however many callers race, crash or retry.
THEOREM EffectOnce == Spec => []EffectStartsAtMostOnce
  <1>1. IInv => EffectStartsAtMostOnce
    BY DEF IInv, RowsAreSound, EffectStartsAtMostOnce
  <1> QED BY Invariance, <1>1, PTL

\* Every successful answer for a key is the output of its completed row.
THEOREM OneAnswer == Spec => []OneAnswerPerKey
  <1>1. IInv => OneAnswerPerKey
    BY DEF IInv, RowsAreSound, OneAnswerPerKey
  <1> QED BY Invariance, <1>1, PTL

\* The Conflict branches of complete_execution_replay and fail_execution_replay are
\* unreachable from execute_inner.
THEOREM NeverRefused == Spec => []SettlementIsNeverRefused
  <1>1. IInv => SettlementIsNeverRefused
    BY DEF IInv, CallsInFlight, ClaimsAreHeld, SettlementIsNeverRefused
  <1> QED BY Invariance, <1>1, PTL

\* A claim keeps its input and token, and a settled row is never rewritten.
THEOREM SettledOnce == Spec => RowsSettleOnce
  <1>1. IInv /\ [Next]_vars => [SettledRowsKept]_vars
    <2> SUFFICES ASSUME IInv, Next PROVE SettledRowsKept
      OBVIOUS
    <2>1. CASE UNCHANGED replays
      BY <2>1 DEF SettledRowsKept
    <2>2. ASSUME NEW c \in Callers, NEW q \in Requests, ClaimAcquired(c, q)
          PROVE  SettledRowsKept
      BY Zenon, <2>2 DEF IInv, TypeOK, SettledRowsKept, ClaimAcquired, Claimable
    <2>3. ASSUME NEW c \in Callers, CompleteClaim(c)
          PROVE  SettledRowsKept
      <3> DEFINE s == Slot(calls[c].req)
      <3>1. /\ replays[s].state = "claimed"
            /\ replays' = [replays EXCEPT ![s] = [@ EXCEPT !.state = "completed", !.output = calls[c].output]]
        BY <2>3 DEF CompleteClaim
      <3> QED BY <3>1 DEF IInv, TypeOK, SettledRowsKept, ReplayRow
    <2>4. ASSUME NEW c \in Callers, FailClaim(c)
          PROVE  SettledRowsKept
      <3> DEFINE s == Slot(calls[c].req)
      <3>1. replays[s].state = "claimed" /\ replays' = [replays EXCEPT ![s].state = "failed"]
        BY Zenon, <2>4 DEF FailClaim
      <3> QED BY <3>1 DEF IInv, TypeOK, SettledRowsKept, ReplayRow
    <2>5. \/ UNCHANGED replays
          \/ \E c \in Callers : \/ \E q \in Requests : ClaimAcquired(c, q)
                              \/ CompleteClaim(c) \/ FailClaim(c)
      BY ZenonT(40) DEF Next, Execute, Proceed, ExecuteUnclaimed, ClaimReplayed, BenchmarkPasses, BenchmarkFails,
         RunHandler, SignProof, SaveContext, SaveProof, StorageFailsOrCrash
    <2> QED BY <2>1, <2>2, <2>3, <2>4, <2>5
  <1> QED BY <1>1, Invariance, PTL DEF Spec, RowsSettleOnce

-----------------------------------------------------------------------------
(* The engine implements the ledger. *)

\* The initial state maps to the empty ledger.
LEMMA InitRefines == Init => Ledger!LInit
  BY DEF Init, Ledger!LInit, Ledger!Free, Ledger!Row, NoRow, LedgerRow

\* An action that leaves the replay rows, the starts and the answers alone is a
\* stuttering step of the ledger.
LEMMA StutterRefines ==
  ASSUME UNCHANGED <<replays, starts, answers>>
  PROVE  UNCHANGED Ledger!ledgerVars
  BY DEF Ledger!ledgerVars

\* Writing one replay row writes one ledger row.
LEMMA MappedWrite ==
  ASSUME IInv, NEW s \in Slots, NEW row, replays' = [replays EXCEPT ![s] = row]
  PROVE  [r \in Slots |-> LedgerRow(replays[r])]' =
             [[r \in Slots |-> LedgerRow(replays[r])] EXCEPT ![s] = LedgerRow(row)]
  BY Zenon DEF IInv, TypeOK

\* A fresh claim takes the slot of the ledger.
LEMMA ClaimRefines ==
  ASSUME IInv, NEW c \in Callers, NEW q \in Requests, ClaimAcquired(c, q)
  PROVE  Ledger!LNext
  <1> DEFINE row == [state |-> "claimed", input |-> q.input, token |-> admitted + 1, output |-> Unset]
  <1>1. Slot(q) \in Slots /\ q.input \in Inputs
    BY Zenon, EngineAssumption DEF ClaimAcquired, Slot, Slots, Admitted, Request
  <1>2. replays[Slot(q)] = NoRow
    BY <1>1 DEF IInv, RowsAreSound, ClaimAcquired, Claimable
  <1>3. replays' = [replays EXCEPT ![Slot(q)] = row] /\ UNCHANGED <<starts, answers>>
    BY Zenon DEF ClaimAcquired
  <1>4. LedgerRow(NoRow) = Ledger!Free /\ LedgerRow(row) = Ledger!Row("taken", q.input, Unset)
    BY DEF LedgerRow, NoRow, Ledger!Free, Ledger!Row
  <1>5. Ledger!Take(Slot(q), q.input)
    <2> HIDE DEF row
    <2> QED BY Zenon, <1>1, <1>2, <1>3, <1>4, MappedWrite DEF Ledger!Take
  <1> QED BY <1>1, <1>5 DEF Ledger!LNext

\* A replayed answer repeats the settled output.
LEMMA ReplayRefines ==
  ASSUME IInv, NEW c \in Callers, NEW q \in Requests, ClaimReplayed(c, q)
  PROVE  Ledger!LNext
  <1>1. Slot(q) \in Slots
    BY Zenon, EngineAssumption DEF ClaimReplayed, Slot, Slots, Admitted, Request
  <1>2. Ledger!Repeat(Slot(q))
    BY Zenon, <1>1 DEF IInv, TypeOK, ClaimReplayed, Ledger!Repeat, LedgerRow
  <1> QED BY <1>1, <1>2 DEF Ledger!LNext

\* The handler of a claimed slot starts its effect; an unclaimed run is not the
\* ledger's business.
LEMMA HandlerRefines ==
  ASSUME IInv, NEW c \in Callers, RunHandler(c)
  PROVE  Ledger!LNext \/ UNCHANGED Ledger!ledgerVars
  <1> DEFINE s == Slot(calls[c].req)
  <1>1. CASE calls[c].token = 0
    BY Zenon, <1>1, StutterRefines DEF RunHandler
  <1>2. CASE calls[c].token # 0
    <2>1. s \in Slots /\ starts[s] = 0 /\ replays[s].state = "claimed"
      BY Zenon, <1>2 DEF IInv, RunHandler, ClaimsAreHeld, Holds
    <2>2. starts' = [starts EXCEPT ![s] = starts[s] + 1] /\ UNCHANGED <<replays, answers>>
      BY Zenon, <1>2 DEF RunHandler
    <2>3. Ledger!StartEffect(s)
      BY <2>1, <2>2 DEF Ledger!StartEffect, LedgerRow
    <2> QED BY Zenon, <2>1, <2>3 DEF Ledger!LNext
  <1> QED BY <1>1, <1>2

\* Completing a claim settles its slot, failing it spoils the slot.
LEMMA SettleRefines ==
  ASSUME IInv, NEW c \in Callers, CompleteClaim(c) \/ FailClaim(c)
  PROVE  Ledger!LNext
  <1> DEFINE s == Slot(calls[c].req)
             row == replays[s]
             o == calls[c].output
             completed == [row EXCEPT !.state = "completed", !.output = o]
             failed == [row EXCEPT !.state = "failed"]
  <1>1. /\ s \in Slots /\ row.state = "claimed" /\ answers[s] = {} /\ row.output = Unset /\ row \in ReplayRow
        /\ calls[c].stage = "complete" => o \in Outputs /\ starts[s] = 1
    BY Zenon DEF IInv, TypeOK, CallsInFlight, ClaimsAreHeld, CompleteClaim, FailClaim, RowsAreSound
  <1>2. /\ LedgerRow(row).state = "taken"
        /\ LedgerRow(completed) = Ledger!Row("settled", LedgerRow(row).input, o)
        /\ LedgerRow(failed) = Ledger!Row("spoiled", LedgerRow(row).input, Unset)
    BY <1>1 DEF LedgerRow, ReplayRow, Ledger!Row
  <1>3. CASE CompleteClaim(c)
    <2>1. /\ replays' = [replays EXCEPT ![s] = completed]
          /\ answers' = [answers EXCEPT ![s] = {o}]
          /\ starts' = starts
          /\ o \in Outputs /\ starts[s] = 1
      BY ZenonT(40), <1>1, <1>3 DEF IInv, TypeOK, CompleteClaim
    <2>2. Ledger!Settle(s, o)
      <3> HIDE DEF completed
      <3>1. [r \in Slots |-> LedgerRow(replays[r])]' =
               [[r \in Slots |-> LedgerRow(replays[r])] EXCEPT ![s] = LedgerRow(completed)]
        BY Zenon, <1>1, <2>1, MappedWrite
      <3> QED BY Zenon, <1>1, <1>2, <2>1, <3>1 DEF Ledger!Settle
    <2> QED BY <1>1, <2>1, <2>2 DEF Ledger!LNext
  <1>4. CASE FailClaim(c)
    <2>1. replays' = [replays EXCEPT ![s] = failed] /\ UNCHANGED <<answers, starts>>
      BY <1>4 DEF FailClaim
    <2>2. Ledger!Spoil(s)
      <3> HIDE DEF failed
      <3>1. [r \in Slots |-> LedgerRow(replays[r])]' =
               [[r \in Slots |-> LedgerRow(replays[r])] EXCEPT ![s] = LedgerRow(failed)]
        BY Zenon, <1>1, <2>1, MappedWrite
      <3> QED BY Zenon, <1>1, <1>2, <2>1, <3>1 DEF Ledger!Spoil
    <2> QED BY Zenon, <1>1, <2>2 DEF Ledger!LNext
  <1> QED BY <1>3, <1>4

\* Every step of the engine is a step of the ledger or leaves it alone.
LEMMA StepRefines == IInv /\ [Next]_vars => [Ledger!LNext]_(Ledger!ledgerVars)
  <1> SUFFICES ASSUME IInv, [Next]_vars
               PROVE  Ledger!LNext \/ UNCHANGED Ledger!ledgerVars
    OBVIOUS
  <1>1. ASSUME NEW c \in Callers, Execute(c)
        PROVE  Ledger!LNext \/ UNCHANGED Ledger!ledgerVars
    <2>1. ASSUME NEW q \in Requests, ExecuteUnclaimed(c, q)
          PROVE  UNCHANGED Ledger!ledgerVars
      BY <2>1, StutterRefines DEF ExecuteUnclaimed
    <2> QED BY <1>1, <2>1, ClaimRefines, ReplayRefines DEF Execute
  <1>2. ASSUME NEW c \in Callers, Proceed(c) \/ StorageFailsOrCrash(c)
        PROVE  Ledger!LNext \/ UNCHANGED Ledger!ledgerVars
    <2>1. CASE \/ BenchmarkPasses(c) \/ BenchmarkFails(c) \/ SignProof(c) \/ SaveContext(c)
               \/ SaveProof(c) \/ StorageFailsOrCrash(c)
      <3>1. UNCHANGED <<replays, starts, answers>>
        BY <2>1 DEF BenchmarkPasses, BenchmarkFails, SignProof, SaveContext, SaveProof, StorageFailsOrCrash
      <3> QED BY <3>1, StutterRefines
    <2> QED BY <1>2, <2>1, HandlerRefines, SettleRefines DEF Proceed
  <1>3. CASE UNCHANGED vars
    BY <1>3, StutterRefines DEF vars
  <1> QED BY <1>1, <1>2, <1>3 DEF Next

\* The engine over the replay table implements the ledger of exact replay, for any
\* callers, operations, keys, crashes and storage errors.
THEOREM EngineImplementsLedger == Spec => ImplementsLedger
  <1>1. Init => Ledger!LInit
    BY InitRefines
  <1>2. IInv /\ [Next]_vars => [Ledger!LNext]_(Ledger!ledgerVars)
    BY StepRefines
  <1> QED BY <1>1, <1>2, Invariance, PTL DEF Spec, ImplementsLedger, Ledger!LSpec

=============================================================================
