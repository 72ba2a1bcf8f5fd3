----------------------------- MODULE LiveRuntime -----------------------------
(***************************************************************************)
(* The live release-manager runtime: one governed publication, asked for   *)
(* by a model over the network, approved by a human in another process     *)
(* epoch, and sealed with an evaluation of the whole trace.                *)
(*                                                                         *)
(* A process is one call of run_live or resume_live.  Every durable write  *)
(* is an action of its own and a crash may fall between any two of them.   *)
(* Digests, signatures and the policy material are exact throughout; token *)
(* and cost totals are one counter.  The publication goes through the      *)
(* exact-replay ledger of the execution engine.                            *)
(***************************************************************************)
EXTENDS AgentRunStore, SequencesExt, FiniteSets

CONSTANTS
    Processes,
    Setups,          \* live setups, each with its own readiness
    MaxDispatches, MaxTurns, MaxTokens,
    Deadline,        \* run_deadline, 300 seconds after the start
    ApprovalTtl,
    AuthorityUntil,  \* valid_until of the delegation, not before the deadline
    Answers,         \* what the provider may answer
    Usages,          \* tokens one answer may use
    Signers,         \* "sealed", the approver the policy names, and others
    MaxEpoch, MaxNow, MaxCrashes

ASSUME AuthorityAssumption == Deadline \in Nat /\ AuthorityUntil \in Nat /\ Deadline <= AuthorityUntil

VARIABLES
    me,      \* me[p]: where the call is and what it holds
    lease,   \* the process that holds the workspace's execution lease
    now,
    ledger,  \* ledger[r]: the exact-replay claim of the run's publication
    effects, \* effects[r]: entries into the publication handler
    sends,   \* sends[r]: the attempts whose request went out, in order
    crashes

ghosts == <<now, ledger, effects, sends, crashes>>
localVars == <<me, lease, ghosts>>
liveVars == <<storeVars, localVars>>

Step1 == <<1, 1>>

ApprovalOf(r) == r

-----------------------------------------------------------------------------
(* LiveRuntimeState. *)

\* A request is told by its input and by the response it continues.
NewAttempt(turn, retry, epoch, req) ==
    [turn |-> turn, retry |-> retry, epoch |-> epoch, req |-> req, st |-> "prepared",
     sent |-> FALSE, decision |-> "none", use |-> 0]

\* pending is empty or the epoch and the expiry of the approval request.
InitialLive(epoch) ==
    [epoch |-> epoch, attempts |-> <<>>, dispatches |-> 0, turns |-> 0, retries |-> 0,
     tools |-> 0, mutations |-> 0, tokens |-> 0, cursor |-> 0, input |-> "goal",
     pending |-> <<>>, final |-> "none", error |-> "none"]

RetryStates == {"failed_retryable", "rejected_retryable"}

Having(s, states) == {i \in DOMAIN s.attempts : s.attempts[i].st \in states}

Largest(S) == IF S = {} THEN 0 ELSE CHOOSE i \in S : \A j \in S : j <= i

CommittedBefore(s, i) == {j \in Having(s, {"committed"}) : j < i}

Use(s) == FoldLeft(LAMBDA sum, a : sum + IF a.st = "committed" THEN a.use ELSE 0, 0, s.attempts)

LastDecision(s) ==
    LET last == Largest(Having(s, {"committed"})) IN
    IF last = 0 THEN "none" ELSE s.attempts[last].decision

\* live_request asks with the goal of the policy, continuation_live_request with the
\* output of the publication; both continue the response the cursor stands at.
GoalRequest(s) == <<"goal", s.cursor>>

Continuation(s) == <<"output", s.cursor>>

\* request_from_live_state: a request is determined by the input and the cursor.
RequestOf(s) == IF s.input = "goal" THEN GoalRequest(s) ELSE Continuation(s)

\* validate_persisted_live_state, the evidence sealed at the start: the delegation
\* outlives the run.  The rest of it never changes and is left out.
EvidenceHolds == Deadline <= AuthorityUntil

\* The same, attempt by attempt: its request ...
RequestHolds(s, i) ==
    LET a == s.attempts[i]
        before == CommittedBefore(s, i)
    IN
    /\ a.turn = Cardinality(before) + 1
    /\ a.req[2] = Largest(before)
    /\ i = 1 => a.req[1] = "goal"

\* ... its response, there when and only when the state says so ...
ResponseHolds(a) ==
    /\ a.st = "prepared" => ~a.sent
    /\ a.st \in {"dispatching", "response_received", "committed"} => a.sent
    /\ a.st \in {"response_received", "committed"} => a.decision # "none"
    /\ a.st \in {"prepared", "dispatching"} => a.decision = "none"

\* ... its failure ...
FailureHolds(a) ==
    a.st \in RetryStates \cup {"failed_terminal", "ambiguous"} =>
        /\ a.decision = "none"
        /\ a.st # "failed_terminal" => a.sent

\* ... and what it retries, which is the attempt just before it.
RetryHolds(s, i) ==
    LET a == s.attempts[i] IN
    /\ a.retry # 0 =>
           /\ a.retry \in Having(s, RetryStates) /\ a.retry < i
           /\ s.attempts[a.retry].turn = a.turn /\ s.attempts[a.retry].req = a.req
    /\ i - 1 \in Having(s, RetryStates) => a.retry = i - 1

\* validate_persisted_live_state, the counters and the outcome.
ValidState(s) ==
    /\ EvidenceHolds
    /\ \A i \in DOMAIN s.attempts :
           /\ RequestHolds(s, i) /\ RetryHolds(s, i)
           /\ ResponseHolds(s.attempts[i]) /\ FailureHolds(s.attempts[i])
    /\ s.dispatches = Cardinality({i \in DOMAIN s.attempts : s.attempts[i].sent})
    /\ s.turns = Cardinality(Having(s, {"committed"}))
    /\ s.retries = Cardinality(Having(s, RetryStates)) /\ s.retries <= 1
    /\ s.tokens = Use(s)
    /\ s.cursor = Largest(Having(s, {"committed"}))
    /\ s.tools <= 1 /\ s.mutations <= s.tools
    /\ s.pending # <<>> =>
           /\ s.tools = 1 /\ s.mutations = 0
           /\ LastDecision(s) = "tool" /\ s.pending[2] <= Deadline
    /\ s.tools = 0 => s.input = "goal"
    /\ s.mutations = 1 => s.input = "output" /\ s.pending = <<>>
    /\ s.final # "none" => s.mutations = 1 /\ s.error = "none"

AttemptMoves ==
    {"prepared"} \X {"dispatching", "failed_terminal"}
      \cup {"dispatching"} \X ({"response_received", "failed_terminal", "ambiguous"} \cup RetryStates)
      \cup {<<"response_received", "committed">>}

\* validated_live_state_history: what one checkpoint may change in the previous one,
\* when the epochs before it are known.
Follows(s, t, epochs) ==
    /\ Len(s.attempts) <= Len(t.attempts)
    /\ s.dispatches <= t.dispatches /\ s.turns <= t.turns /\ s.retries <= t.retries
    /\ s.tools <= t.tools /\ s.mutations <= t.mutations /\ s.tokens <= t.tokens
    /\ s.error \in {"none", t.error}
    /\ s.final \in {"none", t.final}
    /\ \A i \in DOMAIN s.attempts :
           LET a == s.attempts[i]
               b == t.attempts[i]
           IN
           /\ a.st = b.st \/ <<a.st, b.st>> \in AttemptMoves
           /\ a.turn = b.turn /\ a.retry = b.retry /\ a.epoch = b.epoch /\ a.req = b.req
           /\ a.sent => b.sent
           /\ a.decision \in {"none", b.decision}
    /\ \A i \in DOMAIN t.attempts :
           IF i \in DOMAIN s.attempts THEN t.attempts[i].epoch \in epochs
           ELSE t.attempts[i].epoch = t.epoch

Latest(r) == checkpoints[r][Len(checkpoints[r])]

EpochsOf(r) == {checkpoints[r][n].epoch : n \in DOMAIN checkpoints[r]}

\* live_epoch_seen.
EpochSeen(r, e) ==
    \/ e \in EpochsOf(r)
    \/ \E n \in DOMAIN events[r] : events[r][n].epoch = e

Event(kind, n, what, epoch, at) ==
    [kind |-> kind, n |-> n, what |-> what, epoch |-> epoch, at |-> at]

Plain(kind) == Event(kind, 0, "none", 0, 0)

OfKind(r, kind) == SelectSeq(events[r], LAMBDA e : e.kind = kind)

-----------------------------------------------------------------------------
(* Processes and their durable writes. *)

Idle ==
    [pc |-> "idle", run |-> None, epoch |-> 0, row |-> NoRun, st |-> InitialLive(0),
     step |-> NoStep, what |-> "none", use |-> 0, sealed |-> FALSE, due |-> "no"]

LiveInit ==
    /\ TraceInit
    /\ me = [p \in Processes |-> Idle]
    /\ lease = None
    /\ now = 0
    /\ ledger = [r \in Runs |-> "free"]
    /\ effects = [r \in Runs |-> 0]
    /\ sends = [r \in Runs |-> <<>>]
    /\ crashes = 0

To(m, pc) == [m EXCEPT !.pc = pc]

\* A call that ends gives the lease back.
Go(p, m) ==
    /\ me' = [me EXCEPT ![p] = m]
    /\ lease' = IF m.pc = "idle" /\ lease = p THEN None ELSE lease

Keep(p, m) == Go(p, m) /\ UNCHANGED <<storeVars, ghosts>>

Refuse(p) == Go(p, Idle) /\ UNCHANGED storeVars

PutRun(p, row, next) ==
    LET r == me[p].run IN
    /\ IF Writable(r) /\ RunFollows(r, row)
       THEN SaveRun(r, row) /\ Go(p, [next EXCEPT !.row = row])
       ELSE Refuse(p)
    /\ UNCHANGED ghosts

PutStep(p, row, next) ==
    LET r == me[p].run IN
    /\ IF Writable(r) /\ BindingHolds(r, Step1, row) /\ StepFollows(r, Step1, row)
       THEN SaveStep(r, Step1, row) /\ Go(p, [next EXCEPT !.step = row])
       ELSE Refuse(p)
    /\ UNCHANGED ghosts

\* save_live_state_checkpoint: the prospective history is validated, then appended
\* at the tail that was read; outside a change of epoch the tail is of this epoch.
PutState(p, state, next) ==
    LET r == me[p].run IN
    /\ IF /\ Latest(r).epoch = state.epoch
          /\ ValidState(state) /\ Follows(Latest(r), state, EpochsOf(r))
          /\ Writable(r)
       THEN /\ AppendCheckpoint(r, Len(checkpoints[r]), Latest(r), state)
            /\ Go(p, [next EXCEPT !.st = state])
       ELSE Refuse(p)
    /\ UNCHANGED ghosts

PutEvent(p, event, next) ==
    LET r == me[p].run IN
    /\ IF Writable(r) /\ EventFits(runs[r].status, event.kind)
       THEN SaveEvent(r, Len(events[r]), event) /\ Go(p, next)
       ELSE Refuse(p)
    /\ UNCHANGED ghosts

\* ensure_exact_live_event: one event of the kind, appended if it is missing.
EnsureEvent(p, event, next) ==
    LET found == OfKind(me[p].run, event.kind) IN
    IF found = <<>> THEN PutEvent(p, event, next)
    ELSE Keep(p, IF Len(found) = 1 THEN next ELSE Idle)

\* The state is saved with an error and the run then fails with an event of the kind.
Fails(m, state, error, kind) ==
    [m EXCEPT !.pc = "error", !.st = [state EXCEPT !.error = error, !.final = "none"],
              !.what = kind]

LastIs(state, st) == [state EXCEPT !.attempts[Len(state.attempts)].st = st]

Overdue == now >= Deadline

-----------------------------------------------------------------------------
(* Starting and resuming. *)

\* start_live: the claim is atomic and comes before the lease.
Start(p, r, setup) ==
    /\ me[p].pc = "idle"
    /\ now < Deadline
    /\ ClaimLiveStart(r, setup, setup, InitialLive(1), Event("started", 0, "none", 1, 0))
    /\ Go(p, [Idle EXCEPT !.pc = "lease", !.run = r, !.epoch = 1, !.st = InitialLive(1),
                          !.row = RunTo(NewRun, "running")])
    /\ UNCHANGED ghosts

\* start_live after its claim: when the lease is busy the claim stays as it is;
\* otherwise the claimed trace is reread and must still be exact.
TakeLease(p) ==
    LET m == me[p]
        exact == runs[m.run] = m.row /\ checkpoints[m.run] = <<m.st>> /\ Len(events[m.run]) = 1
    IN
    /\ m.pc = "lease"
    /\ IF lease = None /\ exact
       THEN me' = [me EXCEPT ![p] = To(m, "turn")] /\ lease' = p
       ELSE Go(p, Idle)
    /\ UNCHANGED <<storeVars, ghosts>>

Ended(r, kinds) == {n \in DOMAIN events[r] : events[r][n].kind \in kinds}

\* sealed_live_terminal_trace: sealed, open, or refused.
SealOf(r) ==
    LET done == Ended(r, {"completed"})
        bad == Ended(r, {"failed", "budget_exceeded"})
    IN
    CASE runs[r].status = "succeeded" /\ done # {} ->
           IF Cardinality(done) = 1 /\ bad = {} /\ Latest(r).final # "none" THEN "sealed" ELSE "wrong"
      [] runs[r].status = "failed" /\ bad # {} ->
           IF Cardinality(bad) = 1 /\ done = {} /\ Latest(r).error # "none" THEN "sealed" ELSE "wrong"
      [] runs[r].status = "cancelled" -> "wrong"
      [] OTHER -> IF done = {} /\ bad = {} THEN "open" ELSE "wrong"

\* What a resume finds that calls for an end of the run.
Due(r) ==
    IF Overdue THEN "overdue" ELSE IF decisions[ApprovalOf(r)] # None THEN "decided" ELSE "no"

\* validate_live_setup at the time of a resume: the material is exact, and the
\* delegation has to be valid still.
SetupHolds == now <= AuthorityUntil

\* validate_live_state_material: a resume brings what was sealed, under an epoch that
\* is not the one the state was written in.
MaterialHolds(s, e) == s.epoch # e

\* resume_live up to its first write: the lease, the delegation, an epoch nobody has
\* seen, and whether the trace is sealed.  Every refusal here writes nothing.
Resume(p, r, e) ==
    LET m == [Idle EXCEPT !.run = r, !.epoch = e, !.row = runs[r], !.st = Latest(r), !.due = Due(r)]
        seal == SealOf(r)
    IN
    /\ me[p].pc = "idle" /\ lease = None /\ runs[r].status # "absent" /\ SetupHolds
    /\ MaterialHolds(Latest(r), e) /\ ~EpochSeen(r, e)
    /\ seal # "wrong"
    /\ lease' = p
    /\ me' = [me EXCEPT ![p] =
                 IF seal = "sealed" THEN [m EXCEPT !.pc = "terminal", !.sealed = TRUE]
                 ELSE To(m, "epoch")]
    /\ UNCHANGED <<storeVars, ghosts>>

\* save_live_resume_epoch: on the state that was read, or not at all.
EpochBarrier(p) ==
    LET m == me[p]
        state == [m.st EXCEPT !.epoch = m.epoch]
    IN
    /\ m.pc = "epoch"
    /\ IF Latest(m.run) = m.st /\ Writable(m.run)
       THEN /\ AppendCheckpoint(m.run, Len(checkpoints[m.run]), m.st, state)
            /\ Go(p, [m EXCEPT !.pc = "route", !.st = state])
       ELSE Refuse(p)
    /\ UNCHANGED ghosts

\* exact_approval_resumed_event: one event, of the epoch that was current.
ResumedIsExact(r) ==
    LET resumed == OfKind(r, "approval_resumed") IN
    /\ Len(resumed) = 1
    /\ checkpoints[r][resumed[1].at].epoch = resumed[1].epoch

\* exact_model_requested_event, exact_committed_event: one event names the attempt,
\* and an answer says the decision that was committed.
NamedOnce(es, i) == Cardinality({n \in DOMAIN es : es[n].n = i}) = 1

AnsweredOnce(es, i, decision) ==
    NamedOnce(es, i) /\ \A n \in DOMAIN es : es[n].n = i => es[n].what = decision

RequestsAreExact(r, s) ==
    LET requested == OfKind(r, "model_requested") IN
    /\ Len(requested) = s.dispatches
    /\ \A i \in DOMAIN s.attempts : s.attempts[i].sent => NamedOnce(requested, i)

ResponsesAreExact(r, s) ==
    LET responded == OfKind(r, "model_responded") IN
    /\ Len(responded) = Cardinality(Having(s, {"committed"}))
    /\ \A i \in Having(s, {"committed"}) : AnsweredOnce(responded, i, s.attempts[i].decision)

\* Mutant of Fault: an attempt that may be on the wire is not looked for.
FaultLessDoubt(r, s) == IF ResponsesAreExact(r, s) THEN "none" ELSE "response events"

\* What resume_live takes for a reason to fail the run, in its order.
Fault(r, s) ==
    CASE Having(s, {"dispatching", "response_received"}) # {} -> "in doubt"
      [] ~RequestsAreExact(r, s) -> "request events"
      [] ~ResponsesAreExact(r, s) -> "response events"
      [] s.pending # <<>> /\ LastDecision(s) # "tool" -> "pending"
      [] s.pending # <<>> /\ OfKind(r, "approval_resumed") # <<>> /\ ~ResumedIsExact(r) ->
           "resume event"
      [] OTHER -> "none"

Pristine(s) == s = InitialLive(s.epoch)

\* validate_pristine_live_start_recovery.
PristineIsExact(r) ==
    /\ runs[r] = RunTo(NewRun, "running")
    /\ \A n \in DOMAIN checkpoints[r] : Pristine(checkpoints[r][n])
    /\ Cardinality(EpochsOf(r)) = Len(checkpoints[r])
    /\ Len(events[r]) = 1 /\ evaluations[r] = <<>> /\ steps[r][Step1] = NoStep

\* The rest of resume_live: where an open trace goes on.
Route(p) ==
    LET m == me[p]
        s == m.st
        last == s.attempts[Len(s.attempts)].st
        decision == LastDecision(s)
    IN
    /\ m.pc = "route"
    /\ Keep(p,
         CASE s.error # "none" \/ Terminal(m.row.status) -> To(m, "terminal")
           [] Fault(m.run, s) # "none" -> Fails(m, s, Fault(m.run, s), "failed")
           [] Pristine(s) -> IF PristineIsExact(m.run) THEN To(m, "turn") ELSE Idle
           [] last = "prepared" \/ last \in RetryStates -> To(m, "turn")
           [] s.pending # <<>> -> [m EXCEPT !.pc = "askRequest", !.what = "resume"]
           [] decision \in {"tool", "othertool"} /\ s.mutations = 0 /\ s.input = "goal" -> To(m, "ask")
           [] decision \in {"report", "finish"} /\ s.mutations = 1 ->
                [m EXCEPT !.pc = "terminal", !.st = [s EXCEPT !.final = decision]]
           [] s.input # "output" \/ s.mutations # 1 -> Fails(m, s, "undecided", "failed")
           [] steps[m.run][Step1].status # "succeeded" -> Fails(m, s, "step", "failed")
           [] OTHER -> To(m, "toolOk"))

-----------------------------------------------------------------------------
(* One model turn. *)

\* prepare_and_dispatch_live up to a prepared attempt, which a crash leaves for the
\* next process to take as it is.
Turn(p) ==
    LET m == me[p]
        s == m.st
        n == Len(s.attempts)
        last == IF n = 0 THEN "none" ELSE s.attempts[n].st
        retry == IF last \in RetryStates THEN n ELSE 0
        fresh == [s EXCEPT !.attempts =
                     Append(s.attempts, NewAttempt(s.turns + 1, retry, s.epoch, RequestOf(s)))]
    IN
    /\ m.pc = "turn"
    /\ IF Overdue THEN Keep(p, Fails(m, s, "deadline", "budget_exceeded"))
       ELSE IF s.dispatches >= MaxDispatches \/ s.turns >= MaxTurns
       THEN Keep(p, Fails(m, s, "limit", "budget_exceeded"))
       ELSE IF last = "prepared"
       THEN Keep(p, IF s.attempts[n].req = RequestOf(s) THEN To(m, "gateway")
                    ELSE Fails(m, s, "drift", "failed"))
       ELSE PutState(p, fresh, To(m, "gateway"))

\* The gateway is built for the attempt, or cannot be.
Gateway(p) ==
    LET m == me[p] IN
    /\ m.pc = "gateway"
    /\ \/ Keep(p, To(m, "barrier"))
       \/ Keep(p, Fails(m, LastIs(m.st, "failed_terminal"), "gateway", "failed"))

\* The attempt is checkpointed as dispatching before a byte goes out ...
Barrier(p) ==
    LET m == me[p]
        s == LastIs(m.st, "dispatching")
    IN
    /\ m.pc = "barrier"
    /\ PutState(p, [s EXCEPT !.dispatches = s.dispatches + 1,
                             !.attempts[Len(s.attempts)].sent = TRUE], To(m, "request"))

\* ... and so is the event ...
Request(p) ==
    LET m == me[p] IN
    /\ m.pc = "request"
    /\ PutEvent(p, Event("model_requested", Len(m.st.attempts), "none", m.epoch, 0), To(m, "send"))

\* record_live_gateway_failure.
Retry(m, st) ==
    IF m.st.retries >= 1
    THEN Fails(m, LastIs(m.st, "failed_terminal"), "retries", "failed")
    ELSE [m EXCEPT !.pc = "retry", !.st = [LastIs(m.st, st) EXCEPT !.retries = 1]]

AfterAnswer(m, answer, use) ==
    CASE answer = "no bytes" -> Retry(m, "failed_retryable")
      [] answer = "429" -> Retry(m, "rejected_retryable")
      [] answer = "rejected" -> Fails(m, LastIs(m.st, "failed_terminal"), "rejected", "failed")
      [] answer = "lost" -> Fails(m, LastIs(m.st, "ambiguous"), "lost", "failed")
      [] OTHER -> [m EXCEPT !.pc = "answer", !.what = answer, !.use = use]

\* ... and only when both are read back, the request is sent.
Send(p, answer, use) ==
    LET m == me[p]
        r == m.run
    IN
    /\ m.pc = "send"
    /\ IF Latest(r) = m.st /\ RequestsAreExact(r, m.st)
       THEN /\ sends' = [sends EXCEPT ![r] = Append(sends[r], Len(m.st.attempts))]
            /\ Go(p, AfterAnswer(m, answer, use))
       ELSE sends' = sends /\ Go(p, Idle)
    /\ UNCHANGED <<storeVars, now, ledger, effects, crashes>>

SaveRetry(p) == me[p].pc = "retry" /\ PutState(p, me[p].st, To(me[p], "turn"))

Received(s, decision, use) ==
    [LastIs(s, "response_received") EXCEPT !.attempts[Len(s.attempts)].decision = decision,
                                           !.attempts[Len(s.attempts)].use = use]

\* commit_live_response: the checks in their order, then the answer as received.
Answer(p) ==
    LET m == me[p]
        s == m.st
        bad == LastIs(s, "failed_terminal")
    IN
    /\ m.pc = "answer"
    /\ IF Overdue THEN Keep(p, Fails(m, bad, "deadline", "budget_exceeded"))
       ELSE IF m.what = "other model" THEN Keep(p, Fails(m, bad, "other model", "failed"))
       ELSE IF s.tokens + m.use > MaxTokens THEN Keep(p, Fails(m, bad, "tokens", "budget_exceeded"))
       ELSE IF m.what = "malformed" THEN Keep(p, Fails(m, LastIs(s, "ambiguous"), "malformed", "failed"))
       ELSE PutState(p, Received(s, m.what, m.use), To(m, "commit"))

Commit(p) ==
    LET m == me[p]
        s == LastIs(m.st, "committed")
    IN
    /\ m.pc = "commit"
    /\ PutState(p, [s EXCEPT !.tokens = s.tokens + m.use, !.turns = s.turns + 1,
                             !.cursor = Len(s.attempts)], To(m, "respond"))

Respond(p) ==
    LET m == me[p] IN
    /\ m.pc = "respond"
    /\ PutEvent(p, Event("model_responded", Len(m.st.attempts), m.what, m.epoch, 0), To(m, "branch"))

Branch(p) ==
    LET m == me[p] IN
    /\ m.pc = "branch"
    /\ Keep(p, IF m.what \in {"tool", "othertool"} THEN To(m, "ask")
               ELSE IF m.st.mutations # 1 THEN Fails(m, m.st, "early finish", "failed")
               ELSE [m EXCEPT !.pc = "terminal", !.st = [m.st EXCEPT !.final = m.what]])

-----------------------------------------------------------------------------
(* Asking for the approval. *)

Earliest(i, j) == IF i <= j THEN i ELSE j

\* wait_live_approval: the whole intent is checkpointed before any of it is written.
Ask(p) ==
    LET m == me[p]
        s == m.st
    IN
    /\ m.pc = "ask"
    /\ IF Overdue THEN Keep(p, Fails(m, s, "deadline", "budget_exceeded"))
       ELSE IF s.tools >= 1 \/ s.pending # <<>> THEN Keep(p, Fails(m, s, "second call", "failed"))
       ELSE IF LastDecision(s) # "tool" THEN Keep(p, Fails(m, s, "arguments", "failed"))
       ELSE PutState(p, [s EXCEPT !.tools = 1,
                                  !.pending = <<s.epoch, Earliest(now + ApprovalTtl, Deadline)>>],
                     [m EXCEPT !.pc = "askRequest", !.what = "ask"])

\* persist_exact_live_approval_request.
AskRequest(p) ==
    LET m == me[p]
        a == ApprovalOf(m.run)
        next == To(m, "askStep")
    IN
    /\ m.pc = "askRequest"
    /\ IF requests[a] # None THEN Go(p, next) /\ UNCHANGED storeVars
       ELSE IF ApprovalIsOpen(a) THEN SaveRequest(a, m.st.pending[2]) /\ Go(p, next)
       ELSE Refuse(p)
    /\ UNCHANGED ghosts

\* materialize_live_step_intent: pending, running and waiting, each saved when it is
\* the next one missing.
AskStep(p) ==
    LET m == me[p]
        step == steps[m.run][Step1]
    IN
    /\ m.pc = "askStep"
    /\ IF step = NoStep THEN PutStep(p, NewStep, m)
       ELSE IF step.status = "pending" THEN PutStep(p, StepTo(step, "running"), m)
       ELSE IF step.status = "running" /\ step.approval = None
       THEN PutStep(p, StepWaits(step, ApprovalOf(m.run)), m)
       ELSE Keep(p, IF m.what = "ask" /\ step.status # "waiting" THEN Idle
                    ELSE [m EXCEPT !.pc = "askRun", !.step = step])

AskRun(p) ==
    LET m == me[p]
        next == To(m, "askTool")
    IN
    /\ m.pc = "askRun"
    /\ IF m.what = "ask" \/ (m.row.status = "running" /\ m.step.status = "waiting")
       THEN PutRun(p, RunTo(m.row, "waiting"), next)
       ELSE Keep(p, next)

AskTool(p) ==
    me[p].pc = "askTool" /\ EnsureEvent(p, Plain("tool_requested"), To(me[p], "askEvent"))

AskEvent(p) ==
    LET m == me[p] IN
    /\ m.pc = "askEvent"
    /\ EnsureEvent(p, Event("approval_required", 0, "none", m.st.pending[1], 0),
                   IF m.what = "ask" THEN Idle ELSE To(m, "approval"))

-----------------------------------------------------------------------------
(* Taking the decision up. *)

\* exact_approval_resumed_chronology: asked for once, decided after that, resumed
\* after that, in another epoch.
ChronologyHolds(r) ==
    LET required == OfKind(r, "approval_required")
        resumed == OfKind(r, "approval_resumed")
    IN
    /\ ResumedIsExact(r)
    /\ Len(required) = 1
    /\ decisions[ApprovalOf(r)].asked
    /\ required[1].epoch # resumed[1].epoch

\* Mutant of Approval: a denial is left for another resume.
ApprovalLeftOpen(p) ==
    LET m == me[p]
        s == m.st
        decision == decisions[ApprovalOf(m.run)]
        next == To(m, "resumeRun")
    IN
    /\ m.pc = "approval"
    /\ IF Overdue THEN Keep(p, Fails(m, s, "deadline", "budget_exceeded"))
       ELSE IF decision = None THEN Keep(p, Idle)
       ELSE IF decision.by # "sealed" THEN Keep(p, Fails(m, s, "signer", "failed"))
       ELSE IF decision.outcome = "denied" THEN Keep(p, Idle)
       ELSE IF OfKind(m.run, "approval_resumed") # <<>> /\ ~ChronologyHolds(m.run)
       THEN Keep(p, Fails(m, s, "chronology", "failed"))
       ELSE IF m.step.status = "waiting" THEN PutStep(p, StepTo(m.step, "running"), next)
       ELSE Keep(p, IF m.step.status \in {"running", "succeeded"} THEN next
                    ELSE Fails(m, s, "step", "failed"))

\* resume_live_approval from the deadline to the resumed step.
Approval(p) ==
    LET m == me[p]
        s == m.st
        decision == decisions[ApprovalOf(m.run)]
        next == To(m, "resumeRun")
    IN
    /\ m.pc = "approval"
    /\ IF Overdue THEN Keep(p, Fails(m, s, "deadline", "budget_exceeded"))
       ELSE IF decision = None THEN Keep(p, Idle)
       ELSE IF decision.by # "sealed" THEN Keep(p, Fails(m, s, "signer", "failed"))
       ELSE IF decision.outcome = "denied" THEN Keep(p, Fails(m, s, "denied", "failed"))
       ELSE IF OfKind(m.run, "approval_resumed") # <<>> /\ ~ChronologyHolds(m.run)
       THEN Keep(p, Fails(m, s, "chronology", "failed"))
       ELSE IF m.step.status = "waiting" THEN PutStep(p, StepTo(m.step, "running"), next)
       ELSE Keep(p, IF m.step.status \in {"running", "succeeded"} THEN next
                    ELSE Fails(m, s, "step", "failed"))

ResumeRun(p) ==
    LET m == me[p] IN
    /\ m.pc = "resumeRun"
    /\ IF m.row.status = "waiting" THEN PutRun(p, RunTo(m.row, "running"), To(m, "resumed"))
       ELSE Keep(p, IF m.row.status = "running" THEN To(m, "resumed")
                    ELSE Fails(m, m.st, "run", "failed"))

Resumed(p) ==
    LET m == me[p]
        next == To(m, "chronology")
    IN
    /\ m.pc = "resumed"
    /\ IF OfKind(m.run, "approval_resumed") # <<>> THEN Keep(p, next)
       ELSE PutEvent(p, Event("approval_resumed", 0, "none", m.epoch, Len(checkpoints[m.run])), next)

Chronology(p) ==
    LET m == me[p] IN
    /\ m.pc = "chronology"
    /\ Keep(p, IF ChronologyHolds(m.run) THEN To(m, "execute")
               ELSE Fails(m, m.st, "chronology", "failed"))

\* The recorded execution, or the engine: the grant is verified against the clock,
\* then the replay ledger is asked.
Execute(p) ==
    LET m == me[p]
        r == m.run
        claim == ledger[r] = "free" /\ now <= requests[ApprovalOf(r)]
    IN
    /\ m.pc = "execute"
    /\ ledger' = IF executions[ApprovalOf(r)] = None /\ claim
                 THEN [ledger EXCEPT ![r] = "claimed"] ELSE ledger
    /\ Go(p, IF executions[ApprovalOf(r)] # None THEN To(m, "stepOk")
             ELSE IF claim THEN To(m, "publish")
             ELSE IF now <= requests[ApprovalOf(r)] /\ ledger[r] = "done" THEN To(m, "execution")
             ELSE Fails(m, m.st, "publication", "failed"))
    /\ UNCHANGED <<storeVars, now, effects, sends, crashes>>

\* The handler: it publishes, or fails and settles the claim as failed.
Publish(p) ==
    LET m == me[p] IN
    /\ m.pc = "publish"
    /\ \/ /\ effects' = [effects EXCEPT ![m.run] = effects[m.run] + 1]
          /\ ledger' = ledger
          /\ Go(p, To(m, "record"))
       \/ /\ ledger' = [ledger EXCEPT ![m.run] = "failed"]
          /\ effects' = effects
          /\ Go(p, Fails(m, m.st, "publication", "failed"))
    /\ UNCHANGED <<storeVars, now, sends, crashes>>

Record(p) ==
    LET m == me[p] IN
    /\ m.pc = "record"
    /\ ledger' = [ledger EXCEPT ![m.run] = "done"]
    /\ Go(p, To(m, "execution"))
    /\ UNCHANGED <<storeVars, now, effects, sends, crashes>>

SavesExecution(p) ==
    LET m == me[p]
        a == ApprovalOf(m.run)
    IN
    /\ m.pc = "execution"
    /\ IF ApprovalIsOpen(a) THEN SaveExecution(a, "published") /\ Go(p, To(m, "stepOk"))
       ELSE Refuse(p)
    /\ UNCHANGED ghosts

StepOk(p) ==
    LET m == me[p]
        next == To(m, "continue")
    IN
    /\ m.pc = "stepOk"
    /\ IF m.step.status = "running" THEN PutStep(p, StepSucceeds(m.step, "valid"), next)
       ELSE Keep(p, next)

\* The continuation: past the deadline the state with the error still has the goal as
\* its input.
Continue(p) ==
    LET m == me[p]
        s == [m.st EXCEPT !.pending = <<>>, !.mutations = 1, !.cursor = Len(m.st.attempts)]
    IN
    /\ m.pc = "continue"
    /\ IF Overdue THEN Keep(p, Fails(m, s, "deadline", "budget_exceeded"))
       ELSE PutState(p, [s EXCEPT !.input = "output"], To(m, "toolOk"))

ToolOk(p) == me[p].pc = "toolOk" /\ EnsureEvent(p, Plain("tool_succeeded"), To(me[p], "turn"))

-----------------------------------------------------------------------------
(* Ending a run. *)

SaveError(p) == me[p].pc = "error" /\ PutState(p, me[p].st, To(me[p], "failRun"))

\* fail_live_run.
FailRun(p) ==
    LET m == me[p]
        next == To(m, "failEvent")
    IN
    /\ m.pc = "failRun"
    /\ IF Terminal(m.row.status) THEN Keep(p, next) ELSE PutRun(p, RunTo(m.row, "failed"), next)

\* ensure_live_failure_terminal_event: the event that is there keeps its kind.
FailEvent(p) ==
    LET m == me[p]
        found == Ended(m.run, {"failed", "budget_exceeded"})
        next == To(m, "evaluate")
    IN
    /\ m.pc = "failEvent"
    /\ IF found = {} THEN PutEvent(p, Plain(m.what), next)
       ELSE Keep(p, IF Cardinality(found) = 1 THEN next ELSE Idle)

\* The report says exactly what was published.
ReportIsExact(s) == s.final = "report"

\* valid_live_terminal: one succeeded step, its execution recorded, an engine replay
\* that returns the recorded outcome, and the report.
TerminalIsValid(m) ==
    /\ m.row.status \in {"running", "succeeded"}
    /\ m.st.mutations = 1
    /\ steps[m.run][Step1].status = "succeeded"
    /\ executions[ApprovalOf(m.run)] # None
    /\ ledger[m.run] = "done"
    /\ ReportIsExact(m.st)

\* live_evaluation, the checks that depend on the trace.  Every request continues the
\* response committed before it.
RequestsHold(s) ==
    \A i \in DOMAIN s.attempts : s.attempts[i].req[2] = Largest(CommittedBefore(s, i))

\* Turn one asks with the goal and turn two with the output of the publication; there
\* is no third.
BoundaryHolds(s) ==
    \A i \in DOMAIN s.attempts :
        /\ s.attempts[i].turn <= 2
        /\ s.attempts[i].req[1] = IF s.attempts[i].turn = 1 THEN "goal" ELSE "output"

\* Every attempt is settled, by an answer or by the one retry, and has its events.
RecoveryHolds(r, s) ==
    /\ \A i \in DOMAIN s.attempts : s.attempts[i].st \in RetryStates \cup {"committed"}
    /\ s.turns = 2 /\ Len(s.attempts) = 2 + s.retries
    /\ RequestsAreExact(r, s) /\ ResponsesAreExact(r, s)

\* The delegation outlives the run, and the approver of the policy decided.
AuthorityHolds(r) ==
    /\ EvidenceHolds
    /\ decisions[ApprovalOf(r)] # None /\ decisions[ApprovalOf(r)].by = "sealed"

ToolIsExact(r, s) ==
    /\ Len(OfKind(r, "tool_requested")) = 1 /\ s.tools = 1
    /\ OfKind(r, "approval_resumed") # <<>> /\ ChronologyHolds(r)

\* A run that has not succeeded yet would be completed now.
BudgetsHold(s, row) ==
    /\ s.dispatches <= MaxDispatches /\ s.turns <= MaxTurns
    /\ row.status = "succeeded" \/ now <= Deadline

CostsHold(s) == s.tokens = Use(s) /\ s.tokens <= MaxTokens

EndHolds(r, s, candidate) ==
    LET completed == OfKind(r, "completed") IN
    /\ Ended(r, {"tool_failed", "failed", "budget_exceeded"}) = {}
    /\ s.final = "report" /\ s.error = "none" /\ s.mutations = 1
    /\ (candidate /\ completed = <<>>) \/ Len(completed) = 1

\* Mutant of Passes: the failed checks do not count.
PassesAnyway(r, s, row, candidate) == TRUE

Passes(r, s, row, candidate) ==
    /\ RequestsHold(s) /\ BoundaryHolds(s) /\ RecoveryHolds(r, s)
    /\ AuthorityHolds(r) /\ ToolIsExact(r, s)
    /\ BudgetsHold(s, row) /\ CostsHold(s) /\ EndHolds(r, s, candidate)

\* live_terminal_outcome up to the verification.
TerminalOutcome(p) ==
    LET m == me[p] IN
    /\ m.pc = "terminal"
    /\ Keep(p,
         IF m.st.error # "none" THEN [m EXCEPT !.pc = "failRun", !.what = "failed"]
         ELSE IF m.row.status = "running" /\ Overdue
         THEN Fails(m, m.st, "deadline", "budget_exceeded")
         ELSE IF m.st.final = "none" THEN Idle
         ELSE IF TerminalIsValid(m) THEN To(m, "verified")
         ELSE IF m.sealed THEN Idle
         ELSE Fails(m, m.st, "report", "failed"))

\* The verification took time; the outcome is then made durable.
Verified(p) ==
    LET m == me[p]
        next == To(m, "candidate")
    IN
    /\ m.pc = "verified"
    /\ IF m.row.status = "running" /\ Overdue
       THEN Keep(p, Fails(m, m.st, "deadline", "budget_exceeded"))
       ELSE IF Latest(m.run) = m.st THEN Keep(p, next)
       ELSE PutState(p, m.st, next)

\* The candidate is evaluated before the run is called a success.
Candidate(p) ==
    LET m == me[p] IN
    /\ m.pc = "candidate"
    /\ Keep(p, IF Passes(m.run, m.st, m.row, ~m.sealed) THEN To(m, "succeed")
               ELSE IF m.sealed THEN Idle
               ELSE Fails(m, m.st, "candidate", "failed"))

Succeed(p) ==
    LET m == me[p]
        next == To(m, "completed")
    IN
    /\ m.pc = "succeed"
    /\ IF m.row.status = "running" THEN PutRun(p, RunTo(m.row, "succeeded"), next)
       ELSE Keep(p, next)

Completed(p) ==
    me[p].pc = "completed" /\ EnsureEvent(p, Plain("completed"), To(me[p], "evaluate"))

\* complete_live_trace_digest: rows, and how far the append-only tables go.
TraceDigest(r) ==
    <<runs[r], steps[r][Step1], Len(checkpoints[r]), Len(events[r]), requests[ApprovalOf(r)],
      decisions[ApprovalOf(r)], executions[ApprovalOf(r)]>>

\* What live_evaluation returns: its outcome, and the trace it is about.
EvaluationOf(r, s, row) ==
    [passed |-> row.status = "succeeded" /\ Passes(r, s, row, FALSE), trace |-> TraceDigest(r)]

\* ensure_exact_live_evaluation: the one that is there must be the one computed.
Evaluate(p) ==
    LET m == me[p]
        mine == EvaluationOf(m.run, m.st, m.row)
        agrees == mine.passed = (m.row.status = "succeeded")
    IN
    /\ m.pc = "evaluate"
    /\ IF evaluations[m.run] = <<>> /\ agrees THEN SaveEvaluation(m.run, mine)
       ELSE UNCHANGED storeVars
    /\ Go(p, Idle)
    /\ UNCHANGED ghosts

-----------------------------------------------------------------------------
(* Around the runtime. *)

\* runtime_state_view: the latest state of a history that validates as a whole.
StateView(r) == Latest(r)

\* runtime_approval_context: the events say what the state says was asked and answered.
ContextIsExact(r) == RequestsAreExact(r, StateView(r)) /\ ResponsesAreExact(r, StateView(r))

\* bind_runtime_approval_context: a call is pending, and the policy names the approver.
ContextBinds(r, by) == StateView(r).pending # <<>> /\ by = "sealed"

\* sign_approval_decision: while the step is not bound yet anyone trusted may sign;
\* a bound step is decided by the approver of the policy while the run waits.  It is
\* noted whether the approval had been recorded as required.
Decide(r, outcome, by) ==
    LET a == ApprovalOf(r) IN
    /\ requests[a] # None
    /\ now <= requests[a]
    /\ BoundTo(r, a) =>
           /\ runs[r].status = "waiting" /\ steps[r][Step1].status = "waiting"
           /\ ContextIsExact(r) /\ ContextBinds(r, by)
    /\ SaveDecision(a, [outcome |-> outcome, by |-> by,
                        asked |-> OfKind(r, "approval_required") # <<>>])
    /\ UNCHANGED localVars

\* cmd_run_cancel.
Cancel(r) ==
    /\ <<runs[r].status, "cancelled">> \in RunMoves
    /\ SaveRun(r, RunTo(runs[r], "cancelled"))
    /\ UNCHANGED localVars

Tick ==
    /\ now < MaxNow
    /\ now' = now + 1
    /\ UNCHANGED <<storeVars, me, lease, ledger, effects, sends, crashes>>

\* The operating system takes the lease of a dead process back.
Crash(p) ==
    /\ me[p].pc # "idle"
    /\ crashes < MaxCrashes
    /\ crashes' = crashes + 1
    /\ Go(p, Idle)
    /\ UNCHANGED <<storeVars, now, ledger, effects, sends>>

Step(p) ==
    \/ TakeLease(p) \/ EpochBarrier(p) \/ Route(p)
    \/ Turn(p) \/ Gateway(p) \/ Barrier(p) \/ Request(p) \/ SaveRetry(p)
    \/ \E answer \in Answers, use \in Usages : Send(p, answer, use)
    \/ Answer(p) \/ Commit(p) \/ Respond(p) \/ Branch(p)
    \/ Ask(p) \/ AskRequest(p) \/ AskStep(p) \/ AskRun(p) \/ AskTool(p) \/ AskEvent(p)
    \/ Approval(p) \/ ResumeRun(p) \/ Resumed(p) \/ Chronology(p)
    \/ Execute(p) \/ Publish(p) \/ Record(p) \/ SavesExecution(p) \/ StepOk(p)
    \/ Continue(p) \/ ToolOk(p)
    \/ SaveError(p) \/ FailRun(p) \/ FailEvent(p)
    \/ TerminalOutcome(p) \/ Verified(p) \/ Candidate(p) \/ Succeed(p) \/ Completed(p)
    \/ Evaluate(p)

\* Epochs are told apart by equality only: a caller brings one of the history or a
\* new one.
OfferedEpochs(r) == 1 .. Earliest(MaxEpoch, Largest(EpochsOf(r)) + 1)

LiveNext ==
    \/ \E p \in Processes : Step(p) \/ Crash(p)
    \/ \E p \in Processes, r \in Runs, setup \in Setups : Start(p, r, setup)
    \/ \E p \in Processes, r \in Runs : \E e \in OfferedEpochs(r) : Resume(p, r, e)
    \/ \E r \in Runs, outcome \in {"approved", "denied"}, by \in Signers : Decide(r, outcome, by)
    \/ \E r \in Runs : Cancel(r)
    \/ Tick

LiveSpec == LiveInit /\ [][LiveNext]_liveVars

-----------------------------------------------------------------------------
(* Properties. *)

\* A request that may have reached the provider without a known outcome is the last
\* one of its run: no attempt is sent twice, and after one that ended in doubt
\* nothing is sent again, whatever crashes and resumes there are.
NothingSentAfterDoubt ==
    \A r \in Runs : \A n \in DOMAIN sends[r] :
        /\ \A j \in DOMAIN sends[r] : sends[r][j] = sends[r][n] => j = n
        /\ n < Len(sends[r]) =>
               Latest(r).attempts[sends[r][n]].st \in RetryStates \cup {"committed"}

\* A succeeded run has published, its execution, step and ledger agree on that, two
\* turns were committed, and nothing in its trace failed.
SuccessIsBacked ==
    \A r \in Runs : runs[r].status = "succeeded" =>
        /\ effects[r] = 1 /\ ledger[r] = "done" /\ executions[ApprovalOf(r)] = "published"
        /\ steps[r][Step1].status = "succeeded"
        /\ Latest(r).final = "report"
        /\ [i \in 1 .. 2 |-> OfKind(r, "model_responded")[i].what] = <<"tool", "report">>
        /\ \A n \in DOMAIN events[r] :
               events[r][n].kind \notin {"tool_failed", "failed", "budget_exceeded"}

Returns(p) == me[p].pc # "idle" /\ me'[p].pc = "idle" /\ crashes' = crashes

\* One resume that is not cut off is enough: when it begins after the deadline or with
\* the approval decided, the run has ended when it returns, unless the output of the
\* model had been made durable before, or the deadline passes while it is under way.
ResumeSettles ==
    [][\A p \in Processes : me[p].due # "no" /\ Returns(p) =>
           \/ Terminal(runs'[me[p].run].status)
           \/ Latest(me[p].run).final # "none"
           \/ me[p].due = "decided" /\ Overdue]_liveVars

\* The wall clock covers the run "through terminal seal": a resume that begins after
\* the deadline always ends the run.
OverdueRunEnds ==
    [][\A p \in Processes : me[p].due = "overdue" /\ Returns(p) =>
           Terminal(runs'[me[p].run].status)]_liveVars

\* Crashes at the approval boundary converge to one set of evidence: the evidence of
\* an approval is never taken for substituted.
ApprovalConverges == \A r \in Runs : runs[r].status # "absent" => Latest(r).error # "chronology"

\* A model that requests a second tool call is a stop condition: nothing is sent
\* after it.
SecondCallStops ==
    \A r \in Runs : \A n \in DOMAIN sends[r] :
        n < Len(sends[r]) =>
            ~ /\ Latest(r).attempts[sends[r][n]].decision \in {"tool", "othertool"}
              /\ Latest(r).attempts[sends[r][n]].turn = 2
=============================================================================
