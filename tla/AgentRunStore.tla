---------------------------- MODULE AgentRunStore ----------------------------
(***************************************************************************)
(* The durable trace of an agent run: the run row, its steps, checkpoints, *)
(* events and evaluations, and the signed approvals bound to its steps, as *)
(* the SQLite store keeps them.                                            *)
(*                                                                         *)
(* Every operation below is one BEGIN IMMEDIATE transaction.  A call that  *)
(* repeats a row exactly is answered without a write and a call that a     *)
(* guard refuses writes nothing; both leave the variables alone, so only   *)
(* the calls that write are operations here.                               *)
(***************************************************************************)
EXTENDS Naturals, Sequences

CONSTANTS
    Runs,      \* run identities
    Ordinals,  \* tool calls of a run
    Attempts,  \* attempts at a tool call
    Approvals, \* identities of signed approval requests
    None

ASSUME AttemptsAssumption == Attempts \subseteq Nat

VARIABLES
    runs,        \* runs[r]: the row of the run
    steps,       \* steps[r][o, a]: attempt a at the tool call with ordinal o
    checkpoints, \* checkpoints[r][n]: the checkpoint with sequence n - 1
    events,      \* events[r][n]: the event with sequence n - 1
    evaluations, \* evaluations[r]: the evaluations of the run
    requests,    \* requests[a]: the signed request
    decisions,   \* decisions[a]: its signed decision
    executions,  \* executions[a]: the recorded result of its execution
    governed,    \* the runs the operator control plane has taken over
    claims       \* the live starts: a setup and a readiness, bound to one run

approvalVars == <<requests, decisions, executions>>
storeVars ==
    <<runs, steps, checkpoints, events, evaluations, requests, decisions, executions, governed,
      claims>>

-----------------------------------------------------------------------------
(* Rows. *)

RunStatuses == {"absent", "queued", "running", "waiting", "succeeded", "failed", "cancelled"}

StepStatuses == {"absent", "pending", "running", "waiting", "succeeded", "failed", "cancelled"}

EventKinds ==
    {"started", "model_requested", "model_responded", "tool_requested", "tool_succeeded",
     "tool_failed", "approval_required", "approval_resumed", "completed", "failed",
     "budget_exceeded"}

Terminal(status) == status \in {"succeeded", "failed", "cancelled"}

RunRow == [status : RunStatuses, revision : Nat, retries : Nat]

StepRow ==
    [status : StepStatuses, revision : Nat, approval : Approvals \cup {None},
     output : {"none", "valid", "invalid"}]

NoRun == [status |-> "absent", revision |-> 0, retries |-> 0]

NoStep == [status |-> "absent", revision |-> 0, approval |-> None, output |-> "none"]

NewRun == [status |-> "queued", revision |-> 0, retries |-> 0]

NewStep == [NoStep EXCEPT !.status = "pending"]

\* AgentRun::transition.
RunMoves ==
    {"queued"} \X {"running", "cancelled"}
      \cup {"running"} \X {"waiting", "succeeded", "failed", "cancelled"}
      \cup {"waiting"} \X {"running", "failed", "cancelled"}
      \cup {"failed"} \X {"running", "cancelled"}

\* AgentRunStep::transition.
StepMoves ==
    {"pending"} \X {"running", "cancelled"}
      \cup {"running"} \X {"waiting", "succeeded", "failed", "cancelled"}
      \cup {"waiting"} \X {"running", "failed", "cancelled"}

\* start, wait_for_input, resume, succeed, fail and cancel: only resuming a failed
\* run counts a retry.
RunTo(row, status) ==
    [status |-> status, revision |-> row.revision + 1,
     retries |-> row.retries + IF row.status = "failed" /\ status = "running" THEN 1 ELSE 0]

StepTo(row, status) == [row EXCEPT !.status = status, !.revision = row.revision + 1]

\* AgentRunStep::wait_for_approval.
StepWaits(row, a) ==
    [row EXCEPT !.status = "waiting", !.revision = row.revision + 1, !.approval = a]

\* AgentRunStep::succeed: whether the output fits the operation's schema is looked
\* at later, by the runtime.
StepSucceeds(row, output) ==
    [row EXCEPT !.status = "succeeded", !.revision = row.revision + 1, !.output = output]

\* AgentRunStep::retry: a new pending row for the same tool call.
Retryable(row) == row.status \in {"failed", "cancelled"}

-----------------------------------------------------------------------------
(* Guards shared by the operations. *)

SealingEvents(status) ==
    CASE status = "succeeded" -> {"completed"}
      [] status = "failed" -> {"failed", "budget_exceeded"}
      [] OTHER -> {}

\* Mutant of Sealed: a cancelled run is not sealed.
SealedByEvent(r) ==
    \E n \in DOMAIN events[r] : events[r][n].kind \in SealingEvents(runs[r].status)

\* Mutant of Sealed: the terminal event does not seal the run.
SealedByStatus(r) == runs[r].status = "cancelled"

\* reject_if_agent_trace_sealed.
Sealed(r) ==
    \/ runs[r].status = "cancelled"
    \/ \E n \in DOMAIN events[r] : events[r][n].kind \in SealingEvents(runs[r].status)

BoundTo(r, a) == \E k \in Ordinals \X Attempts : steps[r][k].approval = a

\* reject_if_approval_is_bound_to_sealed_trace and reject_if_operator_governed_approval.
ApprovalIsOpen(a) == \A r \in Runs : BoundTo(r, a) => ~Sealed(r) /\ r \notin governed

Writable(r) == r \notin governed /\ ~Sealed(r)

\* validate_event_run_status.
EventFits(status, kind) ==
    CASE kind = "completed" -> status = "succeeded"
      [] kind \in {"failed", "budget_exceeded"} -> status = "failed"
      [] OTHER -> ~Terminal(status)

-----------------------------------------------------------------------------
(* Operations. *)

\* Mutant of RunFollows: the revision only has to grow.
RunGrows(r, row) == row.revision >= runs[r].revision

\* The optimistic revision of save_agent_run: 0 for a new row, the next otherwise.
RunFollows(r, row) ==
    row.revision = IF runs[r].status = "absent" THEN 0 ELSE runs[r].revision + 1

SaveRun(r, row) ==
    /\ Writable(r)
    /\ RunFollows(r, row)
    /\ runs' = [runs EXCEPT ![r] = row]
    /\ UNCHANGED <<steps, checkpoints, events, evaluations, approvalVars, governed, claims>>

\* A new step takes an attempt nobody has taken (UNIQUE run_id, ordinal, attempt),
\* a known one its next revision.
StepFollows(r, k, row) ==
    row.revision = IF steps[r][k].status = "absent" THEN 0 ELSE steps[r][k].revision + 1

\* The approval of a step is assigned once, and to one step only.
BindingHolds(r, k, row) ==
    /\ steps[r][k].approval \in {None, row.approval}
    /\ row.approval # None =>
           \A q \in Runs, j \in Ordinals \X Attempts :
               steps[q][j].approval = row.approval => q = r /\ j = k

SaveStep(r, k, row) ==
    /\ runs[r].status # "absent"
    /\ BindingHolds(r, k, row)
    /\ Writable(r)
    /\ StepFollows(r, k, row)
    /\ steps' = [steps EXCEPT ![r] = [steps[r] EXCEPT ![k] = row]]
    /\ UNCHANGED <<runs, checkpoints, events, evaluations, approvalVars, governed, claims>>

\* Mutant of SaveCheckpoint: the row of that sequence is replaced.
SaveCheckpointReplaces(r, n, state) ==
    /\ runs[r].status # "absent"
    /\ n <= Len(checkpoints[r])
    /\ Writable(r)
    /\ checkpoints' = [checkpoints EXCEPT ![r] = Append(SubSeq(checkpoints[r], 1, n), state)]
    /\ UNCHANGED <<runs, steps, events, evaluations, approvalVars, governed, claims>>

\* save_agent_checkpoint at the sequence that follows the n checkpoints the caller
\* has listed: refused when another checkpoint is there.
SaveCheckpoint(r, n, state) ==
    /\ runs[r].status # "absent"
    /\ n = Len(checkpoints[r])
    /\ Writable(r)
    /\ checkpoints' = [checkpoints EXCEPT ![r] = Append(checkpoints[r], state)]
    /\ UNCHANGED <<runs, steps, events, evaluations, approvalVars, governed, claims>>

\* append_agent_checkpoint when the tail is the one the caller expects.
AppendCheckpoint(r, n, tail, state) ==
    /\ n = Len(checkpoints[r])
    /\ n > 0 => checkpoints[r][n] = tail
    /\ SaveCheckpoint(r, n, state)

\* append_agent_checkpoint when the candidate is the current tail: Appended if it
\* follows the expected tail, as the retry of an append whose answer was lost.
IsExactRetry(r, n, tail, state) ==
    /\ n + 1 = Len(checkpoints[r])
    /\ checkpoints[r][n + 1] = state
    /\ n > 0 => checkpoints[r][n] = tail

\* validate_next_event_sequence.
EventFollows(r, n) == n = Len(events[r])

\* save_agent_run_event after the n events the caller has listed.
SaveEvent(r, n, event) ==
    /\ runs[r].status # "absent"
    /\ Writable(r)
    /\ EventFits(runs[r].status, event.kind)
    /\ EventFollows(r, n)
    /\ events' = [events EXCEPT ![r] = Append(events[r], event)]
    /\ UNCHANGED <<runs, steps, checkpoints, evaluations, approvalVars, governed, claims>>

\* save_agent_run_evaluation: of a run in any status; a sealed trace still takes them.
SaveEvaluation(r, evaluation) ==
    /\ runs[r].status # "absent"
    /\ r \notin governed
    /\ evaluations' = [evaluations EXCEPT ![r] = Append(evaluations[r], evaluation)]
    /\ UNCHANGED <<runs, steps, checkpoints, events, approvalVars, governed, claims>>

\* save_approval_request.
SaveRequest(a, request) ==
    /\ requests[a] = None
    /\ ApprovalIsOpen(a)
    /\ requests' = [requests EXCEPT ![a] = request]
    /\ UNCHANGED <<runs, steps, checkpoints, events, evaluations, decisions, executions>>
    /\ UNCHANGED <<governed, claims>>

\* save_approval_decision: one decision for a request.
SaveDecision(a, decision) ==
    /\ requests[a] # None
    /\ decisions[a] = None
    /\ ApprovalIsOpen(a)
    /\ decisions' = [decisions EXCEPT ![a] = decision]
    /\ UNCHANGED <<runs, steps, checkpoints, events, evaluations, requests, executions>>
    /\ UNCHANGED <<governed, claims>>

\* save_approval_execution.
SaveExecution(a, execution) ==
    /\ requests[a] # None
    /\ executions[a] = None
    /\ ApprovalIsOpen(a)
    /\ executions' = [executions EXCEPT ![a] = execution]
    /\ UNCHANGED <<runs, steps, checkpoints, events, evaluations, requests, decisions>>
    /\ UNCHANGED <<governed, claims>>

\* register_governed_run: the operator control plane takes a queued or running run
\* over, from a checkpoint of it, and the operations above refuse it from then on.
Govern(r) ==
    /\ runs[r].status \in {"queued", "running"}
    /\ checkpoints[r] # <<>>
    /\ r \notin governed
    /\ governed' = governed \cup {r}
    /\ UNCHANGED <<runs, steps, checkpoints, events, evaluations, approvalVars, claims>>

\* Neither the setup nor the readiness has a claim: a claim of both is Existing,
\* any other overlap a Conflict.
StartIsFree(setup, readiness) ==
    \A c \in claims : c.setup # setup /\ c.readiness # readiness

\* claim_live_run_start: the claim, the running run, checkpoint 0 and event 0 in
\* one transaction.
ClaimLiveStart(r, setup, readiness, state, event) ==
    /\ StartIsFree(setup, readiness)
    /\ runs[r].status = "absent"
    /\ runs' = [runs EXCEPT ![r] = RunTo(NewRun, "running")]
    /\ checkpoints' = [checkpoints EXCEPT ![r] = <<state>>]
    /\ events' = [events EXCEPT ![r] = <<event>>]
    /\ claims' = claims \cup {[setup |-> setup, readiness |-> readiness, run |-> r]}
    /\ UNCHANGED <<steps, evaluations, approvalVars, governed>>

TraceInit ==
    /\ runs = [r \in Runs |-> NoRun]
    /\ steps = [r \in Runs |-> [k \in Ordinals \X Attempts |-> NoStep]]
    /\ checkpoints = [r \in Runs |-> <<>>]
    /\ events = [r \in Runs |-> <<>>]
    /\ evaluations = [r \in Runs |-> <<>>]
    /\ requests = [a \in Approvals |-> None]
    /\ decisions = [a \in Approvals |-> None]
    /\ executions = [a \in Approvals |-> None]
    /\ governed = {}
    /\ claims = {}
=============================================================================
