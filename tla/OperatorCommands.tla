-------------------------- MODULE OperatorCommands --------------------------
(***************************************************************************)
(* The human commands of the operator control plane: approval decision,    *)
(* run cancel, run resume and session revoke, with their idempotency keys, *)
(* receipts and the audit chain, as execute_operator_command of the SQLite *)
(* store carries them out, beside the worker that drives the same run.     *)
(*                                                                         *)
(* A client drafts a command from the run detail it sees and sends it; the *)
(* network may deliver it late, again, or never, and the answer may be     *)
(* lost.  Every delivery is one Immediate transaction and so one action.   *)
(* The worker's transactions are those of OperatorStore, reduced to what a *)
(* command can see of them: lease, open reservation, run, step, approvals. *)
(***************************************************************************)
EXTENDS Integers, Sequences, FiniteSets

CONSTANTS
    Keys,          \* idempotency keys of the one enrolled human
    Sessions,      \* operator sessions of that human
    SessionEnd,    \* SessionEnd[s]: absolute_expires_at of s
    None,          \* no key
    LeaseTerm,     \* the term of a lease
    ApprovalTerm,  \* how long an approval request may be decided
    MaxClock,      \* bound: how far the trusted clock runs
    MaxRevision,   \* bound: control revisions
    MaxSent,       \* bound: commands the client drafts
    MaxAudit,      \* bound: a refusal is audited only while the chain is shorter
    ReleasePrecedesExpiry, \* does RunLease::validate want released_at < expires_at?
    CopiesDecision \* does populate_command_event copy the digest of a new decision?

ASSUME CommandsAssumption ==
    /\ None \notin Keys
    /\ SessionEnd \in [Sessions -> Nat]
    /\ {LeaseTerm, ApprovalTerm, MaxClock, MaxRevision, MaxSent, MaxAudit} \subseteq Nat
    /\ {ReleasePrecedesExpiry, CopiesDecision} \subseteq BOOLEAN

VARIABLES
    clock,       \* trusted UTC
    run,         \* the agent run: status and revision
    step,        \* its step: status, revision and the approval it waits for
    control,     \* the run control row: revision and pending directive
    tail,        \* sequence of the latest checkpoint
    leases,      \* the leases of the run, indexed by fence
    open,        \* state of the one open reservation, or "none"
    approvals,   \* approval requests of the run with their decisions, oldest first
    directives,  \* how many recovery directives were inserted
    commands,    \* commands[k]: the command and receipt stored under key k
    audit,       \* the audit chain of the workspace
    projection,  \* the latest snapshot of the run
    sent,        \* commands the client has put on the wire
    answers      \* the answers the store gave, whether they arrived or not

vars == <<clock, run, step, control, tail, leases, open, approvals, directives, commands,
          audit, projection, sent, answers>>

workerVars == <<leases, open, directives>>

clientVars == <<commands, sent, answers>>

Kinds == {"approval_decide", "run_cancel", "run_resume", "session_revoke"}

\* One command, with the revisions its binding expects; 0 where a kind has none.
Command ==
    [kind : Kinds, key : Keys, session : Sessions, run : Nat, step : Nat, control : Nat,
     tail : Nat, fence : Nat, approval : Nat, outcome : {"none", "approved", "denied"},
     directive : Nat]

Receipt ==
    [outcome : {"applied", "already_terminal"}, observed : Nat, run : Nat, control : Nat,
     sequence : Nat]

Answers == {"applied", "already_terminal", "exact_replay", "conflict", "not_actionable",
            "stale_revision", "stale_fence", "invalid", "unavailable"}

Refusals == {"not_actionable", "stale_revision", "stale_fence", "conflict"}

\* AgentRunStatus::is_terminal.
Terminal(status) == status \in {"succeeded", "failed", "cancelled"}

\* append_current_projection: attention, and the one reference it carries.
Project(theRun, ctl, cp, fence, asked) ==
    [run |-> theRun.revision, status |-> theRun.status, control |-> ctl.revision, tail |-> cp,
     fence |-> fence,
     attention |-> CASE theRun.status = "running" -> "running"
                     [] theRun.status = "waiting" -> "awaiting_decision"
                     [] theRun.status = "failed" /\ ctl.directive # 0 -> "recoverable"
                     [] OTHER -> "terminal",
     approval |-> IF theRun.status = "waiting" THEN Len(asked) ELSE 0,
     directive |-> IF theRun.status = "failed" THEN ctl.directive ELSE 0]

\* A governed run that register_governed_run has just recorded, not yet leased.
Init ==
    /\ clock = 0
    /\ run = [status |-> "running", revision |-> 1]
    /\ step = [status |-> "running", revision |-> 1, approval |-> 0]
    /\ control = [revision |-> 0, directive |-> 0]
    /\ tail = 1
    /\ leases = <<>>
    /\ open = "none"
    /\ approvals = <<>>
    /\ directives = 0
    /\ commands = [k \in Keys |-> <<>>]
    /\ audit = <<>>
    /\ projection = Project(run, control, tail, 0, approvals)
    /\ sent = {}
    /\ answers = {}

-----------------------------------------------------------------------------
(* The tables every transaction writes. *)

\* event_base with the references that the profiles of command events tell apart.
Event(kind, key, decision, directive) ==
    [kind |-> kind, key |-> key, decision |-> decision, directive |-> directive]

WorkerEvent(kind) == Event(kind, None, 0, 0)

\* populate_command_event: only a resume carries the digest of a decision, and only a
\* resume a directive.
PopulateCommandEvent(c, kind, decision) ==
    Event(kind, c.key, IF c.kind = "run_resume" \/ CopiesDecision THEN decision ELSE 0,
          IF c.kind = "run_resume" THEN c.directive ELSE 0)

\* command_shape: a resume names the decision it takes up (here by its approval).
ShapeDecision(c) == IF c.kind = "run_resume" THEN c.approval ELSE 0

\* profile_mask: which of command, decision and directive an event refers to.
ProfileMask(e) == <<e.key # None, e.decision # 0, e.directive # 0>>

\* AuditEvent::validate_chain_link: the references each kind must and must not have.
ValidProfile(e) ==
    CASE e.kind = "approval_decided" -> ProfileMask(e) = <<TRUE, TRUE, FALSE>>
      [] e.kind = "run_resumed" ->
             ProfileMask(e) \in {<<TRUE, TRUE, FALSE>>, <<TRUE, FALSE, TRUE>>}
      [] e.kind \in {"run_cancelled", "session_revoked", "command_rejected"} ->
             ProfileMask(e) = <<TRUE, FALSE, FALSE>>
      [] e.kind = "command_conflict" -> e.key # None
      [] e.kind \in {"recovery_started", "recovery_completed"} ->
             ProfileMask(e) = <<FALSE, FALSE, TRUE>>
      [] OTHER -> e.key = None /\ e.decision = 0

\* append_audit_event, once per event: the next sequence number, the digest of the head.
AppendEvents(events) ==
    /\ \A i \in DOMAIN events : ValidProfile(events[i])
    /\ audit' = audit \o events

\* The tail of every transaction that moves the run: run, step and checkpoint rows, the
\* control row with its revision bumped, and the projection of all of them.
Record(theRun, theStep, directive, cp, fence, asked) ==
    LET ctl == [revision |-> control.revision + 1, directive |-> directive] IN
    /\ control.revision < MaxRevision
    /\ run' = theRun
    /\ step' = theStep
    /\ control' = ctl
    /\ tail' = cp
    /\ approvals' = asked
    /\ projection' = Project(theRun, ctl, cp, fence, asked)

\* bump_control, update_run_control and append_current_projection alone.
Bump(fence) == Record(run, step, control.directive, tail, fence, approvals)

RunTo(status) == [status |-> status, revision |-> run.revision + 1]

StepTo(status, approval) ==
    [status |-> status, revision |-> step.revision + 1, approval |-> approval]

-----------------------------------------------------------------------------
(* The worker, as the commands see it. *)

Fence == Len(leases)

\* validate_authority: the lease of the fence is active and has not expired.
Live(f) == f \in DOMAIN leases /\ leases[f].active /\ clock < leases[f].expires

NewLease == [active |-> TRUE, expires |-> clock + LeaseTerm]

\* claim_run_lease, with no active row.
ClaimLease ==
    /\ \A f \in DOMAIN leases : ~leases[f].active
    /\ leases' = Append(leases, NewLease)
    /\ Bump(Fence + 1)
    /\ AppendEvents(<<WorkerEvent("lease_acquired")>>)
    /\ UNCHANGED <<clock, open, directives, clientVars>>

\* reserve_aggregate_budget, within the budget.
Reserve ==
    /\ Live(Fence)
    /\ open = "none"
    /\ run.status = "running"
    /\ control.directive = 0
    /\ open' = "reserved"
    /\ Bump(Fence)
    /\ AppendEvents(<<WorkerEvent("budget_reserved")>>)
    /\ UNCHANGED <<clock, leases, directives, clientVars>>

\* begin_dispatch before the deadline.
BeginDispatch ==
    /\ Live(Fence)
    /\ open = "reserved"
    /\ run.status = "running"
    /\ step.status = "running"
    /\ open' = "dispatching"
    /\ Bump(Fence)
    /\ AppendEvents(<<WorkerEvent("dispatch_authorized")>>)
    /\ UNCHANGED <<clock, leases, directives, clientVars>>

CommitEvents == <<WorkerEvent("budget_committed"), WorkerEvent("runtime_result_committed")>>

\* commit_runtime with a prepared execution that ends the run.
CommitResult ==
    /\ Live(Fence)
    /\ open = "dispatching"
    /\ run.status = "running"
    /\ open' = "none"
    /\ Record(RunTo("succeeded"), StepTo("succeeded", step.approval), control.directive,
              tail + 1, Fence, approvals)
    /\ AppendEvents(CommitEvents)
    /\ UNCHANGED <<clock, leases, directives, clientVars>>

\* commit_runtime with a prepared approval: persist_runtime_approval inserts the request
\* and its binding to run, step and checkpoint.
CommitApproval ==
    /\ Live(Fence)
    /\ open = "dispatching"
    /\ run.status = "running"
    /\ open' = "none"
    /\ LET asked == Append(approvals, [expires |-> clock + ApprovalTerm, tail |-> tail + 1,
                                       decision |-> "none", at |-> 0])
       IN  Record(RunTo("waiting"), StepTo("waiting", Len(asked)), control.directive,
                  tail + 1, Fence, asked)
    /\ AppendEvents(CommitEvents)
    /\ UNCHANGED <<clock, leases, directives, clientVars>>

\* apply_forfeit under settle_runtime_failure.
ForfeitDispatch ==
    /\ Live(Fence)
    /\ open = "dispatching"
    /\ open' = "none"
    /\ Record(RunTo("failed"), StepTo("failed", step.approval), control.directive, tail,
              Fence, approvals)
    /\ AppendEvents(<<WorkerEvent("budget_forfeited"), WorkerEvent("control_failure")>>)
    /\ UNCHANGED <<clock, leases, directives, clientVars>>

\* reclaim_run_lease takes an active lease that has expired, if the released row is valid.
Reclaimable ==
    /\ Fence > 0
    /\ leases[Fence].active
    /\ clock >= leases[Fence].expires
    /\ ~ReleasePrecedesExpiry

Replaced == Append([leases EXCEPT ![Fence].active = FALSE], NewLease)

\* insert_recovery_directive; append_recovery_started and append_reclaim_event name it.
NewDirective == directives + 1

RecoveryStarted(d) == Event("recovery_started", None, 0, d)

LeaseReclaimed(d) == Event("lease_reclaimed", None, 0, d)

\* A reserved row was never dispatched: it is released and seeds a directive.
ReclaimReserved ==
    /\ Reclaimable
    /\ open = "reserved"
    /\ open' = "none"
    /\ leases' = Replaced
    /\ directives' = NewDirective
    /\ Record(RunTo("failed"), step, NewDirective, tail, Fence + 1, approvals)
    /\ AppendEvents(<<WorkerEvent("budget_released"), RecoveryStarted(NewDirective),
                      LeaseReclaimed(NewDirective)>>)
    /\ UNCHANGED <<clock, clientVars>>

\* Nothing open: a live run is taken over, a failed one with the directive it still has.
ReclaimIdle ==
    /\ Reclaimable
    /\ open = "none"
    /\ Terminal(run.status) => run.status = "failed" /\ control.directive # 0
    /\ leases' = Replaced
    /\ Bump(Fence + 1)
    /\ AppendEvents(<<LeaseReclaimed(control.directive)>>)
    /\ UNCHANGED <<clock, open, directives, clientVars>>

\* An open dispatch is ambiguous: it is forfeited and no lease is handed out.
ReclaimDispatching ==
    /\ Reclaimable
    /\ open = "dispatching"
    /\ open' = "none"
    /\ leases' = [leases EXCEPT ![Fence].active = FALSE]
    /\ Record(RunTo("failed"), StepTo("failed", step.approval), control.directive, tail,
              Fence, approvals)
    /\ AppendEvents(<<WorkerEvent("budget_forfeited"), WorkerEvent("control_failure")>>)
    /\ UNCHANGED <<clock, directives, clientVars>>

Tick ==
    /\ clock < MaxClock
    /\ clock' = clock + 1
    /\ UNCHANGED <<run, step, control, tail, approvals, audit, projection, workerVars,
                   clientVars>>

-----------------------------------------------------------------------------
(* The client. *)

\* What the detail of the run shows, bound into a command of the kind.
Draft(kind, k, s, outcome) ==
    LET p == projection IN
    [kind |-> kind, key |-> k, session |-> s,
     run |-> IF kind = "session_revoke" THEN 0 ELSE p.run,
     step |-> IF kind \in {"approval_decide", "run_resume"} THEN step.revision ELSE 0,
     control |-> IF kind = "session_revoke" THEN 0 ELSE p.control,
     tail |-> IF kind \in {"approval_decide", "run_resume"} THEN p.tail ELSE 0,
     fence |-> IF kind = "session_revoke" THEN 0 ELSE p.fence,
     approval |-> IF kind \in {"approval_decide", "run_resume"} THEN p.approval ELSE 0,
     outcome |-> outcome,
     directive |-> IF kind = "run_resume" THEN p.directive ELSE 0]

\* command.validate(): a fence, and for a resume exactly one branch.
WellFormed(c) ==
    /\ c.kind # "session_revoke" => c.fence # 0
    /\ c.kind = "approval_decide" => c.approval # 0
    /\ c.kind = "run_resume" => (c.approval # 0) # (c.directive # 0)

\* At most one session is open: the next one begins when the one before it has ended.
SessionOpen(s) ==
    /\ clock < SessionEnd[s]
    /\ \A t \in Sessions : SessionEnd[t] < SessionEnd[s] => clock >= SessionEnd[t]

\* The client sends a command it has just drafted, under any key it likes.
Send(kind, k, s, outcome) ==
    LET c == Draft(kind, k, s, outcome) IN
    /\ Cardinality(sent) < MaxSent
    /\ SessionOpen(s)
    /\ (kind = "approval_decide") = (outcome # "none")
    /\ WellFormed(c)
    /\ c \notin sent
    /\ sent' = sent \cup {c}
    /\ UNCHANGED <<clock, run, step, control, tail, approvals, audit, projection, workerVars,
                   commands, answers>>

-----------------------------------------------------------------------------
(* Delivery: execute_operator_command. *)

Answer(c, answer) == answers' = answers \cup {[command |-> c, answer |-> answer]}

\* A refusal that returns before anything is written rolls the transaction back.
Refuse(c, answer) ==
    /\ Answer(c, answer)
    /\ UNCHANGED <<clock, run, step, control, tail, approvals, audit, projection, workerVars,
                   commands, sent>>

\* A refusal that commits one audit event and nothing else.
RefuseWith(c, answer, event) ==
    /\ Len(audit) < MaxAudit
    /\ Answer(c, answer)
    /\ AppendEvents(<<event>>)
    /\ UNCHANGED <<clock, run, step, control, tail, approvals, projection, workerVars,
                   commands, sent>>

\* validate_command_scope: a command bound to another session than the one that delivers
\* it is invalid, whatever its key; what follows is delivered under its own session.
OutOfScope(c) ==
    /\ \E s \in Sessions : s # c.session /\ SessionOpen(s)
    /\ Refuse(c, "invalid")

\* The key is looked up by workspace, human and idempotency key before anything else.
Known(c) == commands[c.key] # <<>>

\* The request digest covers the whole command, its session included.
SameDigest(c) == commands[c.key][1].command = c

ExactReplay(c) ==
    /\ Known(c)
    /\ SameDigest(c)
    /\ Refuse(c, "exact_replay")

KeyConflict(c) ==
    /\ Known(c)
    /\ ~SameDigest(c)
    /\ RefuseWith(c, "conflict", PopulateCommandEvent(c, "command_conflict", ShapeDecision(c)))

\* Mutant of New: the lookup of the key is skipped.
NewUnderAnyKey(c) == clock < SessionEnd[c.session]

\* A command seen for the first time, before the session's absolute expiry.
New(c) == ~Known(c) /\ clock < SessionEnd[c.session]

SessionOver(c) ==
    /\ ~Known(c)
    /\ clock >= SessionEnd[c.session]
    /\ Refuse(c, "not_actionable")

\* CommandReceipt::validate, which insert_command_receipt calls.
ReceiptValid(c, receipt) ==
    /\ receipt.sequence # 0
    /\ receipt.outcome = "already_terminal" =>
           c.kind = "run_cancel" /\ receipt.run = receipt.observed
    /\ (c.kind = "session_revoke") = (receipt.run = 0)

\* insert_command_envelope and insert_command_receipt; the receipt names the last event
\* of the transaction.
Store(c, outcome, observed, resulting, ctl, events) ==
    LET receipt == [outcome |-> outcome, observed |-> observed, run |-> resulting,
                    control |-> ctl, sequence |-> Len(audit) + Len(events)]
    IN  /\ ReceiptValid(c, receipt)
        /\ commands' = [commands EXCEPT ![c.key] = <<[command |-> c, receipt |-> receipt]>>]

\* The end of an applied command that moved the run.
Applied(c, observed, resulting, events) ==
    /\ AppendEvents(events)
    /\ Store(c, "applied", observed, resulting, control.revision + 1, events)
    /\ Answer(c, "applied")
    /\ UNCHANGED <<clock, leases, directives, sent>>

\* load_command_lease: the fence must exist, and unless the run is over be live.
LeaseStands(c) == IF c.kind = "run_cancel" /\ Terminal(run.status)
                  THEN c.fence \in DOMAIN leases
                  ELSE Live(c.fence)

LeaseLost(c) ==
    /\ New(c)
    /\ c.kind # "session_revoke"
    /\ ~LeaseStands(c)
    /\ Refuse(c, "stale_fence")

Decides(c) == New(c) /\ c.kind = "approval_decide" /\ LeaseStands(c)

DecideExpired(c) ==
    /\ Decides(c)
    /\ clock >= approvals[c.approval].expires
    /\ RefuseWith(c, "not_actionable", WorkerEvent("approval_expired"))

\* Undecided, run and step waiting for it, nothing moved since it was drafted.
Decidable(c) ==
    /\ approvals[c.approval].decision = "none"
    /\ run.status = "waiting"
    /\ step.status = "waiting"
    /\ step.approval = c.approval
    /\ run.revision = c.run
    /\ step.revision = c.step
    /\ control.revision = c.control
    /\ tail = c.tail

DecideRefused(c) ==
    /\ Decides(c)
    /\ clock < approvals[c.approval].expires
    /\ ~Decidable(c)
    /\ Refuse(c, "not_actionable")

DecideReady(c) ==
    /\ Decides(c)
    /\ clock < approvals[c.approval].expires
    /\ Decidable(c)

\* The event of an applied decision; the human's digest is the approval it decides.
DecidedEvent(c) == PopulateCommandEvent(c, "approval_decided", c.approval)

\* The audit event has no valid profile: append_audit_event answers Invalid and the
\* transaction, the signed decision in it, is rolled back.
DecideInvalid(c) ==
    /\ DecideReady(c)
    /\ ~ValidProfile(DecidedEvent(c))
    /\ Refuse(c, "invalid")

\* The decision row, the control row, a projection, the proof, the event, the receipt.
DecideApplied(c) ==
    /\ DecideReady(c)
    /\ Record(run, step, control.directive, tail, c.fence,
              [approvals EXCEPT ![c.approval].decision = c.outcome,
                                ![c.approval].at = clock])
    /\ Applied(c, run.revision, run.revision, <<DecidedEvent(c)>>)
    /\ UNCHANGED open

Cancels(c) == New(c) /\ c.kind = "run_cancel" /\ LeaseStands(c)

CancelFresh(c) == run.revision = c.run /\ control.revision = c.control

CancelStale(c) ==
    /\ Cancels(c)
    /\ ~CancelFresh(c)
    /\ Refuse(c, "stale_revision")

CancelDuringDispatch(c) ==
    /\ Cancels(c)
    /\ CancelFresh(c)
    /\ open = "dispatching"
    /\ Refuse(c, "not_actionable")

\* Already terminal: the command and a receipt are kept, the run is not touched.
CancelTerminal(c) ==
    LET rejected == <<PopulateCommandEvent(c, "command_rejected", 0)>> IN
    /\ Cancels(c)
    /\ CancelFresh(c)
    /\ open # "dispatching"
    /\ Terminal(run.status)
    /\ AppendEvents(rejected)
    /\ Store(c, "already_terminal", run.revision, run.revision, control.revision, rejected)
    /\ Answer(c, "already_terminal")
    /\ UNCHANGED <<clock, run, step, control, tail, approvals, projection, workerVars, sent>>

CancelReady(c) ==
    /\ Cancels(c)
    /\ CancelFresh(c)
    /\ open # "dispatching"
    /\ ~Terminal(run.status)

\* Mutant of CancelApplied: a dispatching row is released as if it were reserved.
CancelAppliedAnyway(c) ==
    LET released == IF open # "none" THEN <<WorkerEvent("budget_released")>> ELSE <<>> IN
    /\ Cancels(c)
    /\ CancelFresh(c)
    /\ ~Terminal(run.status)
    /\ open' = "none"
    /\ Record(RunTo("cancelled"), step, control.directive, tail, c.fence, approvals)
    /\ Applied(c, run.revision, run.revision + 1,
               Append(released, PopulateCommandEvent(c, "run_cancelled", 0)))

\* A reserved row is released first; the step stays as it is.
CancelApplied(c) ==
    LET released == IF open = "reserved" THEN <<WorkerEvent("budget_released")>> ELSE <<>> IN
    /\ CancelReady(c)
    /\ open' = "none"
    /\ Record(RunTo("cancelled"), step, control.directive, tail, c.fence, approvals)
    /\ Applied(c, run.revision, run.revision + 1,
               Append(released, PopulateCommandEvent(c, "run_cancelled", 0)))

Resumes(c) == New(c) /\ c.kind = "run_resume" /\ LeaseStands(c)

ResumeFresh(c) ==
    /\ run.revision = c.run
    /\ step.revision = c.step
    /\ control.revision = c.control
    /\ tail = c.tail
    /\ open # "dispatching"

ResumeStale(c) ==
    /\ Resumes(c)
    /\ ~ResumeFresh(c)
    /\ Refuse(c, "stale_revision")

\* The approval branch: decided in time, run and step still waiting for this request.
ApprovalBranch(c) ==
    /\ c.approval # 0
    /\ approvals[c.approval].decision # "none"
    /\ run.status = "waiting"
    /\ step.status = "waiting"
    /\ step.approval = c.approval
    /\ approvals[c.approval].at <= approvals[c.approval].expires

\* A directive is used up by the events of the resume that took it.
Consumed(d) ==
    \E i \in DOMAIN audit :
        audit[i].kind \in {"recovery_completed", "run_resumed"} /\ audit[i].directive = d

\* The recovery branch: the failed run's own pending directive, not used before.
RecoveryBranch(c) ==
    /\ c.approval = 0
    /\ run.status = "failed"
    /\ control.directive = c.directive
    /\ ~Consumed(c.directive)

ResumeRefused(c) ==
    /\ Resumes(c)
    /\ ResumeFresh(c)
    /\ ~ApprovalBranch(c)
    /\ ~RecoveryBranch(c)
    /\ Refuse(c, "not_actionable")

ResumedEvent(c) == PopulateCommandEvent(c, "run_resumed", ShapeDecision(c))

\* An approved request lets run and step go on, a denied one fails both.
ResumeFromApproval(c) ==
    LET to == IF approvals[c.approval].decision = "approved" THEN "running" ELSE "failed" IN
    /\ Resumes(c)
    /\ ResumeFresh(c)
    /\ ApprovalBranch(c)
    /\ Record(RunTo(to), StepTo(to, step.approval), control.directive, tail, c.fence, approvals)
    /\ Applied(c, run.revision, run.revision + 1, <<ResumedEvent(c)>>)
    /\ UNCHANGED open

\* The run goes on and the directive is cleared; two events, in this order.
ResumeFromDirective(c) ==
    /\ Resumes(c)
    /\ ResumeFresh(c)
    /\ RecoveryBranch(c)
    /\ Record(RunTo("running"), step, 0, tail, c.fence, approvals)
    /\ Applied(c, run.revision, run.revision + 1,
               <<Event("recovery_completed", None, 0, c.directive), ResumedEvent(c)>>)
    /\ UNCHANGED open

RevokeReady(c) == New(c) /\ c.kind = "session_revoke"

\* A revoke touches no run: command, proof, event and receipt.
RevokeApplied(c) ==
    LET revoked == <<PopulateCommandEvent(c, "session_revoked", 0)>> IN
    /\ RevokeReady(c)
    /\ AppendEvents(revoked)
    /\ Store(c, "applied", 0, 0, 0, revoked)
    /\ Answer(c, "applied")
    /\ UNCHANGED <<clock, run, step, control, tail, approvals, projection, workerVars, sent>>

\* Mutant of SignerFails: the envelope was committed before the key was asked.
SignerFailsLate(c) ==
    /\ RevokeReady(c) \/ CancelReady(c)
    /\ Answer(c, "unavailable")
    /\ Store(c, "applied", 0, IF c.kind = "session_revoke" THEN 0 ELSE 1, 0, <<0>>)
    /\ UNCHANGED <<clock, run, step, control, tail, approvals, audit, projection, workerVars,
                   sent>>

\* The commands for which the signer is asked.
Signs(c) ==
    \/ DecideReady(c) \/ CancelReady(c) \/ RevokeReady(c)
    \/ Resumes(c) /\ ResumeFresh(c) /\ (ApprovalBranch(c) \/ RecoveryBranch(c))

\* sign_approval or sign_operator_proof fails, or returns what persist_command_proof does
\* not accept: everything the transaction wrote so far, the envelope too, is rolled back.
SignerFails(c) ==
    /\ Signs(c)
    /\ Refuse(c, "unavailable")

Deliver(c) ==
    \/ OutOfScope(c) \/ SignerFails(c)
    \/ ExactReplay(c) \/ KeyConflict(c) \/ SessionOver(c) \/ LeaseLost(c)
    \/ DecideExpired(c) \/ DecideRefused(c) \/ DecideInvalid(c) \/ DecideApplied(c)
    \/ CancelStale(c) \/ CancelDuringDispatch(c) \/ CancelTerminal(c) \/ CancelApplied(c)
    \/ ResumeStale(c) \/ ResumeRefused(c) \/ ResumeFromApproval(c) \/ ResumeFromDirective(c)
    \/ RevokeApplied(c)

Worker ==
    \/ ClaimLease \/ Reserve \/ BeginDispatch \/ CommitResult \/ CommitApproval
    \/ ForfeitDispatch \/ ReclaimReserved \/ ReclaimIdle \/ ReclaimDispatching

Next ==
    \/ Tick
    \/ Worker
    \/ \E kind \in Kinds, k \in Keys, s \in Sessions, o \in {"none", "approved", "denied"} :
           Send(kind, k, s, o)
    \/ \E c \in sent : Deliver(c)

Spec == Init /\ [][Next]_vars

-----------------------------------------------------------------------------
(* Properties. *)

TypeOK ==
    /\ clock \in 0..MaxClock
    /\ run \in [status : {"running", "waiting", "succeeded", "failed", "cancelled"},
                revision : Nat]
    /\ step \in [status : {"running", "waiting", "succeeded", "failed"}, revision : Nat,
                 approval : 0..Len(approvals)]
    /\ control \in [revision : 0..MaxRevision, directive : 0..directives]
    /\ tail \in Nat
    /\ leases \in Seq([active : BOOLEAN, expires : Nat])
    /\ open \in {"none", "reserved", "dispatching"}
    /\ approvals \in Seq([expires : Nat, tail : Nat, decision : {"none", "approved", "denied"},
                          at : Nat])
    /\ \A k \in Keys : commands[k] \in {<<>>} \cup Seq([command : Command, receipt : Receipt])
    /\ sent \subseteq Command
    /\ answers \subseteq [command : sent, answer : Answers]

Events(kinds, last) == {i \in 1..last : audit[i].kind \in kinds}

\* Every dispatch that was authorized up to event i had been settled by then.
SettledBy(i) ==
    Cardinality(Events({"dispatch_authorized"}, i)) =
        Cardinality(Events({"runtime_result_committed", "budget_forfeited"}, i))

EventOf(command, receipt) ==
    CASE receipt.outcome = "already_terminal" -> "command_rejected"
      [] command.kind = "approval_decide" -> "approval_decided"
      [] command.kind = "run_cancel" -> "run_cancelled"
      [] command.kind = "run_resume" -> "run_resumed"
      [] OTHER -> "session_revoked"

\* A key has one effect for good: its stored receipt names the event of that effect, and
\* however often, under whatever session, and however late the key is used again, the
\* chain holds no second event of it but refusals of other commands.
ReceiptNamesItsEvent ==
    \A k \in Keys :
        LET own == {i \in DOMAIN audit : audit[i].key = k /\ audit[i].kind # "command_conflict"}
        IN  IF commands[k] = <<>>
            THEN own = {}
            ELSE LET row == commands[k][1] IN
                 /\ own = {row.receipt.sequence}
                 /\ audit[row.receipt.sequence].kind = EventOf(row.command, row.receipt)

\* What a client was told stays true: a command reported as applied, terminal or replayed
\* is the one stored under its key, and a command once refused never takes effect later,
\* although the client or the network may deliver it again in any later state.
AnswersStand ==
    \A a \in answers :
        LET stored == commands[a.command.key] # <<>>
                      /\ commands[a.command.key][1].command = a.command
        IN  /\ a.answer \in {"applied", "already_terminal", "exact_replay"} => stored
            /\ a.answer \in Refusals => ~stored

\* Cancel against begin_dispatch: a cancel that was applied found every dispatch settled,
\* nothing is dispatched, committed or resumed after it, and no reservation is left open.
CancelIsFinal ==
    \A i \in Events({"run_cancelled"}, Len(audit)) :
        /\ run.status = "cancelled"
        /\ open = "none"
        /\ SettledBy(i)
        /\ \A j \in (i + 1)..Len(audit) :
               audit[j].kind \notin {"dispatch_authorized", "run_resumed", "approval_decided",
                                     "run_cancelled"}

\* The snapshot the operator reads is that of the run, control row, checkpoint and fence
\* as they are, after every transaction of worker or human.
ProjectionIsCurrent == projection = Project(run, control, tail, Len(leases), approvals)

\* The contract's append list has "applied approval decision | approval_decided": a
\* decision that is actionable is applied, never answered Invalid.
ActionableDecisionApplies ==
    \A a \in answers : a.command.kind = "approval_decide" => a.answer # "invalid"

\* The contract: "An authenticated strict command that reaches the store but fails target
\* actionability or revision appends one redacted command_rejected".
RejectionsAreAudited ==
    \A a \in answers :
        a.answer = "stale_revision" =>
            \E i \in DOMAIN audit :
                audit[i].kind = "command_rejected" /\ audit[i].key = a.command.key

=============================================================================
