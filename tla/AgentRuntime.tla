---------------------------- MODULE AgentRuntime ----------------------------
(***************************************************************************)
(* The generic agent runtime over the agent-run store: start, resume and   *)
(* the drive loop, cut at every durable write, with the approver, the      *)
(* `run cancel` command, crashes and the clock around it.                  *)
(*                                                                         *)
(* A process is one call of start or resume.  Every durable write is one   *)
(* action; a write the store refuses ends the call with an error.  Listing *)
(* a trace and appending at its tail is one action: when another process   *)
(* gets in between, the store refuses the append, and a call that ends     *)
(* there is a crash here.  Token and cost totals are one counter.          *)
(***************************************************************************)
EXTENDS AgentRunStore, SequencesExt, FiniteSets

CONSTANTS
    Processes,
    MaxModelCalls, MaxTotalTokens, MaxSteps, \* the limits of the agent
    Deadline,    \* max_duration_seconds after the start of the run
    ApprovalTtl, \* approval_ttl
    Decisions,   \* what the model may answer
    Usages,      \* tokens one answer may use
    MaxNow, MaxCrashes

VARIABLES
    me,       \* me[p]: where the call is and the rows it holds
    now,
    effects,  \* effects[r][o]: entries into the handler for tool call o
    asked,    \* asked[r][n]: dispatches of model call n
    crashes,
    doubt,    \* runs with a crash at a point that leaves the outcome unknown
    stuck     \* runs whose evidence a resume has refused

localVars == <<me, now, effects, asked, crashes, doubt, stuck>>
runtimeVars == <<storeVars, localVars>>

Goal == <<0, TRUE>>

\* AgentRuntimeState: the counters, the next input (the result of a tool call), the
\* pending tool call and whether its approval is recorded, and the outcome.
InitialState ==
    [calls |-> 0, tools |-> 0, resp |-> 0, tokens |-> 0, input |-> Goal, pending |-> 0,
     bound |-> FALSE, done |-> "none"]

Checkpoint(state, mark) == [state |-> state, mark |-> mark]

Event(kind, n, what, use) == [kind |-> kind, n |-> n, what |-> what, use |-> use]

Idle ==
    [pc |-> "idle", run |-> None, row |-> NoRun, st |-> InitialState, step |-> NoStep,
     what |-> "none", use |-> 0]

Key(o) == <<o, 1>>

ApprovalOf(r, o) == <<r, o>>

LatestState(r) == checkpoints[r][Len(checkpoints[r])].state

RuntimeInit ==
    /\ TraceInit
    /\ me = [p \in Processes |-> Idle]
    /\ now = 0
    /\ effects = [r \in Runs |-> [o \in Ordinals |-> 0]]
    /\ asked = [r \in Runs |-> [n \in 1 .. MaxModelCalls |-> 0]]
    /\ crashes = 0
    /\ doubt = {}
    /\ stuck = {}

-----------------------------------------------------------------------------
(* Durable writes of a process: the store takes them or the call ends. *)

ghosts == <<now, effects, asked, crashes, doubt, stuck>>

To(m, pc) == [m EXCEPT !.pc = pc]

Go(p, m) == me' = [me EXCEPT ![p] = m]

Return(p) == Go(p, Idle)

Refuse(p) == Return(p) /\ UNCHANGED storeVars

PutRun(p, row, next) ==
    LET r == me[p].run IN
    /\ IF Writable(r) /\ RunFollows(r, row)
       THEN SaveRun(r, row) /\ Go(p, [next EXCEPT !.row = row])
       ELSE Refuse(p)
    /\ UNCHANGED ghosts

PutStep(p, o, row, next) ==
    LET r == me[p].run IN
    /\ IF Writable(r) /\ BindingHolds(r, Key(o), row) /\ StepFollows(r, Key(o), row)
       THEN SaveStep(r, Key(o), row) /\ Go(p, [next EXCEPT !.step = row])
       ELSE Refuse(p)
    /\ UNCHANGED ghosts

PutState(p, state, mark, next) ==
    LET r == me[p].run IN
    /\ IF Writable(r)
       THEN /\ SaveCheckpoint(r, Len(checkpoints[r]), Checkpoint(state, mark))
            /\ Go(p, [next EXCEPT !.st = state])
       ELSE Refuse(p)
    /\ UNCHANGED ghosts

PutEvent(p, event, next) ==
    LET r == me[p].run IN
    /\ IF Writable(r) /\ EventFits(runs[r].status, event.kind)
       THEN SaveEvent(r, Len(events[r]), event) /\ Go(p, next)
       ELSE Refuse(p)
    /\ UNCHANGED ghosts

\* fail_run, reached with the kind of the terminal event to come.
Fail(m, kind) == [m EXCEPT !.pc = "fail", !.what = kind]

-----------------------------------------------------------------------------
(* What a resume makes of the evidence. *)

Taken(r) == {o \in Ordinals : steps[r][Key(o)].status # "absent"}

OfKind(r, kind) == SelectSeq(events[r], LAMBDA e : e.kind = kind)

\* validate_complete_generic_bootstrap.
BootstrapComplete(r, row) ==
    /\ checkpoints[r] # <<>> /\ checkpoints[r][1].state = InitialState
    /\ \A n \in 2 .. Len(checkpoints[r]) : checkpoints[r][n].state # InitialState
    /\ events[r] # <<>> /\ events[r][1].kind = "started"
    /\ Len(OfKind(r, "started")) = 1
    /\ evaluations[r] = <<>>
    /\ row.status \in {"running", "waiting"} /\ row.retries = 0
    /\ Len(checkpoints[r]) = 1 => Len(events[r]) = 1 /\ Taken(r) = {}

\* collect_generic_tool_requests: steps and requests are one to one, in order.
ToolRequestsMatch(r) ==
    LET asks == OfKind(r, "tool_requested") IN
    /\ \A n \in DOMAIN asks : asks[n].n = n /\ n \in Taken(r)
    /\ \A n \in DOMAIN asks : steps[r][Key(n)].status # "pending"
    /\ Len(asks) = Cardinality(Taken(r))

Over(status) == status \in {"succeeded", "failed", "cancelled"}

\* validate_generic_approval_chronology: the events carry the stored decisions and
\* requests and answers alternate; an approval step moved as its answer says; the run
\* moved once for every request and once for every answer.
ApprovalEventsMatch(r) ==
    LET required == OfKind(r, "approval_required")
        resumed == OfKind(r, "approval_resumed")
    IN
    /\ \A n \in DOMAIN required : required[n].what = "in time"
    /\ \A n \in DOMAIN resumed : resumed[n].n = required[n].n
    /\ \A n \in DOMAIN resumed : decisions[ApprovalOf(r, resumed[n].n)] = resumed[n].what

ApprovalStepMatches(r, o) ==
    LET step == steps[r][Key(o)]
        required == SelectSeq(OfKind(r, "approval_required"), LAMBDA e : e.n = o)
        resumed == SelectSeq(OfKind(r, "approval_resumed"), LAMBDA e : e.n = o)
    IN
    IF step.approval = None
    THEN step.status # "waiting" /\ step.revision = IF Over(step.status) THEN 2 ELSE 1
    ELSE /\ Len(required) = 1
         /\ \/ resumed = <<>> /\ step.status = "waiting" /\ step.revision = 2
            \/ /\ Len(resumed) = 1 /\ resumed[1].what = "approved"
               /\ \/ step.status = "running" /\ step.revision = 3
                  \/ Over(step.status) /\ step.revision = 4
            \/ /\ Len(resumed) = 1 /\ resumed[1].what = "denied"
               /\ step.status = "failed" /\ step.revision = 3

ApprovalRunMatches(r, row, st) ==
    LET required == OfKind(r, "approval_required")
        resumed == OfKind(r, "approval_resumed")
    IN
    /\ row.retries = 0
    /\ \/ /\ row.status = "running"
          /\ Len(required) = Len(resumed)
          /\ row.revision = 2 * Len(resumed) + 1
       \/ /\ row.status = "waiting"
          /\ Len(required) = Len(resumed) + 1
          /\ row.revision = 2 * Len(resumed) + 2
          /\ st.pending # 0 /\ st.bound /\ required[Len(required)].n = st.pending

\* The walk of validate_generic_resume_evidence over the events after the first.
WalkStart ==
    [ok |-> TRUE, calls |-> 0, resps |-> 0, awaiting |-> FALSE, decision |-> "none", tools |-> 0,
     active |-> 0, input |-> Goal, tokens |-> 0]

Wrong(w) == [w EXCEPT !.ok = FALSE]

WalkEvent(r, w, e) ==
    LET step == steps[r][Key(w.active)] IN
    CASE e.kind = "model_requested" ->
           IF ~w.awaiting /\ w.decision = "none" /\ w.active = 0 /\ e.n = w.calls + 1
              /\ e.use = w.resps
           THEN [w EXCEPT !.calls = w.calls + 1, !.awaiting = TRUE]
           ELSE Wrong(w)
      [] e.kind = "model_responded" ->
           IF w.awaiting /\ w.decision = "none"
           THEN [w EXCEPT !.resps = w.resps + 1, !.awaiting = FALSE, !.decision = e.what,
                          !.tokens = w.tokens + e.use]
           ELSE Wrong(w)
      [] e.kind = "tool_requested" ->
           IF ~w.awaiting /\ w.active = 0 /\ w.decision \notin {"none", "finish"}
           THEN [w EXCEPT !.decision = "none", !.active = e.n, !.tools = w.tools + 1]
           ELSE Wrong(w)
      [] e.kind \in {"tool_succeeded", "tool_failed"} ->
           IF /\ ~w.awaiting /\ w.decision = "none" /\ w.active # 0 /\ e.n = w.active
              /\ step.status = IF e.kind = "tool_succeeded" THEN "succeeded" ELSE "failed"
              /\ e.what = "exact"
           THEN [w EXCEPT !.active = 0, !.input = <<e.n, e.kind = "tool_succeeded">>]
           ELSE Wrong(w)
      [] e.kind \in {"approval_required", "approval_resumed"} ->
           IF ~w.awaiting /\ w.decision = "none" /\ w.active # 0 THEN w ELSE Wrong(w)
      [] OTHER -> Wrong(w)

Walk(r) ==
    FoldLeft(LAMBDA w, e : IF w.ok THEN WalkEvent(r, w, e) ELSE w, WalkStart, Tail(events[r]))

\* reconcile_missing_generic_tool_result: the last request has no result event, but
\* its step has ended and the latest checkpoint has consumed the result.
ResultIsMissing(r, st) ==
    LET w == Walk(r) IN
    /\ w.ok /\ w.active # 0 /\ st.pending = 0
    /\ Over(steps[r][Key(w.active)].status)

MissingResult(r) ==
    LET o == Walk(r).active
        ok == steps[r][Key(o)].status = "succeeded"
    IN Event(IF ok THEN "tool_succeeded" ELSE "tool_failed", o, "exact", 0)

MissingResultIsBacked(r, st) ==
    /\ st.input = <<Walk(r).active, steps[r][Key(Walk(r).active)].status = "succeeded">>
    /\ checkpoints[r][Len(checkpoints[r])].mark = "none"

\* The rest of validate_generic_resume_evidence.
CheckpointMatches(r, st) ==
    LET w == Walk(r) IN
    IF Len(events[r]) = 1
    THEN \/ Len(checkpoints[r]) = 1 /\ st = InitialState
         \/ /\ Len(checkpoints[r]) > 1 /\ Taken(r) = {}
            /\ st = [InitialState EXCEPT !.done = "error"]
    ELSE /\ w.ok /\ ~w.awaiting /\ w.calls = w.resps
         /\ st.calls = w.calls /\ st.tokens = w.tokens /\ st.resp = w.resps
         /\ st.tools = w.tools /\ st.input = w.input
         /\ \/ st.done = "error"
            \/ w.decision = "finish" /\ st.done = "final"
            \/ w.decision = "none" /\ st.done = "none"
         /\ IF st.pending # 0
            THEN /\ w.active = st.pending
                 /\ st.bound = (steps[r][Key(st.pending)].approval # None)
            ELSE w.active = 0 /\ \A o \in Taken(r) : Over(steps[r][Key(o)].status)

EvidenceHolds(r, row, st) ==
    /\ BootstrapComplete(r, row)
    /\ ToolRequestsMatch(r)
    /\ ApprovalEventsMatch(r)
    /\ \A o \in Taken(r) : ApprovalStepMatches(r, o)
    /\ ApprovalRunMatches(r, row, st)

-----------------------------------------------------------------------------
(* start and resume. *)

Keep(p, m) == Go(p, m) /\ UNCHANGED <<storeVars, ghosts>>

Start(p, r) ==
    /\ me[p].pc = "idle"
    /\ runs[r].status = "absent"
    /\ SaveRun(r, NewRun)
    /\ Go(p, [Idle EXCEPT !.pc = "boot", !.run = r, !.row = NewRun])
    /\ UNCHANGED ghosts

\* resume: a run that has ended is sealed or replayed, a waiting one is checked and
\* driven, any other is reconciled first.
Resume(p, r) ==
    LET row == runs[r]
        m == [Idle EXCEPT !.run = r, !.row = row]
    IN
    /\ me[p].pc = "idle"
    /\ \/ row.status \in {"queued", "running"} /\ Keep(p, To(m, "boot"))
       \/ /\ row.status \in {"succeeded", "failed", "waiting"}
          /\ checkpoints[r] # <<>>
          /\ LET n == [m EXCEPT !.st = LatestState(r)] IN
             Keep(p, To(n, CASE row.status = "succeeded" -> "finish"
                             [] row.status = "failed" -> "replay"
                             [] OTHER -> "check"))

\* reconcile_generic_bootstrap up to its first write.
Pristine(r, row) ==
    /\ row \in {NewRun, RunTo(NewRun, "running")}
    /\ Taken(r) = {} /\ evaluations[r] = <<>> /\ events[r] = <<>>
    /\ \/ checkpoints[r] = <<>>
       \/ /\ Len(checkpoints[r]) = 1 /\ checkpoints[r][1].state = InitialState
          /\ row.status = "running"

Boot(p) ==
    LET m == me[p] IN
    LET r == m.run IN
    /\ m.pc = "boot"
    /\ IF m.row # runs[r] THEN Refuse(p) /\ UNCHANGED ghosts
       ELSE IF checkpoints[r] # <<>> /\ events[r] # <<>>
       THEN Keep(p, [m EXCEPT !.pc = "check", !.st = LatestState(r)])
       ELSE IF Pristine(r, m.row)
       THEN Keep(p, To(m, CASE m.row.status = "queued" -> "bootRun"
                            [] checkpoints[r] = <<>> -> "bootState"
                            [] OTHER -> "bootEvent"))
       ELSE Refuse(p) /\ UNCHANGED ghosts

BootRun(p) ==
    me[p].pc = "bootRun" /\ PutRun(p, RunTo(me[p].row, "running"), To(me[p], "bootState"))

BootState(p) ==
    me[p].pc = "bootState" /\ PutState(p, InitialState, "none", To(me[p], "bootEvent"))

BootEvent(p) ==
    /\ me[p].pc = "bootEvent"
    /\ IF Len(checkpoints[me[p].run]) # 1
       THEN Refuse(p) /\ UNCHANGED ghosts
       ELSE PutEvent(p, Event("started", 0, "none", 0), To(me[p], "check"))

\* Where drive goes with the state it is given.
DriveFrom(m) ==
    CASE m.st.done # "none" -> To(m, "finish")
      [] m.row.status = "waiting" -> To(m, IF now >= Deadline THEN "budgetStep" ELSE "approval")
      [] m.st.pending # 0 -> To(m, "reconcile")
      [] OTHER -> To(m, "loop")

RefuseEvidence(p) ==
    /\ Refuse(p)
    /\ stuck' = stuck \cup {me[p].run}
    /\ UNCHANGED <<now, effects, asked, crashes, doubt>>

\* The evidence is repaired where one result event is missing, accepted or refused.
Check(p) ==
    LET m == me[p] IN
    LET r == m.run IN
    /\ m.pc = "check"
    /\ IF ~EvidenceHolds(r, m.row, m.st)
       THEN RefuseEvidence(p)
       ELSE IF ResultIsMissing(r, m.st) /\ MissingResultIsBacked(r, m.st)
       THEN PutEvent(p, MissingResult(r), m)
       ELSE IF ResultIsMissing(r, m.st) \/ ~CheckpointMatches(r, m.st)
       THEN RefuseEvidence(p)
       ELSE Keep(p, DriveFrom(m))

-----------------------------------------------------------------------------
(* The model turn. *)

Loop(p) ==
    LET m == me[p] IN
    LET st == [m.st EXCEPT !.calls = m.st.calls + 1] IN
    /\ m.pc = "loop"
    /\ IF m.st.calls >= MaxModelCalls \/ now >= Deadline \/ m.st.tokens >= MaxTotalTokens
       THEN Keep(p, Fail(m, "budget_exceeded"))
       ELSE PutState(p, st, "none", To(m, "request"))

Request(p) ==
    LET m == me[p] IN
    m.pc = "request"
      /\ PutEvent(p, Event("model_requested", m.st.calls, "none", m.st.resp), To(m, "model"))

\* The gateway fails, or answers with a decision and the tokens it used.
Model(p) ==
    LET m == me[p] IN
    /\ m.pc = "model"
    /\ asked' = [asked EXCEPT ![m.run] =
           [asked[m.run] EXCEPT ![m.st.calls] = asked[m.run][m.st.calls] + 1]]
    /\ \/ Go(p, Fail(m, "failed"))
       \/ \E d \in Decisions, u \in Usages :
              Go(p, [m EXCEPT !.pc = "respond", !.what = d, !.use = u,
                              !.st = [m.st EXCEPT !.tokens = m.st.tokens + u,
                                                  !.resp = m.st.calls]])
    /\ UNCHANGED <<storeVars, now, effects, crashes, doubt, stuck>>

Respond(p) ==
    LET m == me[p] IN
    m.pc = "respond" /\ PutEvent(p, Event("model_responded", 0, m.what, m.use), To(m, "branch"))

Branch(p) ==
    LET m == me[p] IN
    LET o == m.st.tools + 1 IN
    /\ m.pc = "branch"
    /\ IF m.st.tokens > MaxTotalTokens \/ now > Deadline
       THEN Keep(p, Fail(m, "budget_exceeded"))
       ELSE IF m.what = "finish"
       THEN PutState(p, [m.st EXCEPT !.done = "final"], "none", To(m, "finish"))
       ELSE IF m.st.tools >= MaxSteps THEN Keep(p, Fail(m, "budget_exceeded"))
       ELSE IF m.what = "unknown" THEN Keep(p, Fail(m, "failed"))
       ELSE PutStep(p, o, NewStep, To(m, "stepStart"))

-----------------------------------------------------------------------------
(* The tool call. *)

StepStart(p) ==
    LET m == me[p] IN
    m.pc = "stepStart"
      /\ PutStep(p, m.st.tools + 1, StepTo(m.step, "running"), To(m, "stepState"))

StepState(p) ==
    LET m == me[p] IN
    LET o == m.st.tools + 1 IN
    m.pc = "stepState"
      /\ PutState(p, [m.st EXCEPT !.tools = o, !.pending = o], "none", To(m, "stepEvent"))

StepEvent(p) ==
    LET m == me[p] IN
    m.pc = "stepEvent"
      /\ PutEvent(p, Event("tool_requested", m.st.pending, "none", 0),
                  To(m, CASE m.what = "badinput" -> "toolFail"
                          [] m.what = "human" -> "ask"
                          [] OTHER -> "execute"))

Entered(p) ==
    LET m == me[p] IN
    /\ effects' = [effects EXCEPT ![m.run] =
           [effects[m.run] EXCEPT ![m.st.pending] = effects[m.run][m.st.pending] + 1]]
    /\ UNCHANGED <<storeVars, now, asked, crashes, doubt, stuck>>

\* execute_agent_tool: the handler is entered; its output may not fit the schema.
Execute(p) ==
    LET m == me[p] IN
    /\ m.pc = "execute"
    /\ Entered(p)
    /\ \/ \E out \in {"valid", "invalid"} : Go(p, [m EXCEPT !.pc = "stepOk", !.what = out])
       \/ Go(p, To(m, "toolFail"))

\* An approved call whose output does not fit fails the run without an event.
StepOk(p) ==
    LET m == me[p] IN
    m.pc = "stepOk"
      /\ PutStep(p, m.st.pending, StepSucceeds(m.step, m.what),
                 CASE m.what = "valid" -> To(m, "okState")
                   [] m.step.approval = None -> To(m, "badEvent")
                   [] OTHER -> Fail(m, "failed"))

Consumed(st, ok) == [st EXCEPT !.pending = 0, !.bound = FALSE, !.input = <<st.pending, ok>>]

\* Mutant of OkState: the event is forgotten.
OkStateOnly(p) ==
    LET m == me[p] IN
    m.pc = "okState" /\ PutState(p, Consumed(m.st, TRUE), "none", To(m, "loop"))

\* record_tool_success.
OkState(p) ==
    LET m == me[p] IN
    m.pc = "okState"
      /\ PutState(p, Consumed(m.st, TRUE), "none", [m EXCEPT !.pc = "okEvent"])

OkEvent(p) ==
    LET m == me[p] IN
    m.pc = "okEvent"
      /\ PutEvent(p, Event("tool_succeeded", m.st.input[1], "exact", 0), To(m, "loop"))

\* The event of a misfitting output has no call_id.
BadEvent(p) ==
    LET m == me[p] IN
    m.pc = "badEvent"
      /\ PutEvent(p, Event("tool_failed", m.st.pending, "inexact", 0), Fail(m, "failed"))

\* record_tool_failure and record_tool_failure_state.
ToolFail(p) ==
    LET m == me[p] IN
    m.pc = "toolFail" /\ PutStep(p, m.st.pending, StepTo(m.step, "failed"), To(m, "failState"))

FailState(p) ==
    LET m == me[p] IN
    m.pc = "failState" /\ PutState(p, Consumed(m.st, FALSE), "none", To(m, "failEvent"))

FailEvent(p) ==
    LET m == me[p] IN
    m.pc = "failEvent"
      /\ PutEvent(p, Event("tool_failed", m.st.input[1], "exact", 0), To(m, "loop"))

\* Mutant of Reconcile: a call found running is entered again.
ReconcileReplays(p) ==
    LET m == me[p] IN
    LET step == steps[m.run][Key(m.st.pending)] IN
    /\ m.pc = "reconcile"
    /\ Keep(p, [m EXCEPT !.step = step,
                         !.pc = CASE step.status = "running" -> "execute"
                                  [] step.status = "failed" -> "failState"
                                  [] step.status = "succeeded" /\ step.output = "valid" -> "okState"
                                  [] OTHER -> "fail"])

\* reconcile_pending_tool: a call found running is failed, never entered again.
Reconcile(p) ==
    LET m == me[p] IN
    LET step == steps[m.run][Key(m.st.pending)] IN
    LET n == [m EXCEPT !.step = step] IN
    /\ m.pc = "reconcile"
    /\ CASE step.status = "running" ->
              PutStep(p, m.st.pending, StepTo(step, "failed"), Fail(m, "failed"))
         [] step.status = "failed" -> Keep(p, To(n, "failState"))
         [] step.status = "succeeded" /\ step.output = "valid" -> Keep(p, To(n, "okState"))
         [] OTHER -> Keep(p, Fail(n, "failed"))

-----------------------------------------------------------------------------
(* Approvals. *)

\* wait_for_approval: the signed request, then step, run, checkpoint and event.
Ask(p) ==
    LET m == me[p] IN
    LET a == ApprovalOf(m.run, m.st.pending)
        expires == IF now + ApprovalTtl < Deadline THEN now + ApprovalTtl ELSE Deadline
    IN
    /\ m.pc = "ask"
    /\ IF now >= Deadline THEN Keep(p, To(m, "budgetStep"))
       ELSE IF requests[a] = None /\ ApprovalIsOpen(a)
       THEN SaveRequest(a, expires) /\ Go(p, To(m, "askStep")) /\ UNCHANGED ghosts
       ELSE Refuse(p) /\ UNCHANGED ghosts

AskStep(p) ==
    LET m == me[p] IN
    m.pc = "askStep"
      /\ PutStep(p, m.st.pending, StepWaits(m.step, ApprovalOf(m.run, m.st.pending)),
                 To(m, "askRun"))

AskRun(p) ==
    me[p].pc = "askRun" /\ PutRun(p, RunTo(me[p].row, "waiting"), To(me[p], "askState"))

AskState(p) ==
    LET m == me[p] IN
    m.pc = "askState"
      /\ PutState(p, [m.st EXCEPT !.bound = TRUE], "none", To(m, "askEvent"))

AskEvent(p) ==
    LET m == me[p] IN
    LET late == now > requests[ApprovalOf(m.run, m.st.pending)] IN
    m.pc = "askEvent"
      /\ PutEvent(p, Event("approval_required", m.st.pending,
                           IF late THEN "late" ELSE "in time", 0), Idle)

\* Mutant of Approval: only an approval ends the wait.
ApprovalIgnoresDenial(p) ==
    LET m == me[p] IN
    LET o == m.st.pending IN
    LET step == steps[m.run][Key(o)] IN
    /\ m.pc = "approval"
    /\ IF decisions[ApprovalOf(m.run, o)] = "approved" /\ step.status = "waiting"
       THEN PutStep(p, o, StepTo(step, "running"), To(m, "claimed"))
       ELSE Keep(p, Idle)

\* resume_approval up to its first write.  An approved step is claimed by its
\* revision; one that is already claimed is only taken up with its execution.
Approval(p) ==
    LET m == me[p] IN
    LET o == m.st.pending IN
    LET step == steps[m.run][Key(o)]
        a == ApprovalOf(m.run, o)
    IN
    LET n == [m EXCEPT !.step = step] IN
    /\ m.pc = "approval"
    /\ IF now >= Deadline THEN Keep(p, To(m, "budgetStep"))
       ELSE CASE decisions[a] = None -> Keep(p, Idle)
              [] decisions[a] = "denied" ->
                   IF step.status = "waiting"
                   THEN PutStep(p, o, StepTo(step, "failed"), To(n, "denied"))
                   ELSE Keep(p, Fail(n, "failed"))
              [] OTHER ->
                   IF step.status = "waiting"
                   THEN PutStep(p, o, StepTo(step, "running"), To(n, "claimed"))
                   ELSE IF step.status \in {"running", "succeeded"} /\ executions[a] # None
                   THEN Keep(p, To(n, "resumeRun"))
                   ELSE Keep(p, Fail(n, "failed"))

Denied(p) ==
    LET m == me[p] IN
    m.pc = "denied"
      /\ PutEvent(p, Event("approval_resumed", m.st.pending, "denied", 0), Fail(m, "failed"))

Claimed(p) ==
    LET m == me[p] IN
    m.pc = "claimed"
      /\ PutEvent(p, Event("approval_resumed", m.st.pending, "approved", 0), To(m, "resumeRun"))

ResumeRun(p) ==
    me[p].pc = "resumeRun" /\ PutRun(p, RunTo(me[p].row, "running"), To(me[p], "approved"))

\* The rest of resume_approval: the stored execution is reused, else the engine
\* checks the grant against the clock and enters the handler.
Approved(p) ==
    LET m == me[p] IN
    LET a == ApprovalOf(m.run, m.st.pending) IN
    /\ m.pc = "approved"
    /\ IF now >= Deadline THEN Keep(p, To(m, "budgetStep"))
       ELSE IF executions[a] # None
       THEN Keep(p, IF m.step.status = "running"
                    THEN [m EXCEPT !.pc = "stepOk", !.what = executions[a]]
                    ELSE IF m.step.output = "valid" THEN To(m, "okState")
                    ELSE Fail(m, "failed"))
       ELSE IF now > requests[a] THEN Keep(p, To(m, "approvedFail"))
       ELSE /\ Entered(p)
            /\ \/ \E out \in {"valid", "invalid"} :
                     Go(p, [m EXCEPT !.pc = "saveExecution", !.what = out])
               \/ Go(p, To(m, "approvedFail"))

SavesExecution(p) ==
    LET m == me[p] IN
    LET a == ApprovalOf(m.run, m.st.pending) IN
    /\ m.pc = "saveExecution"
    /\ IF executions[a] = None /\ ApprovalIsOpen(a)
       THEN SaveExecution(a, m.what) /\ Go(p, To(m, "stepOk"))
       ELSE Refuse(p)
    /\ UNCHANGED ghosts

ApprovedFail(p) ==
    LET m == me[p] IN
    m.pc = "approvedFail"
      /\ PutStep(p, m.st.pending, StepTo(m.step, "failed"), Fail(m, "failed"))

\* fail_approval_for_budget.
BudgetStep(p) ==
    LET m == me[p] IN
    LET step == steps[m.run][Key(m.st.pending)] IN
    /\ m.pc = "budgetStep"
    /\ IF step.status \in {"running", "waiting"}
       THEN PutStep(p, m.st.pending, StepTo(step, "failed"), To(m, "budgetEvent"))
       ELSE Keep(p, Fail(m, "budget_exceeded"))

BudgetEvent(p) ==
    LET m == me[p] IN
    m.pc = "budgetEvent"
      /\ PutEvent(p, Event("tool_failed", m.st.pending, "exact", 0), Fail(m, "budget_exceeded"))

-----------------------------------------------------------------------------
(* The end of a run: checkpoint, run, evaluation, terminal event. *)

FailRun(p) ==
    LET m == me[p] IN
    m.pc = "fail" /\ PutState(p, [m.st EXCEPT !.done = "error"], m.what, To(m, "seal"))

TerminalEvents(r) ==
    SelectSeq(events[r], LAMBDA e : e.kind \in {"failed", "budget_exceeded"})

\* failure_event_kind: the persisted event, the mark of the checkpoint, or failed.
FailureKind(r) ==
    LET mark == checkpoints[r][Len(checkpoints[r])].mark IN
    IF TerminalEvents(r) # <<>> THEN TerminalEvents(r)[1].kind
    ELSE IF mark # "none" THEN mark ELSE "failed"

\* finish_terminal_state.
Finish(p) ==
    LET m == me[p] IN
    /\ m.pc = "finish"
    /\ Keep(p, [m EXCEPT !.pc = "seal",
                         !.what = IF m.st.done = "error" THEN FailureKind(m.run) ELSE "completed"])

\* replay_or_seal_terminal_failure.
Replay(p) ==
    LET m == me[p] IN
    /\ m.pc = "replay"
    /\ IF TerminalEvents(m.run) # <<>> THEN Keep(p, Idle)
       ELSE Keep(p, [m EXCEPT !.pc = "seal", !.what = FailureKind(m.run)])

\* seal_failure and the end of finish_terminal_state.
Seal(p) ==
    LET m == me[p] IN
    /\ m.pc = "seal"
    /\ IF Terminal(m.row.status) THEN Keep(p, To(m, "evaluate"))
       ELSE PutRun(p, RunTo(m.row, IF m.what = "completed" THEN "succeeded" ELSE "failed"),
                   To(m, "evaluate"))

\* ensure_evaluation lists and then saves.
Evaluate(p) ==
    LET m == me[p] IN
    /\ m.pc = "evaluate"
    /\ Keep(p, To(m, IF evaluations[m.run] # <<>> THEN "conclude" ELSE "saveEvaluation"))

SavesEvaluation(p) ==
    LET m == me[p] IN
    /\ m.pc = "saveEvaluation"
    /\ IF Terminal(runs[m.run].status) /\ m.run \notin governed
       THEN /\ SaveEvaluation(m.run, [by |-> p, passed |-> m.what = "completed"])
            /\ Go(p, To(m, "conclude"))
       ELSE Refuse(p)
    /\ UNCHANGED ghosts

\* The evaluation the call returned: its own, or the first one listed.
EvaluationOf(p) ==
    LET list == evaluations[me[p].run] IN
    LET own == {n \in DOMAIN list : list[n].by = p} IN
    IF own # {} THEN CHOOSE n \in own : \A i \in own : n <= i ELSE 1

\* ensure_terminal_event.
Conclude(p) ==
    LET m == me[p] IN
    /\ m.pc = "conclude"
    /\ IF OfKind(m.run, m.what) # <<>> THEN Keep(p, Idle)
       ELSE PutEvent(p, Event(m.what, EvaluationOf(p), "none", 0), Idle)

-----------------------------------------------------------------------------
(* Around the runtime. *)

\* sign_approval_decision: once, in time, and for a bound step only while the run
\* and the step wait for exactly this request.
Decide(r, o, outcome) ==
    LET a == ApprovalOf(r, o)
        st == LatestState(r)
    IN
    /\ requests[a] # None
    /\ now <= requests[a]
    /\ BoundTo(r, a) =>
           /\ runs[r].status = "waiting"
           /\ steps[r][Key(o)].status = "waiting"
           /\ st.pending = o /\ st.bound
    /\ SaveDecision(a, outcome)
    /\ UNCHANGED localVars

\* cmd_run_cancel.
Cancel(r) ==
    /\ <<runs[r].status, "cancelled">> \in RunMoves
    /\ SaveRun(r, RunTo(runs[r], "cancelled"))
    /\ UNCHANGED localVars

Tick ==
    /\ now < MaxNow
    /\ now' = now + 1
    /\ UNCHANGED <<storeVars, me, effects, asked, crashes, doubt, stuck>>

\* Where a crash leaves a trace from which it cannot be told what was done: between
\* a checkpoint or a step and the event that goes with it, while a model call or an
\* answer is in the air, and on the way down from a failure whose event has no
\* counterpart in the checkpoint.
InDoubt(m) ==
    LET last == events[m.run][Len(events[m.run])] IN
    \/ m.pc \in {"request", "model", "respond", "branch", "stepStart", "stepState", "stepEvent",
                 "askRun", "askState", "askEvent", "denied", "claimed", "resumeRun",
                 "budgetEvent", "badEvent"}
    \/ m.pc = "fail" /\ last.kind = "model_responded"
    \/ /\ m.pc \in {"fail", "seal"}
       /\ \/ last.kind = "model_requested"
          \/ last.kind = "tool_failed" /\ m.st.pending # 0
          \/ last.kind = "approval_resumed" /\ last.what = "denied"

Crash(p) ==
    /\ me[p].pc # "idle"
    /\ crashes < MaxCrashes
    /\ crashes' = crashes + 1
    /\ doubt' = IF InDoubt(me[p]) THEN doubt \cup {me[p].run} ELSE doubt
    /\ Return(p)
    /\ UNCHANGED <<storeVars, now, effects, asked, stuck>>

Step(p) ==
    \/ Boot(p) \/ BootRun(p) \/ BootState(p) \/ BootEvent(p) \/ Check(p)
    \/ Loop(p) \/ Request(p) \/ Model(p) \/ Respond(p) \/ Branch(p)
    \/ StepStart(p) \/ StepState(p) \/ StepEvent(p) \/ Execute(p) \/ StepOk(p)
    \/ OkState(p) \/ OkEvent(p) \/ BadEvent(p) \/ ToolFail(p) \/ FailState(p) \/ FailEvent(p)
    \/ Reconcile(p)
    \/ Ask(p) \/ AskStep(p) \/ AskRun(p) \/ AskState(p) \/ AskEvent(p)
    \/ Approval(p) \/ Denied(p) \/ Claimed(p) \/ ResumeRun(p) \/ Approved(p)
    \/ SavesExecution(p) \/ ApprovedFail(p) \/ BudgetStep(p) \/ BudgetEvent(p)
    \/ FailRun(p) \/ Finish(p) \/ Replay(p) \/ Seal(p) \/ Evaluate(p) \/ SavesEvaluation(p)
    \/ Conclude(p)

RuntimeNext ==
    \/ \E p \in Processes : Step(p) \/ Crash(p)
    \/ \E p \in Processes, r \in Runs : Start(p, r) \/ Resume(p, r)
    \/ \E r \in Runs, o \in Ordinals, outcome \in {"approved", "denied"} : Decide(r, o, outcome)
    \/ \E r \in Runs : Cancel(r)
    \/ Tick

RuntimeSpec == RuntimeInit /\ [][RuntimeNext]_runtimeVars

\* A started call runs on (weak fairness of Step(p), which is enabled whenever the
\* call is under way), and runs are resumed for as long as there is a way to.
FairRuntimeSpec ==
    /\ RuntimeSpec
    /\ \A p \in Processes : []<>(me[p].pc = "idle") \/ []<><<Step(p)>>_runtimeVars
    /\ \A p \in Processes, r \in Runs : WF_runtimeVars(Resume(p, r))

-----------------------------------------------------------------------------
(* Properties. *)

\* A tool call is entered at most once, whatever crashes, resumes, decisions and
\* second processes there are ("refusing unsafe replay"), and one that went through
\* an approval only with an approval that stands.
ToolRunsOnce ==
    \A r \in Runs, o \in Ordinals :
        /\ effects[r][o] <= 1
        /\ steps[r][Key(o)].approval # None /\ effects[r][o] = 1 =>
               decisions[ApprovalOf(r, o)] = "approved"

\* A completed trace is whole: each of its tool calls has ended, has one result
\* event that says how, and was entered if it succeeded; the events of a crash in
\* the middle of a result are repaired before the model sees the result.
CompletedTraceIsWhole ==
    \A r \in Runs : OfKind(r, "completed") # <<>> =>
        \A o \in Taken(r) :
            LET results == SelectSeq(events[r], LAMBDA e :
                    e.kind \in {"tool_succeeded", "tool_failed"} /\ e.n = o)
                step == steps[r][Key(o)]
            IN
            /\ Len(results) = 1
            /\ (results[1].kind = "tool_succeeded") = (step.status = "succeeded")
            /\ step.status \in {"succeeded", "failed"}
            /\ step.status = "succeeded" => effects[r][o] = 1

\* A run never has two evaluations of the runtime: replay_or_seal_terminal_failure
\* takes a second one for an inconsistent store.
OneRuntimeEvaluation == \A r \in Runs : Len(evaluations[r]) <= 1

\* A decided approval is taken up: its run stops waiting, unless a crash left the
\* evidence of the decision half written.
DecisionIsTakenUp ==
    \A r \in Runs, o \in Ordinals :
        decisions[ApprovalOf(r, o)] # None /\ steps[r][Key(o)].status = "waiting" ~>
            steps[r][Key(o)].status # "waiting" \/ runs[r].status = "cancelled" \/ r \in stuck
=============================================================================
