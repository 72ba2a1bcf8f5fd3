-------------------------- MODULE TraceEvaluation --------------------------
(***************************************************************************)
(* The deterministic evaluator of agent traces, and the traces it reads.   *)
(*                                                                         *)
(* The first half is the evaluator: ten checks over a run, its steps, its  *)
(* events and the evidence of its approvals.  The second half writes the   *)
(* trace of a run the way the generic runtime does, with the clock moving  *)
(* between any two writes, and may then put one record of it out of true.  *)
(* Left out are the fields no check reads: the run's mode, retry count and *)
(* revision, a step's error and revision, an event's identifier and the    *)
(* reason of a decision.                                                   *)
(*                                                                         *)
(* Identifiers, arguments, outputs and instants are numbers, None (zero)   *)
(* where the code has no value.  A digest is the value it is taken of; a   *)
(* signature is a flag, so a changed record is one that was signed again.  *)
(***************************************************************************)
EXTENDS Integers, Sequences, SequencesExt, FiniteSets

CONSTANTS
    Expected,    \* expected_calls: [op, args, approved], in order
    Additional,  \* allow_additional_calls
    References,  \* required_final_output_references: [call, source]
    Tools,       \* the allow-list of the agent
    Governed,    \* operations whose registry entry is HumanOnly
    Calls,       \* calls the model may ask for: [op, args]
    ApprovalTtl,
    MaxSteps,    \* bound: tool calls of the run
    MaxClock,    \* bound: ticks
    MaxDamage    \* bound: records put out of true

None == 0
Actor == 1
Agent == 2
Goal == 3
Human == 4
Model == 5
RunId == 6
Wrong == 99

NoProof == [id |-> None, actor |-> None, op |-> None, input |-> None, output |-> None, at |-> None,
            signed |-> FALSE]

\* DeterministicTraceEvaluator::new refuses a reference to a call it does not expect.
PolicyIsValid == \A n \in DOMAIN References : References[n].call \in DOMAIN Expected

-----------------------------------------------------------------------------
(* The evaluator.  A trace is [run, steps, events, approvals]; an issue is  *)
(* named as in the code where it matters, and most are conditions.          *)

Same(step, call) == step.op = call.op /\ step.input = call.args

\* match_expected_calls: each call takes the first step that is left for it.
RECURSIVE MatchFrom(_, _, _)
MatchFrom(expected, observed, next) ==
    IF expected = <<>> THEN <<>>
    ELSE LET here == {n \in next..Len(observed) : Same(observed[n], Head(expected))}
             first == IF here = {} THEN None ELSE CHOOSE n \in here : \A k \in here : n <= k
         IN  <<first>> \o MatchFrom(Tail(expected), observed,
                                    IF first = None THEN next ELSE first + 1)

Matched(steps) == MatchFrom(Expected, steps, 1)

CallsAsExpected(steps) ==
    /\ \A n \in DOMAIN Expected : Matched(steps)[n] # None
    /\ Additional \/ Len(steps) = Len(Expected)

\* invalid_step_details
StepIsValid(run, s) ==
    LET p == s.proof IN
    /\ s.run = run.id
    /\ s.status = "succeeded"
    /\ s.output # None /\ p.id # None
    /\ p.actor = run.actor /\ p.actor = Actor
    /\ p.op = s.op /\ p.input = s.input /\ p.output = s.output
    /\ p.signed
    /\ s.started # None /\ s.completed # None
    /\ s.started <= p.at /\ p.at <= s.completed

\* approval_evidence_issues: who asked for what, who decided it in time, and what was executed.
RequestFits(run, s, e) ==
    LET q == e.request IN
    /\ e.approver = Human
    /\ q.signed /\ q.by = run.actor /\ q.by = Actor
    /\ q.op = s.op /\ q.input = s.input
    /\ q.at < q.expires
    /\ s.started # None /\ s.started <= q.at

DecisionFits(e) ==
    LET q == e.request
        d == e.decision
    IN  /\ d.signed /\ d.by = e.approver
        /\ d.request = q.id /\ d.digest = q
        /\ d.outcome = "approved"
        /\ q.at <= d.at /\ d.at <= q.expires

ExecutionFits(run, s, e) ==
    LET x == e.execution
        p == x.proof
    IN  /\ x.request = e.request.id
        /\ e.decision.at <= x.at /\ x.at <= e.request.expires
        /\ s.completed # None /\ x.at <= s.completed
        /\ s.output # None /\ s.output = x.output
        /\ s.proof = p
        /\ p.at = x.at
        /\ p.actor = run.actor /\ p.op = s.op /\ p.input = s.input
        /\ p.output = x.output
        /\ p.signed

EvidenceFits(run, s, e) == RequestFits(run, s, e) /\ DecisionFits(e) /\ ExecutionFits(run, s, e)

OfRequest(approvals, request) == SelectSeq(approvals, LAMBDA e : e.request.id = request)

\* approval_result: one step, one request of its own, one piece of evidence.
ApprovalPasses(t, n, used) ==
    /\ n # None
    /\ t.steps[n].request # None
    /\ t.steps[n].request \notin used
    /\ LET found == OfRequest(t.approvals, t.steps[n].request)
       IN  Len(found) = 1 /\ EvidenceFits(t.run, t.steps[n], found[1])

\* required_approval_results: the calls that need an approval, then every other step that has one;
\* evidence nobody used is an issue.
RECURSIVE ApprovalsPass(_, _, _)
ApprovalsPass(t, order, used) ==
    IF order = <<>> THEN \A n \in DOMAIN t.approvals : t.approvals[n].request.id \in used
    ELSE /\ ApprovalPasses(t, Head(order), used)
         /\ ApprovalsPass(t, Tail(order), used \cup {t.steps[Head(order)].request})

Required(t) ==
    LET match == Matched(t.steps)
        needed == SelectSeq([n \in DOMAIN Expected |-> n], LAMBDA n : Expected[n].approved)
    IN  [k \in DOMAIN needed |-> match[needed[k]]]

ApprovalOrder(t) ==
    LET checked == {t.steps[n].id : n \in {k \in ToSet(Required(t)) : k # None}}
        others == SelectSeq([n \in DOMAIN t.steps |-> n],
                            LAMBDA n : t.steps[n].request # None /\ t.steps[n].id \notin checked)
    IN  Required(t) \o others

\* final_output_reference_results: the values that the report of the run must contain.
Reported(t) == IF t.events # <<>> /\ Last(t.events).kind = "completed"
               THEN Last(t.events).data.report ELSE {}

ReferenceIsReported(t, ref) ==
    LET n == Matched(t.steps)[ref.call]
        value == CASE n = None -> None
                   [] n # None /\ ref.source = "arguments" -> Expected[ref.call].args
                   [] n # None /\ ref.source = "output" -> t.steps[n].output
                   [] n # None /\ ref.source = "proof" -> t.steps[n].proof.id
    IN  value # None /\ value \in Reported(t)

\* step_topology_issues: times of the run, and each step against the run and the step before it.
RunTimesFit(run) ==
    /\ run.created <= run.updated
    /\ run.completed # None => run.created <= run.completed /\ run.completed = run.updated
    /\ (run.completed # None) = (run.status \in {"succeeded", "failed", "cancelled"})

StepTimesFit(run, s) ==
    /\ run.created <= s.created /\ s.created <= s.updated
    /\ s.started # None => s.created <= s.started
    /\ s.completed # None => s.started # None /\ s.started <= s.completed
    /\ run.completed # None =>
           \A at \in {s.created, s.updated, s.started, s.completed} : at <= run.completed

RetryFits(s, prev) ==
    /\ s.attempt = prev.attempt + 1
    /\ s.retryOf = prev.id
    /\ prev.status \in {"failed", "cancelled"}
    /\ s.op = prev.op /\ s.input = prev.input
    /\ prev.completed # None /\ prev.completed <= s.created

FirstFits(s, ordinal) == s.ordinal = ordinal /\ s.attempt = 1 /\ s.retryOf = None

TopologyFits(run, steps) ==
    /\ RunTimesFit(run)
    /\ \A n \in DOMAIN steps :
           /\ \A k \in 1..(n - 1) : steps[k].id # steps[n].id
           /\ StepTimesFit(run, steps[n])
           /\ IF n > 1 /\ steps[n].ordinal = steps[n - 1].ordinal
              THEN RetryFits(steps[n], steps[n - 1])
              ELSE FirstFits(steps[n], Cardinality({steps[k].ordinal : k \in 1..(n - 1)}))

\* lifecycle_issues, event by event.
EventFits(run, events, n) ==
    /\ n > 1 => events[n - 1].at <= events[n].at
    /\ events[n].run = run.id
    /\ events[n].seq = n - 1
    /\ events[n].intact

\* validate_tool_requested
ToolRequestedFits(s, decision, ev) ==
    /\ ev.data.step = s.id
    /\ ev.data.op = s.op
    /\ ev.data.callId # None /\ ev.data.callId = decision.callId
    /\ ev.data.tool = decision.name
    /\ ev.data.args = s.input
    /\ ev.data.args = decision.args

RequiredInTime(q, tool, ev) == q.at <= ev.at /\ ev.at <= q.expires /\ tool.at <= q.at

\* validate_approval_required
ApprovalRequiredFits(t, s, tool, ev) ==
    /\ ev.data.step = s.id /\ ev.data.request = s.request
    /\ ev.data.op = s.op
    /\ LET found == OfRequest(t.approvals, s.request)
       IN  /\ Len(found) = 1
           /\ ev.data.expires = found[1].request.expires
           /\ RequiredInTime(found[1].request, tool, ev)

\* validate_approval_resumed
ApprovalResumedFits(t, s, required, ev) ==
    /\ ev.data.step = s.id /\ ev.data.request = s.request
    /\ LET found == OfRequest(t.approvals, s.request)
           e == found[1]
       IN  /\ Len(found) = 1
           /\ ev.data.by = e.decision.by /\ ev.data.outcome = e.decision.outcome
           /\ e.decision.at <= ev.at /\ ev.at <= e.request.expires
           /\ required.at <= e.decision.at
           /\ ev.at <= e.execution.at

\* validate_tool_succeeded
ToolSucceededFits(s, callId, ev) ==
    /\ ev.data.step = s.id
    /\ ev.data.callId = callId
    /\ ev.data.op = s.op
    /\ ev.data.proof = s.proof.id
    /\ s.proof.id # None => s.proof.at <= ev.at
    /\ s.completed # None => s.completed <= ev.at

Is(t, n, kind) == n \in DOMAIN t.events /\ t.events[n].kind = kind

\* Mutant of ModelTurnFits: the thread of responses is not followed.
ModelTurnFitsAlone(t, n, call, previous) ==
    /\ Is(t, n, "model_requested") /\ Is(t, n + 1, "model_responded")
    /\ t.events[n].data.model = Model
    /\ t.events[n].data.call = call
    /\ t.events[n + 1].data.response # None

\* One turn of the walk: a numbered request that continues the previous response.
ModelTurnFits(t, n, call, previous) ==
    /\ Is(t, n, "model_requested") /\ Is(t, n + 1, "model_responded")
    /\ t.events[n].data.model = Model
    /\ t.events[n].data.call = call
    /\ t.events[n].data.previous = previous
    /\ t.events[n + 1].data.response # None

\* The events of one tool call, from the request that the model's answer explains.
ToolCallFits(t, s, decision, n) ==
    LET governed == s.request # None
        done == IF governed THEN n + 3 ELSE n + 1
    IN  /\ Is(t, n, "tool_requested")
        /\ ToolRequestedFits(s, decision, t.events[n])
        /\ governed =>
               /\ Is(t, n + 1, "approval_required")
               /\ ApprovalRequiredFits(t, s, t.events[n], t.events[n + 1])
               /\ Is(t, n + 2, "approval_resumed")
               /\ ApprovalResumedFits(t, s, t.events[n + 1], t.events[n + 2])
        /\ Is(t, done, "tool_succeeded")
        /\ ToolSucceededFits(s, t.events[n].data.callId, t.events[done])

FinishFits(t, decision, n) ==
    /\ n = Len(t.events)
    /\ decision.report # {}
    /\ decision.report = Reported(t)

\* The walk of lifecycle_issues over the events between the first and the last.
RECURSIVE WalkFits(_, _, _, _, _)
WalkFits(t, n, step, call, previous) ==
    /\ n < Len(t.events)
    /\ ModelTurnFits(t, n, call, previous)
    /\ LET decision == t.events[n + 1].data IN
       \/ /\ decision.type = "finish"
          /\ FinishFits(t, decision, n + 2)
          /\ step = Len(t.steps) + 1
       \/ /\ decision.type = "tool_call"
          /\ step \in DOMAIN t.steps
          /\ ToolCallFits(t, t.steps[step], decision, n + 2)
          /\ WalkFits(t, n + (IF t.steps[step].request # None THEN 6 ELSE 4), step + 1, call + 1,
                      decision.response)

EndsFit(t) ==
    LET first == Head(t.events)
        last == Last(t.events)
    IN  /\ first.kind = "started" /\ last.kind = "completed"
        /\ t.run.created <= first.at
        /\ first.data.agent = Agent /\ first.data.goal = t.run.goal
        /\ t.run.completed # None /\ t.run.completed <= last.at
        /\ last.data.report # {}
        /\ \A kind \in {"started", "completed"} :
               Cardinality({n \in DOMAIN t.events : t.events[n].kind = kind}) = 1

LifecycleFits(t) ==
    /\ TopologyFits(t.run, t.steps)
    /\ \A n \in DOMAIN t.events : EventFits(t.run, t.events, n)
    /\ t.events # <<>>
    /\ EndsFit(t)
    /\ WalkFits(t, 2, 1, 1, None)

\* evaluate sorts the steps it is given by (ordinal, attempt, id).
Before(s, u) ==
    \/ s.ordinal < u.ordinal
    \/ s.ordinal = u.ordinal /\ s.attempt < u.attempt
    \/ s.ordinal = u.ordinal /\ s.attempt = u.attempt /\ s.id < u.id

Observed(t) == [t EXCEPT !.steps = SortSeq(t.steps, Before)]

\* evaluate: the ten checks of a trace whose steps are sorted.
ChecksOf(t) ==
    [run_succeeded |-> t.run.status = "succeeded",
     run_bound_to_agent |-> t.run.agent = Agent,
     trusted_run_actor |-> t.run.actor = Actor,
     expected_tool_calls |-> CallsAsExpected(t.steps),
     successful_steps_with_valid_proofs |-> \A n \in DOMAIN t.steps : StepIsValid(t.run, t.steps[n]),
     calls_allowlisted |-> \A n \in DOMAIN t.steps : t.steps[n].op \in Tools,
     required_approvals |-> ApprovalsPass(t, ApprovalOrder(t), {}),
     final_output_references |-> \A n \in DOMAIN References : ReferenceIsReported(t, References[n]),
     lifecycle_integrity |-> LifecycleFits(t),
     no_failure_events |-> \A n \in DOMAIN t.events :
                               t.events[n].kind \notin {"tool_failed", "failed", "budget_exceeded"}]

Checks(t) == ChecksOf(Observed(t))

Failed(t) == LET checks == Checks(t) IN {name \in DOMAIN checks : ~checks[name]}

Passed(t) == Failed(t) = {}

-----------------------------------------------------------------------------
(* The trace of a run, as the generic runtime writes it. *)

VARIABLES
    now, pc,
    trace,    \* [run, steps, events, approvals]
    turn,     \* [call, previous, decision]: the model's turn
    pending,  \* the evidence of the approval that is being sought
    damage    \* records put out of true

vars == <<now, pc, trace, turn, pending, damage>>

NoEvidence ==
    [request |-> [id |-> None, by |-> None, op |-> None, input |-> None, at |-> None,
                  expires |-> None, signed |-> FALSE],
     decision |-> [request |-> None, digest |-> None, by |-> None, outcome |-> "none", at |-> None,
                   signed |-> FALSE],
     approver |-> None,
     execution |-> [request |-> None, at |-> None, output |-> None, proof |-> NoProof]]

Event(kind, data) ==
    [run |-> RunId, seq |-> Len(trace.events), kind |-> kind, at |-> now, intact |-> TRUE,
     data |-> data]

Init ==
    /\ now = 1 /\ pc = "request" /\ damage = 0
    /\ turn = [call |-> 0, previous |-> None,
               decision |-> [response |-> None, type |-> "none"]]
    /\ pending = NoEvidence
    /\ trace = [run |-> [id |-> RunId, actor |-> Actor, agent |-> Agent, goal |-> Goal,
                         status |-> "running", created |-> 1, updated |-> 1, completed |-> None],
                steps |-> <<>>,
                events |-> <<[run |-> RunId, seq |-> 0, kind |-> "started", at |-> 1,
                              intact |-> TRUE, data |-> [agent |-> Agent, goal |-> Goal]]>>,
                approvals |-> <<>>]

Writes(at, events, next) ==
    /\ pc = at
    /\ trace' = [trace EXCEPT !.events = @ \o events]
    /\ pc' = next

Current == trace.steps[Len(trace.steps)]

WithCurrent(s) == [trace EXCEPT !.steps[Len(trace.steps)] = s]

RequestModel ==
    /\ Writes("request", <<Event("model_requested", [model |-> Model, call |-> turn.call + 1,
                                                     previous |-> turn.previous])>>, "respond")
    /\ turn' = [turn EXCEPT !.call = @ + 1]
    /\ UNCHANGED <<now, pending, damage>>

\* The model finishes, or calls a tool; a call beyond the bound does not happen.
Respond(decision) ==
    /\ decision.type = "tool_call" => Len(trace.steps) < MaxSteps
    /\ Writes("respond", <<Event("model_responded", decision)>>,
              IF decision.type = "finish" THEN "finish" ELSE "step")
    /\ turn' = [turn EXCEPT !.decision = decision, !.previous = decision.response]
    /\ UNCHANGED <<now, pending, damage>>

Response == 20 + turn.call

\* What the report of a run can contain: the values it saw, or none of them.
Seen == {Goal} \cup UNION {{s.input, s.output, s.proof.id} : s \in ToSet(trace.steps)}

FinishDecision(report) ==
    [response |-> Response, type |-> "finish", report |-> report]

ToolDecision(call) ==
    [response |-> Response, type |-> "tool_call", name |-> call.op, callId |-> 30 + turn.call,
     args |-> call.args]

BeginStep ==
    /\ pc = "step"
    /\ trace' = [trace EXCEPT !.steps = Append(@,
           [id |-> 40 + Len(trace.steps), run |-> RunId, ordinal |-> Len(trace.steps),
            attempt |-> 1, retryOf |-> None, op |-> turn.decision.name,
            input |-> turn.decision.args, status |-> "running", output |-> None, proof |-> NoProof,
            request |-> None, created |-> now, updated |-> now, started |-> now,
            completed |-> None])]
    /\ pc' = "tool"
    /\ UNCHANGED <<now, turn, pending, damage>>

RequestTool ==
    /\ Writes("tool", <<Event("tool_requested",
                              [step |-> Current.id, callId |-> turn.decision.callId,
                               tool |-> turn.decision.name, op |-> Current.op,
                               args |-> turn.decision.args])>>,
              IF Current.op \in Governed THEN "ask" ELSE "execute")
    /\ UNCHANGED <<now, turn, pending, damage>>

\* wait_for_approval: the request, then step, run and state ...
Ask ==
    LET id == 50 + Len(trace.steps) IN
    /\ pc = "ask"
    /\ pending' = [NoEvidence EXCEPT !.request =
           [id |-> id, by |-> Actor, op |-> Current.op, input |-> Current.input, at |-> now,
            expires |-> now + ApprovalTtl, signed |-> TRUE]]
    /\ trace' = WithCurrent([Current EXCEPT !.request = id, !.status = "waiting", !.updated = now])
    /\ pc' = "required"
    /\ UNCHANGED <<now, turn, damage>>

\* ... and, in time or the run is refused for ever, the event.
RequireApproval ==
    /\ now <= pending.request.expires
    /\ Writes("required", <<Event("approval_required",
                                  [step |-> Current.id, request |-> Current.request,
                                   op |-> Current.op, expires |-> pending.request.expires])>>,
              "waiting")
    /\ UNCHANGED <<now, turn, pending, damage>>

\* sign_approval_decision: as soon as the waiting state is stored.
Decide(outcome) ==
    /\ pc \in {"required", "waiting"}
    /\ pending.decision.at = None
    /\ now <= pending.request.expires
    /\ pending' = [pending EXCEPT !.approver = Human, !.decision =
           [request |-> pending.request.id, digest |-> pending.request, by |-> Human,
            outcome |-> outcome, at |-> now, signed |-> TRUE]]
    /\ UNCHANGED <<now, pc, trace, turn, damage>>

\* resume_approval: the step is claimed (or fails), then the event is written.
Resume ==
    LET ok == pending.decision.outcome = "approved"
        s == [Current EXCEPT !.status = IF ok THEN "running" ELSE "failed", !.updated = now,
                             !.completed = IF ok THEN None ELSE now]
    IN  /\ pc = "waiting"
        /\ pending.decision.at # None
        /\ trace' = [WithCurrent(s) EXCEPT !.events = Append(@,
               Event("approval_resumed", [step |-> s.id, request |-> s.request,
                                          by |-> pending.decision.by,
                                          outcome |-> pending.decision.outcome]))]
        /\ pc' = IF ok THEN "execute" ELSE "fail"
        /\ UNCHANGED <<now, turn, pending, damage>>

\* The engine runs the tool; for an approved call within the approval, and with its execution saved.
Execute ==
    LET p == [id |-> 60 + Len(trace.steps), actor |-> Actor, op |-> Current.op,
              input |-> Current.input, output |-> 70 + Len(trace.steps), at |-> now,
              signed |-> TRUE]
        e == [pending EXCEPT !.execution = [request |-> pending.request.id, at |-> now,
                                            output |-> p.output, proof |-> p]]
        t == WithCurrent([Current EXCEPT !.proof = p, !.output = p.output])
    IN  /\ pc = "execute"
        /\ Current.request # None => now <= pending.request.expires
        /\ trace' = IF Current.request = None THEN t ELSE [t EXCEPT !.approvals = Append(@, e)]
        /\ pending' = NoEvidence
        /\ pc' = "settle"
        /\ UNCHANGED <<now, turn, damage>>

Settle ==
    /\ pc = "settle"
    /\ trace' = WithCurrent([Current EXCEPT !.status = "succeeded", !.updated = now,
                                            !.completed = now])
    /\ pc' = "success"
    /\ UNCHANGED <<now, turn, pending, damage>>

SucceedTool ==
    /\ Writes("success", <<Event("tool_succeeded",
                                 [step |-> Current.id, callId |-> turn.decision.callId,
                                  op |-> Current.op, proof |-> Current.proof.id])>>, "request")
    /\ UNCHANGED <<now, turn, pending, damage>>

EndRun(at, status, next) ==
    /\ pc = at
    /\ trace' = [trace EXCEPT !.run.status = status, !.run.updated = now, !.run.completed = now]
    /\ pc' = next
    /\ UNCHANGED <<now, turn, pending, damage>>

FinishRun == EndRun("finish", "succeeded", "completed")

FailRun == EndRun("fail", "failed", "failed")

Seal ==
    /\ \/ Writes("completed", <<Event("completed", [report |-> turn.decision.report])>>, "done")
       \/ Writes("failed", <<Event("failed", [report |-> {}])>>, "ended")
    /\ UNCHANGED <<now, turn, pending, damage>>

Tick ==
    /\ now < MaxClock
    /\ pc \notin {"done", "ended"}
    /\ now' = now + 1
    /\ UNCHANGED <<pc, trace, turn, pending, damage>>

-----------------------------------------------------------------------------
(* One record out of true. *)

Flags == {"signed", "intact"}
Words == {"kind", "status", "outcome", "type"}
Times == {"at", "expires", "created", "updated", "started", "completed"}

\* Other values for a field: an instant before or after all others, a stranger's identifier.
Broken(r, f) ==
    CASE f \in Flags -> {[r EXCEPT ![f] = FALSE]}
      [] f \in Words -> {[r EXCEPT ![f] = "failed"]}
      [] f \in Times -> {[r EXCEPT ![f] = Wrong], [r EXCEPT ![f] = 0]}
      [] f = "report" -> {[r EXCEPT ![f] = @ \cup {Wrong}]}
      [] OTHER -> {[r EXCEPT ![f] = Wrong]}

\* The flat fields of a record, one of them broken.
BrokenRecords(r, nested) == UNION {Broken(r, f) : f \in DOMAIN r \ nested} \ {r}

Renumbered(events) == [n \in DOMAIN events |-> [events[n] EXCEPT !.seq = n - 1]]

BrokenEvents(events) ==
    UNION {{RemoveAt(events, n), Renumbered(RemoveAt(events, n)),
            Renumbered(InsertAt(events, n, events[n]))} : n \in DOMAIN events}
    \cup {Renumbered([events EXCEPT ![n] = events[n + 1], ![n + 1] = events[n]]) :
              n \in 1..(Len(events) - 1)}
    \cup UNION {{[events EXCEPT ![n] = e] : e \in BrokenRecords(events[n], {"data"})
                     \cup {[events[n] EXCEPT !.data = d] :
                               d \in BrokenRecords(events[n].data, {})}} : n \in DOMAIN events}

BrokenSteps(steps) ==
    UNION {{RemoveAt(steps, n), InsertAt(steps, n, steps[n])} : n \in DOMAIN steps}
    \cup UNION {{[steps EXCEPT ![n] = s] : s \in BrokenRecords(steps[n], {"proof"})
                     \cup {[steps[n] EXCEPT !.proof = p] :
                               p \in BrokenRecords(steps[n].proof, {})}} : n \in DOMAIN steps}

BrokenEvidence(e) ==
    {[e EXCEPT !.request = q] : q \in BrokenRecords(e.request, {})}
    \cup {[e EXCEPT !.decision = d] : d \in BrokenRecords(e.decision, {"digest"})}
    \cup {[e EXCEPT !.execution = x] : x \in BrokenRecords(e.execution, {"proof"})}
    \cup {[e EXCEPT !.execution.proof = p] : p \in BrokenRecords(e.execution.proof, {})}
    \cup {[e EXCEPT !.approver = Wrong]}

BrokenApprovals(approvals) ==
    UNION {{RemoveAt(approvals, n), InsertAt(approvals, n, approvals[n])}
               \cup {[approvals EXCEPT ![n] = e] : e \in BrokenEvidence(approvals[n])} :
                   n \in DOMAIN approvals}

Damages(t) ==
    {[t EXCEPT !.run = r] : r \in BrokenRecords(t.run, {})}
    \cup {[t EXCEPT !.events = es] : es \in BrokenEvents(t.events)}
    \cup {[t EXCEPT !.steps = ss] : ss \in BrokenSteps(t.steps)}
    \cup {[t EXCEPT !.approvals = as] : as \in BrokenApprovals(t.approvals)}

\* What no other record repeats: how early the run was created and how late its last event was
\* written, and the name of the last response.
Harmless(t) ==
    LET n == Len(t.events) IN
    {[t EXCEPT !.run.created = 0], [t EXCEPT !.events[n].at = Wrong],
     [t EXCEPT !.events[n - 1].data.response = Wrong]}

Damage ==
    /\ pc = "done"
    /\ damage < MaxDamage
    /\ Passed(trace)
    /\ damage' = damage + 1
    /\ trace' \in Damages(trace) \ Harmless(trace)
    /\ UNCHANGED <<now, pc, turn, pending>>

Next ==
    \/ RequestModel
    \/ \E report \in {Seen, {Goal}} : Respond(FinishDecision(report))
    \/ \E call \in Calls : Respond(ToolDecision(call))
    \/ BeginStep \/ RequestTool \/ Ask \/ RequireApproval
    \/ \E outcome \in {"approved", "denied"} : Decide(outcome)
    \/ Resume \/ Execute \/ Settle \/ SucceedTool \/ FinishRun \/ FailRun \/ Seal
    \/ Damage
    \/ Tick

Spec == Init /\ [][Next]_vars

-----------------------------------------------------------------------------
(* Properties. *)

\* A decision that was signed before the event that announces its request was written.
DecidedEarly(t) ==
    \E n \in DOMAIN t.events, k \in DOMAIN t.approvals :
        /\ t.events[n].kind = "approval_required"
        /\ t.events[n].data.request = t.approvals[k].request.id
        /\ t.approvals[k].decision.at < t.events[n].at

\* What the runtime writes, the evaluator accepts: a run that it completed, with time passing
\* between any two writes, passes every check that does not depend on the task policy; the
\* chronology of approvals is the exception when a decision overtakes the event of its request.
CompletedRunIsSound ==
    pc = "done" /\ damage = 0 /\ ~DecidedEarly(trace) =>
        Failed(trace) \subseteq {"expected_tool_calls", "required_approvals",
                                 "final_output_references"}

\* evaluate: a trace that passes does not pass any more when an event is lost, repeated,
\* renumbered or exchanged with the next; when a step or the evidence of an approval is lost or
\* repeated; when one identifier, value, status or signature of the run, a step, a proof, an event
\* or an approval is another; or when one instant lies before or after all others.  What passes
\* is Harmless, another order of the steps, which are sorted, and an instant that moves inside
\* the window it has to lie in.
DamageIsCaught == damage > 0 => ~Passed(trace)
=============================================================================
