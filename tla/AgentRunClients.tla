--------------------------- MODULE AgentRunClients ---------------------------
(***************************************************************************)
(* Independent processes over one agent-run store: runtimes, the `run` and *)
(* `approval` commands, anything that goes through the storage API.        *)
(*                                                                         *)
(* A client loads a run and writes what the kernel makes of the rows it    *)
(* has loaded, however old they are by then.  The answer to a checkpoint   *)
(* append may be lost, and the client then retries the same append.        *)
(***************************************************************************)
EXTENDS AgentRunStore

CONSTANTS
    Clients,
    Setups,          \* setup digests of live starts
    Readinesses,     \* readiness digests of live starts
    MaxRevision,     \* bound on the revision of a run
    MaxStepRevision, \* bound on the revision of a step
    MaxTrace         \* bound on the checkpoints and on the events of a run

VARIABLES
    views,  \* views[c]: the run c has loaded, as it was then
    acked   \* the checkpoints, live starts included, whose success was reported, and to whom

clientVars == <<storeVars, views, acked>>

ClientKinds == {"model_requested", "completed", "failed"}

Unloaded == [run |-> None, row |-> NoRun, steps |-> <<>>, seen |-> <<>>, heard |-> 0]

ClientsInit ==
    /\ TraceInit
    /\ views = [c \in Clients |-> Unloaded]
    /\ acked = {}

-----------------------------------------------------------------------------
Load(c, r) ==
    /\ views' = [views EXCEPT ![c] =
           [run |-> r, row |-> runs[r], steps |-> steps[r], seen |-> checkpoints[r],
            heard |-> Len(events[r])]]
    /\ UNCHANGED <<storeVars, acked>>

\* cmd_run_start, cmd_run_complete, cmd_run_cancel and the runtime's own changes.
ChangeRun(c, status) ==
    LET v == views[c] IN
    LET row == IF v.row.status = "absent" THEN NewRun ELSE RunTo(v.row, status) IN
    /\ v.run # None
    /\ v.row.status = "absent" \/ <<v.row.status, status>> \in RunMoves
    /\ row.revision <= MaxRevision
    /\ SaveRun(v.run, row)
    /\ views' = [views EXCEPT ![c] = [v EXCEPT !.row = row]]
    /\ UNCHANGED acked

\* A first attempt, or cmd_run_retry after one that failed or was cancelled.
MayAdd(v, k) ==
    /\ v.steps[k].status = "absent"
    /\ k[2] = 1 \/ \E n \in Attempts : n + 1 = k[2] /\ Retryable(v.steps[<<k[1], n>>])

ChangeStep(c, k, status, a) ==
    LET v == views[c] IN
    LET old == v.steps[k] IN
    LET row == IF old.status = "absent" THEN NewStep
               ELSE CASE status = "waiting" -> StepWaits(old, a)
                      [] status = "succeeded" -> StepSucceeds(old, "valid")
                      [] OTHER -> StepTo(old, status)
    IN
    /\ v.run # None
    /\ IF old.status = "absent" THEN MayAdd(v, k) ELSE <<old.status, status>> \in StepMoves
    /\ status = "waiting" => old.approval \in {None, a}
    /\ row.revision <= MaxStepRevision
    /\ SaveStep(v.run, k, row)
    /\ views' = [views EXCEPT ![c] = [v EXCEPT !.steps = [v.steps EXCEPT ![k] = row]]]
    /\ UNCHANGED acked

\* The checkpoint c has ready to follow the ones it has seen.
Candidate(c) ==
    LET seen == views[c].seen IN
    [by |-> c, after |-> IF seen = <<>> THEN None ELSE seen[Len(seen)].by]

TailSeen(c) == LET seen == views[c].seen IN IF seen = <<>> THEN None ELSE seen[Len(seen)]

\* The view after an append that was reported to have succeeded.
Learns(c) ==
    LET v == views[c] IN
    /\ views' = [views EXCEPT ![c] = [v EXCEPT !.seen = Append(v.seen, Candidate(c))]]
    /\ acked' = acked \cup {<<v.run, Len(v.seen) + 1, c>>}

AppendsCheckpoint(c) ==
    LET v == views[c] IN
    /\ v.run # None
    /\ Len(v.seen) < MaxTrace
    /\ AppendCheckpoint(v.run, Len(v.seen), TailSeen(c), Candidate(c))
    /\ Learns(c) \/ UNCHANGED <<views, acked>>

RetriesAppend(c) ==
    LET v == views[c] IN
    /\ v.run # None
    /\ Len(v.seen) < MaxTrace
    /\ IsExactRetry(v.run, Len(v.seen), TailSeen(c), Candidate(c))
    /\ Learns(c)
    /\ UNCHANGED storeVars

\* cmd_run_checkpoint and the generic runtime.
SavesCheckpoint(c) ==
    LET v == views[c] IN
    /\ v.run # None
    /\ Len(v.seen) < MaxTrace
    /\ SaveCheckpoint(v.run, Len(v.seen), Candidate(c))
    /\ Learns(c)

SavesEvent(c, kind) ==
    LET v == views[c] IN
    /\ v.run # None
    /\ v.heard < MaxTrace
    /\ SaveEvent(v.run, v.heard, [kind |-> kind])
    /\ views' = [views EXCEPT ![c] = [v EXCEPT !.heard = v.heard + 1]]
    /\ UNCHANGED acked

Evaluates(c) ==
    /\ views[c].run # None
    /\ Terminal(views[c].row.status)
    /\ evaluations[views[c].run] = <<>>
    /\ SaveEvaluation(views[c].run, c)
    /\ UNCHANGED <<views, acked>>

ApprovalEvidence ==
    /\ \E a \in Approvals :
           \/ SaveRequest(a, "signed")
           \/ \E outcome \in {"approved", "denied"} : SaveDecision(a, outcome)
           \/ SaveExecution(a, "proof")
    /\ UNCHANGED <<views, acked>>

ClaimsStart(c, r, setup, readiness) ==
    /\ ClaimLiveStart(r, setup, readiness, [by |-> c, after |-> None], [kind |-> "started"])
    /\ acked' = acked \cup {<<r, 1, c>>}
    /\ UNCHANGED views

TakenOver(r) == Govern(r) /\ UNCHANGED <<views, acked>>

ClientsNext ==
    \/ \E c \in Clients, r \in Runs : Load(c, r)
    \/ \E c \in Clients, status \in RunStatuses : ChangeRun(c, status)
    \/ \E c \in Clients, k \in Ordinals \X Attempts, status \in StepStatuses, a \in Approvals :
           ChangeStep(c, k, status, a)
    \/ \E c \in Clients :
           AppendsCheckpoint(c) \/ RetriesAppend(c) \/ SavesCheckpoint(c) \/ Evaluates(c)
    \/ \E c \in Clients, kind \in ClientKinds : SavesEvent(c, kind)
    \/ ApprovalEvidence
    \/ \E c \in Clients, r \in Runs, s \in Setups, d \in Readinesses : ClaimsStart(c, r, s, d)
    \/ \E r \in Runs : TakenOver(r)

ClientsSpec == ClientsInit /\ [][ClientsNext]_clientVars

-----------------------------------------------------------------------------
(* Properties. *)

\* The tables hold rows of their types, and a step waits only with the approval it
\* waits for.
TraceTypeOK ==
    /\ runs \in [Runs -> RunRow]
    /\ steps \in [Runs -> [Ordinals \X Attempts -> StepRow]]
    /\ \A r \in Runs, k \in Ordinals \X Attempts :
           steps[r][k].status = "waiting" => steps[r][k].approval # None
    /\ \A r \in Runs : \A n \in DOMAIN events[r] : events[r][n].kind \in EventKinds
    /\ governed \subseteq Runs
    /\ claims \subseteq [setup : Setups, readiness : Readinesses, run : Runs]

\* What a terminal event says of its run stays true: it is the last event of the
\* trace and the run keeps the status it names, although save_agent_run and
\* save_agent_run_event are separate transactions of clients with old rows.
TerminalEventIsLast ==
    \A r \in Runs : \A n \in DOMAIN events[r] :
        events[r][n].kind \in {"completed", "failed", "budget_exceeded"} =>
            /\ n = Len(events[r])
            /\ events[r][n].kind \in SealingEvents(runs[r].status)

HasEnded(r) ==
    \/ runs[r].status = "cancelled"
    \/ \E n \in DOMAIN events[r] :
           events[r][n].kind \in {"completed", "failed", "budget_exceeded"}

\* Nothing of a sealed trace ever changes again, its approvals included: the run,
\* its steps, checkpoints and events, and the requests, decisions and executions
\* that its steps are bound to (reject_if_agent_trace_sealed).
SealedTraceStands ==
    [][\A r \in Runs : HasEnded(r) =>
           /\ UNCHANGED <<runs[r], steps[r], checkpoints[r], events[r]>>
           /\ \A a \in Approvals : BoundTo(r, a) =>
                  UNCHANGED <<requests[a], decisions[a], executions[a]>>]_clientVars

\* Once the operator control plane governs a run, no client of these tables
\* changes anything of it (reject_if_operator_governed_run).
GovernedRunStands ==
    [][\A r \in governed :
           /\ r \in governed'
           /\ UNCHANGED <<runs[r], steps[r], checkpoints[r], events[r], evaluations[r]>>]_clientVars

\* However old the row a client starts from, a run and a step only move along the
\* transitions of the kernel from the row that is stored: no update is lost, no
\* terminal state left and no retry counted twice.
MovesFromStoredRow ==
    [][\A r \in Runs :
           /\ \/ UNCHANGED runs[r]
              \/ runs[r].status = "absent"
              \/ /\ <<runs[r].status, runs'[r].status>> \in RunMoves
                 /\ runs'[r] = RunTo(runs[r], runs'[r].status)
           /\ \A k \in Ordinals \X Attempts :
                  \/ UNCHANGED steps[r][k]
                  \/ steps[r][k].status = "absent"
                  \/ <<steps[r][k].status, steps'[r][k].status>> \in StepMoves]_clientVars

\* A checkpoint whose success was reported to a client, by an append, by the retry of one
\* whose answer was lost, by a save or by a live start, is that client's and stays where it
\* is: two that write at one tail are never both told Appended ("stale observations never
\* insert a row").
AcknowledgedAppendStands ==
    \A a \in acked :
        a[2] \in DOMAIN checkpoints[a[1]] /\ checkpoints[a[1]][a[2]].by = a[3]

\* An approval request belongs to at most one step of one run, so that a decision
\* resumes one call (find_agent_run_step_by_approval reports a second one).
ApprovalBindsOneStep ==
    \A r, q \in Runs, k, j \in Ordinals \X Attempts :
        steps[r][k].approval # None /\ steps[r][k].approval = steps[q][j].approval =>
            r = q /\ k = j

=============================================================================
