--------------------------- MODULE AgentRunProofs ---------------------------
(***************************************************************************)
(* The trace tables under any number of clients with rows of any age: a    *)
(* sealed trace stands, a governed run stands, and every change starts at   *)
(* the stored row.                                                         *)
(***************************************************************************)
EXTENDS AgentRunClients, TLAPS

\* Time limits for the leaves that name no prover.
USE SMTT(30), ZenonT(30)

Calls == Ordinals \X Attempts

EventRow == [kind : EventKinds]

TablesOK ==
    /\ runs \in [Runs -> RunRow]
    /\ steps \in [Runs -> [Calls -> StepRow]]
    /\ events \in [Runs -> Seq(EventRow)]
    /\ DOMAIN checkpoints = Runs /\ DOMAIN evaluations = Runs
    /\ DOMAIN requests = Approvals /\ DOMAIN decisions = Approvals
    /\ DOMAIN executions = Approvals

GovernedExist == \A r \in governed : r \in Runs /\ runs[r].status # "absent"

StoreInv == TablesOK /\ TerminalEventIsLast /\ GovernedExist /\ ApprovalBindsOneStep

\* A row that was loaded is the stored row, or an older revision of it.
Older(old, stored) ==
    /\ old.status # "absent" => old.revision <= stored.revision
    /\ stored.status = "absent" => old.status = "absent"
    /\ old.status # "absent" /\ old.revision = stored.revision => old = stored

ViewOK(v) ==
    /\ DOMAIN v = {"run", "row", "steps", "seen", "heard"}
    /\ v.run # None =>
        /\ v.run \in Runs
        /\ v.row \in RunRow /\ Older(v.row, runs[v.run])
        /\ v.steps \in [Calls -> StepRow]
        /\ \A k \in Calls : Older(v.steps[k], steps[v.run][k])

ViewsOK == DOMAIN views = Clients /\ \A c \in Clients : ViewOK(views[c])

IInv == StoreInv /\ ViewsOK

\* The transactions of the store, with the rows clients bring to them.
Writes ==
    \/ UNCHANGED storeVars
    \/ \E r \in Runs, row \in RunRow : row.status # "absent" /\ SaveRun(r, row)
    \/ \E r \in Runs, k \in Calls, row \in StepRow :
          row.status # "absent" /\ SaveStep(r, k, row)
    \/ \E r \in Runs : \E n, state : SaveCheckpoint(r, n, state)
    \/ \E r \in Runs, event \in EventRow : \E n : SaveEvent(r, n, event)
    \/ \E r \in Runs : \E evaluation : SaveEvaluation(r, evaluation)
    \/ \E a \in Approvals : \E x : SaveRequest(a, x) \/ SaveDecision(a, x) \/ SaveExecution(a, x)
    \/ \E r \in Runs : Govern(r)
    \/ \E r \in Runs : \E s, d, state : ClaimLiveStart(r, s, d, state, [kind |-> "started"])

-----------------------------------------------------------------------------

\* A trace with a terminal event, or cancelled, is one that the store refuses to write.
LEMMA EndedIsSealed ==
    ASSUME StoreInv, NEW r \in Runs, HasEnded(r)
    PROVE  Sealed(r) /\ runs[r].status # "absent"
BY DEF StoreInv, TerminalEventIsLast, HasEnded, Sealed, SealingEvents

\* The rows the kernel makes of loaded rows are rows.
LEMMA KernelRows ==
    /\ NewRun \in RunRow
    /\ \A row \in RunRow, status \in RunStatuses : RunTo(row, status) \in RunRow
    /\ NewStep \in StepRow
    /\ \A row \in StepRow, status \in StepStatuses : StepTo(row, status) \in StepRow
    /\ \A row \in StepRow, a \in Approvals : StepWaits(row, a) \in StepRow
    /\ \A row \in StepRow : StepSucceeds(row, "valid") \in StepRow
<1>1. NewRun \in RunRow BY DEF NewRun, RunRow, RunStatuses
<1>2. \A row \in RunRow, status \in RunStatuses : RunTo(row, status) \in RunRow
  BY DEF RunRow, RunTo
<1>3. NewStep \in StepRow BY DEF NewStep, NoStep, StepRow, StepStatuses
<1>4. ASSUME NEW row \in StepRow, NEW status \in StepStatuses
      PROVE  StepTo(row, status) \in StepRow
  <2>1. row.revision + 1 \in Nat BY DEF StepRow
  <2> QED BY Zenon, <2>1 DEF StepRow, StepTo
<1>5. ASSUME NEW row \in StepRow, NEW a \in Approvals PROVE StepWaits(row, a) \in StepRow
  <2>1. row.revision + 1 \in Nat /\ "waiting" \in StepStatuses BY DEF StepRow, StepStatuses
  <2> QED BY Zenon, <2>1 DEF StepRow, StepWaits
<1>6. ASSUME NEW row \in StepRow PROVE StepSucceeds(row, "valid") \in StepRow
  <2>1. row.revision + 1 \in Nat /\ "succeeded" \in StepStatuses BY DEF StepRow, StepStatuses
  <2> QED BY Zenon, <2>1 DEF StepRow, StepSucceeds
<1> QED BY <1>1, <1>2, <1>3, <1>4, <1>5, <1>6

\* The row a client brings to save_agent_run: it was made from the loaded row by a kernel
\* transition, or it is new.
RunChange(v, row) ==
    \/ v.row.status = "absent" /\ row = NewRun
    \/ \E status \in RunStatuses :
          <<v.row.status, status>> \in RunMoves /\ row = RunTo(v.row, status)

\* The same for save_agent_run_step.
StepChange(old, row) ==
    \/ old.status = "absent" /\ row = NewStep
    \/ /\ <<old.status, row.status>> \in StepMoves
       /\ row.revision = old.revision + 1

\* The kernel's transitions neither start from nor lead to a run that is not there.
LEMMA RunMovesOK ==
    \A x, y : <<x, y>> \in RunMoves => x # "absent" /\ y \in RunStatuses \ {"absent"}
BY DEF RunMoves, RunStatuses

\* The same for the transitions of a step.
LEMMA StepMovesOK ==
    \A x, y : <<x, y>> \in StepMoves => x # "absent" /\ y \in StepStatuses \ {"absent"}
BY DEF StepMoves, StepStatuses

\* What a client does to the run row.
LEMMA ChangeRunStep ==
    ASSUME IInv, NEW c \in Clients, NEW status \in RunStatuses, ChangeRun(c, status)
    PROVE  \E row \in RunRow :
              /\ views[c].run \in Runs
              /\ RunChange(views[c], row) /\ row.status # "absent"
              /\ SaveRun(views[c].run, row)
              /\ views' = [views EXCEPT ![c] = [views[c] EXCEPT !.row = row]]
<1> DEFINE v == views[c]
           row == IF v.row.status = "absent" THEN NewRun ELSE RunTo(v.row, status)
<1>1. v.run \in Runs /\ v.row \in RunRow
  BY DEF ChangeRun, IInv, ViewsOK, ViewOK
<1>2. row \in RunRow BY <1>1, KernelRows
<1>3. RunChange(v, row) /\ row.status # "absent"
  BY Zenon, <1>1, RunMovesOK DEF ChangeRun, RunChange, NewRun, RunTo
<1>4. SaveRun(v.run, row) /\ views' = [views EXCEPT ![c] = [v EXCEPT !.row = row]]
  BY Zenon DEF ChangeRun
<1> QED BY Zenon, <1>1, <1>2, <1>3, <1>4

\* What a client does to a step row.
LEMMA ChangeStepStep ==
    ASSUME IInv, NEW c \in Clients, NEW k \in Calls, NEW status \in StepStatuses,
           NEW a \in Approvals, ChangeStep(c, k, status, a)
    PROVE  \E row \in StepRow :
              /\ views[c].run \in Runs
              /\ StepChange(views[c].steps[k], row) /\ row.status # "absent"
              /\ SaveStep(views[c].run, k, row)
              /\ views' = [views EXCEPT ![c] =
                             [views[c] EXCEPT !.steps = [views[c].steps EXCEPT ![k] = row]]]
<1> DEFINE v == views[c]
           old == v.steps[k]
           row == IF old.status = "absent" THEN NewStep
                  ELSE CASE status = "waiting" -> StepWaits(old, a)
                         [] status = "succeeded" -> StepSucceeds(old, "valid")
                         [] OTHER -> StepTo(old, status)
<1>1. v.run \in Runs /\ old \in StepRow
  BY DEF ChangeStep, IInv, ViewsOK, ViewOK
<1>2. IF old.status = "absent" THEN row = NewStep
      ELSE row \in {StepWaits(old, a), StepSucceeds(old, "valid"), StepTo(old, status)}
           /\ row.status = status /\ row.revision = old.revision + 1
           /\ <<old.status, status>> \in StepMoves
  <2>1. old.status # "absent" => <<old.status, status>> \in StepMoves
    BY DEF ChangeStep
  <2>2. CASE old.status = "absent" BY <2>2
  <2>3. CASE old.status # "absent" /\ status = "waiting"
    BY Zenon, <1>1, <2>1, <2>3 DEF StepWaits, StepRow
  <2>4. CASE old.status # "absent" /\ status = "succeeded"
    BY Zenon, <1>1, <2>1, <2>4 DEF StepSucceeds, StepRow
  <2>5. CASE old.status # "absent" /\ status \notin {"waiting", "succeeded"}
    BY Zenon, <1>1, <2>1, <2>5 DEF StepTo, StepRow
  <2> QED BY Zenon, <2>2, <2>3, <2>4, <2>5
<1>3. row \in StepRow BY Zenon, <1>1, <1>2, KernelRows
<1>4. StepChange(old, row) /\ row.status # "absent"
  BY Zenon, <1>2, StepMovesOK DEF StepChange, NewStep, NoStep
<1>5. SaveStep(v.run, k, row)
      /\ views' = [views EXCEPT ![c] = [v EXCEPT !.steps = [v.steps EXCEPT ![k] = row]]]
  BY Zenon DEF ChangeStep
<1> QED BY Zenon, <1>1, <1>3, <1>4, <1>5

\* Every step of a client is one transaction of the store, or none.
LEMMA ClientsWrite ==
    ASSUME IInv, ClientsNext
    PROVE  Writes
<1>1. CASE \E c \in Clients, r \in Runs : Load(c, r)
  BY <1>1 DEF Load, Writes
<1>2. CASE \E c \in Clients, status \in RunStatuses : ChangeRun(c, status)
  BY <1>2, ChangeRunStep DEF Writes
<1>3. CASE \E c \in Clients, k \in Calls, status \in StepStatuses, a \in Approvals :
              ChangeStep(c, k, status, a)
  BY <1>3, ChangeStepStep DEF Writes
<1>4. CASE \E c \in Clients :
              AppendsCheckpoint(c) \/ RetriesAppend(c) \/ SavesCheckpoint(c) \/ Evaluates(c)
  BY Zenon, <1>4 DEF AppendsCheckpoint, AppendCheckpoint, RetriesAppend, SavesCheckpoint, Evaluates,
              Writes, IInv, ViewsOK, ViewOK
<1>5. CASE \E c \in Clients, kind \in ClientKinds : SavesEvent(c, kind)
  <2> PICK c \in Clients, kind \in ClientKinds : SavesEvent(c, kind) BY <1>5
  <2>1. [kind |-> kind] \in EventRow BY DEF ClientKinds, EventKinds, EventRow
  <2>2. views[c].run \in Runs BY DEF SavesEvent, IInv, ViewsOK, ViewOK
  <2>3. SaveEvent(views[c].run, views[c].heard, [kind |-> kind]) BY DEF SavesEvent
  <2> QED BY <2>1, <2>2, <2>3 DEF Writes
<1>6. CASE ApprovalEvidence
  BY <1>6 DEF ApprovalEvidence, Writes
<1>7. CASE \E c \in Clients, r \in Runs, s \in Setups, d \in Readinesses : ClaimsStart(c, r, s, d)
  BY <1>7 DEF ClaimsStart, Writes
<1>8. CASE \E r \in Runs : TakenOver(r)
  BY <1>8 DEF TakenOver, Writes
<1> QED
  BY <1>1, <1>2, <1>3, <1>4, <1>5, <1>6, <1>7, <1>8 DEF ClientsNext, Calls

-----------------------------------------------------------------------------

\* save_agent_run.
LEMMA SaveRunStep ==
    ASSUME StoreInv, NEW r \in Runs, NEW row \in RunRow, SaveRun(r, row)
    PROVE  StoreInv'
<1>1. /\ runs' \in [Runs -> RunRow] /\ runs'[r] = row
      /\ \A q \in Runs \ {r} : runs'[q] = runs[q]
      /\ UNCHANGED <<steps, checkpoints, events, evaluations, requests, decisions, executions,
                     governed>>
  BY DEF SaveRun, StoreInv, TablesOK, approvalVars
<1>2. TablesOK' BY <1>1 DEF StoreInv, TablesOK
<1>3. ~ HasEnded(r) /\ r \notin governed
  BY EndedIsSealed DEF SaveRun, Writable
<1>4. TerminalEventIsLast'
  BY <1>1, <1>3 DEF StoreInv, TerminalEventIsLast, HasEnded
<1>5. GovernedExist' BY <1>1, <1>3 DEF StoreInv, GovernedExist
<1>6. ApprovalBindsOneStep' BY <1>1 DEF StoreInv, ApprovalBindsOneStep
<1> QED BY <1>2, <1>4, <1>5, <1>6 DEF StoreInv

\* save_agent_run_step.
LEMMA SaveStepStep ==
    ASSUME StoreInv, NEW r \in Runs, NEW k \in Calls, NEW row \in StepRow, SaveStep(r, k, row)
    PROVE  StoreInv'
<1>1. /\ steps' \in [Runs -> [Calls -> StepRow]] /\ steps'[r][k] = row
      /\ \A q \in Runs, j \in Calls : q # r \/ j # k => steps'[q][j] = steps[q][j]
      /\ UNCHANGED <<runs, checkpoints, events, evaluations, requests, decisions, executions,
                     governed>>
  BY DEF SaveStep, StoreInv, TablesOK, approvalVars
<1>2. TablesOK' BY <1>1 DEF StoreInv, TablesOK
<1>3. TerminalEventIsLast' BY <1>1 DEF StoreInv, TerminalEventIsLast
<1>4. GovernedExist' BY <1>1 DEF StoreInv, GovernedExist
<1>5. ApprovalBindsOneStep'
  BY <1>1 DEF SaveStep, BindingHolds, StoreInv, ApprovalBindsOneStep, Calls
<1> QED BY <1>2, <1>3, <1>4, <1>5 DEF StoreInv

\* save_agent_run_event: the trace had no terminal event, and one that is appended now
\* fits the status of the run.
LEMMA SaveEventStep ==
    ASSUME StoreInv, NEW r \in Runs, NEW n, NEW event \in EventRow,
           SaveEvent(r, n, event)
    PROVE  StoreInv'
<1> DEFINE L == Len(events[r])
<1>1. events[r] \in Seq(EventRow) /\ L \in Nat BY DEF StoreInv, TablesOK
<1>2. /\ events' \in [Runs -> Seq(EventRow)]
      /\ events'[r] = Append(events[r], event)
      /\ \A q \in Runs \ {r} : events'[q] = events[q]
      /\ UNCHANGED <<runs, steps, checkpoints, evaluations, requests, decisions, executions,
                     governed>>
  BY <1>1 DEF SaveEvent, StoreInv, TablesOK, approvalVars
<1>3. /\ DOMAIN events[r] = 1 .. L /\ DOMAIN events'[r] = 1 .. L + 1
      /\ Len(events'[r]) = L + 1 /\ events'[r][L + 1] = event
      /\ \A m \in 1 .. L : events'[r][m] = events[r][m]
  BY <1>1, <1>2
<1>4. ~ HasEnded(r) BY EndedIsSealed DEF SaveEvent, Writable
<1>5. event.kind \in {"completed", "failed", "budget_exceeded"} =>
          event.kind \in SealingEvents(runs[r].status)
  BY DEF SaveEvent, EventFits, SealingEvents
<1>6. TerminalEventIsLast'
  <2> SUFFICES ASSUME NEW q \in Runs, NEW m \in DOMAIN events'[q],
                      events'[q][m].kind \in {"completed", "failed", "budget_exceeded"}
               PROVE  /\ m = Len(events'[q])
                      /\ events'[q][m].kind \in SealingEvents(runs'[q].status)
    BY DEF TerminalEventIsLast, SealingEvents
  <2>1. CASE q # r BY <1>2, <2>1 DEF StoreInv, TerminalEventIsLast, SealingEvents
  <2>2. CASE q = r
    <3>1. m = L + 1
      <4>1. m \in 1 .. L + 1 BY Zenon, <1>3, <2>2
      <4>2. m \notin 1 .. L BY Zenon, <1>3, <1>4, <2>2 DEF HasEnded
      <4> QED BY <1>1, <4>1, <4>2
    <3>2. m = Len(events'[q]) /\ events'[q][m] = event BY Zenon, <1>3, <2>2, <3>1
    <3>3. SealingEvents(runs'[q].status) = SealingEvents(runs[r].status) BY Zenon, <1>2, <2>2
    <3> QED BY Zenon, <1>5, <3>2, <3>3
  <2> QED BY <2>1, <2>2
<1>7. TablesOK' BY <1>2 DEF StoreInv, TablesOK
<1>8. GovernedExist' /\ ApprovalBindsOneStep'
  BY <1>2 DEF StoreInv, GovernedExist, ApprovalBindsOneStep
<1> QED BY <1>6, <1>7, <1>8 DEF StoreInv

\* claim_live_run_start: the run was absent, so that its trace had no terminal event.
LEMMA ClaimStep ==
    ASSUME StoreInv, NEW r \in Runs, NEW s, NEW d, NEW state,
           ClaimLiveStart(r, s, d, state, [kind |-> "started"])
    PROVE  StoreInv'
<1> DEFINE event == [kind |-> "started"]
<1>1. event \in EventRow /\ RunTo(NewRun, "running") \in RunRow
  BY KernelRows DEF EventRow, EventKinds, RunStatuses
<1>2. <<event>> \in Seq(EventRow) /\ Len(<<event>>) = 1 /\ DOMAIN <<event>> = 1 .. 1
      /\ <<event>>[1] = event
  BY <1>1
<1>3. /\ events' \in [Runs -> Seq(EventRow)] /\ events'[r] = <<event>>
      /\ runs' \in [Runs -> RunRow] /\ runs'[r] = RunTo(NewRun, "running")
      /\ \A q \in Runs \ {r} : events'[q] = events[q] /\ runs'[q] = runs[q]
      /\ DOMAIN checkpoints' = Runs
      /\ UNCHANGED <<steps, evaluations, requests, decisions, executions, governed>>
      /\ runs[r].status = "absent"
  <2>1. /\ events' = [events EXCEPT ![r] = <<event>>]
        /\ runs' = [runs EXCEPT ![r] = RunTo(NewRun, "running")]
        /\ checkpoints' = [checkpoints EXCEPT ![r] = <<state>>]
        /\ UNCHANGED <<steps, evaluations, requests, decisions, executions, governed>>
        /\ runs[r].status = "absent"
    BY DEF ClaimLiveStart, approvalVars
  <2> HIDE DEF event
  <2> QED BY <1>1, <1>2, <2>1 DEF StoreInv, TablesOK
<1>4. TablesOK' BY <1>3 DEF StoreInv, TablesOK
<1>5. TerminalEventIsLast'
  <2> SUFFICES ASSUME NEW q \in Runs, NEW m \in DOMAIN events'[q],
                      events'[q][m].kind \in {"completed", "failed", "budget_exceeded"}
               PROVE  /\ m = Len(events'[q])
                      /\ events'[q][m].kind \in SealingEvents(runs'[q].status)
    BY DEF TerminalEventIsLast, SealingEvents
  <2>1. CASE q # r BY <1>3, <2>1 DEF StoreInv, TerminalEventIsLast, SealingEvents
  <2>2. CASE q = r BY <1>2, <1>3, <2>2
  <2> QED BY <2>1, <2>2
<1>6. GovernedExist'
  <2>1. r \notin governed BY <1>3 DEF StoreInv, GovernedExist
  <2> QED BY Zenon, <1>3, <2>1 DEF StoreInv, GovernedExist
<1>7. ApprovalBindsOneStep' BY <1>3 DEF StoreInv, ApprovalBindsOneStep
<1> QED BY <1>4, <1>5, <1>6, <1>7 DEF StoreInv

\* Every transaction keeps what the tables promise.
LEMMA WritesKeepStore ==
    ASSUME StoreInv, Writes
    PROVE  StoreInv'
<1>1. CASE UNCHANGED <<runs, steps, events, governed>>
           /\ DOMAIN checkpoints' = Runs /\ DOMAIN evaluations' = Runs
           /\ DOMAIN requests' = Approvals /\ DOMAIN decisions' = Approvals
           /\ DOMAIN executions' = Approvals
  BY <1>1 DEF StoreInv, TablesOK, TerminalEventIsLast, GovernedExist, ApprovalBindsOneStep
<1>2. CASE UNCHANGED storeVars
  BY <1>1, <1>2 DEF storeVars, StoreInv, TablesOK
<1>3. CASE \E r \in Runs : \E n, state : SaveCheckpoint(r, n, state)
  BY <1>1, <1>3 DEF SaveCheckpoint, approvalVars, StoreInv, TablesOK
<1>4. CASE \E r \in Runs : \E evaluation : SaveEvaluation(r, evaluation)
  BY <1>1, <1>4 DEF SaveEvaluation, approvalVars, StoreInv, TablesOK
<1>5. CASE \E a \in Approvals : \E x : SaveRequest(a, x) \/ SaveDecision(a, x) \/ SaveExecution(a, x)
  BY Zenon, <1>1, <1>5 DEF SaveRequest, SaveDecision, SaveExecution, StoreInv, TablesOK
<1>6. CASE \E r \in Runs : Govern(r)
  BY <1>6 DEF Govern, approvalVars, StoreInv, TablesOK, TerminalEventIsLast, GovernedExist,
              ApprovalBindsOneStep
<1> QED
  BY <1>2, <1>3, <1>4, <1>5, <1>6, SaveRunStep, SaveStepStep, SaveEventStep, ClaimStep DEF Writes

-----------------------------------------------------------------------------

\* What loaded rows are to the stored ones survives another client's transaction.
LEMMA WritesKeepOlder ==
    ASSUME StoreInv, Writes, NEW r \in Runs
    PROVE  /\ \A old \in RunRow : Older(old, runs[r]) => Older(old, runs'[r])
           /\ \A k \in Calls : \A old \in StepRow :
                 Older(old, steps[r][k]) => Older(old, steps'[r][k])
<1>1. \/ runs'[r] = runs[r]
      \/ /\ runs'[r] \in RunRow /\ runs'[r].status # "absent"
         /\ runs[r].status # "absent" => runs'[r].revision = runs[r].revision + 1
  <2>1. CASE \E q \in Runs, row \in RunRow : row.status # "absent" /\ SaveRun(q, row)
    BY Zenon, <2>1 DEF SaveRun, RunFollows, StoreInv, TablesOK
  <2>2. CASE \E q \in Runs : \E s, d, state : ClaimLiveStart(q, s, d, state, [kind |-> "started"])
    <3> PICK q \in Runs : runs' = [runs EXCEPT ![q] = RunTo(NewRun, "running")]
                          /\ runs[q].status = "absent"
      BY Zenon, <2>2 DEF ClaimLiveStart
    <3>1. RunTo(NewRun, "running") \in RunRow /\ RunTo(NewRun, "running").status = "running"
      BY Zenon, KernelRows DEF RunStatuses, RunTo
    <3> QED BY <3>1 DEF StoreInv, TablesOK
  <2>3. CASE runs' = runs BY <2>3
  <2> QED
    BY Zenon, <2>1, <2>2, <2>3
    DEF Writes, storeVars, SaveStep, SaveCheckpoint, SaveEvent, SaveEvaluation, SaveRequest,
        SaveDecision, SaveExecution, Govern
<1>2. ASSUME NEW k \in Calls
      PROVE  \/ steps'[r][k] = steps[r][k]
             \/ /\ steps'[r][k] \in StepRow /\ steps'[r][k].status # "absent"
                /\ steps[r][k].status # "absent" =>
                      steps'[r][k].revision = steps[r][k].revision + 1
  <2>1. CASE \E q \in Runs, j \in Calls, row \in StepRow :
                row.status # "absent" /\ SaveStep(q, j, row)
    BY <2>1 DEF SaveStep, StepFollows, StoreInv, TablesOK
  <2>2. CASE steps' = steps BY <2>2
  <2> QED
    BY Zenon, <2>1, <2>2
    DEF Writes, storeVars, SaveRun, SaveCheckpoint, SaveEvent, SaveEvaluation, SaveRequest,
        SaveDecision, SaveExecution, Govern, ClaimLiveStart
<1>3. \A old \in RunRow : Older(old, runs[r]) => Older(old, runs'[r])
  BY <1>1 DEF Older, RunRow, StoreInv, TablesOK
<1>4. ASSUME NEW k \in Calls, NEW old \in StepRow, Older(old, steps[r][k])
      PROVE  Older(old, steps'[r][k])
  <2>1. steps[r][k] \in StepRow BY DEF StoreInv, TablesOK
  <2>2. old.revision \in Nat /\ steps[r][k].revision \in Nat BY <2>1 DEF StepRow
  <2> QED BY <1>2, <1>4, <2>2 DEF Older
<1> QED BY Zenon, <1>3, <1>4

\* A client's view stays an older or the current state of what is stored.
LEMMA ViewsStep ==
    ASSUME IInv, ClientsNext
    PROVE  ViewsOK'
<1>1. Writes BY ClientsWrite
<1>2. \A r \in Runs :
        /\ \A old \in RunRow : Older(old, runs[r]) => Older(old, runs'[r])
        /\ \A k \in Calls : \A old \in StepRow :
              Older(old, steps[r][k]) => Older(old, steps'[r][k])
  BY <1>1, WritesKeepOlder DEF IInv
<1>3. StoreInv' BY <1>1, WritesKeepStore DEF IInv
<1>4. \A c \in Clients : views'[c] = views[c] => ViewOK(views[c])'
  BY ZenonT(40), <1>2 DEF IInv, ViewsOK, ViewOK
<1>5. ASSUME NEW c \in Clients, NEW v, views' = [views EXCEPT ![c] = v], ViewOK(views[c])'
      PROVE  ViewsOK'
  BY <1>4, <1>5 DEF IInv, ViewsOK
<1>6. ASSUME NEW c \in Clients, NEW v, views' = [views EXCEPT ![c] = v],
             v.run = views[c].run, v.row = views[c].row, v.steps = views[c].steps,
             DOMAIN v = DOMAIN views[c]
      PROVE  ViewsOK'
  <2>1. views'[c] = v BY <1>6 DEF IInv, ViewsOK
  <2>2. ViewOK(views[c])' BY <1>2, <1>6, <2>1 DEF IInv, ViewsOK, ViewOK
  <2> QED BY Zenon, <1>5, <1>6, <2>2
<1>7. CASE views' = views BY <1>4, <1>7 DEF IInv, ViewsOK
<1>8. CASE \E c \in Clients, r \in Runs : Load(c, r)
  <2> PICK c \in Clients, r \in Runs : Load(c, r) BY <1>8
  <2> DEFINE v == [run |-> r, row |-> runs[r], steps |-> steps[r], seen |-> checkpoints[r],
                   heard |-> Len(events[r])]
  <2>1. views' = [views EXCEPT ![c] = v] /\ views'[c] = v /\ runs' = runs /\ steps' = steps
    BY Zenon DEF Load, storeVars, IInv, ViewsOK
  <2>2. /\ v.run = r /\ v.row = runs[r] /\ v.steps = steps[r]
        /\ DOMAIN v = {"run", "row", "steps", "seen", "heard"}
    OBVIOUS
  <2> HIDE DEF v
  <2>3. runs[r] \in RunRow /\ steps[r] \in [Calls -> StepRow] BY DEF IInv, StoreInv, TablesOK
  <2>4. Older(runs[r], runs[r]) BY <2>3 DEF Older, RunRow
  <2>5. \A k \in Calls : Older(steps[r][k], steps[r][k]) BY <2>3 DEF Older, StepRow
  <2>6. ViewOK(views[c])' BY Zenon, <2>1, <2>2, <2>3, <2>4, <2>5 DEF ViewOK
  <2> QED BY Zenon, <1>5, <2>1, <2>6
<1>9. CASE \E c \in Clients, status \in RunStatuses : ChangeRun(c, status)
  <2> PICK c \in Clients, status \in RunStatuses : ChangeRun(c, status) BY <1>9
  <2> PICK row \in RunRow :
         /\ views[c].run \in Runs
         /\ SaveRun(views[c].run, row)
         /\ views' = [views EXCEPT ![c] = [views[c] EXCEPT !.row = row]]
    BY ChangeRunStep
  <2> DEFINE v == [views[c] EXCEPT !.row = row]
  <2>1. views'[c] = v /\ views' = [views EXCEPT ![c] = v] BY DEF IInv, ViewsOK
  <2>2. v.run = views[c].run /\ v.steps = views[c].steps /\ v.row = row /\ DOMAIN v = DOMAIN views[c]
    BY DEF IInv, ViewsOK, ViewOK
  <2>3. runs'[v.run] = row BY <2>2 DEF SaveRun, IInv, StoreInv, TablesOK
  <2> HIDE DEF v
  <2>4. views[c].run # None BY DEF ChangeRun
  <2>5. ViewOK(views[c])'
    <3>1. ViewOK(views[c]) /\ steps' = steps BY Zenon DEF IInv, ViewsOK, SaveRun
    <3>2. Older(row, row) BY DEF Older, RunRow
    <3> QED BY Zenon, <2>1, <2>2, <2>3, <2>4, <3>1, <3>2 DEF ViewOK
  <2> QED BY Zenon, <1>5, <2>1, <2>5
<1>10. CASE \E c \in Clients, k \in Calls, status \in StepStatuses, a \in Approvals :
               ChangeStep(c, k, status, a)
  <2> PICK c \in Clients, k \in Calls, status \in StepStatuses, a \in Approvals :
         ChangeStep(c, k, status, a)
    BY <1>10
  <2> PICK row \in StepRow :
         /\ views[c].run \in Runs
         /\ SaveStep(views[c].run, k, row)
         /\ views' = [views EXCEPT ![c] =
                        [views[c] EXCEPT !.steps = [views[c].steps EXCEPT ![k] = row]]]
    BY ChangeStepStep
  <2> DEFINE T == [views[c].steps EXCEPT ![k] = row]
             v == [views[c] EXCEPT !.steps = T]
  <2>1. views'[c] = v /\ views' = [views EXCEPT ![c] = v] BY DEF IInv, ViewsOK
  <2>2. v.run = views[c].run /\ v.row = views[c].row /\ v.steps = T /\ DOMAIN v = DOMAIN views[c]
    BY DEF IInv, ViewsOK, ViewOK
  <2>3. views[c].run # None /\ views[c].steps \in [Calls -> StepRow]
    BY Zenon DEF ChangeStep, IInv, ViewsOK, ViewOK
  <2>4. T \in [Calls -> StepRow] /\ T[k] = row /\ \A j \in Calls \ {k} : T[j] = views[c].steps[j]
    BY <2>3
  <2>5. steps'[v.run][k] = row BY <2>2 DEF SaveStep, IInv, StoreInv, TablesOK
  <2> HIDE DEF v, T
  <2>6. \A j \in Calls : Older(T[j], steps'[v.run][j])
    <3> SUFFICES ASSUME NEW j \in Calls PROVE Older(T[j], steps'[v.run][j]) BY Zenon
    <3>1. ViewOK(views[c]) BY Zenon DEF IInv, ViewsOK
    <3>2. Older(row, row) BY DEF Older, StepRow
    <3>3. CASE j = k BY Zenon, <2>4, <2>5, <3>2, <3>3
    <3>4. CASE j # k
      <4>1. Older(views[c].steps[j], steps[views[c].run][j]) /\ views[c].steps[j] \in StepRow
        BY Zenon, <2>3, <3>1 DEF ViewOK
      <4>2. T[j] = views[c].steps[j] BY Zenon, <2>4, <3>4
      <4> QED BY Zenon, <1>2, <2>2, <4>1, <4>2
    <3> QED BY Zenon, <3>3, <3>4
  <2>7. ViewOK(views[c])'
    BY <1>2, <2>1, <2>2, <2>3, <2>4, <2>6 DEF ViewOK, IInv, ViewsOK
  <2> QED BY Zenon, <1>5, <2>1, <2>7
<1>11. CASE \E c \in Clients, kind \in ClientKinds : SavesEvent(c, kind)
  <2> PICK c \in Clients, kind \in ClientKinds : SavesEvent(c, kind) BY <1>11
  <2> DEFINE v == [views[c] EXCEPT !.heard = views[c].heard + 1]
  <2>1. views' = [views EXCEPT ![c] = v] BY DEF SavesEvent
  <2>2. v.run = views[c].run /\ v.row = views[c].row /\ v.steps = views[c].steps
        /\ DOMAIN v = DOMAIN views[c]
    BY DEF IInv, ViewsOK, ViewOK
  <2> HIDE DEF v
  <2> QED BY Zenon, <1>6, <2>1, <2>2
<1>12. CASE \E c \in Clients :
               AppendsCheckpoint(c) \/ RetriesAppend(c) \/ SavesCheckpoint(c) \/ Evaluates(c)
  <2> PICK c \in Clients :
         AppendsCheckpoint(c) \/ RetriesAppend(c) \/ SavesCheckpoint(c) \/ Evaluates(c)
    BY <1>12
  <2>1. views' = views \/ Learns(c)
    BY Zenon DEF AppendsCheckpoint, RetriesAppend, SavesCheckpoint, Evaluates
  <2>2. CASE Learns(c)
    <3> DEFINE v == [views[c] EXCEPT !.seen = Append(views[c].seen, Candidate(c))]
    <3>1. views' = [views EXCEPT ![c] = v] BY <2>2 DEF Learns
    <3>2. v.run = views[c].run /\ v.row = views[c].row /\ v.steps = views[c].steps
          /\ DOMAIN v = DOMAIN views[c]
      BY DEF IInv, ViewsOK, ViewOK
    <3> HIDE DEF v
    <3> QED BY Zenon, <1>6, <3>1, <3>2
  <2> QED BY <1>7, <2>1, <2>2
<1> QED
  BY Zenon, <1>7, <1>8, <1>9, <1>10, <1>11, <1>12
  DEF ClientsNext, Calls, ApprovalEvidence, ClaimsStart, TakenOver

-----------------------------------------------------------------------------

\* The tables and the views start consistent and stay so.
THEOREM TraceInvariance == ClientsSpec => []IInv
<1>1. ClientsInit => IInv
  <2> SUFFICES ASSUME ClientsInit PROVE IInv OBVIOUS
  <2>1. NoRun \in RunRow /\ NoStep \in StepRow
    BY DEF NoRun, NoStep, RunRow, StepRow, RunStatuses, StepStatuses
  <2>2. TablesOK BY <2>1 DEF ClientsInit, TraceInit, TablesOK, Calls
  <2>3. TerminalEventIsLast /\ GovernedExist BY DEF ClientsInit, TraceInit, TerminalEventIsLast, GovernedExist
  <2>4. ApprovalBindsOneStep BY DEF ClientsInit, TraceInit, ApprovalBindsOneStep, NoStep
  <2>5. ViewsOK BY DEF ClientsInit, ViewsOK, ViewOK, Unloaded
  <2> QED BY <2>2, <2>3, <2>4, <2>5 DEF IInv, StoreInv
<1>2. IInv /\ [ClientsNext]_clientVars => IInv'
  <2> SUFFICES ASSUME IInv, [ClientsNext]_clientVars PROVE IInv' OBVIOUS
  <2>1. CASE ClientsNext BY <2>1, ClientsWrite, WritesKeepStore, ViewsStep DEF IInv
  <2>2. CASE UNCHANGED clientVars
    <3>1. StoreInv'
      <4>1. /\ StoreInv
            /\ UNCHANGED <<runs, steps, checkpoints, events, evaluations, requests, decisions,
                           executions, governed>>
        BY Zenon, <2>2 DEF clientVars, storeVars, IInv
      <4>2. TablesOK' BY Zenon, <4>1 DEF StoreInv, TablesOK
      <4>3. TerminalEventIsLast' BY Zenon, <4>1 DEF StoreInv, TerminalEventIsLast
      <4>4. GovernedExist' BY Zenon, <4>1 DEF StoreInv, GovernedExist
      <4>5. ApprovalBindsOneStep' BY <4>1 DEF StoreInv, ApprovalBindsOneStep
      <4> QED BY Zenon, <4>2, <4>3, <4>4, <4>5 DEF StoreInv
    <3>2. ViewsOK' BY Zenon, <2>2 DEF clientVars, storeVars, IInv, ViewsOK, ViewOK
    <3> QED BY Zenon, <3>1, <3>2 DEF IInv
  <2> QED BY <2>1, <2>2
<1> QED BY <1>1, <1>2, PTL DEF ClientsSpec

\* A terminal event is the last of its trace and names the status the run keeps, however
\* old the rows are that clients bring to save_agent_run and save_agent_run_event.
THEOREM TerminalLast == ClientsSpec => []TerminalEventIsLast
<1>1. IInv => TerminalEventIsLast BY DEF IInv, StoreInv
<1> QED BY <1>1, TraceInvariance, PTL

\* A signed request belongs to at most one step of one run, for any number of clients
\* that bind it in save_agent_run_step.
THEOREM ApprovalBindsOne == ClientsSpec => []ApprovalBindsOneStep
<1>1. IInv => ApprovalBindsOneStep BY Zenon DEF IInv, StoreInv
<1> QED BY <1>1, TraceInvariance, PTL

-----------------------------------------------------------------------------
(* What no transaction may do. *)

\* Who may write the run, its steps and its trace: the store looks at the run first.
LEMMA OnlyWritable ==
    ASSUME StoreInv, Writes, NEW r \in Runs
    PROVE  \/ UNCHANGED <<runs[r], steps[r], checkpoints[r], events[r]>>
           \/ Writable(r)
           \/ runs[r].status = "absent"
<1>1. CASE \E q \in Runs, row \in RunRow : row.status # "absent" /\ SaveRun(q, row)
  BY Zenon, <1>1 DEF SaveRun, StoreInv, TablesOK
<1>2. CASE \E q \in Runs, k \in Calls, row \in StepRow :
              row.status # "absent" /\ SaveStep(q, k, row)
  BY Zenon, <1>2 DEF SaveStep, StoreInv, TablesOK
<1>3. CASE \E q \in Runs : \E n, state : SaveCheckpoint(q, n, state)
  BY Zenon, <1>3 DEF SaveCheckpoint, StoreInv, TablesOK
<1>4. CASE \E q \in Runs, event \in EventRow : \E n : SaveEvent(q, n, event)
  BY ZenonT(40), <1>4 DEF SaveEvent, StoreInv, TablesOK
<1>5. CASE \E q \in Runs : \E s, d, state : ClaimLiveStart(q, s, d, state, [kind |-> "started"])
  BY Zenon, <1>5 DEF ClaimLiveStart, StoreInv, TablesOK
<1>6. CASE UNCHANGED <<runs, steps, checkpoints, events>> BY Zenon, <1>6
<1> QED
  BY Zenon, <1>1, <1>2, <1>3, <1>4, <1>5, <1>6
  DEF Writes, storeVars, SaveEvaluation, SaveRequest, SaveDecision, SaveExecution, Govern

\* A request, a decision or an execution is only written while its approval is open.
LEMMA OnlyOpen ==
    ASSUME StoreInv, Writes, NEW a \in Approvals
    PROVE  UNCHANGED <<requests[a], decisions[a], executions[a]>> \/ ApprovalIsOpen(a)
<1>1. CASE \E b \in Approvals : \E x : SaveRequest(b, x) \/ SaveDecision(b, x) \/ SaveExecution(b, x)
  BY Zenon, <1>1 DEF SaveRequest, SaveDecision, SaveExecution, StoreInv, TablesOK
<1>2. CASE UNCHANGED approvalVars BY <1>2 DEF approvalVars
<1> QED
  BY ZenonT(40), <1>1, <1>2
  DEF Writes, storeVars, SaveRun, SaveStep, SaveCheckpoint, SaveEvent, SaveEvaluation, Govern,
      ClaimLiveStart, approvalVars

\* Nothing of a sealed trace ever changes again, its approvals included
\* (reject_if_agent_trace_sealed in every transaction that writes).
THEOREM SealedForGood == ClientsSpec => SealedTraceStands
<1> DEFINE Stands ==
       \A r \in Runs : HasEnded(r) =>
           /\ UNCHANGED <<runs[r], steps[r], checkpoints[r], events[r]>>
           /\ \A a \in Approvals : BoundTo(r, a) =>
                  UNCHANGED <<requests[a], decisions[a], executions[a]>>
<1>1. IInv /\ [ClientsNext]_clientVars => [Stands]_clientVars
  <2> SUFFICES ASSUME IInv, ClientsNext, NEW r \in Runs, HasEnded(r)
               PROVE  /\ UNCHANGED <<runs[r], steps[r], checkpoints[r], events[r]>>
                      /\ \A a \in Approvals : BoundTo(r, a) =>
                             UNCHANGED <<requests[a], decisions[a], executions[a]>>
    BY Zenon
  <2>1. Writes BY ClientsWrite
  <2>2. Sealed(r) /\ runs[r].status # "absent" BY EndedIsSealed DEF IInv
  <2>3. UNCHANGED <<runs[r], steps[r], checkpoints[r], events[r]>>
    BY Zenon, <2>1, <2>2, OnlyWritable DEF IInv, Writable
  <2>4. ASSUME NEW a \in Approvals, BoundTo(r, a)
        PROVE  UNCHANGED <<requests[a], decisions[a], executions[a]>>
    BY <2>1, <2>2, <2>4, OnlyOpen DEF IInv, ApprovalIsOpen
  <2> QED BY ZenonT(40), <2>3, <2>4
<1>2. ClientsSpec => [][Stands]_clientVars
  BY <1>1, TraceInvariance, PTL DEF ClientsSpec
<1> QED BY Zenon, <1>2 DEF SealedTraceStands

\* Once the operator control plane governs a run, no client of these tables changes
\* anything of it (reject_if_operator_governed_run).
THEOREM GovernedForGood == ClientsSpec => GovernedRunStands
<1> DEFINE Stands ==
       \A r \in governed :
           /\ r \in governed'
           /\ UNCHANGED <<runs[r], steps[r], checkpoints[r], events[r], evaluations[r]>>
<1>1. IInv /\ [ClientsNext]_clientVars => [Stands]_clientVars
  <2> SUFFICES ASSUME IInv, ClientsNext, NEW r \in governed
               PROVE  /\ r \in governed'
                      /\ UNCHANGED <<runs[r], steps[r], checkpoints[r], events[r]>>
                      /\ evaluations'[r] = evaluations[r]
    OBVIOUS
  <2>1. Writes BY ClientsWrite
  <2>2. r \in Runs /\ runs[r].status # "absent" BY DEF IInv, StoreInv, GovernedExist
  <2>3. UNCHANGED <<runs[r], steps[r], checkpoints[r], events[r]>>
    BY Zenon, <2>1, <2>2, OnlyWritable DEF IInv, Writable
  <2>4. r \in governed'
    BY Zenon, <2>1
    DEF Writes, storeVars, SaveRun, SaveStep, SaveCheckpoint, SaveEvent, SaveEvaluation, Govern,
        SaveRequest, SaveDecision, SaveExecution, ClaimLiveStart
  <2>5. evaluations'[r] = evaluations[r]
    <3>1. CASE \E q \in Runs : \E evaluation : SaveEvaluation(q, evaluation)
      BY <2>2, <3>1 DEF SaveEvaluation, IInv, StoreInv, TablesOK
    <3> QED
      BY Zenon, <2>1, <3>1
      DEF Writes, storeVars, SaveRun, SaveStep, SaveCheckpoint, SaveEvent, Govern,
          SaveRequest, SaveDecision, SaveExecution, ClaimLiveStart
  <2> QED BY <2>3, <2>4, <2>5
<1>2. ClientsSpec => [][Stands]_clientVars
  BY <1>1, TraceInvariance, PTL DEF ClientsSpec
<1> QED BY <1>2 DEF GovernedRunStands

-----------------------------------------------------------------------------

\* The optimistic revision lets a change through only from the row that is stored.
LEMMA SameRevision ==
    ASSUME NEW old, NEW stored, Older(old, stored), old.status # "absent",
           old.revision \in Nat, stored.revision \in Nat,
           old.revision + 1 = stored.revision + 1
    PROVE  old = stored
<1>1. old.revision = stored.revision OBVIOUS
<1> QED BY <1>1, Zenon DEF Older

\* A run row that save_agent_run changes moves by one transition of the stored row: the
\* revision it names proves that the client's old row is the stored one.
LEMMA RunMovesOn ==
    ASSUME IInv, NEW c \in Clients, NEW status \in RunStatuses, ChangeRun(c, status),
           NEW r \in Runs, runs'[r] # runs[r], runs[r].status # "absent"
    PROVE  /\ <<runs[r].status, runs'[r].status>> \in RunMoves
           /\ runs'[r] = RunTo(runs[r], runs'[r].status)
<1> DEFINE v == views[c]
<1> PICK row \in RunRow : v.run \in Runs /\ RunChange(v, row) /\ SaveRun(v.run, row)
  BY ZenonT(40), ChangeRunStep
<1>1. r = v.run /\ runs'[r] = row /\ row.revision = runs[r].revision + 1
  BY Zenon DEF SaveRun, RunFollows, IInv, StoreInv, TablesOK
<1>2. v.row \in RunRow /\ runs[r] \in RunRow /\ Older(v.row, runs[r])
  BY Zenon, <1>1 DEF ChangeRun, IInv, ViewsOK, ViewOK, StoreInv, TablesOK
<1>3. runs[r].revision \in Nat /\ v.row.revision \in Nat BY Zenon, <1>2 DEF RunRow
<1>4. row # NewRun
  <2>1. NewRun.revision = 0 BY Zenon DEF NewRun
  <2>2. runs[r].revision + 1 # 0 BY <1>3
  <2> QED BY ZenonT(40), <1>1, <2>1, <2>2
<1> PICK s \in RunStatuses : <<v.row.status, s>> \in RunMoves /\ row = RunTo(v.row, s)
  BY ZenonT(40), <1>4 DEF RunChange
<1>5. row.status = s /\ row.revision = v.row.revision + 1 BY Zenon DEF RunTo
<1>6. v.row.status # "absent" BY RunMovesOK, Zenon
<1>7. v.row.revision + 1 = runs[r].revision + 1 BY <1>1, <1>5, Zenon
<1>8. v.row = runs[r] BY <1>2, <1>3, <1>6, <1>7, SameRevision, Zenon
<1> QED BY Zenon, <1>1, <1>5, <1>8

\* The same for a step row that save_agent_run_step changes.
LEMMA StepMovesOn ==
    ASSUME IInv, NEW c \in Clients, NEW j \in Calls, NEW status \in StepStatuses,
           NEW a \in Approvals, ChangeStep(c, j, status, a),
           NEW r \in Runs, NEW k \in Calls,
           steps'[r][k] # steps[r][k], steps[r][k].status # "absent"
    PROVE  <<steps[r][k].status, steps'[r][k].status>> \in StepMoves
<1> DEFINE v == views[c]
<1> PICK row \in StepRow :
       v.run \in Runs /\ StepChange(v.steps[j], row) /\ SaveStep(v.run, j, row)
  BY Zenon, ChangeStepStep
<1>1. r = v.run /\ k = j /\ steps'[r][k] = row /\ row.revision = steps[r][k].revision + 1
  BY Zenon DEF SaveStep, StepFollows, IInv, StoreInv, TablesOK
<1>2. v.steps[k] \in StepRow /\ steps[r][k] \in StepRow /\ Older(v.steps[k], steps[r][k])
  BY Zenon, <1>1 DEF ChangeStep, IInv, ViewsOK, ViewOK, StoreInv, TablesOK
<1>3. steps[r][k].revision \in Nat /\ v.steps[k].revision \in Nat BY Zenon, <1>2 DEF StepRow
<1>4. row # NewStep
  <2>1. NewStep.revision = 0 BY DEF NewStep, NoStep
  <2>2. steps[r][k].revision + 1 # 0 BY <1>3
  <2> QED BY Zenon, <1>1, <2>1, <2>2
<1>5. <<v.steps[k].status, row.status>> \in StepMoves /\ row.revision = v.steps[k].revision + 1
  BY Zenon, <1>1, <1>4 DEF StepChange
<1>6. v.steps[k].status # "absent" BY <1>5, StepMovesOK, Zenon
<1>7. v.steps[k].revision + 1 = steps[r][k].revision + 1 BY <1>1, <1>5, Zenon
<1>8. v.steps[k] = steps[r][k] BY <1>2, <1>3, <1>6, <1>7, SameRevision, Zenon
<1> QED BY <1>1, <1>5, <1>8, Zenon

\* However old the row a client starts from, a run and a step only move along the
\* transitions of the kernel from the row that is stored.
THEOREM MovesFromStored == ClientsSpec => MovesFromStoredRow
<1> DEFINE Moves ==
       \A r \in Runs :
           /\ \/ UNCHANGED runs[r]
              \/ runs[r].status = "absent"
              \/ /\ <<runs[r].status, runs'[r].status>> \in RunMoves
                 /\ runs'[r] = RunTo(runs[r], runs'[r].status)
           /\ \A k \in Ordinals \X Attempts :
                  \/ UNCHANGED steps[r][k]
                  \/ steps[r][k].status = "absent"
                  \/ <<steps[r][k].status, steps'[r][k].status>> \in StepMoves
<1>1. IInv /\ [ClientsNext]_clientVars => [Moves]_clientVars
  <2> SUFFICES ASSUME IInv, ClientsNext, NEW r \in Runs
               PROVE  /\ \/ UNCHANGED runs[r]
                         \/ runs[r].status = "absent"
                         \/ /\ <<runs[r].status, runs'[r].status>> \in RunMoves
                            /\ runs'[r] = RunTo(runs[r], runs'[r].status)
                      /\ \A k \in Ordinals \X Attempts :
                             \/ UNCHANGED steps[r][k]
                             \/ steps[r][k].status = "absent"
                             \/ <<steps[r][k].status, steps'[r][k].status>> \in StepMoves
    BY Zenon
  <2>1. CASE \E c \in Clients, status \in RunStatuses : ChangeRun(c, status)
    <3>1. steps' = steps BY Zenon, <2>1 DEF ChangeRun, SaveRun
    <3> QED BY Zenon, <2>1, <3>1, RunMovesOn
  <2>2. CASE \E c \in Clients, k \in Calls, status \in StepStatuses, a \in Approvals :
                ChangeStep(c, k, status, a)
    <3>1. runs' = runs BY ZenonT(40), <2>2, ChangeStepStep DEF SaveStep
    <3> QED BY Zenon, <2>2, <3>1, StepMovesOn DEF Calls
  <2>3. CASE \E c \in Clients, q \in Runs, s \in Setups, d \in Readinesses : ClaimsStart(c, q, s, d)
    BY Zenon, <2>3 DEF ClaimsStart, ClaimLiveStart, IInv, StoreInv, TablesOK
  <2>4. CASE UNCHANGED <<runs, steps>> BY Zenon, <2>4
  <2> QED
    BY Zenon, <2>1, <2>2, <2>3, <2>4
    DEF ClientsNext, Calls, Load, storeVars, AppendsCheckpoint, AppendCheckpoint, RetriesAppend,
        SavesCheckpoint, SaveCheckpoint, Evaluates, SaveEvaluation, SavesEvent, SaveEvent,
        ApprovalEvidence, SaveRequest, SaveDecision, SaveExecution, TakenOver, Govern
<1>2. ClientsSpec => [][Moves]_clientVars
  BY <1>1, TraceInvariance, PTL DEF ClientsSpec
<1> QED BY Zenon, <1>2 DEF MovesFromStoredRow

=============================================================================
