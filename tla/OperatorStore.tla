---------------------------- MODULE OperatorStore ----------------------------
(***************************************************************************)
(* The durable half of the operator control plane: run leases with fences, *)
(* the aggregate budget, dispatch permits, the atomic commit barrier,      *)
(* reclaim and recovery, and the human run commands, as the SQLite store   *)
(* implements them.                                                        *)
(*                                                                         *)
(* Every method of the store is one Immediate transaction and so one       *)
(* action.  An action with a fence f is a call whose authority names lease *)
(* f; which process makes it, and with what cached revision, is the        *)
(* business of OperatorRuntime.  A call that the store refuses changes     *)
(* nothing that is modelled here (some refusals append an audit event).    *)
(*                                                                         *)
(* The runs of one workspace share one budget account, here with a single  *)
(* dimension of the five.  A governed run has one step, and the checkpoint *)
(* tail and the events it was registered with: the engine prepares no      *)
(* others, and the trace of a governed run is closed to other writers.     *)
(***************************************************************************)
EXTENDS Integers, Sequences, FiniteSetsExt

CONSTANTS
    Runs,          \* registered governed runs
    Sessions,      \* the runs whose mode is Session; the others are OneShot
    Started,       \* the runs that had an event, number 0, when they were registered
    Keys,          \* operation, version and idempotency key of a replay claim
    ReplayOf,      \* ReplayOf[r]: the key of the replay binding of r's call, or None
    None,          \* no key, no run
    Ceilings,      \* the ceilings a dispatch intent may ask for
    Limit,         \* the limit of the budget policy
    LeaseTerm,     \* the thirty seconds of a lease
    Deadline,      \* deadline_at of the budget policy
    MaxClock,      \* bound: how far the trusted clock runs
    MaxRevision,   \* MAX_SAFE, the largest control revision
    ReleasePrecedesExpiry \* does RunLease::validate want released_at < expires_at?

ASSUME StoreAssumption ==
    /\ Sessions \subseteq Runs
    /\ Started \subseteq Runs
    /\ None \notin Runs \cup Keys
    /\ ReplayOf \in [Runs -> Keys \cup {None}]
    /\ Ceilings \subseteq Nat \ {0}
    /\ Limit \in Nat
    /\ LeaseTerm \in Nat \ {0}
    /\ Deadline \in Nat
    /\ MaxClock \in Nat
    /\ MaxRevision \in Nat
    /\ ReleasePrecedesExpiry \in BOOLEAN

VARIABLES
    clock,         \* trusted UTC
    runs,          \* runs[r]: status and revision of the agent run
    steps,         \* steps[r]: status of its latest step
    control,       \* control[r]: revision, active dispatch, pending directive
    leases,        \* leases[r]: the leases of r; a lease is indexed by its fence
    reservations,  \* reservations[r]: the budget reservations of r, oldest first
    budget,        \* the aggregate reserved and committed amounts
    directives,    \* directives[r]: recovery directives of r, oldest first
    replays,       \* replays[k]: the execution_replays row of k and its binding
    projection     \* projection[r]: the latest snapshot of r for the operator

storeVars == <<clock, runs, steps, control, leases, reservations, budget, directives,
               replays, projection>>

RunStatuses == {"queued", "running", "succeeded", "failed", "cancelled"}

\* AgentRunStatus::is_terminal; a failed run is terminal although it may be resumed.
Terminal(status) == status \in {"succeeded", "failed", "cancelled"}

Run == [status : RunStatuses, revision : Nat]

StepStatuses == {"pending", "running", "succeeded", "failed"}

\* dispatch and directive are indexes, 0 for NULL.
Control == [revision : 0..MaxRevision, dispatch : Nat, directive : Nat]

Lease == [state : {"active", "released"}, expires : Nat]

\* recovery is the directive a reservation uses up and permit the control revision
\* in its dispatch permit; 0 for none.
Reservation ==
    [fence : Nat, state : {"reserved", "dispatching", "released", "committed", "forfeited"},
     ceiling : Ceilings, charged : Nat, recovery : Nat, permit : Nat]

\* consumed: the recovery_completed and run_resumed events of the directive exist.
Directive == [source : Nat, consumed : BOOLEAN]

\* run is None when the row was claimed by an ungoverned execution, or not at all.
Replay == [state : {"none", "claimed", "completed", "failed"}, run : Runs \cup {None}]

Attention(status, directive) ==
    CASE status \in {"queued", "running"} -> "running"
      [] status = "failed" /\ directive # 0 -> "recoverable"
      [] OTHER -> "terminal"

\* append_current_projection: the snapshot of a run, its control row and a fence.
Project(run, ctl, fence) ==
    [control |-> ctl.revision, run |-> run.revision, status |-> run.status, fence |-> fence,
     attention |-> Attention(run.status, ctl.directive),
     directive |-> IF run.status = "failed" THEN ctl.directive ELSE 0]

Projection ==
    [control : 0..MaxRevision, run : Nat, status : RunStatuses, fence : Nat,
     attention : {"running", "recoverable", "terminal"}, directive : Nat]

\* The state register_governed_run leaves: a queued or running run, control
\* revision 0, a first projection with fence 0.
StoreInit ==
    /\ clock = 0
    /\ runs \in [Runs -> {[status |-> "queued", revision |-> 0], [status |-> "running", revision |-> 1]}]
    /\ steps \in [Runs -> {"pending", "running"}]
    /\ control = [r \in Runs |-> [revision |-> 0, dispatch |-> 0, directive |-> 0]]
    /\ leases = [r \in Runs |-> <<>>]
    /\ reservations = [r \in Runs |-> <<>>]
    /\ budget = [reserved |-> 0, committed |-> 0]
    /\ directives = [r \in Runs |-> <<>>]
    /\ replays = [k \in Keys |-> [state |-> "none", run |-> None]]
    /\ projection = [r \in Runs |-> Project(runs[r], control[r], 0)]

-----------------------------------------------------------------------------
(* Helpers. *)

IsOpen(row) == row.state \in {"reserved", "dispatching"}

Open(r) == {n \in DOMAIN reservations[r] : IsOpen(reservations[r][n])}

\* validate_authority: the named lease is active and not expired.
Authorized(r, f) ==
    /\ f \in DOMAIN leases[r]
    /\ leases[r][f].state = "active"
    /\ clock < leases[r][f].expires

\* reserve, begin and commit want the latest projection to be the current one.
ProjectionCurrent(r, f) ==
    /\ projection[r].run = runs[r].revision
    /\ projection[r].control = control[r].revision
    /\ projection[r].fence = f
    /\ projection[r].attention = "running"

\* The tail of every transaction that changes a run: the run row, the control row
\* with its revision bumped, and a new projection.
Record(r, run, dispatch, directive, fence) ==
    LET ctl == [revision |-> control[r].revision + 1, dispatch |-> dispatch, directive |-> directive]
    IN  /\ control[r].revision < MaxRevision
        /\ runs' = [runs EXCEPT ![r] = run]
        /\ control' = [control EXCEPT ![r] = ctl]
        /\ projection' = [projection EXCEPT ![r] = Project(run, ctl, fence)]

\* bump_control, update_run_control and append_current_projection alone.
Bump(r, fence) == Record(r, runs[r], control[r].dispatch, control[r].directive, fence)

\* A transition of the run row: the next revision.
RunTo(r, status) == [status |-> status, revision |-> runs[r].revision + 1]

NewLease == [state |-> "active", expires |-> clock + LeaseTerm]

Released(lease) == [state |-> "released", expires |-> lease.expires]

PutLease(r, f, lease) == leases' = [leases EXCEPT ![r] = [@ EXCEPT ![f] = lease]]

ReservationRow(fence, state, ceiling, charged, recovery, permit) ==
    [fence |-> fence, state |-> state, ceiling |-> ceiling, charged |-> charged,
     recovery |-> recovery, permit |-> permit]

PutReservation(r, n, row) == reservations' = [reservations EXCEPT ![r] = [@ EXCEPT ![n] = row]]

\* Mutant of Settle: the reserved amount is not given back.
SettleKeepsReserved(r, n, state, charged) ==
    LET row == reservations[r][n] IN
    /\ budget' = [reserved |-> budget.reserved, committed |-> budget.committed + charged]
    /\ PutReservation(r, n, ReservationRow(row.fence, state, row.ceiling, charged,
                                           row.recovery, row.permit))

\* A reservation leaves the open states: its ceiling is no longer reserved (a
\* checked subtraction) and what it is charged is committed.
Settle(r, n, state, charged) ==
    LET row == reservations[r][n] IN
    /\ budget.reserved >= row.ceiling
    /\ budget' = [reserved |-> budget.reserved - row.ceiling,
                  committed |-> budget.committed + charged]
    /\ PutReservation(r, n, ReservationRow(row.fence, state, row.ceiling, charged,
                                           row.recovery, row.permit))

\* The replay row bound to a dispatch of r changes its state.
SetReplay(r, state) ==
    replays' = IF ReplayOf[r] = None
               THEN replays
               ELSE [replays EXCEPT ![ReplayOf[r]] = [state |-> state, run |-> r]]

-----------------------------------------------------------------------------
(* Leases. *)

\* Mutant of NoActiveLease: an expired lease is taken for a released one.
NoActiveLeaseIgnoringExpired(r) == \A f \in DOMAIN leases[r] : ~Authorized(r, f)

NoActiveLease(r) == \A f \in DOMAIN leases[r] : leases[r][f].state # "active"

\* claim_run_lease: no row is active (an expired one still is), the next fence.
ClaimLease(r) ==
    /\ NoActiveLease(r)
    /\ leases' = [leases EXCEPT ![r] = Append(@, NewLease)]
    /\ Bump(r, Len(leases[r]) + 1)
    /\ UNCHANGED <<clock, steps, reservations, budget, directives, replays>>

\* renew_run_lease: a full new term, only before expiry.
RenewLease(r, f) ==
    /\ Authorized(r, f)
    /\ PutLease(r, f, NewLease)
    /\ Bump(r, f)
    /\ UNCHANGED <<clock, steps, reservations, budget, directives, replays>>

\* Nothing reserved or dispatching under the lease.
Quiescent(r, f) ==
    /\ \A n \in Open(r) : reservations[r][n].fence # f
    /\ control[r].dispatch = 0

\* release_run_lease is quiescent only.
ReleaseLease(r, f) ==
    /\ Authorized(r, f)
    /\ Quiescent(r, f)
    /\ PutLease(r, f, Released(leases[r][f]))
    /\ Bump(r, f)
    /\ UNCHANGED <<clock, steps, reservations, budget, directives, replays>>

-----------------------------------------------------------------------------
(* The budget, before dispatch. *)

\* Mutant of CanReserve: what is already committed is forgotten.
CanReserveIgnoringCommitted(ceiling) ==
    clock < Deadline /\ budget.reserved + ceiling <= Limit

\* BudgetAccount::can_reserve.
CanReserve(ceiling) ==
    clock < Deadline /\ budget.reserved + ceiling + budget.committed <= Limit

\* Without a directive none may be pending; with one the source was released, the
\* run was resumed with it, and no reservation used it before.
RecoveryAllowed(r, d) ==
    /\ control[r].directive = 0
    /\ d # 0 =>
           /\ reservations[r][directives[r][d].source].state = "released"
           /\ directives[r][d].consumed
           /\ \A n \in DOMAIN reservations[r] : reservations[r][n].recovery # d

\* reserve_aggregate_budget.  A request whose idempotency key exists cannot get this
\* far: the row it finds bumped the control revision the authority has to name.
Reserve(r, f, ceiling, d) ==
    /\ Authorized(r, f)
    /\ Open(r) = {}
    /\ control[r].dispatch = 0
    /\ runs[r].status = "running"
    /\ ProjectionCurrent(r, f)
    /\ ReplayOf[r] # None => steps[r] = "running"
    /\ RecoveryAllowed(r, d)
    /\ CanReserve(ceiling)
    /\ reservations' = [reservations EXCEPT ![r] =
           Append(@, ReservationRow(f, "reserved", ceiling, 0, d, 0))]
    /\ budget' = [reserved |-> budget.reserved + ceiling, committed |-> budget.committed]
    /\ Bump(r, f)
    /\ UNCHANGED <<clock, steps, leases, directives, replays>>

\* Mutant of ReleasePreDispatch: a dispatching reservation is released too.
ReleaseOpen(r, f, n) ==
    /\ Authorized(r, f)
    /\ n \in Open(r)
    /\ reservations[r][n].fence = f
    /\ Settle(r, n, "released", 0)
    /\ Bump(r, f)
    /\ UNCHANGED <<clock, steps, leases, directives, replays>>

\* settle_budget_reservation releases what was never dispatched.
ReleasePreDispatch(r, f, n) ==
    /\ Authorized(r, f)
    /\ n \in DOMAIN reservations[r]
    /\ reservations[r][n].fence = f
    /\ reservations[r][n].state = "reserved"
    /\ Settle(r, n, "released", 0)
    /\ Bump(r, f)
    /\ UNCHANGED <<clock, steps, leases, directives, replays>>

-----------------------------------------------------------------------------
(* Dispatch, and its settlement. *)

\* What begin_dispatch wants of the reservation, the run, the step and the snapshot.
BeginReady(r, f, n) ==
    /\ Authorized(r, f)
    /\ n \in DOMAIN reservations[r]
    /\ reservations[r][n].state = "reserved"
    /\ reservations[r][n].fence = f
    /\ Open(r) = {n}
    /\ control[r].dispatch = 0
    /\ runs[r].status = "running"
    /\ steps[r] = "running"
    /\ ProjectionCurrent(r, f)

KeyIsFree(r) == ReplayOf[r] # None => replays[ReplayOf[r]].state = "none"

\* load_verified_replay: a completed row with a binding is found (an ungoverned row
\* has none) ...
ReplayCompleted(r) ==
    /\ ReplayOf[r] # None
    /\ replays[ReplayOf[r]].state = "completed"
    /\ replays[ReplayOf[r]].run # None

\* ... its binding is that of this run ...
BoundElsewhere(r) == replays[ReplayOf[r]].run # r

\* ... the reservation it came from was committed ...
OriginCommitted(r, n) == reservations[r][n].state = "committed"

\* ... output, proof and execution context are those of a finished step ...
StepReplayed(r) == steps[r] = "succeeded"

\* ... begin and commit bumped the control revision the permit names ...
PastCommit(r, n) == control[r].revision >= reservations[r][n].permit + 2

\* ... the latest snapshot is that of the run ...
ProjectionFollows(r) ==
    /\ projection[r].run = runs[r].revision
    /\ projection[r].control = control[r].revision
    /\ projection[r].status = runs[r].status

\* ... and the events of the result are in the trace (validate_runtime_event_range).
\* An execution prepares no event, and then its first and its last are number 0.
EventsRecorded(r) == r \in Started

ReplayVerified(r) ==
    /\ StepReplayed(r)
    /\ ProjectionFollows(r)
    /\ EventsRecorded(r)
    /\ \E n \in DOMAIN reservations[r] : OriginCommitted(r, n) /\ PastCommit(r, n)

\* What a lookup answers; a conflict and a corrupt store are errors.
LookupReplay(r) ==
    CASE ~ReplayCompleted(r) -> "not_found"
      [] ReplayCompleted(r) /\ BoundElsewhere(r) -> "conflict"
      [] ReplayCompleted(r) /\ ~BoundElsewhere(r) ->
           IF ReplayVerified(r) THEN "completed" ELSE "corrupt"

LookupFails(r) == LookupReplay(r) \in {"conflict", "corrupt"}

\* begin_dispatch without a permit: the deadline passed, or the key is completed,
\* failed or in progress.  The reservation is released in the same transaction, and
\* stays reserved when the lookup of the key fails.
BeginReleases(r, f, n) ==
    /\ BeginReady(r, f, n)
    /\ ~LookupFails(r)
    /\ clock >= Deadline \/ ~KeyIsFree(r)
    /\ Settle(r, n, "released", 0)
    /\ Bump(r, f)
    /\ UNCHANGED <<clock, steps, leases, directives, replays>>

\* Mutant of BeginDispatch: the replay row is not claimed before the permit.
BeginDispatchUnclaimed(r, f, n) ==
    LET row == reservations[r][n] IN
    /\ BeginReady(r, f, n)
    /\ clock < Deadline
    /\ KeyIsFree(r)
    /\ PutReservation(r, n, ReservationRow(f, "dispatching", row.ceiling, 0, row.recovery,
                                           control[r].revision))
    /\ Record(r, runs[r], n, control[r].directive, f)
    /\ UNCHANGED <<clock, steps, leases, budget, directives, replays>>

\* begin_dispatch: the key is claimed, the reservation becomes the active dispatch,
\* and the permit names the control revision that authorized it.
BeginDispatch(r, f, n) ==
    LET row == reservations[r][n] IN
    /\ BeginReady(r, f, n)
    /\ clock < Deadline
    /\ KeyIsFree(r)
    /\ SetReplay(r, "claimed")
    /\ PutReservation(r, n, ReservationRow(f, "dispatching", row.ceiling, 0, row.recovery,
                                           control[r].revision))
    /\ Record(r, runs[r], n, control[r].directive, f)
    /\ UNCHANGED <<clock, steps, leases, budget, directives>>

\* The checks a commit and a failure settlement share: the permit is that of the
\* dispatching reservation and nothing moved the control row since.
PermitStands(r, f, n) ==
    /\ Authorized(r, f)
    /\ n \in DOMAIN reservations[r]
    /\ reservations[r][n].state = "dispatching"
    /\ reservations[r][n].fence = f
    /\ control[r].dispatch = n
    /\ control[r].revision = reservations[r][n].permit + 1

\* run_after of the prepared execution: a one-shot run succeeds, a session goes on.
RunAfterCommit(r) == IF r \in Sessions THEN runs[r] ELSE RunTo(r, "succeeded")

\* Mutant of CommitRuntime: the step of the execution is not saved.
CommitRuntimeLessStep(r, f, n, charged) ==
    /\ PermitStands(r, f, n)
    /\ charged <= reservations[r][n].ceiling
    /\ runs[r].status = "running"
    /\ steps[r] = "running"
    /\ ProjectionCurrent(r, f)
    /\ SetReplay(r, "completed")
    /\ Settle(r, n, "committed", charged)
    /\ Record(r, RunAfterCommit(r), 0, control[r].directive, f)
    /\ UNCHANGED <<clock, steps, leases, directives>>

\* commit_runtime with a valid prepared execution: run, step, replay, budget,
\* reservation, control and projection in one transaction.
CommitRuntime(r, f, n, charged) ==
    /\ PermitStands(r, f, n)
    /\ charged <= reservations[r][n].ceiling
    /\ runs[r].status = "running"
    /\ steps[r] = "running"
    /\ ProjectionCurrent(r, f)
    /\ SetReplay(r, "completed")
    /\ steps' = [steps EXCEPT ![r] = "succeeded"]
    /\ Settle(r, n, "committed", charged)
    /\ Record(r, RunAfterCommit(r), 0, control[r].directive, f)
    /\ UNCHANGED <<clock, leases, directives>>

ForfeitedRun(r) == IF Terminal(runs[r].status) THEN runs[r] ELSE RunTo(r, "failed")

ForfeitedStep(r) == IF steps[r] \in {"succeeded", "failed"} THEN steps[r] ELSE "failed"

\* apply_forfeit: an effect may have happened, so the full ceiling is charged, the
\* key is failed for good, and run and step fail.
ApplyForfeit(r, f, n) ==
    /\ Settle(r, n, "forfeited", reservations[r][n].ceiling)
    /\ SetReplay(r, "failed")
    /\ steps' = [steps EXCEPT ![r] = ForfeitedStep(r)]
    /\ Record(r, ForfeitedRun(r), 0, control[r].directive, f)

\* settle_runtime_failure, and commit_runtime_barrier when the prepared execution
\* does not match its dispatch, is over its ceiling, or cannot be persisted.
ForfeitRuntime(r, f, n) ==
    /\ PermitStands(r, f, n)
    /\ ApplyForfeit(r, f, n)
    /\ UNCHANGED <<clock, leases, directives>>

-----------------------------------------------------------------------------
(* Reclaim. *)

\* RunLease::validate, which update_lease calls, of a lease released now.
LeaseRowValid(lease) == ReleasePrecedesExpiry => clock < lease.expires

\* reclaim takes only an active lease that has expired, and releases it first.
ReclaimReady(r, f) ==
    /\ f \in DOMAIN leases[r]
    /\ leases[r][f].state = "active"
    /\ clock >= leases[r][f].expires
    /\ LeaseRowValid(leases[r][f])

\* A replacement lease at the next fence.
ReplaceLease(r, f) ==
    leases' = [leases EXCEPT ![r] =
        Append([@ EXCEPT ![f] = Released(leases[r][f])], NewLease)]

\* An open dispatch is ambiguous: it is forfeited and no lease is handed out.
ReclaimDispatching(r, f, n) ==
    /\ ReclaimReady(r, f)
    /\ n \in Open(r)
    /\ reservations[r][n].state = "dispatching"
    /\ ApplyForfeit(r, f, n)
    /\ PutLease(r, f, Released(leases[r][f]))
    /\ UNCHANGED <<clock, directives>>

\* A reserved row was never dispatched: it is released and seeds the directive with
\* which the failed run can be resumed.
ReclaimReserved(r, f, n) ==
    /\ ReclaimReady(r, f)
    /\ n \in Open(r)
    /\ reservations[r][n].state = "reserved"
    /\ control[r].dispatch = 0
    /\ ~Terminal(runs[r].status)
    /\ Settle(r, n, "released", 0)
    /\ directives' = [directives EXCEPT ![r] = Append(@, [source |-> n, consumed |-> FALSE])]
    /\ ReplaceLease(r, f)
    /\ Record(r, RunTo(r, "failed"), 0, Len(directives[r]) + 1, Len(leases[r]) + 1)
    /\ UNCHANGED <<clock, steps, replays>>

\* Nothing open: a live run is taken over as it is, a failed one only with the
\* directive it still has.
ReclaimIdle(r, f) ==
    LET d == control[r].directive IN
    /\ ReclaimReady(r, f)
    /\ Open(r) = {}
    /\ IF d = 0
       THEN ~Terminal(runs[r].status)
       ELSE /\ runs[r].status = "failed"
            /\ reservations[r][directives[r][d].source].state = "released"
            /\ ~directives[r][d].consumed
    /\ ReplaceLease(r, f)
    /\ Bump(r, Len(leases[r]) + 1)
    /\ UNCHANGED <<clock, steps, reservations, budget, directives, replays>>

-----------------------------------------------------------------------------
(* Human commands, other users of the replay table, and time. *)

\* A terminal run only gets an AlreadyTerminal receipt, a dispatching one is refused.
Cancellable(r) == ~Terminal(runs[r].status) /\ control[r].dispatch = 0

\* RunCancel: the reservation that is not dispatched yet is released with it.
CancelRun(r, f) ==
    LET reserved == {n \in DOMAIN reservations[r] : reservations[r][n].state = "reserved"} IN
    /\ Authorized(r, f)
    /\ Cancellable(r)
    /\ IF reserved = {}
       THEN UNCHANGED <<budget, reservations>>
       ELSE \E n \in reserved : Settle(r, n, "released", 0)
    /\ Record(r, RunTo(r, "cancelled"), control[r].dispatch, control[r].directive, f)
    /\ UNCHANGED <<clock, steps, leases, directives, replays>>

\* RunResume with the pending recovery directive, which it uses up.
ResumeRun(r, f) ==
    LET d == control[r].directive IN
    /\ Authorized(r, f)
    /\ control[r].dispatch = 0
    /\ runs[r].status = "failed"
    /\ d # 0
    /\ ~directives[r][d].consumed
    /\ directives' = [directives EXCEPT ![r] =
           [@ EXCEPT ![d] = [source |-> directives[r][d].source, consumed |-> TRUE]]]
    /\ Record(r, RunTo(r, "running"), 0, 0, f)
    /\ UNCHANGED <<clock, steps, leases, reservations, budget, replays>>

\* ExecutionEngine::execute claims a key outside the control plane.
ClaimUngoverned(k) ==
    /\ replays[k].state = "none"
    /\ replays' = [replays EXCEPT ![k] = [state |-> "claimed", run |-> None]]
    /\ UNCHANGED <<clock, runs, steps, control, leases, reservations, budget, directives, projection>>

SettleUngoverned(k) ==
    /\ replays[k] = [state |-> "claimed", run |-> None]
    /\ \E state \in {"completed", "failed"} :
           replays' = [replays EXCEPT ![k] = [state |-> state, run |-> None]]
    /\ UNCHANGED <<clock, runs, steps, control, leases, reservations, budget, directives, projection>>

Tick ==
    /\ clock < MaxClock
    /\ clock' = clock + 1
    /\ UNCHANGED <<runs, steps, control, leases, reservations, budget, directives, replays, projection>>

-----------------------------------------------------------------------------
LeaseCall(r) ==
    \/ ClaimLease(r)
    \/ \E f \in DOMAIN leases[r] : RenewLease(r, f) \/ ReleaseLease(r, f)

BudgetCall(r) ==
    \E f \in DOMAIN leases[r] :
        \/ \E ceiling \in Ceilings, d \in 0..Len(directives[r]) : Reserve(r, f, ceiling, d)
        \/ \E n \in DOMAIN reservations[r] : ReleasePreDispatch(r, f, n)

DispatchCall(r) ==
    \E f \in DOMAIN leases[r], n \in DOMAIN reservations[r] :
        \/ BeginReleases(r, f, n)
        \/ BeginDispatch(r, f, n)
        \/ \E charged \in 0..reservations[r][n].ceiling : CommitRuntime(r, f, n, charged)
        \/ ForfeitRuntime(r, f, n)

Reclaim(r) ==
    \E f \in DOMAIN leases[r] :
        \/ \E n \in DOMAIN reservations[r] : ReclaimDispatching(r, f, n) \/ ReclaimReserved(r, f, n)
        \/ ReclaimIdle(r, f)

Command(r) == \E f \in DOMAIN leases[r] : CancelRun(r, f) \/ ResumeRun(r, f)

StoreNext ==
    \/ \E r \in Runs : LeaseCall(r) \/ BudgetCall(r) \/ DispatchCall(r) \/ Reclaim(r) \/ Command(r)
    \/ \E k \in Keys : ClaimUngoverned(k) \/ SettleUngoverned(k)
    \/ Tick

StoreSpec == StoreInit /\ [][StoreNext]_storeVars

\* Time passes, and some worker keeps trying to reclaim a run whose lease expired.
StoreFairSpec == StoreSpec /\ WF_storeVars(Tick) /\ \A r \in Runs : WF_storeVars(Reclaim(r))

-----------------------------------------------------------------------------
(* Properties. *)

\* The type of the state.
StoreTypeOK ==
    /\ clock \in 0..MaxClock
    /\ runs \in [Runs -> Run]
    /\ steps \in [Runs -> StepStatuses]
    /\ control \in [Runs -> Control]
    /\ leases \in [Runs -> Seq(Lease)]
    /\ reservations \in [Runs -> Seq(Reservation)]
    /\ budget \in [reserved : Nat, committed : Nat]
    /\ directives \in [Runs -> Seq(Directive)]
    /\ replays \in [Keys -> Replay]
    /\ projection \in [Runs -> Projection]

\* Whatever is reserved, dispatched, released, charged or forfeited by racing runs,
\* the account never goes over the limit of its policy (can_reserve, and the checked
\* sums of settlement).
WithinLimit == budget.reserved + budget.committed <= Limit

Rows == UNION {{<<r, n>> : n \in DOMAIN reservations[r]} : r \in Runs}

\* The aggregate counters are the sums of the reservation rows: nothing leaks when a
\* run is cancelled, reclaimed or forfeited, and nothing is charged twice.
LedgerBalances ==
    /\ budget.reserved =
           MapThenSumSet(LAMBDA p : reservations[p[1]][p[2]].ceiling,
                         {p \in Rows : p[2] \in Open(p[1])})
    /\ budget.committed = MapThenSumSet(LAMBDA p : reservations[p[1]][p[2]].charged, Rows)

NewestLeaseOnly ==
    \A r \in Runs : \A f \in DOMAIN leases[r] : leases[r][f].state = "active" => f = Len(leases[r])

OpenReservationOwned ==
    \A r \in Runs : \A n \in Open(r) :
        /\ n = Len(reservations[r])
        /\ reservations[r][n].fence = Len(leases[r])
        /\ leases[r] # <<>>
        /\ leases[r][Len(leases[r])].state = "active"
        /\ runs[r].status = "running"

\* A run has one owner: only the newest fence can be active, at most one reservation
\* is open, and it belongs to that fence and to a running run.  No claim, release,
\* cancel or reclaim leaves a reservation behind under an older lease.
OneOwner == NewestLeaseOnly /\ OpenReservationOwned

\* active_dispatch_reservation_id names exactly the dispatching reservation, through
\* commit, forfeit, cancel and reclaim.
DispatchIsExclusive ==
    \A r \in Runs : \A n \in DOMAIN reservations[r] :
        reservations[r][n].state = "dispatching" <=> control[r].dispatch = n

\* The snapshot the operator's queue shows is the state of the run: no transaction
\* changes the run, the control row or the fence without a projection.
ProjectionIsCurrent ==
    \A r \in Runs : projection[r] = Project(runs[r], control[r], Len(leases[r]))

\* A permit was given for the reservation: its effect may have happened.
WasDispatched(row) == row.state \in {"dispatching", "committed", "forfeited"}

\* What the replay row says of a dispatch in this state.
ReplayStateOf(state) ==
    IF state = "dispatching" THEN "claimed" ELSE IF state = "committed" THEN "completed" ELSE "failed"

\* The replay row of a governed key says what became of its one dispatch: claimed
\* while it is in flight, completed if it was committed, failed if it was forfeited.
ReplayFollowsDispatch ==
    \A r \in Runs : \A n \in DOMAIN reservations[r] :
        ReplayOf[r] # None /\ WasDispatched(reservations[r][n]) =>
            replays[ReplayOf[r]] = [state |-> ReplayStateOf(reservations[r][n].state), run |-> r]

\* Runs that share a key, recoveries of one run and ungoverned callers get at most
\* one permit for it between them: the claim is taken in the dispatch transaction.
OnePermitPerKey ==
    \A q, r \in Runs : \A m \in DOMAIN reservations[q] : \A n \in DOMAIN reservations[r] :
        /\ ReplayOf[q] = ReplayOf[r] /\ ReplayOf[r] # None
        /\ WasDispatched(reservations[q][m]) /\ WasDispatched(reservations[r][n])
        => q = r /\ m = n

\* A completed replay of a run that was registered with its started event can be
\* returned, whatever was claimed, resumed, cancelled or reclaimed since the commit;
\* that of a run registered without an event is reported as corrupt from the start,
\* and this is the only way to find the store corrupt.
ReplayIsReadable ==
    \A r \in Runs :
        LookupReplay(r) = "corrupt" <=>
            ReplayCompleted(r) /\ ~BoundElsewhere(r) /\ r \notin Started

\* Not so: a completed replay can always be returned to the run that committed it.
\* A run may be registered with a checkpoint and no event.
ReplayIsAlwaysReadable == \A r \in Runs : LookupReplay(r) # "corrupt"

\* An ambiguous dispatch ends its run: the run and its step have failed, there is no
\* directive to resume it with, and no later reservation exists.
ForfeitIsFinal ==
    \A r \in Runs : \A n \in DOMAIN reservations[r] :
        reservations[r][n].state = "forfeited" =>
            /\ n = Len(reservations[r])
            /\ runs[r].status = "failed"
            /\ steps[r] = "failed"
            /\ control[r].directive = 0

\* A recovery directive is pending only on a failed run that was not resumed with it,
\* and at most one reservation ever uses it, after the resume.
RecoveryOnce ==
    \A r \in Runs :
        /\ control[r].directive # 0 =>
               /\ control[r].directive = Len(directives[r])
               /\ ~directives[r][control[r].directive].consumed
               /\ runs[r].status = "failed"
        /\ \A d \in DOMAIN directives[r] :
               LET users == {n \in DOMAIN reservations[r] : reservations[r][n].recovery = d} IN
               /\ Cardinality(users) <= 1
               /\ users # {} => directives[r][d].consumed
               /\ reservations[r][directives[r][d].source].state = "released"

SettledRowKept(row, next) ==
    /\ next.fence = row.fence /\ next.ceiling = row.ceiling /\ next.recovery = row.recovery
    /\ row.state = "dispatching" => next.state \in {"dispatching", "committed", "forfeited"}
    /\ ~IsOpen(row) => next = row

ReservationsKept ==
    \A r \in Runs :
        /\ Len(reservations'[r]) >= Len(reservations[r])
        /\ \A n \in DOMAIN reservations[r] :
               SettledRowKept(reservations[r][n], reservations'[r][n])

\* A reservation is settled once, for good, and a dispatched one is never released
\* (that would hide an effect that may have happened): not by a late commit, a
\* cancel, a retry or a reclaim.
ReservationsSettleOnce == [][ReservationsKept]_storeVars

EndedRunsKept ==
    \A r \in Runs :
        /\ runs[r].status \in {"succeeded", "cancelled"} =>
               runs'[r] = runs[r] /\ reservations'[r] = reservations[r]
        /\ runs[r].status = "failed" /\ runs'[r] # runs[r] =>
               control[r].directive # 0 /\ runs'[r].status = "running"

\* A succeeded or cancelled run never moves or spends again, and a failed one only
\* comes back by the recovery directive that was pending.
EndedRunsStay == [][EndedRunsKept]_storeVars

FencesKept ==
    \A r \in Runs : \A f \in DOMAIN leases[r] :
        /\ f \in DOMAIN leases'[r]
        /\ leases[r][f].state = "released" => leases'[r][f] = leases[r][f]

\* A fence is handed out once: no claim, renewal, release or reclaim drops a lease row
\* or brings a released one back to life.
FencesStand == [][FencesKept]_storeVars

Stranded(r) ==
    /\ \E n \in Open(r) : clock >= leases[r][reservations[r][n].fence].expires
    /\ control[r].revision < MaxRevision

\* Reclaim "resolves that single historical open reservation" of an expired lease: as
\* long as someone tries to reclaim, no reservation stays open under a dead owner.
\* (A control row at its largest revision cannot be written any more.)
ReclaimResolves == \A r \in Runs : Stranded(r) ~> ~Stranded(r)
=============================================================================
