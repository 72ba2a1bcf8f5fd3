--------------------------- MODULE OperatorRuntime ---------------------------
(***************************************************************************)
(* The worker half of the operator control plane: OperatorRuntime and the  *)
(* custody it keeps, over the store.                                       *)
(*                                                                         *)
(* A worker holds at most one OperatorLease: the fence it owns, the        *)
(* control revision it believes is current, and a liveness flag.  It makes *)
(* one call at a time (execute and renew_lease borrow the lease mutably),  *)
(* each a sequence of store transactions between which time passes, other  *)
(* workers run, a human cancels or resumes the run, and the process may    *)
(* die and lose its custody.                                               *)
(***************************************************************************)
EXTENDS OperatorStore

CONSTANT Workers

VARIABLES
    workers,   \* workers[w]: the OperatorLease of w and where its call stands
    effects    \* effects[r]: the handler entries for r, with their time

runtimeVars == <<storeVars, workers, effects>>

\* free: no OperatorLease; held: one, between calls; the others: inside execute.
Stages == {"free", "held", "called", "reserved", "permitted", "executed", "failed"}

Worker ==
    [stage : Stages, run : Runs \cup {None}, fence : Nat, revision : Nat, live : BOOLEAN,
     reservation : Nat]

Free ==
    [stage |-> "free", run |-> None, fence |-> 0, revision |-> 0, live |-> FALSE, reservation |-> 0]

Effect == [reservation : Nat, at : Nat]

RuntimeInit ==
    /\ StoreInit
    /\ workers = [w \in Workers |-> Free]
    /\ effects = [r \in Runs |-> <<>>]

-----------------------------------------------------------------------------
\* A successful store call makes its revision the worker's.
Moves(w, stage) ==
    workers' = [workers EXCEPT ![w] = [@ EXCEPT !.stage = stage, !.revision = workers[w].revision + 1]]

\* The worker goes on without having learned of a new revision.
Stays(w, stage) == workers' = [workers EXCEPT ![w] = [@ EXCEPT !.stage = stage]]

\* lose_authority_on(StaleFence).
Loses(w) == workers' = [workers EXCEPT ![w] = [@ EXCEPT !.stage = "held", !.live = FALSE]]

\* Custody of a new lease, bound to the result of a claim or a reclaim.
Binds(w, r) ==
    workers' = [workers EXCEPT ![w] =
        [stage |-> "held", run |-> r, fence |-> Len(leases[r]) + 1,
         revision |-> control[r].revision + 1, live |-> TRUE, reservation |-> 0]]

\* validate_authority of the worker's own authority: everything else is StaleFence.
MayCall(w) ==
    /\ Authorized(workers[w].run, workers[w].fence)
    /\ workers[w].revision = control[workers[w].run].revision

-----------------------------------------------------------------------------
(* Leases. *)

WorkerClaims(w, r) ==
    /\ workers[w].stage = "free"
    /\ ClaimLease(r)
    /\ Binds(w, r)
    /\ UNCHANGED effects

\* reclaim_lease.  A forfeit hands out nothing.  bind_reclaim_result wants the
\* directive to come from the lease just expired, so the lease of a run that was
\* recoverable before (RecoverableReclaimed) is bound by nobody.
WorkerReclaims(w, r, f) ==
    /\ workers[w].stage = "free"
    /\ \/ \E n \in DOMAIN reservations[r] :
              ReclaimDispatching(r, f, n) /\ UNCHANGED workers
       \/ \E n \in DOMAIN reservations[r] : ReclaimReserved(r, f, n) /\ Binds(w, r)
       \/ ReclaimIdle(r, f) /\ IF control[r].directive = 0 THEN Binds(w, r) ELSE UNCHANGED workers
    /\ UNCHANGED effects

\* renew_lease borrows the lease mutably: never while execute runs.
MayRenew(w) == workers[w].stage = "held"

WorkerRenews(w) ==
    /\ MayRenew(w)
    /\ MayCall(w)
    /\ RenewLease(workers[w].run, workers[w].fence)
    /\ Moves(w, workers[w].stage)
    /\ UNCHANGED effects

\* release_lease consumes the OperatorLease whatever the store answers.
WorkerReleases(w) ==
    /\ workers[w].stage = "held"
    /\ IF MayCall(w) /\ Quiescent(workers[w].run, workers[w].fence)
       THEN ReleaseLease(workers[w].run, workers[w].fence)
       ELSE UNCHANGED storeVars
    /\ workers' = [workers EXCEPT ![w] = Free]
    /\ UNCHANGED effects

\* A renewal or a pre-dispatch release comes back StaleFence, or the owner calls
\* invalidate_local_authority; never inside execute, which borrows the lease.
WorkerLosesAuthority(w) ==
    /\ workers[w].stage = "held"
    /\ workers[w].live
    /\ Loses(w)
    /\ UNCHANGED <<storeVars, effects>>

-----------------------------------------------------------------------------
(* execute. *)

\* load_completed_replay, then the liveness flag: a completed replay is returned,
\* another run's is a conflict, and otherwise the call goes on.
WorkerLooksUp(w) ==
    /\ workers[w].stage = "held"
    /\ workers[w].live
    /\ LookupReplay(workers[w].run) = "not_found"
    /\ Stays(w, "called")
    /\ UNCHANGED <<storeVars, effects>>

WorkerReserves(w, ceiling, d) ==
    LET r == workers[w].run IN
    /\ workers[w].stage = "called"
    /\ MayCall(w)
    /\ Reserve(r, workers[w].fence, ceiling, d)
    /\ workers' = [workers EXCEPT ![w] =
           [@ EXCEPT !.stage = "reserved", !.revision = workers[w].revision + 1,
                     !.reservation = Len(reservations[r]) + 1]]
    /\ UNCHANGED effects

\* The reservation is refused: only a StaleFence costs the worker its authority.
WorkerReserveRefused(w) ==
    /\ workers[w].stage = "called"
    /\ IF MayCall(w) THEN Stays(w, "held") ELSE Loses(w)
    /\ UNCHANGED <<storeVars, effects>>

WorkerBegins(w) ==
    /\ workers[w].stage = "reserved"
    /\ MayCall(w)
    /\ BeginDispatch(workers[w].run, workers[w].fence, workers[w].reservation)
    /\ Moves(w, "permitted")
    /\ UNCHANGED effects

\* begin_dispatch released the reservation.  Past the deadline it answers with an
\* error, and an ungoverned completion fails DispatchResult::validate: the worker
\* then keeps the old revision although the transaction was committed.
WorkerBeginReleased(w) ==
    LET r == workers[w].run IN
    /\ workers[w].stage = "reserved"
    /\ MayCall(w)
    /\ BeginReleases(r, workers[w].fence, workers[w].reservation)
    /\ IF clock >= Deadline \/ replays[ReplayOf[r]].state = "completed"
       THEN Stays(w, "held")
       ELSE Moves(w, "held")
    /\ UNCHANGED effects

\* Anything else is an error that changes nothing; the reservation stays reserved.
WorkerBeginRefused(w) ==
    LET r == workers[w].run IN
    /\ workers[w].stage = "reserved"
    /\ IF MayCall(w)
       THEN /\ ~BeginReady(r, workers[w].fence, workers[w].reservation) \/ LookupFails(r)
            /\ Stays(w, "held")
       ELSE Loses(w)
    /\ UNCHANGED <<storeVars, effects>>

\* release_pre_dispatch, called explicitly after a refused begin.
WorkerReleasesReservation(w) ==
    /\ workers[w].stage = "held"
    /\ MayCall(w)
    /\ ReleasePreDispatch(workers[w].run, workers[w].fence, workers[w].reservation)
    /\ Moves(w, "held")
    /\ UNCHANGED effects

\* bind_permit finds the deadline passed: the error leaves the dispatch open.
WorkerBindFails(w) ==
    /\ workers[w].stage = "permitted"
    /\ clock >= Deadline
    /\ Stays(w, "held")
    /\ UNCHANGED <<storeVars, effects>>

\* Mutant of EffectAllowed: the permit is not checked to be unused.
EffectAllowedAgain(w) == workers[w].stage \in {"permitted", "executed"} /\ clock < Deadline

\* consume_effect: the lease flag is live, the budget deadline (in UTC and on the
\* monotonic clock derived from it) is not reached, and the permit is unused.  The
\* expiry of the lease is not looked at.
EffectAllowed(w) == workers[w].stage = "permitted" /\ workers[w].live /\ clock < Deadline

\* The handler is entered; it returns a prepared execution or an error.
WorkerExecutes(w) ==
    LET r == workers[w].run IN
    /\ EffectAllowed(w)
    /\ effects' = [effects EXCEPT ![r] =
           Append(@, [reservation |-> workers[w].reservation, at |-> clock])]
    /\ \E stage \in {"executed", "failed"} : Stays(w, stage)
    /\ UNCHANGED storeVars

\* The engine refuses the plan before the handler is entered.
WorkerRefusesPlan(w) ==
    /\ workers[w].stage = "permitted"
    /\ Stays(w, "failed")
    /\ UNCHANGED <<storeVars, effects>>

WorkerCommits(w, charged) ==
    /\ workers[w].stage = "executed"
    /\ MayCall(w)
    /\ CommitRuntime(workers[w].run, workers[w].fence, workers[w].reservation, charged)
    /\ Moves(w, "held")
    /\ UNCHANGED effects

\* The commit barrier forfeits instead and answers with an error.
WorkerCommitForfeits(w) ==
    /\ workers[w].stage = "executed"
    /\ MayCall(w)
    /\ ForfeitRuntime(workers[w].run, workers[w].fence, workers[w].reservation)
    /\ Stays(w, "held")
    /\ UNCHANGED effects

WorkerSettlesFailure(w) ==
    /\ workers[w].stage = "failed"
    /\ MayCall(w)
    /\ ForfeitRuntime(workers[w].run, workers[w].fence, workers[w].reservation)
    /\ Moves(w, "held")
    /\ UNCHANGED effects

\* The settlement comes too late.  A reservation that reclaim has forfeited makes
\* the commit not actionable and the failure a success with the revision of now;
\* one that is still dispatching under a dead lease is StaleFence.
WorkerSettlesTooLate(w) ==
    LET r == workers[w].run
        row == reservations[r][workers[w].reservation]
    IN  /\ workers[w].stage \in {"executed", "failed"}
        /\ \/ /\ row.state = "dispatching"
              /\ ~MayCall(w)
              /\ Loses(w)
           \/ /\ row.state = "forfeited"
              /\ workers' = [workers EXCEPT ![w] =
                     [@ EXCEPT !.stage = "held",
                               !.revision = IF workers[w].stage = "failed"
                                            THEN control[r].revision ELSE workers[w].revision]]
        /\ UNCHANGED <<storeVars, effects>>

\* The process dies with its tokens.
WorkerCrashes(w) ==
    /\ workers[w].stage # "free"
    /\ workers' = [workers EXCEPT ![w] = Free]
    /\ UNCHANGED <<storeVars, effects>>

-----------------------------------------------------------------------------
WorkerLease(w) ==
    \/ \E r \in Runs : WorkerClaims(w, r) \/ \E f \in DOMAIN leases[r] : WorkerReclaims(w, r, f)
    \/ WorkerRenews(w)
    \/ WorkerReleases(w)
    \/ WorkerLosesAuthority(w)

WorkerCall(w) ==
    \/ WorkerLooksUp(w)
    \/ /\ workers[w].stage = "called"
       /\ \E ceiling \in Ceilings, d \in 0..Len(directives[workers[w].run]) :
              WorkerReserves(w, ceiling, d)
    \/ WorkerReserveRefused(w)
    \/ WorkerBegins(w)
    \/ WorkerBeginReleased(w)
    \/ WorkerBeginRefused(w)
    \/ WorkerReleasesReservation(w)
    \/ WorkerBindFails(w)
    \/ WorkerExecutes(w)
    \/ WorkerRefusesPlan(w)
    \/ \E charged \in 0..Limit : WorkerCommits(w, charged)
    \/ WorkerCommitForfeits(w)
    \/ WorkerSettlesFailure(w)
    \/ WorkerSettlesTooLate(w)

\* The human, the ungoverned callers and the clock.
Environment ==
    /\ \/ \E r \in Runs : Command(r)
       \/ \E k \in Keys : ClaimUngoverned(k) \/ SettleUngoverned(k)
       \/ Tick
    /\ UNCHANGED <<workers, effects>>

RuntimeNext ==
    \/ \E w \in Workers : WorkerLease(w) \/ WorkerCall(w) \/ WorkerCrashes(w)
    \/ Environment

RuntimeSpec == RuntimeInit /\ [][RuntimeNext]_runtimeVars

-----------------------------------------------------------------------------
(* Properties. *)

\* The type of the custody the workers keep and of the effects, beside the store's.
RuntimeTypeOK ==
    /\ StoreTypeOK
    /\ workers \in [Workers -> Worker]
    /\ effects \in [Runs -> Seq(Effect)]

EffectsOf(r, n) == {i \in DOMAIN effects[r] : effects[r][i].reservation = n}

\* Every handler entry is paid for and every committed result comes from one entry:
\* a reservation whose handler ran is dispatching, committed or forfeited, never
\* released, and it ran once, whichever worker crashed, stalled or lost its lease.
EffectIsAccounted ==
    \A r \in DOMAIN effects :
        /\ \A i \in DOMAIN effects[r] :
               reservations[r][effects[r][i].reservation].state
                   \in {"dispatching", "committed", "forfeited"}
        /\ \A n \in DOMAIN reservations[r] :
               /\ \A i, j \in EffectsOf(r, n) : i = j
               /\ reservations[r][n].state = "committed" => EffectsOf(r, n) # {}

\* A call with an idempotency key enters its handler at most once over all runs,
\* workers, recoveries and retries.
EffectOncePerKey ==
    \A q, r \in DOMAIN effects : \A i \in DOMAIN effects[q] : \A j \in DOMAIN effects[r] :
        ReplayOf[q] = ReplayOf[r] /\ ReplayOf[r] # None => q = r /\ i = j

\* As long as its lease lasts, a worker that holds a permit can settle it: no human
\* command, renewal or other worker moves the control row under a dispatch.
PermitCanBeSettled ==
    \A w \in Workers :
        LET me == workers[w] IN
        me.stage \in {"permitted", "executed", "failed"} /\ Authorized(me.run, me.fence) =>
            MayCall(w) /\ PermitStands(me.run, me.fence, me.reservation)

\* "Live holders enforce a derived monotonic deadline" of their lease: no handler is
\* entered for a worker whose lease has expired.
EffectWithinLease ==
    \A r \in Runs : \A i \in DOMAIN effects[r] :
        effects[r][i].at < leases[r][reservations[r][effects[r][i].reservation].fence].expires
=============================================================================
