--------------------------- MODULE OperatorCustody --------------------------
(***************************************************************************)
(* The custody that the workers of the operator control plane keep, next   *)
(* to the store: the invariant that ties workers, permits and handler      *)
(* entries to the rows, what a transaction of one worker does to the       *)
(* others, and that whatever a worker does is a store transaction or none. *)
(***************************************************************************)
EXTENDS OperatorRuntime, OperatorStoreHistory

\* Time limits for the leaves that name no prover.
USE SMTT(30), ZenonT(30)

Holds(w) == workers[w].stage # "free"

HasPermit(w) == workers[w].stage \in {"permitted", "executed", "failed"}

\* The row the worker's call is about.
OwnRow(w) == reservations[workers[w].run][workers[w].reservation]

OwnLease(w) == leases[workers[w].run][workers[w].fence]

OwnControl(w) == control[workers[w].run]

\* A worker owns a lease that exists.
OwnerInv(w) ==
    Holds(w) => workers[w].run \in Runs /\ workers[w].fence \in DOMAIN leases[workers[w].run]

\* No two workers own the same lease.
SoleInv(v, w) ==
    Holds(v) /\ Holds(w) /\ workers[v].run = workers[w].run /\ workers[v].fence = workers[w].fence => v = w

\* A worker with a permit: its row was dispatched under its fence, is in flight as long
\* as the lease is active, and while it is nothing has moved the control row.
PermitInv(w) ==
    HasPermit(w) =>
        /\ workers[w].reservation \in DOMAIN reservations[workers[w].run]
        /\ WasDispatched(OwnRow(w))
        /\ OwnRow(w).fence = workers[w].fence
        /\ OwnLease(w).state = "active" => OwnRow(w).state = "dispatching"
        /\ OwnRow(w).state = "dispatching" =>
               /\ OwnControl(w).revision = OwnRow(w).permit + 1
               /\ workers[w].revision = OwnControl(w).revision

\* The handler was not entered for an unused permit, and was for an executed one.
StageInv(w) ==
    /\ workers[w].stage = "permitted" => EffectsOf(workers[w].run, workers[w].reservation) = {}
    /\ workers[w].stage = "executed" => EffectsOf(workers[w].run, workers[w].reservation) # {}

WorkerInv(w) == OwnerInv(w) /\ PermitInv(w) /\ StageInv(w)

\* The effects of r: of dispatched rows, one for each, and one for a committed row.
EffectInv(r) ==
    /\ \A i \in DOMAIN effects[r] :
           /\ effects[r][i].reservation \in DOMAIN reservations[r]
           /\ WasDispatched(Row(r, effects[r][i].reservation))
    /\ \A i, j \in DOMAIN effects[r] : effects[r][i].reservation = effects[r][j].reservation => i = j
    /\ \A n \in DOMAIN reservations[r] : Row(r, n).state = "committed" => EffectsOf(r, n) # {}

\* Everything a step of a worker needs of the state it finds.
RInv ==
    /\ SInv /\ KeyInv /\ RuntimeTypeOK
    /\ \A w \in Workers : WorkerInv(w)
    /\ \A v, w \in Workers : SoleInv(v, w)
    /\ \A r \in Runs : EffectInv(r)

-----------------------------------------------------------------------------
(* What a transaction does to the workers that do not make it. *)

\* The rows behind the permit of v are left alone, or reclaim has taken them.
Undisturbed(v) ==
    HasPermit(v) /\ OwnRow(v).state = "dispatching" =>
        \/ Same(workers[v].run)
        \/ /\ reservations'[workers[v].run][workers[v].reservation].state = "forfeited"
           /\ leases'[workers[v].run][workers[v].fence].state = "released"

\* No row is committed without an effect.
CommitsBacked ==
    \A q \in Runs : \A m \in DOMAIN reservations'[q] :
        reservations'[q][m].state = "committed" => EffectsOf(q, m) # {}

\* What a worker with a permit may rely on.
LEMMA PermitFacts ==
  ASSUME RInv, NEW v \in Workers, HasPermit(v)
  PROVE  /\ Holds(v) /\ workers[v].run \in Runs /\ workers[v].fence \in DOMAIN leases[workers[v].run]
         /\ workers[v].reservation \in DOMAIN reservations[workers[v].run]
         /\ WasDispatched(OwnRow(v)) /\ OwnRow(v).fence = workers[v].fence
         /\ OwnLease(v).state = "active" => OwnRow(v).state = "dispatching"
         /\ OwnRow(v).state = "dispatching" =>
                /\ OwnControl(v).revision = OwnRow(v).permit + 1
                /\ workers[v].revision = OwnControl(v).revision
                /\ OwnRow(v).fence = Len(leases[workers[v].run])
                /\ workers[v].reservation = Len(reservations[workers[v].run])
  <1>1. Holds(v) /\ OwnerInv(v) /\ PermitInv(v) /\ SInv
    BY Zenon DEF RInv, WorkerInv, HasPermit, Holds
  <1>2. workers[v].run \in Runs /\ workers[v].fence \in DOMAIN leases[workers[v].run]
    BY <1>1 DEF OwnerInv
  <1>3. OpenInv(workers[v].run)
    BY <1>1, <1>2 DEF SInv, RunInv
  <1>4. OwnRow(v) = Row(workers[v].run, workers[v].reservation)
    BY DEF OwnRow, Row
  <1>5. OwnRow(v).state = "dispatching" => IsOpen(OwnRow(v))
    BY DEF IsOpen
  <1> QED BY Zenon, <1>1, <1>2, <1>3, <1>4, <1>5 DEF PermitInv, OpenInv

\* A worker that does nothing keeps its lease, and its permit if undisturbed.
LEMMA IdleWorker ==
  ASSUME RInv, [StoreNext]_storeVars, UNCHANGED effects, NEW v \in Workers, workers'[v] = workers[v], Undisturbed(v)
  PROVE  WorkerInv(v)'
  <1> DEFINE r == workers[v].run
             f == workers[v].fence
             n == workers[v].reservation
  <1>1. FencesKept /\ ReservationsKept /\ SInv
    BY Zenon, StoreNextFences, StoreNextKept DEF RInv
  <1>2. OwnerInv(v)'
    BY Zenon, <1>1 DEF RInv, WorkerInv, OwnerInv, Holds, FencesKept
  <1>3. StageInv(v)'
    BY Zenon DEF RInv, WorkerInv, StageInv, EffectsOf
  <1>4. ASSUME HasPermit(v)
        PROVE  /\ n \in DOMAIN reservations'[r] /\ WasDispatched(reservations'[r][n])
               /\ reservations'[r][n].fence = f
               /\ leases'[r][f].state = "active" => reservations'[r][n].state = "dispatching"
               /\ reservations'[r][n].state = "dispatching" =>
                      /\ control'[r].revision = reservations'[r][n].permit + 1
                      /\ workers[v].revision = control'[r].revision
    <2>1. /\ r \in Runs /\ f \in DOMAIN leases[r] /\ n \in DOMAIN reservations[r]
          /\ WasDispatched(reservations[r][n]) /\ reservations[r][n].fence = f
          /\ leases[r][f].state = "active" => reservations[r][n].state = "dispatching"
          /\ reservations[r][n].state = "dispatching" =>
                 control[r].revision = reservations[r][n].permit + 1 /\ workers[v].revision = control[r].revision
      BY Zenon, <1>4, PermitFacts DEF OwnRow, OwnLease, OwnControl
    <2> HIDE DEF r, f, n
    <2>2. /\ SettledRowKept(reservations[r][n], reservations'[r][n])
          /\ Len(reservations'[r]) >= Len(reservations[r])
      BY Zenon, <1>1, <2>1 DEF ReservationsKept
    <2>3. n \in DOMAIN reservations'[r]
      <3>1. SInv'
        BY Zenon, <1>1, StoreNextInv
      <3>2. reservations[r] \in Seq(Reservation) /\ reservations'[r] \in Seq(Reservation)
        BY Zenon, <1>1, <2>1, <3>1 DEF SInv, StoreTypeOK
      <3> QED BY <2>1, <2>2, <3>2
    <2>4. CASE reservations[r][n].state = "dispatching"
      <3>1. \/ Same(r)
            \/ reservations'[r][n].state = "forfeited" /\ leases'[r][f].state = "released"
        BY Zenon, <1>4, <2>4 DEF Undisturbed, OwnRow, r, f, n
      <3> QED BY Zenon, <2>1, <2>2, <2>3, <2>4, <3>1 DEF SettledRowKept, WasDispatched, Same
    <2>5. CASE reservations[r][n].state # "dispatching"
      <3>1. leases[r][f].state = "released"
        <4>1. leases[r] \in Seq(Lease) /\ f \in DOMAIN leases[r]
          BY Zenon, <1>1, <2>1, ReadFacts
        <4>2. leases[r][f] \in Lease
          BY <4>1
        <4> QED BY Zenon, <2>1, <2>5, <4>2 DEF Lease
      <3>2. leases'[r][f] = leases[r][f]
        BY Zenon, <1>1, <2>1, <3>1 DEF FencesKept
      <3>3. reservations'[r][n] = reservations[r][n]
        BY Zenon, <2>1, <2>2, <2>5 DEF SettledRowKept, WasDispatched, IsOpen
      <3> QED BY Zenon, <2>1, <2>3, <2>5, <3>1, <3>2, <3>3
    <2> QED BY ZenonT(40), <2>4, <2>5
  <1>5. PermitInv(v)'
    BY Zenon, <1>4 DEF PermitInv, HasPermit, OwnRow, OwnLease, OwnControl
  <1> QED BY <1>2, <1>3, <1>5 DEF WorkerInv

\* The effects stay accounted for when none is added.
LEMMA EffectsStay ==
  ASSUME RInv, [StoreNext]_storeVars, UNCHANGED effects, CommitsBacked, NEW r \in Runs
  PROVE  EffectInv(r)'
  <1>1. ReservationsKept /\ SInv /\ SInv' /\ EffectInv(r)
    BY Zenon, StoreNextKept, StoreNextInv DEF RInv
  <1>2. reservations[r] \in Seq(Reservation) /\ reservations'[r] \in Seq(Reservation)
    BY Zenon, <1>1 DEF SInv, StoreTypeOK
  <1>3. ASSUME NEW n \in DOMAIN reservations[r], WasDispatched(reservations[r][n])
        PROVE  n \in DOMAIN reservations'[r] /\ WasDispatched(reservations'[r][n])
    <2>1. Len(reservations'[r]) >= Len(reservations[r]) /\ SettledRowKept(reservations[r][n], reservations'[r][n])
      BY Zenon, <1>1 DEF ReservationsKept
    <2> QED BY <1>2, <1>3, <2>1 DEF SettledRowKept, WasDispatched, IsOpen
  <1>4. \A i \in DOMAIN effects'[r] :
            /\ effects'[r][i].reservation \in DOMAIN reservations'[r]
            /\ WasDispatched(reservations'[r][effects'[r][i].reservation])
    BY Zenon, <1>1, <1>3 DEF EffectInv, Row
  <1>5. \A i, j \in DOMAIN effects'[r] : effects'[r][i].reservation = effects'[r][j].reservation => i = j
    BY Zenon, <1>1 DEF EffectInv
  <1>6. \A n \in DOMAIN reservations'[r] : reservations'[r][n].state = "committed" => EffectsOf(r, n)' # {}
    BY DEF CommitsBacked, EffectsOf
  <1> QED BY Zenon, <1>4, <1>5, <1>6 DEF EffectInv, Row

\* A step that enters no handler: what there is to show.
LEMMA StepInv ==
  ASSUME RInv, [StoreNext]_storeVars, UNCHANGED effects, CommitsBacked,
         workers' \in [Workers -> Worker],
         \A v \in Workers : WorkerInv(v)' \/ (workers'[v] = workers[v] /\ Undisturbed(v)),
         \A v, w \in Workers : SoleInv(v, w)'
  PROVE  RInv'
  <1>1. SInv' /\ KeyInv'
    BY Zenon, StoreNextInv, KeyNext DEF RInv
  <1>2. RuntimeTypeOK'
    BY Zenon, <1>1 DEF RInv, RuntimeTypeOK, SInv
  <1>3. \A v \in Workers : WorkerInv(v)'
    BY IdleWorker
  <1>4. \A r \in Runs : EffectInv(r)'
    BY EffectsStay
  <1> QED BY <1>1, <1>2, <1>3, <1>4 DEF RInv

\* No worker takes part.
LEMMA OutsideInv ==
  ASSUME RInv, [StoreNext]_storeVars, UNCHANGED <<workers, effects>>, CommitsBacked, \A v \in Workers : Undisturbed(v)
  PROVE  RInv'
  <1>1. workers' \in [Workers -> Worker]
    BY Zenon DEF RInv, RuntimeTypeOK
  <1>2. \A v, w \in Workers : SoleInv(v, w)'
    BY DEF RInv, SoleInv, Holds
  <1> QED BY <1>1, <1>2, StepInv

\* One worker does, and keeps its lease, gives it up, or takes a new one.
LEMMA WorkerStepInv ==
  ASSUME RInv, [StoreNext]_storeVars, UNCHANGED effects, CommitsBacked,
         NEW w \in Workers, NEW me \in Worker, workers' = [workers EXCEPT ![w] = me],
         \/ me.stage = "free"
         \/ Holds(w) /\ me.run = workers[w].run /\ me.fence = workers[w].fence
         \/ me.run \in Runs /\ me.fence \notin DOMAIN leases[me.run] /\ me.fence \in DOMAIN leases'[me.run],
         me.stage \in {"permitted", "executed", "failed"} => PermitInv(w)' /\ StageInv(w)',
         \A v \in Workers \ {w} : Undisturbed(v)
  PROVE  RInv'
  <1>1. /\ workers' \in [Workers -> Worker] /\ workers'[w] = me
        /\ \A v \in Workers \ {w} : workers'[v] = workers[v]
    BY Zenon DEF RInv, RuntimeTypeOK
  <1>2. FencesKept /\ \A v \in Workers : OwnerInv(v)
    BY StoreNextFences DEF RInv, WorkerInv
  <1>3. OwnerInv(w)'
    BY Zenon, <1>1, <1>2 DEF OwnerInv, Holds, FencesKept
  <1>4. PermitInv(w)' /\ StageInv(w)'
    BY Zenon, <1>1 DEF PermitInv, StageInv, HasPermit
  <1>5. ASSUME NEW v \in Workers, v # w, workers'[v].stage # "free", workers'[w].stage # "free",
               workers'[v].run = workers'[w].run, workers'[v].fence = workers'[w].fence
        PROVE  FALSE
    <2>1. Holds(v) /\ workers[v].run = me.run /\ workers[v].fence = me.fence /\ me.stage # "free"
      BY Zenon, <1>1, <1>5 DEF Holds
    <2>2. workers[v].fence \in DOMAIN leases[workers[v].run]
      BY Zenon, <1>2, <2>1 DEF OwnerInv
    <2>3. Holds(w) /\ me.run = workers[w].run /\ me.fence = workers[w].fence
      BY Zenon, <2>1, <2>2
    <2>4. SoleInv(v, w)
      BY Zenon DEF RInv
    <2> QED BY Zenon, <1>5, <2>1, <2>3, <2>4 DEF SoleInv
  <1>6. ASSUME NEW u \in Workers, NEW v \in Workers PROVE SoleInv(u, v)'
    <2>1. CASE u # w /\ v # w
      <3>1. SoleInv(u, v)
        BY Zenon DEF RInv
      <3> QED BY Zenon, <1>1, <2>1, <3>1 DEF SoleInv, Holds
    <2>2. CASE u = w \/ v = w
      BY Zenon, <1>5, <2>2 DEF SoleInv, Holds
    <2> QED BY <2>1, <2>2
  <1>7. WorkerInv(w)'
    BY Zenon, <1>3, <1>4 DEF WorkerInv
  <1>8. \A v \in Workers : WorkerInv(v)' \/ (workers'[v] = workers[v] /\ Undisturbed(v))
    BY Zenon, <1>1, <1>7
  <1> QED BY Zenon, <1>1, <1>6, <1>8, StepInv

\* Rows that are committed already are backed.
LEMMA OldCommits ==
  ASSUME RInv,
         \A q \in Runs : \A m \in DOMAIN reservations'[q] : reservations'[q][m].state = "committed" =>
             m \in DOMAIN reservations[q] /\ reservations[q][m].state = "committed"
  PROVE  CommitsBacked
  BY Zenon DEF RInv, EffectInv, Row, CommitsBacked

\* A step that leaves the rows of every run alone disturbs nobody.
LEMMA SameUndisturbed ==
  ASSUME RInv, \A q \in Runs : Same(q)
  PROVE  CommitsBacked /\ \A v \in Workers : Undisturbed(v)
  <1>1. CommitsBacked
    BY Zenon, OldCommits DEF Same
  <1> QED BY Zenon, <1>1, PermitFacts DEF Undisturbed

\* A run with an effect in flight refuses the calm transactions.
LEMMA CalmUndisturbed ==
  ASSUME RInv, NEW r \in Runs, CalmCall(r)
  PROVE  CommitsBacked /\ \A v \in Workers : Undisturbed(v)
  <1>0. /\ \A n \in DOMAIN reservations[r] : Row(r, n).state # "dispatching"
        /\ \A q \in Runs \ {r} : Same(q)
        /\ \A n \in DOMAIN reservations'[r] : WasDispatched(reservations'[r][n]) =>
               n \in DOMAIN reservations[r] /\ reservations'[r][n] = reservations[r][n]
    BY Zenon, CalmFacts DEF RInv
  <1>1. CommitsBacked
    BY Zenon, <1>0, OldCommits DEF Same, WasDispatched
  <1>2. ASSUME NEW v \in Workers, HasPermit(v), OwnRow(v).state = "dispatching" PROVE Same(workers[v].run)
    BY ZenonT(40), <1>0, <1>2, PermitFacts DEF OwnRow, Row
  <1> QED BY Zenon, <1>1, <1>2 DEF Undisturbed

\* The owner of the newest lease disturbs no other worker: the row in flight is its own.
LEMMA OwnerUndisturbed ==
  ASSUME RInv, NEW w \in Workers, Holds(w), Authorized(workers[w].run, workers[w].fence),
         \A q \in Runs \ {workers[w].run} : Same(q)
  PROVE  \A v \in Workers \ {w} : Undisturbed(v)
  <1>1. SInv /\ workers[w].run \in Runs
    BY Zenon DEF RInv, WorkerInv, OwnerInv
  <1>2. workers[w].fence = Len(leases[workers[w].run])
    BY <1>1, AuthorizedIsNewest
  <1>3. ASSUME NEW v \in Workers \ {w}, HasPermit(v), OwnRow(v).state = "dispatching" PROVE Same(workers[v].run)
    <2>1. Holds(v) /\ workers[v].run \in Runs /\ workers[v].fence = Len(leases[workers[v].run])
      BY Zenon, <1>3, PermitFacts
    <2>2. SoleInv(v, w)
      BY Zenon, <1>3 DEF RInv
    <2>3. workers[v].run # workers[w].run
      BY Zenon, <1>2, <1>3, <2>1, <2>2 DEF SoleInv
    <2> QED BY Zenon, <2>1, <2>3
  <1> QED BY Zenon, <1>3 DEF Undisturbed

\* Reclaim takes the lease with the row.
LEMMA ReclaimUndisturbed ==
  ASSUME RInv, NEW r \in Runs, NEW f \in DOMAIN leases[r], NEW n \in DOMAIN reservations[r], ReclaimDispatching(r, f, n)
  PROVE  CommitsBacked /\ \A v \in Workers : Undisturbed(v)
  <1>0. SInv /\ RunInv(r)
    BY Zenon DEF RInv, SInv
  <1>1. /\ Row(r, n).state = "dispatching" /\ DispatchMoved(r, n, "forfeited")
        /\ leases[r][f].state = "active" /\ leases'[r][f].state = "released"
    BY Zenon, <1>0, ForfeitMoved
  <1>2. n = Len(reservations[r]) /\ f = Len(leases[r])
    BY Zenon, <1>0, <1>1 DEF RunInv, OpenInv, LeaseInv, IsOpen
  <1>3. CommitsBacked
    BY Zenon, <1>1, OldCommits DEF DispatchMoved, Same
  <1>4. ASSUME NEW v \in Workers, HasPermit(v), OwnRow(v).state = "dispatching"
        PROVE  \/ Same(workers[v].run)
               \/ /\ reservations'[workers[v].run][workers[v].reservation].state = "forfeited"
                  /\ leases'[workers[v].run][workers[v].fence].state = "released"
    <2>1. /\ workers[v].run \in Runs /\ workers[v].fence = Len(leases[workers[v].run])
          /\ workers[v].reservation = Len(reservations[workers[v].run])
      BY Zenon, <1>4, PermitFacts
    <2>2. CASE workers[v].run # r
      BY Zenon, <1>1, <2>1, <2>2 DEF DispatchMoved
    <2>3. CASE workers[v].run = r
      <3>1. workers[v].reservation = n /\ workers[v].fence = f
        BY Zenon, <1>2, <2>1, <2>3
      <3> QED BY Zenon, <1>1, <2>3, <3>1 DEF DispatchMoved
    <2> QED BY Zenon, <2>2, <2>3
  <1> QED BY Zenon, <1>3, <1>4 DEF Undisturbed

-----------------------------------------------------------------------------
(* The steps of a worker are steps of the store. *)

\* A worker outside of "free" owns a lease of a run.
LEMMA Custody ==
  ASSUME RInv, NEW w \in Workers
  PROVE  /\ workers[w] \in Worker /\ workers \in [Workers -> Worker]
         /\ Holds(w) => workers[w].run \in Runs /\ workers[w].fence \in DOMAIN leases[workers[w].run]
         /\ SInv
  BY Zenon DEF RInv, RuntimeTypeOK, WorkerInv, OwnerInv

\* A lease call of a worker.
LEMMA LeaseStoreStep == ASSUME RInv, NEW w \in Workers, WorkerLease(w) PROVE [StoreNext]_storeVars
  <1>1. ASSUME NEW r \in Runs, WorkerClaims(w, r) PROVE StoreNext
    BY Zenon, <1>1 DEF WorkerClaims, StoreNext, LeaseCall
  <1>2. ASSUME NEW r \in Runs, NEW f \in DOMAIN leases[r], WorkerReclaims(w, r, f) PROVE StoreNext
    <2>1. Reclaim(r)
      BY Zenon, <1>2 DEF WorkerReclaims, Reclaim
    <2> QED BY Zenon, <2>1 DEF StoreNext
  <1>3. CASE WorkerRenews(w)
    <2>1. LeaseCall(workers[w].run) /\ workers[w].run \in Runs
      BY Zenon, <1>3, Custody DEF WorkerRenews, MayRenew, LeaseCall, Holds
    <2> QED BY Zenon, <2>1 DEF StoreNext
  <1>4. CASE WorkerReleases(w)
    <2>1. workers[w].run \in Runs /\ workers[w].fence \in DOMAIN leases[workers[w].run]
      BY Zenon, <1>4, Custody DEF WorkerReleases, Holds
    <2>2. UNCHANGED storeVars \/ LeaseCall(workers[w].run)
      BY Zenon, <1>4, <2>1 DEF WorkerReleases, LeaseCall
    <2> QED BY Zenon, <2>1, <2>2 DEF StoreNext
  <1>5. CASE WorkerLosesAuthority(w)
    BY Zenon, <1>5 DEF WorkerLosesAuthority
  <1> QED BY <1>1, <1>2, <1>3, <1>4, <1>5 DEF WorkerLease

\* A step of execute.
LEMMA CallStoreStep == ASSUME RInv, NEW w \in Workers, WorkerCall(w) PROVE [StoreNext]_storeVars
  <1> DEFINE r == workers[w].run
             f == workers[w].fence
             n == workers[w].reservation
  <1>1. Holds(w) => r \in Runs /\ f \in DOMAIN leases[r]
    BY Zenon, Custody
  <1>2. ASSUME NEW ceiling \in Ceilings, NEW d \in 0..Len(directives[r]), WorkerReserves(w, ceiling, d)
        PROVE  StoreNext
    <2>1. BudgetCall(r) /\ r \in Runs
      BY Zenon, <1>1, <1>2 DEF WorkerReserves, Holds, BudgetCall
    <2> QED BY Zenon, <2>1 DEF StoreNext
  <1>3. CASE WorkerReleasesReservation(w)
    <2>1. /\ Holds(w) /\ ReleasePreDispatch(r, f, n) /\ n \in DOMAIN reservations[r]
      BY Zenon, <1>3 DEF WorkerReleasesReservation, Holds, ReleasePreDispatch
    <2>2. BudgetCall(r) /\ r \in Runs
      BY Zenon, <1>1, <2>1 DEF BudgetCall
    <2> QED BY ZenonT(40), <2>2 DEF StoreNext
  <1>4. ASSUME Holds(w), n \in DOMAIN reservations[r],
               \/ BeginReleases(r, f, n) \/ BeginDispatch(r, f, n) \/ ForfeitRuntime(r, f, n)
               \/ \E charged \in 0..reservations[r][n].ceiling : CommitRuntime(r, f, n, charged)
        PROVE  StoreNext
    <2>1. DispatchCall(r) /\ r \in Runs
      BY ZenonT(40), <1>1, <1>4 DEF DispatchCall
    <2> QED BY Zenon, <2>1 DEF StoreNext
  <1>5. CASE WorkerBegins(w)
    BY ZenonT(40), <1>4, <1>5 DEF WorkerBegins, Holds, BeginDispatch, BeginReady
  <1>6. CASE WorkerBeginReleased(w)
    BY ZenonT(40), <1>4, <1>6 DEF WorkerBeginReleased, Holds, BeginReleases, BeginReady
  <1>7. ASSUME NEW charged \in 0..Limit, WorkerCommits(w, charged) PROVE StoreNext
    <2>1. Holds(w) /\ n \in DOMAIN reservations[r] /\ CommitRuntime(r, f, n, charged)
      BY Zenon, <1>7 DEF WorkerCommits, Holds, CommitRuntime, PermitStands
    <2>2. reservations[r][n].ceiling \in Nat /\ charged <= reservations[r][n].ceiling
      BY ZenonT(40), <1>1, <2>1, Custody, CeilingFacts DEF CommitRuntime
    <2>3. charged \in 0..reservations[r][n].ceiling
      BY Zenon, <2>2, ChargeRange
    <2> QED BY ZenonT(40), <1>4, <2>1, <2>3
  <1>8. CASE WorkerCommitForfeits(w) \/ WorkerSettlesFailure(w)
    BY ZenonT(40), <1>4, <1>8 DEF WorkerCommitForfeits, WorkerSettlesFailure, Holds, ForfeitRuntime, PermitStands
  <1>9. CASE WorkerLooksUp(w) \/ WorkerReserveRefused(w) \/ WorkerBeginRefused(w) \/ WorkerBindFails(w)
             \/ WorkerExecutes(w) \/ WorkerRefusesPlan(w) \/ WorkerSettlesTooLate(w)
    BY Zenon, <1>9 DEF WorkerLooksUp, WorkerReserveRefused, WorkerBeginRefused, WorkerBindFails, WorkerExecutes,
       WorkerRefusesPlan, WorkerSettlesTooLate
  <1> QED BY Zenon, <1>2, <1>3, <1>5, <1>6, <1>7, <1>8, <1>9 DEF WorkerCall

\* Every step of the runtime is a transaction of the store, or leaves the store alone.
LEMMA StoreStep == RInv /\ [RuntimeNext]_runtimeVars => [StoreNext]_storeVars
  <1> SUFFICES ASSUME RInv, [RuntimeNext]_runtimeVars PROVE [StoreNext]_storeVars
    BY Zenon
  <1>1. CASE UNCHANGED runtimeVars
    BY <1>1 DEF runtimeVars
  <1>2. ASSUME NEW w \in Workers, WorkerCrashes(w) PROVE UNCHANGED storeVars
    BY Zenon, <1>2 DEF WorkerCrashes
  <1>3. CASE Environment
    BY Zenon, <1>3 DEF Environment, StoreNext
  <1> QED BY Zenon, <1>1, <1>2, <1>3, LeaseStoreStep, CallStoreStep DEF RuntimeNext

-----------------------------------------------------------------------------
(* The invariant: how a worker moves. *)

\* A worker goes to a stage with the revision a call returned.
LEMMA MoveFacts ==
  ASSUME RInv, NEW w \in Workers, NEW stage \in Stages, Moves(w, stage)
  PROVE  \E me \in Worker :
             /\ workers' = [workers EXCEPT ![w] = me] /\ me.stage = stage
             /\ me.run = workers[w].run /\ me.fence = workers[w].fence /\ me.reservation = workers[w].reservation
             /\ me.revision = workers[w].revision + 1
  <1> DEFINE old == workers[w]
             me == [old EXCEPT !.stage = stage, !.revision = old.revision + 1]
  <1>1. old \in Worker
    BY Zenon, Custody
  <1>2. workers' = [workers EXCEPT ![w] = me]
    BY DEF Moves
  <1> HIDE DEF old
  <1>3. old.revision + 1 \in Nat
    BY <1>1 DEF Worker
  <1>4. me \in Worker
    BY ZenonT(40), <1>1, <1>3 DEF Worker
  <1>5. /\ me.stage = stage /\ me.run = old.run /\ me.fence = old.fence
        /\ me.reservation = old.reservation /\ me.revision = old.revision + 1
    BY Zenon, <1>1 DEF Worker
  <1> HIDE DEF me
  <1> QED BY ZenonT(40), <1>2, <1>4, <1>5 DEF old

\* A worker goes to a stage with the revision it had.
LEMMA StayFacts ==
  ASSUME RInv, NEW w \in Workers, NEW stage \in Stages, Stays(w, stage)
  PROVE  \E me \in Worker :
             /\ workers' = [workers EXCEPT ![w] = me] /\ me.stage = stage
             /\ me.run = workers[w].run /\ me.fence = workers[w].fence /\ me.reservation = workers[w].reservation
             /\ me.revision = workers[w].revision
  <1> DEFINE old == workers[w]
             me == [old EXCEPT !.stage = stage]
  <1>1. old \in Worker
    BY Zenon, Custody
  <1>2. workers' = [workers EXCEPT ![w] = me]
    BY Zenon DEF Stays
  <1> HIDE DEF old
  <1>3. me \in Worker
    BY <1>1 DEF Worker
  <1>4. /\ me.stage = stage /\ me.run = old.run /\ me.fence = old.fence
        /\ me.reservation = old.reservation /\ me.revision = old.revision
    BY <1>1 DEF Worker
  <1> HIDE DEF me
  <1> QED BY ZenonT(40), <1>2, <1>3, <1>4 DEF old

\* Either way back to the held lease.
LEMMA HeldFacts ==
  ASSUME RInv, NEW w \in Workers, Moves(w, "held") \/ Stays(w, "held")
  PROVE  \E me \in Worker : /\ workers' = [workers EXCEPT ![w] = me] /\ me.stage = "held"
                            /\ me.run = workers[w].run /\ me.fence = workers[w].fence
  <1>1. "held" \in Stages
    BY Zenon DEF Stages
  <1>2. CASE Moves(w, "held")
    <2>1. \E me \in Worker :
             /\ workers' = [workers EXCEPT ![w] = me] /\ me.stage = "held"
             /\ me.run = workers[w].run /\ me.fence = workers[w].fence /\ me.reservation = workers[w].reservation
             /\ me.revision = workers[w].revision + 1
      BY ZenonT(40), <1>1, <1>2, MoveFacts
    <2> QED BY ZenonT(40), <2>1
  <1>3. CASE Stays(w, "held")
    <2>1. \E me \in Worker :
             /\ workers' = [workers EXCEPT ![w] = me] /\ me.stage = "held"
             /\ me.run = workers[w].run /\ me.fence = workers[w].fence /\ me.reservation = workers[w].reservation
             /\ me.revision = workers[w].revision
      BY ZenonT(40), <1>1, <1>3, StayFacts
    <2> QED BY ZenonT(40), <2>1
  <1> QED BY Zenon, <1>2, <1>3

\* A worker loses its authority.
LEMMA LoseFacts ==
  ASSUME RInv, NEW w \in Workers, Loses(w)
  PROVE  \E me \in Worker :
             /\ workers' = [workers EXCEPT ![w] = me] /\ me.stage = "held"
             /\ me.run = workers[w].run /\ me.fence = workers[w].fence
  <1>1. workers[w] \in Worker
    BY Zenon, Custody
  <1> DEFINE me == [workers[w] EXCEPT !.stage = "held", !.live = FALSE]
  <1>2. me \in Worker /\ workers' = [workers EXCEPT ![w] = me]
    BY ZenonT(40), <1>1 DEF Loses, Worker, Stages
  <1>3. me.stage = "held" /\ me.run = workers[w].run /\ me.fence = workers[w].fence
    BY Zenon, <1>1 DEF Worker
  <1> HIDE DEF me
  <1> QED BY ZenonT(40), <1>2, <1>3

\* A worker without a lease.
LEMMA FreeFacts == Free \in Worker /\ Free.stage = "free"
  BY Zenon DEF Free, Worker, Stages

\* A worker takes custody of a new lease.
LEMMA BindFacts ==
  ASSUME RInv, NEW w \in Workers, NEW r \in Runs, Binds(w, r),
         DOMAIN leases'[r] = 1..(Len(leases[r]) + 1)
  PROVE  \E me \in Worker :
             /\ workers' = [workers EXCEPT ![w] = me] /\ me.stage = "held" /\ me.run = r
             /\ me.fence \notin DOMAIN leases[r] /\ me.fence \in DOMAIN leases'[r]
  <1> DEFINE me == [stage |-> "held", run |-> r, fence |-> Len(leases[r]) + 1,
                    revision |-> control[r].revision + 1, live |-> TRUE, reservation |-> 0]
  <1>1. /\ Len(leases[r]) \in Nat /\ DOMAIN leases[r] = 1..Len(leases[r]) /\ control[r] \in Control
    BY Zenon, Custody, ReadFacts
  <1>2. control[r].revision + 1 \in Nat
    BY <1>1, StoreAssumption DEF Control
  <1>3. me \in Worker
    BY <1>1, <1>2 DEF Worker, Stages
  <1>4. workers' = [workers EXCEPT ![w] = me]
    BY Zenon DEF Binds
  <1>5. me.stage = "held" /\ me.run = r /\ me.fence = Len(leases[r]) + 1
    BY Zenon
  <1> HIDE DEF me
  <1>6. me.fence \notin DOMAIN leases[r] /\ me.fence \in DOMAIN leases'[r]
    BY <1>1, <1>5
  <1> QED BY ZenonT(40), <1>3, <1>4, <1>5, <1>6

\* A calm transaction of w, after which it has no permit.
LEMMA CalmStepInv ==
  ASSUME RInv, [StoreNext]_storeVars, UNCHANGED effects, NEW r \in Runs, CalmCall(r),
         NEW w \in Workers, NEW me \in Worker, workers' = [workers EXCEPT ![w] = me],
         me.stage \notin {"permitted", "executed", "failed"},
         \/ me.stage = "free"
         \/ Holds(w) /\ me.run = workers[w].run /\ me.fence = workers[w].fence
         \/ me.run \in Runs /\ me.fence \notin DOMAIN leases[me.run] /\ me.fence \in DOMAIN leases'[me.run]
  PROVE  RInv'
  BY Zenon, CalmUndisturbed, WorkerStepInv

\* A step of w alone, after which it has no permit.
LEMMA LocalStepInv ==
  ASSUME RInv, UNCHANGED <<storeVars, effects>>,
         NEW w \in Workers, NEW me \in Worker, workers' = [workers EXCEPT ![w] = me],
         me.stage \notin {"permitted", "executed", "failed"},
         \/ me.stage = "free"
         \/ Holds(w) /\ me.run = workers[w].run /\ me.fence = workers[w].fence
  PROVE  RInv'
  <1>1. \A q \in Runs : Same(q)
    BY Zenon DEF Same, storeVars
  <1>2. CommitsBacked /\ \A v \in Workers : Undisturbed(v)
    BY <1>1, SameUndisturbed
  <1> QED BY ZenonT(40), <1>2, WorkerStepInv
=============================================================================
