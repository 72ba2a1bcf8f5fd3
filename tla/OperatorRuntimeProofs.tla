----------------------- MODULE OperatorRuntimeProofs ------------------------
(***************************************************************************)
(* The workers of the operator control plane over its store, proved for    *)
(* any workers, runs, keys and bounds: the workers implement the store, an *)
(* effect is accounted for and happens at most once for a key, and a       *)
(* permit can be settled as long as its lease lasts.                       *)
(***************************************************************************)
EXTENDS OperatorCustody

\* Time limits for the leaves that name no prover.
USE SMTT(30), ZenonT(30)

-----------------------------------------------------------------------------
(* The invariant: the steps. *)

\* The lease calls of a worker keep the invariant.
LEMMA LeaseInvStep == ASSUME RInv, NEW w \in Workers, WorkerLease(w) PROVE RInv'
  <1>0. [StoreNext]_storeVars /\ SInv /\ StoreTypeOK
    BY Zenon, LeaseStoreStep DEF RInv, SInv
  <1>1. ASSUME NEW r \in Runs, WorkerClaims(w, r) PROVE RInv'
    <2>1. CalmCall(r) /\ Binds(w, r) /\ UNCHANGED effects /\ leases' = [leases EXCEPT ![r] = Append(@, NewLease)]
      BY Zenon, <1>1 DEF WorkerClaims, CalmCall, ClaimLease
    <2>2. NewLease \in Lease
      BY <1>0, LeaseTypes
    <2>3. DOMAIN leases'[r] = 1..(Len(leases[r]) + 1)
      BY ZenonT(40), <1>0, <2>1, <2>2, LeaseAddFacts
    <2>4. PICK me \in Worker :
              /\ workers' = [workers EXCEPT ![w] = me] /\ me.stage = "held" /\ me.run = r
              /\ me.fence \notin DOMAIN leases[r] /\ me.fence \in DOMAIN leases'[r]
      BY Zenon, <2>1, <2>3, BindFacts
    <2> QED BY ZenonT(40), <1>0, <2>1, <2>4, CalmStepInv
  <1>2. ASSUME NEW r \in Runs, NEW f \in DOMAIN leases[r], WorkerReclaims(w, r, f) PROVE RInv'
    <2>0. UNCHANGED effects
      BY Zenon, <1>2 DEF WorkerReclaims
    <2>1. ASSUME NEW n \in DOMAIN reservations[r], ReclaimDispatching(r, f, n), UNCHANGED workers PROVE RInv'
      BY <1>0, <2>0, <2>1, ReclaimUndisturbed, OutsideInv
    <2>2. ASSUME CalmCall(r), ReplaceLease(r, f), Binds(w, r) PROVE RInv'
      <3>1. DOMAIN leases'[r] = 1..(Len(leases[r]) + 1)
        BY Zenon, <1>0, <2>2, LeaseReplaceFacts
      <3>2. PICK me \in Worker :
                /\ workers' = [workers EXCEPT ![w] = me] /\ me.stage = "held" /\ me.run = r
                /\ me.fence \notin DOMAIN leases[r] /\ me.fence \in DOMAIN leases'[r]
        BY Zenon, <2>2, <3>1, BindFacts
      <3> QED BY ZenonT(40), <1>0, <2>0, <2>2, <3>2, CalmStepInv
    <2>3. ASSUME NEW n \in DOMAIN reservations[r], ReclaimReserved(r, f, n), Binds(w, r) PROVE RInv'
      <3>1. CalmCall(r) /\ ReplaceLease(r, f)
        BY Zenon, <2>3 DEF CalmCall, ReclaimReserved
      <3> QED BY Zenon, <2>2, <2>3, <3>1
    <2>4. ASSUME ReclaimIdle(r, f), IF control[r].directive = 0 THEN Binds(w, r) ELSE UNCHANGED workers PROVE RInv'
      <3>1. CalmCall(r) /\ ReplaceLease(r, f)
        BY ZenonT(40), <2>4 DEF CalmCall, ReclaimIdle
      <3>2. CASE UNCHANGED workers
        BY Zenon, <1>0, <2>0, <3>1, <3>2, CalmUndisturbed, OutsideInv
      <3> QED BY Zenon, <2>2, <2>4, <3>1, <3>2
    <2> QED BY Zenon, <1>2, <2>1, <2>3, <2>4 DEF WorkerReclaims
  <1>3. CASE WorkerRenews(w)
    <2> DEFINE r == workers[w].run
               f == workers[w].fence
    <2>1. /\ workers[w].stage = "held" /\ Holds(w) /\ Authorized(r, f) /\ PutLease(r, f, NewLease) /\ Bump(r, f)
          /\ UNCHANGED <<reservations, effects>> /\ Moves(w, "held")
      BY Zenon, <1>3 DEF WorkerRenews, MayRenew, MayCall, RenewLease, Holds
    <2>2. r \in Runs /\ f \in DOMAIN leases[r]
      BY Zenon, <2>1, Custody
    <2>3. \A q \in Runs \ {r} : control'[q] = control[q]
      BY Zenon, <1>0, <2>1, <2>2, RecordOthers DEF Bump
    <2>4. \A q \in Runs \ {r} : leases'[q] = leases[q]
      BY Zenon, <1>0, <2>1, <2>2, LeaseOthers
    <2>5. \A q \in Runs \ {r} : Same(q)
      BY Zenon, <2>1, <2>3, <2>4 DEF Same
    <2>6. CommitsBacked /\ \A v \in Workers \ {w} : Undisturbed(v)
      BY Zenon, <2>1, <2>5, OldCommits, OwnerUndisturbed
    <2>7. PICK me \in Worker : /\ workers' = [workers EXCEPT ![w] = me] /\ me.stage = "held"
                               /\ me.run = r /\ me.fence = f
      BY ZenonT(40), <2>1, MoveFacts DEF Stages
    <2> QED BY ZenonT(40), <1>0, <2>1, <2>6, <2>7, WorkerStepInv
  <1>4. CASE WorkerReleases(w)
    <2>1. Holds(w) /\ workers' = [workers EXCEPT ![w] = Free] /\ UNCHANGED effects
      BY Zenon, <1>4 DEF WorkerReleases, Holds
    <2>2. workers[w].run \in Runs /\ workers[w].fence \in DOMAIN leases[workers[w].run]
      BY <2>1, Custody
    <2>3. UNCHANGED storeVars \/ CalmCall(workers[w].run)
      BY Zenon, <1>4, <2>2 DEF WorkerReleases, CalmCall
    <2> QED BY ZenonT(40), <1>0, <2>1, <2>2, <2>3, FreeFacts, CalmStepInv, LocalStepInv
  <1>5. CASE WorkerLosesAuthority(w)
    <2>1. Holds(w) /\ Loses(w) /\ UNCHANGED <<storeVars, effects>>
      BY Zenon, <1>5 DEF WorkerLosesAuthority, Holds
    <2>2. PICK me \in Worker : /\ workers' = [workers EXCEPT ![w] = me] /\ me.stage = "held"
                               /\ me.run = workers[w].run /\ me.fence = workers[w].fence
      BY <2>1, LoseFacts
    <2> QED BY ZenonT(40), <2>1, <2>2, LocalStepInv
  <1> QED BY Zenon, <1>1, <1>2, <1>3, <1>4, <1>5 DEF WorkerLease

\* A worker ends up without a permit, with the same lease, and nothing else happens.
LEMMA QuietCall ==
  ASSUME RInv, NEW w \in Workers,
         \/ WorkerLooksUp(w) \/ WorkerReserveRefused(w) \/ WorkerBeginRefused(w) \/ WorkerBindFails(w)
         \/ WorkerSettlesTooLate(w) \/ WorkerCrashes(w)
  PROVE  RInv'
  <1>0. Holds(w) /\ UNCHANGED <<storeVars, effects>>
    BY Zenon DEF WorkerLooksUp, WorkerReserveRefused, WorkerBeginRefused, WorkerBindFails, WorkerSettlesTooLate,
       WorkerCrashes, Holds
  <1>1. ASSUME NEW stage \in {"held", "called"}, Stays(w, stage) PROVE RInv'
    <2>1. PICK me \in Worker : /\ workers' = [workers EXCEPT ![w] = me] /\ me.stage = stage
                               /\ me.run = workers[w].run /\ me.fence = workers[w].fence
      <3>1. stage \in Stages
        BY Zenon DEF Stages
      <3> QED BY ZenonT(40), <1>1, <3>1, StayFacts
    <2> QED BY ZenonT(40), <1>0, <2>1, LocalStepInv
  <1>2. ASSUME Loses(w) PROVE RInv'
    <2>1. PICK me \in Worker : /\ workers' = [workers EXCEPT ![w] = me] /\ me.stage = "held"
                               /\ me.run = workers[w].run /\ me.fence = workers[w].fence
      BY Zenon, <1>2, LoseFacts
    <2> QED BY ZenonT(40), <1>0, <2>1, LocalStepInv
  <1>3. ASSUME NEW revision \in Nat,
               workers' = [workers EXCEPT ![w] = [@ EXCEPT !.stage = "held", !.revision = revision]]
        PROVE  RInv'
    <2> DEFINE old == workers[w]
               me == [old EXCEPT !.stage = "held", !.revision = revision]
    <2>1. old \in Worker /\ workers' = [workers EXCEPT ![w] = me]
      BY Zenon, <1>3, Custody
    <2> HIDE DEF old
    <2>2. me \in Worker /\ me.stage = "held" /\ me.run = old.run /\ me.fence = old.fence
      BY Zenon, <2>1 DEF Worker, Stages
    <2> HIDE DEF me
    <2>3. me.run = workers[w].run /\ me.fence = workers[w].fence
      BY Zenon, <2>2 DEF old
    <2> QED BY ZenonT(40), <1>0, <2>1, <2>2, <2>3, LocalStepInv
  <1>4. CASE WorkerLooksUp(w) \/ WorkerReserveRefused(w) \/ WorkerBeginRefused(w) \/ WorkerBindFails(w)
    BY Zenon, <1>1, <1>2, <1>4 DEF WorkerLooksUp, WorkerReserveRefused, WorkerBeginRefused, WorkerBindFails
  <1>5. CASE WorkerSettlesTooLate(w)
    <2>1. workers[w].revision \in Nat /\ control[workers[w].run].revision \in Nat
      <3>1. SInv /\ workers[w] \in Worker /\ workers[w].run \in Runs
        BY Zenon, <1>0, Custody
      <3>2. control[workers[w].run] \in Control
        BY Zenon, <3>1, ReadFacts
      <3>3. workers[w].revision \in Nat /\ control[workers[w].run].revision \in 0..MaxRevision
        BY Zenon, <3>1, <3>2 DEF Worker, Control
      <3>4. MaxRevision \in Nat
        BY Zenon, StoreAssumption
      <3> QED BY <3>3, <3>4
    <2> QED BY ZenonT(40), <1>2, <1>3, <1>5, <2>1 DEF WorkerSettlesTooLate
  <1>6. CASE WorkerCrashes(w)
    BY ZenonT(40), <1>0, <1>6, FreeFacts, LocalStepInv DEF WorkerCrashes
  <1> QED BY Zenon, <1>4, <1>5, <1>6

\* The transactions of execute before the dispatch.
LEMMA CalmWorkerCall ==
  ASSUME RInv, NEW w \in Workers,
         \/ \E ceiling \in Ceilings, d \in 0..Len(directives[workers[w].run]) : WorkerReserves(w, ceiling, d)
         \/ WorkerBeginReleased(w) \/ WorkerReleasesReservation(w)
  PROVE  RInv'
  <1> DEFINE r == workers[w].run
             f == workers[w].fence
             n == workers[w].reservation
  <1>0. Holds(w) /\ UNCHANGED effects
    BY Zenon DEF WorkerReserves, WorkerBeginReleased, WorkerReleasesReservation, Holds
  <1>1. r \in Runs /\ f \in DOMAIN leases[r] /\ workers[w] \in Worker /\ SInv
    BY Zenon, <1>0, Custody
  <1>2. [StoreNext]_storeVars
    <2>1. \/ WorkerBeginReleased(w) \/ WorkerReleasesReservation(w)
          \/ /\ workers[w].stage = "called"
             /\ \E ceiling \in Ceilings, d \in 0..Len(directives[workers[w].run]) : WorkerReserves(w, ceiling, d)
      BY Zenon DEF WorkerReserves
    <2>2. WorkerCall(w)
      BY Zenon, <2>1 DEF WorkerCall
    <2> QED BY Zenon, <2>2, CallStoreStep
  <1>3. ASSUME NEW ceiling \in Ceilings, NEW d \in 0..Len(directives[r]), WorkerReserves(w, ceiling, d) PROVE RInv'
    <2> DEFINE old == workers[w]
               next == Len(reservations[r]) + 1
               me == [old EXCEPT !.stage = "reserved", !.revision = old.revision + 1, !.reservation = next]
    <2>1. workers' = [workers EXCEPT ![w] = me] /\ Reserve(r, f, ceiling, d)
      BY Zenon, <1>3 DEF WorkerReserves
    <2>2. CalmCall(r)
      BY Zenon, <1>1, <2>1 DEF CalmCall
    <2>3. next \in Nat /\ old.revision + 1 \in Nat
      <3>1. Len(reservations[r]) \in Nat /\ old.revision \in Nat
        BY Zenon, <1>1, ReadFacts DEF Worker
      <3> QED BY <3>1
    <2> HIDE DEF next, old
    <2>4. old \in Worker
      BY Zenon, <1>1 DEF old
    <2>5. me \in Worker /\ me.stage = "reserved" /\ me.run = old.run /\ me.fence = old.fence
      BY ZenonT(40), <2>3, <2>4 DEF Worker, Stages
    <2> HIDE DEF me
    <2>6. me.run = workers[w].run /\ me.fence = workers[w].fence
      BY Zenon, <2>5 DEF old
    <2> QED BY ZenonT(40), <1>0, <1>1, <1>2, <2>1, <2>2, <2>5, <2>6, CalmStepInv
  <1>4. ASSUME CalmCall(r), Moves(w, "held") \/ Stays(w, "held") PROVE RInv'
    <2>1. PICK me \in Worker : /\ workers' = [workers EXCEPT ![w] = me] /\ me.stage = "held"
                               /\ me.run = workers[w].run /\ me.fence = workers[w].fence
      BY Zenon, <1>4, HeldFacts
    <2> QED BY ZenonT(40), <1>0, <1>1, <1>2, <1>4, <2>1, CalmStepInv
  <1>5. CASE WorkerBeginReleased(w)
    <2>1. BeginReleases(r, f, n) /\ n \in DOMAIN reservations[r] /\ (Moves(w, "held") \/ Stays(w, "held"))
      BY ZenonT(40), <1>5 DEF WorkerBeginReleased, BeginReleases, BeginReady
    <2>2. CalmCall(r)
      BY Zenon, <1>1, <2>1 DEF CalmCall
    <2> QED BY ZenonT(40), <1>4, <2>1, <2>2
  <1>6. CASE WorkerReleasesReservation(w)
    <2>1. ReleasePreDispatch(r, f, n) /\ n \in DOMAIN reservations[r] /\ Moves(w, "held")
      BY ZenonT(40), <1>6 DEF WorkerReleasesReservation, ReleasePreDispatch
    <2>2. CalmCall(r)
      BY ZenonT(40), <1>1, <2>1 DEF CalmCall
    <2> QED BY ZenonT(40), <1>4, <2>1, <2>2
  <1> QED BY Zenon, <1>3, <1>5, <1>6

\* begin_dispatch hands out a permit that nothing has used.
LEMMA BeginInvStep == ASSUME RInv, NEW w \in Workers, WorkerBegins(w) PROVE RInv'
  <1> DEFINE r == workers[w].run
             f == workers[w].fence
             n == workers[w].reservation
  <1>1. /\ Holds(w) /\ UNCHANGED effects /\ Authorized(r, f) /\ workers[w].revision = control[r].revision
        /\ BeginDispatch(r, f, n) /\ Moves(w, "permitted") /\ n \in DOMAIN reservations[r]
    BY Zenon DEF WorkerBegins, MayCall, Holds, BeginDispatch, BeginReady
  <1>2. /\ r \in Runs /\ f \in DOMAIN leases[r] /\ SInv /\ EffectInv(r) /\ workers \in [Workers -> Worker]
    BY ZenonT(40), <1>1, Custody DEF RInv
  <1>3. [StoreNext]_storeVars
    BY ZenonT(40), CallStoreStep DEF WorkerCall
  <1>4. /\ DispatchMoved(r, n, "dispatching") /\ ~WasDispatched(Row(r, n))
        /\ reservations'[r][n].fence = f /\ reservations'[r][n].permit = control[r].revision
        /\ control'[r].revision = control[r].revision + 1
    BY ZenonT(40), <1>1, <1>2, BeginMoved
  <1>5. PICK me \in Worker :
            /\ workers' = [workers EXCEPT ![w] = me] /\ me.stage = "permitted" /\ me.run = workers[w].run
            /\ me.fence = workers[w].fence /\ me.reservation = workers[w].reservation
            /\ me.revision = workers[w].revision + 1
    BY ZenonT(40), <1>1, MoveFacts DEF Stages
  <1>6. CommitsBacked /\ \A v \in Workers \ {w} : Undisturbed(v)
    <2>1. CommitsBacked
      BY ZenonT(40), <1>4, OldCommits DEF DispatchMoved, Same
    <2> QED BY ZenonT(40), <1>1, <1>4, <2>1, OwnerUndisturbed DEF DispatchMoved
  <1>7. workers'[w] = me
    BY Zenon, <1>2, <1>5
  <1> HIDE DEF r, f, n
  <1>8. me.run = r /\ me.fence = f /\ me.reservation = n /\ me.revision = control[r].revision + 1
    BY Zenon, <1>1, <1>5 DEF r, f, n
  <1>9. PermitInv(w)'
    <2>1. n \in DOMAIN reservations'[r] /\ reservations'[r][n].state = "dispatching"
      BY Zenon, <1>1, <1>4 DEF DispatchMoved
    <2> QED BY Zenon, <1>4, <1>7, <1>8, <2>1 DEF PermitInv, OwnRow, OwnControl, WasDispatched
  <1>10. StageInv(w)'
    <2>1. \A i \in DOMAIN effects[r] : effects[r][i].reservation # n
      BY ZenonT(40), <1>2, <1>4 DEF EffectInv
    <2> QED BY ZenonT(40), <1>1, <1>5, <1>7, <1>8, <2>1 DEF StageInv, EffectsOf
  <1> QED BY ZenonT(40), <1>1, <1>3, <1>5, <1>6, <1>9, <1>10, WorkerStepInv

\* The engine's refusal keeps the permit for the settlement of the failure.
LEMMA RefusedInvStep == ASSUME RInv, NEW w \in Workers, WorkerRefusesPlan(w) PROVE RInv'
  <1>1. HasPermit(w) /\ Holds(w) /\ Stays(w, "failed") /\ UNCHANGED <<storeVars, effects>>
    BY Zenon DEF WorkerRefusesPlan, HasPermit, Holds
  <1>2. PICK me \in Worker :
            /\ workers' = [workers EXCEPT ![w] = me] /\ me.stage = "failed" /\ me.run = workers[w].run
            /\ me.fence = workers[w].fence /\ me.reservation = workers[w].reservation
            /\ me.revision = workers[w].revision
    BY ZenonT(40), <1>1, StayFacts DEF Stages
  <1>3. workers'[w] = me /\ UNCHANGED <<leases, reservations, control>>
    BY Zenon, <1>1, <1>2, Custody DEF storeVars
  <1>4. PermitInv(w)'
    <2>1. PermitInv(w)
      BY Zenon DEF RInv, WorkerInv
    <2> QED BY ZenonT(40), <1>1, <1>2, <1>3, <2>1 DEF PermitInv, OwnRow, OwnLease, OwnControl
  <1>5. StageInv(w)'
    BY Zenon, <1>2, <1>3 DEF StageInv
  <1>6. CommitsBacked /\ \A v \in Workers : Undisturbed(v)
    BY ZenonT(40), <1>3, SameUndisturbed DEF Same
  <1> QED BY ZenonT(40), <1>1, <1>2, <1>4, <1>5, <1>6, WorkerStepInv

\* A settlement ends the worker's own dispatch, with a commit only after the handler.
LEMMA SettleInvStep ==
  ASSUME RInv, NEW w \in Workers,
         \/ \E charged \in 0..Limit : WorkerCommits(w, charged)
         \/ WorkerCommitForfeits(w) \/ WorkerSettlesFailure(w)
  PROVE  RInv'
  <1> DEFINE r == workers[w].run
             f == workers[w].fence
             n == workers[w].reservation
  <1>1. /\ HasPermit(w) /\ Holds(w) /\ UNCHANGED effects /\ Authorized(r, f)
        /\ Moves(w, "held") \/ Stays(w, "held")
    BY Zenon DEF WorkerCommits, WorkerCommitForfeits, WorkerSettlesFailure, MayCall, HasPermit, Holds
  <1>2. /\ r \in Runs /\ f \in DOMAIN leases[r] /\ SInv /\ n \in DOMAIN reservations[r]
    BY Zenon, <1>1, Custody, PermitFacts
  <1>3. [StoreNext]_storeVars
    BY Zenon, CallStoreStep DEF WorkerCall
  <1>4. DispatchMoved(r, n, "forfeited") \/ (DispatchMoved(r, n, "committed") /\ EffectsOf(r, n) # {})
    <2>1. ASSUME NEW charged \in 0..Limit, WorkerCommits(w, charged)
          PROVE  DispatchMoved(r, n, "committed") /\ EffectsOf(r, n) # {}
      <3>1. workers[w].stage = "executed" /\ CommitRuntime(r, f, n, charged)
        BY ZenonT(40), <2>1 DEF WorkerCommits
      <3>2. reservations[r][n].ceiling \in Nat /\ charged <= reservations[r][n].ceiling
        BY ZenonT(40), <1>2, <3>1, CeilingFacts DEF CommitRuntime
      <3>3. charged \in 0..reservations[r][n].ceiling
        BY Zenon, <3>2, ChargeRange
      <3>4. DispatchMoved(r, n, "committed")
        BY ZenonT(40), <1>2, <3>1, <3>3, CommitMoved
      <3> QED BY Zenon, <3>1, <3>4 DEF RInv, WorkerInv, StageInv
    <2>2. ASSUME WorkerCommitForfeits(w) \/ WorkerSettlesFailure(w) PROVE DispatchMoved(r, n, "forfeited")
      BY Zenon, <1>2, <2>2, ForfeitMoved DEF WorkerCommitForfeits, WorkerSettlesFailure
    <2> QED BY ZenonT(40), <2>1, <2>2
  <1>5. PICK me \in Worker : /\ workers' = [workers EXCEPT ![w] = me] /\ me.stage = "held"
                             /\ me.run = workers[w].run /\ me.fence = workers[w].fence
    BY Zenon, <1>1, HeldFacts
  <1>6. \A v \in Workers \ {w} : Undisturbed(v)
    BY ZenonT(40), <1>1, <1>4, OwnerUndisturbed DEF DispatchMoved
  <1>7. CommitsBacked
    <2> HIDE DEF r, f, n
    <2> SUFFICES ASSUME NEW q \in Runs, NEW m \in DOMAIN reservations'[q], reservations'[q][m].state = "committed"
                 PROVE  EffectsOf(q, m) # {}
      BY Zenon DEF CommitsBacked
    <2>1. m \in DOMAIN reservations[q] /\ (reservations[q][m].state = "committed" \/ EffectsOf(q, m) # {})
      BY Zenon, <1>4 DEF DispatchMoved, Same
    <2> QED BY ZenonT(40), <2>1 DEF RInv, EffectInv, Row
  <1> QED BY ZenonT(40), <1>1, <1>3, <1>5, <1>6, <1>7, WorkerStepInv

\* The handler is entered under a permit nobody else has and nobody has used.
LEMMA ExecuteInvStep == ASSUME RInv, NEW w \in Workers, WorkerExecutes(w) PROVE RInv'
  <1> DEFINE r == workers[w].run
             n == workers[w].reservation
             e == [reservation |-> n, at |-> clock]
             i0 == Len(effects[r]) + 1
  <1>1. /\ workers[w].stage = "permitted" /\ HasPermit(w) /\ Holds(w) /\ UNCHANGED storeVars
        /\ effects' = [effects EXCEPT ![r] = Append(@, e)]
    BY Zenon DEF WorkerExecutes, EffectAllowed, HasPermit, Holds
  <1>2. PICK stage \in {"executed", "failed"} : Stays(w, stage)
    BY Zenon DEF WorkerExecutes
  <1>3. PICK me \in Worker :
            /\ workers' = [workers EXCEPT ![w] = me] /\ me.stage = stage /\ me.run = workers[w].run
            /\ me.fence = workers[w].fence /\ me.reservation = workers[w].reservation
            /\ me.revision = workers[w].revision
    <2>1. stage \in Stages
      BY Zenon DEF Stages
    <2> QED BY ZenonT(40), <1>2, <2>1, StayFacts
  <1>4. /\ workers'[w] = me /\ workers' \in [Workers -> Worker]
        /\ \A v \in Workers \ {w} : workers'[v] = workers[v]
    BY ZenonT(40), <1>3, Custody
  <1>5. UNCHANGED <<clock, leases, reservations, control>> /\ SInv' /\ KeyInv'
    BY ZenonT(40), <1>1, StoreNextInv, KeyNext DEF RInv, storeVars
  <1>6. /\ r \in Runs /\ n \in DOMAIN reservations[r] /\ WasDispatched(reservations[r][n])
        /\ reservations[r][n].fence = workers[w].fence
    BY ZenonT(40), <1>1, PermitFacts DEF OwnRow
  <1>7. /\ effects \in [Runs -> Seq(Effect)] /\ e \in Effect
    <2>1. clock \in Nat /\ n \in Nat
      BY Custody, StoreAssumption DEF SInv, StoreTypeOK, Worker
    <2> QED BY Zenon, <2>1 DEF RInv, RuntimeTypeOK, Effect
  <1>8. EffectsOf(r, n) = {}
    BY Zenon, <1>1 DEF RInv, WorkerInv, StageInv
  <1> HIDE DEF r, n
  <1>9. /\ effects'[r] \in Seq(Effect) /\ DOMAIN effects'[r] = DOMAIN effects[r] \cup {i0} /\ i0 \notin DOMAIN effects[r]
        /\ effects'[r][i0] = e /\ \A i \in DOMAIN effects[r] : effects'[r][i] = effects[r][i]
    <2>1. effects[r] \in Seq(Effect) /\ effects'[r] = Append(effects[r], e)
      BY Zenon, <1>1, <1>6, <1>7
    <2>2. /\ effects'[r] \in Seq(Effect) /\ DOMAIN effects'[r] = 1..(Len(effects[r]) + 1)
          /\ effects'[r][i0] = e /\ \A i \in DOMAIN effects[r] : effects'[r][i] = effects[r][i]
      BY <1>7, <2>1, AddFacts
    <2>3. DOMAIN effects[r] = 1..Len(effects[r]) /\ Len(effects[r]) \in Nat
      BY <2>1
    <2> QED BY <2>2, <2>3
  <1>10. \A q \in Runs \ {r} : effects'[q] = effects[q]
    BY Zenon, <1>1, <1>7
  <1>11. effects' \in [Runs -> Seq(Effect)]
    BY Zenon, <1>1, <1>7, <1>9
  <1>12. e.reservation = n
    BY Zenon
  <1> HIDE DEF e, i0
  <1>13. RuntimeTypeOK'
    BY ZenonT(40), <1>4, <1>5, <1>11 DEF RuntimeTypeOK, SInv
  <1>14. ASSUME NEW q \in Runs, NEW m
         PROVE  /\ EffectsOf(q, m) \subseteq EffectsOf(q, m)'
                /\ q # r \/ m # n => EffectsOf(q, m)' = EffectsOf(q, m)
    BY ZenonT(40), <1>9, <1>10, <1>12 DEF EffectsOf
  <1>15. {i \in DOMAIN effects'[r] : effects'[r][i].reservation = n} # {}
    BY Zenon, <1>9, <1>12
  <1>16. ASSUME NEW v \in Workers PROVE WorkerInv(v)'
    <2>0. OwnerInv(v) /\ PermitInv(v) /\ StageInv(v)
      BY Zenon DEF RInv, WorkerInv
    <2>1. CASE v = w
      <3>1. OwnerInv(v)'
        BY ZenonT(40), <1>1, <1>3, <1>4, <1>5, <2>0, <2>1 DEF OwnerInv, Holds
      <3>2. PermitInv(v)'
        BY ZenonT(40), <1>1, <1>3, <1>4, <1>5, <2>0, <2>1 DEF PermitInv, OwnRow, OwnLease, OwnControl
      <3>3. StageInv(v)'
        <4>1. workers'[v] = me /\ me.stage # "permitted" /\ me.run = r /\ me.reservation = n
          BY Zenon, <1>2, <1>3, <1>4, <2>1 DEF r, n
        <4>2. EffectsOf(me.run, me.reservation)' # {}
          BY Zenon, <1>15, <4>1 DEF EffectsOf
        <4> QED BY Zenon, <4>1, <4>2 DEF StageInv
      <3> QED BY ZenonT(40), <3>1, <3>2, <3>3 DEF WorkerInv
    <2>2. CASE v # w
      <3>1. OwnerInv(v)'
        BY ZenonT(40), <1>4, <1>5, <2>0, <2>2 DEF OwnerInv, Holds
      <3>2. PermitInv(v)'
        BY ZenonT(40), <1>4, <1>5, <2>0, <2>2 DEF PermitInv, HasPermit, OwnRow, OwnLease, OwnControl
      <3>3. workers'[v] = workers[v]
        BY ZenonT(40), <1>4, <2>2
      <3>4. ASSUME HasPermit(v), workers[v].run = r, workers[v].reservation = n PROVE FALSE
        <4>1. Holds(v) /\ workers[v].fence = workers[w].fence
          BY ZenonT(40), <1>6, <3>4, PermitFacts DEF OwnRow
        <4>2. SoleInv(v, w)
          BY ZenonT(40) DEF RInv
        <4> QED BY ZenonT(40), <1>1, <2>2, <3>4, <4>1, <4>2 DEF SoleInv, r
      <3>5. HasPermit(v) => workers[v].run \in Runs
        BY Zenon, PermitFacts
      <3>6. StageInv(v)'
        <4>1. ASSUME HasPermit(v)
              PROVE  EffectsOf(workers[v].run, workers[v].reservation)' = EffectsOf(workers[v].run, workers[v].reservation)
          <5> DEFINE q == workers[v].run
                     m == workers[v].reservation
          <5>1. q \in Runs /\ (q # r \/ m # n)
            BY Zenon, <3>4, <3>5, <4>1
          <5> HIDE DEF q, m
          <5>2. EffectsOf(q, m)' = EffectsOf(q, m) /\ q' = q /\ m' = m
            BY Zenon, <1>14, <3>3, <5>1 DEF q, m
          <5> QED BY Zenon, <5>2 DEF q, m
        <4> QED BY ZenonT(40), <2>0, <3>3, <4>1 DEF StageInv, HasPermit
      <3> QED BY Zenon, <3>1, <3>2, <3>6 DEF WorkerInv
    <2> QED BY Zenon, <2>1, <2>2
  <1>17. \A u, v \in Workers : SoleInv(u, v)'
    <2>1. \A v \in Workers : Holds(v)' => Holds(v) /\ workers'[v].run = workers[v].run /\ workers'[v].fence = workers[v].fence
      BY Zenon, <1>1, <1>3, <1>4 DEF Holds
    <2> QED BY Zenon, <2>1 DEF RInv, SoleInv
  <1>18. ASSUME NEW q \in Runs PROVE EffectInv(q)'
    <2>0. EffectInv(q) /\ \A i \in DOMAIN effects[r] : effects[r][i].reservation # n
      BY ZenonT(40), <1>8 DEF RInv, EffectsOf
    <2>1. \A m \in DOMAIN reservations'[q] : reservations'[q][m].state = "committed" => EffectsOf(q, m)' # {}
      BY ZenonT(40), <1>5, <1>14, <2>0 DEF EffectInv, Row
    <2>2. CASE q # r
      BY ZenonT(40), <1>5, <1>10, <2>0, <2>1, <2>2 DEF EffectInv, Row
    <2>3. CASE q = r
      <3>1. \A i \in DOMAIN effects'[r] : /\ effects'[r][i].reservation \in DOMAIN reservations'[r]
                                         /\ WasDispatched(reservations'[r][effects'[r][i].reservation])
        BY ZenonT(40), <1>5, <1>6, <1>9, <1>12, <2>0, <2>3 DEF EffectInv, Row
      <3>2. \A i, j \in DOMAIN effects'[r] : effects'[r][i].reservation = effects'[r][j].reservation => i = j
        BY Zenon, <1>9, <1>12, <2>0, <2>3 DEF EffectInv
      <3> QED BY ZenonT(40), <2>1, <2>3, <3>1, <3>2 DEF EffectInv, Row
    <2> QED BY Zenon, <2>2, <2>3
  <1> QED BY ZenonT(40), <1>5, <1>13, <1>16, <1>17, <1>18 DEF RInv

\* Humans, ungoverned callers and the clock.
LEMMA EnvironmentInvStep == ASSUME RInv, Environment PROVE RInv'
  <1>1. [StoreNext]_storeVars /\ UNCHANGED <<workers, effects>>
    BY Zenon DEF Environment, StoreNext
  <1>2. CommitsBacked /\ \A v \in Workers : Undisturbed(v)
    <2>1. ASSUME NEW r \in Runs, Command(r) PROVE CalmCall(r)
      BY Zenon, <2>1 DEF Command, CalmCall
    <2>2. ASSUME UNCHANGED <<leases, reservations, control>> PROVE \A q \in Runs : Same(q)
      BY <2>2 DEF Same
    <2>3. (\E r \in Runs : Command(r)) \/ UNCHANGED <<leases, reservations, control>>
      BY Zenon DEF Environment, ClaimUngoverned, SettleUngoverned, Tick
    <2> QED BY ZenonT(40), <2>1, <2>2, <2>3, CalmUndisturbed, SameUndisturbed
  <1> QED BY Zenon, <1>1, <1>2, OutsideInv

\* Every step of the runtime keeps the invariant.
LEMMA RuntimeNextInv == RInv /\ [RuntimeNext]_runtimeVars => RInv'
  <1> SUFFICES ASSUME RInv, [RuntimeNext]_runtimeVars PROVE RInv'
    BY Zenon
  <1>1. CASE UNCHANGED runtimeVars
    <2>1. UNCHANGED <<storeVars, workers, effects>>
      BY Zenon, <1>1 DEF runtimeVars
    <2>2. \A q \in Runs : Same(q)
      BY ZenonT(40), <2>1 DEF storeVars, Same
    <2> QED BY <2>1, <2>2, SameUndisturbed, OutsideInv
  <1>2. ASSUME NEW w \in Workers, WorkerCall(w) PROVE RInv'
    <2>1. CASE WorkerLooksUp(w) \/ WorkerReserveRefused(w) \/ WorkerBeginRefused(w) \/ WorkerBindFails(w)
               \/ WorkerSettlesTooLate(w)
      BY Zenon, <2>1, QuietCall
    <2>2. CASE \/ \E ceiling \in Ceilings, d \in 0..Len(directives[workers[w].run]) : WorkerReserves(w, ceiling, d)
               \/ WorkerBeginReleased(w) \/ WorkerReleasesReservation(w)
      BY Zenon, <2>2, CalmWorkerCall
    <2>3. CASE \/ \E charged \in 0..Limit : WorkerCommits(w, charged)
               \/ WorkerCommitForfeits(w) \/ WorkerSettlesFailure(w)
      BY Zenon, <2>3, SettleInvStep
    <2> QED BY ZenonT(40), <1>2, <2>1, <2>2, <2>3, BeginInvStep, RefusedInvStep, ExecuteInvStep DEF WorkerCall
  <1>3. ASSUME NEW w \in Workers, WorkerCrashes(w) PROVE RInv'
    BY Zenon, <1>3, QuietCall
  <1> QED BY <1>1, <1>2, <1>3, LeaseInvStep, EnvironmentInvStep DEF RuntimeNext

\* Before the first step nobody owns anything.
LEMMA RuntimeInitInv == RuntimeInit => RInv
  <1> SUFFICES ASSUME RuntimeInit PROVE RInv
    BY Zenon
  <1>1. StoreInit /\ workers = [w \in Workers |-> Free] /\ effects = [r \in Runs |-> <<>>]
    BY DEF RuntimeInit
  <1>2. SInv /\ KeyInv
    BY <1>1, StoreInitInv, KeyInit
  <1>3. RuntimeTypeOK
    BY <1>1, <1>2, FreeFacts DEF RuntimeTypeOK, SInv
  <1>4. \A w \in Workers : workers[w].stage = "free"
    BY ZenonT(40), <1>1, FreeFacts
  <1>5. \A w \in Workers : WorkerInv(w)
    BY Zenon, <1>4 DEF WorkerInv, OwnerInv, PermitInv, StageInv, Holds, HasPermit
  <1>6. \A v, w \in Workers : SoleInv(v, w)
    BY Zenon, <1>4 DEF SoleInv, Holds
  <1>7. ASSUME NEW r \in Runs PROVE EffectInv(r)
    <2>1. DOMAIN effects[r] = {} /\ DOMAIN reservations[r] = {}
      BY <1>1 DEF StoreInit
    <2> QED BY Zenon, <2>1 DEF EffectInv
  <1> QED BY ZenonT(40), <1>2, <1>3, <1>5, <1>6, <1>7 DEF RInv

-----------------------------------------------------------------------------
(* The theorems. *)

\* Custody, permits and effects agree with the store at every moment, whichever worker
\* crashed, stalled or lost its lease.
THEOREM RuntimeInvariant == RuntimeSpec => []RInv
  BY RuntimeInitInv, RuntimeNextInv, PTL DEF RuntimeSpec

\* The custody of the workers and the recorded handler entries keep their types.
THEOREM RuntimeTypeCorrect == RuntimeSpec => []RuntimeTypeOK
  <1>1. RInv => RuntimeTypeOK
    BY Zenon DEF RInv
  <1> QED BY <1>1, RuntimeInvariant, PTL

\* OperatorRuntime over the store implements the store alone: what is proved of the
\* transactions holds of every behaviour of the workers that make them.
THEOREM RuntimeImplementsStore == RuntimeSpec => StoreSpec
  <1>1. RuntimeInit => StoreInit
    BY Zenon DEF RuntimeInit
  <1> QED BY <1>1, StoreStep, RuntimeInvariant, PTL DEF RuntimeSpec, StoreSpec

\* A handler entry is paid for, is the only one of its reservation, and stands behind
\* every committed result: consume_effect uses the permit begin_dispatch gave.
THEOREM EffectsAccounted == RuntimeSpec => []EffectIsAccounted
  <1>1. RInv => EffectIsAccounted
    BY DEF RInv, RuntimeTypeOK, EffectInv, EffectsOf, Row, WasDispatched, EffectIsAccounted
  <1> QED BY <1>1, RuntimeInvariant, PTL

\* A key enters its handler at most once over all runs, workers, recoveries and
\* retries: begin_dispatch claims the replay row for good.
THEOREM KeyRunsOnce == RuntimeSpec => []EffectOncePerKey
  <1>1. RInv => EffectOncePerKey
    <2> SUFFICES ASSUME RInv, NEW q \in Runs, NEW r \in Runs, ReplayOf[q] = ReplayOf[r], ReplayOf[r] # None,
                        NEW i \in DOMAIN effects[q], NEW j \in DOMAIN effects[r]
                 PROVE  q = r /\ i = j
      BY Zenon DEF EffectOncePerKey, RInv, RuntimeTypeOK
    <2>1. KeyInv /\ EffectInv(q) /\ EffectInv(r)
      BY Zenon DEF RInv
    <2>2. /\ effects[q][i].reservation \in DOMAIN reservations[q] /\ WasDispatched(Row(q, effects[q][i].reservation))
          /\ effects[r][j].reservation \in DOMAIN reservations[r] /\ WasDispatched(Row(r, effects[r][j].reservation))
      BY ZenonT(40), <2>1 DEF EffectInv
    <2>3. q = r /\ effects[q][i].reservation = effects[r][j].reservation
      BY ZenonT(40), <2>1, <2>2, KeyDispatches
    <2> QED BY Zenon, <2>1, <2>3 DEF EffectInv
  <1> QED BY <1>1, RuntimeInvariant, PTL

\* As long as its lease lasts, a worker with a permit can settle it: commit_runtime and
\* the failure settlement find the control row as begin_dispatch left it.
THEOREM PermitSettles == RuntimeSpec => []PermitCanBeSettled
  <1>1. RInv => PermitCanBeSettled
    <2> SUFFICES ASSUME RInv, NEW w \in Workers, HasPermit(w), Authorized(workers[w].run, workers[w].fence)
                 PROVE  MayCall(w) /\ PermitStands(workers[w].run, workers[w].fence, workers[w].reservation)
      BY Zenon DEF PermitCanBeSettled, HasPermit
    <2> DEFINE r == workers[w].run
               f == workers[w].fence
               n == workers[w].reservation
    <2>1. /\ r \in Runs /\ n \in DOMAIN reservations[r] /\ reservations[r][n].fence = f
          /\ leases[r][f].state = "active" => reservations[r][n].state = "dispatching"
          /\ reservations[r][n].state = "dispatching" =>
                 control[r].revision = reservations[r][n].permit + 1 /\ workers[w].revision = control[r].revision
      BY ZenonT(40), PermitFacts DEF OwnRow, OwnLease, OwnControl
    <2>2. reservations[r][n].state = "dispatching"
      BY ZenonT(40), <2>1 DEF Authorized
    <2>3. control[r].dispatch = n
      BY Zenon, <2>1, <2>2 DEF RInv, SInv, RunInv, DispatchInv, Row
    <2> QED BY ZenonT(40), <2>1, <2>2, <2>3 DEF MayCall, PermitStands
  <1> QED BY <1>1, RuntimeInvariant, PTL
=============================================================================
