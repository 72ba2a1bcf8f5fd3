------------------------ MODULE OperatorStoreHistory ------------------------
(***************************************************************************)
(* What no transaction of the operator store ever undoes: reservations     *)
(* that are settled, runs that have ended, leases that are released, and   *)
(* the one dispatch a replay key is claimed for.                           *)
(***************************************************************************)
EXTENDS OperatorStoreProofs

\* Time limits for the leaves that name no prover.
USE SMTT(30), ZenonT(30)

(* What a transaction may never do. *)

\* The part of ReservationsKept and EndedRunsKept about one run.
RunKept(r) ==
    /\ Len(reservations'[r]) >= Len(reservations[r])
    /\ \A n \in DOMAIN reservations[r] : SettledRowKept(reservations[r][n], reservations'[r][n])
    /\ runs[r].status \in {"succeeded", "cancelled"} => runs'[r] = runs[r] /\ reservations'[r] = reservations[r]
    /\ runs[r].status = "failed" /\ runs'[r] # runs[r] => control[r].directive # 0 /\ runs'[r].status = "running"

\* A run whose reservations are untouched and that is live, unmoved, or resumed.
LEMMA SameRowsKept ==
  ASSUME SInv, NEW r \in Runs, reservations'[r] = reservations[r],
         \/ runs'[r] = runs[r]
         \/ ~Terminal(runs[r].status)
         \/ runs[r].status = "failed" /\ control[r].directive # 0 /\ runs'[r].status = "running"
  PROVE  RunKept(r)
  <1>1. Len(reservations[r]) \in Nat
    BY Zenon, ReadFacts
  <1>2. Len(reservations'[r]) >= Len(reservations[r])
    BY <1>1
  <1> QED BY Zenon, <1>2 DEF RunKept, SettledRowKept, Terminal

\* The open reservation of a run changes, but a dispatched one is not released.
LEMMA OpenRowKept ==
  ASSUME SInv, NEW r \in Runs, NEW n \in DOMAIN reservations[r], IsOpen(Row(r, n)),
         Len(reservations'[r]) = Len(reservations[r]),
         reservations'[r][n].fence = Row(r, n).fence, reservations'[r][n].ceiling = Row(r, n).ceiling,
         reservations'[r][n].recovery = Row(r, n).recovery,
         Row(r, n).state = "dispatching" => reservations'[r][n].state \in {"committed", "forfeited"},
         \A m \in DOMAIN reservations[r] : m # n => reservations'[r][m] = reservations[r][m]
  PROVE  RunKept(r)
  <1>1. runs[r].status = "running" /\ Len(reservations[r]) \in Nat
    BY ReadFacts DEF RunInv, OpenInv
  <1>2. ASSUME NEW m \in DOMAIN reservations[r]
        PROVE  SettledRowKept(reservations[r][m], reservations'[r][m])
    BY <1>2 DEF SettledRowKept, Row, IsOpen
  <1> QED BY <1>1, <1>2 DEF RunKept

\* A settlement keeps what it does not settle.
LEMMA SettleKept ==
  ASSUME SInv, NEW r \in Runs, NEW n \in DOMAIN reservations[r], IsOpen(Row(r, n)),
         NEW state \in {"released", "committed", "forfeited"},
         NEW charged \in 0..reservations[r][n].ceiling, Settle(r, n, state, charged),
         Row(r, n).state = "dispatching" => state # "released"
  PROVE  RunKept(r) /\ \A q \in Runs \ {r} : reservations'[q] = reservations[q]
  <1>1. StoreTypeOK
    BY DEF SInv
  <1>2. /\ Len(reservations'[r]) = Len(reservations[r])
        /\ reservations'[r][n] = ReservationRow(reservations[r][n].fence, state, reservations[r][n].ceiling,
               charged, reservations[r][n].recovery, reservations[r][n].permit)
        /\ \A m \in DOMAIN reservations[r] : m # n => reservations'[r][m] = reservations[r][m]
        /\ \A q \in Runs \ {r} : reservations'[q] = reservations[q]
    BY <1>1, SettleFacts
  <1>3. /\ reservations'[r][n].fence = Row(r, n).fence /\ reservations'[r][n].ceiling = Row(r, n).ceiling
        /\ reservations'[r][n].recovery = Row(r, n).recovery /\ reservations'[r][n].state = state
    BY <1>2 DEF ReservationRow, Row
  <1>4. RunKept(r)
    BY Zenon, <1>2, <1>3, OpenRowKept
  <1> QED BY <1>2, <1>4

\* Only the row of the run that is written changes.
LEMMA RecordKept ==
  ASSUME SInv, NEW r \in Runs, NEW run, NEW dispatch, NEW directive, NEW fence,
         Record(r, run, dispatch, directive, fence)
  PROVE  runs'[r] = run /\ \A q \in Runs \ {r} : runs'[q] = runs[q]
  <1>1. runs \in [Runs -> Run] /\ runs' = [runs EXCEPT ![r] = run]
    BY DEF SInv, StoreTypeOK, Record
  <1> QED BY <1>1

\* Runs of which neither the row nor the reservations change are kept.
LEMMA OthersKept ==
  ASSUME SInv, NEW r \in Runs, RunKept(r),
         \A q \in Runs \ {r} : runs'[q] = runs[q] /\ reservations'[q] = reservations[q]
  PROVE  \A q \in Runs : RunKept(q)
  BY SameRowsKept

\* Bumping the control row of r leaves the run rows.
LEMMA BumpKept == ASSUME SInv, NEW r \in Runs, NEW fence, Bump(r, fence) PROVE \A q \in Runs : runs'[q] = runs[q]
  BY RecordKept DEF Bump

\* Lease calls and the takeover of an idle run touch neither rows nor reservations.
LEMMA LeaseStepsKept ==
  ASSUME SInv, NEW r \in Runs, NEW fence, Bump(r, fence), UNCHANGED reservations
  PROVE  \A q \in Runs : RunKept(q)
  BY BumpKept, SameRowsKept

\* A reservation is added to a live run.
LEMMA ReserveKept ==
  ASSUME SInv, NEW r \in Runs, NEW f, NEW ceiling, NEW d, Reserve(r, f, ceiling, d)
  PROVE  \A q \in Runs : RunKept(q)
  <1> DEFINE row == ReservationRow(f, "reserved", ceiling, 0, d, 0)
  <1>1. /\ reservations \in [Runs -> Seq(Reservation)] /\ reservations[r] \in Seq(Reservation)
        /\ reservations' = [reservations EXCEPT ![r] = Append(@, row)] /\ runs[r].status = "running" /\ Bump(r, f)
    BY Zenon DEF SInv, StoreTypeOK, Reserve
  <1> HIDE DEF row
  <1>2. reservations'[r] = Append(reservations[r], row) /\ \A q \in Runs \ {r} : reservations'[q] = reservations[q]
    BY <1>1
  <1>3. /\ Len(reservations'[r]) = Len(reservations[r]) + 1 /\ Len(reservations[r]) \in Nat
        /\ \A m \in DOMAIN reservations[r] : reservations'[r][m] = reservations[r][m]
    BY <1>1, <1>2
  <1>4. RunKept(r)
    BY <1>1, <1>3 DEF RunKept, SettledRowKept
  <1> QED BY Zenon, <1>1, <1>2, <1>4, BumpKept, OthersKept

\* begin_dispatch changes the reserved row into the dispatching one.
LEMMA BeginDispatchKept ==
  ASSUME SInv, NEW r \in Runs, NEW f, NEW n \in DOMAIN reservations[r], BeginDispatch(r, f, n)
  PROVE  \A q \in Runs : RunKept(q)
  <1> DEFINE old == reservations[r][n]
             row == ReservationRow(f, "dispatching", old.ceiling, 0, old.recovery, control[r].revision)
  <1>1. /\ reservations \in [Runs -> Seq(Reservation)] /\ reservations[r] \in Seq(Reservation)
        /\ reservations' = [reservations EXCEPT ![r] = [@ EXCEPT ![n] = row]]
        /\ old.state = "reserved" /\ old.fence = f /\ Record(r, runs[r], n, control[r].directive, f)
    BY DEF SInv, StoreTypeOK, BeginDispatch, BeginReady, PutReservation
  <1>2. row.fence = f /\ row.ceiling = old.ceiling /\ row.recovery = old.recovery
    BY DEF ReservationRow
  <1> HIDE DEF row
  <1>3. /\ reservations'[r] = [reservations[r] EXCEPT ![n] = row]
        /\ \A q \in Runs \ {r} : reservations'[q] = reservations[q]
    BY <1>1
  <1>4. /\ Len(reservations'[r]) = Len(reservations[r]) /\ reservations'[r][n] = row
        /\ \A m \in DOMAIN reservations[r] : m # n => reservations'[r][m] = reservations[r][m]
    BY <1>1, <1>3
  <1>5. RunKept(r)
    BY <1>1, <1>2, <1>4, OpenRowKept DEF Row, IsOpen
  <1>6. \A q \in Runs \ {r} : runs'[q] = runs[q]
    BY <1>1, RecordKept
  <1> QED BY <1>3, <1>5, <1>6, OthersKept

\* A transaction made of a settlement and a record.
LEMMA SettlementKept ==
  ASSUME SInv, NEW r \in Runs, NEW n \in DOMAIN reservations[r],
         NEW state \in {"released", "committed", "forfeited"},
         NEW charged \in 0..reservations[r][n].ceiling, Settle(r, n, state, charged),
         IF state = "released" THEN reservations[r][n].state = "reserved"
                               ELSE reservations[r][n].state = "dispatching",
         NEW run, NEW dispatch, NEW directive, NEW fence, Record(r, run, dispatch, directive, fence)
  PROVE  \A q \in Runs : RunKept(q)
  <1>1. RunKept(r) /\ \A q \in Runs \ {r} : reservations'[q] = reservations[q]
    BY SettleKept DEF Row, IsOpen
  <1>2. \A q \in Runs \ {r} : runs'[q] = runs[q]
    BY RecordKept
  <1> QED BY <1>1, <1>2, OthersKept

\* A cancel releases what is reserved, or leaves the reservations of a live run.
LEMMA CancelRunKept == ASSUME SInv, NEW r \in Runs, NEW f, CancelRun(r, f) PROVE \A q \in Runs : RunKept(q)
  <1> DEFINE reserved == {n \in DOMAIN reservations[r] : reservations[r][n].state = "reserved"}
  <1>1. /\ ~Terminal(runs[r].status) /\ Record(r, RunTo(r, "cancelled"), control[r].dispatch, control[r].directive, f)
    BY DEF CancelRun, Cancellable
  <1>2. CASE reserved = {}
    <2>1. UNCHANGED reservations
      BY <1>2 DEF CancelRun
    <2>2. \A q \in Runs \ {r} : runs'[q] = runs[q]
      BY <1>1, RecordKept
    <2>3. RunKept(r)
      BY <1>1, <2>1, SameRowsKept
    <2> QED BY <2>1, <2>2, <2>3, OthersKept
  <1>3. CASE reserved # {}
    <2>1. PICK n \in reserved : Settle(r, n, "released", 0)
      BY Zenon, <1>3 DEF CancelRun
    <2>2. n \in DOMAIN reservations[r] /\ reservations[r][n].state = "reserved"
      BY <2>1
    <2>3. 0 \in 0..reservations[r][n].ceiling
      BY <2>2, CeilingFacts
    <2> HIDE DEF reserved
    <2> QED BY <1>1, <2>1, <2>2, <2>3, SettlementKept
  <1> QED BY <1>2, <1>3

\* A resume moves a failed run that has a directive.
LEMMA ResumeRunKept == ASSUME SInv, NEW r \in Runs, NEW f, ResumeRun(r, f) PROVE \A q \in Runs : RunKept(q)
  <1>1. /\ Record(r, RunTo(r, "running"), 0, 0, f) /\ UNCHANGED reservations
        /\ runs[r].status = "failed" /\ control[r].directive # 0
    BY Zenon DEF ResumeRun
  <1>2. runs'[r] = RunTo(r, "running") /\ \A q \in Runs \ {r} : runs'[q] = runs[q]
    BY <1>1, RecordKept
  <1>3. runs'[r].status = "running"
    BY <1>2 DEF RunTo
  <1> QED BY <1>1, <1>2, <1>3, SameRowsKept, OthersKept

\* Every transaction keeps what is settled and what has ended.
LEMMA StoreNextKept == SInv /\ [StoreNext]_storeVars => ReservationsKept /\ EndedRunsKept
  <1> SUFFICES ASSUME SInv, [StoreNext]_storeVars PROVE \A q \in Runs : RunKept(q)
    BY Zenon DEF RunKept, ReservationsKept, EndedRunsKept
  <1>1. ASSUME UNCHANGED <<runs, reservations>> PROVE \A q \in Runs : RunKept(q)
    BY <1>1, SameRowsKept
  <1>2. CASE UNCHANGED storeVars
    BY <1>1, <1>2 DEF storeVars
  <1>3. ASSUME NEW r \in Runs, LeaseCall(r) PROVE \A q \in Runs : RunKept(q)
    BY <1>3, LeaseStepsKept DEF LeaseCall, ClaimLease, RenewLease, ReleaseLease
  <1>4. ASSUME NEW r \in Runs, NEW f \in DOMAIN leases[r], NEW n \in DOMAIN reservations[r],
               ReleasePreDispatch(r, f, n) \/ BeginReleases(r, f, n)
        PROVE  \A q \in Runs : RunKept(q)
    <2>1. /\ Settle(r, n, "released", 0) /\ reservations[r][n].state = "reserved"
          /\ Record(r, runs[r], control[r].dispatch, control[r].directive, f)
      BY Zenon, <1>4 DEF ReleasePreDispatch, BeginReleases, BeginReady, Bump
    <2>2. 0 \in 0..reservations[r][n].ceiling
      BY CeilingFacts
    <2> QED BY <2>1, <2>2, SettlementKept
  <1>5. ASSUME NEW r \in Runs, BudgetCall(r) PROVE \A q \in Runs : RunKept(q)
    BY <1>4, <1>5, ReserveKept DEF BudgetCall
  <1>6. ASSUME NEW r \in Runs, NEW f \in DOMAIN leases[r], NEW n \in DOMAIN reservations[r],
               NEW charged \in 0..reservations[r][n].ceiling, CommitRuntime(r, f, n, charged)
        PROVE  \A q \in Runs : RunKept(q)
    <2>1. /\ Settle(r, n, "committed", charged) /\ reservations[r][n].state = "dispatching"
          /\ Record(r, RunAfterCommit(r), 0, control[r].directive, f)
      BY Zenon, <1>6 DEF CommitRuntime, PermitStands
    <2> QED BY Zenon, <2>1, SettlementKept
  <1>7. ASSUME NEW r \in Runs, NEW f \in DOMAIN leases[r], NEW n \in DOMAIN reservations[r],
               ForfeitRuntime(r, f, n) \/ ReclaimDispatching(r, f, n)
        PROVE  \A q \in Runs : RunKept(q)
    <2>1. /\ Settle(r, n, "forfeited", reservations[r][n].ceiling) /\ reservations[r][n].state = "dispatching"
          /\ Record(r, ForfeitedRun(r), 0, control[r].directive, f)
      BY Zenon, <1>7 DEF ForfeitRuntime, PermitStands, ReclaimDispatching, ApplyForfeit
    <2>2. reservations[r][n].ceiling \in 0..reservations[r][n].ceiling
      BY CeilingFacts
    <2> QED BY Zenon, <2>1, <2>2, SettlementKept
  <1>8. ASSUME NEW r \in Runs, DispatchCall(r) PROVE \A q \in Runs : RunKept(q)
    BY <1>4, <1>6, <1>7, <1>8, BeginDispatchKept DEF DispatchCall
  <1>9. ASSUME NEW r \in Runs, NEW f \in DOMAIN leases[r], NEW n \in DOMAIN reservations[r],
               ReclaimReserved(r, f, n)
        PROVE  \A q \in Runs : RunKept(q)
    <2>1. /\ Settle(r, n, "released", 0) /\ reservations[r][n].state = "reserved"
          /\ Record(r, RunTo(r, "failed"), 0, Len(directives[r]) + 1, Len(leases[r]) + 1)
      BY Zenon, <1>9 DEF ReclaimReserved
    <2>2. 0 \in 0..reservations[r][n].ceiling
      BY CeilingFacts
    <2> QED BY Zenon, <2>1, <2>2, SettlementKept
  <1>10. ASSUME NEW r \in Runs, NEW f \in DOMAIN leases[r], ReclaimIdle(r, f) PROVE \A q \in Runs : RunKept(q)
    BY Zenon, <1>10, LeaseStepsKept DEF ReclaimIdle
  <1>11. ASSUME NEW r \in Runs, Reclaim(r) PROVE \A q \in Runs : RunKept(q)
    BY Zenon, <1>7, <1>9, <1>10, <1>11 DEF Reclaim
  <1>12. ASSUME NEW r \in Runs, Command(r) PROVE \A q \in Runs : RunKept(q)
    BY <1>12, CancelRunKept, ResumeRunKept DEF Command
  <1>13. ASSUME NEW k \in Keys, ClaimUngoverned(k) \/ SettleUngoverned(k) PROVE \A q \in Runs : RunKept(q)
    BY Zenon, <1>1, <1>13 DEF ClaimUngoverned, SettleUngoverned
  <1>14. CASE Tick
    BY Zenon, <1>1, <1>14 DEF Tick
  <1> QED BY <1>2, <1>3, <1>5, <1>8, <1>11, <1>12, <1>13, <1>14 DEF StoreNext

\* A reservation is settled once and for good, and a dispatched one is committed or
\* forfeited but never released.
THEOREM SettledForGood == StoreSpec => ReservationsSettleOnce
  <1>1. SInv /\ [StoreNext]_storeVars => [ReservationsKept]_storeVars
    BY StoreNextKept
  <1> QED BY <1>1, StoreInvariant, PTL DEF StoreSpec, ReservationsSettleOnce

\* A succeeded or cancelled run never moves or spends again; a failed one moves only by
\* a resume with its directive.
THEOREM EndedForGood == StoreSpec => EndedRunsStay
  <1>1. SInv /\ [StoreNext]_storeVars => [EndedRunsKept]_storeVars
    BY StoreNextKept
  <1> QED BY <1>1, StoreInvariant, PTL DEF StoreSpec, EndedRunsStay

-----------------------------------------------------------------------------
(* Who a transaction may disturb. *)

\* Lease, reservation and control rows of q are left alone.
Same(q) == leases'[q] = leases[q] /\ reservations'[q] = reservations[q] /\ control'[q] = control[q]

\* The transactions that a run with an effect in flight refuses.
CalmCall(r) ==
    \/ ClaimLease(r)
    \/ \E f \in DOMAIN leases[r] :
           \/ ReleaseLease(r, f) \/ ReclaimIdle(r, f) \/ CancelRun(r, f) \/ ResumeRun(r, f)
           \/ \E ceiling \in Ceilings, d \in 0..Len(directives[r]) : Reserve(r, f, ceiling, d)
           \/ \E n \in DOMAIN reservations[r] :
                  ReleasePreDispatch(r, f, n) \/ BeginReleases(r, f, n) \/ ReclaimReserved(r, f, n)

\* A record writes the control row of one run.
LEMMA RecordOthers ==
  ASSUME SInv, NEW r \in Runs, NEW run, NEW dispatch, NEW directive, NEW fence,
         Record(r, run, dispatch, directive, fence)
  PROVE  \A q \in Runs \ {r} : control'[q] = control[q]
  BY DEF SInv, StoreTypeOK, Record

\* A settlement writes the reservations of one run.
LEMMA SettleOthers ==
  ASSUME SInv, NEW r \in Runs, NEW n, NEW state, NEW charged, Settle(r, n, state, charged)
  PROVE  \A q \in Runs \ {r} : reservations'[q] = reservations[q]
  BY DEF SInv, StoreTypeOK, Settle, PutReservation

\* So does a lease call with the leases.
LEMMA LeaseOthers ==
  ASSUME SInv, NEW r \in Runs,
         \/ UNCHANGED leases
         \/ leases' = [leases EXCEPT ![r] = Append(@, NewLease)]
         \/ \E f \in DOMAIN leases[r] : PutLease(r, f, NewLease) \/ PutLease(r, f, Released(leases[r][f]))
         \/ \E f \in DOMAIN leases[r] : ReplaceLease(r, f)
  PROVE  \A q \in Runs \ {r} : leases'[q] = leases[q]
  BY Zenon DEF SInv, StoreTypeOK, PutLease, ReplaceLease

\* What a calm transaction on r may rely on and leaves: nothing of r is dispatching,
\* other runs are left alone, and no row becomes dispatched.
LEMMA CalmFacts ==
  ASSUME SInv, NEW r \in Runs, CalmCall(r)
  PROVE  /\ \A n \in DOMAIN reservations[r] : Row(r, n).state # "dispatching"
         /\ \A q \in Runs \ {r} : Same(q)
         /\ \A n \in DOMAIN reservations'[r] : WasDispatched(reservations'[r][n]) =>
                n \in DOMAIN reservations[r] /\ reservations'[r][n] = reservations[r][n]
  <1> DEFINE Idle == \A n \in DOMAIN reservations[r] : Row(r, n).state # "dispatching"
             NoNew == \A n \in DOMAIN reservations'[r] : WasDispatched(reservations'[r][n]) =>
                          n \in DOMAIN reservations[r] /\ reservations'[r][n] = reservations[r][n]
             Others == \A q \in Runs \ {r} : Same(q)
  <1>0. OpenInv(r) /\ DispatchInv(r) /\ StoreTypeOK /\ DOMAIN reservations[r] = 1..Len(reservations[r])
        /\ reservations \in [Runs -> Seq(Reservation)] /\ reservations[r] \in Seq(Reservation)
        /\ Len(reservations[r]) \in Nat
    BY Zenon, ReadFacts DEF RunInv, SInv, StoreTypeOK
  <1>1. control[r].dispatch = 0 => Idle
    BY <1>0 DEF DispatchInv
  <1>2. ASSUME NEW n \in DOMAIN reservations[r], Row(r, n).state = "reserved" PROVE Idle
    BY Zenon, <1>0, <1>2 DEF OpenInv, IsOpen
  <1>3. ASSUME UNCHANGED reservations PROVE NoNew /\ \A q \in Runs : reservations'[q] = reservations[q]
    BY <1>3
  <1>4. ASSUME NEW n \in DOMAIN reservations[r], Settle(r, n, "released", 0)
        PROVE  NoNew /\ \A q \in Runs \ {r} : reservations'[q] = reservations[q]
    <2>1. 0 \in 0..reservations[r][n].ceiling
      BY CeilingFacts
    <2>2. /\ DOMAIN reservations'[r] = DOMAIN reservations[r]
          /\ reservations'[r][n] = ReservationRow(reservations[r][n].fence, "released", reservations[r][n].ceiling,
                 0, reservations[r][n].recovery, reservations[r][n].permit)
          /\ \A m \in DOMAIN reservations[r] : m # n => reservations'[r][m] = reservations[r][m]
      BY <1>0, <1>4, <2>1, SettleFacts
    <2>3. reservations'[r][n].state = "released"
      BY <2>2 DEF ReservationRow
    <2> QED BY Zenon, <1>4, <2>2, <2>3, SettleOthers DEF WasDispatched
  <1> HIDE DEF Idle, NoNew
  <1>5. ASSUME ClaimLease(r) PROVE Idle /\ NoNew /\ Others
    <2>1. Idle
      <3>1. \A n \in DOMAIN reservations[r] : ~IsOpen(Row(r, n))
        BY <1>0, <1>5, ReadFacts DEF OpenInv, ClaimLease, NoActiveLease
      <3> QED BY <3>1 DEF Idle, IsOpen
    <2>2. Bump(r, Len(leases[r]) + 1) /\ UNCHANGED reservations /\ leases' = [leases EXCEPT ![r] = Append(@, NewLease)]
      BY <1>5 DEF ClaimLease
    <2> QED BY Zenon, <1>3, <2>1, <2>2, LeaseOthers, RecordOthers DEF Same, Bump
  <1>6. ASSUME NEW f \in DOMAIN leases[r], ReleaseLease(r, f) PROVE Idle /\ NoNew /\ Others
    <2>1. /\ control[r].dispatch = 0 /\ PutLease(r, f, Released(leases[r][f])) /\ Bump(r, f)
          /\ UNCHANGED reservations
      BY Zenon, <1>6 DEF ReleaseLease, Quiescent
    <2> QED BY Zenon, <1>1, <1>3, <2>1, LeaseOthers, RecordOthers DEF Same, Bump
  <1>7. ASSUME NEW f \in DOMAIN leases[r], ReclaimIdle(r, f) PROVE Idle /\ NoNew /\ Others
    <2>1. Open(r) = {} /\ ReplaceLease(r, f) /\ Bump(r, Len(leases[r]) + 1) /\ UNCHANGED reservations
      BY Zenon, <1>7 DEF ReclaimIdle
    <2>2. Idle
      BY <2>1 DEF Idle, Open, IsOpen, Row
    <2> QED BY ZenonT(40), <1>3, <2>1, <2>2, LeaseOthers, RecordOthers DEF Same, Bump
  <1>8. ASSUME NEW f \in DOMAIN leases[r], CancelRun(r, f) PROVE Idle /\ NoNew /\ Others
    <2>1. /\ control[r].dispatch = 0 /\ UNCHANGED leases
          /\ Record(r, RunTo(r, "cancelled"), control[r].dispatch, control[r].directive, f)
      BY Zenon, <1>8 DEF CancelRun, Cancellable
    <2>2. UNCHANGED reservations \/ \E n \in DOMAIN reservations[r] : Settle(r, n, "released", 0)
      BY <1>8 DEF CancelRun
    <2>3. NoNew /\ \A q \in Runs \ {r} : reservations'[q] = reservations[q]
      BY <1>3, <1>4, <2>2
    <2> QED BY <1>1, <2>1, <2>3, RecordOthers DEF Same
  <1>9. ASSUME NEW f \in DOMAIN leases[r], ResumeRun(r, f) PROVE Idle /\ NoNew /\ Others
    <2>1. /\ control[r].dispatch = 0 /\ UNCHANGED leases /\ UNCHANGED reservations
          /\ Record(r, RunTo(r, "running"), 0, 0, f)
      BY Zenon, <1>9 DEF ResumeRun
    <2> QED BY <1>1, <1>3, <2>1, RecordOthers DEF Same
  <1>10. ASSUME NEW f \in DOMAIN leases[r], NEW ceiling \in Ceilings, NEW d \in 0..Len(directives[r]),
                Reserve(r, f, ceiling, d)
         PROVE  Idle /\ NoNew /\ Others
    <2> DEFINE row == ReservationRow(f, "reserved", ceiling, 0, d, 0)
    <2>1. /\ control[r].dispatch = 0 /\ Bump(r, f) /\ UNCHANGED leases
          /\ reservations' = [reservations EXCEPT ![r] = Append(@, row)]
      BY Zenon, <1>10 DEF Reserve
    <2>2. row.state = "reserved"
      BY DEF ReservationRow
    <2> HIDE DEF row
    <2>3. reservations'[r] = Append(reservations[r], row) /\ \A q \in Runs \ {r} : reservations'[q] = reservations[q]
      BY <1>0, <2>1
    <2>4. /\ DOMAIN reservations'[r] = 1..(Len(reservations[r]) + 1)
          /\ reservations'[r][Len(reservations[r]) + 1] = row
          /\ \A m \in DOMAIN reservations[r] : reservations'[r][m] = reservations[r][m]
      BY <1>0, <2>3
    <2>5. NoNew
      BY <1>0, <2>2, <2>4 DEF NoNew, WasDispatched
    <2> QED BY ZenonT(40), <1>1, <2>1, <2>3, <2>5, RecordOthers DEF Same, Bump
  <1>11. ASSUME NEW f \in DOMAIN leases[r], NEW n \in DOMAIN reservations[r],
                ReleasePreDispatch(r, f, n) \/ BeginReleases(r, f, n)
         PROVE  Idle /\ NoNew /\ Others
    <2>1. Row(r, n).state = "reserved" /\ Settle(r, n, "released", 0) /\ Bump(r, f) /\ UNCHANGED leases
      BY Zenon, <1>11 DEF ReleasePreDispatch, BeginReleases, BeginReady, Row
    <2> QED BY Zenon, <1>2, <1>4, <2>1, RecordOthers DEF Same, Bump
  <1>12. ASSUME NEW f \in DOMAIN leases[r], NEW n \in DOMAIN reservations[r], ReclaimReserved(r, f, n)
         PROVE  Idle /\ NoNew /\ Others
    <2>1. /\ Row(r, n).state = "reserved" /\ Settle(r, n, "released", 0) /\ ReplaceLease(r, f)
          /\ Record(r, RunTo(r, "failed"), 0, Len(directives[r]) + 1, Len(leases[r]) + 1)
      BY Zenon, <1>12 DEF ReclaimReserved, Row
    <2> QED BY ZenonT(40), <1>2, <1>4, <2>1, LeaseOthers, RecordOthers DEF Same
  <1>13. Idle /\ NoNew /\ Others
    BY ZenonT(40), <1>5, <1>6, <1>7, <1>8, <1>9, <1>10, <1>11, <1>12 DEF CalmCall
  <1> QED BY Zenon, <1>13 DEF Idle, NoNew

\* Row n of r moves to a dispatched state, the replay row of its key with it.
DispatchMoved(r, n, state) ==
    /\ \A q \in Runs \ {r} : Same(q)
    /\ DOMAIN reservations'[r] = DOMAIN reservations[r]
    /\ reservations'[r][n].state = state
    /\ \A m \in DOMAIN reservations[r] : m # n => reservations'[r][m] = reservations[r][m]
    /\ SetReplay(r, ReplayStateOf(state))

\* begin_dispatch wants a run with nothing in flight and a key that is free.
LEMMA BeginMoved ==
  ASSUME SInv, NEW r \in Runs, NEW f, NEW n \in DOMAIN reservations[r], BeginDispatch(r, f, n)
  PROVE  /\ DispatchMoved(r, n, "dispatching") /\ KeyIsFree(r) /\ ~WasDispatched(Row(r, n))
         /\ \A m \in DOMAIN reservations[r] : Row(r, m).state # "dispatching"
         /\ reservations'[r][n].fence = f /\ reservations'[r][n].permit = control[r].revision
         /\ control'[r].revision = control[r].revision + 1
         /\ UNCHANGED leases
  <1> DEFINE old == reservations[r][n]
             row == ReservationRow(f, "dispatching", old.ceiling, 0, old.recovery, control[r].revision)
  <1>1. /\ reservations \in [Runs -> Seq(Reservation)] /\ reservations[r] \in Seq(Reservation)
        /\ control \in [Runs -> Control] /\ DispatchInv(r)
    BY Zenon DEF SInv, StoreTypeOK, RunInv
  <1>2. /\ reservations' = [reservations EXCEPT ![r] = [@ EXCEPT ![n] = row]]
        /\ old.state = "reserved" /\ control[r].dispatch = 0 /\ KeyIsFree(r) /\ SetReplay(r, "claimed")
        /\ Record(r, runs[r], n, control[r].directive, f) /\ UNCHANGED leases
    BY Zenon DEF BeginDispatch, BeginReady, PutReservation
  <1>3. row.fence = f /\ row.permit = control[r].revision /\ row.state = "dispatching"
    BY DEF ReservationRow
  <1>4. ~WasDispatched(Row(r, n)) /\ ReplayStateOf("dispatching") = "claimed"
    BY <1>2 DEF WasDispatched, Row, ReplayStateOf
  <1>5. \A m \in DOMAIN reservations[r] : Row(r, m).state # "dispatching"
    BY <1>1, <1>2 DEF DispatchInv
  <1>6. control'[r].revision = control[r].revision + 1
    BY Zenon, <1>1, <1>2 DEF Record
  <1> HIDE DEF row, old
  <1>7. /\ reservations'[r] = [reservations[r] EXCEPT ![n] = row]
        /\ \A q \in Runs \ {r} : reservations'[q] = reservations[q]
    BY <1>1, <1>2
  <1>8. /\ DOMAIN reservations'[r] = DOMAIN reservations[r] /\ reservations'[r][n] = row
        /\ \A m \in DOMAIN reservations[r] : m # n => reservations'[r][m] = reservations[r][m]
    BY <1>1, <1>7
  <1>9. \A q \in Runs \ {r} : Same(q)
    BY Zenon, <1>2, <1>7, RecordOthers DEF Same
  <1> QED BY ZenonT(40), <1>2, <1>3, <1>4, <1>5, <1>6, <1>8, <1>9 DEF DispatchMoved

\* A settlement of the row in flight.
LEMMA SettleMoved ==
  ASSUME SInv, NEW r \in Runs, NEW n \in DOMAIN reservations[r], NEW state \in {"committed", "forfeited"},
         NEW charged \in 0..reservations[r][n].ceiling, Settle(r, n, state, charged),
         SetReplay(r, ReplayStateOf(state)),
         NEW run, NEW dispatch, NEW directive, NEW fence, Record(r, run, dispatch, directive, fence),
         \A q \in Runs \ {r} : leases'[q] = leases[q]
  PROVE  DispatchMoved(r, n, state)
  <1>1. StoreTypeOK
    BY ZenonT(40) DEF SInv
  <1>2. /\ DOMAIN reservations'[r] = DOMAIN reservations[r]
        /\ reservations'[r][n] = ReservationRow(reservations[r][n].fence, state, reservations[r][n].ceiling,
               charged, reservations[r][n].recovery, reservations[r][n].permit)
        /\ \A m \in DOMAIN reservations[r] : m # n => reservations'[r][m] = reservations[r][m]
        /\ \A q \in Runs \ {r} : reservations'[q] = reservations[q]
    <2>1. state \in {"released", "committed", "forfeited"}
      BY Zenon
    <2> QED BY <1>1, <2>1, SettleFacts
  <1>3. reservations'[r][n].state = state
    BY <1>2 DEF ReservationRow
  <1>4. \A q \in Runs \ {r} : Same(q)
    BY Zenon, <1>2, RecordOthers DEF Same
  <1> QED BY Zenon, <1>2, <1>3, <1>4 DEF DispatchMoved

\* commit_runtime settles a dispatch.
LEMMA CommitMoved ==
  ASSUME SInv, NEW r \in Runs, NEW f, NEW n \in DOMAIN reservations[r],
         NEW charged \in 0..reservations[r][n].ceiling, CommitRuntime(r, f, n, charged)
  PROVE  Row(r, n).state = "dispatching" /\ DispatchMoved(r, n, "committed") /\ UNCHANGED leases
  <1>1. /\ Row(r, n).state = "dispatching" /\ Settle(r, n, "committed", charged) /\ SetReplay(r, "completed")
        /\ Record(r, RunAfterCommit(r), 0, control[r].directive, f) /\ UNCHANGED leases
    BY Zenon DEF CommitRuntime, PermitStands, Row
  <1>2. ReplayStateOf("committed") = "completed"
    BY Zenon DEF ReplayStateOf
  <1>3. DispatchMoved(r, n, "committed")
    BY Zenon, <1>1, <1>2, SettleMoved
  <1> QED BY ZenonT(40), <1>1, <1>3

\* So do the forfeits, the one of reclaim releasing the lease too.
LEMMA ForfeitMoved ==
  ASSUME SInv, NEW r \in Runs, NEW f \in DOMAIN leases[r], NEW n \in DOMAIN reservations[r],
         ForfeitRuntime(r, f, n) \/ ReclaimDispatching(r, f, n)
  PROVE  /\ Row(r, n).state = "dispatching" /\ DispatchMoved(r, n, "forfeited")
         /\ ForfeitRuntime(r, f, n) => UNCHANGED leases
         /\ ReclaimDispatching(r, f, n) => leases[r][f].state = "active" /\ leases'[r][f].state = "released"
  <1>1. /\ Row(r, n).state = "dispatching" /\ Settle(r, n, "forfeited", reservations[r][n].ceiling)
        /\ SetReplay(r, "failed") /\ Record(r, ForfeitedRun(r), 0, control[r].directive, f)
        /\ UNCHANGED leases \/ PutLease(r, f, Released(leases[r][f]))
    BY Zenon DEF ForfeitRuntime, ReclaimDispatching, PermitStands, ApplyForfeit, Row
  <1>2. ReplayStateOf("forfeited") = "failed"
    BY Zenon DEF ReplayStateOf
  <1>3. reservations[r][n].ceiling \in 0..reservations[r][n].ceiling
    BY Zenon, CeilingFacts
  <1>4. \A q \in Runs \ {r} : leases'[q] = leases[q]
    BY Zenon, <1>1, LeaseOthers
  <1>5. DispatchMoved(r, n, "forfeited")
    BY ZenonT(40), <1>1, <1>2, <1>3, <1>4, SettleMoved
  <1>6. ASSUME ReclaimDispatching(r, f, n)
        PROVE  leases[r][f].state = "active" /\ leases'[r][f].state = "released"
    <2>1. leases[r][f].state = "active" /\ PutLease(r, f, Released(leases[r][f]))
      BY Zenon, <1>6 DEF ReclaimDispatching, ReclaimReady
    <2>2. /\ StoreTypeOK /\ Released(leases[r][f]) \in Lease
          /\ Released(leases[r][f]).state = "released"
      BY Zenon, ReleasedFacts
    <2> QED BY Zenon, <2>1, <2>2, LeasePutFacts
  <1> QED BY ZenonT(40), <1>1, <1>5, <1>6 DEF ForfeitRuntime

-----------------------------------------------------------------------------
(* The replay key of a governed call. *)

\* A keyed run is dispatched at most once.
OneDispatch ==
    \A r \in Runs : ReplayOf[r] # None =>
        \A m, n \in DOMAIN reservations[r] : WasDispatched(Row(r, m)) /\ WasDispatched(Row(r, n)) => m = n

KeyInv == ReplayFollowsDispatch /\ OneDispatch

\* A step that dispatches nothing and leaves the replay rows of governed dispatches.
LEMMA QuietKey ==
  ASSUME KeyInv,
         \A q \in Runs : \A n \in DOMAIN reservations'[q] : WasDispatched(reservations'[q][n]) =>
             n \in DOMAIN reservations[q] /\ reservations'[q][n] = reservations[q][n],
         \A k \in Keys : replays[k].state = "none" \/ replays[k].run = None \/ replays'[k] = replays[k]
  PROVE  KeyInv'
  <1>1. ASSUME NEW r \in Runs, NEW n \in DOMAIN reservations'[r], ReplayOf[r] # None,
               WasDispatched(reservations'[r][n])
        PROVE  replays'[ReplayOf[r]] = [state |-> ReplayStateOf(reservations'[r][n].state), run |-> r]
    <2>1. n \in DOMAIN reservations[r] /\ reservations'[r][n] = reservations[r][n]
      BY Zenon, <1>1
    <2>2. replays[ReplayOf[r]] = [state |-> ReplayStateOf(reservations[r][n].state), run |-> r]
      BY <1>1, <2>1 DEF KeyInv, ReplayFollowsDispatch
    <2>3. ReplayOf[r] \in Keys /\ r # None
      BY <1>1, StoreAssumption
    <2>4. replays[ReplayOf[r]].state # "none" /\ replays[ReplayOf[r]].run = r
      BY <2>2 DEF ReplayStateOf
    <2> QED BY ZenonT(40), <2>1, <2>2, <2>3, <2>4
  <1>2. OneDispatch'
    BY ZenonT(40) DEF KeyInv, OneDispatch, Row
  <1> QED BY ZenonT(40), <1>1, <1>2 DEF KeyInv, ReplayFollowsDispatch

\* The row that moves is the only dispatched one among the runs of its key.
LEMMA MovedKey ==
  ASSUME SInv, KeyInv, NEW r \in Runs, NEW n \in DOMAIN reservations[r],
         NEW state \in {"dispatching", "committed", "forfeited"}, DispatchMoved(r, n, state),
         KeyIsFree(r) \/ WasDispatched(Row(r, n))
  PROVE  KeyInv'
  <1> DEFINE k == ReplayOf[r]
             to == [state |-> ReplayStateOf(state), run |-> r]
  <1>0. /\ \A q \in Runs \ {r} : reservations'[q] = reservations[q]
        /\ DOMAIN reservations'[r] = DOMAIN reservations[r] /\ reservations'[r][n].state = state
        /\ \A m \in DOMAIN reservations[r] : m # n => reservations'[r][m] = reservations[r][m]
        /\ replays \in [Keys -> Replay] /\ ReplayOf \in [Runs -> Keys \cup {None}]
    BY Zenon, StoreAssumption DEF DispatchMoved, Same, SInv, StoreTypeOK
  <1>1. ASSUME NEW q \in Runs, NEW m \in DOMAIN reservations[q], ReplayOf[q] = k, k # None,
               WasDispatched(Row(q, m))
        PROVE  q = r /\ m = n
    <2>1. replays[k] = [state |-> ReplayStateOf(Row(q, m).state), run |-> q]
      BY Zenon, <1>1 DEF KeyInv, ReplayFollowsDispatch, Row
    <2>2. replays[k].state # "none" /\ replays[k].run = q
      BY <2>1 DEF ReplayStateOf
    <2>3. WasDispatched(Row(r, n))
      BY ZenonT(40), <1>1, <2>2 DEF KeyIsFree
    <2>4. replays[k] = [state |-> ReplayStateOf(Row(r, n).state), run |-> r]
      BY Zenon, <1>1, <2>3 DEF KeyInv, ReplayFollowsDispatch, Row
    <2>5. q = r
      BY <2>2, <2>4
    <2> QED BY ZenonT(40), <1>1, <2>3, <2>5 DEF KeyInv, OneDispatch
  <1>2. k # None => replays'[k] = to /\ \A j \in Keys : j # k => replays'[j] = replays[j]
    BY Zenon, <1>0 DEF DispatchMoved, SetReplay
  <1>3. k = None => replays' = replays
    BY Zenon DEF DispatchMoved, SetReplay
  <1>4. ASSUME NEW q \in Runs, NEW m \in DOMAIN reservations'[q], ReplayOf[q] # None,
               WasDispatched(reservations'[q][m])
        PROVE  replays'[ReplayOf[q]] = [state |-> ReplayStateOf(reservations'[q][m].state), run |-> q]
    <2>1. CASE q = r /\ m = n
      BY ZenonT(40), <1>0, <1>2, <1>4, <2>1
    <2>2. CASE ~(q = r /\ m = n)
      <3>1. m \in DOMAIN reservations[q] /\ reservations'[q][m] = Row(q, m)
        BY Zenon, <1>0, <1>4, <2>2 DEF Row
      <3>2. ReplayOf[q] # k /\ ReplayOf[q] \in Keys
        BY ZenonT(40), <1>0, <1>1, <1>4, <2>2, <3>1
      <3>3. replays'[ReplayOf[q]] = replays[ReplayOf[q]]
        BY ZenonT(40), <1>2, <1>3, <3>2
      <3> QED BY Zenon, <1>4, <3>1, <3>3 DEF KeyInv, ReplayFollowsDispatch, Row
    <2> QED BY Zenon, <2>1, <2>2
  <1>5. ASSUME NEW q \in Runs, NEW i \in DOMAIN reservations'[q], NEW j \in DOMAIN reservations'[q],
               ReplayOf[q] # None, WasDispatched(reservations'[q][i]), WasDispatched(reservations'[q][j])
        PROVE  i = j
    <2>1. CASE q = r
      <3>1. \A m \in DOMAIN reservations'[r] : WasDispatched(reservations'[r][m]) => m = n
        BY Zenon, <1>0, <1>1, <1>5, <2>1 DEF Row
      <3> QED BY Zenon, <1>5, <2>1, <3>1
    <2>2. CASE q # r
      BY ZenonT(40), <1>0, <1>5, <2>2 DEF KeyInv, OneDispatch, Row
    <2> QED BY Zenon, <2>1, <2>2
  <1>6. OneDispatch'
    BY Zenon, <1>5 DEF OneDispatch, Row
  <1> QED BY Zenon, <1>4, <1>6 DEF KeyInv, ReplayFollowsDispatch

\* Transactions that dispatch nothing.
LEMMA CalmKey ==
  ASSUME SInv, KeyInv, NEW r \in Runs, CalmCall(r) PROVE KeyInv'
  <1>1. \A q \in Runs : \A n \in DOMAIN reservations'[q] : WasDispatched(reservations'[q][n]) =>
            n \in DOMAIN reservations[q] /\ reservations'[q][n] = reservations[q][n]
    BY Zenon, CalmFacts DEF Same
  <1>2. UNCHANGED replays
    BY ZenonT(40) DEF CalmCall, ClaimLease, ReleaseLease, ReclaimIdle, CancelRun, ResumeRun, Reserve, ReleasePreDispatch,
       BeginReleases, ReclaimReserved
  <1> QED BY Zenon, <1>1, <1>2, QuietKey

\* Every transaction is calm, or renews a lease, or begins or settles a dispatch, or
\* leaves the runs alone.
LEMMA StepKinds ==
  ASSUME [StoreNext]_storeVars
  PROVE  \/ UNCHANGED <<runs, steps, control, leases, reservations, directives, replays>>
         \/ \E k \in Keys : ClaimUngoverned(k) \/ SettleUngoverned(k)
         \/ \E r \in Runs : CalmCall(r)
         \/ \E r \in Runs : \E f \in DOMAIN leases[r] : RenewLease(r, f)
         \/ \E r \in Runs : \E f \in DOMAIN leases[r], n \in DOMAIN reservations[r] :
                \/ BeginDispatch(r, f, n) \/ ForfeitRuntime(r, f, n) \/ ReclaimDispatching(r, f, n)
                \/ \E charged \in 0..reservations[r][n].ceiling : CommitRuntime(r, f, n, charged)
  <1>1. CASE UNCHANGED storeVars
    BY Zenon, <1>1 DEF storeVars
  <1>2. CASE Tick
    BY Zenon, <1>2 DEF Tick
  <1>3. ASSUME NEW r \in Runs, LeaseCall(r)
        PROVE  CalmCall(r) \/ \E f \in DOMAIN leases[r] : RenewLease(r, f)
    BY Zenon, <1>3 DEF LeaseCall, CalmCall
  <1>4. ASSUME NEW r \in Runs, BudgetCall(r) \/ Command(r) PROVE CalmCall(r)
    BY Zenon, <1>4 DEF BudgetCall, Command, CalmCall
  <1>5. ASSUME NEW r \in Runs, DispatchCall(r) \/ Reclaim(r)
        PROVE  \/ CalmCall(r)
               \/ \E f \in DOMAIN leases[r], n \in DOMAIN reservations[r] :
                      \/ BeginDispatch(r, f, n) \/ ForfeitRuntime(r, f, n) \/ ReclaimDispatching(r, f, n)
                      \/ \E charged \in 0..reservations[r][n].ceiling : CommitRuntime(r, f, n, charged)
    BY Zenon, <1>5 DEF DispatchCall, Reclaim, CalmCall
  <1> QED BY Zenon, <1>1, <1>2, <1>3, <1>4, <1>5 DEF StoreNext

\* Every transaction preserves the invariant of the keys.
LEMMA KeyNext == SInv /\ KeyInv /\ [StoreNext]_storeVars => KeyInv'
  <1> SUFFICES ASSUME SInv, KeyInv, [StoreNext]_storeVars PROVE KeyInv'
    BY Zenon
  <1>1. ASSUME UNCHANGED reservations,
               \A k \in Keys : replays[k].state = "none" \/ replays[k].run = None \/ replays'[k] = replays[k]
        PROVE  KeyInv'
    BY <1>1, QuietKey
  <1>2. CASE UNCHANGED <<runs, steps, control, leases, reservations, directives, replays>>
    BY Zenon, <1>1, <1>2
  <1>3. ASSUME NEW k \in Keys, ClaimUngoverned(k) \/ SettleUngoverned(k) PROVE KeyInv'
    <2>1. UNCHANGED reservations /\ replays \in [Keys -> Replay]
      BY Zenon, <1>3 DEF ClaimUngoverned, SettleUngoverned, SInv, StoreTypeOK
    <2>2. replays[k].state = "none" \/ replays[k].run = None
      BY <1>3 DEF ClaimUngoverned, SettleUngoverned
    <2>3. \A j \in Keys : j # k => replays'[j] = replays[j]
      BY <1>3, <2>1 DEF ClaimUngoverned, SettleUngoverned
    <2> QED BY ZenonT(40), <1>1, <2>1, <2>2, <2>3
  <1>4. ASSUME NEW r \in Runs, NEW f \in DOMAIN leases[r], RenewLease(r, f) PROVE KeyInv'
    BY ZenonT(40), <1>1, <1>4 DEF RenewLease
  <1>5. ASSUME NEW r \in Runs, NEW f \in DOMAIN leases[r], NEW n \in DOMAIN reservations[r],
               \/ BeginDispatch(r, f, n) \/ ForfeitRuntime(r, f, n) \/ ReclaimDispatching(r, f, n)
               \/ \E charged \in 0..reservations[r][n].ceiling : CommitRuntime(r, f, n, charged)
        PROVE  KeyInv'
    <2>1. ASSUME Row(r, n).state = "dispatching" PROVE WasDispatched(Row(r, n))
      BY Zenon, <2>1 DEF WasDispatched
    <2> QED BY ZenonT(40), <1>5, <2>1, BeginMoved, ForfeitMoved, CommitMoved, MovedKey
  <1> QED BY ZenonT(40), <1>2, <1>3, <1>4, <1>5, StepKinds, CalmKey

\* Nothing is dispatched at first.
LEMMA KeyInit == StoreInit => KeyInv
  <1> SUFFICES ASSUME StoreInit PROVE KeyInv
    BY ZenonT(40)
  <1>1. \A r \in Runs : DOMAIN reservations[r] = {}
    BY DEF StoreInit
  <1> QED BY Zenon, <1>1 DEF KeyInv, ReplayFollowsDispatch, OneDispatch

\* The replay row of a governed key says what became of its dispatch.
THEOREM ReplayFollows == StoreSpec => []ReplayFollowsDispatch
  <1>1. KeyInv => ReplayFollowsDispatch
    BY ZenonT(40) DEF KeyInv
  <1> QED BY <1>1, KeyInit, KeyNext, StoreInvariant, PTL DEF StoreSpec

\* The dispatches of all the runs of one key are one.
LEMMA KeyDispatches ==
  ASSUME KeyInv, NEW q \in Runs, NEW r \in Runs, ReplayOf[q] = ReplayOf[r], ReplayOf[r] # None,
         NEW m \in DOMAIN reservations[q], NEW n \in DOMAIN reservations[r],
         WasDispatched(Row(q, m)), WasDispatched(Row(r, n))
  PROVE  q = r /\ m = n
  <1>1. /\ replays[ReplayOf[r]] = [state |-> ReplayStateOf(Row(q, m).state), run |-> q]
        /\ replays[ReplayOf[r]] = [state |-> ReplayStateOf(Row(r, n).state), run |-> r]
    BY Zenon DEF KeyInv, ReplayFollowsDispatch, Row
  <1>2. q = r
    BY <1>1
  <1> QED BY Zenon, <1>2 DEF KeyInv, OneDispatch

\* Runs that share a key, recoveries and ungoverned callers get one permit between
\* them: begin_dispatch claims the replay row in the transaction of the permit.
THEOREM OnePermit == StoreSpec => []OnePermitPerKey
  <1>1. KeyInv => OnePermitPerKey
    BY Zenon, KeyDispatches DEF OnePermitPerKey, Row
  <1> QED BY <1>1, KeyInit, KeyNext, StoreInvariant, PTL DEF StoreSpec

-----------------------------------------------------------------------------
(* Fences. *)

\* Every transaction keeps the leases that exist, the released ones as they are.
LEMMA StoreNextFences == SInv /\ [StoreNext]_storeVars => FencesKept
  <1> SUFFICES ASSUME SInv, [StoreNext]_storeVars, NEW q \in Runs, NEW g \in DOMAIN leases[q]
               PROVE  g \in DOMAIN leases'[q] /\ (leases[q][g].state = "released" => leases'[q][g] = leases[q][g])
    BY DEF FencesKept
  <1> DEFINE Kept == g \in DOMAIN leases'[q] /\ (leases[q][g].state = "released" => leases'[q][g] = leases[q][g])
  <1>0. StoreTypeOK /\ NewLease \in Lease /\ Len(leases[q]) \in Nat /\ DOMAIN leases[q] = 1..Len(leases[q])
    BY ReadFacts, LeaseTypes DEF SInv
  <1>1. ASSUME leases'[q] = leases[q] PROVE Kept
    BY Zenon, <1>1
  <1>2. ASSUME NEW f \in DOMAIN leases[q], leases[q][f].state = "active",
               \/ PutLease(q, f, NewLease)
               \/ PutLease(q, f, Released(leases[q][f]))
        PROVE  Kept
    <2>1. Released(leases[q][f]) \in Lease
      BY ZenonT(40), ReleasedFacts
    <2>2. DOMAIN leases'[q] = DOMAIN leases[q] /\ \A h \in DOMAIN leases[q] : h # f => leases'[q][h] = leases[q][h]
      BY Zenon, <1>0, <1>2, <2>1, LeasePutFacts
    <2> QED BY Zenon, <1>2, <2>2
  <1>3. ASSUME leases' = [leases EXCEPT ![q] = Append(@, NewLease)] PROVE Kept
    <2>1. /\ DOMAIN leases'[q] = 1..(Len(leases[q]) + 1)
          /\ \A h \in DOMAIN leases[q] : leases'[q][h] = leases[q][h]
      BY ZenonT(40), <1>0, <1>3, LeaseAddFacts
    <2> QED BY <1>0, <2>1
  <1>4. ASSUME NEW f \in DOMAIN leases[q], leases[q][f].state = "active", ReplaceLease(q, f) PROVE Kept
    <2>1. /\ DOMAIN leases'[q] = 1..(Len(leases[q]) + 1)
          /\ \A h \in DOMAIN leases[q] : h # f => leases'[q][h] = leases[q][h]
      BY Zenon, <1>0, <1>4, LeaseReplaceFacts
    <2> QED BY <1>0, <1>4, <2>1
  <1> HIDE DEF Kept
  <1>5. ASSUME NEW r \in Runs, CalmCall(r) PROVE Kept
    <2>1. CASE r # q
      BY Zenon, <1>1, <1>5, <2>1, CalmFacts DEF Same
    <2>2. CASE r = q
      <3>1. \/ UNCHANGED leases
            \/ leases' = [leases EXCEPT ![q] = Append(@, NewLease)]
            \/ \E f \in DOMAIN leases[q] :
                   /\ leases[q][f].state = "active"
                   /\ PutLease(q, f, Released(leases[q][f])) \/ ReplaceLease(q, f)
        BY ZenonT(40), <1>5, <2>2 DEF CalmCall, ClaimLease, ReleaseLease, ReclaimIdle, CancelRun, ResumeRun, Reserve,
           ReleasePreDispatch, BeginReleases, ReclaimReserved, Authorized, ReclaimReady
      <3> QED BY ZenonT(40), <1>1, <1>2, <1>3, <1>4, <3>1
    <2> QED BY <2>1, <2>2
  <1>6. ASSUME NEW r \in Runs, NEW f \in DOMAIN leases[r],
               \/ RenewLease(r, f)
               \/ \E n : ReclaimDispatching(r, f, n)
        PROVE  Kept
    <2>1. /\ leases[r][f].state = "active"
          /\ PutLease(r, f, NewLease) \/ PutLease(r, f, Released(leases[r][f]))
      BY ZenonT(40), <1>6 DEF RenewLease, ReclaimDispatching, Authorized, ReclaimReady
    <2>2. r # q => leases'[q] = leases[q]
      BY Zenon, <2>1, LeaseOthers
    <2> QED BY Zenon, <1>1, <1>2, <2>1, <2>2
  <1>7. ASSUME UNCHANGED leases PROVE Kept
    BY Zenon, <1>1, <1>7
  <1>8. ASSUME NEW r \in Runs, NEW f \in DOMAIN leases[r], NEW n \in DOMAIN reservations[r],
               \/ BeginDispatch(r, f, n) \/ ForfeitRuntime(r, f, n)
               \/ \E charged \in 0..reservations[r][n].ceiling : CommitRuntime(r, f, n, charged)
        PROVE  UNCHANGED leases
    BY Zenon, <1>8 DEF BeginDispatch, ForfeitRuntime, CommitRuntime
  <1>9. ASSUME NEW k \in Keys, ClaimUngoverned(k) \/ SettleUngoverned(k) PROVE UNCHANGED leases
    BY Zenon, <1>9 DEF ClaimUngoverned, SettleUngoverned
  <1>10. Kept
    BY ZenonT(40), <1>5, <1>6, <1>7, <1>8, <1>9, StepKinds
  <1> QED BY <1>10 DEF Kept

\* A fence is handed out once, and a released lease stays released.
THEOREM FencesForGood == StoreSpec => FencesStand
  <1>1. SInv /\ [StoreNext]_storeVars => [FencesKept]_storeVars
    BY StoreNextFences
  <1> QED BY <1>1, StoreInvariant, PTL DEF StoreSpec, FencesStand

-----------------------------------------------------------------------------
(* Completed replays. *)

\* A committed row came with a succeeded step, two control revisions past its permit.
CommittedInv ==
    \A r \in Runs : \A n \in DOMAIN reservations[r] :
        OriginCommitted(r, n) => StepReplayed(r) /\ PastCommit(r, n)

\* A completed replay row bound to a run has the committed row it came from.
CompletedInv ==
    \A r \in Runs :
        ReplayOf[r] # None /\ replays[ReplayOf[r]] = [state |-> "completed", run |-> r] =>
            \E n \in DOMAIN reservations[r] : OriginCommitted(r, n)

\* Recording bumps one control row.
LEMMA RecordGrows ==
  ASSUME SInv, NEW r \in Runs, NEW run, NEW dispatch, NEW directive, NEW fence,
         Record(r, run, dispatch, directive, fence)
  PROVE  /\ control'[r].revision = control[r].revision + 1
         /\ \A q \in Runs : control[q].revision \in Nat /\ control'[q].revision >= control[q].revision
  <1>1. control \in [Runs -> Control] /\ MaxRevision \in Nat
    BY Zenon, StoreAssumption DEF SInv, StoreTypeOK
  <1>2. \A q \in Runs : control[q].revision \in Nat
    BY <1>1 DEF Control
  <1>3. control'[r].revision = control[r].revision + 1 /\ \A q \in Runs \ {r} : control'[q] = control[q]
    BY Zenon, <1>1 DEF Record
  <1> QED BY <1>2, <1>3

\* A step that has succeeded stays so, and no control revision is taken back.
LEMMA ProgressKept ==
  ASSUME SInv, [StoreNext]_storeVars
  PROVE  \A q \in Runs :
             /\ steps[q] = "succeeded" => steps'[q] = "succeeded"
             /\ control[q].revision \in Nat /\ control'[q].revision \in Nat
             /\ control'[q].revision >= control[q].revision
  <1> DEFINE Steps == \A q \in Runs : steps[q] = "succeeded" => steps'[q] = "succeeded"
             Grows == \A q \in Runs : /\ control[q].revision \in Nat /\ control'[q].revision \in Nat
                                      /\ control'[q].revision >= control[q].revision
  <1>0. control \in [Runs -> Control] /\ MaxRevision \in Nat /\ steps \in [Runs -> StepStatuses]
    BY Zenon, StoreAssumption DEF SInv, StoreTypeOK
  <1>1. \A q \in Runs : control[q].revision \in Nat
    BY <1>0 DEF Control
  <1>2. UNCHANGED steps => Steps
    BY Zenon
  <1>3. UNCHANGED control => Grows
    BY <1>1
  <1>4. ASSUME NEW r \in Runs, NEW run, NEW dispatch, NEW directive, NEW fence,
               Record(r, run, dispatch, directive, fence)
        PROVE  Grows
    BY <1>1, <1>4, RecordOthers, RecordGrows
  <1> HIDE DEF Steps, Grows
  <1>5. ASSUME UNCHANGED <<runs, steps, control, leases, reservations, directives, replays>> PROVE Steps /\ Grows
    <2>1. UNCHANGED steps /\ UNCHANGED control
      BY Zenon, <1>5
    <2> QED BY ZenonT(40), <1>2, <1>3, <2>1
  <1>6. ASSUME NEW k \in Keys, ClaimUngoverned(k) \/ SettleUngoverned(k) PROVE Steps /\ Grows
    BY ZenonT(40), <1>2, <1>3, <1>6 DEF ClaimUngoverned, SettleUngoverned
  <1>7. ASSUME NEW r \in Runs, CalmCall(r) PROVE Steps /\ Grows
    <2>1. UNCHANGED steps
      BY Zenon, <1>7 DEF CalmCall, ClaimLease, ReleaseLease, ReclaimIdle, CancelRun, ResumeRun, Reserve,
         ReleasePreDispatch, BeginReleases, ReclaimReserved
    <2>2. \E run, dispatch, directive, fence : Record(r, run, dispatch, directive, fence)
      BY ZenonT(40), <1>7 DEF CalmCall, ClaimLease, ReleaseLease, ReclaimIdle, CancelRun, ResumeRun, Reserve,
         ReleasePreDispatch, BeginReleases, ReclaimReserved, Bump
    <2> QED BY ZenonT(40), <1>2, <1>4, <2>1, <2>2
  <1>8. ASSUME NEW r \in Runs, NEW f \in DOMAIN leases[r], RenewLease(r, f) PROVE Steps /\ Grows
    BY Zenon, <1>2, <1>4, <1>8 DEF RenewLease, Bump
  <1>9. ASSUME NEW r \in Runs, NEW f, NEW n, BeginDispatch(r, f, n) PROVE Steps /\ Grows
    BY ZenonT(40), <1>2, <1>4, <1>9 DEF BeginDispatch
  <1>10. ASSUME NEW r \in Runs, NEW f, NEW n, NEW charged, CommitRuntime(r, f, n, charged) PROVE Steps /\ Grows
    <2>1. steps' = [steps EXCEPT ![r] = "succeeded"] /\ Record(r, RunAfterCommit(r), 0, control[r].directive, f)
      BY Zenon, <1>10 DEF CommitRuntime
    <2>2. Steps
      BY Zenon, <1>0, <2>1 DEF Steps
    <2> QED BY ZenonT(40), <1>4, <2>1, <2>2
  <1>11. ASSUME NEW r \in Runs, NEW f, NEW n, ForfeitRuntime(r, f, n) \/ ReclaimDispatching(r, f, n)
         PROVE  Steps /\ Grows
    <2>1. steps' = [steps EXCEPT ![r] = ForfeitedStep(r)] /\ Record(r, ForfeitedRun(r), 0, control[r].directive, f)
      BY ZenonT(40), <1>11 DEF ForfeitRuntime, ReclaimDispatching, ApplyForfeit
    <2>2. Steps
      BY Zenon, <1>0, <2>1 DEF Steps, ForfeitedStep
    <2> QED BY ZenonT(40), <1>4, <2>1, <2>2
  <1>12. Steps /\ Grows
    <2>1. ASSUME NEW r \in Runs, NEW f \in DOMAIN leases[r], NEW n \in DOMAIN reservations[r],
                 \/ BeginDispatch(r, f, n) \/ ForfeitRuntime(r, f, n) \/ ReclaimDispatching(r, f, n)
                 \/ \E charged \in 0..reservations[r][n].ceiling : CommitRuntime(r, f, n, charged)
          PROVE  Steps /\ Grows
      BY ZenonT(40), <2>1, <1>9, <1>10, <1>11
    <2> QED BY ZenonT(40), <1>5, <1>6, <1>7, <1>8, <2>1, StepKinds
  <1> QED BY ZenonT(40), <1>12 DEF Steps, Grows

\* Only commit_runtime commits a row or completes the replay row of a governed run.
LEMMA OnlyCommits ==
  ASSUME SInv, [StoreNext]_storeVars,
         \A r \in Runs : \A f \in DOMAIN leases[r], n \in DOMAIN reservations[r] :
             \A charged \in 0..reservations[r][n].ceiling : ~CommitRuntime(r, f, n, charged)
  PROVE  /\ \A q \in Runs : \A m \in DOMAIN reservations'[q] : reservations'[q][m].state = "committed" =>
                m \in DOMAIN reservations[q] /\ reservations'[q][m] = reservations[q][m]
         /\ \A k \in Keys : replays'[k].state = "completed" /\ replays'[k].run # None =>
                replays'[k] = replays[k]
  <1> DEFINE Rows1 == \A q \in Runs : \A m \in DOMAIN reservations'[q] :
                          reservations'[q][m].state = "committed" =>
                              m \in DOMAIN reservations[q] /\ reservations'[q][m] = reservations[q][m]
             Keys1 == \A k \in Keys : replays'[k].state = "completed" /\ replays'[k].run # None =>
                          replays'[k] = replays[k]
  <1>0. replays \in [Keys -> Replay]
    BY Zenon DEF SInv, StoreTypeOK
  <1>1. UNCHANGED reservations => Rows1
    BY Zenon
  <1>2. UNCHANGED replays => Keys1
    BY Zenon
  <1>3. ASSUME NEW r \in Runs, CalmCall(r) PROVE Rows1 /\ Keys1
    <2>1. UNCHANGED replays
      BY ZenonT(40), <1>3 DEF CalmCall, ClaimLease, ReleaseLease, ReclaimIdle, CancelRun, ResumeRun, Reserve,
         ReleasePreDispatch, BeginReleases, ReclaimReserved
    <2>2. Rows1
      BY Zenon, <1>3, CalmFacts DEF Same, WasDispatched
    <2> QED BY ZenonT(40), <1>2, <2>1, <2>2
  <1>4. ASSUME NEW r \in Runs, NEW n \in DOMAIN reservations[r], NEW state \in {"dispatching", "forfeited"},
               DispatchMoved(r, n, state)
        PROVE  Rows1 /\ Keys1
    <2>1. Rows1
      BY Zenon, <1>4 DEF DispatchMoved, Same
    <2>2. ReplayStateOf(state) # "completed" /\ SetReplay(r, ReplayStateOf(state))
      BY Zenon, <1>4 DEF ReplayStateOf, DispatchMoved
    <2>3. Keys1
      BY Zenon, <1>0, <2>2 DEF SetReplay
    <2> QED BY ZenonT(40), <2>1, <2>3
  <1>5. ASSUME NEW k \in Keys, ClaimUngoverned(k) \/ SettleUngoverned(k) PROVE Rows1 /\ Keys1
    <2>1. UNCHANGED reservations /\ \E state : replays' = [replays EXCEPT ![k] = [state |-> state, run |-> None]]
      BY ZenonT(40), <1>5 DEF ClaimUngoverned, SettleUngoverned
    <2>2. Keys1
      BY <1>0, <2>1
    <2> QED BY ZenonT(40), <1>1, <2>1, <2>2
  <1> HIDE DEF Rows1, Keys1
  <1>6. ASSUME UNCHANGED <<runs, steps, control, leases, reservations, directives, replays>> PROVE Rows1 /\ Keys1
    <2>1. UNCHANGED reservations /\ UNCHANGED replays
      BY Zenon, <1>6
    <2> QED BY ZenonT(40), <1>1, <1>2, <2>1
  <1>7. ASSUME NEW r \in Runs, NEW f \in DOMAIN leases[r], RenewLease(r, f) PROVE Rows1 /\ Keys1
    BY ZenonT(40), <1>1, <1>2, <1>7 DEF RenewLease
  <1>8. ASSUME NEW r \in Runs, NEW f \in DOMAIN leases[r], NEW n \in DOMAIN reservations[r],
               BeginDispatch(r, f, n) \/ ForfeitRuntime(r, f, n) \/ ReclaimDispatching(r, f, n)
        PROVE  Rows1 /\ Keys1
    <2>1. \E state \in {"dispatching", "forfeited"} : DispatchMoved(r, n, state)
      BY ZenonT(40), <1>8, BeginMoved, ForfeitMoved
    <2> QED BY Zenon, <1>4, <2>1
  <1>9. Rows1 /\ Keys1
    <2>1. ASSUME NEW r \in Runs, NEW f \in DOMAIN leases[r], NEW n \in DOMAIN reservations[r],
                 \/ BeginDispatch(r, f, n) \/ ForfeitRuntime(r, f, n) \/ ReclaimDispatching(r, f, n)
                 \/ \E charged \in 0..reservations[r][n].ceiling : CommitRuntime(r, f, n, charged)
          PROVE  Rows1 /\ Keys1
      BY ZenonT(40), <2>1, <1>8
    <2> QED BY ZenonT(40), <1>3, <1>5, <1>6, <1>7, <2>1, StepKinds
  <1> QED BY Zenon, <1>9 DEF Rows1, Keys1

\* The commit itself: the step has succeeded and the control row is two past the permit.
LEMMA CommitVerifies ==
  ASSUME SInv, NEW r \in Runs, NEW f, NEW n \in DOMAIN reservations[r],
         NEW charged \in 0..reservations[r][n].ceiling, CommitRuntime(r, f, n, charged)
  PROVE  StepReplayed(r)' /\ PastCommit(r, n)' /\ OriginCommitted(r, n)'
  <1>1. /\ StoreTypeOK /\ steps \in [Runs -> StepStatuses] /\ control \in [Runs -> Control] /\ MaxRevision \in Nat
        /\ reservations[r][n] \in Reservation
    <2>1. /\ StoreTypeOK /\ steps \in [Runs -> StepStatuses] /\ control \in [Runs -> Control]
          /\ MaxRevision \in Nat
      BY Zenon, StoreAssumption DEF SInv, StoreTypeOK
    <2>2. reservations[r] \in Seq(Reservation)
      BY Zenon, ReadFacts
    <2>3. reservations[r][n] \in Reservation
      BY <2>2
    <2> QED BY Zenon, <2>1, <2>3
  <1>2. /\ steps' = [steps EXCEPT ![r] = "succeeded"] /\ Settle(r, n, "committed", charged)
        /\ Record(r, RunAfterCommit(r), 0, control[r].directive, f)
        /\ control[r].revision = reservations[r][n].permit + 1
    BY ZenonT(40) DEF CommitRuntime, PermitStands
  <1>3. reservations'[r][n] = ReservationRow(reservations[r][n].fence, "committed", reservations[r][n].ceiling,
            charged, reservations[r][n].recovery, reservations[r][n].permit)
    BY Zenon, <1>1, <1>2, SettleFacts
  <1>4. reservations'[r][n].state = "committed" /\ reservations'[r][n].permit = reservations[r][n].permit
    BY <1>3 DEF ReservationRow
  <1>5. control'[r].revision = control[r].revision + 1 /\ reservations[r][n].permit \in Nat
    BY Zenon, <1>1, <1>2, RecordGrows DEF Reservation
  <1>6. steps'[r] = "succeeded"
    BY Zenon, <1>1, <1>2
  <1>7. control'[r].revision >= reservations'[r][n].permit + 2
    <2>1. control'[r].revision = reservations[r][n].permit + 1 + 1
      BY Zenon, <1>2, <1>5
    <2> QED BY <1>4, <1>5, <2>1
  <1> QED BY Zenon, <1>4, <1>6, <1>7 DEF StepReplayed, PastCommit, OriginCommitted

\* Every transaction keeps both, at the commit by the commit and after it because
\* settled rows, succeeded steps and control revisions are never taken back.
LEMMA CompletedNext == SInv /\ CommittedInv /\ CompletedInv /\ [StoreNext]_storeVars => CommittedInv' /\ CompletedInv'
  <1> SUFFICES ASSUME SInv, CommittedInv, CompletedInv, [StoreNext]_storeVars PROVE CommittedInv' /\ CompletedInv'
    BY Zenon
  <1>0. /\ reservations \in [Runs -> Seq(Reservation)] /\ replays \in [Keys -> Replay]
        /\ ReplayOf \in [Runs -> Keys \cup {None}] /\ None \notin Runs
    BY ZenonT(40), StoreAssumption DEF SInv, StoreTypeOK
  <1>1. ASSUME NEW r \in Runs, NEW n \in DOMAIN reservations[r], OriginCommitted(r, n)
        PROVE  n \in DOMAIN reservations'[r] /\ reservations'[r][n] = reservations[r][n]
    <2>1. /\ Len(reservations'[r]) >= Len(reservations[r])
          /\ SettledRowKept(reservations[r][n], reservations'[r][n])
      BY ZenonT(40), StoreNextKept DEF ReservationsKept
    <2>2. reservations'[r][n] = reservations[r][n]
      BY Zenon, <1>1, <2>1 DEF SettledRowKept, IsOpen, OriginCommitted
    <2>3. SInv'
      BY ZenonT(40), StoreNextInv
    <2>4. /\ DOMAIN reservations'[r] = 1..Len(reservations'[r]) /\ DOMAIN reservations[r] = 1..Len(reservations[r])
          /\ Len(reservations'[r]) \in Nat /\ Len(reservations[r]) \in Nat
      <3>1. reservations[r] \in Seq(Reservation) /\ reservations'[r] \in Seq(Reservation)
        BY Zenon, <1>0, <2>3 DEF SInv, StoreTypeOK
      <3> QED BY <3>1
    <2> QED BY <2>1, <2>2, <2>4
  <1>2. ASSUME NEW r \in Runs, NEW n \in DOMAIN reservations[r], OriginCommitted(r, n),
               reservations'[r][n] = reservations[r][n]
        PROVE  (StepReplayed(r) /\ PastCommit(r, n))'
    <2>1. steps[r] = "succeeded" /\ control[r].revision >= reservations[r][n].permit + 2
      BY Zenon, <1>2 DEF CommittedInv, StepReplayed, PastCommit
    <2>2. /\ steps'[r] = "succeeded" /\ control[r].revision \in Nat /\ control'[r].revision \in Nat
          /\ control'[r].revision >= control[r].revision
      BY ZenonT(40), <2>1, ProgressKept
    <2>3. reservations[r][n] \in Reservation
      BY ReadFacts
    <2>4. reservations[r][n].permit \in Nat
      BY Zenon, <2>3 DEF Reservation
    <2> QED BY <1>2, <2>1, <2>2, <2>4 DEF StepReplayed, PastCommit
  <1>3. CASE \A r \in Runs : \A f \in DOMAIN leases[r], n \in DOMAIN reservations[r] :
                 \A charged \in 0..reservations[r][n].ceiling : ~CommitRuntime(r, f, n, charged)
    <2>1. /\ \A q \in Runs : \A m \in DOMAIN reservations'[q] : reservations'[q][m].state = "committed" =>
                 m \in DOMAIN reservations[q] /\ reservations'[q][m] = reservations[q][m]
          /\ \A k \in Keys : replays'[k].state = "completed" /\ replays'[k].run # None =>
                 replays'[k] = replays[k]
      BY Zenon, <1>3, OnlyCommits
    <2>2. CommittedInv'
      BY Zenon, <1>2, <2>1 DEF CommittedInv, OriginCommitted
    <2>3. ASSUME NEW r \in Runs, ReplayOf[r] # None, replays'[ReplayOf[r]] = [state |-> "completed", run |-> r]
          PROVE  \E n \in DOMAIN reservations'[r] : OriginCommitted(r, n)'
      <3>1. ReplayOf[r] \in Keys /\ r # None
        BY Zenon, <1>0, <2>3
      <3>2. replays[ReplayOf[r]] = [state |-> "completed", run |-> r]
        BY <2>1, <2>3, <3>1
      <3>3. PICK n \in DOMAIN reservations[r] : OriginCommitted(r, n)
        BY Zenon, <2>3, <3>2 DEF CompletedInv
      <3> QED BY ZenonT(40), <1>1, <3>3 DEF OriginCommitted
    <2> QED BY Zenon, <2>2, <2>3 DEF CompletedInv
  <1>4. ASSUME NEW r \in Runs, NEW f \in DOMAIN leases[r], NEW n \in DOMAIN reservations[r],
               NEW charged \in 0..reservations[r][n].ceiling, CommitRuntime(r, f, n, charged)
        PROVE  CommittedInv' /\ CompletedInv'
    <2>1. (StepReplayed(r) /\ PastCommit(r, n) /\ OriginCommitted(r, n))'
      BY Zenon, <1>4, CommitVerifies
    <2>2. DispatchMoved(r, n, "committed")
      BY Zenon, <1>4, CommitMoved
    <2>3. /\ \A q \in Runs \ {r} : reservations'[q] = reservations[q]
          /\ DOMAIN reservations'[r] = DOMAIN reservations[r]
          /\ \A m \in DOMAIN reservations[r] : m # n => reservations'[r][m] = reservations[r][m]
          /\ SetReplay(r, ReplayStateOf("committed"))
      BY Zenon, <2>2 DEF DispatchMoved, Same
    <2>4. ASSUME NEW q \in Runs, NEW m \in DOMAIN reservations'[q], OriginCommitted(q, m)'
          PROVE  (StepReplayed(q) /\ PastCommit(q, m))'
      <3>1. CASE q = r /\ m = n
        BY Zenon, <2>1, <3>1
      <3>2. CASE ~(q = r /\ m = n)
        <4>1. m \in DOMAIN reservations[q] /\ reservations'[q][m] = reservations[q][m]
          BY ZenonT(40), <2>3, <2>4, <3>2
        <4> QED BY ZenonT(40), <1>2, <2>4, <4>1 DEF OriginCommitted
      <3> QED BY Zenon, <3>1, <3>2
    <2>5. ASSUME NEW q \in Runs, ReplayOf[q] # None, replays'[ReplayOf[q]] = [state |-> "completed", run |-> q]
          PROVE  \E m \in DOMAIN reservations'[q] : OriginCommitted(q, m)'
      <3>1. CASE q = r
        BY Zenon, <2>1, <2>3, <3>1
      <3>2. CASE q # r
        <4>1. ReplayOf[q] \in Keys
          BY Zenon, <1>0, <2>5
        <4>2. replays'[ReplayOf[q]] = replays[ReplayOf[q]]
          BY Zenon, <1>0, <2>3, <2>5, <3>2, <4>1 DEF SetReplay
        <4>3. PICK m \in DOMAIN reservations[q] : OriginCommitted(q, m)
          BY ZenonT(40), <2>5, <4>2 DEF CompletedInv
        <4> QED BY ZenonT(40), <1>1, <4>3 DEF OriginCommitted
      <3> QED BY Zenon, <3>1, <3>2
    <2> QED BY Zenon, <2>4, <2>5 DEF CommittedInv, CompletedInv
  <1> QED BY Zenon, <1>3, <1>4

\* Nothing is reserved at first, and no key is claimed.
LEMMA CompletedInit == StoreInit => CommittedInv /\ CompletedInv
  <1> SUFFICES ASSUME StoreInit PROVE CommittedInv /\ CompletedInv
    BY ZenonT(40)
  <1>1. \A r \in Runs : DOMAIN reservations[r] = {}
    BY DEF StoreInit
  <1>2. \A k \in Keys : replays[k].state = "none"
    BY Zenon DEF StoreInit
  <1>3. ASSUME NEW r \in Runs, ReplayOf[r] # None PROVE replays[ReplayOf[r]].state # "completed"
    BY <1>2, <1>3, StoreAssumption
  <1> QED BY <1>1, <1>3 DEF CommittedInv, CompletedInv

\* load_verified_replay reports a corrupt store exactly for the completed replays of runs
\* that were registered without an event: the reservation, the step, the control row and
\* the projection it reads agree with a completed replay ever after the commit that
\* completed it.
THEOREM ReplayReadable == StoreSpec => []ReplayIsReadable
  <1>1. SInv /\ ProjectionIsCurrent /\ CommittedInv /\ CompletedInv => ReplayIsReadable
    <2> SUFFICES ASSUME SInv, ProjectionIsCurrent, CommittedInv, CompletedInv, NEW r \in Runs,
                        ReplayCompleted(r), ~BoundElsewhere(r)
                 PROVE  ReplayVerified(r) <=> r \in Started
      <3>1. ASSUME NEW r \in Runs, ~(ReplayCompleted(r) /\ ~BoundElsewhere(r))
            PROVE  LookupReplay(r) # "corrupt"
        BY <3>1 DEF LookupReplay
      <3>2. ASSUME NEW r \in Runs, ReplayCompleted(r), ~BoundElsewhere(r)
            PROVE  LookupReplay(r) = IF ReplayVerified(r) THEN "completed" ELSE "corrupt"
        BY <3>2 DEF LookupReplay
      <3> QED BY <3>1, <3>2 DEF ReplayIsReadable
    <2>1. ReplayOf[r] \in Keys /\ ReplayOf[r] # None /\ replays[ReplayOf[r]] \in Replay
      BY Zenon, StoreAssumption DEF ReplayCompleted, SInv, StoreTypeOK
    <2>2. replays[ReplayOf[r]] = [state |-> "completed", run |-> r]
      BY Zenon, <2>1 DEF ReplayCompleted, BoundElsewhere, Replay
    <2>3. PICK n \in DOMAIN reservations[r] : OriginCommitted(r, n)
      BY Zenon, <2>1, <2>2 DEF CompletedInv
    <2>4. StepReplayed(r) /\ PastCommit(r, n)
      BY Zenon, <2>3 DEF CommittedInv
    <2>5. ProjectionFollows(r)
      <3>1. projection[r] = Project(runs[r], control[r], Len(leases[r]))
        BY ZenonT(40) DEF ProjectionIsCurrent
      <3>2. /\ projection[r].run = runs[r].revision /\ projection[r].control = control[r].revision
            /\ projection[r].status = runs[r].status
        BY <3>1 DEF Project
      <3> QED BY Zenon, <3>2 DEF ProjectionFollows
    <2> QED BY Zenon, <2>3, <2>4, <2>5 DEF ReplayVerified, EventsRecorded
  <1> QED BY <1>1, CompletedInit, CompletedNext, StoreInvariant, ProjectionCurrentAlways, PTL DEF StoreSpec

=============================================================================
