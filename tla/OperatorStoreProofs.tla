------------------------ MODULE OperatorStoreProofs -------------------------
(***************************************************************************)
(* The operator store, proved for any runs, keys, ceilings, limit, lease   *)
(* term and deadline, and for reclaim both as the code has it and with the *)
(* released lease accepted: the budget stays within its limit, a run has   *)
(* one owner, a dispatch is exclusive, a forfeit is final and the projection *)
(* is current.                                                             *)
(***************************************************************************)
EXTENDS OperatorStoreTables

\* Time limits for the leaves that name no prover.
USE SMTT(30), ZenonT(30)

(* Commands. *)

\* A run with nothing open and nothing forfeited changes its status.
LEMMA IdleInv ==
  ASSUME SInv, NEW r \in Runs, \A n \in DOMAIN reservations[r] : ~IsOpen(Row(r, n)) /\ Row(r, n).state # "forfeited",
         NEW run \in Run, NEW dispatch \in Nat, dispatch = 0, NEW directive \in Nat,
         Record(r, run, dispatch, directive, Len(leases[r])),
         directives' \in [Runs -> Seq(Directive)], \A q \in Runs \ {r} : directives'[q] = directives[q],
         directive <= Len(directives'[r]), directive # 0 => run.status = "failed",
         UNCHANGED <<clock, steps, leases, reservations, budget, replays>>
  PROVE  SInv'
  <1>1. /\ StoreTypeOK /\ WithinLimit /\ Len(leases[r]) \in Nat /\ LeaseInv(r)
        /\ Len(reservations[r]) \in Nat /\ DOMAIN reservations[r] = 1..Len(reservations[r])
    BY ReadFacts DEF SInv, RunInv
  <1>2. /\ runs' \in [Runs -> Run] /\ control' \in [Runs -> Control] /\ projection' \in [Runs -> Projection]
        /\ runs'[r] = run /\ control'[r].dispatch = dispatch /\ control'[r].directive = directive
        /\ projection'[r] = Project(run, control'[r], Len(leases[r]))
        /\ \A q \in Runs \ {r} : runs'[q] = runs[q] /\ control'[q] = control[q] /\ projection'[q] = projection[q]
    BY <1>1, RecordFacts
  <1>3. StoreTypeOK' /\ WithinLimit'
    BY <1>1, <1>2 DEF StoreTypeOK, WithinLimit
  <1>4. LeaseInv(r)' /\ OpenInv(r)' /\ ForfeitInv(r)'
    BY Zenon, <1>1 DEF LeaseInv, OpenInv, ForfeitInv, Row, IsOpen
  <1>5. DispatchInv(r)'
    BY <1>1, <1>2 DEF DispatchInv, Row, IsOpen
  <1>6. DirectiveInv(r)'
    BY <1>2 DEF DirectiveInv
  <1>7. ProjectionInv(r)'
    BY <1>2 DEF ProjectionInv, Project, Attention
  <1>8. \A q \in Runs \ {r} : Untouched(q)
    BY <1>2 DEF Untouched
  <1>9. RunInv(r)'
    BY <1>4, <1>5, <1>6, <1>7 DEF RunInv
  <1> QED BY <1>3, <1>8, <1>9, OneRun

\* A run is cancelled between dispatches, its reserved row released with it.
LEMMA CancelRunInv == ASSUME SInv, NEW r \in Runs, NEW f, CancelRun(r, f) PROVE SInv'
  <1> DEFINE reserved == {n \in DOMAIN reservations[r] : reservations[r][n].state = "reserved"}
  <1>1. /\ StoreTypeOK /\ OpenInv(r) /\ DispatchInv(r) /\ DirectiveInv(r) /\ ForfeitInv(r)
        /\ Len(leases[r]) \in Nat /\ f = Len(leases[r])
        /\ control[r].directive \in Nat /\ control[r].dispatch \in Nat /\ Len(directives[r]) \in Nat
    BY ReadFacts, AuthorizedIsNewest DEF SInv, RunInv, CancelRun
  <1>2. /\ runs[r].status # "failed" /\ control[r].dispatch = 0
        /\ Record(r, RunTo(r, "cancelled"), control[r].dispatch, control[r].directive, f)
        /\ UNCHANGED <<clock, steps, leases, directives, replays>>
    BY DEF CancelRun, Cancellable, Terminal
  <1>3. RunTo(r, "cancelled") \in Run
    BY RunToType DEF RunStatuses
  <1>4. CASE reserved = {}
    <2>1. UNCHANGED <<budget, reservations>>
      BY Zenon, <1>4 DEF CancelRun
    <2>2. \A n \in DOMAIN reservations[r] : ~IsOpen(Row(r, n)) /\ Row(r, n).state # "forfeited"
      BY <1>1, <1>2, <1>4, ReadFacts DEF IsOpen, Row, DispatchInv, ForfeitInv
    <2>3. /\ directives' \in [Runs -> Seq(Directive)] /\ \A q \in Runs \ {r} : directives'[q] = directives[q]
          /\ control[r].directive = 0 /\ control[r].directive <= Len(directives'[r])
      BY <1>1, <1>2 DEF StoreTypeOK, DirectiveInv
    <2> QED BY <1>1, <1>2, <1>3, <2>1, <2>2, <2>3, IdleInv
  <1>5. CASE reserved # {}
    <2>1. PICK n \in reserved : Settle(r, n, "released", 0)
      BY Zenon, <1>5 DEF CancelRun
    <2>2. n \in DOMAIN reservations[r] /\ Row(r, n).state = "reserved"
      BY <2>1 DEF Row
    <2> HIDE DEF reserved
    <2> QED BY Zenon, <1>1, <1>2, <1>3, <2>1, <2>2, ReleaseReservedInv
  <1> QED BY <1>4, <1>5

\* A failed run with a directive has nothing open and nothing forfeited; it resumes.
LEMMA ResumeRunInv == ASSUME SInv, NEW r \in Runs, NEW f, ResumeRun(r, f) PROVE SInv'
  <1> DEFINE d == control[r].directive
             used == [source |-> directives[r][d].source, consumed |-> TRUE]
             none == 0
  <1>1. /\ StoreTypeOK /\ OpenInv(r) /\ DirectiveInv(r) /\ ForfeitInv(r) /\ f = Len(leases[r])
        /\ directives[r] \in Seq(Directive) /\ Len(directives[r]) \in Nat
    BY Zenon, ReadFacts, AuthorizedIsNewest DEF SInv, RunInv, ResumeRun
  <1>2. /\ runs[r].status = "failed" /\ d # 0 /\ Record(r, RunTo(r, "running"), none, none, f)
        /\ directives' = [directives EXCEPT ![r] = [@ EXCEPT ![d] = used]]
        /\ UNCHANGED <<clock, steps, leases, reservations, budget, replays>>
    BY DEF ResumeRun
  <1>3. RunTo(r, "running") \in Run
    BY RunToType DEF RunStatuses
  <1>4. \A n \in DOMAIN reservations[r] : ~IsOpen(Row(r, n)) /\ Row(r, n).state # "forfeited"
    BY <1>1, <1>2 DEF OpenInv, ForfeitInv
  <1>5. d \in DOMAIN directives[r]
    BY <1>1, <1>2 DEF DirectiveInv
  <1>6. directives[r][d] \in Directive
    BY <1>1, <1>5
  <1>7. used \in Directive
    BY <1>6 DEF Directive
  <1> HIDE DEF d, used
  <1>8. directives'[r] = [directives[r] EXCEPT ![d] = used] /\ \A q \in Runs \ {r} : directives'[q] = directives[q]
    BY <1>1, <1>2 DEF StoreTypeOK
  <1>9. directives'[r] \in Seq(Directive) /\ Len(directives'[r]) = Len(directives[r])
    BY <1>1, <1>5, <1>7, <1>8, PutFacts
  <1>10. directives' \in [Runs -> Seq(Directive)]
    BY <1>1, <1>2, <1>8, <1>9 DEF StoreTypeOK
  <1>11. none \in Nat /\ none = 0 /\ none <= Len(directives'[r])
    BY <1>1, <1>9
  <1> HIDE DEF none
  <1> QED BY ZenonT(40), <1>1, <1>2, <1>3, <1>4, <1>8, <1>10, <1>11, IdleInv

-----------------------------------------------------------------------------
(* Reservation and dispatch. *)

\* can_reserve keeps the account within its limit, and the new reservation is the only
\* open one, under the newest lease.
LEMMA ReserveInv ==
  ASSUME SInv, NEW r \in Runs, NEW f \in DOMAIN leases[r], NEW ceiling \in Ceilings,
         NEW d \in 0..Len(directives[r]), Reserve(r, f, ceiling, d)
  PROVE  SInv'
  <1> DEFINE row == ReservationRow(f, "reserved", ceiling, 0, d, 0)
             k == Len(reservations[r]) + 1
  <1>1. /\ StoreTypeOK /\ LeaseInv(r) /\ DirectiveInv(r) /\ f = Len(leases[r]) /\ f \in Nat /\ d \in Nat
        /\ runs[r] \in Run /\ control[r].dispatch \in Nat /\ control[r].directive \in Nat
        /\ leases[r] # <<>> /\ leases[r][f].state = "active"
        /\ reservations[r] \in Seq(Reservation) /\ Len(reservations[r]) \in Nat
        /\ DOMAIN reservations[r] = 1..Len(reservations[r])
    <2>1. f = Len(leases[r]) /\ leases[r][f].state = "active"
      BY Zenon, AuthorizedIsNewest DEF Reserve, Authorized
    <2> QED BY <2>1, ReadFacts DEF SInv, RunInv
  <1>2. /\ Open(r) = {} /\ control[r].dispatch = 0 /\ runs[r].status = "running" /\ CanReserve(ceiling)
        /\ reservations' = [reservations EXCEPT ![r] = Append(@, row)]
        /\ budget' = [reserved |-> budget.reserved + ceiling, committed |-> budget.committed]
        /\ Bump(r, f) /\ UNCHANGED <<clock, steps, leases, directives, replays>>
    BY Zenon DEF Reserve
  <1>3. row \in Reservation /\ row.state = "reserved" /\ row.fence = f
    BY Zenon, <1>1 DEF Reservation, ReservationRow
  <1> HIDE DEF row
  <1>4. reservations'[r] = Append(reservations[r], row) /\ \A q \in Runs \ {r} : reservations'[q] = reservations[q]
    BY <1>1, <1>2 DEF StoreTypeOK
  <1>5. /\ reservations'[r] \in Seq(Reservation) /\ Len(reservations'[r]) = k /\ DOMAIN reservations'[r] = 1..k
        /\ reservations'[r][k] = row /\ \A m \in DOMAIN reservations[r] : reservations'[r][m] = reservations[r][m]
    BY <1>1, <1>3, <1>4, AddFacts
  <1>6. reservations' \in [Runs -> Seq(Reservation)]
    BY Zenon, <1>1, <1>2, <1>4, <1>5 DEF StoreTypeOK
  <1>7. budget' \in [reserved : Nat, committed : Nat] /\ WithinLimit'
    <2>1. budget.reserved \in Nat /\ budget.committed \in Nat /\ ceiling \in Nat
      BY Zenon, <1>1, StoreAssumption DEF StoreTypeOK
    <2>2. budget'.reserved = budget.reserved + ceiling /\ budget'.committed = budget.committed
      BY <1>2
    <2>3. budget.reserved + ceiling + budget.committed <= Limit
      BY <1>2 DEF CanReserve
    <2>4. budget' \in [reserved : Nat, committed : Nat]
      BY <1>2, <2>1
    <2> QED BY <2>1, <2>2, <2>3, <2>4, StoreAssumption DEF WithinLimit
  <1>8. /\ runs' \in [Runs -> Run] /\ control' \in [Runs -> Control] /\ projection' \in [Runs -> Projection]
        /\ runs'[r] = runs[r]
        /\ control'[r].dispatch = control[r].dispatch /\ control'[r].directive = control[r].directive
        /\ projection'[r] = Project(runs[r], control'[r], f)
        /\ \A q \in Runs \ {r} : runs'[q] = runs[q] /\ control'[q] = control[q] /\ projection'[q] = projection[q]
    <2>1. runs[r] \in Run /\ control[r].dispatch \in Nat /\ control[r].directive \in Nat
      BY Zenon, ReadFacts
    <2>2. Record(r, runs[r], control[r].dispatch, control[r].directive, f)
      BY Zenon, <1>2 DEF Bump
    <2> QED BY <1>1, <2>1, <2>2, RecordFacts
  <1>9. \A m \in DOMAIN reservations[r] : ~IsOpen(Row(r, m)) /\ Row(r, m).state # "forfeited"
    BY Zenon, <1>2, RunningFacts DEF Open, Row
  <1>10. StoreTypeOK'
    BY ZenonT(40), <1>1, <1>2, <1>6, <1>7, <1>8 DEF StoreTypeOK
  <1>11. \A m \in DOMAIN reservations'[r] :
            \/ m = k /\ Row(r, m)' = row
            \/ m \in DOMAIN reservations[r] /\ Row(r, m)' = Row(r, m)
    <2>1. DOMAIN reservations'[r] = DOMAIN reservations[r] \cup {k}
      BY <1>1, <1>5
    <2> QED BY Zenon, <1>5, <2>1 DEF Row
  <1>12. LeaseInv(r)' /\ DirectiveInv(r)'
    BY Zenon, <1>1, <1>2, <1>8 DEF LeaseInv, DirectiveInv
  <1>13. OpenInv(r)'
    <2>1. \A m \in DOMAIN reservations'[r] : IsOpen(Row(r, m)') => m = k
      BY Zenon, <1>9, <1>11
    <2>2. /\ k = Len(reservations'[r]) /\ reservations'[r][k].fence = Len(leases'[r]) /\ leases'[r] # <<>>
          /\ leases'[r][Len(leases'[r])].state = "active" /\ runs'[r].status = "running"
      <3>1. leases'[r] = leases[r] /\ runs'[r].status = "running"
        BY Zenon, <1>2, <1>8
      <3> QED BY ZenonT(40), <1>1, <1>3, <1>5, <3>1
    <2> HIDE DEF k
    <2> QED BY Zenon, <2>1, <2>2 DEF OpenInv, Row
  <1>14. DispatchInv(r)'
    <2>0. \A m \in DOMAIN reservations'[r] : Row(r, m)'.state # "dispatching"
      BY <1>3, <1>9, <1>11 DEF IsOpen
    <2>1. \A m \in DOMAIN reservations'[r] : m # 0
      BY <1>1, <1>5
    <2>2. control'[r].dispatch = 0 /\ 0 \in 0..Len(reservations'[r])
      BY <1>1, <1>2, <1>5, <1>8
    <2> QED BY Zenon, <2>0, <2>1, <2>2 DEF DispatchInv
  <1>15. ForfeitInv(r)'
    <2>1. \A m \in DOMAIN reservations'[r] : Row(r, m)'.state # "forfeited"
      BY <1>3, <1>9, <1>11
    <2> QED BY Zenon, <2>1 DEF ForfeitInv
  <1>16. ProjectionInv(r)'
    BY ZenonT(40), <1>1, <1>2, <1>8 DEF ProjectionInv, Project, Attention
  <1>17. \A q \in Runs \ {r} : Untouched(q)
    BY Zenon, <1>2, <1>4, <1>8 DEF Untouched
  <1>18. RunInv(r)'
    BY <1>12, <1>13, <1>14, <1>15, <1>16 DEF RunInv
  <1> QED BY <1>7, <1>10, <1>17, <1>18, OneRun

\* begin_dispatch: the one reserved row becomes the active dispatch.
LEMMA BeginDispatchInv ==
  ASSUME SInv, NEW r \in Runs, NEW f \in DOMAIN leases[r], NEW n \in DOMAIN reservations[r], BeginDispatch(r, f, n)
  PROVE  SInv'
  <1> DEFINE old == reservations[r][n]
             row == ReservationRow(f, "dispatching", old.ceiling, 0, old.recovery, control[r].revision)
  <1>1. /\ StoreTypeOK /\ WithinLimit /\ LeaseInv(r) /\ OpenInv(r) /\ DirectiveInv(r)
        /\ f = Len(leases[r]) /\ f \in Nat /\ n \in Nat
        /\ runs[r] \in Run /\ control[r] \in Control /\ control[r].directive \in Nat
        /\ reservations[r] \in Seq(Reservation) /\ Len(reservations[r]) \in Nat
        /\ DOMAIN reservations[r] = 1..Len(reservations[r])
    <2>1. f = Len(leases[r])
      BY Zenon, AuthorizedIsNewest DEF BeginDispatch, BeginReady
    <2> QED BY <2>1, ReadFacts DEF SInv, RunInv
  <1>2. /\ Open(r) = {n} /\ runs[r].status = "running" /\ steps[r] = "running"
        /\ SetReplay(r, "claimed") /\ reservations' = [reservations EXCEPT ![r] = [@ EXCEPT ![n] = row]]
        /\ Record(r, runs[r], n, control[r].directive, f)
        /\ UNCHANGED <<clock, steps, leases, budget, directives>>
    BY DEF BeginDispatch, BeginReady, PutReservation
  <1>3. row \in Reservation /\ row.state = "dispatching" /\ row.fence = f
    <2>0. old \in Reservation
      BY <1>1
    <2>1. old.ceiling \in Ceilings /\ old.recovery \in Nat
      BY <2>0 DEF Reservation
    <2>2. control[r].revision \in Nat
      BY <1>1, StoreAssumption DEF Control
    <2> HIDE DEF old
    <2> QED BY <1>1, <2>1, <2>2 DEF Reservation, ReservationRow
  <1> HIDE DEF row
  <1>4. /\ reservations'[r] = [reservations[r] EXCEPT ![n] = row]
        /\ \A q \in Runs \ {r} : reservations'[q] = reservations[q]
    BY <1>1, <1>2 DEF StoreTypeOK
  <1>5. /\ reservations'[r] \in Seq(Reservation) /\ Len(reservations'[r]) = Len(reservations[r])
        /\ DOMAIN reservations'[r] = DOMAIN reservations[r] /\ reservations'[r][n] = row
        /\ \A m \in DOMAIN reservations[r] : m # n => reservations'[r][m] = reservations[r][m]
    BY <1>1, <1>3, <1>4, PutFacts
  <1>6. reservations' \in [Runs -> Seq(Reservation)]
    BY Zenon, <1>1, <1>2, <1>4, <1>5 DEF StoreTypeOK
  <1>7. /\ runs' \in [Runs -> Run] /\ control' \in [Runs -> Control] /\ projection' \in [Runs -> Projection]
        /\ runs'[r] = runs[r] /\ control'[r].dispatch = n /\ control'[r].directive = control[r].directive
        /\ projection'[r] = Project(runs[r], control'[r], f)
        /\ \A q \in Runs \ {r} : runs'[q] = runs[q] /\ control'[q] = control[q] /\ projection'[q] = projection[q]
    BY <1>1, <1>2, RecordFacts
  <1>8. replays' \in [Keys -> Replay]
    BY <1>2, SetReplayType
  <1>9. /\ IsOpen(Row(r, n)) /\ \A m \in DOMAIN reservations[r] : m # n => ~IsOpen(Row(r, m))
        /\ \A m \in DOMAIN reservations[r] : Row(r, m).state # "forfeited"
    BY <1>2, RunningFacts DEF Open, Row
  <1>10. StoreTypeOK' /\ WithinLimit'
    BY Zenon, <1>1, <1>2, <1>6, <1>7, <1>8 DEF StoreTypeOK, WithinLimit
  <1>11. LeaseInv(r)' /\ DirectiveInv(r)'
    BY ZenonT(40), <1>1, <1>2, <1>7 DEF LeaseInv, DirectiveInv
  <1>12. OpenInv(r)'
    <2>1. \A m \in DOMAIN reservations'[r] : IsOpen(Row(r, m)') => m = n
      BY Zenon, <1>5, <1>9 DEF Row, IsOpen
    <2>2. /\ n = Len(reservations'[r]) /\ Row(r, n)'.fence = Len(leases'[r]) /\ leases'[r] # <<>>
          /\ leases'[r][Len(leases'[r])].state = "active" /\ runs'[r].status = "running"
      BY Zenon, <1>1, <1>2, <1>3, <1>5, <1>7, <1>9 DEF OpenInv, Row
    <2> QED BY Zenon, <2>1, <2>2 DEF OpenInv
  <1>13. DispatchInv(r)'
    <2>1. \A m \in DOMAIN reservations'[r] : Row(r, m)'.state = "dispatching" <=> m = n
      BY Zenon, <1>3, <1>5, <1>9 DEF Row, IsOpen
    <2>2. control'[r].dispatch = n /\ n \in 0..Len(reservations'[r]) /\ steps'[r] = "running"
      BY <1>1, <1>2, <1>5, <1>7
    <2> QED BY Zenon, <2>1, <2>2 DEF DispatchInv
  <1>14. ForfeitInv(r)'
    <2>1. \A m \in DOMAIN reservations'[r] : Row(r, m)'.state # "forfeited"
      BY Zenon, <1>3, <1>5, <1>9 DEF Row
    <2> QED BY <2>1 DEF ForfeitInv
  <1>15. ProjectionInv(r)'
    BY Zenon, <1>1, <1>2, <1>7 DEF ProjectionInv, Project, Attention
  <1>16. \A q \in Runs \ {r} : Untouched(q)
    BY Zenon, <1>2, <1>4, <1>7 DEF Untouched
  <1>17. RunInv(r)'
    BY Zenon, <1>11, <1>12, <1>13, <1>14, <1>15 DEF RunInv
  <1> QED BY ZenonT(40), <1>10, <1>16, <1>17, OneRun

-----------------------------------------------------------------------------
(* The invariant. *)

\* A registered run has no lease, reservation or directive.
LEMMA StoreInitInv == StoreInit => SInv
  <1> SUFFICES ASSUME StoreInit PROVE SInv
    OBVIOUS
  <1> DEFINE row == [revision |-> 0, dispatch |-> 0, directive |-> 0]
  <1>1. row \in Control
    BY StoreAssumption DEF Control
  <1>2. runs \in [Runs -> Run] /\ steps \in [Runs -> StepStatuses] /\ control \in [Runs -> Control]
    BY <1>1 DEF StoreInit, Run, RunStatuses, StepStatuses
  <1>3. \A r \in Runs : runs[r] \in Run /\ control[r] \in Control
                        /\ control[r].dispatch = 0 /\ control[r].directive = 0
    BY Zenon, <1>2 DEF StoreInit
  <1>4. projection \in [Runs -> Projection]
    <2>1. ASSUME NEW r \in Runs PROVE Project(runs[r], control[r], 0) \in Projection
      BY <1>3 DEF Project, Projection, Attention, Run, RunStatuses, Control
    <2> QED BY Zenon, <2>1 DEF StoreInit
  <1>5. \A r \in Runs : leases[r] = <<>> /\ reservations[r] = <<>> /\ directives[r] = <<>>
    BY DEF StoreInit
  <1>6. StoreTypeOK
    <2>1. clock \in 0..MaxClock /\ budget \in [reserved : Nat, committed : Nat]
      BY StoreAssumption DEF StoreInit
    <2>2. leases \in [Runs -> Seq(Lease)] /\ reservations \in [Runs -> Seq(Reservation)]
          /\ directives \in [Runs -> Seq(Directive)]
      BY DEF StoreInit
    <2>3. replays \in [Keys -> Replay]
      BY DEF StoreInit, Replay
    <2> QED BY <1>2, <1>4, <2>1, <2>2, <2>3 DEF StoreTypeOK
  <1>7. WithinLimit
    BY StoreAssumption DEF StoreInit, WithinLimit
  <1>8. ASSUME NEW r \in Runs PROVE RunInv(r)
    <2>1. projection[r] = Project(runs[r], control[r], 0) /\ Len(leases[r]) = 0 /\ Len(reservations[r]) = 0
          /\ Len(directives[r]) = 0 /\ DOMAIN leases[r] = {} /\ DOMAIN reservations[r] = {}
      BY <1>5 DEF StoreInit
    <2>2. LeaseInv(r) /\ OpenInv(r) /\ ForfeitInv(r)
      BY Zenon, <2>1 DEF LeaseInv, OpenInv, ForfeitInv
    <2>3. DispatchInv(r) /\ DirectiveInv(r)
      BY <1>3, <2>1 DEF DispatchInv, DirectiveInv
    <2>4. ProjectionInv(r)
      BY <2>1 DEF ProjectionInv
    <2> QED BY <2>2, <2>3, <2>4 DEF RunInv
  <1> QED BY <1>6, <1>7, <1>8 DEF SInv

\* A step that leaves every run, its rows and the budget alone.
LEMMA NoRunInv ==
  ASSUME SInv, clock' \in 0..MaxClock, replays' \in [Keys -> Replay],
         UNCHANGED <<runs, steps, control, leases, reservations, budget, directives, projection>>
  PROVE  SInv'
  <1>1. StoreTypeOK' /\ WithinLimit'
    BY Zenon DEF SInv, StoreTypeOK, WithinLimit
  <1>2. \A r \in Runs : Untouched(r)
    BY DEF Untouched
  <1> QED BY <1>1, <1>2, UntouchedInv DEF SInv

\* Every transaction preserves the invariant.
LEMMA StoreNextInv == SInv /\ [StoreNext]_storeVars => SInv'
  <1> SUFFICES ASSUME SInv, [StoreNext]_storeVars PROVE SInv'
    BY Zenon
  <1>0. clock \in 0..MaxClock /\ replays \in [Keys -> Replay]
    BY DEF SInv, StoreTypeOK
  <1>1. CASE UNCHANGED storeVars
    BY <1>0, <1>1, NoRunInv DEF storeVars
  <1>2. ASSUME NEW r \in Runs, LeaseCall(r) PROVE SInv'
    BY <1>2, ClaimLeaseInv, RenewLeaseInv, ReleaseLeaseInv DEF LeaseCall
  <1>3. ASSUME NEW r \in Runs, BudgetCall(r) PROVE SInv'
    BY Zenon, <1>3, ReserveInv, ReleasePreDispatchInv DEF BudgetCall
  <1>4. ASSUME NEW r \in Runs, DispatchCall(r) PROVE SInv'
    BY Zenon, <1>4, BeginReleasesInv, BeginDispatchInv, CommitRuntimeInv, ForfeitRuntimeInv DEF DispatchCall
  <1>5. ASSUME NEW r \in Runs, Reclaim(r) PROVE SInv'
    BY Zenon, <1>5, ReclaimDispatchingInv, ReclaimReservedInv, ReclaimIdleInv DEF Reclaim
  <1>6. ASSUME NEW r \in Runs, Command(r) PROVE SInv'
    BY Zenon, <1>6, CancelRunInv, ResumeRunInv DEF Command
  <1>7. ASSUME NEW k \in Keys, ClaimUngoverned(k) \/ SettleUngoverned(k) PROVE SInv'
    <2>1. replays' \in [Keys -> Replay]
      BY <1>0, <1>7 DEF ClaimUngoverned, SettleUngoverned, Replay
    <2> QED BY Zenon, <1>0, <1>7, <2>1, NoRunInv DEF ClaimUngoverned, SettleUngoverned
  <1>8. CASE Tick
    <2>1. clock' \in 0..MaxClock
      BY <1>0, <1>8, StoreAssumption DEF Tick
    <2> QED BY <1>0, <1>8, <2>1, NoRunInv DEF Tick
  <1> QED BY <1>1, <1>2, <1>3, <1>4, <1>5, <1>6, <1>7, <1>8 DEF StoreNext

\* The invariant holds in every reachable state of the store.
THEOREM StoreInvariant == StoreSpec => []SInv
  BY StoreInitInv, StoreNextInv, PTL DEF StoreSpec

\* Every table keeps its type, the control revision within MAX_SAFE included.
THEOREM StoreTypeCorrect == StoreSpec => []StoreTypeOK
  <1>1. SInv => StoreTypeOK
    BY DEF SInv
  <1> QED BY <1>1, StoreInvariant, PTL

\* However runs race for the budget, what is reserved and committed stays within the
\* limit of the policy (can_reserve and the settlements).
THEOREM BudgetWithinLimit == StoreSpec => []WithinLimit
  <1>1. SInv => WithinLimit
    BY DEF SInv
  <1> QED BY <1>1, StoreInvariant, PTL

\* A run has one owner: the active lease is the newest, and the open reservation is
\* the newest, of that lease, of a running run.
THEOREM RunHasOneOwner == StoreSpec => []OneOwner
  <1>1. SInv => OneOwner
    BY Zenon DEF SInv, RunInv, LeaseInv, OpenInv, Row, OneOwner, NewestLeaseOnly, OpenReservationOwned, Open
  <1> QED BY <1>1, StoreInvariant, PTL

\* active_dispatch_reservation_id names exactly the dispatching reservation.
THEOREM DispatchExclusive == StoreSpec => []DispatchIsExclusive
  <1>1. SInv => DispatchIsExclusive
    BY Zenon DEF SInv, RunInv, DispatchInv, Row, DispatchIsExclusive
  <1> QED BY <1>1, StoreInvariant, PTL

\* The latest projection of a run is the projection of its rows.
THEOREM ProjectionCurrentAlways == StoreSpec => []ProjectionIsCurrent
  <1>1. SInv => ProjectionIsCurrent
    BY Zenon DEF SInv, RunInv, ProjectionInv, ProjectionIsCurrent
  <1> QED BY <1>1, StoreInvariant, PTL

\* An ambiguous dispatch ends its run: failed, with nothing to resume it and no later
\* reservation.
THEOREM ForfeitFinal == StoreSpec => []ForfeitIsFinal
  <1>1. SInv => ForfeitIsFinal
    BY Zenon DEF SInv, RunInv, ForfeitInv, Row, ForfeitIsFinal
  <1> QED BY <1>1, StoreInvariant, PTL
=============================================================================
