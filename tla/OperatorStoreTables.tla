------------------------ MODULE OperatorStoreTables -------------------------
(***************************************************************************)
(* The inductive invariant of the operator store, what the writes of a     *)
(* transaction do to its tables, what a transaction knows of the state it  *)
(* reads, and the lease calls and settlements (the release of what was     *)
(* reserved, the commit barrier, the forfeits and reclaim), which preserve *)
(* the invariant.                                                          *)
(***************************************************************************)
EXTENDS OperatorStore, TLAPS

\* Time limits for the leaves that name no prover.
USE SMTT(30), ZenonT(30)

\* The newest lease of r is the active one, if any is.
LeaseInv(r) == \A f \in DOMAIN leases[r] : leases[r][f].state = "active" => f = Len(leases[r])

Row(r, n) == reservations[r][n]

\* An open reservation is the newest, of the newest lease, of a running run.
OpenInv(r) ==
    \A n \in DOMAIN reservations[r] : IsOpen(Row(r, n)) =>
        /\ n = Len(reservations[r])
        /\ Row(r, n).fence = Len(leases[r])
        /\ leases[r] # <<>>
        /\ leases[r][Len(leases[r])].state = "active"
        /\ runs[r].status = "running"

\* The active dispatch is the dispatching reservation, and its step is running.
DispatchInv(r) ==
    /\ control[r].dispatch \in 0..Len(reservations[r])
    /\ \A n \in DOMAIN reservations[r] :
           /\ Row(r, n).state = "dispatching" <=> control[r].dispatch = n
           /\ Row(r, n).state = "dispatching" => steps[r] = "running"

\* A directive that is pending exists, and its run has failed.
DirectiveInv(r) ==
    /\ control[r].directive \in 0..Len(directives[r])
    /\ control[r].directive # 0 => runs[r].status = "failed"

ForfeitInv(r) ==
    \A n \in DOMAIN reservations[r] : Row(r, n).state = "forfeited" =>
        /\ n = Len(reservations[r])
        /\ runs[r].status = "failed"
        /\ steps[r] = "failed"
        /\ control[r].directive = 0

ProjectionInv(r) == projection[r] = Project(runs[r], control[r], Len(leases[r]))

RunInv(r) ==
    LeaseInv(r) /\ OpenInv(r) /\ DispatchInv(r) /\ DirectiveInv(r) /\ ForfeitInv(r) /\ ProjectionInv(r)

\* Everything a transaction on one run needs of the state it finds.
SInv == StoreTypeOK /\ WithinLimit /\ \A r \in Runs : RunInv(r)

-----------------------------------------------------------------------------
(* What the writes do to the tables. *)

\* Replacing an element of a sequence.
LEMMA PutFacts ==
  ASSUME NEW S, NEW s \in Seq(S), NEW i \in DOMAIN s, NEW x \in S
  PROVE  LET t == [s EXCEPT ![i] = x] IN
         /\ t \in Seq(S) /\ Len(t) = Len(s) /\ DOMAIN t = DOMAIN s
         /\ t[i] = x /\ \A j \in DOMAIN s : j # i => t[j] = s[j]
  <1>1. i \in 1..Len(s) /\ DOMAIN s = 1..Len(s)
    OBVIOUS
  <1> DEFINE u == [j \in 1..Len(s) |-> IF j = i THEN x ELSE s[j]]
  <1>2. \A j \in 1..Len(s) : s[j] \in S
    BY <1>1
  <1>3. Len(s) \in Nat
    OBVIOUS
  <1>4. u \in Seq(S) /\ Len(u) = Len(s)
    BY <1>2, <1>3
  <1>5. [s EXCEPT ![i] = x] = u
    BY Zenon, <1>1
  <1> QED BY <1>1, <1>4, <1>5

\* Adding an element to a sequence.
LEMMA AddFacts ==
  ASSUME NEW S, NEW s \in Seq(S), NEW x \in S
  PROVE  LET t == Append(s, x) IN
         /\ t \in Seq(S) /\ Len(t) = Len(s) + 1 /\ DOMAIN t = 1..(Len(s) + 1)
         /\ t[Len(s) + 1] = x /\ \A j \in DOMAIN s : t[j] = s[j]
  OBVIOUS

\* Record writes one run row, one control row and one projection.
LEMMA RecordFacts ==
  ASSUME StoreTypeOK, NEW r \in Runs, NEW run \in Run, NEW dispatch \in Nat, NEW directive \in Nat,
         NEW fence \in Nat, Record(r, run, dispatch, directive, fence)
  PROVE  /\ runs' \in [Runs -> Run] /\ control' \in [Runs -> Control]
         /\ projection' \in [Runs -> Projection]
         /\ runs'[r] = run
         /\ control'[r].dispatch = dispatch /\ control'[r].directive = directive
         /\ projection'[r] = Project(run, control'[r], fence)
         /\ \A q \in Runs \ {r} : runs'[q] = runs[q] /\ control'[q] = control[q] /\ projection'[q] = projection[q]
  <1> DEFINE ctl == [revision |-> control[r].revision + 1, dispatch |-> dispatch, directive |-> directive]
  <1>1. ctl \in Control
    BY StoreAssumption DEF StoreTypeOK, Record, Control
  <1>2. Project(run, ctl, fence) \in Projection
    BY <1>1 DEF Project, Attention, Projection, Control, Run, RunStatuses
  <1>3. /\ runs' = [runs EXCEPT ![r] = run] /\ control' = [control EXCEPT ![r] = ctl]
        /\ projection' = [projection EXCEPT ![r] = Project(run, ctl, fence)]
    BY DEF Record
  <1>4. ctl.dispatch = dispatch /\ ctl.directive = directive
    OBVIOUS
  <1> HIDE DEF ctl
  <1> QED BY <1>1, <1>2, <1>3, <1>4 DEF StoreTypeOK

\* Settle closes one reservation and never adds to what the account holds.
LEMMA SettleFacts ==
  ASSUME StoreTypeOK, NEW r \in Runs, NEW n \in DOMAIN reservations[r],
         NEW state \in {"released", "committed", "forfeited"},
         NEW charged \in 0..reservations[r][n].ceiling, Settle(r, n, state, charged)
  PROVE  /\ reservations' \in [Runs -> Seq(Reservation)]
         /\ budget' \in [reserved : Nat, committed : Nat]
         /\ budget'.reserved + budget'.committed <= budget.reserved + budget.committed
         /\ Len(reservations'[r]) = Len(reservations[r]) /\ DOMAIN reservations'[r] = DOMAIN reservations[r]
         /\ reservations'[r][n] = ReservationRow(reservations[r][n].fence, state, reservations[r][n].ceiling,
                charged, reservations[r][n].recovery, reservations[r][n].permit)
         /\ \A m \in DOMAIN reservations[r] : m # n => reservations'[r][m] = reservations[r][m]
         /\ \A q \in Runs \ {r} : reservations'[q] = reservations[q]
  <1> DEFINE old == reservations[r][n]
             row == ReservationRow(old.fence, state, old.ceiling, charged, old.recovery, old.permit)
  <1>1. reservations[r] \in Seq(Reservation) /\ old \in Reservation
    BY DEF StoreTypeOK
  <1>2. /\ old.fence \in Nat /\ old.ceiling \in Ceilings /\ old.ceiling \in Nat
        /\ old.recovery \in Nat /\ old.permit \in Nat /\ charged \in Nat /\ charged <= old.ceiling
    <2>1. old.fence \in Nat /\ old.ceiling \in Ceilings /\ old.recovery \in Nat /\ old.permit \in Nat
      BY Zenon, <1>1 DEF Reservation
    <2>2. old.ceiling \in Nat
      BY Zenon, <2>1, StoreAssumption
    <2> QED BY <2>1, <2>2
  <1>3. row \in Reservation
    <2> HIDE DEF old
    <2> QED BY <1>2 DEF Reservation, ReservationRow
  <1>4. reservations' = [reservations EXCEPT ![r] = [@ EXCEPT ![n] = row]]
    BY DEF Settle, PutReservation
  <1>5. /\ budget.reserved >= old.ceiling
        /\ budget' = [reserved |-> budget.reserved - old.ceiling, committed |-> budget.committed + charged]
    BY DEF Settle
  <1>6. /\ budget' \in [reserved : Nat, committed : Nat]
        /\ budget'.reserved + budget'.committed <= budget.reserved + budget.committed
    <2>1. budget.reserved \in Nat /\ budget.committed \in Nat
      BY DEF StoreTypeOK
    <2> HIDE DEF old
    <2>2. budget.reserved - old.ceiling \in Nat /\ budget.committed + charged \in Nat
      BY <1>2, <1>5, <2>1
    <2>3. budget'.reserved = budget.reserved - old.ceiling /\ budget'.committed = budget.committed + charged
      BY <1>5
    <2> QED BY <1>2, <1>5, <2>1, <2>2, <2>3
  <1> HIDE DEF row
  <1>7. reservations'[r] = [reservations[r] EXCEPT ![n] = row] /\ DOMAIN reservations = Runs
    BY <1>4 DEF StoreTypeOK
  <1>8. /\ reservations'[r] \in Seq(Reservation) /\ Len(reservations'[r]) = Len(reservations[r])
        /\ DOMAIN reservations'[r] = DOMAIN reservations[r] /\ reservations'[r][n] = row
        /\ \A m \in DOMAIN reservations[r] : m # n => reservations'[r][m] = reservations[r][m]
    BY <1>1, <1>3, <1>7, PutFacts
  <1>9. \A q \in Runs \ {r} : reservations'[q] = reservations[q]
    BY <1>4, <1>7
  <1>10. reservations' \in [Runs -> Seq(Reservation)]
    BY <1>4, <1>7, <1>8 DEF StoreTypeOK
  <1> QED BY <1>6, <1>8, <1>9, <1>10 DEF row

\* New and released leases are leases.
LEMMA LeaseTypes ==
  ASSUME StoreTypeOK
  PROVE  NewLease \in Lease /\ \A lease \in Lease : Released(lease) \in Lease
  <1>1. clock + LeaseTerm \in Nat
    BY StoreAssumption DEF StoreTypeOK
  <1> QED BY <1>1 DEF NewLease, Released, Lease

\* A lease is rewritten in its place.
LEMMA LeasePutFacts ==
  ASSUME StoreTypeOK, NEW r \in Runs, NEW f \in DOMAIN leases[r], NEW x \in Lease, PutLease(r, f, x)
  PROVE  /\ leases' \in [Runs -> Seq(Lease)]
         /\ Len(leases'[r]) = Len(leases[r]) /\ DOMAIN leases'[r] = DOMAIN leases[r]
         /\ leases'[r][f] = x /\ \A g \in DOMAIN leases[r] : g # f => leases'[r][g] = leases[r][g]
         /\ \A q \in Runs \ {r} : leases'[q] = leases[q]
  <1>1. leases[r] \in Seq(Lease) /\ leases'[r] = [leases[r] EXCEPT ![f] = x]
    BY DEF StoreTypeOK, PutLease
  <1>2. /\ leases'[r] \in Seq(Lease) /\ Len(leases'[r]) = Len(leases[r]) /\ DOMAIN leases'[r] = DOMAIN leases[r]
        /\ leases'[r][f] = x /\ \A g \in DOMAIN leases[r] : g # f => leases'[r][g] = leases[r][g]
    BY <1>1, PutFacts
  <1> QED BY <1>2 DEF StoreTypeOK, PutLease

\* A lease is added, with the next fence.
LEMMA LeaseAddFacts ==
  ASSUME StoreTypeOK, NEW r \in Runs, NEW x \in Lease,
         leases' = [leases EXCEPT ![r] = Append(@, x)]
  PROVE  /\ leases' \in [Runs -> Seq(Lease)]
         /\ Len(leases'[r]) = Len(leases[r]) + 1 /\ DOMAIN leases'[r] = 1..(Len(leases[r]) + 1)
         /\ leases'[r][Len(leases[r]) + 1] = x
         /\ \A g \in DOMAIN leases[r] : leases'[r][g] = leases[r][g]
         /\ \A q \in Runs \ {r} : leases'[q] = leases[q]
  <1>1. leases[r] \in Seq(Lease) /\ leases'[r] = Append(leases[r], x)
    BY DEF StoreTypeOK
  <1>2. /\ leases'[r] \in Seq(Lease) /\ Len(leases'[r]) = Len(leases[r]) + 1
        /\ DOMAIN leases'[r] = 1..(Len(leases[r]) + 1) /\ leases'[r][Len(leases[r]) + 1] = x
        /\ \A g \in DOMAIN leases[r] : leases'[r][g] = leases[r][g]
    BY <1>1, AddFacts
  <1> QED BY <1>2 DEF StoreTypeOK

\* A lease is released and another added, in one transaction.
LEMMA LeaseReplaceFacts ==
  ASSUME StoreTypeOK, NEW r \in Runs, NEW f \in DOMAIN leases[r], ReplaceLease(r, f)
  PROVE  /\ leases' \in [Runs -> Seq(Lease)]
         /\ Len(leases'[r]) = Len(leases[r]) + 1 /\ DOMAIN leases'[r] = 1..(Len(leases[r]) + 1)
         /\ leases'[r][Len(leases[r]) + 1].state = "active"
         /\ leases'[r][f].state = "released"
         /\ \A g \in DOMAIN leases[r] : g # f => leases'[r][g] = leases[r][g]
         /\ \A q \in Runs \ {r} : leases'[q] = leases[q]
  <1> DEFINE mid == [leases[r] EXCEPT ![f] = Released(leases[r][f])]
  <1>1. leases[r] \in Seq(Lease) /\ leases[r][f] \in Lease
    BY DEF StoreTypeOK
  <1>2. Released(leases[r][f]) \in Lease /\ NewLease \in Lease
    BY <1>1, LeaseTypes
  <1>3. /\ mid \in Seq(Lease) /\ Len(mid) = Len(leases[r]) /\ DOMAIN mid = DOMAIN leases[r]
        /\ mid[f] = Released(leases[r][f]) /\ \A g \in DOMAIN leases[r] : g # f => mid[g] = leases[r][g]
    BY <1>1, <1>2, PutFacts
  <1>4. leases' = [leases EXCEPT ![r] = Append(mid, NewLease)] /\ DOMAIN leases = Runs
    BY DEF ReplaceLease, StoreTypeOK
  <1> HIDE DEF mid
  <1>5. leases'[r] = Append(mid, NewLease)
    BY <1>4
  <1>6. /\ leases'[r] \in Seq(Lease) /\ Len(leases'[r]) = Len(mid) + 1 /\ DOMAIN leases'[r] = 1..(Len(mid) + 1)
        /\ leases'[r][Len(mid) + 1] = NewLease /\ \A g \in DOMAIN mid : leases'[r][g] = mid[g]
    BY <1>2, <1>3, <1>5, AddFacts
  <1>7. NewLease.state = "active" /\ Released(leases[r][f]).state = "released"
    BY DEF NewLease, Released
  <1>8. leases' \in [Runs -> Seq(Lease)] /\ \A q \in Runs \ {r} : leases'[q] = leases[q]
    BY <1>4, <1>5, <1>6 DEF StoreTypeOK
  <1> QED BY <1>3, <1>6, <1>7, <1>8

-----------------------------------------------------------------------------
(* One run at a time. *)

\* What a transaction reads of a run.
LEMMA ReadFacts ==
  ASSUME SInv, NEW r \in Runs
  PROVE  /\ runs[r] \in Run /\ control[r] \in Control
         /\ control[r].dispatch \in Nat /\ control[r].directive \in Nat
         /\ leases[r] \in Seq(Lease) /\ Len(leases[r]) \in Nat /\ DOMAIN leases[r] = 1..Len(leases[r])
         /\ reservations[r] \in Seq(Reservation) /\ Len(reservations[r]) \in Nat
         /\ DOMAIN reservations[r] = 1..Len(reservations[r])
         /\ directives[r] \in Seq(Directive) /\ Len(directives[r]) \in Nat
         /\ RunInv(r)
  <1>1. /\ runs[r] \in Run /\ control[r] \in Control /\ leases[r] \in Seq(Lease)
        /\ reservations[r] \in Seq(Reservation) /\ directives[r] \in Seq(Directive) /\ RunInv(r)
    BY DEF SInv, StoreTypeOK
  <1>2. control[r].dispatch \in Nat /\ control[r].directive \in Nat
    BY <1>1 DEF Control
  <1> QED BY <1>1, <1>2

\* The rows of q are left alone.
Untouched(q) ==
    /\ runs'[q] = runs[q] /\ steps'[q] = steps[q] /\ control'[q] = control[q] /\ leases'[q] = leases[q]
    /\ reservations'[q] = reservations[q] /\ directives'[q] = directives[q] /\ projection'[q] = projection[q]

\* The invariant of a run reads nothing but the rows of that run.
LEMMA UntouchedInv == ASSUME NEW q \in Runs, RunInv(q), Untouched(q) PROVE RunInv(q)'
  BY DEF Untouched, RunInv, LeaseInv, OpenInv, DispatchInv, DirectiveInv, ForfeitInv, ProjectionInv, Row, IsOpen,
     Project, Attention

\* A transaction on r preserves the invariant if it does so for r.
LEMMA OneRun ==
  ASSUME SInv, NEW r \in Runs, StoreTypeOK', WithinLimit', RunInv(r)', \A q \in Runs \ {r} : Untouched(q)
  PROVE  SInv'
  BY UntouchedInv DEF SInv

\* A released lease is a lease.
LEMMA ReleasedFacts ==
  ASSUME SInv, NEW r \in Runs, NEW f \in DOMAIN leases[r]
  PROVE  StoreTypeOK /\ Released(leases[r][f]) \in Lease /\ Released(leases[r][f]).state = "released"
  <1>1. StoreTypeOK /\ leases[r][f] \in Lease
    BY DEF SInv, StoreTypeOK
  <1>2. Released(leases[r][f]) \in Lease
    BY <1>1, LeaseTypes
  <1> QED BY <1>1, <1>2 DEF Released

\* A charge the account can hold and the ceiling allows.
LEMMA ChargeRange ==
  ASSUME NEW charged \in 0..Limit, NEW ceiling \in Nat, charged <= ceiling
  PROVE  charged \in 0..ceiling
  <1>1. Limit \in Nat
    BY Zenon, StoreAssumption
  <1> QED BY <1>1

\* Nothing and everything are charges within the ceiling.
LEMMA CeilingFacts ==
  ASSUME SInv, NEW r \in Runs, NEW n \in DOMAIN reservations[r]
  PROVE  LET c == reservations[r][n].ceiling IN c \in Nat /\ 0 \in 0..c /\ c \in 0..c
  <1>1. reservations[r][n] \in Reservation
    BY DEF SInv, StoreTypeOK
  <1>2. reservations[r][n].ceiling \in Ceilings
    BY <1>1 DEF Reservation
  <1>3. reservations[r][n].ceiling \in Nat
    BY Zenon, <1>2, StoreAssumption
  <1> QED BY <1>3

\* The fence of a caller with authority is the newest one.
LEMMA AuthorizedIsNewest ==
  ASSUME SInv, NEW r \in Runs, NEW f, Authorized(r, f)
  PROVE  f = Len(leases[r])
  BY ReadFacts DEF Authorized, RunInv, LeaseInv

\* The run row of a transition.
LEMMA RunToType == ASSUME SInv, NEW r \in Runs, NEW status \in RunStatuses PROVE RunTo(r, status) \in Run
  <1>1. runs[r].revision + 1 \in Nat
    BY ReadFacts DEF Run
  <1> QED BY <1>1 DEF RunTo, Run

\* The replay table keeps its type.
LEMMA SetReplayType ==
  ASSUME SInv, NEW r \in Runs, NEW state \in {"claimed", "completed", "failed"}, SetReplay(r, state)
  PROVE  replays' \in [Keys -> Replay]
  <1>1. replays \in [Keys -> Replay]
    BY DEF SInv, StoreTypeOK
  <1>2. [state |-> state, run |-> r] \in Replay
    BY DEF Replay
  <1>3. CASE ReplayOf[r] = None
    BY <1>1, <1>3 DEF SetReplay
  <1>4. CASE ReplayOf[r] # None
    <2>1. ReplayOf[r] \in Keys
      BY <1>4, StoreAssumption
    <2> QED BY <1>1, <1>2, <1>4, <2>1 DEF SetReplay
  <1> QED BY <1>3, <1>4

\* What holds while a reservation is dispatching.
LEMMA DispatchingFacts ==
  ASSUME SInv, NEW r \in Runs, NEW n \in DOMAIN reservations[r], Row(r, n).state = "dispatching"
  PROVE  /\ IsOpen(Row(r, n)) /\ runs[r].status = "running" /\ steps[r] = "running"
         /\ control[r].directive = 0 /\ control[r].dispatch = n
         /\ reservations[r][n].ceiling \in Nat
  <1>1. /\ StoreTypeOK /\ OpenInv(r) /\ DispatchInv(r) /\ DirectiveInv(r)
    BY DEF SInv, RunInv
  <1>2. IsOpen(Row(r, n)) /\ runs[r].status = "running"
    BY <1>1 DEF OpenInv, IsOpen
  <1>3. reservations[r][n].ceiling \in Nat
    BY CeilingFacts
  <1> QED BY Zenon, <1>1, <1>2, <1>3 DEF DispatchInv, DirectiveInv

\* A running run has forfeited nothing.
LEMMA RunningFacts ==
  ASSUME SInv, NEW r \in Runs, runs[r].status = "running"
  PROVE  \A n \in DOMAIN reservations[r] : Row(r, n).state # "forfeited"
  BY ReadFacts DEF RunInv, ForfeitInv

-----------------------------------------------------------------------------
(* Leases. *)

\* A transaction that writes leases of r, bumps its control row and no more.
LEMMA LeaseOnlyInv ==
  ASSUME SInv, NEW r \in Runs, leases' \in [Runs -> Seq(Lease)],
         \A q \in Runs \ {r} : leases'[q] = leases[q],
         Bump(r, Len(leases'[r])), LeaseInv(r)', OpenInv(r)',
         UNCHANGED <<clock, steps, reservations, budget, directives, replays>>
  PROVE  SInv'
  <1>1. Len(leases'[r]) \in Nat /\ StoreTypeOK
    BY DEF SInv
  <1>2. /\ runs' \in [Runs -> Run] /\ control' \in [Runs -> Control] /\ projection' \in [Runs -> Projection]
        /\ runs'[r] = runs[r]
        /\ control'[r].dispatch = control[r].dispatch /\ control'[r].directive = control[r].directive
        /\ projection'[r] = Project(runs[r], control'[r], Len(leases'[r]))
        /\ \A q \in Runs \ {r} : runs'[q] = runs[q] /\ control'[q] = control[q] /\ projection'[q] = projection[q]
    BY <1>1, ReadFacts, RecordFacts DEF Bump
  <1>3. StoreTypeOK' /\ WithinLimit'
    BY ZenonT(40), <1>1, <1>2 DEF SInv, StoreTypeOK, WithinLimit
  <1>4. DispatchInv(r)' /\ DirectiveInv(r)' /\ ForfeitInv(r)'
    BY <1>2, ReadFacts DEF RunInv, DispatchInv, DirectiveInv, ForfeitInv, Row
  <1>5. ProjectionInv(r)'
    BY <1>2 DEF ProjectionInv, Project, Attention
  <1>6. \A q \in Runs \ {r} : Untouched(q)
    BY Zenon, <1>2 DEF Untouched
  <1>7. RunInv(r)'
    BY <1>4, <1>5 DEF RunInv
  <1> QED BY <1>3, <1>6, <1>7, OneRun

\* The active lease of r is the newest; when it is released in its place none is
\* active.
LEMMA ReleasedLeaseInv ==
  ASSUME SInv, NEW r \in Runs, NEW f \in DOMAIN leases[r], leases[r][f].state = "active",
         PutLease(r, f, Released(leases[r][f]))
  PROVE  /\ f = Len(leases[r]) /\ f \in Nat
         /\ leases' \in [Runs -> Seq(Lease)] /\ Len(leases'[r]) = f
         /\ \A q \in Runs \ {r} : leases'[q] = leases[q]
         /\ LeaseInv(r)'
  <1>1. StoreTypeOK /\ Released(leases[r][f]) \in Lease /\ Released(leases[r][f]).state = "released"
    BY ReleasedFacts
  <1>2. /\ leases' \in [Runs -> Seq(Lease)]
        /\ Len(leases'[r]) = Len(leases[r]) /\ DOMAIN leases'[r] = DOMAIN leases[r]
        /\ leases'[r][f].state = "released"
        /\ \A g \in DOMAIN leases[r] : g # f => leases'[r][g] = leases[r][g]
        /\ \A q \in Runs \ {r} : leases'[q] = leases[q]
    BY <1>1, LeasePutFacts
  <1>3. LeaseInv(r) /\ f \in Nat
    BY ReadFacts DEF RunInv
  <1>4. f = Len(leases[r])
    BY <1>3 DEF LeaseInv
  <1>5. LeaseInv(r)'
    BY <1>2, <1>3, <1>4 DEF LeaseInv
  <1> QED BY <1>2, <1>3, <1>4, <1>5

\* When it is replaced, the replacement is the newest.
LEMMA ReplacedLeaseInv ==
  ASSUME SInv, NEW r \in Runs, NEW f \in DOMAIN leases[r], leases[r][f].state = "active", ReplaceLease(r, f)
  PROVE  /\ leases' \in [Runs -> Seq(Lease)] /\ Len(leases'[r]) = Len(leases[r]) + 1
         /\ \A q \in Runs \ {r} : leases'[q] = leases[q]
         /\ LeaseInv(r)'
  <1>1. StoreTypeOK /\ LeaseInv(r) /\ DOMAIN leases[r] = 1..Len(leases[r]) /\ Len(leases[r]) \in Nat
    BY ReadFacts DEF SInv, RunInv
  <1>2. /\ leases' \in [Runs -> Seq(Lease)]
        /\ Len(leases'[r]) = Len(leases[r]) + 1 /\ DOMAIN leases'[r] = 1..(Len(leases[r]) + 1)
        /\ leases'[r][f].state = "released"
        /\ \A g \in DOMAIN leases[r] : g # f => leases'[r][g] = leases[r][g]
        /\ \A q \in Runs \ {r} : leases'[q] = leases[q]
    BY <1>1, LeaseReplaceFacts
  <1>3. LeaseInv(r)'
    BY <1>1, <1>2 DEF LeaseInv
  <1> QED BY <1>2, <1>3

\* Claim: no lease is active, so nothing is open, and the new lease is the newest.
LEMMA ClaimLeaseInv == ASSUME SInv, NEW r \in Runs, ClaimLease(r) PROVE SInv'
  <1>1. StoreTypeOK /\ NewLease \in Lease
    BY LeaseTypes DEF SInv
  <1>2. /\ leases' \in [Runs -> Seq(Lease)]
        /\ Len(leases'[r]) = Len(leases[r]) + 1 /\ DOMAIN leases'[r] = 1..(Len(leases[r]) + 1)
        /\ \A g \in DOMAIN leases[r] : leases'[r][g] = leases[r][g]
        /\ \A q \in Runs \ {r} : leases'[q] = leases[q]
    BY Zenon, <1>1, LeaseAddFacts DEF ClaimLease
  <1>3. LeaseInv(r)'
    BY <1>2, ReadFacts DEF LeaseInv, ClaimLease, NoActiveLease
  <1>4. \A n \in DOMAIN reservations[r] : ~IsOpen(Row(r, n))
    <2>1. OpenInv(r) /\ Len(leases[r]) \in Nat /\ DOMAIN leases[r] = 1..Len(leases[r]) /\ leases[r] \in Seq(Lease)
      BY Zenon, ReadFacts DEF RunInv
    <2>2. leases[r] # <<>> => Len(leases[r]) \in DOMAIN leases[r]
      BY <2>1
    <2> QED BY Zenon, <2>1, <2>2 DEF OpenInv, ClaimLease, NoActiveLease
  <1>5. OpenInv(r)'
    BY <1>4 DEF OpenInv, ClaimLease, Row, IsOpen
  <1> QED BY <1>2, <1>3, <1>5, LeaseOnlyInv DEF ClaimLease

\* Renewal keeps the lease active and its fence.
LEMMA RenewLeaseInv == ASSUME SInv, NEW r \in Runs, NEW f \in DOMAIN leases[r], RenewLease(r, f) PROVE SInv'
  <1>1. StoreTypeOK /\ NewLease \in Lease /\ NewLease.state = "active"
    BY Zenon, LeaseTypes DEF SInv, NewLease
  <1>2. /\ leases' \in [Runs -> Seq(Lease)]
        /\ Len(leases'[r]) = Len(leases[r]) /\ DOMAIN leases'[r] = DOMAIN leases[r]
        /\ leases'[r][f] = NewLease /\ \A g \in DOMAIN leases[r] : g # f => leases'[r][g] = leases[r][g]
        /\ \A q \in Runs \ {r} : leases'[q] = leases[q]
    BY <1>1, LeasePutFacts DEF RenewLease
  <1>3. f = Len(leases[r])
    BY Zenon, ReadFacts DEF RunInv, LeaseInv, RenewLease, Authorized
  <1>4. LeaseInv(r)'
    BY Zenon, <1>2, <1>3, ReadFacts DEF LeaseInv, RunInv
  <1>5. leases[r] # <<>> /\ leases'[r] # <<>>
    BY <1>2, ReadFacts
  <1>6. UNCHANGED reservations /\ runs'[r] = runs[r] /\ leases'[r][Len(leases'[r])].state = "active"
    BY Zenon, <1>1, <1>2, <1>3, ReadFacts DEF RenewLease, Bump, Record, SInv, StoreTypeOK
  <1>7. OpenInv(r)'
    BY Zenon, <1>2, <1>5, <1>6, ReadFacts DEF OpenInv, RunInv, Row, IsOpen
  <1> QED BY <1>2, <1>3, <1>4, <1>7, LeaseOnlyInv DEF RenewLease

\* Release is quiescent: nothing is open under the newest lease, so nothing is open.
LEMMA ReleaseLeaseInv == ASSUME SInv, NEW r \in Runs, NEW f \in DOMAIN leases[r], ReleaseLease(r, f) PROVE SInv'
  <1>1. /\ leases[r][f].state = "active" /\ PutLease(r, f, Released(leases[r][f])) /\ Quiescent(r, f)
        /\ Bump(r, f) /\ UNCHANGED <<clock, steps, reservations, budget, directives, replays>>
    BY Zenon DEF ReleaseLease, Authorized
  <1>2. /\ f = Len(leases[r]) /\ leases' \in [Runs -> Seq(Lease)] /\ Len(leases'[r]) = f
        /\ (\A q \in Runs \ {r} : leases'[q] = leases[q]) /\ LeaseInv(r)'
    BY Zenon, <1>1, ReleasedLeaseInv
  <1>3. \A n \in DOMAIN reservations[r] : ~IsOpen(Row(r, n))
    BY Zenon, <1>1, <1>2, ReadFacts DEF RunInv, OpenInv, Quiescent, Open, Row
  <1>4. OpenInv(r)'
    BY Zenon, <1>1, <1>3 DEF OpenInv, Row, IsOpen
  <1> QED BY Zenon, <1>1, <1>2, <1>4, LeaseOnlyInv

\* An idle run changes hands.
LEMMA ReclaimIdleInv == ASSUME SInv, NEW r \in Runs, NEW f \in DOMAIN leases[r], ReclaimIdle(r, f) PROVE SInv'
  <1>1. /\ leases[r][f].state = "active" /\ ReplaceLease(r, f) /\ Open(r) = {} /\ Bump(r, Len(leases[r]) + 1)
        /\ UNCHANGED <<clock, steps, reservations, budget, directives, replays>>
    BY Zenon DEF ReclaimIdle, ReclaimReady
  <1>2. /\ leases' \in [Runs -> Seq(Lease)] /\ Len(leases'[r]) = Len(leases[r]) + 1
        /\ (\A q \in Runs \ {r} : leases'[q] = leases[q]) /\ LeaseInv(r)'
    BY <1>1, ReplacedLeaseInv
  <1>3. OpenInv(r)'
    BY Zenon, <1>1 DEF OpenInv, Open, Row, IsOpen
  <1> QED BY <1>1, <1>2, <1>3, LeaseOnlyInv

-----------------------------------------------------------------------------
(* Settlements. *)

\* Settling the open reservation of r leaves none open, and a forfeited one only if
\* that is how it was settled.
LEMMA SettledFacts ==
  ASSUME SInv, NEW r \in Runs, NEW n \in DOMAIN reservations[r], IsOpen(Row(r, n)),
         NEW state \in {"released", "committed", "forfeited"},
         NEW charged \in 0..reservations[r][n].ceiling, Settle(r, n, state, charged)
  PROVE  /\ n = Len(reservations[r])
         /\ \A m \in DOMAIN reservations'[r] : ~IsOpen(Row(r, m)')
         /\ \A m \in DOMAIN reservations'[r] : Row(r, m)'.state = "forfeited" => m = n /\ state = "forfeited"
         /\ WithinLimit'
  <1>1. StoreTypeOK /\ WithinLimit /\ OpenInv(r) /\ ForfeitInv(r)
    BY DEF SInv, RunInv
  <1>2. n = Len(reservations[r])
    BY <1>1 DEF OpenInv
  <1>3. /\ DOMAIN reservations'[r] = DOMAIN reservations[r]
        /\ reservations'[r][n].state = state
        /\ \A m \in DOMAIN reservations[r] : m # n => reservations'[r][m] = reservations[r][m]
    <2>1. /\ DOMAIN reservations'[r] = DOMAIN reservations[r]
          /\ reservations'[r][n] = ReservationRow(reservations[r][n].fence, state, reservations[r][n].ceiling,
                 charged, reservations[r][n].recovery, reservations[r][n].permit)
          /\ \A m \in DOMAIN reservations[r] : m # n => reservations'[r][m] = reservations[r][m]
      BY ZenonT(40), <1>1, SettleFacts
    <2> QED BY <2>1 DEF ReservationRow
  <1>4. \A m \in DOMAIN reservations[r] : m # n => ~IsOpen(Row(r, m))
    BY Zenon, <1>1, <1>2 DEF OpenInv
  <1>5. \A m \in DOMAIN reservations[r] : m # n => Row(r, m).state # "forfeited"
    BY <1>1, <1>2 DEF ForfeitInv
  <1>6. WithinLimit'
    <2>1. /\ budget' \in [reserved : Nat, committed : Nat]
          /\ budget'.reserved + budget'.committed <= budget.reserved + budget.committed
      BY Zenon, <1>1, SettleFacts
    <2>2. budget.reserved \in Nat /\ budget.committed \in Nat /\ budget'.reserved \in Nat /\ budget'.committed \in Nat
      BY Zenon, <1>1, <2>1 DEF StoreTypeOK
    <2> QED BY <1>1, <2>1, <2>2, StoreAssumption DEF WithinLimit
  <1> QED BY Zenon, <1>2, <1>3, <1>4, <1>5, <1>6 DEF Row, IsOpen

\* The tables a settlement may write besides: well typed, and only the rows of r.
SettlementFrame(r) ==
    /\ leases' \in [Runs -> Seq(Lease)] /\ \A q \in Runs \ {r} : leases'[q] = leases[q]
    /\ steps' \in [Runs -> StepStatuses] /\ \A q \in Runs \ {r} : steps'[q] = steps[q]
    /\ directives' \in [Runs -> Seq(Directive)] /\ \A q \in Runs \ {r} : directives'[q] = directives[q]
    /\ replays' \in [Keys -> Replay] /\ clock' = clock
    /\ LeaseInv(r)'

\* What becomes of the run, the step and the directive.
SettlementOutcome(r, state, run, directive) ==
    /\ directive \in 0..Len(directives'[r])
    /\ directive # 0 => run.status = "failed"
    /\ state = "forfeited" => run.status = "failed" /\ steps'[r] = "failed" /\ directive = 0

\* A transaction that settles the open reservation of r and clears the dispatch.
LEMMA SettlementInv ==
  ASSUME SInv, NEW r \in Runs, NEW n \in DOMAIN reservations[r], IsOpen(Row(r, n)),
         NEW state \in {"released", "committed", "forfeited"},
         NEW charged \in 0..reservations[r][n].ceiling, Settle(r, n, state, charged),
         NEW run \in Run, NEW directive \in Nat, NEW fence \in Nat, fence = Len(leases'[r]),
         Record(r, run, 0, directive, fence),
         SettlementFrame(r), SettlementOutcome(r, state, run, directive)
  PROVE  SInv'
  <1>1. StoreTypeOK /\ 0 \in Nat /\ Len(reservations[r]) \in Nat
    BY ZenonT(40), ReadFacts DEF SInv
  <1>2. /\ runs' \in [Runs -> Run] /\ control' \in [Runs -> Control] /\ projection' \in [Runs -> Projection]
        /\ runs'[r] = run /\ control'[r].dispatch = 0 /\ control'[r].directive = directive
        /\ projection'[r] = Project(run, control'[r], fence)
        /\ \A q \in Runs \ {r} : runs'[q] = runs[q] /\ control'[q] = control[q] /\ projection'[q] = projection[q]
    <2> DEFINE none == 0
    <2>1. none \in Nat /\ Record(r, run, none, directive, fence)
      BY ZenonT(40)
    <2> HIDE DEF none
    <2>2. /\ runs' \in [Runs -> Run] /\ control' \in [Runs -> Control] /\ projection' \in [Runs -> Projection]
          /\ runs'[r] = run /\ control'[r].dispatch = none /\ control'[r].directive = directive
          /\ projection'[r] = Project(run, control'[r], fence)
          /\ \A q \in Runs \ {r} : runs'[q] = runs[q] /\ control'[q] = control[q] /\ projection'[q] = projection[q]
      BY <1>1, <2>1, RecordFacts
    <2> QED BY Zenon, <2>2 DEF none
  <1>3. /\ reservations' \in [Runs -> Seq(Reservation)] /\ budget' \in [reserved : Nat, committed : Nat]
        /\ Len(reservations'[r]) = Len(reservations[r])
        /\ DOMAIN reservations'[r] = DOMAIN reservations[r] /\ DOMAIN reservations[r] = 1..Len(reservations[r])
        /\ \A q \in Runs \ {r} : reservations'[q] = reservations[q]
    <2>1. DOMAIN reservations[r] = 1..Len(reservations[r])
      BY Zenon, ReadFacts
    <2> QED BY ZenonT(40), <1>1, <2>1, SettleFacts
  <1>4. /\ n = Len(reservations[r])
        /\ \A m \in DOMAIN reservations'[r] : ~IsOpen(Row(r, m)')
        /\ \A m \in DOMAIN reservations'[r] : Row(r, m)'.state = "forfeited" => m = n /\ state = "forfeited"
        /\ WithinLimit'
    BY Zenon, SettledFacts
  <1>5. StoreTypeOK'
    BY Zenon, <1>1, <1>2, <1>3 DEF StoreTypeOK, SettlementFrame
  <1>6. OpenInv(r)'
    BY Zenon, <1>4 DEF OpenInv
  <1>7. DispatchInv(r)'
    <2>1. \A m \in DOMAIN reservations'[r] : Row(r, m)'.state # "dispatching"
      BY <1>4, Zenon DEF IsOpen
    <2>2. \A m \in DOMAIN reservations'[r] : m # 0
      BY <1>1, <1>3
    <2>3. 0 \in 0..Len(reservations'[r])
      BY <1>1, <1>3
    <2> QED BY <1>2, <2>1, <2>2, <2>3, Zenon DEF DispatchInv
  <1>8. DirectiveInv(r)'
    BY ZenonT(40), <1>1, <1>2 DEF DirectiveInv, SettlementOutcome
  <1>9. ForfeitInv(r)'
    BY Zenon, <1>2, <1>3, <1>4 DEF ForfeitInv, SettlementOutcome
  <1>10. ProjectionInv(r)'
    BY Zenon, <1>2 DEF ProjectionInv, Project, Attention
  <1>11. \A q \in Runs \ {r} : Untouched(q)
    BY Zenon, <1>2, <1>3 DEF Untouched, SettlementFrame
  <1>12. RunInv(r)'
    BY Zenon, <1>6, <1>7, <1>8, <1>9, <1>10 DEF RunInv, SettlementFrame
  <1> QED BY Zenon, <1>4, <1>5, <1>11, <1>12, OneRun

\* A reserved row of the newest lease is released and the control row bumped.
LEMMA ReleaseReservedInv ==
  ASSUME SInv, NEW r \in Runs, NEW n \in DOMAIN reservations[r], Row(r, n).state = "reserved",
         NEW run \in Run,
         Settle(r, n, "released", 0),
         Record(r, run, control[r].dispatch, control[r].directive, Len(leases[r])),
         UNCHANGED <<clock, steps, leases, directives, replays>>
  PROVE  SInv'
  <1>1. /\ StoreTypeOK /\ Len(leases[r]) \in Nat /\ Len(reservations[r]) \in Nat /\ control[r].directive \in Nat
        /\ LeaseInv(r) /\ OpenInv(r) /\ DispatchInv(r) /\ DirectiveInv(r)
    BY Zenon, ReadFacts DEF SInv, RunInv
  <1>2. IsOpen(Row(r, n)) /\ n = Len(reservations[r]) /\ runs[r].status = "running"
    BY ZenonT(40), <1>1 DEF OpenInv, IsOpen
  <1>3. control[r].dispatch = 0
    BY <1>1, <1>2 DEF DispatchInv, OpenInv, IsOpen
  <1>4. control[r].directive = 0
    BY Zenon, <1>1, <1>2 DEF DirectiveInv
  <1>5. SettlementFrame(r)
    BY Zenon, <1>1 DEF SettlementFrame, StoreTypeOK, LeaseInv
  <1>6. SettlementOutcome(r, "released", run, control[r].directive)
    BY Zenon, <1>1, <1>4 DEF SettlementOutcome, DirectiveInv
  <1>7. 0 \in 0..reservations[r][n].ceiling
    BY Zenon, CeilingFacts
  <1>8. Record(r, run, 0, control[r].directive, Len(leases[r])) /\ Len(leases[r]) = Len(leases'[r])
    BY Zenon, <1>3
  <1> QED BY Zenon, <1>1, <1>2, <1>5, <1>6, <1>7, <1>8, SettlementInv

\* settle_budget_reservation releases a reserved row.
LEMMA ReleasePreDispatchInv ==
  ASSUME SInv, NEW r \in Runs, NEW f, NEW n \in DOMAIN reservations[r], ReleasePreDispatch(r, f, n)
  PROVE  SInv'
  <1>1. f = Len(leases[r]) /\ runs[r] \in Run
    BY Zenon, AuthorizedIsNewest, ReadFacts DEF ReleasePreDispatch
  <1> QED BY Zenon, <1>1, ReleaseReservedInv DEF ReleasePreDispatch, Bump, Row

\* begin_dispatch gives the reservation back.
LEMMA BeginReleasesInv ==
  ASSUME SInv, NEW r \in Runs, NEW f, NEW n \in DOMAIN reservations[r], BeginReleases(r, f, n)
  PROVE  SInv'
  <1>1. f = Len(leases[r]) /\ runs[r] \in Run
    BY Zenon, AuthorizedIsNewest, ReadFacts DEF BeginReleases, BeginReady
  <1> QED BY Zenon, <1>1, ReleaseReservedInv DEF BeginReleases, BeginReady, Bump, Row

\* The commit barrier: the dispatch is committed at what it used.
LEMMA CommitRuntimeInv ==
  ASSUME SInv, NEW r \in Runs, NEW f, NEW n \in DOMAIN reservations[r],
         NEW charged \in 0..reservations[r][n].ceiling, CommitRuntime(r, f, n, charged)
  PROVE  SInv'
  <1>1. /\ StoreTypeOK /\ LeaseInv(r) /\ DirectiveInv(r) /\ Len(leases[r]) \in Nat /\ control[r].directive \in Nat
        /\ runs[r] \in Run /\ f = Len(leases[r])
    BY Zenon, ReadFacts, AuthorizedIsNewest DEF SInv, RunInv, CommitRuntime, PermitStands
  <1>2. IsOpen(Row(r, n)) /\ control[r].directive = 0
    BY Zenon, DispatchingFacts DEF CommitRuntime, PermitStands, Row
  <1>3. RunAfterCommit(r) \in Run
    BY <1>1, RunToType DEF RunAfterCommit, RunStatuses
  <1>4. replays' \in [Keys -> Replay]
    BY Zenon, SetReplayType DEF CommitRuntime
  <1>5. SettlementFrame(r)
    BY Zenon, <1>1, <1>4 DEF SettlementFrame, StoreTypeOK, LeaseInv, CommitRuntime, StepStatuses
  <1>6. SettlementOutcome(r, "committed", RunAfterCommit(r), control[r].directive)
    BY ZenonT(40), <1>1, <1>2 DEF SettlementOutcome, DirectiveInv, CommitRuntime
  <1>7. /\ Settle(r, n, "committed", charged) /\ Record(r, RunAfterCommit(r), 0, control[r].directive, f)
        /\ f \in Nat /\ f = Len(leases'[r])
    BY Zenon, <1>1 DEF CommitRuntime
  <1> QED BY Zenon, <1>1, <1>2, <1>3, <1>5, <1>6, <1>7, SettlementInv

\* A forfeit, by the owner or by reclaim: run and step fail with no way to resume.
LEMMA ApplyForfeitInv ==
  ASSUME SInv, NEW r \in Runs, NEW n \in DOMAIN reservations[r], Row(r, n).state = "dispatching",
         NEW f \in Nat, f = Len(leases'[r]), ApplyForfeit(r, f, n),
         leases' \in [Runs -> Seq(Lease)], \A q \in Runs \ {r} : leases'[q] = leases[q], LeaseInv(r)',
         UNCHANGED <<clock, directives>>
  PROVE  SInv'
  <1>1. /\ StoreTypeOK /\ DirectiveInv(r) /\ control[r].directive \in Nat
    BY ZenonT(40), ReadFacts DEF SInv, RunInv
  <1>2. /\ IsOpen(Row(r, n)) /\ control[r].directive = 0 /\ runs[r].status = "running" /\ steps[r] = "running"
    BY Zenon, DispatchingFacts
  <1>3. reservations[r][n].ceiling \in 0..reservations[r][n].ceiling
    BY Zenon, CeilingFacts
  <1>4. ForfeitedRun(r) \in Run /\ ForfeitedRun(r).status = "failed" /\ ForfeitedStep(r) = "failed"
    <2>1. ForfeitedRun(r) = RunTo(r, "failed") /\ ForfeitedStep(r) = "failed"
      BY <1>2 DEF ForfeitedRun, ForfeitedStep, Terminal
    <2>2. RunTo(r, "failed") \in Run /\ RunTo(r, "failed").status = "failed"
      BY Zenon, RunToType DEF RunTo, RunStatuses
    <2> QED BY <2>1, <2>2
  <1>5. replays' \in [Keys -> Replay]
    BY Zenon, SetReplayType DEF ApplyForfeit
  <1>6. steps' = [steps EXCEPT ![r] = "failed"] /\ steps \in [Runs -> StepStatuses]
    BY <1>1, <1>4 DEF ApplyForfeit, StoreTypeOK
  <1>7. SettlementFrame(r)
    BY Zenon, <1>1, <1>5, <1>6 DEF SettlementFrame, StoreTypeOK, StepStatuses
  <1>8. SettlementOutcome(r, "forfeited", ForfeitedRun(r), control[r].directive)
    BY Zenon, <1>1, <1>2, <1>4, <1>6 DEF SettlementOutcome, DirectiveInv
  <1>9. /\ Settle(r, n, "forfeited", reservations[r][n].ceiling)
        /\ Record(r, ForfeitedRun(r), 0, control[r].directive, f)
    BY Zenon DEF ApplyForfeit
  <1> QED BY <1>1, <1>2, <1>3, <1>4, <1>7, <1>8, <1>9, SettlementInv, Zenon

\* The owner settles its failure.
LEMMA ForfeitRuntimeInv ==
  ASSUME SInv, NEW r \in Runs, NEW f, NEW n \in DOMAIN reservations[r], ForfeitRuntime(r, f, n)
  PROVE  SInv'
  <1>1. /\ StoreTypeOK /\ LeaseInv(r) /\ Len(leases[r]) \in Nat /\ f = Len(leases[r])
    BY Zenon, ReadFacts, AuthorizedIsNewest DEF SInv, RunInv, ForfeitRuntime, PermitStands
  <1>2. UNCHANGED leases /\ LeaseInv(r)' /\ leases' \in [Runs -> Seq(Lease)]
    BY Zenon, <1>1 DEF ForfeitRuntime, LeaseInv, StoreTypeOK
  <1> QED BY Zenon, <1>1, <1>2, ApplyForfeitInv DEF ForfeitRuntime, PermitStands, Row

\* Reclaim forfeits for an owner that is gone, and releases its lease.
LEMMA ReclaimDispatchingInv ==
  ASSUME SInv, NEW r \in Runs, NEW f \in DOMAIN leases[r], NEW n \in DOMAIN reservations[r],
         ReclaimDispatching(r, f, n)
  PROVE  SInv'
  <1>1. /\ leases[r][f].state = "active" /\ PutLease(r, f, Released(leases[r][f]))
        /\ Row(r, n).state = "dispatching" /\ ApplyForfeit(r, f, n) /\ UNCHANGED <<clock, directives>>
    BY Zenon DEF ReclaimDispatching, ReclaimReady, Row
  <1>2. /\ f \in Nat /\ f = Len(leases'[r]) /\ leases' \in [Runs -> Seq(Lease)]
        /\ (\A q \in Runs \ {r} : leases'[q] = leases[q]) /\ LeaseInv(r)'
    BY Zenon, <1>1, ReleasedLeaseInv
  <1> QED BY Zenon, <1>1, <1>2, ApplyForfeitInv

\* Reclaim of a reserved row: a directive is added and pending on the failed run.
LEMMA ReclaimReservedInv ==
  ASSUME SInv, NEW r \in Runs, NEW f \in DOMAIN leases[r], NEW n \in DOMAIN reservations[r],
         ReclaimReserved(r, f, n)
  PROVE  SInv'
  <1> DEFINE new == [source |-> n, consumed |-> FALSE]
             d == Len(directives[r]) + 1
             g == Len(leases[r]) + 1
  <1>1. /\ StoreTypeOK /\ leases[r][f].state = "active" /\ ReplaceLease(r, f) /\ Settle(r, n, "released", 0)
        /\ Record(r, RunTo(r, "failed"), 0, d, g) /\ UNCHANGED <<clock, steps, replays>>
        /\ directives' = [directives EXCEPT ![r] = Append(@, new)]
    BY Zenon DEF SInv, ReclaimReserved, ReclaimReady
  <1>2. /\ leases' \in [Runs -> Seq(Lease)] /\ Len(leases'[r]) = g
        /\ \A q \in Runs \ {r} : leases'[q] = leases[q]
    BY ZenonT(40), <1>1, ReplacedLeaseInv
  <1>3. g \in Nat /\ d \in Nat
    BY ReadFacts
  <1>4. LeaseInv(r)'
    BY ZenonT(40), <1>1, ReplacedLeaseInv
  <1>5. new \in Directive
    BY ReadFacts DEF Directive
  <1>6. /\ directives' \in [Runs -> Seq(Directive)] /\ Len(directives'[r]) = d
        /\ \A q \in Runs \ {r} : directives'[q] = directives[q]
    <2> HIDE DEF new
    <2>1. directives'[r] = Append(directives[r], new) /\ directives[r] \in Seq(Directive)
      BY Zenon, <1>1 DEF StoreTypeOK
    <2>2. directives'[r] \in Seq(Directive) /\ Len(directives'[r]) = d
      BY <1>5, <2>1, AddFacts
    <2> QED BY ZenonT(40), <1>1, <2>1, <2>2 DEF StoreTypeOK
  <1>7. SettlementFrame(r)
    BY <1>1, <1>2, <1>4, <1>6, Zenon DEF SettlementFrame, StoreTypeOK
  <1>8. RunTo(r, "failed") \in Run /\ RunTo(r, "failed").status = "failed"
    BY ZenonT(40), RunToType DEF RunTo, RunStatuses
  <1>9. SettlementOutcome(r, "released", RunTo(r, "failed"), d)
    BY <1>3, <1>6, <1>8 DEF SettlementOutcome
  <1>10. IsOpen(Row(r, n)) /\ 0 \in 0..reservations[r][n].ceiling
    BY Zenon, CeilingFacts DEF ReclaimReserved, IsOpen, Row
  <1> HIDE DEF d, g
  <1> QED BY ZenonT(40), <1>1, <1>2, <1>3, <1>7, <1>8, <1>9, <1>10, SettlementInv
=============================================================================
