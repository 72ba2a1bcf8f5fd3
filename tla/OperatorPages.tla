---------------------------- MODULE OperatorPages ----------------------------
(***************************************************************************)
(* What the operator console reads: the attention, approval, command and   *)
(* audit pages of the SQLite store, walked page by page with an opaque     *)
(* cursor while the workers and the human keep writing, and the details of *)
(* a run, an approval and a command.                                       *)
(*                                                                         *)
(* Every page is one deferred transaction and so one action.  The first    *)
(* page fixes a high water; the cursor of ProcessCursorCodec carries it to *)
(* the next page together with the scope it was sealed for.  Sequence      *)
(* numbers are unique in every table that is paged, so the identifier that *)
(* breaks ties in the code never decides, and a row is its number.         *)
(* Writers are the transactions of OperatorStore and OperatorCommands,     *)
(* reduced to the rows that readers see.                                   *)
(***************************************************************************)
EXTENDS Integers, Sequences, FiniteSets

CONSTANTS
    Runs,            \* governed runs
    FilterRun,       \* the run that a filtered audit or command page asks for
    NoRun,           \* the run of an event that belongs to none
    NoCursor,        \* no continuation
    Granted,         \* capabilities of the human's session
    PageSizes,       \* page sizes the reader asks for
    CursorTerm,      \* how long a cursor stands (300 s)
    SessionTerm,     \* how long a session stands (900 s)
    ApprovalTerm,    \* how long an approval may be decided
    MaxClock,        \* bound: how far the trusted clock runs
    MaxProjections,  \* bound: projections written
    MaxAudit,        \* bound: audit events written
    MaxSessions      \* bound: sessions and instances opened

VARIABLES
    clock,        \* trusted UTC
    instance,     \* the server process, which holds the cursor key
    session,      \* the session the reader authenticates with
    runs,         \* agent_runs and operator_run_control
    projections,  \* operator_run_projections, by projection_sequence
    approvals,    \* approval requests and decisions
    audit,        \* operator_audit_events, by sequence
    receipts,     \* operator_command_receipts: the audit sequence each one names
    cursor,       \* the continuation the reader holds
    reading,      \* the pages it was given since the last first page
    view,         \* ghost: the rows as they were at the first page
    answer        \* what the reader was told last

tables == <<runs, projections, approvals, audit, receipts>>
reader == <<cursor, reading, view, answer>>
vars == <<clock, instance, session, tables, reader>>

Routes == {"approvals", "attention", "audit", "commands"}

\* append_current_projection: the run as it is, and its last approval while it waits.
Projection(r, run, asked) ==
    [run |-> r, revision |-> run.revision, status |-> run.status, control |-> run.control,
     tail |-> run.tail,
     approval |-> IF run.status = "waiting"
                  THEN CHOOSE a \in DOMAIN asked :
                           asked[a].run = r /\ \A b \in DOMAIN asked : asked[b].run = r => b <= a
                  ELSE 0]

Registered == [status |-> "running", revision |-> 1, control |-> 1, tail |-> 0]

Init ==
    /\ clock = 0
    /\ instance = 1
    /\ session = [id |-> 1, ends |-> SessionTerm]
    /\ runs = [r \in Runs |-> Registered]
    /\ projections \in {p \in [1..Cardinality(Runs) -> {Projection(r, Registered, <<>>) : r \in Runs}] :
                            \A i, j \in DOMAIN p : p[i] = p[j] => i = j}
    /\ approvals = <<>>
    /\ audit = <<>>
    /\ receipts = {}
    /\ cursor = NoCursor
    /\ reading = <<>>
    /\ view = {}
    /\ answer = "none"

-----------------------------------------------------------------------------
(* The writers. *)

\* One transaction about a run: its rows, a projection, an event, for a command a receipt.
Write(r, run, asked, receipt) ==
    /\ Len(projections) < MaxProjections
    /\ Len(audit) < MaxAudit
    /\ runs' = [runs EXCEPT ![r] = run]
    /\ approvals' = asked
    /\ projections' = Append(projections, Projection(r, run, asked))
    /\ audit' = Append(audit, [run |-> r])
    /\ receipts' = IF receipt THEN receipts \cup {Len(audit) + 1} ELSE receipts
    /\ UNCHANGED <<clock, instance, session, reader>>

Bumped(r) == [runs[r] EXCEPT !.control = @ + 1]

Moved(r, status) ==
    [runs[r] EXCEPT !.status = status, !.revision = @ + 1, !.control = @ + 1]

\* commit_runtime also appends a checkpoint.
Committed(r, status) == [Moved(r, status) EXCEPT !.tail = @ + 1]

\* A lease or budget transaction moves the control row, not the run.
TouchRun(r) ==
    /\ runs[r].status = "running"
    /\ Write(r, Bumped(r), approvals, FALSE)

\* commit_runtime with an approval.
AskApproval(r) ==
    /\ runs[r].status = "running"
    /\ Write(r, Committed(r, "waiting"),
             Append(approvals, [run |-> r, expires |-> clock + ApprovalTerm,
                                decision |-> "none"]), FALSE)

\* commit_runtime without one.
FinishRun(r) ==
    /\ runs[r].status = "running"
    /\ Write(r, Committed(r, "succeeded"), approvals, FALSE)

\* The human's decision, and the resume that takes it up.
DecideApproval(a) ==
    /\ runs[approvals[a].run].status = "waiting"
    /\ approvals[a].decision = "none"
    /\ clock < approvals[a].expires
    /\ Write(approvals[a].run, Bumped(approvals[a].run),
             [approvals EXCEPT ![a].decision = "approved"], TRUE)

ResumeRun(a) ==
    /\ runs[approvals[a].run].status = "waiting"
    /\ approvals[a].decision = "approved"
    /\ Write(approvals[a].run, Moved(approvals[a].run, "running"), approvals, TRUE)

CancelRun(r) ==
    /\ runs[r].status \in {"running", "waiting"}
    /\ Write(r, Moved(r, "cancelled"), approvals, TRUE)

\* A new session replaces the one before; the audit chain gets an event of no run.
ReplaceSession ==
    /\ session.id < MaxSessions
    /\ Len(audit) < MaxAudit
    /\ session' = [id |-> session.id + 1, ends |-> clock + SessionTerm]
    /\ audit' = Append(audit, [run |-> NoRun])
    /\ UNCHANGED <<clock, instance, runs, projections, approvals, receipts, reader>>

\* The server process restarts: a fresh cursor key, and the old session is gone.
Restart ==
    /\ instance < MaxSessions
    /\ session.id < MaxSessions
    /\ instance' = instance + 1
    /\ session' = [id |-> session.id + 1, ends |-> clock + SessionTerm]
    /\ UNCHANGED <<clock, tables, reader>>

Tick ==
    /\ clock < MaxClock
    /\ clock' = clock + 1
    /\ UNCHANGED <<instance, session, tables, reader>>

Writer ==
    \/ \E r \in Runs : TouchRun(r) \/ AskApproval(r) \/ FinishRun(r) \/ CancelRun(r)
    \/ \E a \in DOMAIN approvals : DecideApproval(a) \/ ResumeRun(a)

-----------------------------------------------------------------------------
(* Rows, scopes and cursors. *)

\* approval_state, at the time the page is read.
ApprovalState(a) ==
    CASE approvals[a].decision # "none" -> approvals[a].decision
      [] clock >= approvals[a].expires -> "expired"
      [] OTHER -> "pending"

Newest(S) == CHOOSE i \in S : \A j \in S : j <= i

\* The rows of each route up to a high water: all events, all receipts, the latest
\* projection of every run, the latest projection that names an approval.
AuditRows(high) == {i \in DOMAIN audit : i <= high}

CommandRows(high) == {i \in receipts : i <= high}

AttentionRows(high) ==
    {i \in DOMAIN projections :
         /\ i <= high
         /\ \A j \in DOMAIN projections :
                j <= high /\ projections[j].run = projections[i].run => j <= i}

ApprovalRows(high) ==
    {i \in DOMAIN projections :
         /\ i <= high
         /\ projections[i].approval # 0
         /\ \A j \in DOMAIN projections :
                j <= high /\ projections[j].approval = projections[i].approval => j <= i}

RowsUpTo(route, high) ==
    CASE route = "audit" -> AuditRows(high)
      [] route = "commands" -> CommandRows(high)
      [] route = "attention" -> AttentionRows(high)
      [] OTHER -> ApprovalRows(high)

\* COALESCE(MAX(sequence), 0) of the table that is paged.
HighWater(route) ==
    CASE route = "audit" -> Len(audit)
      [] route = "commands" -> IF receipts = {} THEN 0 ELSE Newest(receipts)
      [] OTHER -> Len(projections)

\* The query's filter; "some" asks for approval items, for pending approvals, or for one run.
Matches(route, filter, i) ==
    \/ filter = "all"
    \/ /\ route \in {"audit", "commands"}
       /\ audit[i].run = FilterRun
    \/ /\ route = "attention"
       /\ projections[i].status = "waiting"
    \/ /\ route = "approvals"
       /\ ApprovalState(projections[i].approval) = "pending"

\* validate_projection_run: an attention row is compared with the run as it is NOW.
RowValid(route, i) ==
    route = "attention" =>
        /\ projections[i].revision = runs[projections[i].run].revision
        /\ projections[i].status = runs[projections[i].run].status

\* OperatorReadScope::validate: what the route, and for attention the filter, requires.
Required(route, filter) ==
    CASE route = "approvals" -> {"approval_read"}
      [] route = "attention" -> IF filter = "some" THEN {"approval_read"}
                                ELSE {"approval_read", "run_read"}
      [] OTHER -> {"audit_read"}

ScopeValid(route, filter) == Required(route, filter) \subseteq Granted

\* A session that is over authenticates nothing.
Authenticated == clock < session.ends

Earlier(a, b) == IF a < b THEN a ELSE b

\* seal_page: the claims of the next page, valid no longer than the session.
Sealed(request, high, last) ==
    [request |-> request, session |-> session.id, instance |-> instance, high |-> high,
     last |-> last, issued |-> clock, expires |-> Earlier(clock + CursorTerm, session.ends)]

\* CursorClaims::validate.
ClaimsValid(claims) ==
    /\ claims.last <= claims.high
    /\ claims.expires > claims.issued
    /\ claims.expires - claims.issued <= CursorTerm

\* open_page: the MAC of this process's key, and CursorClaims::validate_for_scope.
CursorOpens(claims, request) ==
    /\ claims.instance = instance
    /\ ClaimsValid(claims)
    /\ claims.request = request
    /\ claims.session = session.id
    /\ claims.expires <= session.ends
    /\ claims.issued <= clock
    /\ clock < claims.expires

-----------------------------------------------------------------------------
(* The reader. *)

\* The n newest of a set of rows.
Top(S, n) == {i \in S : Cardinality({j \in S : j > i}) < n}

\* The rows a continuation has not passed yet.
Below(route, high, last) == {i \in RowsUpTo(route, high) : i < last}

\* page_size + 1 matching rows are sought; the rows on the way are decoded and validated.
Visited(request, rows) ==
    LET wanted == Top({i \in rows : Matches(request.route, request.filter, i)}, request.size + 1)
    IN  IF Cardinality(wanted) > request.size
        THEN {i \in rows : \E j \in wanted : j <= i}
        ELSE rows

\* One page: its items, and the cursor of the next page if more rows match.
Served(request, high, last) ==
    LET rows == Below(request.route, high, last)
        matching == {i \in rows : Matches(request.route, request.filter, i)}
        items == Top(matching, request.size)
    IN  [request |-> request, session |-> session.id, instance |-> instance, high |-> high,
         items |-> items,
         more |-> Cardinality(matching) > request.size,
         corrupt |-> \E i \in Visited(request, rows) : ~RowValid(request.route, i)]

Give(page, pages) ==
    IF page.corrupt
    THEN /\ answer' = "corrupt"
         /\ UNCHANGED <<cursor, reading>>
    ELSE /\ answer' = "page"
         /\ reading' = pages
         /\ cursor' = IF page.more
                      THEN Sealed(page.request, page.high,
                                  CHOOSE i \in page.items : \A j \in page.items : i <= j)
                      ELSE NoCursor

\* What a reader would see of a route if it saw everything at once.
Everything(route, filter) ==
    {i \in RowsUpTo(route, Len(projections) + Len(audit)) : Matches(route, filter, i)}

\* A query without a cursor; bound: a behaviour holds one reading, begun in any state.
FirstPage(request) ==
    LET page == Served(request, HighWater(request.route), HighWater(request.route) + 1) IN
    /\ reading = <<>>
    /\ Authenticated
    /\ ScopeValid(request.route, request.filter)
    /\ Give(page, <<page>>)
    /\ view' = Everything(request.route, request.filter)
    /\ UNCHANGED <<clock, instance, session, tables>>

\* Mutant of NextPage: the high water is read again on every page.
NextPageFromHere(request) ==
    /\ Authenticated
    /\ cursor # NoCursor
    /\ ScopeValid(request.route, request.filter)
    /\ CursorOpens(cursor, request)
    /\ LET page == Served(request, HighWater(request.route), cursor.last)
       IN  Give([page EXCEPT !.high = cursor.high], Append(reading, page))
    /\ UNCHANGED <<clock, instance, session, tables, view>>

\* A query with the cursor of the page before.
NextPage(request) ==
    /\ Authenticated
    /\ cursor # NoCursor
    /\ ScopeValid(request.route, request.filter)
    /\ CursorOpens(cursor, request)
    /\ LET page == Served(request, cursor.high, cursor.last)
       IN  Give(page, Append(reading, page))
    /\ UNCHANGED <<clock, instance, session, tables, view>>

\* OperatorCursorError::Stale; the reader keeps what it has.
StaleCursor(request) ==
    /\ Authenticated
    /\ cursor # NoCursor
    /\ ScopeValid(request.route, request.filter)
    /\ ~CursorOpens(cursor, request)
    /\ answer' = "stale"
    /\ UNCHANGED <<clock, instance, session, tables, cursor, reading, view>>

\* A detail is read outside a reading, on which it has no effect.
Shows(capability, shown) ==
    /\ reading = <<>>
    /\ Authenticated
    /\ capability \in Granted
    /\ answer' = shown
    /\ UNCHANGED <<clock, instance, session, tables, cursor, reading, view>>

\* load_run_detail reads the latest projection of the run, which must be that of the run
\* and control rows,
ProjectionOfRun(r) ==
    LET latest == projections[Newest({i \in DOMAIN projections : projections[i].run = r})] IN
    /\ latest.revision = runs[r].revision
    /\ latest.status = runs[r].status
    /\ latest.control = runs[r].control

\* of the last checkpoint,
ProjectionOfTail(r) ==
    projections[Newest({i \in DOMAIN projections : projections[i].run = r})].tail = runs[r].tail

\* and of an approval that is bound to the run.
ProjectionOfApproval(r) ==
    LET latest == projections[Newest({i \in DOMAIN projections : projections[i].run = r})] IN
    latest.approval # 0 =>
        latest.approval \in DOMAIN approvals /\ approvals[latest.approval].run = r

RunDetail(r) ==
    Shows("run_read", IF ProjectionOfRun(r) /\ ProjectionOfTail(r) /\ ProjectionOfApproval(r)
                      THEN "run" ELSE "corrupt_detail")

\* load_approval_detail: the latest projection that names the approval names its run.
ApprovalDetail(a) ==
    LET named == {i \in DOMAIN projections : projections[i].approval = a} IN
    Shows("approval_read", IF named = {} THEN "absent"
                           ELSE IF projections[Newest(named)].run = approvals[a].run
                                THEN ApprovalState(a) ELSE "corrupt_detail")

\* load_command_receipt: the receipt names an event of the chain.
CommandDetail(i) ==
    Shows("audit_read", IF i \in DOMAIN audit THEN "command" ELSE "corrupt_detail")

Request == [route : Routes, filter : {"all", "some"}, size : PageSizes]

Reader ==
    \/ \E q \in Request : FirstPage(q) \/ NextPage(q) \/ StaleCursor(q)
    \/ \E r \in Runs : RunDetail(r)
    \/ \E a \in DOMAIN approvals : ApprovalDetail(a)
    \/ \E i \in receipts : CommandDetail(i)

Next == Writer \/ ReplaceSession \/ Restart \/ Tick \/ Reader

Spec == Init /\ [][Next]_vars

-----------------------------------------------------------------------------
(* Properties. *)

Seen == UNION {reading[i].items : i \in DOMAIN reading}

TypeOK ==
    /\ clock \in 0..MaxClock
    /\ runs \in [Runs -> [status : {"running", "waiting", "succeeded", "cancelled"},
                          revision : Nat, control : Nat, tail : Nat]]
    /\ receipts \subseteq DOMAIN audit
    /\ \A i \in DOMAIN projections : projections[i].approval \in 0..Len(approvals)
    /\ cursor # NoCursor => reading # <<>>
    /\ answer \in {"none", "page", "stale", "corrupt", "run", "command", "pending", "approved",
                   "expired", "absent", "corrupt_detail"}

\* Contract 9.4, "neither skips nor duplicates within the snapshot": whatever is written
\* between two pages, the pages of one reading are the rows there were at its first page,
\* newest first, each once, and when no cursor is left none is missing.  Approvals that
\* are asked for by their state may leave the answer but not come into it.
ReadingIsASnapshot ==
    reading # <<>> =>
        LET stateful == reading[1].request.route = "approvals"
                        /\ reading[1].request.filter = "some"
            present == IF stateful THEN {i \in view : Matches("approvals", "some", i)} ELSE view
        IN  /\ Seen \subseteq view
            /\ \A p, q \in DOMAIN reading : p < q =>
                   \A i \in reading[p].items, j \in reading[q].items : j < i
            /\ \A i \in Seen, j \in present \ Seen : j < i
            /\ cursor = NoCursor => present \subseteq Seen

\* One reading is one query by one session of one process: no page of it is served for
\* another route, filter or page size, after the session was replaced, after a restart or
\* past the session's end.
ReadingIsOneQuery ==
    \A p, q \in DOMAIN reading :
        /\ reading[p].request = reading[q].request
        /\ reading[p].session = reading[q].session
        /\ reading[p].instance = reading[q].instance
        /\ reading[p].high = reading[q].high

\* A reader that asks for a first page, for audit, command or approval rows, or for the
\* detail of a run or an approval, is never told that the store is corrupt, however the
\* read falls between the writers' transactions.
CorruptOnlyOnContinuation ==
    /\ answer \notin {"corrupt_detail", "absent"}
    /\ answer = "corrupt" => cursor # NoCursor /\ cursor.request.route = "attention"

\* Contract 9.4 for run projections: "each page selects the latest version for each run
\* whose sequence is at or below the high water, so concurrent inserts and updates produce
\* neither skips nor duplicates within the snapshot": a page is a page, not an error.
AttentionSurvivesUpdates == answer # "corrupt"

==============================================================================
