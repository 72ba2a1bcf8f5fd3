----------------------------- MODULE DomainFiles -----------------------------
(***************************************************************************)
(* The file-backed commerce and analytics handlers that the MCP server      *)
(* registers, and the fulfillment pipeline over them.                      *)
(*                                                                         *)
(* A handler loads records, decides, and saves records, each in a JSON file *)
(* of its own that std::fs::write truncates before it fills.  There is no   *)
(* lock: callers are MCP servers on one workspace, each file operation is   *)
(* one action and a caller may die between any two.                        *)
(*                                                                         *)
(* A record is its status; a catalog is its two fields.  A human-only       *)
(* operation reaches its handler in a human's context, or in an agent's     *)
(* with an approval the engine has verified: the MCP server only has the    *)
(* second, the fulfillment pipeline the first.                             *)
(***************************************************************************)
EXTENDS Naturals, Sequences

CONSTANTS
    Callers,             \* MCP servers and library users of one workspace
    Catalogs, Orders, Snapshots, Queries, Insights,  \* ids: each is given once
    Values,              \* what a field of a catalog may say
    Averages,            \* the queries that average their values
    Absent,              \* no such file
    Torn,                \* a truncated file: no reader can parse it
    MaxCrashes           \* bound: callers that die

ASSUME FilesAssumption == Averages \subseteq Queries /\ MaxCrashes \in Nat

Ids == Catalogs \cup Orders \cup Snapshots \cup Queries \cup Insights

VARIABLES
    file,    \* file[x]: Absent, Torn or the record of id x
    call,    \* call[c]: where caller c's handler stands
    given,   \* the ids that were given to a record
    source,  \* source[x]: the snapshot of a query, the query of an insight
    saved,   \* history: the statuses that were ever saved, <<id, status>>
    crashes

vars == <<file, call, given, source, saved, crashes>>

Idle == [op |-> "none", pc |-> "idle"]

Init ==
    /\ file = [x \in Ids |-> Absent]
    /\ call = [c \in Callers |-> Idle]
    /\ given = {}
    /\ source = [x \in Queries \cup Insights |-> Absent]
    /\ saved = {}
    /\ crashes = 0

Goto(c, next) == call' = [call EXCEPT ![c] = next]

Whole(x) == file[x] \notin {Absent, Torn}

\* A handler that writes, in order, and what it goes on with.
Writing(me, writes) == [me EXCEPT !.pc = "truncate", !.writes = writes]

Fresh(me, x, record) == Writing(me, <<<<x, record>>>>)

-----------------------------------------------------------------------------
(* Calls. *)

\* A validated call: its id, its input, what it has read so far and has yet to write.
Begin(op, x, input) ==
    [op |-> op, pc |-> "load", x |-> x, input |-> input, read |-> Absent, writes |-> <<>>]

\* A new record under a new id.
Create(c, op, x, record) ==
    /\ call[c] = Idle
    /\ x \notin given
    /\ given' = given \cup {x}
    /\ Goto(c, Fresh(Begin(op, x, Absent), x, record))
    /\ UNCHANGED <<file, source, saved, crashes>>

\* execute_catalog_create
CreateCatalog(c, k, name, description) ==
    Create(c, "catalog.create", k, [name |-> name, description |-> description])

\* execute_order_create
CreateOrder(c, o) == Create(c, "order.create", o, "pending")

\* The pipeline's first step.
StartPipeline(c, o) == Create(c, "pipeline", o, "pending")

\* execute_snapshot_create
CreateSnapshot(c, s) == Create(c, "snapshot.create", s, "stored")

\* execute_query_create: the snapshot has to load.
CreateQuery(c, q, s) ==
    /\ call[c] = Idle
    /\ q \notin given /\ Whole(s)
    /\ given' = given \cup {q}
    /\ source' = [source EXCEPT ![q] = s]
    /\ Goto(c, Fresh(Begin("query.create", q, Absent), q, "pending"))
    /\ UNCHANGED <<file, saved, crashes>>

\* The other operations begin with the load of their record.
Call(c, op, x, input) ==
    /\ call[c] = Idle
    /\ Goto(c, Begin(op, x, input))
    /\ UNCHANGED <<file, given, source, saved, crashes>>

Fail(c) == Goto(c, Idle) /\ UNCHANGED <<file, given, source, saved, crashes>>

-----------------------------------------------------------------------------
(* Deciding on what was loaded. *)

\* OrderStatus::can_transition_to
Allowed(from, to) == <<from, to>> \in {<<"pending", "approved">>, <<"approved", "fulfilled">>}

Updated(record, input) ==
    [name |-> IF input.name = Absent THEN record.name ELSE input.name,
     description |-> IF input.description = Absent THEN record.description
                     ELSE input.description]

\* execute_catalog_update
UpdateCatalog(c) ==
    LET me == call[c]
    IN  /\ me.pc = "load" /\ me.op = "catalog.update"
        /\ IF Whole(me.x)
           THEN /\ Goto(c, Fresh(me, me.x, Updated(file[me.x], me.input)))
                /\ UNCHANGED <<file, given, source, saved, crashes>>
           ELSE Fail(c)

\* execute_order_transition
Transition(c, to) ==
    LET me == call[c]
    IN  IF Whole(me.x) /\ Allowed(file[me.x], to)
        THEN Goto(c, Fresh(me, me.x, to)) /\ UNCHANGED <<file, given, source, saved, crashes>>
        ELSE Fail(c)

ApproveOrder(c) ==
    call[c].pc = "load" /\ call[c].op = "order.approve" /\ Transition(c, "approved")

FulfillOrder(c) ==
    call[c].pc = "load" /\ call[c].op = "order.fulfill" /\ Transition(c, "fulfilled")

\* aggregate: only an average of no values fails.
Aggregates(q, input) == q \in Averages => input = "values"

ExecuteWrites(me, i) == <<<<me.x, "executed">>, <<i, "pending">>>>

\* execute_query_execute: the query, its snapshot, then the decision.
LoadQuery(c) ==
    LET me == call[c]
    IN  /\ me.pc = "load" /\ me.op = "query.execute"
        /\ IF Whole(me.x)
           THEN /\ Goto(c, [me EXCEPT !.pc = "snapshot", !.read = file[me.x]])
                /\ UNCHANGED <<file, given, source, saved, crashes>>
           ELSE Fail(c)

ExecuteQuery(c) ==
    LET me == call[c]
    IN  /\ me.pc = "snapshot"
        /\ IF Whole(source[me.x]) /\ Aggregates(me.x, me.input) /\ me.read = "pending"
           THEN \E i \in Insights \ given :
                  /\ given' = given \cup {i}
                  /\ source' = [source EXCEPT ![i] = me.x]
                  /\ Goto(c, Writing(me, ExecuteWrites(me, i)))
                  /\ UNCHANGED <<file, saved, crashes>>
           ELSE Fail(c)

\* execute_insight_approve: an approval that the engine verified does not count.
ApproveInsight(c) ==
    LET me == call[c]
    IN  /\ me.pc = "load" /\ me.op = "insight.approve"
        /\ IF me.input = "human" /\ Whole(me.x) /\ file[me.x] = "pending"
           THEN /\ Goto(c, Fresh(me, me.x, "approved"))
                /\ UNCHANGED <<file, given, source, saved, crashes>>
           ELSE Fail(c)

-----------------------------------------------------------------------------
(* FulfillmentPipeline::fulfill: create, load_order, approve and fulfill through the
   engine, the pipeline moving a copy of the order it has loaded along. *)

LoadOrder(c) ==
    LET me == call[c]
    IN  /\ me.pc = "load_order"
        /\ IF Whole(me.x)
           THEN /\ Goto(c, [me EXCEPT !.pc = "approve", !.read = file[me.x]])
                /\ UNCHANGED <<file, given, source, saved, crashes>>
           ELSE Fail(c)

Approve(c) == call[c].pc = "approve" /\ Transition(c, "approved")

Fulfill(c) == call[c].pc = "fulfill" /\ Transition(c, "fulfilled")

\* Where the pipeline goes on once an execution has saved status `done`.
PipelineNext(me, done) ==
    IF done = "pending" THEN [me EXCEPT !.pc = "load_order", !.writes = <<>>]
    ELSE IF ~Allowed(me.read, done) THEN Idle
    ELSE [me EXCEPT !.pc = IF done = "approved" THEN "fulfill" ELSE "evidence",
                    !.read = done, !.writes = <<>>]

\* The manifest with the three proofs of the order the pipeline holds.
Evidence(c) == call[c].pc = "evidence" /\ Fail(c)

-----------------------------------------------------------------------------
(* save *)

\* std::fs::write truncates ...
Truncate(c) ==
    LET me == call[c]
    IN  /\ me.pc = "truncate"
        /\ file' = [file EXCEPT ![Head(me.writes)[1]] = Torn]
        /\ Goto(c, [me EXCEPT !.pc = "fill"])
        /\ UNCHANGED <<given, source, saved, crashes>>

\* ... and fills.  Where two callers truncated before either filled, the later
\* fill may leave the tail of a longer record behind it.
Filled(x, record) == IF file[x] = Torn THEN {record} ELSE {record, Torn}

Fill(c) ==
    LET me == call[c]
        x == Head(me.writes)[1]
    IN  /\ me.pc = "fill"
        /\ \E record \in Filled(x, Head(me.writes)[2]) : file' = [file EXCEPT ![x] = record]
        /\ saved' = saved \cup IF x \in Catalogs THEN {} ELSE {Head(me.writes)}
        /\ Goto(c, IF Len(me.writes) > 1 THEN Writing(me, Tail(me.writes))
                   ELSE IF me.op = "pipeline" THEN PipelineNext(me, Head(me.writes)[2])
                   ELSE Idle)
        /\ UNCHANGED <<given, source, crashes>>

Crash(c) ==
    /\ call[c] # Idle /\ crashes < MaxCrashes
    /\ crashes' = crashes + 1
    /\ Goto(c, Idle)
    /\ UNCHANGED <<file, given, source, saved>>

Inputs == [name : Values \cup {Absent}, description : Values \cup {Absent}]

Next ==
    \E c \in Callers :
        \/ \E k \in Catalogs, name, description \in Values : CreateCatalog(c, k, name, description)
        \/ \E k \in Catalogs, input \in Inputs : Call(c, "catalog.update", k, input)
        \/ \E o \in Orders : CreateOrder(c, o) \/ StartPipeline(c, o)
        \/ \E o \in Orders, op \in {"order.approve", "order.fulfill"} : Call(c, op, o, Absent)
        \/ \E s \in Snapshots : CreateSnapshot(c, s)
        \/ \E q \in Queries, s \in Snapshots : CreateQuery(c, q, s)
        \/ \E q \in Queries, input \in {"values", "none"} : Call(c, "query.execute", q, input)
        \/ \E i \in Insights, as \in {"human", "granted"} : Call(c, "insight.approve", i, as)
        \/ UpdateCatalog(c) \/ ApproveOrder(c) \/ FulfillOrder(c)
        \/ LoadQuery(c) \/ ExecuteQuery(c) \/ ApproveInsight(c)
        \/ LoadOrder(c) \/ Approve(c) \/ Fulfill(c) \/ Evidence(c)
        \/ Truncate(c) \/ Fill(c) \/ Crash(c)

Spec == Init /\ [][Next]_vars

-----------------------------------------------------------------------------
Statuses == {"pending", "approved", "fulfilled", "executed", "stored"}

TypeOK ==
    /\ \A x \in Catalogs : Whole(x) => file[x] \in [name : Values, description : Values]
    /\ \A x \in Ids \ Catalogs : Whole(x) => file[x] \in Statuses
    /\ saved \subseteq (Ids \ Catalogs) \X Statuses
    /\ given \subseteq Ids /\ crashes \in 0 .. MaxCrashes

\* However callers overlap or die, an order is saved as fulfilled only after it was
\* saved as approved, and as approved only after it was created
\* (OrderStatus::can_transition_to over whatever execute_order_transition loaded); and an
\* insight that can be read is of a query saved as executed: execute_query_execute saves
\* the query first, so that a crash between the two loses the insight and never leaves
\* one of a query that may be executed again.
SavedInOrder ==
    /\ \A o \in Orders : /\ <<o, "fulfilled">> \in saved => <<o, "approved">> \in saved
                         /\ <<o, "approved">> \in saved => <<o, "pending">> \in saved
    /\ \A i \in Insights : Whole(i) => <<source[i], "executed">> \in saved

\* A query is executed once and has one insight, even when a caller dies between the two
\* saves of execute_query_execute (test query_execute_rejects_executed_query).
OneInsight ==
    \A i, j \in Insights : (Whole(i) /\ Whole(j) /\ source[i] = source[j]) => i = j

\* An order that was fulfilled stays so: order.approve rejects it
\* (test order_approve_rejects_fulfilled_order).
FulfilledStands ==
    [][\A o \in Orders :
          (<<o, "fulfilled">> \in saved /\ Whole(o)') => file'[o] = "fulfilled"]_vars

\* An approved call is dispatched: where the engine has verified the approval of a
\* pending insight that can be read, the insight is approved.
GrantTakesEffect ==
    [][\A c \in Callers :
          (/\ call[c].op = "insight.approve" /\ call[c].pc = "load"
           /\ call[c].input = "granted"
           /\ Whole(call[c].x) /\ file[call[c].x] = "pending"
           /\ call'[c] # call[c] /\ crashes' = crashes) => call'[c] # Idle]_vars

=============================================================================
