--------------------------- MODULE DomainRequests ---------------------------
(***************************************************************************)
(* The commerce, workflow and analytics operations of the HTTP transport   *)
(* over SqliteStore.                                                       *)
(*                                                                         *)
(* Requests share the engine through a read lock and one SqliteStore whose *)
(* connection is behind a mutex: every call of a store function is atomic, *)
(* an operation, which makes several, is not.  A listing reads the ids,    *)
(* releases the mutex and loads row after row.  The context's timestamp is *)
(* read when the request arrives.  The server may die between two calls.   *)
(*                                                                         *)
(* The endpoint executes as an agent; human-only operations are reached by *)
(* a caller of the public AppState::engine that holds a human's context.   *)
(* "store" operations are calls of SqliteStore by such an embedding        *)
(* program, made the way its tests make them.                              *)
(*                                                                         *)
(* Names, descriptions, filters and quantities are left out: nothing here  *)
(* decides by them.  Registry schemas are taken to accept the inputs.      *)
(***************************************************************************)
EXTENDS Naturals, Sequences, FiniteSets, TLC

CONSTANTS
    Workers, Humans,      \* requests in flight; those with a human's context
    Operations,           \* the operations that arrive
    Catalogs, Products, Orders,
    Definitions, Runs, StepCount,
    Snapshots, Queries, Insights,
    None,
    MaxClock, MaxCrashes  \* bounds

StepIds == Runs \X (1 .. StepCount)

Ids == UNION {Catalogs, Products, Orders, Definitions, Runs, StepIds,
              Snapshots, Queries, Insights}

HumanOnly == {"order.approve", "workflow.approve", "analytics.insight.approve"}

VARIABLES
    now,
    rows,     \* rows[id]: None or the record stored under id
    used,     \* ids ever given: Uuid::now_v7 never repeats one
    deleted,  \* rows ever deleted
    stamps,   \* stamps[o]: the created_at of every order save that was accepted
    req,      \* req[w]: where request w stands
    last,     \* the last answer
    crashes

vars == <<now, rows, used, deleted, stamps, req, last, crashes>>

Idle == [op |-> "none", pc |-> "idle"]

Init ==
    /\ now = 1
    /\ rows = [id \in Ids |-> None]
    /\ used = {}
    /\ deleted = {}
    /\ stamps = [o \in Orders |-> {}]
    /\ req = [w \in Workers |-> Idle]
    /\ last = [op |-> "none", out |-> "none"]
    /\ crashes = 0

-----------------------------------------------------------------------------
(* The rows.  refs are a row's foreign keys. *)

CatalogRow(at) == [refs |-> {}, created |-> at, updated |-> at]

ProductRow(c) == [refs |-> {c}]

OrderRow(c, at) ==
    [refs |-> {c}, status |-> "pending", created |-> at, approved |-> None, fulfilled |-> None]

DefinitionRow == [refs |-> {}]

RunRow(d) == [refs |-> {d}, status |-> "in_progress", completed |-> None, approved |-> None]

StepRow(r) == [refs |-> {r}, status |-> "pending", completed |-> None]

SnapshotRow == [refs |-> {}]

QueryRow(s) == [refs |-> {s}]

InsightRow(q, s) == [refs |-> {q}, digest |-> s, status |-> "pending", approver |-> None]

Exists(id) == rows[id] # None

\* PRAGMA foreign_keys = ON
ReferencesExist(row) == \A id \in row.refs : Exists(id)

\* Mutant: the pragma is off.
Unenforced(gone) == TRUE

Unreferenced(gone) ==
    \A id \in Ids \ gone : Exists(id) => rows[id].refs \cap gone = {}

StepsOf(r) == {s \in StepIds : s[1] = r}

\* reject_stale_commerce_timestamp: which column each table compares
Stale(id, row) ==
    /\ id \in Catalogs \cup Orders /\ Exists(id)
    /\ IF id \in Catalogs THEN row.updated <= rows[id].updated
       ELSE row.created <= rows[id].created

\* ON CONFLICT DO UPDATE: an order keeps the created_at it was inserted with.
Merged(id, row) ==
    IF id \in Orders /\ Exists(id) THEN [row EXCEPT !.created = rows[id].created] ELSE row

-----------------------------------------------------------------------------
(* Where a request goes next. *)

Goto(w, next) == req' = [req EXCEPT ![w] = next]

Answer(w, out) == Goto(w, Idle) /\ last' = [op |-> req[w].op, out |-> out]

\* Save saves[1], then saves[2], ...
Saving(me, saves) == [me EXCEPT !.pc = "save", !.saves = saves]

Loading(me, id) == [me EXCEPT !.pc = "load", !.id = id]

Refused(me) == [me EXCEPT !.pc = "refused"]

\* Mutant: the list is read from its end.
LastPending(view) ==
    LET pending == {s \in DOMAIN view : view[s].status = "pending"}
    IN  CHOOSE s \in pending : \A t \in pending : s[2] >= t[2]

\* The pending step with the least ordinal, as list_workflow_steps orders them.
FirstPending(view) ==
    LET pending == {s \in DOMAIN view : view[s].status = "pending"}
    IN  CHOOSE s \in pending : \A t \in pending : s[2] <= t[2]

AllComplete(view) == \A s \in DOMAIN view : view[s].status = "completed"

-----------------------------------------------------------------------------
(* Each operation once its row is loaded. *)

UpdateCatalog(me, row) ==
    Saving(me, <<<<me.id, [row EXCEPT !.updated = me.at]>>>>)

ApproveOrder(me, row) ==
    IF row.status # "pending" THEN Refused(me)
    ELSE Saving(me, <<<<me.id, [row EXCEPT !.status = "approved", !.approved = me.at]>>>>)

FulfillOrder(me, row) ==
    IF row.status # "approved" THEN Refused(me)
    ELSE Saving(me, <<<<me.id, [row EXCEPT !.status = "fulfilled", !.fulfilled = me.at]>>>>)

\* An embedding program moves an order on and stamps created_at with its own now.
StoreOrder(me, row) ==
    LET moved == IF row.status = "pending" THEN ApproveOrder(me, row) ELSE FulfillOrder(me, row)
    IN  IF moved.pc = "refused" THEN moved
        ELSE Saving(me, <<<<me.id, [moved.saves[1][2] EXCEPT !.created = me.at]>>>>)

\* workflow.trigger: the run, then its steps
TriggerRun(me) ==
    Saving(me, [i \in 1 .. StepCount + 1 |->
                  IF i = 1 THEN <<me.new, RunRow(me.id)>>
                  ELSE <<<<me.new, i - 1>>, StepRow(me.new)>>])

ListSteps(me, row) == [me EXCEPT !.pc = "ids", !.row = row]

ApproveRun(me, row) == IF row.status = "approved" THEN Refused(me) ELSE ListSteps(me, row)

\* workflow.step.complete once more, where all_complete: completed_at on a fresh load
StampRun(me, row) == Saving(me, <<<<me.id, [row EXCEPT !.completed = me.at]>>>>)

CreateQuery(me) == Saving(me, <<<<me.new, QueryRow(me.id)>>>>)

ExecuteQuery(me, row) ==
    IF me.id \in Queries
    THEN Loading([me EXCEPT !.query = me.id], CHOOSE s \in row.refs : TRUE)
    ELSE Saving(me, <<<<me.new, InsightRow(me.query, me.id)>>>>)

ApproveInsight(me, row, w) ==
    IF row.status = "approved" THEN Refused(me)
    ELSE Saving(me, <<<<me.id, [row EXCEPT !.status = "approved", !.approver = w]>>>>)

AfterLoad(w, me, row) ==
    CASE me.op = "catalog.update"            -> UpdateCatalog(me, row)
      [] me.op = "order.approve"             -> ApproveOrder(me, row)
      [] me.op = "order.fulfill"             -> FulfillOrder(me, row)
      [] me.op = "store.order"               -> StoreOrder(me, row)
      [] me.op = "workflow.trigger"          -> TriggerRun(me)
      [] me.op = "workflow.step.complete"    -> IF me.listed THEN StampRun(me, row)
                                                ELSE ListSteps(me, row)
      [] me.op = "workflow.approve"          -> ApproveRun(me, row)
      [] me.op = "analytics.query.create"    -> CreateQuery(me)
      [] me.op = "analytics.query.execute"   -> ExecuteQuery(me, row)
      [] me.op = "analytics.insight.approve" -> ApproveInsight(me, row, w)

\* step.complete writes a clone of the step and then asks the list it loaded before.
AfterSave(me) ==
    IF Len(me.saves) > 1 THEN Saving(me, Tail(me.saves))
    ELSE IF /\ me.op = "workflow.step.complete" /\ ~me.listed
            /\ AllComplete(me.view)
    THEN Loading([me EXCEPT !.listed = TRUE], me.id)
    ELSE Idle

CompleteStep(me) ==
    IF AllComplete(me.view) THEN Refused(me)
    ELSE LET s == FirstPending(me.view)
         IN  Saving(me, <<<<s, [me.view[s] EXCEPT !.status = "completed",
                                                  !.completed = me.at]>>>>)

ApproveListed(me) ==
    IF AllComplete(me.view)
    THEN Saving(me, <<<<me.id, [me.row EXCEPT !.status = "approved", !.approved = me.at]>>>>)
    ELSE Refused(me)

\* Each operation that lists, once every row is loaded.
AfterList(me) ==
    CASE me.op = "workflow.step.complete" -> CompleteStep(me)
      [] me.op = "workflow.approve"       -> ApproveListed(me)
      [] OTHER                            -> Idle

-----------------------------------------------------------------------------
(* Arrivals. *)

Target ==
    [op \in {"catalog.update", "order.create", "store.product"} |-> Catalogs]
    @@ [op \in {"order.approve", "order.fulfill", "store.order"} |-> Orders]
    @@ ("workflow.trigger" :> Definitions)
    @@ [op \in {"workflow.step.complete", "workflow.approve"} |-> Runs]
    @@ ("analytics.query.create" :> Snapshots)
    @@ ("analytics.query.execute" :> Queries)
    @@ ("analytics.insight.approve" :> Insights)

New ==
    ("catalog.create" :> Catalogs) @@ ("store.product" :> Products)
    @@ ("order.create" :> Orders)
    @@ ("workflow.define" :> Definitions) @@ ("workflow.trigger" :> Runs)
    @@ ("analytics.snapshot.create" :> Snapshots)
    @@ ("analytics.query.create" :> Queries)
    @@ ("analytics.query.execute" :> Insights)

CreateCatalog(new, at) == <<<<new, CatalogRow(at)>>>>

CreateOrder(id, new, at) == <<<<new, OrderRow(id, at)>>>>

DefineWorkflow(new) == <<<<new, DefinitionRow>>>>

CreateSnapshot(new) == <<<<new, SnapshotRow>>>>

\* Operations that save what they create without loading anything.
Created(op, id, new, at) ==
    CASE op = "catalog.create"            -> CreateCatalog(new, at)
      [] op = "store.product"             -> <<<<new, ProductRow(id)>>>>
      [] op = "order.create"              -> CreateOrder(id, new, at)
      [] op = "workflow.define"           -> DefineWorkflow(new)
      [] op = "analytics.snapshot.create" -> CreateSnapshot(new)
      [] OTHER                            -> <<>>

Listings == "list.orders" :> Orders @@ "list.runs" :> Runs @@ "list.queries" :> Queries

Request(op, pc, id, new) ==
    [op |-> op, pc |-> pc, at |-> now, id |-> id, new |-> new, row |-> None,
     saves |-> Created(op, id, new, now), view |-> <<>>, todo |-> {}, query |-> None,
     listed |-> FALSE]

Arrive(w, op) ==
    /\ req[w].pc = "idle" /\ op \in Operations \cap (DOMAIN Target \cup DOMAIN New)
    /\ op \in HumanOnly => w \in Humans
    /\ \E id \in IF op \in DOMAIN Target THEN Target[op] \cap used ELSE {None},
          new \in IF op \in DOMAIN New THEN New[op] \ used ELSE {None} :
          /\ Goto(w, Request(op, IF Created(op, id, new, now) = <<>> THEN "load" ELSE "save",
                             id, new))
          /\ used' = used \cup ({new} \ {None})
    /\ UNCHANGED <<now, rows, stamps, last, deleted, crashes>>

ArriveList(w, op) ==
    /\ req[w].pc = "idle" /\ op \in Operations \cap DOMAIN Listings
    /\ Goto(w, Request(op, "ids", None, None))
    /\ UNCHANGED <<now, rows, used, stamps, last, deleted, crashes>>

-----------------------------------------------------------------------------
(* Store calls. *)

\* Where the handler stands after a call, or the answer it gives.
Proceed(w, next) ==
    CASE next.pc = "refused" -> Answer(w, "refused")
      [] next = Idle         -> Answer(w, "done")
      [] OTHER               -> Goto(w, next) /\ UNCHANGED last

Load(w) ==
    LET me == req[w]
    IN  /\ me.pc = "load"
        /\ IF Exists(me.id) THEN Proceed(w, AfterLoad(w, me, rows[me.id]))
           ELSE Answer(w, "not_found")
        /\ UNCHANGED <<now, rows, used, stamps, deleted, crashes>>

ListIds(w) ==
    LET me == req[w]
        scope == IF me.op \in DOMAIN Listings THEN Listings[me.op] ELSE StepsOf(me.id)
    IN  /\ me.pc = "ids"
        /\ Goto(w, [me EXCEPT !.pc = "rows", !.todo = {id \in scope : Exists(id)}])
        /\ UNCHANGED <<now, rows, used, stamps, last, deleted, crashes>>

\* Steps by ordinal; elsewhere the order decides nothing.
NextListed(todo) == {id \in todo : id \in StepIds => \A t \in todo : id[2] <= t[2]}

LoadListed(w) ==
    LET me == req[w]
    IN  /\ me.pc = "rows"
        /\ \/ /\ me.todo = {}
              /\ Proceed(w, AfterList(me))
           \/ \E id \in NextListed(me.todo) :
                IF Exists(id)
                THEN /\ Goto(w, [me EXCEPT !.todo = @ \ {id}, !.view = (id :> rows[id]) @@ @])
                     /\ UNCHANGED last
                ELSE Answer(w, "not_found")
        /\ UNCHANGED <<now, rows, used, stamps, deleted, crashes>>

Save(w) ==
    LET me == req[w]
        id == me.saves[1][1]
        row == me.saves[1][2]
    IN  /\ me.pc = "save"
        /\ CASE Stale(id, row)         -> Answer(w, "stale") /\ UNCHANGED <<rows, stamps>>
             [] ~ ReferencesExist(row) -> Answer(w, "orphan") /\ UNCHANGED <<rows, stamps>>
             [] OTHER ->
                  /\ rows' = [rows EXCEPT ![id] = Merged(id, row)]
                  /\ stamps' = IF id \in Orders
                               THEN [stamps EXCEPT ![id] = @ \cup {row.created}]
                               ELSE stamps
                  /\ Proceed(w, AfterSave(me))
        /\ UNCHANGED <<now, used, deleted, crashes>>

CatalogAndProducts(c) == {c} \cup {p \in Products : Exists(p) /\ c \in rows[p].refs}

RunAndSteps(r) == {r} \cup StepsOf(r)

RunsOf(d) == {r \in Runs : Exists(r) /\ d \in rows[r].refs}

\* What each delete function removes in its transaction.
Cascade(id) ==
    CASE id \in Catalogs    -> CatalogAndProducts(id)
      [] id \in Runs        -> RunAndSteps(id)
      [] id \in Definitions -> {id} \cup UNION {RunAndSteps(r) : r \in RunsOf(id)}
      [] OTHER              -> {id}

Delete(id) ==
    /\ "store.delete" \in Operations /\ Exists(id)
    /\ Unreferenced(Cascade(id))
    /\ rows' = [i \in Ids |-> IF i \in Cascade(id) THEN None ELSE rows[i]]
    /\ deleted' = deleted \cup {i \in Cascade(id) : Exists(i)}
    /\ UNCHANGED <<now, used, stamps, req, last, crashes>>

Tick ==
    /\ now < MaxClock /\ now' = now + 1
    /\ UNCHANGED <<rows, used, stamps, req, last, deleted, crashes>>

Crash ==
    /\ crashes < MaxCrashes /\ crashes' = crashes + 1
    /\ req' = [w \in Workers |-> Idle]
    /\ UNCHANGED <<now, rows, used, deleted, stamps, last>>

Next ==
    \/ Tick \/ Crash
    \/ \E id \in Ids : Delete(id)
    \/ \E w \in Workers :
         \/ \E op \in Operations : Arrive(w, op) \/ ArriveList(w, op)
         \/ Load(w) \/ ListIds(w) \/ LoadListed(w) \/ Save(w)

Spec == Init /\ [][Next]_vars

-----------------------------------------------------------------------------

\* Type: rows carry references to ids, answers are the ones an operation gives.
TypeOK ==
    /\ now \in 1 .. MaxClock /\ crashes \in 0 .. MaxCrashes
    /\ \A id \in Ids : rows[id] = None \/ (id \in used \cup StepIds /\ rows[id].refs \subseteq Ids)
    /\ \A w \in Workers : req[w].pc \in {"idle", "load", "ids", "rows", "save"}
    /\ last.out \in {"none", "done", "refused", "not_found", "stale", "orphan"}

\* No row outlives the rows it refers to, whatever was deleted between a handler's
\* load of the parent and its save of the child.
RowsHaveParents == \A id \in Ids : Exists(id) => ReferencesExist(rows[id])

\* A fulfilled order carries the approval it was fulfilled on.
FulfilledWasApproved ==
    \A o \in Orders :
        Exists(o) /\ rows[o].status = "fulfilled" => rows[o].approved # None

\* Steps complete by ordinal: no step is completed while an earlier one of its run is
\* pending or missing, under overlapping completions of stale lists and while the
\* trigger is still saving steps.
StepsCompleteInOrder ==
    \A s \in StepIds :
        Exists(s) /\ rows[s].status = "completed" =>
            \A i \in 1 .. (s[2] - 1) :
                Exists(<<s[1], i>>) /\ rows[<<s[1], i>>].status = "completed"

\* "replaces only with newer timestamp": an order is replaced only by a record newer
\* than every one accepted before it.
OrderReplacedOnlyByNewer ==
    [][\A o \in Orders :
         stamps'[o] # stamps[o] =>
             \A t \in stamps[o], u \in stamps'[o] \ stamps[o] : u > t]_vars

\* With nobody else at work, a human's approval of a pending order is stored.
ApprovalTakesEffect == ~ (last.op = "order.approve" /\ last.out = "stale")

\* "requires completed steps": an approved run has all of its steps, completed.
ApprovedRunIsComplete ==
    \A r \in Runs :
        Exists(r) /\ rows[r].status = "approved" =>
            \A s \in StepsOf(r) : Exists(s) /\ rows[s].status = "completed"

=============================================================================
