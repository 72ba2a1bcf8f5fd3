------------------------------ MODULE MCDomains ------------------------------
(***************************************************************************)
(* Small instances of the business domains: the handlers over workspace    *)
(* files of commerce and analytics (EXTENDed) and of workflows, and the    *)
(* operations over SqliteStore, one domain at a time.  They share no       *)
(* state: a behaviour exercises the one that part names.                   *)
(***************************************************************************)
EXTENDS DomainFiles, TLC

CONSTANTS None, a, b, c, d

VARIABLES part, now, rows, used, deleted, stamps, req, last, deaths, runfile, runcall, triggered

requestVars == <<now, rows, used, deleted, stamps, req, last, deaths>>
workflowVars == <<runfile, runcall, triggered>>

\* One caller, with catalogs.
Turns == INSTANCE DomainFiles WITH Callers <- {"c1"}, Catalogs <- {"k1"}

Workflow == INSTANCE WorkflowRuns WITH
    file <- runfile, call <- runcall, crashes <- deaths,
    Callers <- {"c1"}, Runs <- {"r1", "r2"}, Blueprint <- <<TRUE, FALSE, FALSE>>, MaxCrashes <- 2

Commerce == INSTANCE DomainRequests WITH
    crashes <- deaths, Workers <- {"w1", "w2"}, Humans <- {"w1"},
    Operations <- {"catalog.create", "catalog.update", "store.product", "order.create",
                   "list.orders", "store.delete"},
    Catalogs <- {a}, Products <- {b}, Orders <- {c}, Definitions <- {}, Runs <- {},
    StepCount <- 2, Snapshots <- {}, Queries <- {}, Insights <- {},
    MaxClock <- 2, MaxCrashes <- 0

Ordering == INSTANCE DomainRequests WITH
    crashes <- deaths, Workers <- {"w1", "w2"}, Humans <- {"w1"},
    Operations <- {"catalog.create", "order.create", "order.approve", "order.fulfill",
                   "store.order"},
    Catalogs <- {a}, Products <- {}, Orders <- {c}, Definitions <- {}, Runs <- {},
    StepCount <- 2, Snapshots <- {}, Queries <- {}, Insights <- {},
    MaxClock <- 3, MaxCrashes <- 0

Stepping == INSTANCE DomainRequests WITH
    crashes <- deaths, Workers <- {"w1", "w2"}, Humans <- {"w1"},
    Operations <- {"workflow.define", "workflow.trigger", "workflow.step.complete",
                   "workflow.approve", "list.runs"},
    Catalogs <- {}, Products <- {}, Orders <- {}, Definitions <- {a}, Runs <- {b},
    StepCount <- 3, Snapshots <- {}, Queries <- {}, Insights <- {},
    MaxClock <- 1, MaxCrashes <- 1

Analytics == INSTANCE DomainRequests WITH
    crashes <- deaths, Workers <- {"w1", "w2"}, Humans <- {"w1"},
    Operations <- {"analytics.snapshot.create", "analytics.query.create",
                   "analytics.query.execute", "analytics.insight.approve", "list.queries",
                   "store.delete"},
    Catalogs <- {}, Products <- {}, Orders <- {}, Definitions <- {}, Runs <- {},
    StepCount <- 2, Snapshots <- {a, b}, Queries <- {c}, Insights <- {d},
    MaxClock <- 1, MaxCrashes <- 1

DomainsInit ==
    /\ part \in {"files", "turns", "workflow", "commerce", "ordering", "stepping", "analytics"}
    /\ IF part = "turns" THEN Turns!Init ELSE Init
    /\ Workflow!Init
    /\ CASE part = "ordering" -> Ordering!Init
         [] part = "stepping" -> Stepping!Init
         [] part = "analytics" -> Analytics!Init
         [] OTHER -> Commerce!Init

DomainsNext ==
    \/ part = "files" /\ Next /\ UNCHANGED <<part, requestVars, workflowVars>>
    \/ part = "turns" /\ Turns!Next /\ UNCHANGED <<part, requestVars, workflowVars>>
    \/ /\ part = "workflow" /\ Workflow!Next
       /\ UNCHANGED <<part, vars, now, rows, used, deleted, stamps, req, last>>
    \/ part = "commerce" /\ Commerce!Next /\ UNCHANGED <<part, vars, workflowVars>>
    \/ part = "ordering" /\ Ordering!Next /\ UNCHANGED <<part, vars, workflowVars>>
    \/ part = "stepping" /\ Stepping!Next /\ UNCHANGED <<part, vars, workflowVars>>
    \/ part = "analytics" /\ Analytics!Next /\ UNCHANGED <<part, vars, workflowVars>>

DomainsSpec == DomainsInit /\ [][DomainsNext]_<<part, vars, requestVars, workflowVars>>

-----------------------------------------------------------------------------

\* No row of the store outlives the rows it refers to, whatever was deleted between a
\* handler's load of the parent and its save of the child.
RowsHaveParents ==
    /\ part = "commerce" => Commerce!RowsHaveParents
    /\ part = "analytics" => Analytics!RowsHaveParents

\* Over the store, a step is completed only after all earlier ones of its run, and an
\* order is fulfilled only with its approval, under overlapping requests that hold
\* stale rows and while a trigger is still saving steps.
StoredWorkInOrder ==
    /\ part = "stepping" => Stepping!StepsCompleteInOrder
    /\ part = "ordering" => Ordering!FulfilledWasApproved

\* Over files, work goes forward in its order.  Workflow callers take turns and may die
\* between any two file operations: a run that can be found has all its steps, a step is
\* done only after every earlier one is approved, and a run recorded as completed has
\* every step approved.  Commerce and analytics callers overlap as well (SavedInOrder).
FiledWorkInOrder ==
    /\ SavedInOrder
    /\ Workflow!RunHasItsSteps /\ Workflow!StepsInOrder /\ Workflow!CompletedRunIsApproved

=============================================================================
