---------------------------- MODULE WorkflowRuns ----------------------------
(***************************************************************************)
(* The file-backed workflow handlers of proof-workflow: define, trigger,   *)
(* step.complete and approve over .proof/data/workflow.                    *)
(*                                                                         *)
(* A handler loads the run, the definition and the steps one file after    *)
(* another, decides, and writes files with std::fs::write, which truncates *)
(* before it fills.  There is no lock and no transaction: callers are      *)
(* threads or processes on one workspace, each file operation is one       *)
(* action and a caller may die between any two.                            *)
(*                                                                         *)
(* One definition is enough: no handler relates two.                       *)
(***************************************************************************)
EXTENDS Naturals, Sequences, SequencesExt

CONSTANTS
    Callers,
    Runs,        \* run ids: each is given once
    Blueprint,   \* Blueprint[i]: whether step i of the definition requires approval
    Absent,      \* no such file
    Torn,        \* a truncated file: no reader can parse it
    MaxCrashes   \* bound: callers that die

Steps == DOMAIN Blueprint

RunStatuses == {"pending", "in_progress", "completed", "failed"}

StepStatuses == {"pending", "completed", "approved"}

Definition == <<"definition">>

RunFile(r) == <<"run", r>>

StepFile(r, i) == <<"step", r, i>>

Files == {Definition} \cup {RunFile(r) : r \in Runs}
             \cup {StepFile(r, i) : r \in Runs, i \in Steps}

VARIABLES
    file,     \* file[f]: Absent, Torn or the status the file records
    call,     \* call[c]: where caller c's handler stands
    crashes,
    triggered \* the runs a trigger has begun

vars == <<file, call, crashes, triggered>>

Idle == [op |-> "none", pc |-> "idle"]

Writing(op, writes) == [op |-> op, pc |-> "truncate", writes |-> writes]

Init ==
    /\ file = [f \in Files |-> Absent]
    /\ call = [c \in Callers |-> Idle]
    /\ crashes = 0
    /\ triggered = {}

Goto(c, next) == call' = [call EXCEPT ![c] = next]

Fail(c) == Goto(c, Idle) /\ UNCHANGED <<file, crashes, triggered>>

Whole(f) == file[f] \notin {Absent, Torn}

-----------------------------------------------------------------------------
(* Deciding, once everything is loaded. *)

\* WorkflowStep::complete
Complete(i) == IF Blueprint[i] THEN "completed" ELSE "approved"

\* WorkflowRun::transition_to
Allowed(from, to) ==
    <<from, to>> \in {<<"pending", "in_progress">>, <<"in_progress", "completed">>,
                      <<"in_progress", "failed">>}

First(view, status) == SelectInSeq(view, LAMBDA s : s = status)

AllApproved(view) == \A i \in Steps : view[i] = "approved"

\* The run's status after the step: "refused" where transition_to is.
NextRun(status, view) ==
    IF AllApproved(view)
    THEN IF Allowed(status, "completed") THEN "completed" ELSE "refused"
    ELSE IF status = "pending" THEN "in_progress" ELSE status

\* A refused transition comes after the step's file was saved.
CompleteWrites(r, status, view) ==
    LET i == First(view, "pending")
        after == [view EXCEPT ![i] = Complete(i)]
        next == NextRun(status, after)
    IN  <<<<StepFile(r, i), after[i]>>>>
            \o IF next = "refused" THEN <<>> ELSE <<<<RunFile(r), next>>>>

\* Mutant: an earlier step need only be completed.
EarlierDone(view, i) == \A j \in 1 .. (i - 1) : view[j] # "pending"

EarlierApproved(view, i) == \A j \in 1 .. (i - 1) : view[j] = "approved"

CompleteReady(view) ==
    /\ First(view, "pending") # 0
    /\ EarlierApproved(view, First(view, "pending"))

ApproveWrites(r, view) == <<<<StepFile(r, First(view, "completed")), "approved">>>>

TriggerWrites(r) ==
    [i \in 1 .. Len(Blueprint) + 1 |->
        IF i \in Steps THEN <<StepFile(r, i), "pending">> ELSE <<RunFile(r), "pending">>]

-----------------------------------------------------------------------------
(* The handlers. *)

\* execute_define
Define(c) ==
    /\ call[c].pc = "idle" /\ file[Definition] = Absent
    /\ Goto(c, Writing("define", <<<<Definition, "defined">>>>))
    /\ UNCHANGED <<file, crashes, triggered>>

\* execute_trigger: the steps, then the run
Trigger(c, r) ==
    /\ call[c].pc = "idle" /\ r \notin triggered
    /\ Whole(Definition)
    /\ Goto(c, Writing("trigger", TriggerWrites(r)))
    /\ triggered' = triggered \cup {r}
    /\ UNCHANGED <<file, crashes>>

\* execute_step_complete and execute_approve (a human's), up to the loads of the
\* run and of its definition, a file that is written once
LoadRun(c, op, r) ==
    /\ call[c].pc = "idle" /\ Whole(RunFile(r)) /\ Whole(Definition)
    /\ Goto(c, [op |-> op, pc |-> "steps", run |-> r,
                status |-> file[RunFile(r)], view |-> <<>>])
    /\ UNCHANGED <<file, crashes, triggered>>

LoadStep(c) ==
    LET me == call[c]
        f == StepFile(me.run, Len(me.view) + 1)
    IN  /\ me.pc = "steps" /\ Len(me.view) < Len(Blueprint)
        /\ IF Whole(f)
           THEN /\ Goto(c, [me EXCEPT !.view = Append(@, file[f])])
                /\ UNCHANGED <<file, crashes, triggered>>
           ELSE Fail(c)

Loaded(c) == call[c].pc = "steps" /\ Len(call[c].view) = Len(Blueprint)

DecideComplete(c) ==
    LET me == call[c]
    IN  /\ Loaded(c) /\ me.op = "complete"
        /\ IF CompleteReady(me.view)
           THEN /\ Goto(c, Writing(me.op, CompleteWrites(me.run, me.status, me.view)))
                /\ UNCHANGED <<file, crashes, triggered>>
           ELSE Fail(c)

DecideApprove(c) ==
    LET me == call[c]
    IN  /\ Loaded(c) /\ me.op = "approve"
        /\ IF First(me.view, "completed") # 0
           THEN /\ Goto(c, Writing(me.op, ApproveWrites(me.run, me.view)))
                /\ UNCHANGED <<file, crashes, triggered>>
           ELSE Fail(c)

\* save: std::fs::write truncates ...
Truncate(c) ==
    LET me == call[c]
    IN  /\ me.pc = "truncate"
        /\ file' = [file EXCEPT ![Head(me.writes)[1]] = Torn]
        /\ Goto(c, [me EXCEPT !.pc = "fill"])
        /\ UNCHANGED <<crashes, triggered>>

\* ... and fills.  Where two callers truncated before either filled, the later
\* fill may leave the tail of a longer record behind it.
Filled(f, value) == IF file[f] = Torn THEN {value} ELSE {value, Torn}

Fill(c) ==
    LET me == call[c]
        f == Head(me.writes)[1]
    IN  /\ me.pc = "fill"
        /\ \E value \in Filled(f, Head(me.writes)[2]) : file' = [file EXCEPT ![f] = value]
        /\ Goto(c, IF Len(me.writes) = 1 THEN Idle
                   ELSE Writing(me.op, Tail(me.writes)))
        /\ UNCHANGED <<crashes, triggered>>

Crash(c) ==
    /\ call[c].pc # "idle" /\ crashes < MaxCrashes
    /\ crashes' = crashes + 1
    /\ Goto(c, Idle)
    /\ UNCHANGED <<file, triggered>>

Next ==
    \E c \in Callers :
        \/ Define(c) \/ LoadStep(c)
        \/ DecideComplete(c) \/ DecideApprove(c)
        \/ Truncate(c) \/ Fill(c) \/ Crash(c)
        \/ \E r \in Runs : Trigger(c, r) \/ LoadRun(c, "complete", r) \/ LoadRun(c, "approve", r)

Spec == Init /\ [][Next]_vars

-----------------------------------------------------------------------------

\* Type: every file holds a status of its kind, or nothing a reader can parse.
TypeOK ==
    /\ file[Definition] \in {Absent, Torn, "defined"}
    /\ \A r \in Runs :
          /\ file[RunFile(r)] \in {Absent, Torn} \cup RunStatuses
          /\ \A i \in Steps : file[StepFile(r, i)] \in {Absent, Torn} \cup StepStatuses
    /\ crashes \in 0 .. MaxCrashes
    /\ triggered \subseteq Runs

\* A run that can be found has all its steps, wherever the trigger died and
\* whoever else is at work: execute_trigger saves the run's file last.
RunHasItsSteps ==
    \A r \in Runs, i \in Steps :
        file[RunFile(r)] # Absent => file[StepFile(r, i)] # Absent

\* Among callers that take turns, a step is done only after every earlier step is
\* approved, across deaths between any two file operations.
StepsInOrder ==
    \A r \in Runs, i \in Steps :
        file[StepFile(r, i)] \in {"completed", "approved"} =>
            \A j \in 1 .. (i - 1) : file[StepFile(r, j)] = "approved"

\* Among callers that take turns, a run recorded as completed has every step
\* approved: the step's file is saved before the run's.
CompletedRunIsApproved ==
    \A r \in Runs :
        file[RunFile(r)] = "completed" =>
            \A i \in Steps : file[StepFile(r, i)] = "approved"

\* "workflow step deploy cannot complete before earlier steps are approved": no step
\* is done while an earlier one waits, also when two callers overlap.
OrderUnderOverlap ==
    \A r \in Runs, i \in Steps :
        file[StepFile(r, i)] \in {"completed", "approved"} =>
            \A j \in 1 .. (i - 1) : file[StepFile(r, j)] \notin {"pending", "completed"}

\* A run all of whose steps are approved is completed once nobody is at work on it.
AllApprovedIsCompleted ==
    \A r \in Runs :
        (/\ \A c \in Callers : call[c] = Idle
         /\ crashes = 0
         /\ \A i \in Steps : file[StepFile(r, i)] = "approved")
            => file[RunFile(r)] = "completed"

=============================================================================
