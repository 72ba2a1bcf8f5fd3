--------------------------- MODULE LivePreparation ---------------------------
(***************************************************************************)
(* `proof agent live-prepare start | finish` and `live-start`: one live    *)
(* preparation, from the commands that materialise it to the claims of     *)
(* live runs that rest on it.                                              *)
(*                                                                         *)
(* A start or a finish holds phase.lock of the preparation's directory and *)
(* walks through its phases; each phase leaves a record file there that    *)
(* names the record before it.  A command reads what an earlier one left   *)
(* and goes on from it.  Each durable write is one action, and a command   *)
(* may die between any two of them.  A live-start takes no lock.           *)
(*                                                                         *)
(* The deterministic run is the generic runtime's (module AgentRuntime).   *)
(* Here it is what the preparation sees of it: it runs, has asked for      *)
(* approval, waits, has taken the approval up, has executed its tool, has  *)
(* succeeded or failed.  A process that dies inside the runtime may leave  *)
(* the run in a state that the runtime refuses to resume: in doubt.        *)
(*                                                                         *)
(* A record file is its contents, a digest the thing it is a digest of.    *)
(***************************************************************************)
EXTENDS Naturals, Sequences

CONSTANTS
    Shells,        \* invocations of the command line
    Approvers,     \* the human principals
    Delegations,   \* the grants a finish or a live start may name
    Blank,
    MaxDeaths,     \* bound: deaths of a command
    MaxDrifts,     \* bound: changes of approvers, grants and registry
    MaxEvaluations \* bound: evaluations of the run by others, under the evaluator's name

\* The contents of a record file: the approver bound at the start (initialized, dispatch),
\* the run that waits (awaiting), its evaluation (evaluated, bound) and the packet (ready).
PreparationRecords ==
    [approver : Approvers] \cup [run : Nat] \cup [run : Nat, evaluation : Nat]
      \cup [run : Nat, evaluation : Nat, approver : Approvers, delegation : Delegations]

Decisions == [outcome : {"approved", "denied"}, by : Approvers]

ASSUME PreparationAssumption ==
    /\ Blank \notin Shells \cup Approvers \cup Delegations \cup PreparationRecords \cup Decisions
    /\ MaxDeaths \in Nat /\ MaxDrifts \in Nat /\ MaxEvaluations \in Nat

VARIABLES
    records,    \* the files of the preparation's directory, Blank where there is none
    phaseLock,  \* the command that holds phase.lock, or Blank
    shell,      \* shell[s]: where command s stands
    enlisted,   \* the deterministic agent is saved
    trials,     \* the saved runs of that agent and goal
    edition,    \* the synthetic edition is in .proof/data/editions
    starts,     \* live_run_start_claims
    approver,   \* the sole trusted approver, Blank when there is none or several
    broken,     \* what does not verify: a delegation, the agent, the policy file, the registry
    tally       \* deaths and drifts so far

storeTables == <<enlisted, trials, starts>>
surroundings == <<approver, broken>>
preparationVars == <<records, phaseLock, shell, edition, storeTables, surroundings, tally>>

RecordNames == {"initialized", "dispatch", "awaiting", "evaluated", "bound", "ready"}

Resting == [task |-> "none", pc |-> "rest", delegation |-> Blank, first |-> FALSE,
            found |-> 0, evaluation |-> 0, approver |-> Blank]

NewTrial == [status |-> "running", decision |-> Blank, sound |-> TRUE, doubt |-> FALSE,
             late |-> FALSE, effects |-> 0, evaluations |-> <<>>]

PreparationInit ==
    /\ records = [n \in RecordNames |-> Blank]
    /\ phaseLock = Blank
    /\ shell = [s \in Shells |-> Resting]
    /\ enlisted = FALSE
    /\ trials = <<>>
    /\ edition = FALSE
    /\ starts = {}
    /\ approver \in Approvers
    /\ broken = {}
    /\ tally = [deaths |-> 0, drifts |-> 0]

-----------------------------------------------------------------------------
(* A command. *)

Has(n) == records[n] # Blank

Stands(s, task, pc) == shell[s].task = task /\ shell[s].pc = pc

Proceeds(s, pc) == shell' = [shell EXCEPT ![s].pc = pc]

\* write_record: publish_exact writes a file that is not there and accepts one of the
\* same bytes.
Publishable(n, record) == records[n] \in {Blank, record}

Publishes(n, record) == records' = [records EXCEPT ![n] = record]

\* The command ends: the lock goes with its file handle.
Ends(s) ==
    /\ shell' = [shell EXCEPT ![s] = Resting]
    /\ phaseLock' = IF phaseLock = s THEN Blank ELSE phaseLock

\* PreparationWorkspaceAccess::open and the arguments of the command.
Begins(s, task, delegation) ==
    /\ shell[s] = Resting
    /\ shell' = [shell EXCEPT ![s].task = task, ![s].delegation = delegation, ![s].pc = "open"]
    /\ UNCHANGED <<records, phaseLock, edition, storeTables, surroundings, tally>>

\* Mutant of Locks: the lock is shared.
LocksShared(s) ==
    /\ shell[s].task \in {"start", "finish"} /\ shell[s].pc = "open"
    /\ phaseLock' = s
    /\ Proceeds(s, "locked")
    /\ UNCHANGED <<records, edition, storeTables, surroundings, tally>>

\* exclusive_lock("phase.lock") waits for the command that holds it.
Locks(s) ==
    /\ shell[s].task \in {"start", "finish"} /\ shell[s].pc = "open"
    /\ phaseLock = Blank
    /\ phaseLock' = s
    /\ Proceeds(s, "locked")
    /\ UNCHANGED <<records, edition, storeTables, surroundings, tally>>

-----------------------------------------------------------------------------
(* live-prepare start. *)

\* initialized.json and awaiting.json are there: the packet is printed again.
ReplaysStart(s) ==
    /\ Stands(s, "start", "locked")
    /\ Has("initialized") /\ Has("awaiting")
    /\ Ends(s)
    /\ UNCHANGED <<records, edition, storeTables, surroundings, tally>>

\* load_or_create_initialized.
Initializes(s) ==
    /\ Stands(s, "start", "locked")
    /\ ~(Has("initialized") /\ Has("awaiting"))
    /\ \/ Has("initialized") /\ UNCHANGED records
       \/ /\ ~Has("initialized") /\ approver # Blank
          /\ Publishes("initialized", [approver |-> approver])
    /\ Proceeds(s, "initialized")
    /\ UNCHANGED <<phaseLock, edition, storeTables, surroundings, tally>>

\* ensure_initialized_bindings: the approver is still the sole one.
BindingsHold == Has("initialized") /\ records["initialized"].approver = approver

\* validate_live_registry: the one release.publish::v2 entry is the frozen one.
RegistryHolds == "registry" \notin broken

\* ensure_initialized_bindings, validate_live_registry and save_exact_agent.
Enlists(s) ==
    /\ Stands(s, "start", "initialized")
    /\ BindingsHold /\ RegistryHolds
    /\ enlisted' = TRUE
    /\ Proceeds(s, "dispatch")
    /\ UNCHANGED <<records, phaseLock, edition, trials, starts, surroundings, tally>>

\* The dispatch marker; write_record tells whether it was there.
Dispatches(s) ==
    /\ Stands(s, "start", "dispatch")
    /\ Publishable("dispatch", records["initialized"])
    /\ Publishes("dispatch", records["initialized"])
    /\ shell' = [shell EXCEPT ![s].pc = "look", ![s].first = ~Has("dispatch")]
    /\ UNCHANGED <<phaseLock, edition, storeTables, surroundings, tally>>

\* exact_run_candidates: the saved runs of the preparation's agent and goal.
Looks(s) ==
    /\ Stands(s, "start", "look")
    /\ shell' = [shell EXCEPT ![s].pc = "launch", ![s].found = Len(trials)]
    /\ UNCHANGED <<records, phaseLock, edition, storeTables, surroundings, tally>>

\* There was none: AgentRuntime::start saves a run.
StartsRun(s) ==
    /\ Stands(s, "start", "launch")
    /\ shell[s].found = 0
    /\ trials' = Append(trials, NewTrial)
    /\ Proceeds(s, "runtime")
    /\ UNCHANGED <<records, phaseLock, edition, enlisted, starts, surroundings, tally>>

\* The one run that an earlier start left is resumed.
ResumesRun(s) ==
    /\ Stands(s, "start", "launch")
    /\ ~shell[s].first /\ shell[s].found = 1
    /\ Proceeds(s, "runtime")
    /\ UNCHANGED <<records, phaseLock, edition, storeTables, surroundings, tally>>

\* WaitingForApproval: awaiting.json is written, checked against the store and printed.
Awaits(s) ==
    /\ Stands(s, "start", "waits")
    /\ Publishable("awaiting", [run |-> 1])
    /\ Publishes("awaiting", [run |-> 1])
    /\ Ends(s)
    /\ UNCHANGED <<edition, storeTables, surroundings, tally>>

-----------------------------------------------------------------------------
(* The deterministic run, inside AgentRuntime::start or resume. *)

\* A step of the runtime takes the run from one status to the next.
RunTurns(s, from, to) ==
    /\ shell[s].pc = "runtime"
    /\ trials[1].status = from /\ ~trials[1].doubt
    /\ trials' = [trials EXCEPT ![1].status = to]
    /\ UNCHANGED <<records, phaseLock, shell, edition, enlisted, starts, surroundings, tally>>

Approved ==
    trials # <<>> /\ trials[1].decision # Blank /\ trials[1].decision.outcome = "approved"

\* DeterministicGateway proposes the tool call; the step and the signed request are saved.
Proposes(s) == RunTurns(s, "running", "asked") /\ ~trials[1].late

\* The event of the request; the runtime answers that the run waits.
AsksApproval(s) ==
    /\ shell[s].pc = "runtime"
    /\ trials[1].status = "asked" /\ ~trials[1].doubt
    /\ trials' = [trials EXCEPT ![1].status = "waiting"]
    /\ Proceeds(s, "waits")
    /\ UNCHANGED <<records, phaseLock, edition, enlisted, starts, surroundings, tally>>

\* A resume finds the run waiting and no decision.
StillWaits(s) ==
    /\ shell[s].pc = "runtime"
    /\ trials[1].status = "waiting" /\ ~trials[1].doubt
    /\ trials[1].decision = Blank /\ ~trials[1].late
    /\ Proceeds(s, "waits")
    /\ UNCHANGED <<records, phaseLock, edition, storeTables, surroundings, tally>>

\* The signed approval is verified and claimed.
TakesUp(s) == RunTurns(s, "waiting", "claimed") /\ Approved /\ ~trials[1].late

\* The handler of release.publish::v1 runs.
Executes(s) ==
    /\ shell[s].pc = "runtime"
    /\ trials[1].status = "claimed" /\ ~trials[1].doubt
    /\ trials' = [trials EXCEPT ![1].status = "executed", ![1].effects = trials[1].effects + 1]
    /\ UNCHANGED <<records, phaseLock, shell, edition, enlisted, starts, surroundings, tally>>

\* The second turn reports, and the run is sealed.
Succeeds(s) == RunTurns(s, "executed", "succeeded")

\* A denial, or the hour of the run's budget and of its approval, ends the run.
Denied == trials[1].decision # Blank /\ ~Approved

Fails(s) ==
    \/ RunTurns(s, "waiting", "failed") /\ Denied
    \/ \E status \in {"running", "waiting", "claimed", "executed"} :
          RunTurns(s, status, "failed") /\ trials[1].late

-----------------------------------------------------------------------------
(* live-prepare finish. *)

\* validate_evaluated_chain and validate_materialization_chain.
ChainHolds ==
    /\ records["evaluated"].run = records["awaiting"].run
    /\ records["bound"] = records["evaluated"]

\* validate_ready_chain with the arguments of this finish.
ReadyHolds(delegation) ==
    /\ \A n \in RecordNames : Has(n)
    /\ ChainHolds
    /\ records["ready"].evaluation = records["evaluated"].evaluation
    /\ records["ready"].delegation = delegation

\* The packet is printed again.
ReplaysFinish(s) ==
    /\ Stands(s, "finish", "locked")
    /\ Has("ready") /\ ReadyHolds(shell[s].delegation)
    /\ Ends(s)
    /\ UNCHANGED <<records, edition, storeTables, surroundings, tally>>

\* validate_awaiting: the run that waits is the only one.
AwaitingHolds == Has("awaiting") /\ Len(trials) = 1 /\ records["awaiting"].run = 1

\* validate_approved_decision: by the approver that the preparation is bound to.
DecisionHolds == Approved /\ trials[1].decision.by = records["initialized"].approver

ChecksApproval(s) ==
    /\ Stands(s, "finish", "locked")
    /\ ~Has("ready")
    /\ BindingsHold /\ AwaitingHolds /\ DecisionHolds /\ RegistryHolds
    /\ Proceeds(s, "runtime")
    /\ UNCHANGED <<records, phaseLock, edition, storeTables, surroundings, tally>>

\* deterministic_evaluation: the trace of the run, evaluated again, passes ten of ten.
TraceHolds == trials[1].status = "succeeded" /\ trials[1].sound

\* verify_exact_evaluation: the run has one evaluation, the one that is computed again.
OneExact == trials[1].evaluations = <<TRUE>>

\* load_or_append_exact_evaluation: the evaluations are listed; the one there is, is taken ...
ListsEvaluations(s) ==
    /\ Stands(s, "finish", "runtime")
    /\ trials[1].status = "succeeded"
    /\ \/ trials[1].evaluations = <<>> /\ Proceeds(s, "unevaluated")
       \/ /\ OneExact /\ TraceHolds
          /\ shell' = [shell EXCEPT ![s].pc = "evaluated", ![s].evaluation = 1]
    /\ UNCHANGED <<records, phaseLock, edition, storeTables, surroundings, tally>>

\* ... or a new one is made and saved, beside whatever was saved since.
Evaluates(s) ==
    /\ Stands(s, "finish", "unevaluated")
    /\ TraceHolds
    /\ trials' = [trials EXCEPT ![1].evaluations = Append(trials[1].evaluations, TRUE)]
    /\ shell' = [shell EXCEPT ![s].pc = "evaluated",
                              ![s].evaluation = Len(trials[1].evaluations) + 1]
    /\ UNCHANGED <<records, phaseLock, edition, enlisted, starts, surroundings, tally>>

EvaluatedRecord(s) == [run |-> records["awaiting"].run, evaluation |-> shell[s].evaluation]

WritesEvaluated(s) ==
    /\ Stands(s, "finish", "evaluated")
    /\ Publishable("evaluated", EvaluatedRecord(s))
    /\ Publishes("evaluated", EvaluatedRecord(s))
    /\ Proceeds(s, "prevalidate")
    /\ UNCHANGED <<phaseLock, edition, storeTables, surroundings, tally>>

\* verify_preflight: a passed evaluation of the run, which equals its recomputation.
VerifiesPreflight(evaluation) ==
    /\ trials # <<>>
    /\ evaluation \in DOMAIN trials[1].evaluations /\ trials[1].evaluations[evaluation]

\* load_live_authority: the delegation covers the run and is not revoked or about to expire.
DelegationHolds(delegation) == delegation \notin broken

\* verify_live_policy: the policy file is the frozen one.
PolicyHolds == "policy" \notin broken

\* validate_live_agent and parse_live_goal.
AgentHolds == "agent" \notin broken

\* sole_live_approver: there is one trusted human.
SoleApprover == approver # Blank

\* prevalidate_start_without_edition.
Prevalidates(evaluation, delegation) ==
    /\ AgentHolds /\ DelegationHolds(delegation) /\ SoleApprover
    /\ VerifiesPreflight(evaluation) /\ PolicyHolds

\* verify_synthetic_edition: the file is there, and no one else writes it.
EditionHolds == edition

\* start_setup.
StartSetup(evaluation, delegation) == Prevalidates(evaluation, delegation) /\ EditionHolds

\* bind_materialization: edition-bound.json before the edition it binds.
Binds(s) ==
    /\ Stands(s, "finish", "prevalidate")
    /\ Prevalidates(shell[s].evaluation, shell[s].delegation)
    /\ Publishable("bound", records["evaluated"])
    /\ Has("bound") \/ ~edition
    /\ Publishes("bound", records["evaluated"])
    /\ Proceeds(s, "materialize")
    /\ UNCHANGED <<phaseLock, edition, storeTables, surroundings, tally>>

\* materialize_edition.
Materializes(s) ==
    /\ Stands(s, "finish", "materialize")
    /\ edition' = TRUE
    /\ Proceeds(s, "setup")
    /\ UNCHANGED <<records, phaseLock, storeTables, surroundings, tally>>

ReadyRecord(s) ==
    [run |-> records["evaluated"].run, evaluation |-> shell[s].evaluation,
     approver |-> approver, delegation |-> shell[s].delegation]

\* The authoritative check of the start, with the approver of the preparation; ready.json
\* is written, read back and printed.
Readies(s) ==
    /\ Stands(s, "finish", "setup")
    /\ StartSetup(shell[s].evaluation, shell[s].delegation)
    /\ BindingsHold
    /\ Publishable("ready", ReadyRecord(s))
    /\ Publishes("ready", ReadyRecord(s))
    /\ Ends(s)
    /\ UNCHANGED <<edition, storeTables, surroundings, tally>>

-----------------------------------------------------------------------------
(* live-start. *)

\* start_setup; what it loads is kept for the claim.
SetsUp(s, evaluation) ==
    /\ Stands(s, "live", "open")
    /\ StartSetup(evaluation, shell[s].delegation)
    /\ shell' = [shell EXCEPT ![s].pc = "claim", ![s].evaluation = evaluation,
                              ![s].approver = approver]
    /\ UNCHANGED <<records, phaseLock, edition, storeTables, surroundings, tally>>

\* live_readiness_binding_digest: what a start is bound to.
Readiness(s) ==
    [evaluation |-> shell[s].evaluation, approver |-> shell[s].approver,
     delegation |-> shell[s].delegation]

\* validate_existing_live_start_claim: the claim that is there is of this readiness.
ClaimExists(s) == Readiness(s) \in starts

\* claim_live_run_start: one run for one readiness.
ClaimsLiveStart(s) ==
    /\ Stands(s, "live", "claim")
    /\ ~ClaimExists(s)
    /\ starts' = starts \cup {Readiness(s)}
    /\ Ends(s)
    /\ UNCHANGED <<records, edition, enlisted, trials, surroundings, tally>>

\* existing_live_start_outcome: the command is repeated and answers with the run it has.
AlreadyStarted(s) ==
    /\ Stands(s, "live", "claim")
    /\ ClaimExists(s)
    /\ Ends(s)
    /\ UNCHANGED <<records, edition, storeTables, surroundings, tally>>

-----------------------------------------------------------------------------
(* Refusals, deaths and the world around. *)

\* What makes a command stop with an error at the step it has come to.
Stops(s) ==
    \/ /\ Stands(s, "start", "locked")
       /\ ~Has("initialized") /\ ~SoleApprover
    \/ Stands(s, "start", "initialized") /\ ~(BindingsHold /\ RegistryHolds)
    \/ /\ Stands(s, "start", "launch")
       /\ shell[s].found # 0 /\ (shell[s].first \/ shell[s].found # 1)
    \/ /\ shell[s].pc = "runtime"
       /\ trials[1].doubt \/ trials[1].status = "failed"
    \/ Stands(s, "start", "runtime") /\ trials[1].status = "succeeded"
    \/ Stands(s, "finish", "waits")
    \/ /\ Stands(s, "finish", "locked")
       /\ IF Has("ready") THEN ~ReadyHolds(shell[s].delegation)
          ELSE ~(BindingsHold /\ AwaitingHolds /\ DecisionHolds /\ RegistryHolds)
    \/ /\ Stands(s, "finish", "runtime") /\ trials[1].status = "succeeded"
       /\ ~(trials[1].evaluations = <<>> \/ (OneExact /\ TraceHolds))
    \/ Stands(s, "finish", "unevaluated") /\ ~TraceHolds
    \/ /\ Stands(s, "finish", "evaluated")
       /\ ~Publishable("evaluated", EvaluatedRecord(s))
    \/ /\ Stands(s, "finish", "prevalidate")
       /\ ~(/\ Prevalidates(shell[s].evaluation, shell[s].delegation)
            /\ Publishable("bound", records["evaluated"]) /\ (Has("bound") \/ ~edition))
    \/ /\ Stands(s, "finish", "setup")
       /\ ~(StartSetup(shell[s].evaluation, shell[s].delegation) /\ BindingsHold)
    \/ Stands(s, "live", "open")

Refuses(s) ==
    /\ Stops(s)
    /\ Ends(s)
    /\ UNCHANGED <<records, edition, storeTables, surroundings, tally>>

\* The command dies; inside the runtime that may leave the run in doubt.
Dies(s) ==
    /\ shell[s] # Resting
    /\ tally.deaths < MaxDeaths
    /\ tally' = [tally EXCEPT !.deaths = tally.deaths + 1]
    /\ \/ UNCHANGED trials
       \/ /\ shell[s].pc = "runtime"
          /\ trials' = [trials EXCEPT ![1].doubt = TRUE]
    /\ Ends(s)
    /\ UNCHANGED <<records, edition, enlisted, starts, surroundings>>

\* `proof approval approve | deny`: one decision, of any trusted approver.  The evaluator
\* rejects a trace whose decision precedes the event of its request.
Decides(a, outcome) ==
    /\ trials # <<>>
    /\ trials[1].status \in {"asked", "waiting"}
    /\ trials[1].decision = Blank /\ ~trials[1].late
    /\ trials' = [trials EXCEPT ![1].decision = [outcome |-> outcome, by |-> a],
                                ![1].sound = trials[1].sound /\ trials[1].status = "waiting"]
    /\ UNCHANGED <<records, phaseLock, shell, edition, enlisted, starts, surroundings, tally>>

\* The hour passes.
Ages ==
    /\ trials # <<>> /\ ~trials[1].late
    /\ trials' = [trials EXCEPT ![1].late = TRUE]
    /\ UNCHANGED <<records, phaseLock, shell, edition, enlisted, starts, surroundings, tally>>

\* `proof agent evaluate` under the same evaluator name, with this or another policy.
EvaluatesToo(exact) ==
    /\ trials # <<>>
    /\ trials[1].status \in {"succeeded", "failed"}
    /\ Len(trials[1].evaluations) < MaxEvaluations
    /\ exact => TraceHolds
    /\ trials' = [trials EXCEPT ![1].evaluations = Append(trials[1].evaluations, exact)]
    /\ UNCHANGED <<records, phaseLock, shell, edition, enlisted, starts, surroundings, tally>>

\* Approvers are enrolled and removed; a delegation is revoked, or a file or the agent is
\* edited and put right again.
Drifts ==
    /\ tally.drifts < MaxDrifts
    /\ tally' = [tally EXCEPT !.drifts = tally.drifts + 1]
    /\ \/ approver' \in Approvers \cup {Blank} /\ UNCHANGED broken
       \/ /\ \E x \in Delegations \cup {"agent", "policy", "registry"} :
                broken' = IF x \in broken \ Delegations THEN broken \ {x} ELSE broken \cup {x}
          /\ UNCHANGED approver
    /\ UNCHANGED <<records, phaseLock, shell, edition, storeTables>>

PreparationNext ==
    \/ \E s \in Shells :
          \/ Begins(s, "start", Blank)
          \/ \E task \in {"finish", "live"}, d \in Delegations : Begins(s, task, d)
          \/ Locks(s)
          \/ ReplaysStart(s) \/ Initializes(s) \/ Enlists(s) \/ Dispatches(s)
          \/ Looks(s) \/ StartsRun(s) \/ ResumesRun(s) \/ Awaits(s)
          \/ Proposes(s) \/ AsksApproval(s) \/ StillWaits(s) \/ TakesUp(s)
          \/ Executes(s) \/ Succeeds(s) \/ Fails(s)
          \/ ReplaysFinish(s) \/ ChecksApproval(s)
          \/ ListsEvaluations(s) \/ Evaluates(s) \/ WritesEvaluated(s)
          \/ Binds(s) \/ Materializes(s) \/ Readies(s)
          \/ \E n \in 1..(MaxEvaluations + 1) : SetsUp(s, n)
          \/ ClaimsLiveStart(s) \/ AlreadyStarted(s)
          \/ Refuses(s) \/ Dies(s)
    \/ \E a \in Approvers, outcome \in {"approved", "denied"} : Decides(a, outcome)
    \/ Ages
    \/ \E exact \in BOOLEAN : EvaluatesToo(exact)
    \/ Drifts

PreparationSpec == PreparationInit /\ [][PreparationNext]_preparationVars

-----------------------------------------------------------------------------
(* What a prepared start rests on. *)

\* The preparation has at most one run, and none before its dispatch marker; the tool
\* of that run is entered once, and only on a signed approval.
OneTrial ==
    /\ Len(trials) <= 1
    /\ trials # <<>> =>
          /\ Has("dispatch")
          /\ trials[1].effects <= 1
          /\ trials[1].effects = 1 => Approved

\* The run an evaluation may stand for: it succeeded, soundly, with its one effect done.
RunStands(evaluation) ==
    /\ trials # <<>>
    /\ trials[1].status = "succeeded" /\ trials[1].sound /\ trials[1].effects = 1
    /\ VerifiesPreflight(evaluation)

\* A readiness packet stands on its whole chain: every record before it, the approval of
\* the approver that the preparation was bound to at its start, the evaluation it names,
\* and the edition, whatever command died, was repeated or overlapped on the way.
ReadyIsBacked ==
    Has("ready") =>
        /\ \A n \in RecordNames : Has(n)
        /\ RunStands(records["ready"].evaluation) /\ edition
        /\ trials[1].decision.by = records["initialized"].approver
        /\ records["ready"].approver = records["initialized"].approver
        /\ records["evaluated"] = [run |-> records["ready"].run,
                                    evaluation |-> records["ready"].evaluation]
        /\ records["bound"] = records["evaluated"]

\* The edition is never on disk before the record that binds it, and a live run is claimed
\* only for an evaluation of the run that succeeded and with the edition in place.
StartIsPrepared ==
    /\ edition => Has("bound") /\ RunStands(records["bound"].evaluation)
    /\ \A c \in starts : edition /\ RunStands(c.evaluation)

\* The preparation: one approved run, a backed packet, and live starts that rest on them.
PreparationIsBacked == OneTrial /\ ReadyIsBacked /\ StartIsPrepared

=============================================================================
