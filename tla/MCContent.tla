------------------------------ MODULE MCContent ------------------------------
(***************************************************************************)
(* Small instances of what is written as evidence: content objects and     *)
(* their changesets, the preview publications of an edition, and the trace *)
(* of an agent run with its evaluation.  They share no state: a behaviour  *)
(* exercises the one that part names.                                      *)
(*                                                                         *)
(* Two objects of one schema, a required text and an optional number, with *)
(* callers that take turns over many edit lists and contents, and callers  *)
(* that do not over few; two publishers with ledgers of their own; a run   *)
(* that may read and, under approval, write, as in the release manager's   *)
(* policy.                                                                 *)
(***************************************************************************)
EXTENDS ContentWorkspace, TLC

CONSTANTS Nothing, p1, p2, c1, c2

VARIABLES
    part,
    damaged, finals, temps, publications, claims, answers, faults,
    now, pc, trace, turn, pending, damage

previewVars == <<damaged, finals, temps, publications, claims, answers, faults>>
traceVars == <<now, pc, trace, turn, pending, damage>>

TitleAndSize ==
    [title |-> [required |-> TRUE, type |-> "text"], size |-> [required |-> FALSE, type |-> "number"]]

Plain == [title |-> "text"]
Sized == [title |-> "text", size |-> "number"]

FitOrNot ==
    {Plain, Sized, [title |-> "null", size |-> "number"], [title |-> "text", size |-> "text"],
     [title |-> "text", other |-> "text"]}

Edit(op, o, expected, content) ==
    [op |-> op, object |-> o, status |-> "draft", expected |-> expected, content |-> content]

EditLists ==
    {<<>>,
     <<Edit("create", 2, 0, Plain), Edit("update", 1, 1, Sized)>>,
     <<Edit("create", 2, 0, Sized), Edit("delete", 1, 1, Plain)>>,
     <<Edit("update", 1, 1, Sized), Edit("update", 1, 2, Plain)>>,
     <<Edit("delete", 1, 1, Plain), Edit("create", 1, 0, Sized)>>,
     <<Edit("create", 1, 0, [title |-> "null"])>>}

\* The lists and contents of the callers that do not take turns.
FewLists == {<<Edit("create", 2, 0, Plain), Edit("update", 1, 1, Sized)>>,
             <<Edit("create", 2, 0, Plain), Edit("delete", 1, 1, Plain)>>}

OneContent == {Plain}

InTurn == INSTANCE ContentWorkspace WITH
    Exclusive <- TRUE, Plans <- EditLists, Contents <- FitOrNot

\* Publications of two editions at one time, and of one edition at different times.
Preview == INSTANCE PreviewPublication WITH
    None <- Nothing, editions <- damaged, calls <- publications,
    Editions <- {"e1", "e2"}, Keys <- {"k1", "k2"}, Publishers <- {p1, p2},
    SharedLedger <- FALSE, Flaws <- {"none", "uuid_spelling"}, MaxStamp <- 1, MaxFaults <- 1

Reprint == INSTANCE PreviewPublication WITH
    None <- Nothing, editions <- damaged, calls <- publications,
    Editions <- {"e1"}, Keys <- {"k1", "k2"}, Publishers <- {p1, p2},
    SharedLedger <- FALSE, Flaws <- {"none", "uuid_spelling"}, MaxStamp <- 2, MaxFaults <- 1

Expected == <<[op |-> 11, args |-> 12, approved |-> FALSE], [op |-> 13, args |-> 14, approved |-> TRUE]>>

Evaluation == INSTANCE TraceEvaluation WITH
    Additional <- FALSE,
    References <- <<[call |-> 1, source |-> "output"], [call |-> 2, source |-> "arguments"],
                    [call |-> 2, source |-> "proof"]>>,
    Tools <- {11, 13}, Governed <- {13},
    Calls <- {[op |-> 11, args |-> 12], [op |-> 13, args |-> 14]},
    ApprovalTtl <- 2, MaxSteps <- 2, MaxClock <- 3, MaxDamage <- 1

ASSUME PolicyAssumption == Evaluation!PolicyIsValid

RecordsInit ==
    /\ part \in {"in_turn", "at_once", "preview", "reprint", "trace"}
    /\ Init /\ Evaluation!Init
    /\ IF part = "reprint" THEN Reprint!Init ELSE Preview!Init

RecordsNext ==
    \/ part = "in_turn" /\ InTurn!Next /\ UNCHANGED <<part, previewVars, traceVars>>
    \/ part = "at_once" /\ Next /\ UNCHANGED <<part, previewVars, traceVars>>
    \/ part = "preview" /\ Preview!Next /\ UNCHANGED <<part, vars, traceVars>>
    \/ part = "reprint" /\ Reprint!Next /\ UNCHANGED <<part, vars, traceVars>>
    \/ part = "trace" /\ Evaluation!Next /\ UNCHANGED <<part, vars, previewVars>>

RecordsSpec == RecordsInit /\ [][RecordsNext]_<<part, vars, previewVars, traceVars>>

-----------------------------------------------------------------------------

\* An answered publication is the artifact on disk, of the manifest of its own edition,
\* also when two publishers with separate ledgers used one key; and one that is alone in
\* the directory of a sound edition is verified, whatever died beside it.
AnswerIsOnDisk ==
    IF part = "reprint"
    THEN Reprint!AnswerIsOnDisk /\ Reprint!ArtifactFitsEdition /\ Reprint!LonePublicationVerifies
    ELSE Preview!AnswerIsOnDisk /\ Preview!ArtifactFitsEdition /\ Preview!LonePublicationVerifies

\* evaluate: a trace that passes fails once an event is lost, repeated, renumbered or out of
\* order, a step or an approval is lost or repeated, one compared identifier, value, status or
\* signature is another, or one instant lies outside the run; and a run that the runtime
\* completed passes every check that does not depend on the task policy, unless a decision
\* overtook the event of its request.
DamageIsCaught == Evaluation!DamageIsCaught /\ Evaluation!CompletedRunIsSound

\* Publishers are alike, and so are callers.
Symmetry == Permutations({p1, p2}) \cup Permutations({c1, c2})

=============================================================================
