------------------------- MODULE MCOperatorRequests -------------------------
(***************************************************************************)
(* Small instances of what an operator asks of the store: commands, and    *)
(* pages.  They are separate models: a behaviour exercises the one that    *)
(* part names.  "commands" is the code as it is; "decisions" is the code   *)
(* with the two repairs without which no decision is ever applied and no   *)
(* expired lease released, so that what follows a decision is explored.    *)
(***************************************************************************)
EXTENDS OperatorCommands, TLC

CONSTANTS k1, k2, s1, s2, r1, r2, NoRun, NoCursor

VARIABLES
    part,
    now, instance, session, runs, projections, asked, events, receipts,
    cursor, reading, view, answer

pageVars ==
    <<now, instance, session, runs, projections, asked, events, receipts,
      cursor, reading, view, answer>>

\* The one session of the commands with repairs.
OneSession == s1 :> 3

\* The second session outlives the first.
TwoSessions == s1 :> 1 @@ s2 :> 9

AsWritten == INSTANCE OperatorCommands WITH
    Sessions <- {s1, s2}, SessionEnd <- TwoSessions, MaxRevision <- 5, MaxAudit <- 6,
    ReleasePrecedesExpiry <- TRUE, CopiesDecision <- FALSE

Pages == INSTANCE OperatorPages WITH
    clock <- now, approvals <- asked, audit <- events,
    Runs <- {r1, r2}, FilterRun <- r1, Granted <- {"approval_read", "run_read", "audit_read"},
    PageSizes <- {1}, CursorTerm <- 1, SessionTerm <- 9, ApprovalTerm <- 1,
    MaxClock <- 1, MaxProjections <- 5, MaxAudit <- 4, MaxSessions <- 1

\* A second session and a restarted server, over one run.
Restarted == INSTANCE OperatorPages WITH
    clock <- now, approvals <- asked, audit <- events,
    Runs <- {r1}, FilterRun <- r1, Granted <- {"approval_read", "run_read", "audit_read"},
    PageSizes <- {1, 2}, CursorTerm <- 2, SessionTerm <- 2, ApprovalTerm <- 1,
    MaxClock <- 2, MaxProjections <- 3, MaxAudit <- 3, MaxSessions <- 2

RequestsInit ==
    /\ part \in {"commands", "decisions", "pages", "restarts"}
    /\ Init
    /\ IF part = "pages" THEN Pages!Init ELSE Restarted!Init

RequestsNext ==
    \/ part = "commands" /\ AsWritten!Next /\ UNCHANGED <<part, pageVars>>
    \/ part = "decisions" /\ Next /\ UNCHANGED <<part, pageVars>>
    \/ part = "pages" /\ Pages!Next /\ UNCHANGED <<part, vars>>
    \/ part = "restarts" /\ Restarted!Next /\ UNCHANGED <<part, vars>>

RequestsSpec == RequestsInit /\ [][RequestsNext]_<<part, vars, pageVars>>

-----------------------------------------------------------------------------

\* However writers and restarts fall between two pages, the pages of one reading are the
\* rows there were at its first page, newest first, each once and in the end all, served
\* for one query of one session by one process; and only a continuation of the attention
\* page can be told that the store is corrupt.
PagesAreOneSnapshot ==
    Pages!ReadingIsASnapshot /\ Pages!ReadingIsOneQuery /\ Pages!CorruptOnlyOnContinuation

\* Commands differ in their keys, not in what they stand for.
KeySymmetry == Permutations(Keys)

=============================================================================
