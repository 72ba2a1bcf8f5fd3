-------------------------- MODULE MCOperatorAccess --------------------------
(***************************************************************************)
(* Small instances of the servers that a human reaches: the approval       *)
(* console, the operator control plane and the rate limits in front of its *)
(* routes.  They share no state: a behaviour exercises the one that part   *)
(* names.  The console is explored with two decisions ("console") and with *)
(* two pages that exchange a code while things fail ("exchange").          *)
(***************************************************************************)
EXTENDS ApprovalConsole, TLC

CONSTANTS NoChallenge, NoSession

VARIABLES
    part,
    tick, utc, pending, login, audit, me, ceremony, shown, fatal, phase, confirmed, spent, failed,
    now, active, buckets, recency, caller, stop, admitted

controlVars ==
    <<tick, utc, pending, login, audit, me, ceremony, shown, fatal, phase, confirmed, spent,
      failed>>
rateVars == <<now, active, buckets, recency, caller, stop, admitted>>

Exchanging == INSTANCE ApprovalConsole WITH
    Exchangers <- {"e1", "e2"}, Posts <- {"r1"}, AbsoluteTTL <- 1, MayFail <- TRUE,
    MaxClock <- 2, MaxEdits <- 0

\* Two requests beside each other, and one while things fail.
Control == INSTANCE OperatorControl WITH
    session <- login, echo <- shown,
    Requests <- {"q1", "q2"}, Browsers <- {"b1"}, Enrolled <- {"run_read", "run_cancel"},
    Asked <- {{"run_read", "run_cancel", "audit_read"}}, ChallengeTTL <- 1, IdleTTL <- 1,
    AbsoluteTTL <- 2, MayFail <- FALSE, WallMoves <- TRUE, MaxTick <- 2, MaxChallenges <- 1

Faults == INSTANCE OperatorControl WITH
    session <- login, echo <- shown,
    Requests <- {"q1"}, Browsers <- {"b1"}, Enrolled <- {"run_read", "run_cancel"},
    Asked <- {{"audit_read"}, {"run_read", "audit_read"}}, ChallengeTTL <- 1, IdleTTL <- 1,
    AbsoluteTTL <- 2, MayFail <- TRUE, WallMoves <- FALSE, MaxTick <- 2, MaxChallenges <- 2

Rates == INSTANCE RateBuckets WITH
    tick <- now, me <- caller, fatal <- stop, Requests <- {"q1", "q2"},
    Scale <- 3, Capacity <- 1, Refill <- 2, MaxBuckets <- 2, MaxTick <- 3, MaxSessions <- 2

AccessInit ==
    /\ part \in {"console", "exchange", "control", "faults", "rate"}
    /\ IF part = "exchange" THEN Exchanging!Init ELSE Init
    /\ IF part = "faults" THEN Faults!Init ELSE Control!Init
    /\ Rates!Init

AccessNext ==
    \/ part = "console" /\ Next /\ UNCHANGED <<part, controlVars, rateVars>>
    \/ part = "exchange" /\ Exchanging!Next /\ UNCHANGED <<part, controlVars, rateVars>>
    \/ part = "control" /\ Control!Next /\ UNCHANGED <<part, vars, rateVars>>
    \/ part = "faults" /\ Faults!Next /\ UNCHANGED <<part, vars, rateVars>>
    \/ part = "rate" /\ Rates!Next /\ UNCHANGED <<part, vars, controlVars>>

AccessSpec == AccessInit /\ [][AccessNext]_<<part, vars, controlVars, rateVars>>

-----------------------------------------------------------------------------

\* A handler of the control plane runs only for the session that is active then, before
\* both of its deadlines, with the capabilities of the route and, for a command, under the
\* session it was written for, whatever happened since the request was authenticated.
HandlerHoldsSession == Control!HandlerHoldsSession

\* Unless a failure cleared the authority, the audit says which session is active; every
\* session comes from a challenge whose code was typed at the terminal, and one that was
\* revoked, expired or replaced is never active again.
AuditTellsSession ==
    Control!AuditTellsSession /\ Control!SessionHasConsent /\ Control!EndedSessionStaysEnded

\* In no window of time are more requests of the public routes or of the active session
\* admitted than a full bucket and its refill over that window allow.
RateHolds == Rates!RateHolds

=============================================================================
