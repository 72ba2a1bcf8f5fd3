-------------------------- MODULE ApprovalConsole --------------------------
(***************************************************************************)
(* The local approval console: `proof approval ui`.  A page registers a    *)
(* code, the human types it at the terminal, the page exchanges it for the *)
(* one session of this process, and decisions are signed under a lease of  *)
(* that session.  One mutex guards the authority; a decision keeps it from *)
(* the check of the session to the commit of the decision.                 *)
(*                                                                         *)
(* Beside the console: other commands that decide the same request, the    *)
(* run that waits for it, edits of the registry, signals and two clocks    *)
(* that agree.                                                             *)
(***************************************************************************)
EXTENDS Integers, FiniteSets

CONSTANTS
    Exchangers,    \* exchange requests
    Posts,         \* decision and revoke requests
    Codes, Approvers, Nobody, NoCode,
    BootstrapTTL, AbsoluteTTL, IdleTTL,
    RequestExpiry, \* when the approval request expires
    RequiredApprover,      \* the sealed approver of a live run, or Nobody
    MayFail,       \* whether the terminal, entropy or a load may fail
    MayPanic,      \* whether a handler may panic under its lease
    MaxClock,      \* bound: ticks
    MaxEdits       \* bound: edits of the registry

VARIABLES
    clock,
    boot,       \* BootstrapState
    session,    \* SessionState
    holder,     \* the request whose lease holds the mutex
    poisoned,   \* a panic has poisoned the mutex
    notified,   \* who is armed for, and who was woken by, `changed`
    term,       \* the terminal task
    echo,       \* the terminal echoes
    exch,       \* exchange requests
    post,       \* decision and revoke requests
    main,       \* the command itself
    registry,   \* governance of the operation in the registry files
    edits,
    request,    \* the durable request: its decision, and the run behind it
    cli,        \* a terminal command that decides the same request
    answers,    \* responses that carried the session secret
    human       \* requests that could have seen human-only governance since their lease

authority == <<boot, session, poisoned, notified>>
terminal == <<term, echo>>
durable == <<registry, edits, request, cli>>
vars == <<clock, authority, holder, terminal, exch, post, main, durable, answers, human>>

Waiters == Exchangers \cup {"terminal"}

NoPost == [pc |-> "idle", approver |-> Nobody, governance |-> "none"]

Init ==
    /\ clock = 0
    /\ boot = [state |-> "absent", code |-> NoCode, deadline |-> 0, claimed |-> FALSE]
    /\ session = [state |-> "absent", absolute |-> 0, idle |-> 0, start |-> 0]
    /\ holder = Nobody
    /\ poisoned = FALSE
    /\ notified = [w \in Waiters |-> "none"]
    /\ term = [pc |-> "arm", typed |-> NoCode]
    /\ echo = TRUE
    /\ exch = [e \in Exchangers |-> [pc |-> "idle", code |-> NoCode]]
    /\ post = [p \in Posts |-> NoPost]
    /\ main = "serving"
    /\ registry = "human" /\ edits = 0
    /\ request = [decision |-> Nobody, waits |-> TRUE, sealed |-> FALSE]
    /\ cli = NoPost
    /\ answers = 0
    /\ human = {}

-----------------------------------------------------------------------------
(* The authority, under its mutex. *)

Free == holder = Nobody /\ main \notin {"exited", "failed"}

Live(b) == b.state \in {"pending", "verified"}

ExpireBootstrap(b) == IF Live(b) /\ clock >= b.deadline THEN [b EXCEPT !.state = "expired"] ELSE b

ExpireSession(s) ==
    IF s.state # "active" THEN s
    ELSE IF clock >= s.absolute THEN [s EXCEPT !.state = "expired_absolute"]
    ELSE IF clock >= s.idle THEN [s EXCEPT !.state = "expired_idle"]
    ELSE s

\* revoke_authority
RevokeBootstrap(b) ==
    IF Live(b) \/ b.state = "absent" THEN [b EXCEPT !.state = "revoked"] ELSE b

RevokeSession(s) == IF s.state = "active" THEN [s EXCEPT !.state = "revoked"] ELSE s

\* notify_waiters wakes whoever has made its future.
Woken == [w \in Waiters |-> IF notified[w] = "armed" THEN "woken" ELSE notified[w]]

\* activate_session
Activated ==
    [state |-> "active", absolute |-> clock + AbsoluteTTL, idle |-> clock + IdleTTL, start |-> clock]

\* lock_state of a poisoned mutex revokes everything and answers nothing.
LockPoisoned ==
    /\ Free
    /\ poisoned
    /\ boot' = RevokeBootstrap(boot)
    /\ session' = RevokeSession(session)
    /\ notified' = Woken
    /\ UNCHANGED poisoned

Locked == Free /\ ~poisoned

-----------------------------------------------------------------------------
(* Bootstrap and exchange. *)

MayRegister == boot.state = "absent"

RegisterBootstrap(code) ==
    /\ Locked
    /\ MayRegister
    /\ clock + BootstrapTTL + AbsoluteTTL <= MaxClock   \* bound: every deadline can pass
    /\ boot' = [state |-> "pending", code |-> code, deadline |-> clock + BootstrapTTL,
                claimed |-> FALSE]
    /\ notified' = Woken
    /\ UNCHANGED <<clock, session, holder, poisoned, terminal, exch, post, main, durable, answers,
                   human>>

MayClaim(b, code) == Live(b) /\ ~b.claimed /\ b.code = code

\* exchange, first critical section: one request claims the code, and opens the session if the
\* terminal has verified the code already.
Claim(e, code) ==
    LET b == ExpireBootstrap(boot)
        claimed == [b EXCEPT !.claimed = TRUE]
    IN  /\ exch[e].pc = "idle"
        /\ Locked
        /\ \/ /\ ~MayClaim(b, code)
              /\ boot' = b
              /\ exch' = [exch EXCEPT ![e].pc = "refused"]
              /\ UNCHANGED <<session, notified>>
           \/ /\ MayClaim(b, code) /\ b.state = "pending"
              /\ boot' = claimed
              /\ exch' = [exch EXCEPT ![e] = [pc |-> "arm", code |-> code]]
              /\ UNCHANGED <<session, notified>>
           \/ /\ MayClaim(b, code) /\ b.state = "verified"
              /\ boot' = [claimed EXCEPT !.state = "exchanged"]
              /\ session' = Activated
              /\ exch' = [exch EXCEPT ![e] = [pc |-> "arm", code |-> code]]
              /\ UNCHANGED notified
           \/ /\ MayClaim(b, code) /\ b.state = "verified" /\ MayFail
              /\ boot' = RevokeBootstrap(claimed)
              /\ session' = RevokeSession(session)
              /\ notified' = Woken
              /\ exch' = [exch EXCEPT ![e].pc = "refused"]
        /\ UNCHANGED <<clock, holder, poisoned, terminal, post, main, durable, answers, human>>

ExchangeArm(e) ==
    /\ exch[e].pc = "arm"
    /\ main \notin {"exited", "failed"}
    /\ notified' = [notified EXCEPT ![e] = "armed"]
    /\ exch' = [exch EXCEPT ![e].pc = "check"]
    /\ UNCHANGED <<clock, boot, session, poisoned, holder, terminal, post, main, durable, answers,
                   human>>

\* exchange, the loop: answer, wait, or give up.
ExchangeCheck(e) ==
    LET b == ExpireBootstrap(boot)
        s == ExpireSession(session)
        done == b.state = "exchanged" /\ s.state = "active"
    IN  /\ exch[e].pc = "check"
        /\ Locked
        /\ boot' = b
        /\ session' = s
        /\ exch' = [exch EXCEPT ![e].pc = CASE done -> "answered"
                                            [] b.state = "pending" -> "wait"
                                            [] OTHER -> "refused"]
        /\ answers' = IF done THEN answers + 1 ELSE answers
        /\ UNCHANGED <<clock, poisoned, notified, holder, terminal, post, main, durable, human>>

\* The select of the loop: woken, or slept until the deadline and expired what is pending.
ExchangeWake(e) ==
    /\ exch[e].pc = "wait"
    /\ \/ notified[e] = "woken" /\ UNCHANGED <<boot, notified>>
       \/ /\ Locked
          /\ clock >= boot.deadline
          /\ boot' = ExpireBootstrap(boot)
          /\ notified' = Woken
    /\ exch' = [exch EXCEPT ![e].pc = "arm"]
    /\ UNCHANGED <<clock, session, poisoned, holder, terminal, post, main, durable, answers, human>>

\* The page is gone: the future is dropped where it waits, and its claim stays.
ExchangeDropped(e) ==
    /\ exch[e].pc = "wait"
    /\ exch' = [exch EXCEPT ![e].pc = "dropped"]
    /\ notified' = [notified EXCEPT ![e] = "none"]
    /\ UNCHANGED <<clock, boot, session, poisoned, holder, terminal, post, main, durable, answers,
                   human>>

ExchangePoisoned(e) ==
    /\ exch[e].pc \in {"idle", "check"}
    /\ LockPoisoned
    /\ exch' = [exch EXCEPT ![e].pc = "refused"]
    /\ UNCHANGED <<clock, holder, terminal, post, main, durable, answers, human>>

-----------------------------------------------------------------------------
(* The terminal task.  A panic needs a session, so the mutex is not yet     *)
(* poisoned while the task uses it.                                         *)

TermAt(pc) == term.pc = pc

TermGoes(pc) == term' = [term EXCEPT !.pc = pc]

TermArm ==
    /\ TermAt("arm")
    /\ notified' = [notified EXCEPT !["terminal"] = "armed"]
    /\ TermGoes("check")
    /\ UNCHANGED <<clock, boot, session, poisoned, holder, echo, exch, post, main, durable,
                   answers, human>>

\* wait_for_pending
TermCheck ==
    LET b == ExpireBootstrap(boot) IN
    /\ TermAt("check")
    /\ Locked
    /\ boot' = b
    /\ TermGoes(CASE b.state = "pending" -> "enter"
                  [] b.state = "absent" -> "await"
                  [] OTHER -> "done")
    /\ UNCHANGED <<clock, session, notified, poisoned, holder, echo, exch, post, main, durable, answers, human>>

TermAwait ==
    /\ TermAt("await")
    /\ notified["terminal"] = "woken"
    /\ TermGoes("arm")
    /\ UNCHANGED <<clock, authority, holder, echo, exch, post, main, durable, answers, human>>

\* TerminalModeGuard::enter
TermEnter ==
    /\ TermAt("enter")
    /\ \/ echo' = FALSE /\ TermGoes("read")
       \/ MayFail /\ TermGoes("reject") /\ UNCHANGED echo
    /\ UNCHANGED <<clock, authority, holder, exch, post, main, durable, answers, human>>

\* read_attempt: the attempt is over or a line, an end of file or an error was read; the mode is
\* restored before anything is returned, and the guard tries again if that failed.
TermRead(typed) ==
    LET over == clock >= boot.deadline \/ boot.state # "pending" IN
    /\ TermAt("read")
    /\ Locked
    /\ typed = NoCode \/ ~over
    /\ \/ echo' = TRUE /\ term' = [pc |-> "verify", typed |-> typed]
       \/ echo' = TRUE /\ ~over /\ TermGoes("reject")
       \/ MayFail /\ echo' \in BOOLEAN /\ TermGoes("reject")
    /\ UNCHANGED <<clock, authority, holder, exch, post, main, durable, answers, human>>

\* verify_terminal
TermVerify ==
    LET b == ExpireBootstrap(boot)
        right == term.pc = "verify" /\ term.typed # NoCode /\ term.typed = b.code
        status == IF term.pc = "verify" THEN "status" ELSE "done"
    IN  /\ TermAt("verify") \/ TermAt("reject")
        /\ \/ /\ Locked /\ b.state = "pending" /\ right /\ ~b.claimed
              /\ boot' = [b EXCEPT !.state = "verified"]
              /\ UNCHANGED session
           \/ /\ Locked /\ b.state = "pending" /\ right /\ b.claimed
              /\ boot' = [b EXCEPT !.state = "exchanged"]
              /\ session' = Activated
           \/ /\ Locked /\ b.state = "pending" /\ right /\ b.claimed /\ MayFail
              /\ boot' = RevokeBootstrap(b)
              /\ session' = RevokeSession(session)
           \/ /\ Locked /\ b.state = "pending" /\ ~right
              /\ boot' = [b EXCEPT !.state = "revoked"]
              /\ UNCHANGED session
           \/ /\ Locked /\ b.state # "pending"
              /\ boot' = b
              /\ UNCHANGED session
        /\ notified' = Woken
        /\ TermGoes(status)
        /\ UNCHANGED <<clock, poisoned, holder, echo, exch, post, main, durable, answers, human>>

TermStatus ==
    /\ TermAt("status")
    /\ TermGoes("done")
    /\ UNCHANGED <<clock, authority, holder, echo, exch, post, main, durable, answers, human>>

-----------------------------------------------------------------------------
(* Requests of the page under its session. *)

Ends(p, pc) ==
    /\ post' = [post EXCEPT ![p] = [NoPost EXCEPT !.pc = pc]]
    /\ holder' = Nobody
    /\ human' = human \ {p}

\* session_lease: a valid session has its idle deadline moved, never past the absolute one.
Refreshed(s) ==
    [s EXCEPT !.idle = IF clock + IdleTTL < s.absolute THEN clock + IdleTTL ELSE s.absolute]

\* require_session; without the secret, or once it is too late, the request is refused.
Lease(p, secret, approver, next) ==
    LET s == ExpireSession(session)
        ok == secret /\ s.state = "active"
    IN  /\ post[p].pc = "idle"
        /\ secret => answers > 0
        /\ Locked
        /\ session' = IF ok THEN Refreshed(s) ELSE s
        /\ IF ok THEN /\ post' = [post EXCEPT ![p] = [NoPost EXCEPT !.pc = next,
                                                                    !.approver = approver]]
                      /\ holder' = p
                      /\ human' = IF registry = "human" THEN human \cup {p} ELSE human
           ELSE Ends(p, "refused")
        /\ UNCHANGED <<clock, boot, poisoned, notified, terminal, exch, main, durable, answers>>

LeasePoisoned(p) ==
    /\ post[p].pc \in {"idle", "revoke"}
    /\ LockPoisoned
    /\ Ends(p, "refused")
    /\ UNCHANGED <<clock, terminal, exch, main, durable, answers>>

\* list_approvals and get_approval take the lease, read, and let go of it.
Read(p) ==
    /\ post[p].pc = "read"
    /\ Ends(p, "idle")
    /\ UNCHANGED <<clock, authority, terminal, exch, main, durable, answers>>

\* post_revoke lets go of its lease before it takes the mutex again.
RevokeReleases(p) ==
    /\ post[p].pc = "revoking"
    /\ post' = [post EXCEPT ![p].pc = "revoke"]
    /\ holder' = Nobody
    /\ human' = human \ {p}
    /\ UNCHANGED <<clock, authority, terminal, exch, main, durable, answers>>

Revoke(p) ==
    LET s == ExpireSession(session) IN
    /\ post[p].pc = "revoke"
    /\ Locked
    /\ session' = RevokeSession(s)
    /\ Ends(p, IF s.state = "active" THEN "done" ELSE "refused")
    /\ UNCHANGED <<clock, boot, poisoned, notified, terminal, exch, main, durable, answers>>

\* post_decision loads the registry under the lease.
LoadRegistry(p) ==
    /\ post[p].pc = "registry"
    /\ \/ /\ post' = [post EXCEPT ![p].pc = "review", ![p].governance = registry]
          /\ UNCHANGED <<holder, human>>
       \/ MayFail /\ Ends(p, "refused")
    /\ UNCHANGED <<clock, authority, terminal, exch, main, durable, answers>>

\* build_approval_review: what keeps the request from being actionable.
Blocked(governance) ==
    {reason \in {"decided", "expired", "governance", "not waiting"} :
        \/ reason = "decided" /\ request.decision # Nobody
        \/ reason = "expired" /\ clock > RequestExpiry
        \/ reason = "governance" /\ governance # "human"
        \/ reason = "not waiting" /\ ~request.waits}

ApproverMatches(approver) == RequiredApprover = Nobody \/ approver = RequiredApprover

\* Mutant of Review: the lease ends with the review.
ReviewReleases(p) ==
    /\ post[p].pc = "review"
    /\ IF Blocked(post[p].governance) = {} /\ ApproverMatches(post[p].approver)
       THEN post' = [post EXCEPT ![p].pc = "sign"] /\ holder' = Nobody /\ UNCHANGED human
       ELSE Ends(p, "refused")
    /\ UNCHANGED <<clock, authority, terminal, exch, main, durable, answers>>

Review(p) ==
    /\ post[p].pc = "review"
    /\ IF Blocked(post[p].governance) = {} /\ ApproverMatches(post[p].approver)
       THEN post' = [post EXCEPT ![p].pc = "sign"] /\ UNCHANGED <<holder, human>>
       ELSE Ends(p, "refused")
    /\ UNCHANGED <<clock, authority, terminal, exch, main, durable, answers>>

\* sign_approval_decision, up to the signature: it looks at the store once more.
Signable(approver) ==
    /\ request.decision = Nobody
    /\ request.waits
    /\ ApproverMatches(approver)
    /\ clock <= RequestExpiry

Sign(p) ==
    /\ post[p].pc = "sign"
    /\ IF Signable(post[p].approver)
       THEN post' = [post EXCEPT ![p].pc = "save"] /\ UNCHANGED <<holder, human>>
       ELSE Ends(p, "refused")
    /\ UNCHANGED <<clock, authority, terminal, exch, main, durable, answers>>

\* save_approval_decision: one decision, and none once the trace is sealed.
Insertable == request.decision = Nobody /\ ~request.sealed

Save(p) ==
    /\ post[p].pc = "save"
    /\ request' = IF Insertable THEN [request EXCEPT !.decision = p] ELSE request
    /\ Ends(p, IF Insertable THEN "done" ELSE "refused")
    /\ UNCHANGED <<clock, authority, terminal, exch, main, registry, edits, cli, answers>>

\* A panic unwinds through the lease and poisons the mutex.
Panic(p) ==
    /\ MayPanic
    /\ holder = p
    /\ poisoned' = TRUE
    /\ Ends(p, "refused")
    /\ UNCHANGED <<clock, boot, session, notified, terminal, exch, main, durable, answers>>

-----------------------------------------------------------------------------
(* The command, and what goes on beside it. *)

Signal ==
    /\ main = "serving"
    /\ main' = "revoking"
    /\ UNCHANGED <<clock, authority, holder, terminal, exch, post, durable, answers, human>>

\* revoke_all waits for the mutex, poisoned or not.
RevokeAll ==
    /\ main = "revoking"
    /\ holder = Nobody
    /\ boot' = RevokeBootstrap(boot)
    /\ session' = RevokeSession(session)
    /\ notified' = Woken
    /\ main' = "joining"
    /\ UNCHANGED <<clock, poisoned, holder, terminal, exch, post, durable, answers, human>>

Joined == term.pc = "done"

\* The terminal task is awaited; then the terminal is restored once more.
Exit ==
    /\ main = "joining"
    /\ Joined
    /\ \/ main' = "exited" /\ echo' = TRUE
       \/ MayFail /\ main' = "failed" /\ echo' \in {echo, TRUE}
    /\ UNCHANGED <<clock, authority, holder, term, exch, post, durable, answers, human>>

EditRegistry ==
    /\ edits < MaxEdits
    /\ edits' = edits + 1
    /\ registry' = IF registry = "human" THEN "other" ELSE "human"
    /\ human' = IF registry' = "human" THEN human \cup {p \in Posts : holder = p} ELSE human
    /\ UNCHANGED <<clock, authority, holder, terminal, exch, post, main, request, cli, answers>>

\* The run that waits is cancelled, with or without an event that seals its trace.
RunEnds(sealed) ==
    /\ request.waits
    /\ request' = [request EXCEPT !.waits = FALSE, !.sealed = sealed]
    /\ UNCHANGED <<clock, authority, holder, terminal, exch, post, main, registry, edits, cli,
                   answers, human>>

\* `proof approval approve` and `deny`, in a process of their own.
CliSign(approver) ==
    /\ cli.pc = "idle"
    /\ cli' = [cli EXCEPT !.pc = IF Signable(approver) THEN "save" ELSE "refused",
                          !.approver = approver]
    /\ UNCHANGED <<clock, authority, holder, terminal, exch, post, main, registry, edits, request,
                   answers, human>>

CliSave ==
    /\ cli.pc = "save"
    /\ request' = IF Insertable THEN [request EXCEPT !.decision = "cli"] ELSE request
    /\ cli' = [cli EXCEPT !.pc = "done"]
    /\ UNCHANGED <<clock, authority, holder, terminal, exch, post, main, registry, edits, answers,
                   human>>

Tick ==
    /\ clock < MaxClock
    /\ clock' = clock + 1
    /\ UNCHANGED <<authority, holder, terminal, exch, post, main, durable, answers, human>>

TermStep ==
    \/ TermArm \/ TermCheck \/ TermAwait \/ TermEnter
    \/ \E typed \in Codes \cup {NoCode} : TermRead(typed)
    \/ TermVerify \/ TermStatus

ExchangeStep(e) == ExchangeArm(e) \/ ExchangeCheck(e) \/ ExchangeWake(e) \/ ExchangePoisoned(e)

PostStep(p) ==
    \/ Read(p) \/ RevokeReleases(p) \/ Revoke(p) \/ LeasePoisoned(p)
    \/ LoadRegistry(p) \/ Review(p) \/ Sign(p) \/ Save(p) \/ Panic(p)

Next ==
    \/ \E code \in Codes : RegisterBootstrap(code)
    \/ \E e \in Exchangers, code \in Codes : Claim(e, code)
    \/ \E e \in Exchangers : ExchangeStep(e) \/ ExchangeDropped(e)
    \/ TermStep
    \/ \E p \in Posts, secret \in BOOLEAN, approver \in Approvers,
          next \in {"read", "revoking", "registry"} : Lease(p, secret, approver, next)
    \/ \E p \in Posts : PostStep(p)
    \/ Signal \/ RevokeAll \/ Exit
    \/ EditRegistry
    \/ \E sealed \in BOOLEAN : RunEnds(sealed)
    \/ \E approver \in Approvers : CliSign(approver)
    \/ CliSave
    \/ Tick

Spec == Init /\ [][Next]_vars

-----------------------------------------------------------------------------
(* Properties. *)

TypeOK ==
    /\ clock \in 0..MaxClock
    /\ boot.state \in {"absent", "pending", "verified", "exchanged", "revoked", "expired"}
    /\ session.state \in {"absent", "active", "revoked", "expired_absolute", "expired_idle"}
    /\ session.idle <= session.absolute
    /\ holder \in Posts => post[holder].pc \in {"read", "revoking", "registry", "review", "sign",
                                                "save"}
    /\ boot.state = "absent" => session.state = "absent"

\* exchange: the session secret leaves the process at most once, and only after the code that the
\* page registered was typed at the terminal.
SecretLeavesOnce ==
    /\ answers <= 1
    /\ answers = 1 => term.typed # NoCode /\ term.typed = boot.code

\* post_decision: a decision of the console commits while its session is active; a revocation or a
\* shutdown comes before the lease or after the commit.
DecisionUnderSession ==
    [][\A p \in DOMAIN post : post[p].pc = "save" /\ request'.decision # request.decision =>
           session.state = "active" /\ main \in {"serving", "revoking"}]_vars

=============================================================================
