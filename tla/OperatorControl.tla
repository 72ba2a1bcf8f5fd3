--------------------------- MODULE OperatorControl ---------------------------
(***************************************************************************)
(* The operator control process: the authority that issues challenges and  *)
(* sessions, the terminal ceremony in which the human signs a challenge,   *)
(* and the router whose requests run beside each other.                    *)
(*                                                                         *)
(* OperatorAuthAuthority keeps one challenge and one session behind one    *)
(* lock, so each of its methods is one step.  A request takes that lock    *)
(* several times and is interleaved with the others in between.  A token   *)
(* is named by the session it was issued for, a client nonce by the        *)
(* browser that drew it.  What the rate buckets answer is left open here;  *)
(* RateBuckets models them.                                                *)
(***************************************************************************)
EXTENDS Integers, Sequences, FiniteSets

CONSTANTS
    Requests,      \* slots for requests that are served beside each other
    Browsers,      \* browser tabs, each with its own client nonce
    NoChallenge, NoSession,
    Enrolled,      \* capabilities of the workspace and its human
    Asked,         \* capability sets a browser asks for
    ChallengeTTL,  \* 120 s
    IdleTTL,       \* 300 s
    AbsoluteTTL,   \* 900 s
    MayFail,       \* whether clock, entropy, audit and handler may fail
    WallMoves,     \* whether the UTC clock may be set
    MaxTick,       \* bound: how far the monotonic clock runs
    MaxChallenges  \* bound: challenges issued

VARIABLES
    tick,       \* monotonic_millis
    utc,        \* trusted_utc_now
    pending,    \* the pending challenge
    session,    \* the active session
    audit,      \* authority events and session revocations
    me,         \* the requests
    ceremony,   \* the ceremony at the controlling terminal
    echo,       \* whether the terminal echoes
    fatal,      \* fatal_shutdown
    phase,      \* of the server: serving, draining, stopped
    confirmed,  \* ghost: challenges whose code the human typed
    spent,      \* ghost: challenges whose ceremony failed
    failed      \* ghost: the authority was cleared by a failure

clocks == <<tick, utc>>
authority == <<pending, session, audit, failed>>
terminal == <<ceremony, echo, confirmed, spent>>
server == <<fatal, phase>>
vars == <<clocks, authority, me, terminal, server>>

Event(kind, challenge, id, related) ==
    [kind |-> kind, challenge |-> challenge, session |-> id, related |-> related]

Count(kinds) == Cardinality({i \in DOMAIN audit : audit[i].kind \in kinds})

Granting == {"session_issued", "session_replaced"}
NewChallenge == Count({"session_challenge_issued"}) + 1
NewSession == Count(Granting) + 1

-----------------------------------------------------------------------------
(* OperatorAuthAuthority. *)

\* clear_unavailable
ClearUnavailable ==
    /\ MayFail
    /\ pending' = NoChallenge
    /\ session' = NoSession
    /\ failed' = TRUE
    /\ UNCHANGED audit

\* A deadline that is reached has passed, on either clock.
ChallengeLive ==
    /\ pending # NoChallenge
    /\ tick < pending.expiry
    /\ utc < pending.expires_at

\* intersect_capabilities; enrolled, workspace and supported sets are one.
Granted(requested) == requested \cap Enrolled

IssueChallenge(b, requested, reply) ==
    \/ /\ Granted(requested) = {}
       /\ reply = "invalid_request"
       /\ UNCHANGED authority
    \/ /\ Granted(requested) # {}
       /\ reply = "unavailable"
       /\ ClearUnavailable
    \/ /\ Granted(requested) # {}
       /\ ChallengeLive
       /\ reply = "challenge_pending"
       /\ UNCHANGED authority
    \/ /\ Granted(requested) # {}
       /\ ~ChallengeLive
       /\ NewChallenge <= MaxChallenges
       /\ reply = "created"
       /\ audit' = Append(audit, Event("session_challenge_issued", NewChallenge, 0, 0))
       /\ pending' = [id |-> NewChallenge, nonce |-> b, granted |-> Granted(requested),
                      expiry |-> tick + ChallengeTTL, expires_at |-> utc + ChallengeTTL,
                      attested |-> FALSE]
       /\ UNCHANGED <<session, failed>>

\* Whatever is wrong with the attestation, the challenge that is pending is dropped.
SubmitAttestation(c, reply) ==
    \/ reply = "unavailable" /\ ClearUnavailable
    \/ /\ IF ChallengeLive /\ ~pending.attested /\ pending.id = c
          THEN pending' = [pending EXCEPT !.attested = TRUE] /\ reply = "attested"
          ELSE pending' = NoChallenge /\ reply = "authentication_required"
       /\ UNCHANGED <<session, audit, failed>>

ConsumeFailedChallenge(c) ==
    /\ pending' = IF pending # NoChallenge /\ pending.id = c THEN NoChallenge ELSE pending
    /\ UNCHANGED <<session, audit, failed>>

\* The session that a valid exchange opens.
NewActiveSession ==
    [id |-> NewSession, granted |-> pending.granted,
     absolute |-> tick + AbsoluteTTL, idle |-> tick + IdleTTL]

ActiveId == IF session = NoSession THEN 0 ELSE session.id

ExchangeValid(b, c) ==
    /\ ChallengeLive
    /\ pending.id = c
    /\ pending.nonce = b
    /\ pending.attested

\* The challenge is taken whether or not it is valid.
Exchange(b, c, reply) ==
    \/ reply = "unavailable" /\ ClearUnavailable
    \/ /\ ~ExchangeValid(b, c)
       /\ reply = "authentication_required"
       /\ pending' = NoChallenge
       /\ UNCHANGED <<session, audit, failed>>
    \/ /\ ExchangeValid(b, c)
       /\ reply = "created"
       /\ pending' = NoChallenge
       /\ session' = NewActiveSession
       /\ audit' = Append(audit, Event(IF session = NoSession THEN "session_issued"
                                       ELSE "session_replaced", c, NewSession, ActiveId))
       /\ UNCHANGED failed

Expired ==
    session # NoSession /\ (tick >= session.absolute \/ tick >= session.idle)

Lesser(a, b) == IF a <= b THEN a ELSE b

RefreshedIdle == Lesser(tick + IdleTTL, session.absolute)

\* authenticate_locked without an answer of its own: the session this token is good for.
Authentic(token, required) ==
    /\ session # NoSession
    /\ ~Expired
    /\ session.id = token
    /\ required \subseteq session.granted

\* Mutant of Refuse: an expired session is dropped without an event.
RefuseSilently(token, required, reply) ==
    /\ ~Authentic(token, required)
    /\ session' = IF Expired THEN NoSession ELSE session
    /\ reply = IF ~Expired /\ session # NoSession /\ session.id = token
               THEN "capability_required" ELSE "authentication_required"
    /\ UNCHANGED <<pending, audit, failed>>

\* authenticate_locked says no; a session that is found expired is taken away and reported.
Refuse(token, required, reply) ==
    /\ ~Authentic(token, required)
    /\ session' = IF Expired THEN NoSession ELSE session
    /\ audit' = IF Expired THEN Append(audit, Event("session_expired", 0, session.id, 0))
                ELSE audit
    /\ reply = IF ~Expired /\ session # NoSession /\ session.id = token
               THEN "capability_required" ELSE "authentication_required"
    /\ UNCHANGED <<pending, failed>>

\* authorize_with and authorize_any_with, with a callback that only copies the session.
Authorize(token, required, reply) ==
    \/ reply = "unavailable" /\ ClearUnavailable
    \/ Refuse(token, required, reply)
    \/ /\ Authentic(token, required)
       /\ reply = "ok"
       /\ session' = [session EXCEPT !.idle = RefreshedIdle]
       /\ UNCHANGED <<pending, audit, failed>>

\* authorize_with around a handler: the idle deadline moves only when it returns a response.
AuthorizeHandler(token, required, reply) ==
    \/ reply = "unavailable" /\ ClearUnavailable
    \/ Refuse(token, required, reply)
    \/ /\ Authentic(token, required)
       /\ reply \in {"handled"} \cup (IF MayFail THEN {"handler_503"} ELSE {})
       /\ session' = [session EXCEPT !.idle = RefreshedIdle]
       /\ UNCHANGED <<pending, audit, failed>>
    \/ /\ Authentic(token, required)
       /\ MayFail
       /\ reply = "handler_error"
       /\ UNCHANGED authority

Revocation == Append(audit, Event("session_revoked", 0, session.id, 0))

\* revoke_with: the handler records the revocation; when it fails it may have recorded it.
Revoke(token, reply) ==
    \/ reply = "unavailable" /\ ClearUnavailable
    \/ Refuse(token, {}, reply)
    \/ /\ Authentic(token, {})
       /\ reply = "handled"
       /\ session' = NoSession
       /\ audit' = Revocation
       /\ UNCHANGED <<pending, failed>>
    \/ /\ Authentic(token, {})
       /\ MayFail
       /\ reply = "handler_error"
       /\ audit' \in {audit, Revocation}
       /\ pending' = NoChallenge
       /\ session' = NoSession
       /\ failed' = TRUE

\* invalidate_for_shutdown
InvalidateForShutdown ==
    \/ ClearUnavailable
    \/ /\ audit' = Append(audit, Event("control_shutdown", 0, 0, 0))
       /\ pending' = NoChallenge
       /\ session' = NoSession
       /\ UNCHANGED failed

-----------------------------------------------------------------------------
(* The router.  A request is classified, then goes through its checks in order. *)

Required(route) ==
    CASE route = "read" -> {"run_read"}
      [] route = "command" -> {"run_read", "run_cancel"}
      [] OTHER -> {}

Public == {"challenge", "exchange"}
Idle == [pc |-> "idle", route |-> "none", token |-> 0, named |-> 0, from |-> NoChallenge,
         asks |-> {}, reply |-> "none"]

Goes(q, pc) == me' = [me EXCEPT ![q].pc = pc]
Ends(q, reply) == me' = [me EXCEPT ![q] = [Idle EXCEPT !.reply = reply]]

\* fatal_unavailable raises the flag only after the lock is let go.
Answers(q, reply) ==
    IF reply \in {"unavailable", "handler_503", "handler_error"}
    THEN me' = [me EXCEPT ![q].pc = "failing", ![q].reply = reply]
    ELSE Ends(q, reply)

\* dispatch_inner and classify.
Arrive(q, request) ==
    /\ me[q].pc = "idle"
    /\ phase = "serving"
    /\ IF fatal THEN Ends(q, "stopping")
       ELSE me' = [me EXCEPT ![q] = [request EXCEPT !.pc = IF request.route \in Public THEN "rate"
                                                           ELSE "authenticate"]]
    /\ UNCHANGED <<clocks, authority, terminal, server>>

\* Malformed: an origin, media type, size, query or body the route does not take.
Malformed(q) ==
    /\ \/ me[q].route \in Public /\ me[q].pc \in {"rate", "act"}
       \/ me[q].route = "read" /\ me[q].pc = "capability"
       \/ me[q].pc = "decode"
    /\ Ends(q, "invalid_request")
    /\ UNCHANGED <<clocks, authority, terminal, server>>

\* authorize_any before anything else of a protected request is read.
Authenticate(q) ==
    /\ me[q].pc = "authenticate"
    /\ \E reply \in {"ok", "unavailable", "authentication_required", "capability_required"} :
           /\ Authorize(me[q].token, {}, reply)
           /\ IF reply = "ok" THEN Goes(q, "rate") ELSE Answers(q, reply)
    /\ UNCHANGED <<clocks, terminal, server>>

\* What consume_public_rate and consume_protected_rate answer; an unknown route ends here.
Rate(q) ==
    /\ me[q].pc = "rate"
    /\ \/ Goes(q, IF me[q].route \in Public THEN "act" ELSE "capability") /\ me[q].route # "unknown"
       \/ Ends(q, "not_found") /\ me[q].route = "unknown"
       \/ Ends(q, "rate_limited")
       \/ MayFail /\ Answers(q, "unavailable")
    /\ UNCHANGED <<clocks, authority, terminal, server>>

\* The public session routes.
Act(q) ==
    /\ me[q].pc = "act"
    /\ \E reply \in {"created", "invalid_request", "challenge_pending", "unavailable",
                     "authentication_required"} :
           /\ IF me[q].route = "challenge" THEN IssueChallenge(me[q].from, me[q].asks, reply)
              ELSE Exchange(me[q].from, me[q].named, reply)
           /\ Answers(q, reply)
    /\ UNCHANGED <<clocks, terminal, server>>

\* authorize_required
CheckCapability(q) ==
    /\ me[q].pc = "capability"
    /\ \E reply \in {"ok", "unavailable", "authentication_required", "capability_required"} :
           /\ Authorize(me[q].token, Required(me[q].route), reply)
           /\ IF reply = "ok" THEN Goes(q, "decode") ELSE Answers(q, reply)
    /\ UNCHANGED <<clocks, terminal, server>>

\* The body arrives and is decoded; a command names the session it was written for.
DecodeCommand(q) ==
    /\ me[q].pc = "decode"
    /\ IF me[q].route = "read" \/ me[q].named = me[q].token THEN Goes(q, "invoke")
       ELSE Ends(q, "invalid_request")
    /\ UNCHANGED <<clocks, authority, terminal, server>>

\* Mutant of InvokeHandler: the session is not looked at again after the body was read.
InvokeHandlerUnchecked(q) ==
    /\ me[q].pc = "invoke"
    /\ Answers(q, "handled")
    /\ UNCHANGED <<clocks, authority, terminal, server>>

\* invoke_handler runs the handler under the authority lock.
InvokeHandler(q) ==
    /\ me[q].pc = "invoke"
    /\ \E reply \in {"handled", "handler_503", "handler_error", "unavailable",
                     "authentication_required", "capability_required"} :
           /\ IF me[q].route = "revoke" THEN Revoke(me[q].token, reply)
              ELSE AuthorizeHandler(me[q].token, Required(me[q].route), reply)
           /\ Answers(q, reply)
    /\ UNCHANGED <<clocks, terminal, server>>

RaiseFatal(q) ==
    /\ me[q].pc = "failing"
    /\ fatal' = TRUE
    /\ Ends(q, me[q].reply)
    /\ UNCHANGED <<clocks, authority, terminal, phase>>

\* The requests that a slot may carry.
NewRequests ==
    [pc : {"idle"}, route : {"challenge"}, token : {0}, named : {0}, from : Browsers,
     asks : Asked, reply : {"none"}]
    \cup [pc : {"idle"}, route : {"exchange"}, token : {0}, named : 1..(NewChallenge - 1),
          from : Browsers, asks : {{}}, reply : {"none"}]
    \cup [pc : {"idle"}, route : {"read", "unknown"}, token : 0..(NewSession - 1), named : {0},
          from : {NoChallenge}, asks : {{}}, reply : {"none"}]
    \cup [pc : {"idle"}, route : {"command", "revoke"}, token : 0..(NewSession - 1),
          named : 1..(NewSession - 1), from : {NoChallenge}, asks : {{}}, reply : {"none"}]

Step(q) ==
    \/ Malformed(q) \/ Authenticate(q) \/ Rate(q) \/ Act(q) \/ CheckCapability(q)
    \/ DecodeCommand(q) \/ InvokeHandler(q) \/ RaiseFatal(q)

-----------------------------------------------------------------------------
(* complete_challenge_ceremony, at the one controlling terminal. *)

NoCeremony == [pc |-> "idle", challenge |-> 0, restored |-> TRUE]

\* set_echo: how the terminal is left, and whether the call says so.
SetEcho(enabled) ==
    {[echo |-> enabled, ok |-> TRUE]} \cup
        (IF MayFail THEN [echo : BOOLEAN, ok : {FALSE}] ELSE {})

\* read_confirmation: the code of the challenge, another line, or no line in time.
Typed == {"code", "other", "nothing"}

\* The prompt is written and echo turned off.  When that fails the guard restores it once more.
StartCeremony ==
    /\ ceremony.pc = "idle"
    /\ ceremony.restored
    /\ pending # NoChallenge
    /\ pending.id \notin confirmed \cup spent
    /\ \E off \in SetEcho(FALSE) :
           /\ echo' = off.echo
           /\ ceremony' = [pc |-> IF off.ok THEN "reading" ELSE "dropping",
                           challenge |-> pending.id, restored |-> off.ok \/ off.echo]
    /\ UNCHANGED <<clocks, authority, me, confirmed, spent, server>>

\* The echo is restored before the line is compared; a failure is tried again but not forgiven.
ReadConfirmation ==
    /\ ceremony.pc = "reading"
    /\ \E typed \in Typed, on \in SetEcho(TRUE) :
           LET accepted == on.ok /\ typed = "code" IN
           /\ echo' = on.echo
           /\ ceremony' = [ceremony EXCEPT !.pc = IF accepted THEN "signing" ELSE "dropping",
                                           !.restored = on.ok]
           /\ confirmed' = IF accepted THEN confirmed \cup {ceremony.challenge} ELSE confirmed
    /\ UNCHANGED <<clocks, authority, me, spent, server>>

\* sign_challenge loads the key of the human for this one signature.
SignChallenge ==
    /\ ceremony.pc = "signing"
    /\ \/ ceremony' = [ceremony EXCEPT !.pc = "submitting"]
       \/ MayFail /\ ceremony' = [ceremony EXCEPT !.pc = "dropping"]
    /\ UNCHANGED <<clocks, authority, me, echo, confirmed, spent, server>>

Submit ==
    /\ ceremony.pc = "submitting"
    /\ \E reply \in {"attested", "authentication_required", "unavailable"} :
           /\ SubmitAttestation(ceremony.challenge, reply)
           /\ ceremony' = IF reply = "attested" THEN NoCeremony
                          ELSE [ceremony EXCEPT !.pc = "dropping"]
    /\ UNCHANGED <<clocks, me, echo, confirmed, spent, server>>

\* ChallengeAttempt is dropped without having been completed.
DropAttempt ==
    /\ ceremony.pc = "dropping"
    /\ ConsumeFailedChallenge(ceremony.challenge)
    /\ ceremony' = [NoCeremony EXCEPT !.restored = ceremony.restored]
    /\ spent' = spent \cup {ceremony.challenge}
    /\ UNCHANGED <<clocks, me, echo, confirmed, server>>

Ceremony == StartCeremony \/ ReadConfirmation \/ SignChallenge \/ Submit \/ DropAttempt

-----------------------------------------------------------------------------
(* serve_until, the clocks and the specification. *)

\* A signal, or the flag, stops the listener.
BeginDrain ==
    /\ phase = "serving"
    /\ phase' = "draining"
    /\ UNCHANGED <<clocks, authority, me, terminal, fatal>>

\* The listener has drained.
Stop ==
    /\ phase = "draining"
    /\ \A q \in Requests : me[q].pc = "idle"
    /\ InvalidateForShutdown
    /\ phase' = "stopped"
    /\ UNCHANGED <<clocks, me, terminal, fatal>>

Tick ==
    /\ tick < MaxTick
    /\ tick' = tick + 1
    /\ utc' = utc + 1
    /\ UNCHANGED <<authority, me, terminal, server>>

\* The UTC clock is set.
SetWall ==
    /\ WallMoves
    /\ utc' \in 0..MaxTick
    /\ UNCHANGED <<tick, authority, me, terminal, server>>

Init ==
    /\ tick = 0 /\ utc = 0
    /\ pending = NoChallenge
    /\ session = NoSession
    /\ audit = <<>>
    /\ failed = FALSE
    /\ me = [q \in Requests |-> Idle]
    /\ ceremony = NoCeremony
    /\ echo = TRUE
    /\ confirmed = {} /\ spent = {}
    /\ fatal = FALSE
    /\ phase = "serving"

Next ==
    \/ \E q \in Requests : \/ \E request \in NewRequests : Arrive(q, request)
                           \/ Step(q)
    \/ Ceremony
    \/ BeginDrain \/ Stop
    \/ Tick \/ SetWall

Spec == Init /\ [][Next]_vars

-----------------------------------------------------------------------------
(* Properties. *)

Challenges == [id : Nat, nonce : Browsers, granted : SUBSET Enrolled, expiry : Nat,
               expires_at : Nat, attested : BOOLEAN]
Sessions == [id : Nat, granted : SUBSET Enrolled, absolute : Nat, idle : Nat]

\* The state has its type.
TypeOK ==
    /\ tick \in Nat /\ utc \in Nat
    /\ pending \in Challenges \cup {NoChallenge}
    /\ session \in Sessions \cup {NoSession}
    /\ \A i \in DOMAIN audit : audit[i].session \in Nat /\ audit[i].challenge \in Nat
    /\ \A q \in Requests : me[q].pc \in {"idle", "authenticate", "rate", "act", "capability",
                                         "decode", "invoke", "failing"}
    /\ ceremony.pc \in {"idle", "reading", "signing", "submitting", "dropping"}
    /\ phase \in {"serving", "draining", "stopped"}
    /\ <<echo, fatal, failed>> \in BOOLEAN \X BOOLEAN \X BOOLEAN

\* invoke_handler: whatever happened since the request was authenticated, a handler runs only
\* for the session that is active then, before both of its deadlines, with the capabilities of
\* the route, and a command only under the session it was written for.
HandlerHoldsSession ==
    [][\A q \in DOMAIN me :
           me[q].pc = "invoke" /\ me'[q].reply \in {"handled", "handler_503", "handler_error"} =>
               /\ session # NoSession
               /\ session.id = me[q].token
               /\ tick < session.absolute
               /\ tick < session.idle
               /\ me[q].route = "command" => {"run_read", "run_cancel"} \subseteq session.granted
               /\ me[q].route \in {"command", "revoke"} => session.id = me[q].named]_vars

\* exchange and the ceremony: every session comes from a challenge that was issued before, whose
\* code the human typed at the terminal, and that opened no other session.
SessionHasConsent ==
    \A i \in DOMAIN audit : audit[i].kind \in Granting =>
        /\ audit[i].challenge \in confirmed
        /\ \E j \in 1..(i - 1) : /\ audit[j].kind = "session_challenge_issued"
                                 /\ audit[j].challenge = audit[i].challenge
        /\ \A j \in DOMAIN audit : audit[j].kind \in Granting
               /\ audit[j].challenge = audit[i].challenge => i = j

Ending == {"session_expired", "session_revoked", "control_shutdown"}

\* The authority appends before it changes: unless a failure cleared it, the session events of
\* the audit say which session is active.
AuditTellsSession ==
    LET told == {i \in DOMAIN audit : audit[i].kind \in Granting \cup Ending}
        last == CHOOSE i \in told : \A j \in told : j <= i
    IN  ~failed => ActiveId = IF told = {} \/ audit[last].kind \in Ending THEN 0
                              ELSE audit[last].session

\* revoke_with, authenticate_locked and exchange: a session that the audit says was revoked,
\* expired or replaced is never active again, also when the handler of the revocation failed.
EndedSessionStaysEnded ==
    session # NoSession =>
        \A i \in DOMAIN audit :
            /\ audit[i].kind \in Ending => audit[i].session # session.id
            /\ audit[i].related # session.id

\* contracts/operator-control-plane.md 6.3 has the browser poll the exchange immediately after
\* the challenge was issued: its poll must leave a live challenge that is not signed yet.
EarlyPollWaits ==
    [][\A q \in Requests :
           /\ me[q].pc = "act" /\ me[q].route = "exchange" /\ me'[q].reply # "invalid_request"
           /\ ChallengeLive /\ ~pending.attested
           /\ me[q].named = pending.id /\ me[q].from = pending.nonce
           => pending' # NoChallenge]_vars

\* contracts/operator-control-plane.md 6.2: an attestation that fails consumes "that challenge",
\* the one it is about, and no other.
AttestationConsumesItsOwn ==
    [][ceremony.pc = "submitting" /\ ceremony'.pc = "dropping" /\ ChallengeLive
           /\ pending.id # ceremony.challenge => pending' # NoChallenge]_vars
==============================================================================
