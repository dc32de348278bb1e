--------------------------- MODULE HuaweiSession ---------------------------
(***************************************************************************)
(* The shared MAE session of app/services/huawei_client.py: one cached     *)
(* token, one asyncio.Lock around logging in and around the handshake, the *)
(* requests that ask for headers, the keepalive task and the lifespan of   *)
(* app/main.py that starts and stops it.                                   *)
(*                                                                         *)
(* Time is a number of ticks that have passed or are left: expires_at is   *)
(* `ttl`, _last_activity is `idle`.  MAE is external: a token it issues is *)
(* honoured while it is used at least once every `Expires` ticks.          *)
(***************************************************************************)
EXTENDS Integers, Sequences

CONSTANTS
    Requests,        \* HTTP requests of this backend that call MAE
    Keepalive,       \* the huawei_keepalive_loop task
    Tokens,          \* names of MAE sessions
    None,
    Expires,         \* "expires" of the login answer: MAE's idle limit
    Margin,          \* the 30 s subtracted from it
    HandshakeAfter,  \* _HANDSHAKE_AFTER_SECONDS
    CheckPeriod,     \* _KEEPALIVE_CHECK_SECONDS
    RequestTimeout   \* request_timeout_seconds

Processes == Requests \cup {Keepalive}

ASSUME NamesAssumption ==
    Keepalive \notin Requests /\ None \notin Processes \cup Tokens

ASSUME TimesAssumption ==
    /\ {Expires, Margin, HandshakeAfter, CheckPeriod, RequestTimeout} \subseteq Nat
    /\ RequestTimeout =< Margin /\ Margin < Expires

VARIABLES
    phase,       \* of the lifespan: "serving", "closing", "stopped"
    client,      \* TRUE when _client is built
    session,     \* the token of _huawei_session, or None
    ttl,         \* ticks until expires_at, 0 when past or without a session
    idle,        \* ticks since _last_activity up to HandshakeAfter, or None
    holder,      \* who holds _session_lock, or None
    waiters,     \* the lock's queue
    pc,          \* what each process does
    token,       \* the token a process's exchange carries or obtained
    wire,        \* MAE's answer to that exchange: "none", "ok", "refused"
    elapsed,     \* ticks since that exchange was sent
    timer,       \* ticks left of the keepalive's sleep
    serverLeft,  \* ticks until MAE forgets each token, 0 when it has
    revoked      \* tokens MAE ended by itself

clientVars == <<phase, client, session, ttl, idle, holder, waiters, timer>>
exchangeVars == <<pc, token, wire, elapsed>>
maeVars == <<serverLeft, revoked>>
vars == <<clientVars, exchangeVars, maeVars>>

Exchanging == {"login", "handshake", "calling"}

TypeOK ==
    /\ phase \in {"serving", "closing", "stopped"}
    /\ client \in BOOLEAN
    /\ session \in Tokens \cup {None}
    /\ ttl \in 0..Expires
    /\ idle \in 0..HandshakeAfter \cup {None}
    /\ holder \in Processes \cup {None}
    /\ waiters \in Seq(Processes)
    /\ pc \in [Processes -> {"rest", "sleep", "queued"} \cup Exchanging]
    /\ token \in [Processes -> Tokens \cup {None}]
    /\ wire \in [Processes -> {"none", "ok", "refused"}]
    /\ elapsed \in [Processes -> 0..RequestTimeout]
    /\ timer \in 0..CheckPeriod
    /\ serverLeft \in [Tokens -> 0..Expires]
    /\ revoked \subseteq Tokens

(* Mutant of Lifetime: the session is believed as long as MAE keeps it. *)
LifetimeWithoutMargin == Expires

(* max(expires - 30, 1) *)
Lifetime == IF Expires - Margin > 1 THEN Expires - Margin ELSE 1

(* not (_huawei_session is None or time.monotonic() >= expires_at) *)
Usable == session # None /\ ttl > 0

Init ==
    /\ phase = "serving" /\ client = FALSE
    /\ session = None /\ ttl = 0 /\ idle = None
    /\ holder = None /\ waiters = <<>>
    /\ pc = [p \in Processes |-> IF p = Keepalive THEN "sleep" ELSE "rest"]
    /\ token = [p \in Processes |-> None]
    /\ wire = [p \in Processes |-> "none"]
    /\ elapsed = [p \in Processes |-> 0]
    /\ timer = CheckPeriod
    /\ serverLeft = [t \in Tokens |-> 0]
    /\ revoked = {}

-----------------------------------------------------------------------------
(* The lock and the exchanges with MAE.                                    *)

(* Mutant of LockFree: there is no lock. *)
LockAlwaysFree == TRUE

(* asyncio.Lock.acquire without waiting: unlocked and nobody queued. *)
LockFree == holder = None /\ waiters = <<>>

(* asyncio.Lock is fair: a released lock is taken by the head of the queue. *)
FirstInLine(p) ==
    /\ holder = None /\ waiters # <<>>
    /\ Head(waiters) = p /\ pc[p] = "queued"

Send(p, what, t) ==
    /\ pc' = [pc EXCEPT ![p] = what]
    /\ token' = [token EXCEPT ![p] = t]
    /\ wire' = [wire EXCEPT ![p] = "none"]
    /\ elapsed' = [elapsed EXCEPT ![p] = 0]

(* The exchange of p is over and p goes on to `next`. *)
Finish(p, next) ==
    /\ pc' = [pc EXCEPT ![p] = next]
    /\ token' = [token EXCEPT ![p] = None]
    /\ wire' = [wire EXCEPT ![p] = "none"]
    /\ elapsed' = [elapsed EXCEPT ![p] = 0]

-----------------------------------------------------------------------------
(* get_huawei_headers and the call made with the headers.                  *)

(* The body of `async with _session_lock`.  With a usable session nothing  *)
(* is awaited under the lock, and the caller sends its request at once.    *)
UseOrLogin(r) ==
    \/ /\ Usable
       /\ Send(r, "calling", session)
       /\ UNCHANGED holder
    \/ /\ ~Usable
       /\ Send(r, "login", None)
       /\ holder' = r

AskHeaders(r) ==
    /\ phase = "serving" /\ pc[r] = "rest"
    /\ client' = TRUE
    /\ \/ LockFree /\ UseOrLogin(r) /\ UNCHANGED waiters
       \/ /\ ~LockFree
          /\ waiters' = Append(waiters, r)
          /\ pc' = [pc EXCEPT ![r] = "queued"]
          /\ UNCHANGED <<holder, token, wire, elapsed>>
    /\ UNCHANGED <<phase, session, ttl, idle, timer, maeVars>>

(* Mutant of ResumeRequest: it checked the session before it waited. *)
ResumeWithoutCheck(r) ==
    /\ FirstInLine(r)
    /\ waiters' = Tail(waiters)
    /\ Send(r, "login", None)
    /\ holder' = r
    /\ UNCHANGED <<phase, client, session, ttl, idle, timer, maeVars>>

ResumeRequest(r) ==
    /\ FirstInLine(r)
    /\ waiters' = Tail(waiters)
    /\ UseOrLogin(r)
    /\ UNCHANGED <<phase, client, session, ttl, idle, timer, maeVars>>

(* A valid answer: the session is installed, the lock released and the     *)
(* request sent with the new token, without a suspension in between.       *)
LoginSucceeds(r) ==
    /\ pc[r] = "login" /\ wire[r] = "ok"
    /\ session' = token[r] /\ ttl' = Lifetime /\ idle' = 0
    /\ holder' = None
    /\ Send(r, "calling", token[r])
    /\ UNCHANGED <<phase, client, waiters, timer, maeVars>>

(* Mutant of LoginFails: the exception leaves the lock locked. *)
LoginFailsKeepingLock(r) ==
    /\ pc[r] = "login"
    /\ Finish(r, "rest")
    /\ UNCHANGED <<phase, client, session, ttl, idle, holder, waiters, timer, maeVars>>

(* A transport error, a timeout, an HTTP error or an invalid body: nothing *)
(* is cached and the exception releases the lock.                          *)
LoginFails(r) ==
    /\ pc[r] = "login"
    /\ holder' = None
    /\ Finish(r, "rest")
    /\ UNCHANGED <<phase, client, session, ttl, idle, waiters, timer, maeVars>>

(* raise_for_status passed: mark_huawei_activity, whatever the session is. *)
CallSucceeds(r) ==
    /\ pc[r] = "calling" /\ wire[r] = "ok"
    /\ idle' = 0
    /\ Finish(r, "rest")
    /\ UNCHANGED <<phase, client, session, ttl, holder, waiters, timer, maeVars>>

(* HTTP 401 is an HTTPStatusError like any other to the routes. *)
CallRefused(r) ==
    /\ pc[r] = "calling" /\ wire[r] = "refused"
    /\ Finish(r, "rest")
    /\ UNCHANGED <<clientVars, maeVars>>

CallFails(r) ==
    /\ pc[r] = "calling"
    /\ Finish(r, "rest")
    /\ UNCHANGED <<clientVars, maeVars>>

-----------------------------------------------------------------------------
(* huawei_keepalive_loop and keep_huawei_session_alive.                    *)

HandshakeDue == session # None /\ idle # None /\ idle >= HandshakeAfter

(* Mutant of CheckActivity: the handshake is sent after the lock's block. *)
CheckActivityUnlocked ==
    /\ IF HandshakeDue
        THEN Send(Keepalive, "handshake", session) /\ UNCHANGED timer
        ELSE Finish(Keepalive, "sleep") /\ timer' = CheckPeriod
    /\ UNCHANGED holder

(* The body of `async with _session_lock`: an early return, or the POST. *)
CheckActivity ==
    \/ /\ HandshakeDue
       /\ Send(Keepalive, "handshake", session)
       /\ holder' = Keepalive
       /\ UNCHANGED timer
    \/ /\ ~HandshakeDue
       /\ Finish(Keepalive, "sleep")
       /\ timer' = CheckPeriod
       /\ UNCHANGED holder

KeepaliveWakes ==
    /\ pc[Keepalive] = "sleep" /\ timer = 0
    /\ \/ LockFree /\ CheckActivity /\ UNCHANGED waiters
       \/ /\ ~LockFree
          /\ waiters' = Append(waiters, Keepalive)
          /\ pc' = [pc EXCEPT ![Keepalive] = "queued"]
          /\ UNCHANGED <<holder, token, wire, elapsed, timer>>
    /\ UNCHANGED <<phase, client, session, ttl, idle, maeVars>>

ResumeKeepalive ==
    /\ FirstInLine(Keepalive)
    /\ waiters' = Tail(waiters)
    /\ CheckActivity
    /\ UNCHANGED <<phase, client, session, ttl, idle, maeVars>>

(* The handshake is over: release the lock and sleep again. *)
EndHandshake ==
    /\ pc[Keepalive] = "handshake"
    /\ holder' = None /\ timer' = CheckPeriod
    /\ Finish(Keepalive, "sleep")
    /\ UNCHANGED <<phase, client, waiters, maeVars>>

(* The session counts as active again; expires_at is left as it was. *)
HandshakeSucceeds ==
    /\ wire[Keepalive] = "ok"
    /\ idle' = 0
    /\ UNCHANGED <<session, ttl>>
    /\ EndHandshake

(* Mutant of HandshakeRefused: a 401 is logged like any other error. *)
HandshakeRefusedLogged ==
    /\ wire[Keepalive] = "refused"
    /\ UNCHANGED <<session, ttl, idle>>
    /\ EndHandshake

HandshakeRefused ==
    /\ wire[Keepalive] = "refused"
    /\ session' = None /\ ttl' = 0 /\ idle' = None
    /\ EndHandshake

(* Another HTTP error or a transport error is only logged. *)
HandshakeFails ==
    /\ UNCHANGED <<session, ttl, idle>>
    /\ EndHandshake

-----------------------------------------------------------------------------
(* MAE: it may act on a request whose answer is lost on the way back.      *)

(* A token nobody on this side refers to any more. *)
Unused(t) == t # session /\ \A p \in Processes : token[p] # t

MaeIssues(r) ==
    /\ pc[r] = "login" /\ wire[r] = "none"
    /\ \E t \in Tokens :
        /\ Unused(t)
        /\ token' = [token EXCEPT ![r] = t]
        /\ serverLeft' = [serverLeft EXCEPT ![t] = Expires]
        /\ revoked' = revoked \ {t}
    /\ wire' = [wire EXCEPT ![r] = "ok"]
    /\ UNCHANGED <<clientVars, pc, elapsed>>

(* A call or a handshake: HTTP 401 for a token MAE has forgotten, and else *)
(* the session is renewed by being used.                                   *)
MaeServes(p) ==
    /\ pc[p] \in {"calling", "handshake"} /\ wire[p] = "none"
    /\ \/ /\ serverLeft[token[p]] > 0
          /\ serverLeft' = [serverLeft EXCEPT ![token[p]] = Expires]
          /\ wire' = [wire EXCEPT ![p] = "ok"]
       \/ /\ serverLeft[token[p]] = 0
          /\ wire' = [wire EXCEPT ![p] = "refused"]
          /\ UNCHANGED serverLeft
    /\ UNCHANGED <<clientVars, pc, token, elapsed, revoked>>

(* MAE restarts or an administrator ends a session (one that is still      *)
(* referred to here: for any other it makes no difference).                *)
MaeRevokes(t) ==
    /\ serverLeft[t] > 0 /\ ~Unused(t)
    /\ serverLeft' = [serverLeft EXCEPT ![t] = 0]
    /\ revoked' = revoked \cup {t}
    /\ UNCHANGED <<clientVars, exchangeVars>>

-----------------------------------------------------------------------------
(* Time and the lifespan.                                                  *)

Down(n) == IF n > 0 THEN n - 1 ELSE 0

(* No exchange outlives the client's timeout. *)
Tick ==
    /\ \A p \in Processes : pc[p] \in Exchanging => elapsed[p] < RequestTimeout
    /\ ttl' = Down(ttl)
    /\ idle' = IF idle = None \/ idle = HandshakeAfter THEN idle ELSE idle + 1
    /\ timer' = IF pc[Keepalive] = "sleep" THEN Down(timer) ELSE timer
    /\ elapsed' = [p \in Processes |->
                      IF pc[p] \in Exchanging THEN elapsed[p] + 1 ELSE elapsed[p]]
    /\ serverLeft' = [t \in Tokens |-> Down(serverLeft[t])]
    /\ UNCHANGED <<phase, client, session, holder, waiters, pc, token, wire, revoked>>

(* uvicorn runs the end of the lifespan when no request is left; the task  *)
(* is cancelled where it awaits, and `async with` releases the lock.       *)
CancelKeepalive ==
    /\ phase = "serving"
    /\ \A r \in Requests : pc[r] = "rest"
    /\ phase' = "closing"
    /\ Finish(Keepalive, "rest")
    /\ holder' = None /\ waiters' = <<>>
    /\ UNCHANGED <<client, session, ttl, idle, timer, maeVars>>

CloseClient ==
    /\ phase = "closing"
    /\ phase' = "stopped"
    /\ client' = FALSE
    /\ session' = None /\ ttl' = 0 /\ idle' = None
    /\ UNCHANGED <<holder, waiters, timer, exchangeVars, maeVars>>

(* The lifespan starts again: in a new process, or twice in one. *)
Startup ==
    /\ phase = "stopped"
    /\ phase' = "serving"
    /\ pc' = [pc EXCEPT ![Keepalive] = "sleep"]
    /\ timer' = CheckPeriod
    /\ UNCHANGED <<client, session, ttl, idle, holder, waiters, token, wire, elapsed, maeVars>>

EndCall(r) == CallSucceeds(r) \/ CallRefused(r) \/ CallFails(r)
EndLogin(r) == LoginSucceeds(r) \/ LoginFails(r)

Request(r) == AskHeaders(r) \/ ResumeRequest(r) \/ EndLogin(r) \/ EndCall(r)

KeepaliveTask ==
    \/ KeepaliveWakes \/ ResumeKeepalive
    \/ HandshakeSucceeds \/ HandshakeRefused \/ HandshakeFails

Mae ==
    \/ \E r \in Requests : MaeIssues(r)
    \/ \E p \in Processes : MaeServes(p)
    \/ \E t \in Tokens : MaeRevokes(t)

Lifespan == CancelKeepalive \/ CloseClient \/ Startup

Next == (\E r \in Requests : Request(r)) \/ KeepaliveTask \/ Mae \/ Tick \/ Lifespan

Spec == Init /\ [][Next]_vars

-----------------------------------------------------------------------------
(* Safety.                                                                 *)

(* Concurrent requests and the keepalive never log in or shake hands at    *)
(* the same time (_session_lock around the PUT and around the POST).       *)
AtMostOneAuthExchange ==
    \A p, q \in Processes :
        /\ pc[p] \in {"login", "handshake"}
        /\ pc[q] \in {"login", "handshake"}
        => p = q

(* A token that get_huawei_headers still hands out is alive at MAE, unless *)
(* MAE itself ended it: subtracting 30 s from "expires" covers the time    *)
(* the login answer was on its way, with no help from the handshake.       *)
UsableMeansHonoured ==
    Usable => session \in revoked \/ serverLeft[session] > 0

(* The answer to a handshake is about the session that is cached when it   *)
(* arrives: a late 401 never discards the session of a newer login.        *)
HandshakeIsOfTheSession ==
    pc[Keepalive] = "handshake" => session = token[Keepalive]

(* Once the lifespan has closed the client nothing is left behind it: no   *)
(* exchange, no lock holder and no session for the next start to inherit.  *)
ClosedIsQuiet ==
    ~client =>
        /\ session = None /\ idle = None /\ holder = None /\ waiters = <<>>
        /\ \A p \in Processes : pc[p] \notin Exchanging

(* The token is shared as SharedSession says: callers are switched to a    *)
(* new one only when the old one is over, and MAE outlives the client.     *)
Shared == INSTANCE SharedSession WITH
    current <- IF Usable THEN session ELSE None,
    honoured <- {t \in Tokens : serverLeft[t] > 0}

SharedSpec == Shared!Spec

-----------------------------------------------------------------------------
(* What the documents say and the code does not do.                        *)

(* pagination-and-errors.md: after an HTTP 401 the client authenticates    *)
(* again.  _post_mml, _huawei_request and _request_alarms keep the session. *)
RefusedTokenIsDropped ==
    [][\A r \in Requests :
          CallRefused(r) /\ token[r] = session => session' # session]_vars

(* keep_huawei_session_alive says it renews the session: a request that    *)
(* comes after the handshake would then find it usable.                    *)
RenewedSessionIsUsable ==
    [][HandshakeSucceeds => Usable']_vars

-----------------------------------------------------------------------------
(* Liveness.  Every exchange ends because the client has a timeout, the    *)
(* event loop runs what is ready, and MAE does not ignore every handshake. *)

EndOfHandshake == HandshakeSucceeds \/ HandshakeRefused \/ HandshakeFails

Fairness ==
    /\ WF_vars(Tick) /\ WF_vars(CloseClient)
    /\ \A r \in Requests :
        WF_vars(ResumeRequest(r)) /\ WF_vars(EndLogin(r)) /\ WF_vars(EndCall(r))
    /\ WF_vars(KeepaliveWakes) /\ WF_vars(ResumeKeepalive) /\ WF_vars(EndOfHandshake)
    /\ SF_vars(MaeServes(Keepalive)) /\ SF_vars(HandshakeRefused)

LiveSpec == Spec /\ Fairness

(* No request waits for the lock for ever, whatever the others and the     *)
(* keepalive do meanwhile: every login and handshake ends, the lock is fair. *)
QueuedRequestsProceed ==
    \A r \in Requests : pc[r] = "queued" ~> pc[r] \in Exchanging

(* A cached session that MAE has forgotten does not stay cached, even if   *)
(* no request ever comes: the keepalive is told 401 and drops it.          *)
DeadSessionIsDropped ==
    \A t \in Tokens :
        session = t /\ serverLeft[t] = 0 ~> session # t \/ serverLeft[t] > 0
=============================================================================
