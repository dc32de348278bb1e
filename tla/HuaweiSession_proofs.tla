------------------------ MODULE HuaweiSession_proofs ------------------------
(***************************************************************************)
(* Proofs about HuaweiSession for every set of requests and tokens and     *)
(* every choice of times that TimesAssumption allows.                      *)
(***************************************************************************)
EXTENDS HuaweiSession, TLAPS

Authenticating == {"login", "handshake"}

(* The lock is held exactly by the process that authenticates, and each    *)
(* kind of process is only ever in its own states.                         *)
LockInv ==
    /\ \A p \in Processes : pc[p] \in Authenticating <=> holder = p
    /\ \A r \in Requests : pc[r] \in {"rest", "queued", "login", "calling"}
    /\ pc[Keepalive] \in {"rest", "sleep", "queued", "handshake"}

(* What an exchange knows while it waits: a login was needed and still is, *)
(* and the token it has been issued is at least as old as the exchange.    *)
ExchangeInv ==
    /\ \A r \in Requests : pc[r] = "login" => ~Usable
    /\ \A r \in Requests : pc[r] = "login" /\ wire[r] = "ok" =>
         /\ token[r] \in Tokens
         /\ token[r] \in revoked \/ serverLeft[token[r]] + elapsed[r] >= Expires
    /\ \A p \in Processes : pc[p] \in {"calling", "handshake"} => token[p] \in Tokens

(* MAE keeps the cached session at least as long as the client believes.   *)
LifeInv ==
    /\ session = None => ttl = 0
    /\ Usable /\ session \notin revoked => serverLeft[session] >= ttl
    /\ \A t \in revoked : serverLeft[t] = 0

(* Outside the serving phase nothing runs. *)
PhaseInv ==
    phase # "serving" =>
        /\ holder = None /\ waiters = <<>>
        /\ \A p \in Processes : pc[p] = "rest"

IInv ==
    /\ TypeOK /\ LockInv /\ ExchangeInv /\ LifeInv /\ PhaseInv
    /\ HandshakeIsOfTheSession /\ ClosedIsQuiet

-----------------------------------------------------------------------------
(* Types.                                                                  *)

LEMMA LifetimeBounds == Lifetime \in 0..Expires /\ Lifetime + Margin =< Expires
BY TimesAssumption DEF Lifetime

LEMMA Times ==
    /\ Expires \in Nat /\ Margin \in Nat /\ HandshakeAfter \in Nat
    /\ CheckPeriod \in Nat /\ RequestTimeout \in Nat
    /\ RequestTimeout =< Margin /\ Margin < Expires
BY TimesAssumption

LEMMA ExceptType ==
    ASSUME NEW S, NEW T, NEW f \in [S -> T], NEW a, NEW v \in T
    PROVE  [f EXCEPT ![a] = v] \in [S -> T]
OBVIOUS

(* The types of the four variables of an exchange. *)
ExchangeTypes ==
    /\ pc \in [Processes -> {"rest", "sleep", "queued"} \cup Exchanging]
    /\ token \in [Processes -> Tokens \cup {None}]
    /\ wire \in [Processes -> {"none", "ok", "refused"}]
    /\ elapsed \in [Processes -> 0..RequestTimeout]

LEMMA SendType ==
    ASSUME ExchangeTypes, NEW p \in Processes, NEW what \in Exchanging,
           NEW t \in Tokens \cup {None}, Send(p, what, t)
    PROVE  ExchangeTypes'
BY Times DEF ExchangeTypes, Send

LEMMA FinishType ==
    ASSUME ExchangeTypes, NEW p \in Processes,
           NEW next \in {"rest", "sleep"}, Finish(p, next)
    PROVE  ExchangeTypes'
BY Times DEF ExchangeTypes, Finish

LEMMA QueueType ==
    ASSUME ExchangeTypes, NEW p \in Processes, pc' = [pc EXCEPT ![p] = "queued"],
           UNCHANGED <<token, wire, elapsed>>
    PROVE  ExchangeTypes'
BY DEF ExchangeTypes

LEMMA WaitersType ==
    ASSUME waiters \in Seq(Processes), NEW p \in Processes
    PROVE  /\ Append(waiters, p) \in Seq(Processes)
           /\ waiters # <<>> => Tail(waiters) \in Seq(Processes)
OBVIOUS

LEMMA TypeInit == Init => TypeOK
<1> SUFFICES ASSUME Init PROVE TypeOK
  OBVIOUS
<1>1. ttl \in 0..Expires /\ timer \in 0..CheckPeriod
  BY Times DEF Init
<1>2. waiters \in Seq(Processes)
  BY DEF Init
<1>3. ExchangeTypes
  BY Times DEF Init, ExchangeTypes, Exchanging
<1>4. serverLeft \in [Tokens -> 0..Expires]
  BY Times DEF Init
<1> QED BY <1>1, <1>2, <1>3, <1>4 DEF Init, TypeOK, ExchangeTypes

LEMMA TypeRequest ==
    ASSUME TypeOK, NEW r \in Requests, Request(r)
    PROVE  TypeOK'
<1>0. ExchangeTypes /\ r \in Processes
  BY DEF TypeOK, ExchangeTypes, Processes
<1>1. ASSUME UseOrLogin(r)
      PROVE  ExchangeTypes' /\ holder' \in Processes \cup {None}
  <2>1. CASE Send(r, "calling", session) /\ UNCHANGED holder
    BY <1>0, <2>1, SendType DEF TypeOK, Exchanging
  <2>2. CASE Send(r, "login", None) /\ holder' = r
    BY <1>0, <2>2, SendType DEF Exchanging
  <2> QED BY <1>1, <2>1, <2>2 DEF UseOrLogin
<1>2. CASE AskHeaders(r)
  <2>1. CASE LockFree /\ UseOrLogin(r) /\ UNCHANGED waiters
    BY <1>1, <1>2, <2>1 DEF AskHeaders, TypeOK, ExchangeTypes, maeVars
  <2>2. CASE ~UseOrLogin(r)
    BY <1>0, <1>2, <2>2, QueueType, WaitersType
       DEF AskHeaders, TypeOK, ExchangeTypes, maeVars
  <2>3. CASE ~LockFree
    BY <1>0, <1>2, <2>3, QueueType, WaitersType
       DEF AskHeaders, TypeOK, ExchangeTypes, maeVars
  <2> QED BY <1>2, <2>1, <2>2, <2>3 DEF AskHeaders
<1>3. CASE ResumeRequest(r)
  BY <1>1, <1>3, WaitersType
     DEF ResumeRequest, FirstInLine, TypeOK, ExchangeTypes, maeVars
<1>4. CASE LoginSucceeds(r)
  <2>1. ExchangeTypes'
    BY <1>0, <1>4, SendType DEF LoginSucceeds, ExchangeTypes, Exchanging
  <2> QED
    BY <1>0, <1>4, <2>1, LifetimeBounds, Times
       DEF LoginSucceeds, TypeOK, ExchangeTypes, maeVars
<1>5. CASE LoginFails(r) \/ CallSucceeds(r) \/ CallRefused(r) \/ CallFails(r)
  <2>1. ExchangeTypes'
    BY <1>0, <1>5, FinishType DEF LoginFails, CallSucceeds, CallRefused, CallFails
  <2> QED
    BY <1>5, <2>1, Times
       DEF LoginFails, CallSucceeds, CallRefused, CallFails, TypeOK, ExchangeTypes,
           clientVars, maeVars
<1> QED BY <1>2, <1>3, <1>4, <1>5 DEF Request, EndLogin, EndCall

LEMMA TypeKeepalive ==
    ASSUME TypeOK, KeepaliveTask
    PROVE  TypeOK'
<1>0. ExchangeTypes /\ Keepalive \in Processes
  BY DEF TypeOK, ExchangeTypes, Processes
<1>1. ASSUME CheckActivity
      PROVE  /\ ExchangeTypes' /\ holder' \in Processes \cup {None}
             /\ timer' \in 0..CheckPeriod
  <2>1. CASE HandshakeDue
    BY <1>0, <1>1, <2>1, SendType DEF CheckActivity, TypeOK, Exchanging
  <2>2. CASE ~HandshakeDue
    BY <1>0, <1>1, <2>2, FinishType, Times DEF CheckActivity, TypeOK
  <2> QED BY <2>1, <2>2
<1>2. CASE KeepaliveWakes
  <2>1. CASE LockFree
    BY <1>1, <1>2, <2>1 DEF KeepaliveWakes, TypeOK, ExchangeTypes, maeVars
  <2>2. CASE ~LockFree
    BY <1>0, <1>2, <2>2, QueueType, WaitersType
       DEF KeepaliveWakes, TypeOK, ExchangeTypes, maeVars
  <2> QED BY <2>1, <2>2
<1>3. CASE ResumeKeepalive
  BY <1>1, <1>3, WaitersType
     DEF ResumeKeepalive, FirstInLine, TypeOK, ExchangeTypes, maeVars
<1>4. CASE HandshakeSucceeds \/ HandshakeRefused \/ HandshakeFails
  <2>1. ExchangeTypes'
    BY <1>0, <1>4, FinishType
       DEF HandshakeSucceeds, HandshakeRefused, HandshakeFails, EndHandshake
  <2> QED
    BY <1>4, <2>1, Times
       DEF HandshakeSucceeds, HandshakeRefused, HandshakeFails, EndHandshake,
           TypeOK, ExchangeTypes, maeVars
<1> QED BY <1>2, <1>3, <1>4 DEF KeepaliveTask

LEMMA TypeMae ==
    ASSUME TypeOK, Mae
    PROVE  TypeOK'
<1> USE Times DEF TypeOK, Exchanging
<1>1. ASSUME NEW r \in Requests, MaeIssues(r) PROVE TypeOK'
  <2>1. r \in Processes
    BY DEF Processes
  <2>2. ExchangeTypes'
    BY <1>1, <2>1 DEF MaeIssues, ExchangeTypes
  <2> QED BY <1>1, <2>2 DEF MaeIssues, clientVars, ExchangeTypes
<1>2. ASSUME NEW p \in Processes, MaeServes(p) PROVE TypeOK'
  <2>1. serverLeft' \in [Tokens -> 0..Expires]
    <3>1. CASE UNCHANGED serverLeft
      BY <3>1
    <3>2. CASE serverLeft' = [serverLeft EXCEPT ![token[p]] = Expires]
      BY <3>2, ExceptType, Expires \in 0..Expires
    <3> QED BY <1>2, <3>1, <3>2 DEF MaeServes
  <2>2. ExchangeTypes'
    BY <1>2 DEF MaeServes, ExchangeTypes
  <2> QED BY <1>2, <2>1, <2>2 DEF MaeServes, clientVars, ExchangeTypes
<1>3. ASSUME NEW t \in Tokens, MaeRevokes(t) PROVE TypeOK'
  BY <1>3 DEF MaeRevokes, clientVars, exchangeVars
<1> QED BY <1>1, <1>2, <1>3 DEF Mae

LEMMA TypeTick ==
    ASSUME TypeOK, Tick
    PROVE  TypeOK'
<1> USE Times DEF TypeOK, Tick
<1>1. ttl' \in 0..Expires /\ timer' \in 0..CheckPeriod
  BY DEF Down
<1>2. idle' \in 0..HandshakeAfter \cup {None}
  OBVIOUS
<1>3. elapsed' \in [Processes -> 0..RequestTimeout]
  OBVIOUS
<1>4. serverLeft' \in [Tokens -> 0..Expires]
  BY DEF Down
<1> QED BY <1>1, <1>2, <1>3, <1>4

LEMMA TypeLifespan ==
    ASSUME TypeOK, Lifespan
    PROVE  TypeOK'
<1> USE Times DEF TypeOK, Exchanging
<1>1. CASE CancelKeepalive
  <2>1. ExchangeTypes'
    BY <1>1, FinishType DEF CancelKeepalive, ExchangeTypes, Processes
  <2> QED BY <1>1, <2>1 DEF CancelKeepalive, ExchangeTypes, maeVars
<1>2. CASE CloseClient
  <2>1. ttl' \in 0..Expires
    BY <1>2 DEF CloseClient
  <2> QED BY <1>2, <2>1 DEF CloseClient, exchangeVars, maeVars
<1>3. CASE Startup
  <2>1. ExchangeTypes'
    BY <1>3 DEF Startup, ExchangeTypes, Processes
  <2>2. timer' \in 0..CheckPeriod
    BY <1>3 DEF Startup
  <2> QED BY <1>3, <2>1, <2>2 DEF Startup, ExchangeTypes, maeVars
<1> QED BY <1>1, <1>2, <1>3 DEF Lifespan

LEMMA TypeNext == TypeOK /\ [Next]_vars => TypeOK'
<1> SUFFICES ASSUME TypeOK, [Next]_vars PROVE TypeOK'
  OBVIOUS
<1>1. CASE UNCHANGED vars
  BY <1>1 DEF TypeOK, vars, clientVars, exchangeVars, maeVars
<1> QED
  BY <1>1, TypeRequest, TypeKeepalive, TypeMae, TypeTick, TypeLifespan DEF Next

(* Every variable keeps its type, for all values of the constants. *)
THEOREM TypeCorrect == Spec => []TypeOK
BY TypeInit, TypeNext, PTL DEF Spec

-----------------------------------------------------------------------------
(* The inductive step.  TypeOK' is known from TypeNext; each lemma is for  *)
(* one action and has one step for each of the other conjuncts.            *)

LEMMA UseOrLoginKeeps ==
    ASSUME TypeOK, LockInv, ExchangeInv, NEW r \in Requests, holder = None,
           pc[r] \in {"rest", "queued"}, UseOrLogin(r),
           UNCHANGED <<session, ttl, maeVars>>
    PROVE  LockInv' /\ ExchangeInv'
<1> USE NamesAssumption DEF TypeOK, Processes, Authenticating, Usable, Send, maeVars
<1>1. CASE Usable /\ Send(r, "calling", session) /\ UNCHANGED holder
  <2>1. LockInv'
    BY <1>1 DEF LockInv
  <2>2. ExchangeInv'
    BY <1>1 DEF LockInv, ExchangeInv
  <2> QED BY <2>1, <2>2
<1>2. CASE ~Usable /\ Send(r, "login", None) /\ holder' = r
  <2>1. LockInv'
    BY <1>2 DEF LockInv
  <2>2. ExchangeInv'
    BY <1>2 DEF LockInv, ExchangeInv
  <2> QED BY <2>1, <2>2
<1> QED BY <1>1, <1>2 DEF UseOrLogin

LEMMA KeepAskHeaders ==
    ASSUME IInv, TypeOK', NEW r \in Requests, AskHeaders(r)
    PROVE  IInv'
<1> USE NamesAssumption DEF IInv, TypeOK, Processes, Authenticating, Usable,
        AskHeaders, LockFree, UseOrLogin, Send, clientVars, exchangeVars, maeVars
<1>1. LockInv'
  <2>1. CASE LockFree
    BY <2>1, UseOrLoginKeeps
  <2>2. CASE ~LockFree
    BY <2>2 DEF LockInv
  <2> QED BY <2>1, <2>2
<1>2. ExchangeInv'
  <2>1. CASE LockFree
    BY <2>1, UseOrLoginKeeps
  <2>2. CASE ~LockFree
    BY <2>2 DEF ExchangeInv
  <2> QED BY <2>1, <2>2
<1>3. LifeInv'
  BY Times, LifetimeBounds DEF LifeInv, ExchangeInv
<1>4. PhaseInv'
  BY DEF PhaseInv, LockInv
<1>5. HandshakeIsOfTheSession'
  BY DEF HandshakeIsOfTheSession, LockInv
<1>6. ClosedIsQuiet'
  BY DEF ClosedIsQuiet, PhaseInv, LockInv, Exchanging
<1> QED BY <1>1, <1>2, <1>3, <1>4, <1>5, <1>6

LEMMA KeepResumeRequest ==
    ASSUME IInv, TypeOK', NEW r \in Requests, ResumeRequest(r)
    PROVE  IInv'
<1> USE NamesAssumption DEF IInv, TypeOK, Processes, Authenticating, Usable,
        ResumeRequest, FirstInLine, clientVars, exchangeVars, maeVars
<1>0. pc[r] = "queued" /\ phase = "serving" /\ client
  BY DEF PhaseInv, ClosedIsQuiet
<1>1. LockInv'
  BY <1>0, UseOrLoginKeeps
<1>2. ExchangeInv'
  BY <1>0, UseOrLoginKeeps
<1>3. LifeInv'
  BY DEF LifeInv
<1>4. PhaseInv'
  BY <1>0 DEF PhaseInv
<1>5. HandshakeIsOfTheSession'
  BY <1>0 DEF HandshakeIsOfTheSession, UseOrLogin, Send
<1>6. ClosedIsQuiet'
  BY <1>0 DEF ClosedIsQuiet
<1> QED BY <1>1, <1>2, <1>3, <1>4, <1>5, <1>6

LEMMA KeepLoginSucceeds ==
    ASSUME IInv, TypeOK', NEW r \in Requests, LoginSucceeds(r)
    PROVE  IInv'
<1> USE NamesAssumption DEF IInv, TypeOK, Processes, Authenticating, Usable,
        LoginSucceeds, Send, clientVars, exchangeVars, maeVars
<1>1. LockInv'
  BY DEF LockInv
<1>2. ExchangeInv'
  BY Times DEF LockInv, ExchangeInv, LifeInv
<1>3. LifeInv'
  BY Times, LifetimeBounds DEF LifeInv, ExchangeInv
<1>4. PhaseInv'
  BY DEF PhaseInv, LockInv
<1>5. HandshakeIsOfTheSession'
  BY DEF HandshakeIsOfTheSession, LockInv
<1>6. ClosedIsQuiet'
  BY DEF ClosedIsQuiet, PhaseInv, LockInv, Exchanging
<1> QED BY <1>1, <1>2, <1>3, <1>4, <1>5, <1>6

LEMMA KeepLoginFails ==
    ASSUME IInv, TypeOK', NEW r \in Requests, LoginFails(r)
    PROVE  IInv'
<1> USE NamesAssumption DEF IInv, TypeOK, Processes, Authenticating, Usable,
        LoginFails, Finish, clientVars, exchangeVars, maeVars
<1>1. LockInv'
  BY DEF LockInv
<1>2. ExchangeInv'
  BY Times DEF LockInv, ExchangeInv, LifeInv
<1>3. LifeInv'
  BY Times, LifetimeBounds DEF LifeInv, ExchangeInv
<1>4. PhaseInv'
  BY DEF PhaseInv, LockInv
<1>5. HandshakeIsOfTheSession'
  BY DEF HandshakeIsOfTheSession, LockInv
<1>6. ClosedIsQuiet'
  BY DEF ClosedIsQuiet, PhaseInv, LockInv, Exchanging
<1> QED BY <1>1, <1>2, <1>3, <1>4, <1>5, <1>6

LEMMA KeepCallSucceeds ==
    ASSUME IInv, TypeOK', NEW r \in Requests, CallSucceeds(r)
    PROVE  IInv'
<1> USE NamesAssumption DEF IInv, TypeOK, Processes, Authenticating, Usable,
        CallSucceeds, Finish, clientVars, exchangeVars, maeVars
<1>1. LockInv'
  BY DEF LockInv
<1>2. ExchangeInv'
  BY Times DEF LockInv, ExchangeInv, LifeInv
<1>3. LifeInv'
  BY Times, LifetimeBounds DEF LifeInv, ExchangeInv
<1>4. PhaseInv'
  BY DEF PhaseInv, LockInv
<1>5. HandshakeIsOfTheSession'
  BY DEF HandshakeIsOfTheSession, LockInv
<1>6. ClosedIsQuiet'
  BY DEF ClosedIsQuiet, PhaseInv, LockInv, Exchanging
<1> QED BY <1>1, <1>2, <1>3, <1>4, <1>5, <1>6

LEMMA KeepCallEnds ==
    ASSUME IInv, TypeOK', NEW r \in Requests, CallRefused(r) \/ CallFails(r)
    PROVE  IInv'
<1> USE NamesAssumption DEF IInv, TypeOK, Processes, Authenticating, Usable,
        CallRefused, CallFails, Finish, clientVars, exchangeVars, maeVars
<1>1. LockInv'
  BY DEF LockInv
<1>2. ExchangeInv'
  <2>1. CASE CallRefused(r)
    BY <2>1 DEF LockInv, ExchangeInv
  <2>2. CASE CallFails(r)
    BY <2>2 DEF LockInv, ExchangeInv
  <2> QED BY <2>1, <2>2
<1>3. LifeInv'
  BY Times, LifetimeBounds DEF LifeInv, ExchangeInv
<1>4. PhaseInv'
  BY DEF PhaseInv, LockInv
<1>5. HandshakeIsOfTheSession'
  BY DEF HandshakeIsOfTheSession, LockInv
<1>6. ClosedIsQuiet'
  BY DEF ClosedIsQuiet, PhaseInv, LockInv, Exchanging
<1> QED BY <1>1, <1>2, <1>3, <1>4, <1>5, <1>6

LEMMA KeepKeepaliveWakes ==
    ASSUME IInv, TypeOK', KeepaliveWakes
    PROVE  IInv'
<1> USE NamesAssumption DEF IInv, TypeOK, Processes, Authenticating, Usable,
        KeepaliveWakes, LockFree, CheckActivity, HandshakeDue, Send, Finish, clientVars, exchangeVars, maeVars
<1>1. LockInv'
  BY DEF LockInv
<1>2. ExchangeInv'
  BY Times DEF LockInv, ExchangeInv, LifeInv
<1>3. LifeInv'
  BY Times, LifetimeBounds DEF LifeInv, ExchangeInv
<1>4. PhaseInv'
  BY DEF PhaseInv, LockInv
<1>5. HandshakeIsOfTheSession'
  BY DEF HandshakeIsOfTheSession, LockInv
<1>6. ClosedIsQuiet'
  BY DEF ClosedIsQuiet, PhaseInv, LockInv, Exchanging
<1> QED BY <1>1, <1>2, <1>3, <1>4, <1>5, <1>6

LEMMA KeepResumeKeepalive ==
    ASSUME IInv, TypeOK', ResumeKeepalive
    PROVE  IInv'
<1> USE NamesAssumption DEF IInv, TypeOK, Processes, Authenticating, Usable,
        ResumeKeepalive, FirstInLine, CheckActivity, HandshakeDue, Send, Finish, clientVars, exchangeVars, maeVars
<1>1. LockInv'
  BY DEF LockInv
<1>2. ExchangeInv'
  BY Times DEF LockInv, ExchangeInv, LifeInv
<1>3. LifeInv'
  BY Times, LifetimeBounds DEF LifeInv, ExchangeInv
<1>4. PhaseInv'
  BY DEF PhaseInv, LockInv
<1>5. HandshakeIsOfTheSession'
  BY DEF HandshakeIsOfTheSession, LockInv
<1>6. ClosedIsQuiet'
  BY DEF ClosedIsQuiet, PhaseInv, LockInv, Exchanging
<1> QED BY <1>1, <1>2, <1>3, <1>4, <1>5, <1>6

LEMMA KeepHandshakeEnds ==
    ASSUME IInv, TypeOK', EndOfHandshake
    PROVE  IInv'
<1> USE NamesAssumption DEF IInv, TypeOK, Processes, Authenticating, Usable,
        EndOfHandshake, HandshakeSucceeds, HandshakeRefused, HandshakeFails, EndHandshake, Finish, clientVars, exchangeVars, maeVars
<1>1. LockInv'
  BY DEF LockInv
<1>2. ExchangeInv'
  BY Times DEF LockInv, ExchangeInv, LifeInv
<1>3. LifeInv'
  BY Times, LifetimeBounds DEF LifeInv, ExchangeInv
<1>4. PhaseInv'
  BY DEF PhaseInv, LockInv
<1>5. HandshakeIsOfTheSession'
  BY DEF HandshakeIsOfTheSession, LockInv
<1>6. ClosedIsQuiet'
  BY DEF ClosedIsQuiet, PhaseInv, LockInv, Exchanging
<1> QED BY <1>1, <1>2, <1>3, <1>4, <1>5, <1>6

LEMMA KeepMaeIssues ==
    ASSUME IInv, TypeOK', NEW r \in Requests, MaeIssues(r)
    PROVE  IInv'
<1> USE NamesAssumption DEF IInv, TypeOK, Processes, Authenticating, Usable,
        MaeIssues, Unused, clientVars, exchangeVars, maeVars
<1>1. LockInv'
  BY DEF LockInv
<1>2. ExchangeInv'
  BY Times DEF LockInv, ExchangeInv, LifeInv
<1>3. LifeInv'
  BY Times, LifetimeBounds DEF LifeInv, ExchangeInv
<1>4. PhaseInv'
  BY DEF PhaseInv, LockInv
<1>5. HandshakeIsOfTheSession'
  BY DEF HandshakeIsOfTheSession, LockInv
<1>6. ClosedIsQuiet'
  BY DEF ClosedIsQuiet, PhaseInv, LockInv, Exchanging
<1> QED BY <1>1, <1>2, <1>3, <1>4, <1>5, <1>6

LEMMA KeepMaeServes ==
    ASSUME IInv, TypeOK', NEW p \in Processes, MaeServes(p)
    PROVE  IInv'
<1> USE NamesAssumption DEF IInv, TypeOK, Processes, Authenticating, Usable,
        MaeServes, clientVars, exchangeVars, maeVars
<1>1. LockInv'
  BY DEF LockInv
<1>2. ExchangeInv'
  BY Times DEF LockInv, ExchangeInv, LifeInv
<1>3. LifeInv'
  <2>1. token[p] \in Tokens
    BY DEF ExchangeInv
  <2>2. \A t \in Tokens : serverLeft[t] =< serverLeft'[t]
    <3>1. CASE UNCHANGED serverLeft
      BY <3>1, Times
    <3>2. CASE serverLeft' = [serverLeft EXCEPT ![token[p]] = Expires]
      BY <2>1, <3>2, Times
    <3> QED BY <3>1, <3>2
  <2>3. \A t \in revoked : serverLeft'[t] = 0
    BY <2>1 DEF LifeInv
  <2> QED BY <2>2, <2>3 DEF LifeInv
<1>4. PhaseInv'
  BY DEF PhaseInv, LockInv
<1>5. HandshakeIsOfTheSession'
  BY DEF HandshakeIsOfTheSession, LockInv
<1>6. ClosedIsQuiet'
  BY DEF ClosedIsQuiet, PhaseInv, LockInv, Exchanging
<1> QED BY <1>1, <1>2, <1>3, <1>4, <1>5, <1>6

LEMMA KeepMaeRevokes ==
    ASSUME IInv, TypeOK', NEW t \in Tokens, MaeRevokes(t)
    PROVE  IInv'
<1> USE NamesAssumption DEF IInv, TypeOK, Processes, Authenticating, Usable,
        MaeRevokes, clientVars, exchangeVars, maeVars
<1>1. LockInv'
  BY DEF LockInv
<1>2. ExchangeInv'
  BY Times DEF LockInv, ExchangeInv, LifeInv
<1>3. LifeInv'
  BY Times, LifetimeBounds DEF LifeInv, ExchangeInv
<1>4. PhaseInv'
  BY DEF PhaseInv, LockInv
<1>5. HandshakeIsOfTheSession'
  BY DEF HandshakeIsOfTheSession, LockInv
<1>6. ClosedIsQuiet'
  BY DEF ClosedIsQuiet, PhaseInv, LockInv, Exchanging
<1> QED BY <1>1, <1>2, <1>3, <1>4, <1>5, <1>6

LEMMA KeepTick ==
    ASSUME IInv, TypeOK', Tick
    PROVE  IInv'
<1> USE NamesAssumption DEF IInv, TypeOK, Processes, Authenticating, Usable,
        Tick, Down, clientVars, exchangeVars, maeVars
<1>1. LockInv'
  BY DEF LockInv
<1>2. ExchangeInv'
  <2>1. ~Usable => ~Usable'
    OBVIOUS
  <2>2. ASSUME NEW r \in Requests, pc[r] = "login", wire[r] = "ok"
        PROVE  /\ token[r] \in Tokens
               /\ token[r] \in revoked \/ serverLeft'[token[r]] + elapsed'[r] >= Expires
    <3>1. elapsed'[r] = elapsed[r] + 1
      BY <2>2 DEF Exchanging
    <3>2. token[r] \in Tokens
      BY <2>2 DEF ExchangeInv
    <3>3. serverLeft'[token[r]] + 1 >= serverLeft[token[r]]
      BY <3>2, Times
    <3> QED BY <2>2, <3>1, <3>2, <3>3, Times DEF ExchangeInv
  <2>3. \A r \in Requests : pc[r] = "login" => ~Usable'
    BY <2>1 DEF ExchangeInv
  <2> QED BY <2>2, <2>3 DEF ExchangeInv
<1>3. LifeInv'
  BY Times, LifetimeBounds DEF LifeInv, ExchangeInv
<1>4. PhaseInv'
  BY DEF PhaseInv, LockInv
<1>5. HandshakeIsOfTheSession'
  BY DEF HandshakeIsOfTheSession, LockInv
<1>6. ClosedIsQuiet'
  BY DEF ClosedIsQuiet, PhaseInv, LockInv, Exchanging
<1> QED BY <1>1, <1>2, <1>3, <1>4, <1>5, <1>6

LEMMA KeepCancelKeepalive ==
    ASSUME IInv, TypeOK', CancelKeepalive
    PROVE  IInv'
<1> USE NamesAssumption DEF IInv, TypeOK, Processes, Authenticating, Usable,
        CancelKeepalive, Finish, clientVars, exchangeVars, maeVars
<1>1. LockInv'
  BY DEF LockInv
<1>2. ExchangeInv'
  BY Times DEF LockInv, ExchangeInv, LifeInv
<1>3. LifeInv'
  BY Times, LifetimeBounds DEF LifeInv, ExchangeInv
<1>4. PhaseInv'
  BY DEF PhaseInv, LockInv
<1>5. HandshakeIsOfTheSession'
  BY DEF HandshakeIsOfTheSession, LockInv
<1>6. ClosedIsQuiet'
  BY DEF ClosedIsQuiet, PhaseInv, LockInv, Exchanging
<1> QED BY <1>1, <1>2, <1>3, <1>4, <1>5, <1>6

LEMMA KeepCloseClient ==
    ASSUME IInv, TypeOK', CloseClient
    PROVE  IInv'
<1> USE NamesAssumption DEF IInv, TypeOK, Processes, Authenticating, Usable,
        CloseClient, clientVars, exchangeVars, maeVars
<1>1. LockInv'
  BY DEF LockInv
<1>2. ExchangeInv'
  BY Times DEF LockInv, ExchangeInv, LifeInv
<1>3. LifeInv'
  BY Times, LifetimeBounds DEF LifeInv, ExchangeInv
<1>4. PhaseInv'
  BY DEF PhaseInv, LockInv
<1>5. HandshakeIsOfTheSession'
  BY DEF HandshakeIsOfTheSession, PhaseInv
<1>6. ClosedIsQuiet'
  BY DEF ClosedIsQuiet, PhaseInv, LockInv, Exchanging
<1> QED BY <1>1, <1>2, <1>3, <1>4, <1>5, <1>6

LEMMA KeepStartup ==
    ASSUME IInv, TypeOK', Startup
    PROVE  IInv'
<1> USE NamesAssumption DEF IInv, TypeOK, Processes, Authenticating, Usable,
        Startup, clientVars, exchangeVars, maeVars
<1>1. LockInv'
  BY DEF LockInv, PhaseInv
<1>2. ExchangeInv'
  BY Times DEF LockInv, ExchangeInv, LifeInv
<1>3. LifeInv'
  BY Times, LifetimeBounds DEF LifeInv, ExchangeInv
<1>4. PhaseInv'
  BY DEF PhaseInv, LockInv
<1>5. HandshakeIsOfTheSession'
  BY DEF HandshakeIsOfTheSession, LockInv
<1>6. ClosedIsQuiet'
  BY DEF ClosedIsQuiet, PhaseInv, LockInv, Exchanging
<1> QED BY <1>1, <1>2, <1>3, <1>4, <1>5, <1>6

LEMMA KeepStutter ==
    ASSUME IInv, UNCHANGED vars
    PROVE  IInv'
BY DEF IInv, TypeOK, LockInv, ExchangeInv, LifeInv, PhaseInv, HandshakeIsOfTheSession,
       ClosedIsQuiet, Usable, vars, clientVars, exchangeVars, maeVars

LEMMA IndInit == Init => IInv
<1> SUFFICES ASSUME Init PROVE IInv
  OBVIOUS
<1>1. TypeOK
  BY TypeInit
<1> QED
  BY <1>1, NamesAssumption
     DEF Init, IInv, LockInv, ExchangeInv, LifeInv, PhaseInv, HandshakeIsOfTheSession,
         ClosedIsQuiet, Authenticating, Exchanging, Usable, Processes

LEMMA IndNext == IInv /\ [Next]_vars => IInv'
<1> SUFFICES ASSUME IInv, [Next]_vars PROVE IInv'
  OBVIOUS
<1>0. TypeOK'
  BY TypeNext DEF IInv
<1>1. ASSUME NEW r \in Requests, Request(r) PROVE IInv'
  BY <1>0, <1>1, KeepAskHeaders, KeepResumeRequest, KeepLoginSucceeds, KeepLoginFails,
     KeepCallSucceeds, KeepCallEnds DEF Request, EndLogin, EndCall
<1>2. CASE KeepaliveTask
  BY <1>0, <1>2, KeepKeepaliveWakes, KeepResumeKeepalive, KeepHandshakeEnds
     DEF KeepaliveTask, EndOfHandshake
<1>3. CASE Mae
  BY <1>0, <1>3, KeepMaeIssues, KeepMaeServes, KeepMaeRevokes DEF Mae
<1>4. CASE Tick
  BY <1>0, <1>4, KeepTick
<1>5. CASE Lifespan
  BY <1>0, <1>5, KeepCancelKeepalive, KeepCloseClient, KeepStartup DEF Lifespan
<1>6. CASE UNCHANGED vars
  BY <1>6, KeepStutter
<1> QED BY <1>1, <1>2, <1>3, <1>4, <1>5, <1>6 DEF Next

(* The strengthening holds in every reachable state. *)
THEOREM Inductive == Spec => []IInv
BY IndInit, IndNext, PTL DEF Spec

-----------------------------------------------------------------------------
(* What follows from it.                                                   *)

(* No two processes log in or shake hands at the same time. *)
THEOREM MutualExclusion == Spec => []AtMostOneAuthExchange
<1>1. IInv => AtMostOneAuthExchange
  BY NamesAssumption
     DEF IInv, LockInv, AtMostOneAuthExchange, Authenticating, Processes
<1> QED BY <1>1, Inductive, PTL

(* A token that is still handed out is alive at MAE unless MAE ended it. *)
THEOREM UsableIsHonoured == Spec => []UsableMeansHonoured
<1>1. IInv => UsableMeansHonoured
  BY Times DEF IInv, TypeOK, LifeInv, UsableMeansHonoured, Usable
<1> QED BY <1>1, Inductive, PTL

(* The answer to a handshake is about the session that is cached then. *)
THEOREM HandshakeMatches == Spec => []HandshakeIsOfTheSession
<1>1. IInv => HandshakeIsOfTheSession
  BY DEF IInv
<1> QED BY <1>1, Inductive, PTL

(* A closed client leaves no exchange, lock holder or session behind. *)
THEOREM CloseIsComplete == Spec => []ClosedIsQuiet
<1>1. IInv => ClosedIsQuiet
  BY DEF IInv
<1> QED BY <1>1, Inductive, PTL

-----------------------------------------------------------------------------
(* The refinement: every step is a step of SharedSession or a stutter.     *)

Current == IF Usable THEN session ELSE None
Honoured == {t \in Tokens : serverLeft[t] > 0}

LEMMA RefineInit == Init => Shared!Init
BY DEF Init, Usable, Shared!Init

LEMMA RefineRequest ==
    ASSUME IInv, NEW r \in Requests, Request(r)
    PROVE  Shared!Next \/ UNCHANGED Shared!vars
<1> USE DEF IInv, Usable, Shared!vars, maeVars, clientVars
<1>1. CASE LoginSucceeds(r)
  <2>1. token[r] \in Tokens /\ ~Usable
    BY <1>1 DEF ExchangeInv, LoginSucceeds
  <2>2. Shared!Install(token[r]) \/ UNCHANGED Shared!vars
    BY <1>1, <2>1 DEF LoginSucceeds, Shared!Install
  <2> QED BY <2>1, <2>2 DEF Shared!Next
<1>2. CASE ~LoginSucceeds(r)
  BY <1>2 DEF Request, EndLogin, EndCall, AskHeaders, ResumeRequest, LoginFails,
              CallSucceeds, CallRefused, CallFails
<1> QED BY <1>1, <1>2

LEMMA RefineKeepalive ==
    ASSUME IInv, KeepaliveTask
    PROVE  Shared!Next \/ UNCHANGED Shared!vars
<1> USE DEF Usable, Shared!vars, maeVars
<1>1. CASE HandshakeRefused
  BY <1>1 DEF HandshakeRefused, EndHandshake, Shared!Drop, Shared!Next
<1>2. CASE ~HandshakeRefused
  BY <1>2 DEF KeepaliveTask, KeepaliveWakes, ResumeKeepalive, HandshakeSucceeds,
              HandshakeFails, EndHandshake
<1> QED BY <1>1, <1>2

LEMMA RefineMae ==
    ASSUME IInv, Mae
    PROVE  Shared!Next \/ UNCHANGED Shared!vars
<1> USE Times DEF IInv, TypeOK, Usable, Shared!vars, clientVars
<1>1. ASSUME NEW r \in Requests, MaeIssues(r)
      PROVE  Shared!Next \/ UNCHANGED Shared!vars
  <2>1. PICK t \in Tokens : serverLeft' = [serverLeft EXCEPT ![t] = Expires]
    BY <1>1 DEF MaeIssues
  <2>2. Shared!Open(t)
    BY <1>1, <2>1 DEF MaeIssues, Shared!Open
  <2> QED BY <2>2 DEF Shared!Next
<1>2. ASSUME NEW p \in Processes, MaeServes(p)
      PROVE  Shared!Next \/ UNCHANGED Shared!vars
  <2>1. token[p] \in Tokens
    BY <1>2 DEF MaeServes, ExchangeInv
  <2>2. \A t \in Tokens : serverLeft'[t] > 0 <=> serverLeft[t] > 0
    <3>1. CASE UNCHANGED serverLeft
      BY <3>1
    <3>2. CASE /\ serverLeft[token[p]] > 0
               /\ serverLeft' = [serverLeft EXCEPT ![token[p]] = Expires]
      BY <2>1, <3>2
    <3> QED BY <1>2, <3>1, <3>2 DEF MaeServes
  <2> QED BY <1>2, <2>2 DEF MaeServes
<1>3. ASSUME NEW t \in Tokens, MaeRevokes(t)
      PROVE  Shared!Next \/ UNCHANGED Shared!vars
  <2>1. Shared!Revoke(t)
    BY <1>3 DEF MaeRevokes, Shared!Revoke
  <2> QED BY <2>1 DEF Shared!Next
<1> QED BY <1>1, <1>2, <1>3 DEF Mae

LEMMA RefineTick ==
    ASSUME IInv, Tick
    PROVE  Shared!Next \/ UNCHANGED Shared!vars
<1> USE Times, NamesAssumption DEF IInv, TypeOK, Usable, Tick, Down
<1>1. Current' \in {Current, None}
  BY DEF Current
<1>2. Honoured' \subseteq Honoured
  BY DEF Honoured
<1>3. Current' \in Honoured => Current' \in Honoured'
  BY DEF Current, Honoured, LifeInv
<1>4. Shared!Expire
  BY <1>1, <1>2, <1>3 DEF Current, Honoured, Shared!Expire
<1> QED BY <1>4 DEF Shared!Next

LEMMA RefineLifespan ==
    ASSUME IInv, Lifespan
    PROVE  Shared!Next \/ UNCHANGED Shared!vars
<1> USE DEF Usable, Shared!vars, maeVars
<1>1. CASE CloseClient
  BY <1>1 DEF CloseClient, Shared!Drop, Shared!Next
<1>2. CASE CancelKeepalive \/ Startup
  BY <1>2 DEF CancelKeepalive, Startup
<1> QED BY <1>1, <1>2 DEF Lifespan

(* The client implements SharedSession. *)
THEOREM Refinement == Spec => SharedSpec
<1>1. IInv /\ [Next]_vars => [Shared!Next]_(Shared!vars)
  BY RefineRequest, RefineKeepalive, RefineMae, RefineTick, RefineLifespan
     DEF Next, vars, clientVars, maeVars, Usable, Shared!vars
<1> QED BY <1>1, RefineInit, Inductive, PTL DEF Spec, SharedSpec, Shared!Spec
=============================================================================
