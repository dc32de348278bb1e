------------------------ MODULE AuditedQuery_proofs ------------------------
(***************************************************************************)
(* Proofs about AuditedQuery for all limits and for bodies, calls and      *)
(* pages of any number.                                                    *)
(***************************************************************************)
EXTENDS AuditedQuery, TLAPS

(* What the limits leave of a body: all of it, up to the limit.            *)
CaptureInv ==
    /\ reqSize =< MaxBody => captured = reqSize
    /\ CaptureIsBounded

(* Before the response starts the middleware expects a 500; afterwards it  *)
(* knows what the client was sent, unless that was the last 500.           *)
SentInv ==
    /\ phase \in {"received", "running"} => entries = <<>>
    /\ phase = "received" => sent = 0 /\ ~audited /\ answers = <<>>
    /\ sent = 0 => status = 500 /\ ~withId
    /\ audited /\ phase = "running" /\ sent # 0 => status = sent /\ withId
    /\ ~audited => entries = <<>>

(* What the hooks accumulate is the summary of the answers. *)
Summary ==
    IF answers = <<>> THEN NotCalled
    ELSE [service |-> answers[1].service, status |-> answers[Len(answers)].status,
          calls |-> Len(answers)]

CallsInv ==
    /\ Len(answers) =< MaxCalls
    /\ upstream = IF audited THEN Summary ELSE NotCalled

(* The one entry is that of the state in which the application ended.      *)
EntryInv ==
    audited /\ phase \in {"raised", "ended"} =>
        \E failed \in BOOLEAN, names \in NamesIn :
            /\ entries = <<EntryNow(failed, names)>>
            /\ phase = "raised" => failed
            /\ sent # 0 => status = sent /\ (withId \/ (sent = 500 /\ failed))

MiddlewareInv == TypeOK /\ CaptureInv /\ SentInv /\ CallsInv /\ EntryInv

-----------------------------------------------------------------------------
(* The middleware.                                                         *)

LEMMA Limits ==
    /\ MaxBody \in Nat /\ ErrorLimit \in Nat /\ MaxChunk \in Nat
    /\ MaxChunks \in Nat /\ MaxCalls \in Nat
BY LimitsAssumption

LEMMA NoEntries == <<>> \in Seq(Entry) /\ <<>> \in Seq(Answer) /\ Len(<<>>) = 0
OBVIOUS

LEMMA FirstAndRest ==
    ASSUME NEW S, NEW s \in Seq(S), s # <<>>
    PROVE  Head(s) \in S /\ Tail(s) \in Seq(S)
OBVIOUS

LEMMA NoCall == NotCalled \in Accumulated /\ NotCalled.calls = 0
BY DEF NotCalled, Accumulated

LEMMA MiddlewareInit == Init => MiddlewareInv
<1> SUFFICES ASSUME Init PROVE MiddlewareInv
  OBVIOUS
<1>1. unread \in Seq(0..MaxChunk)
  BY Limits DEF Init
<1>2. TypeOK
  <2>1. audited \in BOOLEAN /\ withId \in BOOLEAN
    BY DEF Init
  <2> QED BY <1>1, <2>1, Limits, NoEntries, NoCall DEF Init, TypeOK, Statuses
<1>3. CaptureInv
  BY Limits DEF Init, CaptureInv, CaptureIsBounded
<1>4. SentInv /\ CallsInv /\ EntryInv
  BY Limits, NoEntries DEF Init, SentInv, CallsInv, EntryInv
<1> QED BY <1>2, <1>3, <1>4 DEF MiddlewareInv

LEMMA KeepEnter == MiddlewareInv /\ Enter => MiddlewareInv'
<1> SUFFICES ASSUME MiddlewareInv, Enter PROVE MiddlewareInv'
  OBVIOUS
<1> USE DEF Enter, request, response, calls
<1>1. TypeOK'
  BY DEF MiddlewareInv, TypeOK
<1>2. CaptureInv'
  BY DEF MiddlewareInv, CaptureInv, CaptureIsBounded
<1>3. SentInv'
  BY DEF MiddlewareInv, SentInv
<1>4. CallsInv'
  BY DEF MiddlewareInv, CallsInv, SentInv, Summary
<1>5. EntryInv'
  BY DEF EntryInv
<1> QED BY <1>1, <1>2, <1>3, <1>4, <1>5 DEF MiddlewareInv

LEMMA KeepReceiveChunk == MiddlewareInv /\ ReceiveChunk => MiddlewareInv'
<1> SUFFICES ASSUME MiddlewareInv, ReceiveChunk PROVE MiddlewareInv'
  OBVIOUS
<1> USE DEF ReceiveChunk, response, calls
<1>1. unread' \in Seq(0..MaxChunk) /\ Head(unread) \in 0..MaxChunk
  <2>1. unread \in Seq(0..MaxChunk) /\ unread # <<>> /\ unread' = Tail(unread)
    BY DEF MiddlewareInv, TypeOK
  <2>2. unread' \in Seq(0..MaxChunk)
    BY <2>1, FirstAndRest
  <2>3. Head(unread) \in 0..MaxChunk
    BY <2>1, FirstAndRest
  <2> QED BY <2>2, <2>3
<1>2. reqSize \in Nat /\ captured \in Nat
  BY DEF MiddlewareInv, TypeOK
<1>3. reqSize' \in Nat /\ captured' \in Nat
  BY <1>1, <1>2, Limits
<1>4. TypeOK'
  BY <1>1, <1>3 DEF MiddlewareInv, TypeOK
<1>5. CaptureInv'
  BY <1>1, <1>2, Limits DEF MiddlewareInv, CaptureInv, CaptureIsBounded
<1>6. SentInv' /\ CallsInv' /\ EntryInv'
  BY DEF MiddlewareInv, SentInv, CallsInv, Summary, EntryInv
<1> QED BY <1>4, <1>5, <1>6 DEF MiddlewareInv

LEMMA KeepSendStart ==
    ASSUME MiddlewareInv, NEW c \in Statuses, SendStart(c)
    PROVE  MiddlewareInv'
<1> USE DEF SendStart, request, calls
<1>1. TypeOK'
  BY DEF MiddlewareInv, TypeOK
<1>2. CaptureInv' /\ CallsInv'
  BY DEF MiddlewareInv, CaptureInv, CaptureIsBounded, CallsInv, Summary
<1>3. SentInv'
  BY DEF MiddlewareInv, SentInv, Statuses
<1>4. EntryInv'
  BY DEF EntryInv
<1> QED BY <1>1, <1>2, <1>3, <1>4 DEF MiddlewareInv

LEMMA KeepSendChunk ==
    ASSUME MiddlewareInv, NEW n \in 0..MaxChunk, SendChunk(n)
    PROVE  MiddlewareInv'
<1> USE DEF SendChunk, request, calls
<1>1. respSize \in Nat /\ errorSize \in Nat /\ chunksLeft \in 0..MaxChunks
  BY DEF MiddlewareInv, TypeOK
<1>2. respSize' \in Nat /\ errorSize' \in Nat /\ chunksLeft' \in 0..MaxChunks
  BY <1>1, Limits
<1>3. TypeOK'
  BY <1>2 DEF MiddlewareInv, TypeOK
<1>4. CaptureInv'
  BY <1>1, Limits DEF MiddlewareInv, CaptureInv, CaptureIsBounded
<1>5. SentInv' /\ CallsInv' /\ EntryInv'
  BY DEF MiddlewareInv, SentInv, CallsInv, Summary, EntryInv
<1> QED BY <1>3, <1>4, <1>5 DEF MiddlewareInv

LEMMA KeepUpstreamAnswers ==
    ASSUME MiddlewareInv, NEW service \in Services, NEW c \in Statuses,
           UpstreamAnswers(service, c)
    PROVE  MiddlewareInv'
<1> USE DEF UpstreamAnswers, request, response
<1> DEFINE a == [service |-> service, status |-> c]
<1>1. a \in Answer /\ answers \in Seq(Answer)
  BY DEF Answer, MiddlewareInv, TypeOK
<1>2. /\ answers' \in Seq(Answer) /\ answers' # <<>>
      /\ Len(answers') = Len(answers) + 1 /\ answers'[Len(answers')] = a
      /\ answers # <<>> => answers'[1] = answers[1]
      /\ answers = <<>> => answers'[1] = a
  BY <1>1
<1>3. Len(answers) \in Nat /\ Len(answers) < MaxCalls
  BY <1>1
<1>4. CallsInv'
  <2>1. Len(answers') =< MaxCalls
    BY <1>2, <1>3, Limits
  <2>2. CASE ~audited
    BY <2>1, <2>2 DEF MiddlewareInv, CallsInv
  <2>3. CASE audited /\ answers = <<>>
    BY <1>2, <2>1, <2>3, NoCall, NoEntries DEF MiddlewareInv, CallsInv, Summary
  <2>4. CASE audited /\ answers # <<>>
    <3>1. upstream = Summary /\ upstream.calls = Len(answers) /\ Len(answers) # 0
          /\ upstream.service = answers[1].service
      BY <1>1, <2>4 DEF MiddlewareInv, CallsInv, Summary
    <3>2. upstream # NotCalled
      BY <3>1, NoCall
    <3> QED BY <1>2, <2>1, <2>4, <3>1, <3>2 DEF CallsInv, Summary
  <2> QED BY <2>2, <2>3, <2>4
<1>5. upstream' \in Accumulated
  <2>1. CASE ~audited
    BY <2>1 DEF MiddlewareInv, TypeOK
  <2>2. CASE audited
    <3>1. upstream' = [service |-> answers'[1].service, status |-> c, calls |-> Len(answers')]
      BY <1>2, <1>4, <2>2 DEF CallsInv, Summary
    <3>2. answers'[1] \in Answer /\ Len(answers') \in 1..MaxCalls
      BY <1>2, <1>3, Limits
    <3> QED BY <3>1, <3>2 DEF Answer, Accumulated
  <2> QED BY <2>1, <2>2
<1>6. TypeOK'
  BY <1>2, <1>5 DEF MiddlewareInv, TypeOK
<1>7. CaptureInv' /\ SentInv' /\ EntryInv'
  BY DEF MiddlewareInv, CaptureInv, CaptureIsBounded, SentInv, EntryInv
<1> QED BY <1>4, <1>6, <1>7 DEF MiddlewareInv

LEMMA RecordedEntry ==
    ASSUME MiddlewareInv, NEW failed \in BOOLEAN, phase = "running", audited,
           RecordEntry(failed)
    PROVE  /\ entries' \in Seq(Entry)
           /\ \E names \in NamesIn : entries' = <<EntryNow(failed, names)>>
<1>1. PICK names \in NamesIn : entries' = Append(entries, EntryNow(failed, names))
  BY DEF RecordEntry
<1>2. entries' = <<EntryNow(failed, names)>>
  BY <1>1 DEF MiddlewareInv, SentInv
<1>3. EntryNow(failed, names) \in Entry
  <2>1. names \in Named
    BY DEF NamesIn, Named
  <2> QED BY <2>1 DEF EntryNow, Entry, MiddlewareInv, TypeOK
<1> QED BY <1>2, <1>3

(* The application returns, raises or is cancelled. *)
LEMMA KeepRecord ==
    ASSUME MiddlewareInv, NEW failed \in BOOLEAN, NEW next \in {"raised", "ended"},
           phase = "running", phase' = next, next = "raised" => failed,
           RecordEntry(failed), UNCHANGED <<audited, request, response, calls>>
    PROVE  MiddlewareInv'
<1> USE DEF request, response, calls
<1>1. entries' \in Seq(Entry)
  <2>1. CASE audited
    BY <2>1, RecordedEntry
  <2>2. CASE ~audited
    BY <2>2 DEF RecordEntry, MiddlewareInv, TypeOK
  <2> QED BY <2>1, <2>2
<1>2. TypeOK'
  BY <1>1 DEF MiddlewareInv, TypeOK
<1>3. CaptureInv' /\ CallsInv'
  BY DEF MiddlewareInv, CaptureInv, CaptureIsBounded, CallsInv, Summary
<1>4. SentInv'
  BY DEF MiddlewareInv, SentInv, RecordEntry
<1>5. EntryInv'
  <2> SUFFICES ASSUME audited PROVE EntryInv'
    BY DEF EntryInv
  <2>1. PICK names \in NamesIn : entries' = <<EntryNow(failed, names)>>
    BY RecordedEntry
  <2>2. EntryNow(failed, names) = EntryNow(failed, names)' /\ NamesIn = NamesIn'
    BY DEF EntryNow, NamesIn
  <2>3. sent # 0 => status = sent /\ withId
    BY DEF MiddlewareInv, SentInv
  <2> QED BY <2>1, <2>2, <2>3 DEF EntryInv
<1> QED BY <1>2, <1>3, <1>4, <1>5 DEF MiddlewareInv

LEMMA KeepEnds == MiddlewareInv /\ (AppReturns \/ AppRaises \/ AppIsCancelled) => MiddlewareInv'
BY KeepRecord DEF AppReturns, AppRaises, AppIsCancelled

LEMMA KeepServerError == MiddlewareInv /\ ServerError => MiddlewareInv'
<1> SUFFICES ASSUME MiddlewareInv, ServerError PROVE MiddlewareInv'
  OBVIOUS
<1> USE DEF ServerError, request, calls
<1>1. TypeOK'
  BY DEF MiddlewareInv, TypeOK, Statuses
<1>2. CaptureInv' /\ CallsInv' /\ SentInv'
  BY DEF MiddlewareInv, CaptureInv, CaptureIsBounded, CallsInv, Summary, SentInv
<1>3. EntryInv'
  <2> SUFFICES ASSUME audited PROVE EntryInv'
    BY DEF EntryInv
  <2>1. PICK failed \in BOOLEAN, names \in NamesIn :
            /\ entries = <<EntryNow(failed, names)>> /\ failed
            /\ sent # 0 => status = sent /\ (withId \/ (sent = 500 /\ failed))
    BY DEF MiddlewareInv, EntryInv
  <2>2. EntryNow(failed, names) = EntryNow(failed, names)' /\ NamesIn = NamesIn'
    BY DEF EntryNow, NamesIn
  <2>3. sent' # 0 => status' = sent' /\ (withId' \/ (sent' = 500 /\ failed))
    BY <2>1 DEF MiddlewareInv, SentInv
  <2> QED BY <2>1, <2>2, <2>3 DEF EntryInv
<1> QED BY <1>1, <1>2, <1>3 DEF MiddlewareInv

LEMMA KeepNothing == MiddlewareInv /\ UNCHANGED vars => MiddlewareInv'
<1> SUFFICES ASSUME MiddlewareInv, UNCHANGED vars PROVE MiddlewareInv'
  OBVIOUS
<1> USE DEF vars, request, response, calls
<1>1. TypeOK'
  BY DEF MiddlewareInv, TypeOK
<1>2. CaptureInv' /\ SentInv' /\ CallsInv'
  BY DEF MiddlewareInv, CaptureInv, CaptureIsBounded, SentInv, CallsInv, Summary
<1>3. EntryInv'
  BY DEF MiddlewareInv, EntryInv, EntryNow, NamesIn
<1> QED BY <1>1, <1>2, <1>3 DEF MiddlewareInv

(* Any application keeps the invariant of the middleware. *)
LEMMA KeepNext == MiddlewareInv /\ Next => MiddlewareInv'
<1> SUFFICES ASSUME MiddlewareInv, Next PROVE MiddlewareInv'
  OBVIOUS
<1>1. ASSUME NEW c \in {200, 401, 500}, SendStart(c) PROVE MiddlewareInv'
  BY <1>1, KeepSendStart DEF Statuses
<1>2. ASSUME NEW n \in 0..MaxChunk, SendChunk(n) PROVE MiddlewareInv'
  BY <1>2, KeepSendChunk
<1>3. ASSUME NEW service \in Services, NEW c \in {200, 500}, UpstreamAnswers(service, c)
      PROVE  MiddlewareInv'
  BY <1>3, KeepUpstreamAnswers DEF Statuses
<1> QED BY <1>1, <1>2, <1>3, KeepEnter, KeepReceiveChunk, KeepEnds, KeepServerError DEF Next

-----------------------------------------------------------------------------
(* A query.                                                                *)

(* The status of the reply fits what the upstream calls came to. *)
Fits(c) ==
    \/ c \in {401, 422} /\ answers = <<>> /\ ~unanswered
    \/ c = 400 /\ answers # <<>> /\ LastStatus >= 400 /\ ~unanswered
    \/ c = 502 /\ (unanswered \/ (answers # <<>> /\ LastStatus >= 400))
    \/ c = 200 /\ answers # <<>> /\ LastStatus < 400 /\ ~unanswered

(* Before the call there is at most the answer to a login that succeeded.  *)
LoggedInAtMost ==
    answers # <<>> => Len(answers) = 1 /\ LastStatus < 400 /\ route # "tickets"

StageInv ==
    /\ stage \in {"arrived", "login", "calling", "replied", "raised"}
    /\ session \in BOOLEAN /\ activity \in BOOLEAN /\ unanswered \in BOOLEAN
    /\ stage # "replied" => code = 0
    /\ stage \in {"arrived", "login"} => answers = <<>>
    /\ stage \in {"arrived", "login", "calling"} => ~unanswered /\ ~activity
    /\ stage = "login" => route # "tickets" /\ ~session
    /\ stage = "calling" => LoggedInAtMost /\ (route = "tickets" \/ session)
    /\ stage = "replied" => Fits(code)
    /\ unanswered => stage = "replied" /\ code = 502 /\ LoggedInAtMost
    /\ activity <=> /\ route # "tickets" /\ stage \in {"replied", "raised"}
                    /\ answers # <<>> /\ LastStatus < 400 /\ ~unanswered
                    /\ session /\ code \notin {401, 422}

(* What the client was sent is the route's reply, or the 500 for what it   *)
(* raised.                                                                 *)
ReplyInv ==
    /\ phase = "received" => stage = "arrived" /\ sent = 0
    /\ phase = "raised" => stage = "raised"
    /\ stage = "raised" => ~withId
    /\ sent # 0 => \/ stage = "replied" /\ sent = code
                   \/ stage = "raised" /\ sent = 500 /\ phase = "ended"

QueryInv == isQuery => StageInv /\ ReplyInv

IInv == MiddlewareInv /\ QueryInv

LEMMA Answered ==
    ASSUME MiddlewareInv, NEW service \in Services, NEW c \in Statuses,
           answers' = Append(answers, [service |-> service, status |-> c])
    PROVE  /\ answers' # <<>> /\ LastStatus' = c
           /\ answers = <<>> => Len(answers') = 1
<1>1. answers \in Seq(Answer) /\ [service |-> service, status |-> c] \in Answer
  BY DEF Answer, MiddlewareInv, TypeOK
<1> QED BY <1>1 DEF LastStatus

LEMMA InitQuery == AuditedInit => IInv
<1> SUFFICES ASSUME AuditedInit PROVE IInv
  OBVIOUS
<1>1. MiddlewareInv
  BY MiddlewareInit DEF AuditedInit
<1>2. QueryInv
  BY DEF AuditedInit, Init, Query!Init, QueryInv, StageInv, ReplyInv, LoggedInAtMost
<1> QED BY <1>1, <1>2 DEF IInv

LEMMA KeepAuthorised == IInv /\ QueryIsAuthorised => IInv'
<1> SUFFICES ASSUME IInv, QueryIsAuthorised PROVE IInv'
  OBVIOUS
<1>1. MiddlewareInv'
  BY KeepNothing DEF IInv, QueryIsAuthorised
<1>2. PICK credentials \in {"none", "wrong", "notAscii", "valid"},
           inRange \in BOOLEAN, buildable \in BOOLEAN :
               Query!Authorise(credentials, inRange, buildable)
  BY DEF QueryIsAuthorised
<1>3. /\ isQuery' = isQuery /\ isQuery /\ phase = "running" /\ stage = "arrived"
      /\ UNCHANGED <<phase, sent, withId, answers, unanswered, route, session, activity>>
  BY <1>2 DEF QueryIsAuthorised, Running, Query!Authorise, vars, response, calls
<1>4. \/ stage' = "replied" /\ code' \in {401, 422}
      \/ stage' = "raised" /\ code' = code
      \/ stage' = "calling" /\ code' = code /\ (route = "tickets" \/ session)
      \/ stage' = "login" /\ code' = code /\ route # "tickets" /\ ~session
  BY <1>2 DEF Query!Authorise, Query!Reply, Query!Raise
<1>5. StageInv'
  BY <1>3, <1>4 DEF IInv, QueryInv, StageInv, Fits, LoggedInAtMost, LastStatus
<1>6. ReplyInv'
  BY <1>3, <1>4 DEF IInv, QueryInv, ReplyInv, MiddlewareInv, SentInv, StageInv
<1> QED BY <1>1, <1>5, <1>6 DEF IInv, QueryInv

LEMMA KeepLogsIn == IInv /\ QueryLogsIn => IInv'
<1> SUFFICES ASSUME IInv, QueryLogsIn PROVE IInv'
  OBVIOUS
<1>1. PICK result \in {200, 401, 500}, usable \in BOOLEAN :
          Query!LoginAnswered(result, usable) /\ UpstreamAnswers("huawei", result)
  BY DEF QueryLogsIn, UpstreamStatuses
<1>0. result \in Statuses /\ "huawei" \in Services
  BY DEF Statuses, Services
<1>2. MiddlewareInv'
  BY <1>0, <1>1, KeepUpstreamAnswers DEF IInv
<1>3. answers' # <<>> /\ LastStatus' = result /\ (answers = <<>> => Len(answers') = 1)
  BY <1>0, <1>1, Answered DEF UpstreamAnswers, IInv
<1>4. /\ isQuery' = isQuery /\ isQuery /\ phase = "running" /\ stage = "login"
      /\ UNCHANGED <<phase, sent, withId, unanswered, route, activity>>
  BY <1>1 DEF QueryLogsIn, Running, Query!LoginAnswered, UpstreamAnswers, response
<1>5. \/ result >= 400 /\ stage' = "replied" /\ code' \in {400, 502} /\ session' = session
      \/ result < 400 /\ stage' = "calling" /\ code' = code /\ session' = TRUE
      \/ stage' = "raised" /\ code' = code /\ session' = session
  BY <1>1 DEF Query!LoginAnswered, Query!Refused, Query!Reply, Query!Raise
<1>6. StageInv'
  <2>1. ~unanswered /\ ~activity /\ ~session /\ code = 0 /\ route # "tickets"
        /\ session \in BOOLEAN /\ activity \in BOOLEAN /\ unanswered \in BOOLEAN
    BY <1>4 DEF IInv, QueryInv, StageInv
  <2>2. /\ ~unanswered' /\ ~activity' /\ route' # "tickets"
        /\ session' \in BOOLEAN /\ activity' \in BOOLEAN /\ unanswered' \in BOOLEAN
    BY <1>4, <1>5, <2>1
  <2>3. CASE result >= 400 /\ stage' = "replied" /\ code' \in {400, 502}
                /\ session' = session
    BY <1>3, <2>2, <2>3 DEF StageInv, Fits
  <2>4. CASE result < 400 /\ stage' = "calling" /\ code' = code /\ session' = TRUE
    <3>1. Len(answers') = 1
      BY <1>3, <1>4 DEF IInv, QueryInv, StageInv
    <3> QED BY <1>3, <2>1, <2>2, <2>4, <3>1 DEF StageInv, LoggedInAtMost
  <2>5. CASE stage' = "raised" /\ code' = code /\ session' = session
    BY <2>1, <2>2, <2>5 DEF StageInv
  <2> QED BY <1>5, <2>3, <2>4, <2>5
<1>7. ReplyInv'
  BY <1>4, <1>5 DEF IInv, QueryInv, ReplyInv, MiddlewareInv, SentInv, StageInv
<1> QED BY <1>2, <1>6, <1>7 DEF IInv, QueryInv

LEMMA KeepCalls == IInv /\ QueryCalls => IInv'
<1> SUFFICES ASSUME IInv, QueryCalls PROVE IInv'
  OBVIOUS
<1>1. PICK result \in {200, 401, 500}, message \in BOOLEAN, body \in Query!Bodies :
          /\ Query!CallAnswered(result, message, body)
          /\ UpstreamAnswers(Query!ServiceOf(route), result)
  BY DEF QueryCalls, UpstreamStatuses
<1>0. result \in Statuses /\ Query!ServiceOf(route) \in Services
  BY DEF Statuses, Services, Query!ServiceOf
<1>2. MiddlewareInv'
  BY <1>0, <1>1, KeepUpstreamAnswers DEF IInv
<1>3. answers' # <<>> /\ LastStatus' = result
  BY <1>0, <1>1, Answered DEF UpstreamAnswers, IInv
<1>4. /\ isQuery' = isQuery /\ isQuery /\ phase = "running" /\ stage = "calling"
      /\ UNCHANGED <<phase, sent, withId, unanswered, route, session>>
      /\ activity' = (result < 400 /\ route # "tickets")
  BY <1>1 DEF QueryCalls, Running, Query!CallAnswered, UpstreamAnswers, response
<1>5. \/ result >= 400 /\ stage' = "replied" /\ code' \in {400, 502}
      \/ result < 400 /\ stage' = "replied" /\ code' = 200
      \/ result < 400 /\ stage' = "raised" /\ code' = code
  BY <1>1 DEF Query!CallAnswered, Query!Refused, Query!Reply, Query!Raise, Query!PassOn,
              Query!Translate
<1>6. StageInv'
  BY <1>3, <1>4, <1>5 DEF IInv, QueryInv, StageInv, Fits
<1>7. ReplyInv'
  BY <1>4, <1>5 DEF IInv, QueryInv, ReplyInv, MiddlewareInv, SentInv, StageInv
<1> QED BY <1>2, <1>6, <1>7 DEF IInv, QueryInv

LEMMA KeepCallFails == IInv /\ QueryCallFails => IInv'
<1> SUFFICES ASSUME IInv, QueryCallFails PROVE IInv'
  OBVIOUS
<1>1. MiddlewareInv'
  BY KeepNothing DEF IInv, QueryCallFails
<1>2. /\ isQuery' = isQuery /\ isQuery /\ phase = "running" /\ stage \in {"login", "calling"}
      /\ UNCHANGED <<phase, sent, withId, answers, route, session, activity>>
      /\ unanswered' = TRUE /\ stage' = "replied" /\ code' = 502
  BY DEF QueryCallFails, Running, Query!CallFails, Query!Reply, vars, response, calls
<1>3. StageInv'
  BY <1>2 DEF IInv, QueryInv, StageInv, Fits, LoggedInAtMost, LastStatus
<1>4. ReplyInv'
  BY <1>2 DEF IInv, QueryInv, ReplyInv
<1> QED BY <1>1, <1>3, <1>4 DEF IInv, QueryInv

(* The steps that leave the route alone and give no answer. *)
LEMMA KeepStage ==
    ASSUME IInv, UNCHANGED <<isQuery, queryVars, answers>>
    PROVE  (isQuery => StageInv)'
BY DEF IInv, QueryInv, StageInv, Fits, LoggedInAtMost, LastStatus, queryVars

LEMMA KeepReplies == IInv /\ QueryReplies => IInv'
<1> SUFFICES ASSUME IInv, QueryReplies PROVE IInv'
  OBVIOUS
<1>0. isQuery /\ phase = "running" /\ stage = "replied" /\ code \in Statuses
  BY DEF QueryReplies, Running, IInv, QueryInv, StageInv, Fits, Statuses
<1>1. MiddlewareInv'
  BY <1>0, KeepSendStart, KeepSendChunk, KeepEnds DEF QueryReplies, IInv
<1>2. UNCHANGED <<isQuery, queryVars, answers>>
  BY DEF QueryReplies, SendStart, SendChunk, AppReturns, calls
<1>3. sent' \in {sent, code} /\ phase' \in {"running", "ended"}
  BY <1>0 DEF QueryReplies, SendStart, SendChunk, AppReturns, response
<1>4. ReplyInv'
  BY <1>0, <1>2, <1>3 DEF IInv, QueryInv, ReplyInv, queryVars
<1> QED BY <1>1, <1>2, <1>4, KeepStage DEF IInv, QueryInv

LEMMA KeepOtherSteps ==
    ASSUME IInv,
           (isQuery /\ QueryEnters) \/ QueryRaises \/ QueryIsCancelled
               \/ QueryEndsInServerError
    PROVE  IInv'
<1>1. MiddlewareInv'
  BY KeepEnter, KeepEnds, KeepServerError
     DEF IInv, QueryEnters, QueryRaises, QueryIsCancelled, QueryEndsInServerError
<1>2. UNCHANGED <<isQuery, queryVars, answers>>
  BY DEF QueryEnters, QueryRaises, QueryIsCancelled, QueryEndsInServerError, Enter,
         AppRaises, AppIsCancelled, ServerError, calls
<1>3. UNCHANGED stage /\ UNCHANGED code /\ isQuery' = isQuery
  BY <1>2 DEF queryVars
<1>4. ASSUME isQuery PROVE ReplyInv'
  <2> USE <1>3, <1>4 DEF IInv, QueryInv, ReplyInv
  <2>1. CASE QueryEnters
    BY <2>1 DEF QueryEnters, Enter, response
  <2>2. CASE QueryRaises
    BY <2>2 DEF QueryRaises, Running, AppRaises, response
  <2>3. CASE QueryIsCancelled
    BY <2>3 DEF QueryIsCancelled, Running, AppIsCancelled, response
  <2>4. CASE QueryEndsInServerError
    BY <2>4 DEF QueryEndsInServerError, ServerError
  <2> QED BY <2>1, <2>2, <2>3, <2>4
<1> QED BY <1>1, <1>2, <1>3, <1>4, KeepStage DEF IInv, QueryInv

LEMMA IndNext == IInv /\ [AuditedNext]_allVars => IInv'
<1> SUFFICES ASSUME IInv, [AuditedNext]_allVars PROVE IInv'
  OBVIOUS
<1>1. CASE UNCHANGED allVars
  <2>1. UNCHANGED vars /\ UNCHANGED <<isQuery, queryVars, answers>>
    BY <1>1 DEF allVars, vars, calls
  <2>2. MiddlewareInv'
    BY <2>1, KeepNothing DEF IInv
  <2>3. (isQuery => ReplyInv)'
    BY <2>1 DEF IInv, QueryInv, ReplyInv, vars, response, queryVars
  <2> QED BY <2>1, <2>2, <2>3, KeepStage DEF IInv, QueryInv
<1>2. CASE OtherApplication
  BY <1>2, KeepNext DEF OtherApplication, IInv, QueryInv
<1> QED BY <1>1, <1>2, KeepAuthorised, KeepLogsIn, KeepCalls, KeepCallFails, KeepReplies,
           KeepOtherSteps DEF AuditedNext

(* The strengthening holds in every reachable state. *)
THEOREM Inductive == AuditedSpec => []IInv
BY InitQuery, IndNext, PTL DEF AuditedSpec

-----------------------------------------------------------------------------
(* What follows from it.                                                   *)

(* Every variable of the middleware keeps its type. *)
THEOREM TypeCorrect == AuditedSpec => []TypeOK
<1>1. IInv => TypeOK
  BY DEF IInv, MiddlewareInv
<1> QED BY <1>1, Inductive, PTL

(* What is kept of a stream is bounded, however long the stream is. *)
THEOREM CopiesAreBounded == AuditedSpec => []CaptureIsBounded
<1>1. IInv => CaptureIsBounded
  BY DEF IInv, MiddlewareInv, CaptureInv
<1> QED BY <1>1, Inductive, PTL

(* One entry: before the application has ended there is none. *)
LEMMA TheEntry ==
    ASSUME IInv, NEW i \in 1..Len(entries)
    PROVE  \E failed \in BOOLEAN, names \in NamesIn :
               /\ audited /\ phase \in {"raised", "ended"} /\ i = 1
               /\ entries[i] = EntryNow(failed, names)
               /\ phase = "raised" => failed
               /\ sent # 0 => status = sent /\ (withId \/ (sent = 500 /\ failed))
<1>1. audited /\ phase \in {"raised", "ended"}
  BY DEF IInv, MiddlewareInv, TypeOK, SentInv
<1>2. PICK failed \in BOOLEAN, names \in NamesIn :
          /\ entries = <<EntryNow(failed, names)>>
          /\ phase = "raised" => failed
          /\ sent # 0 => status = sent /\ (withId \/ (sent = 500 /\ failed))
  BY <1>1 DEF IInv, MiddlewareInv, EntryInv
<1>3. i = 1 /\ entries[i] = EntryNow(failed, names)
  BY <1>2
<1> QED BY <1>1, <1>2, <1>3

(* An audited request leaves exactly one entry, with the status the client *)
(* was sent.                                                               *)
THEOREM EntryIsTrue == AuditedSpec => []EntryTellsTheResponse
<1>1. IInv => EntryTellsTheResponse
  <2> SUFFICES ASSUME IInv, phase = "ended"
               PROVE  /\ Len(entries) = IF audited THEN 1 ELSE 0
                      /\ audited /\ sent # 0 =>
                            /\ entries[1].status = sent
                            /\ withId \/ (sent = 500 /\ entries[1].error)
    BY DEF EntryTellsTheResponse
  <2>1. CASE ~audited
    BY <2>1 DEF IInv, MiddlewareInv, SentInv
  <2>2. CASE audited
    <3>1. PICK failed \in BOOLEAN, names \in NamesIn :
              /\ entries = <<EntryNow(failed, names)>>
              /\ sent # 0 => status = sent /\ (withId \/ (sent = 500 /\ failed))
      BY <2>2 DEF IInv, MiddlewareInv, EntryInv
    <3>2. Len(entries) = 1 /\ entries[1].status = status /\ entries[1].error = failed
      BY <3>1 DEF EntryNow
    <3> QED BY <2>2, <3>1, <3>2
  <2> QED BY <2>1, <2>2
<1> QED BY <1>1, Inductive, PTL

(* A recorded body, and a body names were taken from, is the whole body. *)
THEOREM BodyIsWhole == AuditedSpec => []RecordedBodyIsWhole
<1>1. IInv => RecordedBodyIsWhole
  <2> SUFFICES ASSUME IInv, NEW i \in 1..Len(entries)
               PROVE  /\ entries[i].size =< MaxBody => entries[i].body = entries[i].size
                      /\ entries[i].names # "none" => entries[i].body = entries[i].size
    BY DEF RecordedBodyIsWhole
  <2>1. PICK failed \in BOOLEAN, names \in NamesIn : entries[i] = EntryNow(failed, names)
    BY TheEntry
  <2>2. reqSize \in Nat /\ (reqSize =< MaxBody => captured = reqSize)
    BY DEF IInv, MiddlewareInv, TypeOK, CaptureInv
  <2>3. names # "none" => reqSize =< MaxBody
    BY <2>2, Limits DEF NamesIn
  <2> QED BY <2>1, <2>2, <2>3, Limits DEF EntryNow
<1> QED BY <1>1, Inductive, PTL

(* The entry's upstream columns sum up the answers. *)
THEOREM AnswersAreCounted == AuditedSpec => []EntryCountsTheAnswers
<1>1. IInv => EntryCountsTheAnswers
  <2> SUFFICES ASSUME IInv, NEW i \in 1..Len(entries)
               PROVE  entries[i].upstream = Summary
    BY DEF EntryCountsTheAnswers, Summary
  <2>1. PICK failed \in BOOLEAN, names \in NamesIn :
            audited /\ entries[i] = EntryNow(failed, names)
    BY TheEntry
  <2> QED BY <2>1 DEF EntryNow, IInv, MiddlewareInv, CallsInv
<1> QED BY <1>1, Inductive, PTL

(* A query's answer fits what its upstream calls came to. *)
THEOREM ReplyIsTrue == AuditedSpec => []ReplyFitsTheCalls
<1>1. IInv => ReplyFitsTheCalls
  BY DEF IInv, QueryInv, StageInv, ReplyInv, Fits, ReplyFitsTheCalls
<1> QED BY <1>1, Inductive, PTL

(* Only a success of MAE is activity. *)
THEOREM ActivityIsEarned == AuditedSpec => []ActivityIsSuccess
<1>1. IInv => ActivityIsSuccess
  BY DEF IInv, QueryInv, StageInv, ActivityIsSuccess
<1> QED BY <1>1, Inductive, PTL

(* A failure behind which the entry shows an upstream success is explained.*)
THEOREM FailureIsTold == AuditedSpec => []FailureIsToldByTheEntry
<1>1. IInv => FailureIsToldByTheEntry
  <2> SUFFICES ASSUME IInv, NEW i \in 1..Len(entries), isQuery, sent = entries[i].status,
                      entries[i].status >= 500, entries[i].upstream.status = 200,
                      ~entries[i].error
               PROVE  unanswered /\ entries[i].upstream.calls = 1 /\ route # "tickets"
    BY DEF FailureIsToldByTheEntry
  <2>1. PICK failed \in BOOLEAN, names \in NamesIn :
            /\ audited /\ entries[i] = EntryNow(failed, names)
            /\ sent # 0 => status = sent /\ (withId \/ (sent = 500 /\ failed))
    BY TheEntry
  <2>2. ~failed /\ entries[i].upstream = upstream /\ upstream = Summary
    BY <2>1 DEF EntryNow, IInv, MiddlewareInv, CallsInv
  <2>3. answers # <<>> /\ LastStatus = 200 /\ upstream.calls = Len(answers)
    BY <2>2 DEF Summary, NotCalled, LastStatus
  <2>4. sent # 0 /\ sent >= 500
    OBVIOUS
  <2>5. withId
    BY <2>1, <2>2, <2>4
  <2>6. stage = "replied" /\ code >= 500 /\ StageInv
    BY <2>4, <2>5 DEF IInv, QueryInv, ReplyInv
  <2>7. unanswered /\ LoggedInAtMost
    BY <2>3, <2>6 DEF StageInv, Fits
  <2> QED BY <2>2, <2>3, <2>7 DEF LoggedInAtMost
<1> QED BY <1>1, Inductive, PTL
=============================================================================
