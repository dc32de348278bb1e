-------------------------- MODULE AuditMiddleware --------------------------
(***************************************************************************)
(* app/api/audit_middleware.py for one HTTP request: what the wrappers of  *)
(* receive and send see of the request and of the response, and the entry  *)
(* that the `finally` hands to record().  Outside the middleware Starlette *)
(* answers 500 for an exception that no handler took.  Bodies are streams  *)
(* of chunks, and a chunk is its length.  The httpx hooks of               *)
(* app/services/audit.py count the upstream answers for the request.       *)
(***************************************************************************)
EXTENDS Integers, Sequences

CONSTANTS
    MaxBody,     \* audit_max_body_bytes
    ErrorLimit,  \* _ERROR_BODY_LIMIT
    MaxChunk,    \* bound of the model: the longest chunk
    MaxChunks,   \* bound of the model: chunks of a body
    MaxCalls     \* bound of the model: upstream calls of a request

ASSUME LimitsAssumption == {MaxBody, ErrorLimit, MaxChunk, MaxChunks, MaxCalls} \subseteq Nat

Statuses == {200, 400, 401, 422, 500, 502}
Services == {"huawei", "womportal"}

VARIABLES
    phase,      \* "received", "running", "raised", "ended"
    audited,    \* the middleware does not pass the request through
    unread,     \* chunks of the request body still to be received
    reqSize,    \* req_size
    captured,   \* len(req_body)
    status,     \* status, as send_wrapper knows it
    respSize,   \* resp_size
    errorSize,  \* len(error_body)
    upstream,   \* what the hooks have accumulated in upstream_ctx
    answers,    \* history: what the upstream services have answered
    chunksLeft, \* chunks the response may still have
    sent,       \* the status line the client has received, or 0
    withId,     \* it came with X-Request-ID
    entries     \* what record() has been given

request == <<unread, reqSize, captured>>
response == <<status, respSize, errorSize, chunksLeft, sent, withId>>
calls == <<upstream, answers>>
vars == <<phase, audited, request, response, calls, entries>>

Answer == [service : Services, status : Statuses]
NotCalled == [service |-> "none", status |-> 0, calls |-> 0]
Accumulated == [service : Services, status : Statuses, calls : 1..MaxCalls] \cup {NotCalled}

(* What the body names: ne_names, nodeb_name, or neither. *)
Named == {"ne_names", "nodeb_name", "none"}

Entry == [status : Statuses, error : BOOLEAN, size : Nat, body : Nat, detail : Nat,
          names : Named, upstream : Accumulated]

TypeOK ==
    /\ phase \in {"received", "running", "raised", "ended"}
    /\ audited \in BOOLEAN /\ withId \in BOOLEAN
    /\ unread \in Seq(0..MaxChunk)
    /\ {reqSize, captured, respSize, errorSize} \subseteq Nat
    /\ chunksLeft \in 0..MaxChunks
    /\ status \in Statuses /\ sent \in Statuses \cup {0}
    /\ upstream \in Accumulated /\ answers \in Seq(Answer)
    /\ entries \in Seq(Entry)

Init ==
    /\ phase = "received"
    /\ audited = FALSE
    /\ unread \in UNION {[1..n -> 0..MaxChunk] : n \in 0..MaxChunks}
    /\ reqSize = 0 /\ captured = 0
    /\ status = 500 /\ respSize = 0 /\ errorSize = 0
    /\ upstream = NotCalled /\ answers = <<>>
    /\ chunksLeft = MaxChunks
    /\ sent = 0 /\ withId = FALSE
    /\ entries = <<>>

-----------------------------------------------------------------------------

(* An excluded path, or no queue: the request passes through untouched. *)
Enter ==
    /\ phase = "received"
    /\ phase' = "running"
    /\ audited' \in BOOLEAN
    /\ UNCHANGED <<request, response, calls, entries>>

(* A chunk is kept only when it leaves the copy below the limit. *)
ReceiveChunkBelowLimit ==
    /\ phase = "running" /\ unread # <<>>
    /\ unread' = Tail(unread)
    /\ reqSize' = reqSize + Head(unread)
    /\ captured' = IF captured + Head(unread) < MaxBody THEN captured + Head(unread) ELSE captured
    /\ UNCHANGED <<phase, audited, response, calls, entries>>

(* receive_wrapper: the limit is compared before the chunk is kept. *)
ReceiveChunk ==
    /\ phase = "running" /\ unread # <<>>
    /\ unread' = Tail(unread)
    /\ IF audited
       THEN /\ reqSize' = reqSize + Head(unread)
            /\ captured' = IF captured =< MaxBody THEN captured + Head(unread) ELSE captured
       ELSE UNCHANGED <<reqSize, captured>>
    /\ UNCHANGED <<phase, audited, response, calls, entries>>

(* send_wrapper, http.response.start. *)
SendStart(code) ==
    /\ phase = "running" /\ sent = 0
    /\ sent' = code
    /\ IF audited THEN status' = code /\ withId' = TRUE ELSE UNCHANGED <<status, withId>>
    /\ UNCHANGED <<phase, audited, request, respSize, errorSize, chunksLeft, calls, entries>>

(* send_wrapper, http.response.body. *)
SendChunk(n) ==
    /\ phase = "running" /\ sent # 0 /\ chunksLeft > 0
    /\ chunksLeft' = chunksLeft - 1
    /\ IF audited
       THEN /\ respSize' = respSize + n
            /\ errorSize' = IF status >= 400 /\ errorSize < ErrorLimit THEN errorSize + n
                           ELSE errorSize
       ELSE UNCHANGED <<respSize, errorSize>>
    /\ UNCHANGED <<phase, audited, request, status, sent, withId, calls, entries>>

(* Mutant of UpstreamAnswers: each answer starts the count anew. *)
UpstreamAnswersAnew(service, code) ==
    /\ phase = "running" /\ Len(answers) < MaxCalls
    /\ answers' = Append(answers, [service |-> service, status |-> code])
    /\ upstream' = IF audited THEN [service |-> service, status |-> code, calls |-> 1] ELSE upstream
    /\ UNCHANGED <<phase, audited, request, response, entries>>

(* Mutant of UpstreamAnswers: the first answer's status stays, too. *)
UpstreamAnswersFirst(service, code) ==
    /\ phase = "running" /\ Len(answers) < MaxCalls
    /\ answers' = Append(answers, [service |-> service, status |-> code])
    /\ upstream' = IF ~audited THEN upstream
                   ELSE IF upstream = NotCalled
                   THEN [service |-> service, status |-> code, calls |-> 1]
                   ELSE [upstream EXCEPT !.calls = @ + 1]
    /\ UNCHANGED <<phase, audited, request, response, entries>>

(* on_response of upstream_hooks: the first service stays, the status is   *)
(* that of the last answer; a call without an answer leaves no trace.      *)
UpstreamAnswers(service, code) ==
    /\ phase = "running" /\ Len(answers) < MaxCalls
    /\ answers' = Append(answers, [service |-> service, status |-> code])
    /\ IF audited
       THEN upstream' = [service |-> IF upstream = NotCalled THEN service ELSE upstream.service,
                         status |-> code, calls |-> upstream.calls + 1]
       ELSE UNCHANGED upstream
    /\ UNCHANGED <<phase, audited, request, response, entries>>

(* Names are taken from a body that was parsed only: one that was received *)
(* whole and within the limit.                                             *)
NamesIn == IF reqSize = 0 \/ reqSize > MaxBody THEN {"none"} ELSE Named

(* The entry of this moment; _parse_body keeps a body only when it fits.   *)
EntryNow(failed, names) ==
    [status |-> status, error |-> failed, size |-> reqSize,
     body |-> IF reqSize > MaxBody THEN 0 ELSE captured,
     detail |-> IF status >= 400 THEN errorSize ELSE 0,
     names |-> names, upstream |-> upstream]

(* The `finally`: the entry is recorded before the exception goes on.      *)
RecordEntry(failed) ==
    IF audited
    THEN \E names \in NamesIn : entries' = Append(entries, EntryNow(failed, names))
    ELSE UNCHANGED entries

AppReturns ==
    /\ phase = "running" /\ sent # 0
    /\ RecordEntry(FALSE)
    /\ phase' = "ended"
    /\ UNCHANGED <<audited, request, response, calls>>

(* The record is made after the call, not in a `finally`. *)
AppRaisesUnrecorded ==
    /\ phase = "running"
    /\ phase' = "raised"
    /\ UNCHANGED <<audited, request, response, calls, entries>>

AppRaises ==
    /\ phase = "running"
    /\ RecordEntry(TRUE)
    /\ phase' = "raised"
    /\ UNCHANGED <<audited, request, response, calls>>

(* CancelledError is not an Exception: error_type stays None. *)
AppIsCancelled ==
    /\ phase = "running"
    /\ RecordEntry(FALSE)
    /\ phase' = "ended"
    /\ UNCHANGED <<audited, request, response, calls>>

(* Starlette's ServerErrorMiddleware, which has the original send. *)
ServerError ==
    /\ phase = "raised"
    /\ phase' = "ended"
    /\ IF sent = 0 THEN sent' = 500 ELSE UNCHANGED sent
    /\ UNCHANGED <<audited, request, status, respSize, errorSize, chunksLeft, withId, calls,
                   entries>>

(* Any application under the middleware. *)
Next ==
    \/ Enter \/ ReceiveChunk
    \/ \E code \in {200, 401, 500} : SendStart(code)
    \/ \E n \in 0..MaxChunk : SendChunk(n)
    \/ \E service \in Services, code \in {200, 500} : UpstreamAnswers(service, code)
    \/ AppReturns \/ AppRaises \/ AppIsCancelled \/ ServerError

Spec == Init /\ [][Next]_vars

-----------------------------------------------------------------------------
(* Safety.                                                                 *)

(* However a request ends, an audited one leaves exactly one entry, and    *)
(* its status is the one the client was sent, if it was sent any: also for *)
(* the 500 that is sent after the entry was made.  Only that 500 may lack  *)
(* the entry's X-Request-ID, and only when the entry names the exception.  *)
EntryTellsTheResponse ==
    phase = "ended" =>
        /\ Len(entries) = IF audited THEN 1 ELSE 0
        /\ audited /\ sent # 0 => /\ entries[1].status = sent
                                  /\ withId \/ (sent = 500 /\ entries[1].error)

(* A body that was recorded as such was captured to the last byte, and     *)
(* the elements it names were taken from such a body.                      *)
RecordedBodyIsWhole ==
    \A i \in 1..Len(entries) :
        /\ entries[i].size =< MaxBody => entries[i].body = entries[i].size
        /\ entries[i].names # "none" => entries[i].body = entries[i].size

(* The entry's upstream columns tell of every answer that was received for *)
(* this request: their number, the first one's service and the last one's  *)
(* status.                                                                 *)
EntryCountsTheAnswers ==
    \A i \in 1..Len(entries) :
        entries[i].upstream =
            IF answers = <<>> THEN NotCalled
            ELSE [service |-> answers[1].service, status |-> answers[Len(answers)].status,
                  calls |-> Len(answers)]

(* What is kept of a stream of any length stays within the limit and one   *)
(* more chunk, for the request and for an error response.                  *)
CaptureIsBounded == captured =< MaxBody + MaxChunk /\ errorSize =< ErrorLimit + MaxChunk
=============================================================================
