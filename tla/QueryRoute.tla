----------------------------- MODULE QueryRoute -----------------------------
(***************************************************************************)
(* The GET routes of app/api/routes/alarms.py and tickets.py: one request  *)
(* that is authorised (auth.py, backend_auth.py), needs a session of MAE   *)
(* unless it goes to WOM Portal, makes one upstream call, and translates   *)
(* its payload.  Steps end where the handler awaits an upstream service.   *)
(***************************************************************************)
EXTENDS Integers, Sequences

CONSTANT MaxAlarms   \* bound of the model: alarms of a page

Routes == {"site", "hermes", "license_trial", "tickets"}
ServiceOf(r) == IF r = "tickets" THEN "womportal" ELSE "huawei"

VARIABLES
    route,
    stage,    \* "arrived", "login", "calling", "replied", "raised"
    session,  \* get_huawei_headers has a usable session
    activity, \* mark_huawei_activity was called for this request
    code,     \* the status of the reply, 0 before there is one
    page      \* the alarms of the reply

(* An alarm is what _epoch_ms_to_iso tells apart in alarmClearedTime: no   *)
(* value, "0", a number, a number beyond what datetime can hold, a text.   *)
Times == {"none", "0", "epoch", "beyond", "text"}

(* What the body of a 2xx answer may be; a page may lack its list, as an   *)
(* error envelope does.                                                    *)
Lists == UNION {[1..n -> Times] : n \in 0..MaxAlarms}
Bodies == [kind : {"page"}, alarms : Lists]
              \cup [kind : {"noList", "nullList", "notAnObject", "notJson"}, alarms : {<<>>}]

Init ==
    /\ route \in Routes
    /\ stage = "arrived"
    /\ session \in BOOLEAN
    /\ activity = FALSE
    /\ code = 0
    /\ page = <<>>

-----------------------------------------------------------------------------

Reply(status) == stage' = "replied" /\ code' = status /\ UNCHANGED page
Raise == stage' = "raised" /\ UNCHANGED <<code, page>>

(* require_user comes before the check of limit, and compare_digest raises *)
(* TypeError for a token with other than ASCII characters.  The client may *)
(* not be buildable: a proxy or a certificate that is missing.             *)
Authorise(credentials, inRange, buildable) ==
    /\ stage = "arrived"
    /\ CASE credentials \in {"none", "wrong"} -> Reply(401)
         [] credentials = "notAscii" -> Raise
         [] OTHER ->
              IF ~inRange /\ route # "tickets" THEN Reply(422)
              ELSE IF ~buildable THEN Raise
              ELSE /\ stage' = IF route = "tickets" \/ session THEN "calling" ELSE "login"
                   /\ UNCHANGED <<code, page>>
    /\ UNCHANGED <<route, session, activity>>

(* Mutant of Refused: the upstream status is passed on. *)
RefusedAsItIs(status, message) == Reply(status)

(* HTTPStatusError: MAE's retMessage is the caller's 400, and everything   *)
(* else, and all that WOM Portal refuses, a 502.                           *)
Refused(status, message) == Reply(IF message /\ route # "tickets" THEN 400 ELSE 502)

(* The login is one of the upstream calls of the request.  An error of its *)
(* own kind (RuntimeError, JSONDecodeError) is caught by nobody.           *)
LoginAnswered(status, usable) ==
    /\ stage = "login"
    /\ IF status >= 400 THEN Refused(status, usable) /\ UNCHANGED session
       ELSE IF usable THEN session' = TRUE /\ stage' = "calling" /\ UNCHANGED <<code, page>>
       ELSE Raise /\ UNCHANGED session
    /\ UNCHANGED <<route, activity>>

(* httpx.HTTPError without an answer: a timeout, a proxy, the connection.  *)
CallFails ==
    /\ stage \in {"login", "calling"}
    /\ Reply(502)
    /\ UNCHANGED <<route, session, activity>>

ClearedTime(time) ==
    CASE time \in {"none", "0"} -> "null" [] time = "text" -> "text" [] OTHER -> "iso"

(* A body without a list is an empty page; a list that is null, a body     *)
(* that is no object or no JSON, and a time that is too large all raise.   *)
Translate(body) ==
    IF \/ body.kind \in {"nullList", "notAnObject", "notJson"}
       \/ \E i \in 1..Len(body.alarms) : body.alarms[i] = "beyond"
    THEN Raise
    ELSE /\ stage' = "replied" /\ code' = 200
         /\ page' = [i \in 1..Len(body.alarms) |-> ClearedTime(body.alarms[i])]

(* WOM Portal's JSON is passed on as it is. *)
PassOn(body) == IF body.kind = "notJson" THEN Raise ELSE Reply(200)

(* Mutant of CallAnswered: any answer is activity of the session. *)
CallAnsweredActively(status, message, body) ==
    /\ stage = "calling"
    /\ IF status >= 400 THEN Refused(status, message)
       ELSE IF route = "tickets" THEN PassOn(body) ELSE Translate(body)
    /\ activity' = (route # "tickets")
    /\ UNCHANGED <<route, session>>

(* The activity is marked before the body is looked at. *)
CallAnswered(status, message, body) ==
    /\ stage = "calling"
    /\ IF status >= 400 THEN Refused(status, message)
       ELSE IF route = "tickets" THEN PassOn(body) ELSE Translate(body)
    /\ activity' = (status < 400 /\ route # "tickets")
    /\ UNCHANGED <<route, session>>
=============================================================================
