---------------------------- MODULE AuditedQuery ----------------------------
(***************************************************************************)
(* A request from the client's side: AuditMiddleware around either one of  *)
(* the routes of QueryRoute or, as `any other' application, whatever the   *)
(* middleware allows for.  The two meet where the route replies, raises    *)
(* or is cancelled, and where the httpx hooks count an upstream answer.    *)
(***************************************************************************)
EXTENDS AuditMiddleware

CONSTANT MaxAlarms   \* bound of the model: alarms of a page

ASSUME MaxAlarmsAssumption == MaxAlarms \in Nat

VARIABLES
    isQuery,   \* the application is a route of QueryRoute
    unanswered, \* history: an upstream call of the query had no answer
    route, stage, session, activity, code, page

Query == INSTANCE QueryRoute

queryVars == <<unanswered, route, stage, session, activity, code, page>>
allVars == <<vars, isQuery, queryVars>>

AuditedInit ==
    /\ Init
    /\ isQuery \in BOOLEAN
    /\ unanswered = FALSE
    /\ Query!Init
    /\ IF isQuery THEN unread = <<>> ELSE route = "site" /\ session

UpstreamStatuses == {200, 401, 500}
Running == isQuery /\ phase = "running"

QueryEnters ==
    /\ Enter
    /\ UNCHANGED <<isQuery, queryVars>>

QueryIsAuthorised ==
    /\ Running
    /\ \E credentials \in {"none", "wrong", "notAscii", "valid"}, inRange, buildable \in BOOLEAN :
          Query!Authorise(credentials, inRange, buildable)
    /\ UNCHANGED <<vars, isQuery, unanswered>>

QueryLogsIn ==
    /\ Running
    /\ \E result \in UpstreamStatuses, usable \in BOOLEAN :
          Query!LoginAnswered(result, usable) /\ UpstreamAnswers("huawei", result)
    /\ UNCHANGED <<isQuery, unanswered>>

QueryCalls ==
    /\ Running
    /\ \E result \in UpstreamStatuses, message \in BOOLEAN, body \in Query!Bodies :
          /\ Query!CallAnswered(result, message, body)
          /\ UpstreamAnswers(Query!ServiceOf(route), result)
    /\ UNCHANGED <<isQuery, unanswered>>

QueryCallFails ==
    /\ Running
    /\ Query!CallFails
    /\ unanswered' = TRUE
    /\ UNCHANGED <<vars, isQuery>>

QueryReplies ==
    /\ Running /\ stage = "replied"
    /\ \/ SendStart(code)
       \/ \E n \in 0..MaxChunk : SendChunk(n)
       \/ AppReturns
    /\ UNCHANGED <<isQuery, queryVars>>

QueryRaises ==
    /\ Running /\ stage = "raised"
    /\ AppRaises
    /\ UNCHANGED <<isQuery, queryVars>>

QueryIsCancelled ==
    /\ Running
    /\ AppIsCancelled
    /\ UNCHANGED <<isQuery, queryVars>>

QueryEndsInServerError ==
    /\ isQuery
    /\ ServerError
    /\ UNCHANGED <<isQuery, queryVars>>

OtherApplication ==
    /\ ~isQuery
    /\ Next
    /\ UNCHANGED <<isQuery, queryVars>>

AuditedNext ==
    \/ isQuery /\ QueryEnters
    \/ QueryIsAuthorised \/ QueryLogsIn \/ QueryCalls \/ QueryCallFails
    \/ QueryReplies \/ QueryRaises \/ QueryIsCancelled \/ QueryEndsInServerError
    \/ OtherApplication

AuditedSpec == AuditedInit /\ [][AuditedNext]_allVars

-----------------------------------------------------------------------------
(* Safety of a query, as the client and the audit trail see it.            *)

LastStatus == answers[Len(answers)].status

(* What a query is answered with fits what its upstream calls came to: 401 *)
(* and 422 come before any of them, so MAE's 401 never looks like the      *)
(* caller's; 400 is a refusal, 502 a refusal or a call without an answer,  *)
(* and 200 the success of the call that was asked for, not of the login    *)
(* before it.                                                              *)
ReplyFitsTheCalls ==
    isQuery /\ sent # 0 =>
        CASE sent \in {401, 422} -> answers = <<>> /\ ~unanswered
          [] sent = 400 -> answers # <<>> /\ LastStatus >= 400 /\ ~unanswered
          [] sent = 502 -> unanswered \/ (answers # <<>> /\ LastStatus >= 400)
          [] sent = 200 -> stage = "replied" /\ answers # <<>> /\ LastStatus < 400 /\ ~unanswered
          [] OTHER -> stage = "raised"

(* In the audit trail a failed query whose upstream_status is a success is *)
(* one whose call was not answered or whose answer could not be used: the  *)
(* status is then that of the login, or there is an error_type.            *)
FailureIsToldByTheEntry ==
    \A i \in 1..Len(entries) :
        isQuery /\ sent = entries[i].status /\ entries[i].status >= 500
            /\ entries[i].upstream.status = 200 =>
                (unanswered /\ entries[i].upstream.calls = 1 /\ route # "tickets")
                    \/ entries[i].error

(* The session's activity is marked for a success of MAE and for nothing   *)
(* else: not for its refusal, nor for the login, nor for WOM Portal.       *)
ActivityIsSuccess ==
    isQuery => (activity <=> /\ route # "tickets" /\ stage \in {"replied", "raised"}
                             /\ answers # <<>> /\ LastStatus < 400 /\ ~unanswered
                             /\ session /\ code \notin {401, 422})
=============================================================================
