------------------------------ MODULE KpiPoll ------------------------------
(***************************************************************************)
(* POST /mml/kpis of app/api/routes/huawei.py: a performance query for the *)
(* last 24 published hours, which MAE answers at once or as a task whose   *)
(* pages are fetched one after the other, each with the marker of the page *)
(* before it, while the task may still be collecting.  Pages are numbered; *)
(* the marker that comes with a page is its number.  Time of day is in     *)
(* minutes since the epoch, UTC.                                           *)
(***************************************************************************)
EXTENDS Integers, Sequences

CONSTANTS
    PageCount,  \* pages MAE has for the query
    Moments     \* moments at which the query may be made

ASSUME PageCountAssumption == PageCount \in Nat \ {0}
ASSUME MomentsAssumption == Moments \subseteq {m \in Nat : m >= 1500}

Hour == 60
Day == 24 * Hour
Lag == 15   \* _PM_AVAILABILITY_LAG_MINUTES

VARIABLES
    phase,      \* "received", "creating", "polling", "sleeping", or one of Ends
    asked,      \* when the query was made, or 0
    window,     \* its startTime and endTime
    marker,     \* the page whose marker is sent next, 0 for no marker
    merged,     \* merged_results, page by page
    late,       \* the deadline has passed
    lateCalls,  \* calls sent after it, counted up to two
    cut         \* MAE gave an error code with HTTP 200 and no result

vars == <<phase, asked, window, marker, merged, late, lateCalls, cut>>

(* 200, 400, 502, 500 *)
Ends == {"answered", "rejected", "failed", "crashed"}

TypeOK ==
    /\ phase \in {"received", "creating", "polling", "sleeping"} \cup Ends
    /\ asked \in Moments \cup {0}
    /\ window \in Int \X Int
    /\ marker \in 0..PageCount
    /\ merged \in Seq(1..PageCount)
    /\ late \in BOOLEAN /\ cut \in BOOLEAN
    /\ lateCalls \in 0..2

Init ==
    /\ phase = "received" /\ asked = 0 /\ window = <<0, 0>>
    /\ marker = 0 /\ merged = <<>>
    /\ late = FALSE /\ lateCalls = 0 /\ cut = FALSE

-----------------------------------------------------------------------------

(* Mutant of LastDay: an hour is taken for published when it has closed. *)
LastDayWithoutLag(now) == LET hour == now - (now % Hour) IN <<hour - Day, hour>>

(* _last_24h_window *)
LastDay(now) ==
    LET hour == now - (now % Hour)
        end == IF now >= hour + Lag THEN hour ELSE hour - Hour
    IN  <<end - Day, end>>

Ask ==
    /\ phase = "received"
    /\ asked' \in Moments
    /\ window' = LastDay(asked')
    /\ phase' = "creating"
    /\ UNCHANGED <<marker, merged, late, lateCalls, cut>>

(* HTTP 202, or retCode 90037. *)
CreatedAsTask ==
    /\ phase = "creating"
    /\ phase' = "polling"
    /\ UNCHANGED <<asked, window, marker, merged, late, lateCalls, cut>>

(* A small result comes at once; any other retCode comes without one. *)
AnsweredAtOnce ==
    /\ phase = "creating"
    /\ phase' = "answered"
    /\ \/ merged' = [i \in 1..PageCount |-> i] /\ UNCHANGED cut
       \/ cut' = TRUE /\ UNCHANGED merged
    /\ UNCHANGED <<asked, window, marker, late, lateCalls>>

(* An envelope with an HTTP error is 400, any other HTTP or transport      *)
(* error 502, and a body or a login that cannot be used 500.               *)
CallFails ==
    /\ phase \in {"creating", "polling"}
    /\ phase' \in {"rejected", "failed", "crashed"}
    /\ UNCHANGED <<asked, window, marker, merged, late, lateCalls, cut>>

(* Mutant of StillRunning: the deadline is left to the pagination. *)
StillRunningForEver ==
    /\ phase = "polling"
    /\ phase' = "sleeping"
    /\ UNCHANGED <<asked, window, marker, merged, late, lateCalls, cut>>

(* retCode 90037, also between two pages. *)
StillRunning ==
    /\ phase = "polling"
    /\ phase' = IF late THEN "failed" ELSE "sleeping"
    /\ UNCHANGED <<asked, window, marker, merged, late, lateCalls, cut>>

Wake ==
    /\ phase = "sleeping"
    /\ phase' = "polling"
    /\ lateCalls' = IF late /\ lateCalls < 2 THEN lateCalls + 1 ELSE lateCalls
    /\ UNCHANGED <<asked, window, marker, merged, late, cut>>

(* Mutant of PageArrives: after the deadline it returns what there is. *)
PageArrivesInPart ==
    /\ phase = "polling"
    /\ LET page == marker + 1
       IN  /\ page =< PageCount
           /\ merged' = Append(merged, page)
           /\ marker' = page
           /\ phase' = IF page = PageCount \/ late THEN "answered" ELSE "polling"
    /\ UNCHANGED <<asked, window, late, lateCalls, cut>>

(* The page after the marker; the last one comes without a marker.  The    *)
(* next call is sent at once, unless the deadline has passed.              *)
PageArrives ==
    /\ phase = "polling"
    /\ LET page == marker + 1
       IN  /\ page =< PageCount
           /\ merged' = Append(merged, page)
           /\ marker' = page
           /\ phase' = IF page = PageCount THEN "answered"
                       ELSE IF late THEN "failed" ELSE "polling"
    /\ UNCHANGED <<asked, window, late, lateCalls, cut>>

(* An error code in a body with neither result nor marker ends the loop    *)
(* like a last page that is empty.                                         *)
NoPage ==
    /\ phase = "polling"
    /\ phase' = "answered" /\ cut' = TRUE
    /\ UNCHANGED <<asked, window, marker, merged, late, lateCalls>>

DeadlinePasses ==
    /\ phase \in {"polling", "sleeping"} /\ ~late
    /\ late' = TRUE
    /\ UNCHANGED <<phase, asked, window, marker, merged, lateCalls, cut>>

PollEnds == CallFails \/ StillRunning \/ PageArrives \/ NoPage

Next == Ask \/ CreatedAsTask \/ AnsweredAtOnce \/ PollEnds \/ Wake \/ DeadlinePasses

Spec == Init /\ [][Next]_vars

-----------------------------------------------------------------------------
(* Safety.                                                                 *)

(* The window ends with the latest hour MAE has published 15 minutes after *)
(* it closed, and it spans 24 hours (_last_24h_window).                    *)
WindowIsPublished ==
    phase # "received" =>
        /\ window[2] % Hour = 0 /\ window[2] + Lag =< asked
        /\ \A e \in 0..asked : e % Hour = 0 /\ e + Lag =< asked => e =< window[2]
        /\ window[1] + Day = window[2]

(* However polling and paging alternate, no page is skipped, repeated or   *)
(* out of order, and the next marker continues after the last page.        *)
PagesInOrder ==
    /\ \A i \in 1..Len(merged) : merged[i] = i
    /\ phase \in {"polling", "sleeping"} => marker = Len(merged)

(* An answer has every page once and in order, however polling and paging  *)
(* alternate, unless MAE put an error code into an HTTP 200: a deadline or *)
(* a failed call never passes a part off as the whole.                     *)
AnswerIsComplete == phase = "answered" /\ ~cut => merged = [i \in 1..PageCount |-> i]

(* After the deadline at most one more call is sent, the one the sleep was *)
(* for.                                                                    *)
OneCallAfterDeadline == lateCalls =< 1

-----------------------------------------------------------------------------
(* Liveness: every call ends because the client has a timeout, sleep wakes *)
(* up and the deadline passes; MAE need never finish collecting.           *)

Fairness == WF_vars(PollEnds) /\ WF_vars(Wake) /\ WF_vars(DeadlinePasses)

LiveSpec == Spec /\ Fairness

(* A query that has become a task is answered, whatever MAE does. *)
QueryEnds == phase = "polling" ~> phase \in Ends
=============================================================================
