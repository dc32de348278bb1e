--------------------------- MODULE KpiPoll_proofs ---------------------------
(***************************************************************************)
(* Proofs about KpiPoll for every number of pages and every moment.        *)
(***************************************************************************)
EXTENDS KpiPoll, TLAPS

(* Before the task there is nothing merged; an answer that was not cut is  *)
(* whole; while the task is polled it has been asked for what is missing.  *)
ResultInv ==
    /\ phase \in {"received", "creating"} => merged = <<>> /\ marker = 0
    /\ phase \in {"polling", "sleeping"} => Len(merged) < PageCount

(* The one call after the deadline is not followed by a sleep. *)
DeadlineInv ==
    /\ OneCallAfterDeadline
    /\ ~late \/ phase = "sleeping" => lateCalls = 0

IInv ==
    /\ TypeOK /\ ResultInv /\ DeadlineInv
    /\ WindowIsPublished /\ PagesInOrder /\ AnswerIsComplete

-----------------------------------------------------------------------------

LEMMA Pages == PageCount \in Nat /\ PageCount > 0
BY PageCountAssumption

(* The window is the latest published day, at any moment. *)
LEMMA LastDayIsPublished ==
    ASSUME NEW now \in Nat, now >= 1500
    PROVE  /\ LastDay(now) \in Int \X Int
           /\ LastDay(now)[2] % Hour = 0 /\ LastDay(now)[2] + Lag =< now
           /\ \A e \in Nat : e % Hour = 0 /\ e + Lag =< now => e =< LastDay(now)[2]
           /\ LastDay(now)[1] + Day = LastDay(now)[2]
<1> DEFINE hour == now - (now % 60)
           end == IF now >= hour + 15 THEN hour ELSE hour - 60
<1>1. hour \in Nat /\ hour % 60 = 0 /\ hour =< now /\ now < hour + 60 /\ hour >= 60
  OBVIOUS
<1>2. end \in Nat /\ end % 60 = 0 /\ end + 15 =< now /\ now < end + 75
  BY <1>1
<1>3. ASSUME NEW e \in Nat, e % 60 = 0, e + 15 =< now PROVE e =< end
  BY <1>2, <1>3
<1>4. LastDay(now) = <<end - 1440, end>>
  BY DEF LastDay, Hour, Day, Lag
<1> QED BY <1>2, <1>3, <1>4 DEF Hour, Day, Lag

LEMMA IndInit == Init => IInv
<1> SUFFICES ASSUME Init PROVE IInv
  OBVIOUS
<1>1. TypeOK
  <2>1. merged \in Seq(1..PageCount) /\ marker \in 0..PageCount
    BY Pages DEF Init
  <2>2. window \in Int \X Int
    BY DEF Init
  <2>3. late \in BOOLEAN /\ cut \in BOOLEAN
    BY DEF Init
  <2> QED BY <2>1, <2>2, <2>3 DEF Init, TypeOK
<1>2. ResultInv /\ PagesInOrder
  BY Pages DEF Init, ResultInv, PagesInOrder
<1>3. DeadlineInv /\ WindowIsPublished /\ AnswerIsComplete
  BY DEF Init, DeadlineInv, OneCallAfterDeadline, WindowIsPublished, AnswerIsComplete
<1> QED BY <1>1, <1>2, <1>3 DEF IInv

LEMMA KeepAsk == IInv /\ Ask => IInv'
<1> SUFFICES ASSUME IInv, Ask PROVE IInv'
  OBVIOUS
<1>1. asked' \in Nat /\ asked' >= 1500
  BY MomentsAssumption DEF Ask
<1>2. window' \in Int \X Int /\ WindowIsPublished'
  BY <1>1, LastDayIsPublished DEF Ask, WindowIsPublished
<1>3. TypeOK'
  BY <1>2 DEF Ask, IInv, TypeOK
<1> QED BY <1>2, <1>3 DEF Ask, IInv, ResultInv, DeadlineInv, OneCallAfterDeadline,
                          PagesInOrder, AnswerIsComplete

(* The steps after the creation leave the window alone. *)
LEMMA KeepWindow ==
    ASSUME WindowIsPublished, phase # "received", UNCHANGED <<asked, window>>
    PROVE  WindowIsPublished'
BY DEF WindowIsPublished

LEMMA KeepAnsweredAtOnce == IInv /\ AnsweredAtOnce => IInv'
<1> SUFFICES ASSUME IInv, AnsweredAtOnce PROVE IInv'
  OBVIOUS
<1>1. WindowIsPublished'
  BY KeepWindow DEF AnsweredAtOnce, IInv
<1>2. CASE merged' = [i \in 1..PageCount |-> i] /\ UNCHANGED cut
  <2>1. merged' \in Seq(1..PageCount) /\ Len(merged') = PageCount
    BY <1>2, Pages
  <2>2. \A i \in 1..PageCount : merged'[i] = i
    BY <1>2
  <2> QED BY <1>1, <1>2, <2>1, <2>2 DEF AnsweredAtOnce, IInv, TypeOK, Ends, ResultInv,
             DeadlineInv, OneCallAfterDeadline, PagesInOrder, AnswerIsComplete
<1>3. CASE cut' = TRUE /\ UNCHANGED merged
  BY <1>1, <1>3 DEF AnsweredAtOnce, IInv, TypeOK, Ends, ResultInv,
     DeadlineInv, OneCallAfterDeadline, PagesInOrder, AnswerIsComplete
<1> QED BY <1>2, <1>3 DEF AnsweredAtOnce

LEMMA KeepPageArrives == IInv /\ PageArrives => IInv'
<1> SUFFICES ASSUME IInv, PageArrives PROVE IInv'
  OBVIOUS
<1> DEFINE page == marker + 1
<1>1. WindowIsPublished'
  BY KeepWindow DEF PageArrives, IInv
<1>2. page \in 1..PageCount /\ Len(merged) = marker /\ merged \in Seq(1..PageCount)
  BY Pages DEF IInv, TypeOK, PagesInOrder, PageArrives
<1>3. /\ merged' \in Seq(1..PageCount) /\ Len(merged') = page
      /\ \A i \in 1..page : merged'[i] = i
  BY <1>2 DEF PageArrives, IInv, PagesInOrder
<1>4. TypeOK'
  BY <1>2, <1>3 DEF PageArrives, IInv, TypeOK, Ends
<1>5. PagesInOrder' /\ ResultInv'
  BY <1>2, <1>3, Pages DEF PageArrives, PagesInOrder, ResultInv
<1>7. AnswerIsComplete'
  <2> SUFFICES ASSUME phase' = "answered" PROVE merged' = [i \in 1..PageCount |-> i]
    BY DEF AnswerIsComplete
  <2>1. page = PageCount
    BY DEF PageArrives
  <2> QED BY <1>3, <2>1, Pages
<1>6. DeadlineInv'
  BY DEF PageArrives, IInv, DeadlineInv, OneCallAfterDeadline
<1> QED BY <1>1, <1>4, <1>5, <1>6, <1>7 DEF IInv

(* Steps that merge nothing. *)
LEMMA KeepOthers ==
    ASSUME IInv, CreatedAsTask \/ CallFails \/ StillRunning \/ NoPage \/ Wake \/ DeadlinePasses
    PROVE  IInv'
<1>1. WindowIsPublished'
  BY KeepWindow DEF IInv, CreatedAsTask, CallFails, StillRunning, NoPage, Wake, DeadlinePasses
<1>2. TypeOK'
  <2> USE DEF IInv, TypeOK, Ends
  <2>1. CASE CreatedAsTask
    BY <2>1 DEF CreatedAsTask
  <2>2. CASE CallFails
    BY <2>2 DEF CallFails
  <2>3. CASE StillRunning
    BY <2>3 DEF StillRunning
  <2>4. CASE NoPage \/ DeadlinePasses
    BY <2>4 DEF NoPage, DeadlinePasses
  <2>5. CASE Wake
    BY <2>5 DEF Wake
  <2> QED BY <2>1, <2>2, <2>3, <2>4, <2>5
<1>3. ResultInv' /\ PagesInOrder' /\ AnswerIsComplete'
  BY Pages DEF IInv, ResultInv, PagesInOrder, AnswerIsComplete, CreatedAsTask, CallFails,
               StillRunning, NoPage, Wake, DeadlinePasses
<1>4. DeadlineInv'
  BY DEF IInv, TypeOK, DeadlineInv, OneCallAfterDeadline, CreatedAsTask, CallFails,
         StillRunning, NoPage, Wake, DeadlinePasses
<1> QED BY <1>1, <1>2, <1>3, <1>4 DEF IInv

LEMMA IndNext == IInv /\ [Next]_vars => IInv'
<1> SUFFICES ASSUME IInv, [Next]_vars PROVE IInv'
  OBVIOUS
<1>1. CASE UNCHANGED vars
  BY <1>1 DEF vars, IInv, TypeOK, ResultInv, DeadlineInv, OneCallAfterDeadline,
              WindowIsPublished, PagesInOrder, AnswerIsComplete
<1>2. CASE Next
  BY <1>2, KeepAsk, KeepAnsweredAtOnce, KeepPageArrives, KeepOthers DEF Next, PollEnds
<1> QED BY <1>1, <1>2

(* The strengthening holds in every reachable state. *)
THEOREM Inductive == Spec => []IInv
BY IndInit, IndNext, PTL DEF Spec

-----------------------------------------------------------------------------
(* What follows from it.                                                   *)

(* Every variable keeps its type. *)
THEOREM TypeCorrect == Spec => []TypeOK
<1>1. IInv => TypeOK
  BY DEF IInv
<1> QED BY <1>1, Inductive, PTL

(* The window of a query is the latest day MAE has published, whenever the *)
(* query is made.                                                          *)
THEOREM WindowIsRight == Spec => []WindowIsPublished
<1>1. IInv => WindowIsPublished
  BY DEF IInv
<1> QED BY <1>1, Inductive, PTL

(* Pages are merged in order, each once. *)
THEOREM OrderIsKept == Spec => []PagesInOrder
<1>1. IInv => PagesInOrder
  BY DEF IInv
<1> QED BY <1>1, Inductive, PTL

(* An answer is whole unless MAE cut it. *)
THEOREM AnswerIsWhole == Spec => []AnswerIsComplete
<1>1. IInv => AnswerIsComplete
  BY DEF IInv
<1> QED BY <1>1, Inductive, PTL

(* After the deadline at most one more call is sent. *)
THEOREM DeadlineIsKept == Spec => []OneCallAfterDeadline
<1>1. IInv => OneCallAfterDeadline
  BY DEF IInv, DeadlineInv
<1> QED BY <1>1, Inductive, PTL
=============================================================================
