-------------------------- MODULE AuditQueue_proofs --------------------------
(***************************************************************************)
(* Proofs about AuditQueue for every capacity and number of records.       *)
(***************************************************************************)
EXTENDS AuditQueue, TLAPS

Running == stage \in {"up", "joining"}

(* The writer has an entry in hand exactly while it writes, and a commit   *)
(* it does not know of is in the table; once the writer is cancelled       *)
(* memory holds nothing that a warning does not cover.                     *)
StageInv ==
    /\ current # None <=> writer \in {"writing", "committed"}
    /\ writer = "committed" => current \in stored
    /\ stage \in {"off", "disposing"} => queue = <<>> /\ current = None
    /\ stage = "cancelling" => Queued \cup InHand \subseteq warned

(* Every entry in memory or settled has been recorded. *)
RecordedInv ==
    Queued \cup InHand \cup stored \cup warned \cup killed \subseteq 1..recorded

IInv ==
    /\ TypeOK /\ StageInv /\ RecordedInv
    /\ JoinCountsPending /\ NoSilentLoss /\ PendingOnce

LEMMA Bounds == Capacity \in Nat /\ Capacity > 0 /\ MaxEntries \in Nat
BY CapacityAssumption

Distinct == \A i, j \in 1..Len(queue) : queue[i] = queue[j] => i = j

LEMMA AppendFacts ==
    ASSUME queue \in Seq(Entries), NEW e \in Entries, queue' = Append(queue, e)
    PROVE  /\ queue' \in Seq(Entries) /\ Len(queue') = Len(queue) + 1
           /\ Queued' = Queued \cup {e}
           /\ Distinct /\ e \notin Queued => Distinct'
<1>1. queue' \in Seq(Entries) /\ Len(queue') = Len(queue) + 1 /\ Len(queue) \in Nat
  OBVIOUS
<1>2. /\ \A i \in 1..Len(queue) : queue'[i] = queue[i]
      /\ queue'[Len(queue) + 1] = e
  OBVIOUS
<1>3. Queued' = Queued \cup {e}
  BY <1>1, <1>2 DEF Queued
<1>4. ASSUME Distinct, e \notin Queued PROVE Distinct'
  BY <1>1, <1>2, <1>4 DEF Distinct, Queued
<1> QED BY <1>1, <1>3, <1>4

LEMMA TailFacts ==
    ASSUME queue \in Seq(Entries), queue # <<>>, queue' = Tail(queue)
    PROVE  /\ queue' \in Seq(Entries) /\ Len(queue') = Len(queue) - 1
           /\ Len(queue) > 0 /\ Head(queue) \in Entries
           /\ Queued = Queued' \cup {Head(queue)}
           /\ Distinct => Distinct' /\ Head(queue) \notin Queued'
<1>1. /\ queue' \in Seq(Entries) /\ Len(queue') = Len(queue) - 1
      /\ Len(queue) \in Nat \ {0} /\ Head(queue) = queue[1] /\ Head(queue) \in Entries
  OBVIOUS
<1>2. \A i \in 1..Len(queue') : queue'[i] = queue[i + 1]
  OBVIOUS
<1>3. Queued' \subseteq Queued /\ Head(queue) \in Queued
  BY <1>1, <1>2 DEF Queued
<1>4. ASSUME NEW x \in Queued, x # Head(queue) PROVE x \in Queued'
  <2>1. PICK i \in 1..Len(queue) : x = queue[i]
    BY DEF Queued
  <2>2. i - 1 \in 1..Len(queue') /\ (i - 1) + 1 = i
    BY <1>1, <1>4, <2>1
  <2>3. queue'[i - 1] = queue[i]
    BY <1>2, <2>2
  <2> QED BY <2>1, <2>2, <2>3 DEF Queued
<1>5. ASSUME Distinct PROVE Distinct' /\ Head(queue) \notin Queued'
  BY <1>1, <1>2, <1>5 DEF Distinct, Queued
<1> QED BY <1>1, <1>3, <1>4, <1>5

-----------------------------------------------------------------------------
(* The inductive step.                                                     *)

LEMMA IndInit == Init => IInv
BY Bounds DEF Init, IInv, TypeOK, StageInv, RecordedInv, JoinCountsPending, NoSilentLoss,
              PendingOnce, Queued, InHand, Entries, None

LEMMA KeepInitAudit ==
    ASSUME IInv, InitAudit
    PROVE  IInv'
<1>1. Queued' = {} /\ InHand' = {} /\ current = None /\ Queued = {} /\ InHand = {}
  BY DEF IInv, StageInv, InitAudit, Queued, InHand, history
<1> QED
  BY <1>1, Bounds
     DEF IInv, TypeOK, StageInv, RecordedInv, JoinCountsPending, NoSilentLoss, PendingOnce,
         InitAudit, history

LEMMA KeepRecord ==
    ASSUME IInv, Record
    PROVE  IInv'
<1> DEFINE e == recorded + 1
<1> USE Bounds DEF IInv, TypeOK, Record
<1>1. recorded' = e /\ e \in Entries /\ e \notin 1..recorded /\ 1..e = 1..recorded \cup {e}
  BY DEF Entries
<1>2. InHand' = InHand /\ UNCHANGED <<stage, writer, current, stored, killed>>
  BY DEF InHand
<1>3. CASE /\ Len(queue) < Capacity /\ UNCHANGED warned
           /\ queue' = Append(queue, e) /\ unfinished' = unfinished + 1
  <2>1. /\ queue' \in Seq(Entries) /\ Len(queue') = Len(queue) + 1
        /\ Queued' = Queued \cup {e}
        /\ Distinct /\ e \notin Queued => Distinct'
    BY <1>1, <1>3, AppendFacts
  <2>2. TypeOK' /\ JoinCountsPending'
    BY <1>1, <1>2, <1>3, <2>1 DEF JoinCountsPending
  <2>3. StageInv'
    BY <1>2, <2>1 DEF StageInv
  <2>4. RecordedInv' /\ NoSilentLoss'
    BY <1>1, <1>2, <1>3, <2>1 DEF RecordedInv, NoSilentLoss
  <2>5. PendingOnce'
    BY <1>1, <1>2, <1>3, <2>1 DEF PendingOnce, RecordedInv, Distinct
  <2> QED BY <2>2, <2>3, <2>4, <2>5
<1>4. CASE warned' = warned \cup {e} /\ UNCHANGED <<queue, unfinished>>
  <2>1. Queued' = Queued
    BY <1>4 DEF Queued
  <2>2. TypeOK' /\ JoinCountsPending'
    BY <1>1, <1>2, <1>4 DEF JoinCountsPending
  <2>3. StageInv'
    BY <1>2, <1>4, <2>1 DEF StageInv
  <2>4. RecordedInv' /\ NoSilentLoss'
    BY <1>1, <1>2, <1>4, <2>1 DEF RecordedInv, NoSilentLoss
  <2>5. PendingOnce'
    BY <1>1, <1>2, <1>4, <2>1 DEF PendingOnce, RecordedInv
  <2> QED BY <2>2, <2>3, <2>4, <2>5
<1> QED BY <1>3, <1>4

LEMMA KeepGet ==
    ASSUME IInv, Get
    PROVE  IInv'
<1> USE Bounds DEF IInv, TypeOK, Get, history
<1>1. /\ queue' \in Seq(Entries) /\ Len(queue') = Len(queue) - 1
      /\ Len(queue) > 0 /\ Head(queue) \in Entries
      /\ Queued = Queued' \cup {Head(queue)}
      /\ Distinct => Distinct' /\ Head(queue) \notin Queued'
  BY TailFacts
<1>2. /\ current = None /\ InHand = {}
      /\ current' # None /\ InHand' = {Head(queue)}
  BY <1>1 DEF StageInv, InHand, Entries, None
<1>3. TypeOK' /\ JoinCountsPending'
  <2>1. unfinished = Len(queue) /\ unfinished' = unfinished /\ stage' = stage
    BY <1>2 DEF JoinCountsPending
  <2>2. current' \in Entries
    BY <1>1
  <2>3. TypeOK'
    BY <1>1, <2>1, <2>2
  <2> QED BY <1>1, <1>2, <2>1, <2>3 DEF JoinCountsPending
<1>4. StageInv'
  BY <1>2 DEF StageInv
<1>5. RecordedInv' /\ NoSilentLoss'
  BY <1>1, <1>2 DEF RecordedInv, NoSilentLoss
<1>6. PendingOnce'
  BY <1>1, <1>2 DEF PendingOnce, Distinct
<1> QED BY <1>3, <1>4, <1>5, <1>6

LEMMA KeepCommit ==
    ASSUME IInv, Commit
    PROVE  IInv'
<1> USE Bounds DEF IInv, TypeOK, Commit, history
<1>1. Queued' = Queued /\ InHand' = InHand /\ current # None /\ InHand = {current}
  BY DEF StageInv, Queued, InHand
<1>2. TypeOK' /\ JoinCountsPending'
  BY <1>1 DEF JoinCountsPending
<1>3. StageInv'
  BY <1>1 DEF StageInv
<1>4. RecordedInv' /\ NoSilentLoss'
  BY <1>1 DEF RecordedInv, NoSilentLoss
<1>5. PendingOnce'
  BY <1>1 DEF PendingOnce
<1> QED BY <1>2, <1>3, <1>4, <1>5

LEMMA KeepWriteEnds ==
    ASSUME IInv, Written \/ WriteFails
    PROVE  IInv'
<1> USE Bounds DEF IInv, TypeOK, Written, WriteFails, TaskDone, history
<1>1. /\ Queued' = Queued /\ current # None /\ InHand = {current}
      /\ current' = None /\ InHand' = {} /\ current \in Entries
      /\ unfinished = Len(queue) + 1
  BY DEF StageInv, JoinCountsPending, Queued, InHand
<1>2. TypeOK' /\ JoinCountsPending'
  BY <1>1 DEF JoinCountsPending
<1>3. StageInv'
  BY <1>1 DEF StageInv
<1>4. writer = "committed" => current \in stored
  BY DEF StageInv
<1>5. RecordedInv' /\ NoSilentLoss'
  BY <1>1, <1>4 DEF RecordedInv, NoSilentLoss
<1>6. PendingOnce'
  BY <1>1 DEF PendingOnce
<1> QED BY <1>2, <1>3, <1>5, <1>6

LEMMA KeepClose ==
    ASSUME IInv, Close
    PROVE  IInv'
<1> USE Bounds DEF IInv, TypeOK, memory, history
<1>1. CASE CloseBegins
  <2>1. Queued' = Queued /\ InHand' = InHand
    BY <1>1 DEF CloseBegins, Queued, InHand
  <2> QED
    BY <1>1, <2>1 DEF CloseBegins, StageInv, RecordedInv, JoinCountsPending, NoSilentLoss,
                      PendingOnce
<1>2. CASE JoinDone
  <2>1. Queued' = Queued /\ InHand' = InHand /\ Queued = {} /\ InHand = {}
    BY <1>2 DEF JoinDone, JoinCountsPending, Queued, InHand
  <2> QED
    BY <1>2, <2>1 DEF JoinDone, StageInv, RecordedInv, JoinCountsPending, NoSilentLoss,
                      PendingOnce
<1>3. CASE JoinTimesOut
  <2>1. Queued' = Queued /\ InHand' = InHand
    BY <1>3 DEF JoinTimesOut, Queued, InHand
  <2>2. Queued \cup InHand \subseteq Entries
    BY DEF Queued, InHand
  <2> QED
    BY <1>3, <2>1, <2>2 DEF JoinTimesOut, StageInv, RecordedInv, JoinCountsPending,
                            NoSilentLoss, PendingOnce
<1>4. CASE WriterEnds
  <2>1. Queued' = {} /\ InHand' = {} /\ Queued \cup InHand \subseteq warned
    BY <1>4 DEF WriterEnds, StageInv, Queued, InHand
  <2> QED
    BY <1>4, <2>1 DEF WriterEnds, StageInv, RecordedInv, JoinCountsPending, NoSilentLoss,
                      PendingOnce
<1>5. CASE DisposeEngine
  <2>1. Queued' = Queued /\ InHand' = InHand
    BY <1>5 DEF DisposeEngine, Queued, InHand
  <2> QED
    BY <1>5, <2>1 DEF DisposeEngine, StageInv, RecordedInv, JoinCountsPending, NoSilentLoss,
                      PendingOnce
<1> QED BY <1>1, <1>2, <1>3, <1>4, <1>5 DEF Close

LEMMA KeepKill ==
    ASSUME IInv, Kill
    PROVE  IInv'
<1> USE Bounds DEF IInv, TypeOK, Kill
<1>1. Queued' = {} /\ InHand' = {} /\ Queued \cup InHand \subseteq Entries
  BY DEF Queued, InHand
<1> QED
  BY <1>1 DEF StageInv, RecordedInv, JoinCountsPending, NoSilentLoss, PendingOnce

LEMMA IndNext == IInv /\ [Next]_vars => IInv'
<1> SUFFICES ASSUME IInv, [Next]_vars PROVE IInv'
  OBVIOUS
<1>1. CASE InitAudit \/ Record
  BY <1>1, KeepInitAudit, KeepRecord
<1>2. CASE Writer
  BY <1>2, KeepGet, KeepCommit, KeepWriteEnds DEF Writer
<1>3. CASE Close \/ Kill
  BY <1>3, KeepClose, KeepKill
<1>4. CASE UNCHANGED vars
  BY <1>4 DEF IInv, TypeOK, StageInv, RecordedInv, JoinCountsPending, NoSilentLoss,
              PendingOnce, Queued, InHand, vars, memory, history
<1> QED BY <1>1, <1>2, <1>3, <1>4 DEF Next

(* The strengthening holds in every reachable state. *)
THEOREM Inductive == Spec => []IInv
BY IndInit, IndNext, PTL DEF Spec

-----------------------------------------------------------------------------
(* What follows from it.                                                   *)

(* Every variable keeps its type; the queue never exceeds its capacity. *)
THEOREM TypeCorrect == Spec => []TypeOK
<1>1. IInv => TypeOK
  BY DEF IInv
<1> QED BY <1>1, Inductive, PTL

(* What join() counts is what is pending. *)
THEOREM CountIsExact == Spec => []JoinCountsPending
<1>1. IInv => JoinCountsPending
  BY DEF IInv
<1> QED BY <1>1, Inductive, PTL

(* No record is lost without a trace. *)
THEOREM LossLeavesTrace == Spec => []NoSilentLoss
<1>1. IInv => NoSilentLoss
  BY DEF IInv
<1> QED BY <1>1, Inductive, PTL

(* No record is pending twice or pending after it was settled. *)
THEOREM WrittenOnce == Spec => []PendingOnce
<1>1. IInv => PendingOnce
  BY DEF IInv
<1> QED BY <1>1, Inductive, PTL

(* A shutdown whose join() returned has settled every record. *)
THEOREM FlushIsComplete == Spec => FlushedMeansSettled
<1>1. ASSUME IInv, JoinDone
      PROVE  1..recorded \subseteq stored \cup warned \cup killed
  <2>1. Len(queue) = 0 /\ current = None
    BY <1>1 DEF IInv, TypeOK, JoinDone, JoinCountsPending
  <2>2. Queued = {} /\ InHand = {}
    BY <2>1 DEF Queued, InHand
  <2> QED BY <1>1, <2>2 DEF IInv, NoSilentLoss
<1>2. IInv => (JoinDone => 1..recorded \subseteq stored \cup warned \cup killed)
  BY <1>1
<1> QED BY <1>2, Inductive, PTL DEF FlushedMeansSettled
=============================================================================
