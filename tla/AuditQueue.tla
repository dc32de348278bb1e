----------------------------- MODULE AuditQueue -----------------------------
(***************************************************************************)
(* The audit trail of app/services/audit.py: record() puts an entry into a *)
(* bounded asyncio.Queue, one writer task moves entries to PostgreSQL, and *)
(* close_audit() waits a limited time for the queue before it cancels the  *)
(* writer.  Entries are numbered in the order in which they are recorded.  *)
(* The process may be killed at any time; the table survives.              *)
(***************************************************************************)
EXTENDS Integers, Sequences

CONSTANTS
    Capacity,    \* _QUEUE_MAXSIZE
    MaxEntries   \* bound of the model: entries recorded in a behaviour

ASSUME CapacityAssumption == Capacity \in Nat \ {0} /\ MaxEntries \in Nat

Entries == 1..MaxEntries
None == 0   \* the writer has no entry in hand

VARIABLES
    stage,       \* "off" (_queue is None), "up", "joining", "cancelling", "disposing"
    queue,       \* the entries in _queue
    unfinished,  \* _queue's count of entries without task_done
    writer,      \* "off", "waiting", "writing", "committed" (and not told yet)
    current,     \* the entry the writer has in hand, or None
    stored,      \* rows of api_audit_log
    recorded,    \* how many entries record() has been called with
    warned,      \* entries a warning of the log accounts for
    killed       \* entries that were in memory when the process was killed

memory == <<queue, unfinished, writer, current>>
history == <<recorded, warned, killed>>
vars == <<stage, memory, stored, history>>

Queued == {queue[i] : i \in 1..Len(queue)}
InHand == IF current = None THEN {} ELSE {current}

TypeOK ==
    /\ stage \in {"off", "up", "joining", "cancelling", "disposing"}
    /\ queue \in Seq(Entries) /\ Len(queue) =< Capacity
    /\ unfinished \in 0..(Capacity + 1)
    /\ writer \in {"off", "waiting", "writing", "committed"}
    /\ current \in Entries \cup {None}
    /\ recorded \in 0..MaxEntries
    /\ stored \subseteq Entries /\ warned \subseteq Entries /\ killed \subseteq Entries

Init ==
    /\ stage = "off"
    /\ queue = <<>> /\ unfinished = 0 /\ writer = "off" /\ current = None
    /\ stored = {} /\ recorded = 0 /\ warned = {} /\ killed = {}

-----------------------------------------------------------------------------
(* The application. *)

(* init_audit with a DATABASE_URL. *)
InitAudit ==
    /\ stage = "off"
    /\ stage' = "up" /\ writer' = "waiting"
    /\ queue' = <<>> /\ unfinished' = 0
    /\ UNCHANGED <<current, stored, history>>

(* record: put_nowait, or a warning when the queue is full.  Requests end  *)
(* before the lifespan's end runs, so nothing is recorded while it closes. *)
Record ==
    /\ stage = "up" /\ recorded < MaxEntries
    /\ recorded' = recorded + 1
    /\ \/ /\ Len(queue) < Capacity
          /\ queue' = Append(queue, recorded')
          /\ unfinished' = unfinished + 1
          /\ UNCHANGED warned
       \/ /\ Len(queue) = Capacity
          /\ warned' = warned \cup {recorded'}
          /\ UNCHANGED <<queue, unfinished>>
    /\ UNCHANGED <<stage, writer, current, stored, killed>>

-----------------------------------------------------------------------------
(* The writer task and the database.  A cancelled writer takes no step but *)
(* its last one.                                                           *)

Get ==
    /\ stage \in {"up", "joining"}
    /\ writer = "waiting" /\ queue # <<>>
    /\ current' = Head(queue) /\ queue' = Tail(queue)
    /\ writer' = "writing"
    /\ UNCHANGED <<stage, unfinished, stored, history>>

(* PostgreSQL commits the row; the writer does not know yet. *)
Commit ==
    /\ writer = "writing"
    /\ stored' = stored \cup {current}
    /\ writer' = "committed"
    /\ UNCHANGED <<stage, queue, unfinished, current, history>>

(* The `finally` of the writer. *)
TaskDone ==
    /\ unfinished' = unfinished - 1
    /\ current' = None

Written ==
    /\ stage \in {"up", "joining"} /\ writer = "committed"
    /\ TaskDone
    /\ writer' = "waiting"
    /\ UNCHANGED <<stage, queue, stored, history>>

(* Mutant of WriteFails: the record is put back to be tried again. *)
WriteFailsRequeues ==
    /\ stage \in {"up", "joining"} /\ writer \in {"writing", "committed"}
    /\ Len(queue) < Capacity
    /\ queue' = Append(queue, current)
    /\ current' = None /\ writer' = "waiting"
    /\ UNCHANGED <<stage, unfinished, stored, history>>

(* Mutant of WriteFails: the error is not caught and ends the task. *)
WriteFailsEndsWriter ==
    /\ stage \in {"up", "joining"} /\ writer \in {"writing", "committed"}
    /\ TaskDone
    /\ warned' = warned \cup {current}
    /\ writer' = "off"
    /\ UNCHANGED <<stage, queue, stored, recorded, killed>>

(* Any error of the session, before the commit or in place of its answer. *)
WriteFails ==
    /\ stage \in {"up", "joining"} /\ writer \in {"writing", "committed"}
    /\ warned' = warned \cup {current}
    /\ TaskDone
    /\ writer' = "waiting"
    /\ UNCHANGED <<stage, queue, stored, recorded, killed>>

-----------------------------------------------------------------------------
(* close_audit. *)

CloseBegins ==
    /\ stage = "up"
    /\ stage' = "joining"
    /\ UNCHANGED <<memory, stored, history>>

(* Mutant of JoinDone: it waits until the queue is empty. *)
JoinWhenEmpty ==
    /\ stage = "joining" /\ queue = <<>>
    /\ stage' = "cancelling"
    /\ UNCHANGED <<memory, stored, history>>

(* join() returns; the writer is cancelled without another suspension. *)
JoinDone ==
    /\ stage = "joining" /\ unfinished = 0
    /\ stage' = "cancelling"
    /\ UNCHANGED <<memory, stored, history>>

(* Mutant of JoinTimesOut: the timeout is not logged. *)
JoinTimesOutSilently ==
    /\ stage = "joining" /\ unfinished > 0
    /\ stage' = "cancelling"
    /\ UNCHANGED <<memory, stored, history>>

(* Mutant of JoinTimesOut: join() has no timeout. *)
JoinNeverTimesOut == FALSE

(* Five seconds are over: one warning for all that is left. *)
JoinTimesOut ==
    /\ stage = "joining" /\ unfinished > 0
    /\ warned' = warned \cup Queued \cup InHand
    /\ stage' = "cancelling"
    /\ UNCHANGED <<memory, stored, recorded, killed>>

(* CancelledError ends the writer where it waits, `finally` included; then *)
(* _queue and _writer_task are None.                                       *)
WriterEnds ==
    /\ stage = "cancelling"
    /\ stage' = "disposing"
    /\ writer' = "off" /\ current' = None
    /\ queue' = <<>> /\ unfinished' = 0
    /\ UNCHANGED <<stored, history>>

DisposeEngine ==
    /\ stage = "disposing"
    /\ stage' = "off"
    /\ UNCHANGED <<memory, stored, history>>

(* SIGKILL, or the container is stopped while the application closes. *)
Kill ==
    /\ stage # "off"
    /\ killed' = killed \cup Queued \cup InHand
    /\ stage' = "off"
    /\ queue' = <<>> /\ unfinished' = 0 /\ writer' = "off" /\ current' = None
    /\ UNCHANGED <<stored, recorded, warned>>

Writer == Get \/ Commit \/ Written \/ WriteFails
Close == CloseBegins \/ JoinDone \/ JoinTimesOut \/ WriterEnds \/ DisposeEngine
Next == InitAudit \/ Record \/ Writer \/ Close \/ Kill

Spec == Init /\ [][Next]_vars

-----------------------------------------------------------------------------
(* Safety.                                                                 *)

(* What Queue.join() counts is what is queued or in the writer's hand:     *)
(* every get is matched by exactly one task_done on every path.            *)
JoinCountsPending ==
    stage \in {"up", "joining"} =>
        unfinished = Len(queue) + (IF current = None THEN 0 ELSE 1)

(* A record is never lost without a trace: it is a row, or still pending,  *)
(* or a warning accounts for it, or the process was killed under it.       *)
NoSilentLoss ==
    1..recorded \subseteq stored \cup warned \cup killed \cup Queued \cup InHand

(* A shutdown that does not warn has settled every record before it        *)
(* cancels the writer: join() never returns with one pending.              *)
FlushedMeansSettled ==
    [][JoinDone => 1..recorded \subseteq stored \cup warned \cup killed]_vars

(* A pending record is pending once and not settled yet, so no record is   *)
(* written twice: a write that failed, after its commit or not, is final.  *)
PendingOnce ==
    stage \in {"up", "joining"} =>
        /\ \A i, j \in 1..Len(queue) : queue[i] = queue[j] => i = j
        /\ Queued \cap (stored \cup warned \cup killed \cup InHand) = {}

-----------------------------------------------------------------------------
(* Liveness.                                                               *)

(* wait_for has a timeout and a cancelled task ends; the database may hang. *)
CloseFairness == WF_vars(JoinDone \/ JoinTimesOut) /\ WF_vars(WriterEnds) /\ WF_vars(DisposeEngine)

(* The database answers, one way or the other, and the loop runs the writer. *)
DatabaseAnswers == WF_vars(Get) /\ WF_vars(Written \/ WriteFails)

CloseSpec == Spec /\ CloseFairness

(* Shutting down ends even when PostgreSQL never answers the writer. *)
CloseEnds == stage = "joining" ~> stage = "off"

(* With a database that answers every accepted record is settled. *)
RecordsSettle ==
    DatabaseAnswers =>
        \A e \in Entries : e =< recorded ~> e \in stored \cup warned \cup killed
=============================================================================
