---------------------------- MODULE ScriptBatch ----------------------------
(***************************************************************************)
(* POST /mml/scripts of app/api/routes/huawei.py: one child task per file, *)
(* limited by a semaphore, that uploads the file as a script task of MAE,  *)
(* polls the task until it is done, fetches the result and deletes the     *)
(* task; asyncio.gather collects the children.                             *)
(*                                                                         *)
(* A call to MAE through _huawei_request ends in one of three ways: an     *)
(* answer, an HTTPException (any HTTP or transport error), or another      *)
(* exception (an unusable body of the answer or of the login).             *)
(***************************************************************************)
EXTENDS Integers, FiniteSets

CONSTANTS
    FileCount,      \* files of the request
    MaxConcurrency  \* mml_script_max_concurrency

ASSUME CountsAssumption == {FileCount, MaxConcurrency} \subseteq Nat \ {0}

Files == 1..FileCount

VARIABLES
    phase,    \* of the request: "received", "rejected", "running", "results", "error", "lost"
    permits,  \* free permits of the semaphore
    stage,    \* of each child
    outcome,  \* what the child returns or raises: "none", "ok", "failed", "raised"
    taskId,   \* the child's task_id: "none", "real", or "bogus" for str(None)
    late,     \* files whose polling deadline has passed
    mae,      \* the file's task at MAE: "none", "running", "finished", "deleted"
    warned    \* files for which "Could not delete" was logged

vars == <<phase, permits, stage, outcome, taskId, late, mae, warned>>

(* The child holds a permit. *)
Active == {"uploading", "polling", "sleeping", "fetching", "deleting"}
ActiveFiles == {f \in Files : stage[f] \in Active}

TypeOK ==
    /\ phase \in {"received", "rejected", "running", "results", "error", "lost"}
    /\ permits \in 0..MaxConcurrency
    /\ stage \in [Files -> {"waiting", "done", "gone"} \cup Active]
    /\ outcome \in [Files -> {"none", "ok", "failed", "raised"}]
    /\ taskId \in [Files -> {"none", "real", "bogus"}]
    /\ mae \in [Files -> {"none", "running", "finished", "deleted"}]
    /\ late \subseteq Files /\ warned \subseteq Files

Init ==
    /\ phase = "received"
    /\ permits = MaxConcurrency
    /\ stage = [f \in Files |-> "waiting"]
    /\ outcome = [f \in Files |-> "none"]
    /\ taskId = [f \in Files |-> "none"]
    /\ mae = [f \in Files |-> "none"]
    /\ late = {} /\ warned = {}

-----------------------------------------------------------------------------
(* The request: validation, and gather.                                    *)

(* No file or too many, an empty one or one over 2 MB: HTTP 422. *)
Reject ==
    /\ phase = "received"
    /\ phase' = "rejected"
    /\ UNCHANGED <<permits, stage, outcome, taskId, late, mae, warned>>

Launch ==
    /\ phase = "received"
    /\ phase' = "running"
    /\ UNCHANGED <<permits, stage, outcome, taskId, late, mae, warned>>

(* Mutant of AnswerResults: it answers with what is there so far. *)
AnswerWhenOneIsDone ==
    /\ phase = "running"
    /\ \E f \in Files : stage[f] = "done" /\ outcome[f] # "raised"
    /\ phase' = "results"
    /\ UNCHANGED <<permits, stage, outcome, taskId, late, mae, warned>>

AnswerResults ==
    /\ phase = "running"
    /\ \A f \in Files : stage[f] = "done" /\ outcome[f] # "raised"
    /\ phase' = "results"
    /\ UNCHANGED <<permits, stage, outcome, taskId, late, mae, warned>>

(* gather passes the first exception on; the other children keep running. *)
AnswerError ==
    /\ phase = "running"
    /\ \E f \in Files : stage[f] = "done" /\ outcome[f] = "raised"
    /\ phase' = "error"
    /\ UNCHANGED <<permits, stage, outcome, taskId, late, mae, warned>>

Started == phase \in {"running", "results", "error"}

-----------------------------------------------------------------------------
(* A child.                                                                *)

Goto(f, where) == stage' = [stage EXCEPT ![f] = where]
Conclude(f, what) == outcome' = [outcome EXCEPT ![f] = what]

(* The semaphore is fair and gather starts the children in order. *)
Start(f) ==
    /\ Started /\ stage[f] = "waiting" /\ permits > 0
    /\ \A g \in Files : g < f => stage[g] # "waiting"
    /\ permits' = permits - 1
    /\ Goto(f, "uploading")
    /\ UNCHANGED <<phase, outcome, taskId, late, mae, warned>>

(* Mutant of Leave: a permit is acquired without `async with`. *)
LeaveKeepingPermit(f) == Goto(f, "done") /\ UNCHANGED permits

(* Leaving bounded() releases the permit. *)
Leave(f) == Goto(f, "done") /\ permits' = permits + 1

(* Mutant of Cleanup: a task that timed out is left to MAE. *)
CleanupUnlessLate(f) ==
    IF taskId[f] # "none" /\ f \notin late
    THEN Goto(f, "deleting") /\ UNCHANGED permits
    ELSE Leave(f)

(* `finally`: a child that knows a task_id deletes the task. *)
Cleanup(f) ==
    \/ taskId[f] # "none" /\ Goto(f, "deleting") /\ UNCHANGED permits
    \/ taskId[f] = "none" /\ Leave(f)

(* MAE may have created the task whether or not the answer says so. *)
MaybeCreated(f) == mae' = mae \/ mae' = [mae EXCEPT ![f] = "running"]

UploadAnswered(f) ==
    /\ stage[f] = "uploading"
    /\ \/ /\ taskId' = [taskId EXCEPT ![f] = "real"]
          /\ mae' = [mae EXCEPT ![f] = "running"]
       \/ /\ taskId' = [taskId EXCEPT ![f] = "bogus"]
          /\ MaybeCreated(f)
    /\ Goto(f, "polling")
    /\ UNCHANGED <<phase, permits, outcome, late, warned>>

(* HTTPException, or an answer that is no JSON object: no task_id is known. *)
UploadFails(f) ==
    /\ stage[f] = "uploading"
    /\ MaybeCreated(f)
    /\ Conclude(f, "failed") \/ Conclude(f, "raised")
    /\ Leave(f)
    /\ UNCHANGED <<phase, taskId, late, warned>>

(* Mutant of StatusDone: any state that can be read counts as the end. *)
StatusAnyState(f) ==
    /\ stage[f] = "polling" /\ taskId[f] = "real"
    /\ Goto(f, "fetching")
    /\ UNCHANGED <<phase, permits, outcome, taskId, late, mae, warned>>

(* The answer to a status request about a task that exists. *)
StatusDone(f) ==
    /\ stage[f] = "polling" /\ taskId[f] = "real" /\ mae[f] = "finished"
    /\ Goto(f, "fetching")
    /\ UNCHANGED <<phase, permits, outcome, taskId, late, mae, warned>>

(* Mutant of StatusRunning: the deadline is not looked at. *)
StatusRunningForEver(f) ==
    /\ stage[f] = "polling" /\ taskId[f] = "real" /\ mae[f] = "running"
    /\ Goto(f, "sleeping")
    /\ UNCHANGED <<phase, permits, outcome, taskId, late, mae, warned>>

StatusRunning(f) ==
    /\ stage[f] = "polling" /\ taskId[f] = "real" /\ mae[f] = "running"
    /\ \/ f \notin late /\ Goto(f, "sleeping") /\ UNCHANGED <<permits, outcome>>
       \/ f \in late /\ Conclude(f, "failed") /\ Cleanup(f)
    /\ UNCHANGED <<phase, taskId, late, mae, warned>>

(* An unexpected state, an HTTPException, or a body without a state. *)
StatusFails(f) ==
    /\ stage[f] = "polling"
    /\ Conclude(f, "failed") \/ Conclude(f, "raised")
    /\ Cleanup(f)
    /\ UNCHANGED <<phase, taskId, late, mae, warned>>

Wake(f) ==
    /\ stage[f] = "sleeping"
    /\ Goto(f, "polling")
    /\ UNCHANGED <<phase, permits, outcome, taskId, late, mae, warned>>

DeadlinePasses(f) ==
    /\ stage[f] \in {"polling", "sleeping"} /\ f \notin late
    /\ late' = late \cup {f}
    /\ UNCHANGED <<phase, permits, stage, outcome, taskId, mae, warned>>

Fetched(f) ==
    /\ stage[f] = "fetching"
    /\ Conclude(f, "ok") \/ Conclude(f, "failed") \/ Conclude(f, "raised")
    /\ Cleanup(f)
    /\ UNCHANGED <<phase, taskId, late, mae, warned>>

DeleteAnswered(f) ==
    /\ stage[f] = "deleting" /\ taskId[f] = "real"
    /\ mae' = [mae EXCEPT ![f] = "deleted"]
    /\ Leave(f)
    /\ UNCHANGED <<phase, outcome, taskId, late, warned>>

(* MAE may have deleted the task all the same.  An HTTPException is logged; *)
(* any other one takes the place of what the child was about to return.     *)
DeleteFails(f) ==
    /\ stage[f] = "deleting"
    /\ \/ mae' = mae
       \/ taskId[f] = "real" /\ mae' = [mae EXCEPT ![f] = "deleted"]
    /\ \/ warned' = warned \cup {f} /\ UNCHANGED outcome
       \/ Conclude(f, "raised") /\ UNCHANGED warned
    /\ Leave(f)
    /\ UNCHANGED <<phase, taskId, late>>

-----------------------------------------------------------------------------
(* MAE and the process.                                                    *)

TaskFinishes(f) ==
    /\ mae[f] = "running"
    /\ mae' = [mae EXCEPT ![f] = "finished"]
    /\ UNCHANGED <<phase, permits, stage, outcome, taskId, late, warned>>

(* The process ends, under the request or after it: children are gone. *)
Crash ==
    /\ Started /\ \E f \in Files : stage[f] \notin {"done", "gone"}
    /\ phase' = IF phase = "running" THEN "lost" ELSE phase
    /\ stage' = [f \in Files |-> IF stage[f] = "done" THEN "done" ELSE "gone"]
    /\ UNCHANGED <<permits, outcome, taskId, late, mae, warned>>

CallEnds(f) ==
    \/ UploadAnswered(f) \/ UploadFails(f)
    \/ StatusDone(f) \/ StatusRunning(f) \/ StatusFails(f)
    \/ Fetched(f) \/ DeleteAnswered(f) \/ DeleteFails(f)

Child(f) == Start(f) \/ CallEnds(f) \/ Wake(f) \/ DeadlinePasses(f)

Next ==
    \/ Reject \/ Launch \/ AnswerResults \/ AnswerError \/ Crash
    \/ \E f \in Files : Child(f) \/ TaskFinishes(f)

Spec == Init /\ [][Next]_vars

-----------------------------------------------------------------------------
(* Safety.                                                                 *)

(* At most mml_script_max_concurrency children work at a time, and every   *)
(* permit comes back on every path, so that none is lost for the others.   *)
PermitsAddUp ==
    phase # "lost" /\ (\A f \in Files : stage[f] # "gone") =>
        permits + Cardinality(ActiveFiles) = MaxConcurrency

(* A file is reported "ok" only when MAE had finished its task: the result *)
(* is never fetched from a task that was still running.                    *)
OkMeansFinished ==
    \A f \in Files : outcome[f] = "ok" => mae[f] \in {"finished", "deleted"}

(* A child that ends and knew its task has deleted it, has logged that it  *)
(* could not, or has raised: no error path skips the `finally`.            *)
KnownTasksAreCleanedUp ==
    \A f \in Files :
        stage[f] = "done" /\ taskId[f] = "real" =>
            mae[f] = "deleted" \/ f \in warned \/ outcome[f] = "raised"

(* The request as its caller sees it. *)
Batch == INSTANCE FileBatch WITH
    verdict <- [f \in Files |-> IF stage[f] = "done" THEN outcome[f] ELSE "pending"],
    answer <- IF phase \in {"received", "running"} THEN "none" ELSE phase

BatchSpec == Batch!Spec

-----------------------------------------------------------------------------
(* What the description of the route says and the code does not do.        *)

(* "Un archivo fallido no afecta a los demás": a request is not answered   *)
(* with an error that hides what became of a file that did not fail.       *)
FailedFileIsIsolated ==
    phase = "error" => \A f \in Files : outcome[f] = "raised"

-----------------------------------------------------------------------------
(* Liveness: every call ends because the client has a timeout, sleep wakes *)
(* up, the deadline passes, and the semaphore and gather wake who waits.   *)
(* MAE need never finish a task.                                           *)

Fairness ==
    /\ WF_vars(AnswerResults) /\ WF_vars(AnswerError)
    /\ \A f \in Files :
        WF_vars(Start(f)) /\ WF_vars(CallEnds(f)) /\ WF_vars(Wake(f)) /\ WF_vars(DeadlinePasses(f))

LiveSpec == Spec /\ Fairness

(* Every accepted request is answered and every child of it ends, also one *)
(* that goes on after its request has failed: none waits for ever for a    *)
(* permit or for a task that MAE does not finish.                          *)
RequestAndChildrenEnd ==
    phase = "running" ~> /\ phase \in {"results", "error", "lost"}
                         /\ \A f \in Files : stage[f] \in {"done", "gone"}
=============================================================================
