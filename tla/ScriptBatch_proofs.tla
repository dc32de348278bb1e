------------------------- MODULE ScriptBatch_proofs -------------------------
(***************************************************************************)
(* Proofs about ScriptBatch for every number of files and of permits.      *)
(***************************************************************************)
EXTENDS ScriptBatch, FiniteSetTheorems, TLAPS

NoneGone == \A f \in Files : stage[f] # "gone"

(* A crash takes every child that has not ended. *)
CrashInv == ~NoneGone => \A f \in Files : stage[f] \in {"done", "gone"}

PermitInv == NoneGone => permits + Cardinality(ActiveFiles) = MaxConcurrency

(* What a child knows at each of its stages.  "finished" is reached before *)
(* the result is fetched, and nothing but the child's own DELETE undoes it. *)
ChildInv ==
    \A f \in Files :
        /\ stage[f] \in {"waiting", "uploading"} => taskId[f] = "none" /\ outcome[f] = "none"
        /\ stage[f] \in {"polling", "sleeping", "fetching"} =>
              taskId[f] # "none" /\ outcome[f] = "none"
        /\ stage[f] = "fetching" => mae[f] = "finished"
        /\ stage[f] = "done" => outcome[f] # "none"
        /\ stage[f] = "deleting" => outcome[f] # "none"

IInv ==
    /\ TypeOK /\ CrashInv /\ PermitInv /\ ChildInv
    /\ OkMeansFinished /\ KnownTasksAreCleanedUp

-----------------------------------------------------------------------------
(* Counting the children that hold a permit.                               *)

LEMMA Counts == FileCount \in Nat /\ MaxConcurrency \in Nat /\ MaxConcurrency > 0
BY CountsAssumption

LEMMA ActiveFinite == IsFiniteSet(ActiveFiles) /\ Cardinality(ActiveFiles) \in Nat
<1>1. IsFiniteSet(Files)
  BY Counts, FS_Interval DEF Files
<1>2. ActiveFiles \subseteq Files
  BY DEF ActiveFiles
<1> QED BY <1>1, <1>2, FS_Subset, FS_CardinalityType

StageType == stage \in [Files -> {"waiting", "done", "gone"} \cup Active]

(* A child goes on with its permit. *)
LEMMA GotoFacts ==
    ASSUME StageType, permits \in 0..MaxConcurrency, PermitInv, NoneGone, NEW f \in Files,
           stage[f] \in Active, NEW where \in Active, Goto(f, where), UNCHANGED permits
    PROVE  StageType' /\ permits' \in 0..MaxConcurrency /\ PermitInv' /\ NoneGone'
<1>1. StageType' /\ NoneGone'
  BY DEF StageType, NoneGone, Goto, Active
<1>2. ActiveFiles' = ActiveFiles
  BY DEF StageType, Goto, ActiveFiles
<1> QED BY <1>1, <1>2 DEF PermitInv

(* A child takes a permit. *)
LEMMA TakeFacts ==
    ASSUME StageType, permits \in 0..MaxConcurrency, PermitInv, NoneGone, NEW f \in Files,
           stage[f] = "waiting", Goto(f, "uploading"), permits > 0, permits' = permits - 1
    PROVE  StageType' /\ permits' \in 0..MaxConcurrency /\ PermitInv' /\ NoneGone'
<1>1. StageType' /\ NoneGone'
  BY DEF StageType, NoneGone, Goto, Active
<1>2. f \notin ActiveFiles /\ ActiveFiles' = ActiveFiles \cup {f}
  BY DEF StageType, Goto, ActiveFiles, Active
<1>3. Cardinality(ActiveFiles') = Cardinality(ActiveFiles) + 1
  BY <1>2, ActiveFinite, FS_AddElement
<1> QED BY <1>1, <1>3, ActiveFinite, Counts DEF PermitInv

(* A child gives its permit back. *)
LEMMA LeaveFacts ==
    ASSUME StageType, permits \in 0..MaxConcurrency, PermitInv, NoneGone, NEW f \in Files,
           stage[f] \in Active, Leave(f)
    PROVE  StageType' /\ permits' \in 0..MaxConcurrency /\ PermitInv' /\ NoneGone'
<1>1. StageType' /\ NoneGone'
  BY DEF StageType, NoneGone, Leave, Goto, Active
<1>2. f \in ActiveFiles /\ ActiveFiles' = ActiveFiles \ {f}
  BY DEF StageType, Leave, Goto, ActiveFiles, Active
<1>3. Cardinality(ActiveFiles') = Cardinality(ActiveFiles) - 1
  BY <1>2, ActiveFinite, FS_RemoveElement
<1>4. Cardinality(ActiveFiles') \in Nat
  BY <1>2, ActiveFinite, FS_RemoveElement, FS_CardinalityType
<1> QED BY <1>1, <1>3, <1>4, ActiveFinite, Counts DEF PermitInv, Leave

LEMMA RunningMeansNoneGone ==
    ASSUME CrashInv, NEW f \in Files, stage[f] \notin {"done", "gone"}
    PROVE  NoneGone
BY DEF CrashInv, NoneGone

-----------------------------------------------------------------------------
(* The inductive step.                                                     *)

(* The conjuncts of IInv about the files, whatever happens to the request. *)
FileInv == ChildInv /\ OkMeansFinished /\ KnownTasksAreCleanedUp

DataType ==
    /\ phase \in {"received", "rejected", "running", "results", "error", "lost"}
    /\ outcome \in [Files -> {"none", "ok", "failed", "raised"}]
    /\ taskId \in [Files -> {"none", "real", "bogus"}]
    /\ mae \in [Files -> {"none", "running", "finished", "deleted"}]
    /\ late \subseteq Files /\ warned \subseteq Files

LEMMA Assemble ==
    (StageType /\ DataType /\ permits \in 0..MaxConcurrency) <=> TypeOK
BY DEF StageType, DataType, TypeOK

LEMMA IndInit == Init => IInv
<1> SUFFICES ASSUME Init PROVE IInv
  OBVIOUS
<1>1. ActiveFiles = {}
  BY DEF Init, ActiveFiles, Active
<1>2. TypeOK
  BY Counts DEF Init, TypeOK
<1>3. PermitInv
  BY <1>1, FS_EmptySet, Counts DEF Init, PermitInv
<1> QED
  BY <1>2, <1>3 DEF Init, IInv, CrashInv, NoneGone, ChildInv, OkMeansFinished,
                    KnownTasksAreCleanedUp

LEMMA KeepRequest ==
    ASSUME IInv, Reject \/ Launch \/ AnswerResults \/ AnswerError
    PROVE  IInv'
<1>1. /\ UNCHANGED <<permits, stage, outcome, taskId, late, mae, warned>>
      /\ phase' \in {"rejected", "running", "results", "error"}
  BY DEF Reject, Launch, AnswerResults, AnswerError
<1> QED
  BY <1>1 DEF IInv, TypeOK, CrashInv, NoneGone, PermitInv, ActiveFiles, ChildInv,
              OkMeansFinished, KnownTasksAreCleanedUp

LEMMA KeepCrash ==
    ASSUME IInv, Crash
    PROVE  IInv'
<1>1. TypeOK' /\ ~NoneGone'
  BY DEF IInv, TypeOK, Crash, NoneGone
<1>2. CrashInv'
  BY DEF IInv, TypeOK, Crash, CrashInv
<1> QED
  BY <1>1, <1>2 DEF IInv, TypeOK, Crash, PermitInv, ChildInv, OkMeansFinished,
                    KnownTasksAreCleanedUp

LEMMA KeepTaskFinishes ==
    ASSUME IInv, NEW f \in Files, TaskFinishes(f)
    PROVE  IInv'
<1>1. TypeOK'
  BY DEF IInv, TypeOK, TaskFinishes
<1>2. CrashInv' /\ PermitInv'
  BY DEF IInv, TaskFinishes, CrashInv, NoneGone, PermitInv, ActiveFiles
<1>3. FileInv'
  BY DEF IInv, TypeOK, TaskFinishes, FileInv, ChildInv, OkMeansFinished,
         KnownTasksAreCleanedUp
<1> QED BY <1>1, <1>2, <1>3 DEF IInv, FileInv

LEMMA KeepStart ==
    ASSUME IInv, NEW f \in Files, Start(f)
    PROVE  IInv'
<1> USE DEF Start
<1>1. NoneGone /\ StageType /\ permits \in 0..MaxConcurrency /\ PermitInv
  BY RunningMeansNoneGone, Assemble DEF IInv, Active
<1>2. StageType' /\ permits' \in 0..MaxConcurrency /\ PermitInv' /\ NoneGone'
  BY <1>1, TakeFacts
<1>3. DataType'
  BY Assemble DEF IInv, DataType, Conclude, MaybeCreated
<1>4. FileInv'
  BY <1>1 DEF IInv, TypeOK, FileInv, ChildInv, OkMeansFinished, KnownTasksAreCleanedUp,
              Goto, Leave, Cleanup, Conclude, MaybeCreated, Active
<1> QED BY <1>2, <1>3, <1>4 DEF IInv, FileInv, CrashInv, TypeOK, StageType, DataType

LEMMA KeepUploadAnswered ==
    ASSUME IInv, NEW f \in Files, UploadAnswered(f)
    PROVE  IInv'
<1> USE DEF UploadAnswered
<1>1. NoneGone /\ StageType /\ permits \in 0..MaxConcurrency /\ PermitInv
  BY RunningMeansNoneGone, Assemble DEF IInv, Active
<1>2. StageType' /\ permits' \in 0..MaxConcurrency /\ PermitInv' /\ NoneGone'
  BY <1>1, GotoFacts DEF Active
<1>3. DataType'
  BY Assemble DEF IInv, DataType, Conclude, MaybeCreated
<1>4. FileInv'
  BY <1>1 DEF IInv, TypeOK, FileInv, ChildInv, OkMeansFinished, KnownTasksAreCleanedUp,
              Goto, Leave, Cleanup, Conclude, MaybeCreated, Active
<1> QED BY <1>2, <1>3, <1>4 DEF IInv, FileInv, CrashInv, TypeOK, StageType, DataType

LEMMA KeepUploadFails ==
    ASSUME IInv, NEW f \in Files, UploadFails(f)
    PROVE  IInv'
<1> USE DEF UploadFails
<1>1. NoneGone /\ StageType /\ permits \in 0..MaxConcurrency /\ PermitInv
  BY RunningMeansNoneGone, Assemble DEF IInv, Active
<1>2. StageType' /\ permits' \in 0..MaxConcurrency /\ PermitInv' /\ NoneGone'
  BY <1>1, LeaveFacts DEF Active
<1>3. DataType'
  BY Assemble DEF IInv, DataType, Conclude, MaybeCreated
<1>4. FileInv'
  BY <1>1 DEF IInv, TypeOK, FileInv, ChildInv, OkMeansFinished, KnownTasksAreCleanedUp,
              Goto, Leave, Cleanup, Conclude, MaybeCreated, Active
<1> QED BY <1>2, <1>3, <1>4 DEF IInv, FileInv, CrashInv, TypeOK, StageType, DataType

LEMMA KeepStatusDone ==
    ASSUME IInv, NEW f \in Files, StatusDone(f)
    PROVE  IInv'
<1> USE DEF StatusDone
<1>1. NoneGone /\ StageType /\ permits \in 0..MaxConcurrency /\ PermitInv
  BY RunningMeansNoneGone, Assemble DEF IInv, Active
<1>2. StageType' /\ permits' \in 0..MaxConcurrency /\ PermitInv' /\ NoneGone'
  BY <1>1, GotoFacts DEF Active
<1>3. DataType'
  BY Assemble DEF IInv, DataType, Conclude, MaybeCreated
<1>4. FileInv'
  BY <1>1 DEF IInv, TypeOK, FileInv, ChildInv, OkMeansFinished, KnownTasksAreCleanedUp,
              Goto, Leave, Cleanup, Conclude, MaybeCreated, Active
<1> QED BY <1>2, <1>3, <1>4 DEF IInv, FileInv, CrashInv, TypeOK, StageType, DataType

LEMMA KeepStatusRunning ==
    ASSUME IInv, NEW f \in Files, StatusRunning(f)
    PROVE  IInv'
<1> USE DEF StatusRunning
<1>1. NoneGone /\ StageType /\ permits \in 0..MaxConcurrency /\ PermitInv
  BY RunningMeansNoneGone, Assemble DEF IInv, Active
<1>2. StageType' /\ permits' \in 0..MaxConcurrency /\ PermitInv' /\ NoneGone'
  BY <1>1, GotoFacts, LeaveFacts DEF Cleanup, Active
<1>3. DataType'
  BY Assemble DEF IInv, DataType, Conclude, MaybeCreated
<1>4. FileInv'
  BY <1>1 DEF IInv, TypeOK, FileInv, ChildInv, OkMeansFinished, KnownTasksAreCleanedUp,
              Goto, Leave, Cleanup, Conclude, MaybeCreated, Active
<1> QED BY <1>2, <1>3, <1>4 DEF IInv, FileInv, CrashInv, TypeOK, StageType, DataType

LEMMA KeepStatusFails ==
    ASSUME IInv, NEW f \in Files, StatusFails(f)
    PROVE  IInv'
<1> USE DEF StatusFails
<1>1. NoneGone /\ StageType /\ permits \in 0..MaxConcurrency /\ PermitInv
  BY RunningMeansNoneGone, Assemble DEF IInv, Active
<1>2. StageType' /\ permits' \in 0..MaxConcurrency /\ PermitInv' /\ NoneGone'
  BY <1>1, GotoFacts, LeaveFacts DEF Cleanup, Active
<1>3. DataType'
  BY Assemble DEF IInv, DataType, Conclude, MaybeCreated
<1>4. FileInv'
  BY <1>1 DEF IInv, TypeOK, FileInv, ChildInv, OkMeansFinished, KnownTasksAreCleanedUp,
              Goto, Leave, Cleanup, Conclude, MaybeCreated, Active
<1> QED BY <1>2, <1>3, <1>4 DEF IInv, FileInv, CrashInv, TypeOK, StageType, DataType

LEMMA KeepWake ==
    ASSUME IInv, NEW f \in Files, Wake(f)
    PROVE  IInv'
<1> USE DEF Wake
<1>1. NoneGone /\ StageType /\ permits \in 0..MaxConcurrency /\ PermitInv
  BY RunningMeansNoneGone, Assemble DEF IInv, Active
<1>2. StageType' /\ permits' \in 0..MaxConcurrency /\ PermitInv' /\ NoneGone'
  BY <1>1, GotoFacts DEF Active
<1>3. DataType'
  BY Assemble DEF IInv, DataType, Conclude, MaybeCreated
<1>4. FileInv'
  BY <1>1 DEF IInv, TypeOK, FileInv, ChildInv, OkMeansFinished, KnownTasksAreCleanedUp,
              Goto, Leave, Cleanup, Conclude, MaybeCreated, Active
<1> QED BY <1>2, <1>3, <1>4 DEF IInv, FileInv, CrashInv, TypeOK, StageType, DataType

LEMMA KeepDeadlinePasses ==
    ASSUME IInv, NEW f \in Files, DeadlinePasses(f)
    PROVE  IInv'
<1> USE DEF DeadlinePasses
<1>1. NoneGone /\ StageType /\ permits \in 0..MaxConcurrency /\ PermitInv
  BY RunningMeansNoneGone, Assemble DEF IInv, Active
<1>2. StageType' /\ permits' \in 0..MaxConcurrency /\ PermitInv' /\ NoneGone'
  BY <1>1 DEF StageType, PermitInv, NoneGone, ActiveFiles
<1>3. DataType'
  BY Assemble DEF IInv, DataType, Conclude, MaybeCreated
<1>4. FileInv'
  BY <1>1 DEF IInv, TypeOK, FileInv, ChildInv, OkMeansFinished, KnownTasksAreCleanedUp,
              Goto, Leave, Cleanup, Conclude, MaybeCreated, Active
<1> QED BY <1>2, <1>3, <1>4 DEF IInv, FileInv, CrashInv, TypeOK, StageType, DataType

LEMMA KeepFetched ==
    ASSUME IInv, NEW f \in Files, Fetched(f)
    PROVE  IInv'
<1> USE DEF Fetched
<1>1. NoneGone /\ StageType /\ permits \in 0..MaxConcurrency /\ PermitInv
  BY RunningMeansNoneGone, Assemble DEF IInv, Active
<1>2. StageType' /\ permits' \in 0..MaxConcurrency /\ PermitInv' /\ NoneGone'
  BY <1>1, GotoFacts, LeaveFacts DEF Cleanup, Active
<1>3. DataType'
  BY Assemble DEF IInv, DataType, Conclude, MaybeCreated
<1>4. FileInv'
  BY <1>1 DEF IInv, TypeOK, FileInv, ChildInv, OkMeansFinished, KnownTasksAreCleanedUp,
              Goto, Leave, Cleanup, Conclude, MaybeCreated, Active
<1> QED BY <1>2, <1>3, <1>4 DEF IInv, FileInv, CrashInv, TypeOK, StageType, DataType

LEMMA KeepDeleteEnds ==
    ASSUME IInv, NEW f \in Files, DeleteAnswered(f) \/ DeleteFails(f)
    PROVE  IInv'
<1> USE DEF DeleteAnswered, DeleteFails
<1>1. NoneGone /\ StageType /\ permits \in 0..MaxConcurrency /\ PermitInv
  BY RunningMeansNoneGone, Assemble DEF IInv, Active
<1>2. StageType' /\ permits' \in 0..MaxConcurrency /\ PermitInv' /\ NoneGone'
  BY <1>1, LeaveFacts DEF Active
<1>3. DataType'
  BY Assemble DEF IInv, DataType, Conclude, MaybeCreated
<1>4. FileInv'
  BY <1>1 DEF IInv, TypeOK, FileInv, ChildInv, OkMeansFinished, KnownTasksAreCleanedUp,
              Goto, Leave, Cleanup, Conclude, MaybeCreated, Active
<1> QED BY <1>2, <1>3, <1>4 DEF IInv, FileInv, CrashInv, TypeOK, StageType, DataType

LEMMA IndNext == IInv /\ [Next]_vars => IInv'
<1> SUFFICES ASSUME IInv, [Next]_vars PROVE IInv'
  OBVIOUS
<1>1. ASSUME NEW f \in Files, CallEnds(f) PROVE IInv'
  BY <1>1, KeepUploadAnswered, KeepUploadFails, KeepStatusDone, KeepStatusRunning,
     KeepStatusFails, KeepFetched, KeepDeleteEnds DEF CallEnds
<1>2. ASSUME NEW f \in Files, Child(f) PROVE IInv'
  BY <1>1, <1>2, KeepStart, KeepWake, KeepDeadlinePasses DEF Child
<1>3. CASE UNCHANGED vars
  BY <1>3 DEF IInv, TypeOK, CrashInv, NoneGone, PermitInv, ActiveFiles, ChildInv,
              OkMeansFinished, KnownTasksAreCleanedUp, vars
<1> QED BY <1>2, <1>3, KeepRequest, KeepCrash, KeepTaskFinishes DEF Next

(* The strengthening holds in every reachable state. *)
THEOREM Inductive == Spec => []IInv
BY IndInit, IndNext, PTL DEF Spec

-----------------------------------------------------------------------------
(* What follows from it.                                                   *)

(* Every variable keeps its type; the permits never leave their range. *)
THEOREM TypeCorrect == Spec => []TypeOK
<1>1. IInv => TypeOK
  BY DEF IInv
<1> QED BY <1>1, Inductive, PTL

(* Free permits and working children add up to the limit. *)
THEOREM ConcurrencyIsBounded == Spec => []PermitsAddUp
<1>1. IInv => PermitsAddUp
  BY DEF IInv, PermitInv, NoneGone, PermitsAddUp
<1> QED BY <1>1, Inductive, PTL

(* No result is fetched from a task that was still running. *)
THEOREM OkIsEarned == Spec => []OkMeansFinished
<1>1. IInv => OkMeansFinished
  BY DEF IInv
<1> QED BY <1>1, Inductive, PTL

(* A child that knew its task deleted it, logged, or raised. *)
THEOREM CleanupIsTried == Spec => []KnownTasksAreCleanedUp
<1>1. IInv => KnownTasksAreCleanedUp
  BY DEF IInv
<1> QED BY <1>1, Inductive, PTL

-----------------------------------------------------------------------------
(* The refinement: every step is a step of FileBatch or a stutter.         *)

(* Nothing is started before gather: a rejected request touched no file. *)
IdleInv == phase \in {"received", "rejected"} => \A f \in Files : stage[f] = "waiting"

LEMMA IdleNext == IInv /\ IdleInv /\ [Next]_vars => IdleInv'
<1> SUFFICES ASSUME IInv, IdleInv, [Next]_vars PROVE IdleInv'
  OBVIOUS
<1> USE DEF IdleInv
<1>1. ASSUME NEW f \in Files, CallEnds(f) PROVE IdleInv'
  BY <1>1 DEF CallEnds, UploadAnswered, UploadFails, StatusDone, StatusRunning, StatusFails,
              Fetched, DeleteAnswered, DeleteFails
<1>2. ASSUME NEW f \in Files, Child(f) PROVE IdleInv'
  BY <1>1, <1>2 DEF Child, Start, Wake, DeadlinePasses, Started
<1>3. ASSUME NEW f \in Files, TaskFinishes(f) PROVE IdleInv'
  BY <1>3 DEF TaskFinishes
<1>4. CASE Reject \/ Launch \/ AnswerResults \/ AnswerError \/ Crash
  BY <1>4 DEF Reject, Launch, AnswerResults, AnswerError, Crash, Started
<1> QED BY <1>2, <1>3, <1>4 DEF Next, vars

LEMMA Idle == Spec => []IdleInv
<1>1. Init => IdleInv
  BY DEF Init, IdleInv
<1> QED BY <1>1, IdleNext, Inductive, PTL DEF Spec

Verdict(f) == IF stage[f] = "done" THEN outcome[f] ELSE "pending"
Answer == IF phase \in {"received", "running"} THEN "none" ELSE phase

LEMMA RefineInit == Init => Batch!Init
BY DEF Init, Batch!Init

(* A step that touches one child which has not ended settles it or nothing. *)
LEMMA RefineChild ==
    ASSUME IInv, IInv', NEW f \in Files, UNCHANGED phase, stage[f] # "done",
           NEW where, stage' = [stage EXCEPT ![f] = where],
           NEW what, outcome' = [outcome EXCEPT ![f] = what]
    PROVE  Batch!Next \/ UNCHANGED Batch!vars
<1> DEFINE V == [g \in Files |-> Verdict(g)]
<1>1. V[f] = "pending"
  BY DEF Verdict
<1>2. V' = [V EXCEPT ![f] = Verdict(f)']
  BY DEF IInv, TypeOK, Verdict
<1>3. Verdict(f)' \in {"pending", "ok", "failed", "raised"}
  BY DEF IInv, TypeOK, ChildInv, Verdict
<1>4. UNCHANGED Answer
  BY DEF Answer
<1>5. CASE Verdict(f)' = "pending"
  <2>1. V' = V
    BY <1>1, <1>2, <1>5
  <2> QED BY <2>1, <1>4 DEF Batch!vars, Verdict, Answer
<1>6. CASE Verdict(f)' # "pending"
  <2>1. Batch!Settle(f)
    BY <1>1, <1>2, <1>3, <1>4, <1>6 DEF Batch!Settle, Verdict, Answer
  <2> QED BY <2>1 DEF Batch!Next
<1> QED BY <1>5, <1>6

(* Each step of a child is of that form. *)
LEMMA ChildSteps ==
    ASSUME IInv, NEW f \in Files, Child(f)
    PROVE  /\ UNCHANGED phase /\ stage[f] # "done"
           /\ \E where : stage' = [stage EXCEPT ![f] = where]
           /\ \E what : outcome' = [outcome EXCEPT ![f] = what]
<1>1. /\ stage = [stage EXCEPT ![f] = stage[f]]
      /\ outcome = [outcome EXCEPT ![f] = outcome[f]]
  BY DEF IInv, TypeOK
<1>2. CASE Start(f) \/ Wake(f) \/ DeadlinePasses(f)
  BY <1>1, <1>2 DEF Start, Wake, DeadlinePasses, Goto
<1>3. CASE CallEnds(f)
  BY <1>1, <1>3 DEF CallEnds, UploadAnswered, UploadFails, StatusDone, StatusRunning,
     StatusFails, Fetched, DeleteAnswered, DeleteFails, Goto, Leave, Cleanup, Conclude
<1> QED BY <1>2, <1>3 DEF Child

LEMMA RefineRequest ==
    ASSUME IInv, IdleInv, Reject \/ Launch \/ AnswerResults \/ AnswerError \/ Crash
    PROVE  Batch!Next \/ UNCHANGED Batch!vars
<1>1. CASE Reject
  <2>1. Batch!Reject
    BY <1>1 DEF Reject, IdleInv, Batch!Reject
  <2> QED BY <2>1 DEF Batch!Next
<1>2. CASE Launch
  BY <1>2 DEF Launch, Batch!vars
<1>3. CASE AnswerResults
  <2>1. \A f \in Files : outcome[f] \in {"ok", "failed"}
    BY <1>3 DEF AnswerResults, IInv, TypeOK, ChildInv
  <2>2. Batch!AnswerResults
    BY <1>3, <2>1 DEF AnswerResults, Batch!AnswerResults
  <2> QED BY <2>2 DEF Batch!Next
<1>4. CASE AnswerError
  <2>1. Batch!AnswerError
    BY <1>4 DEF AnswerError, Batch!AnswerError
  <2> QED BY <2>1 DEF Batch!Next
<1>5. CASE Crash
  <2>1. \A f \in Files : Verdict(f)' = Verdict(f)
    BY <1>5 DEF Crash, Verdict
  <2>2. Batch!Crash
    BY <1>5, <2>1 DEF Crash, Started, Verdict, Batch!Crash
  <2> QED BY <2>2 DEF Batch!Next
<1> QED BY <1>1, <1>2, <1>3, <1>4, <1>5

(* The route gives each file one final verdict and the request one answer, *)
(* as FileBatch says.                                                      *)
THEOREM Refinement == Spec => BatchSpec
<1>1. ASSUME IInv, IInv', IdleInv, [Next]_vars PROVE [Batch!Next]_(Batch!vars)
  <2>1. ASSUME NEW f \in Files, Child(f) PROVE Batch!Next \/ UNCHANGED Batch!vars
    BY <1>1, <2>1, ChildSteps, RefineChild
  <2>2. ASSUME NEW f \in Files, TaskFinishes(f) PROVE UNCHANGED Batch!vars
    BY <2>2 DEF TaskFinishes, Batch!vars
  <2>3. CASE UNCHANGED vars
    BY <2>3 DEF vars, Batch!vars
  <2> QED BY <1>1, <2>1, <2>2, <2>3, RefineRequest DEF Next
<1> QED BY <1>1, RefineInit, Inductive, Idle, PTL DEF Spec, BatchSpec, Batch!Spec
=============================================================================
