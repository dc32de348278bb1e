----------------------------- MODULE FileBatch -----------------------------
(***************************************************************************)
(* What POST /mml/scripts promises, without tasks, polling or a semaphore: *)
(* each file gets one final verdict, and the request is answered once,     *)
(* with the verdicts of all files or with an error one of them caused.     *)
(***************************************************************************)

CONSTANT Files

VARIABLES
    verdict,  \* of each file: "pending", "ok", "failed", "raised"
    answer    \* of the request: "none", "results", "error", "rejected", "lost"

vars == <<verdict, answer>>

Init ==
    /\ verdict = [f \in Files |-> "pending"]
    /\ answer = "none"

(* A file is settled for good; this may come after the answer. *)
Settle(f) ==
    /\ verdict[f] = "pending"
    /\ \E v \in {"ok", "failed", "raised"} : verdict' = [verdict EXCEPT ![f] = v]
    /\ UNCHANGED answer

AnswerResults ==
    /\ answer = "none"
    /\ \A f \in Files : verdict[f] \in {"ok", "failed"}
    /\ answer' = "results"
    /\ UNCHANGED verdict

AnswerError ==
    /\ answer = "none"
    /\ \E f \in Files : verdict[f] = "raised"
    /\ answer' = "error"
    /\ UNCHANGED verdict

(* Invalid input is refused before any file is touched. *)
Reject ==
    /\ answer = "none" /\ \A f \in Files : verdict[f] = "pending"
    /\ answer' = "rejected"
    /\ UNCHANGED verdict

(* The process ends under the request or under what it left running. *)
Crash ==
    /\ answer' \in {answer, "lost"}
    /\ answer # "none" => answer' = answer
    /\ UNCHANGED verdict

Next == (\E f \in Files : Settle(f)) \/ AnswerResults \/ AnswerError \/ Reject \/ Crash

Spec == Init /\ [][Next]_vars
=============================================================================
