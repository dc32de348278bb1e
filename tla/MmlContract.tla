---------------------------- MODULE MmlContract ----------------------------
(***************************************************************************)
(* What _execute_mml of app/api/routes/huawei.py promises to the routes    *)
(* that are built on it: the order and the number of the results in an     *)
(* answer to a list of network elements.                                   *)
(***************************************************************************)
EXTENDS Integers, Sequences, SequencesExt

(* MAE answers once for every name of a batch, in an order of its own. *)
OnceEach(names) == SetToSeqs(ToSet(names))

(* Without a retry the results are MAE's; after one they follow ne_names,  *)
(* and a name that was given twice has its result twice.                   *)
AnswersTo(names, retried) == IF retried THEN {names} ELSE OnceEach(names)
=============================================================================
