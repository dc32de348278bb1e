--------------------------- MODULE MCScriptBatch ---------------------------
(* The constants of the runs about ScriptBatch: more files than permits,   *)
(* so that a child waits for another one's permit.                         *)
EXTENDS ScriptBatch
=============================================================================
