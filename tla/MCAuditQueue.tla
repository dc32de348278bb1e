---------------------------- MODULE MCAuditQueue ----------------------------
(* The constants of the runs about AuditQueue: a queue of two, and enough  *)
(* records to fill it with one in the writer's hand and overflow it, more  *)
(* than once when the process restarts in between.                         *)
EXTENDS AuditQueue
=============================================================================
