-------------------------- MODULE MCAuditedQuery --------------------------
(* The constants of the run about AuditedQuery: bodies of up to three      *)
(* chunks that stay under, hit and exceed both limits, two upstream calls, *)
(* and pages of up to two alarms.                                          *)
EXTENDS AuditedQuery
=============================================================================
