----------------------------- MODULE MCKpiPoll -----------------------------
(* The constants of the run about KpiPoll: four pages, and every minute of *)
(* two hours, so that both sides of the lag and of the hour are met.       *)
EXTENDS KpiPoll

TwoHours == 1500..1619
=============================================================================
