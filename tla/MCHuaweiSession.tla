-------------------------- MODULE MCHuaweiSession --------------------------
(* The constants of the runs about HuaweiSession.  One tick is half a      *)
(* minute or more; the order of the real times is kept: the session is     *)
(* usable one tick less than MAE keeps it, the handshake is due one tick   *)
(* before it stops being usable and is looked for at least until MAE's     *)
(* own limit (1800, 1770, 1740 and 1740 + 60 seconds).                     *)
EXTENDS HuaweiSession
=============================================================================
