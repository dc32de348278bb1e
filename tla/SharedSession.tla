--------------------------- MODULE SharedSession ---------------------------
(***************************************************************************)
(* What app/services/huawei_client.py promises to its callers, without     *)
(* locks, timers or messages: all of them share one current token, a new   *)
(* one is installed only when there is none, and time alone never takes a  *)
(* current token away from MAE's side first.                               *)
(***************************************************************************)

CONSTANTS Tokens, None

VARIABLES
    current,   \* the token a caller is given now, or None
    honoured   \* the tokens MAE accepts

vars == <<current, honoured>>

Init == current = None /\ honoured = {}

(* MAE opens a session: nobody is given it yet. *)
Open(t) ==
    /\ honoured' = honoured \cup {t}
    /\ UNCHANGED current

(* The client installs a token MAE has opened, when it has no current one. *)
Install(t) ==
    /\ current = None
    /\ current' = t
    /\ UNCHANGED honoured

(* The client lets the current token go: shut down, or refused by MAE. *)
Drop ==
    /\ current' = None
    /\ UNCHANGED honoured

(* Time passes: both sides may forget tokens, MAE never the current one. *)
Expire ==
    /\ current' \in {current, None}
    /\ honoured' \subseteq honoured
    /\ current' \in honoured => current' \in honoured'

(* MAE ends a session on its own, the current one included. *)
Revoke(t) ==
    /\ honoured' = honoured \ {t}
    /\ UNCHANGED current

Next ==
    \/ \E t \in Tokens : Open(t) \/ Install(t) \/ Revoke(t)
    \/ Drop
    \/ Expire

Spec == Init /\ [][Next]_vars
=============================================================================
