--------------------------- MODULE MCGuardHistory ---------------------------
(***************************************************************************)
(* Small instances of GuardHistory for TLC: in every behaviour the guard   *)
(* either has an escalation model or has none.                             *)
(***************************************************************************)
EXTENDS GuardHistory, MCGuard

VARIABLE
    mode       \* "escalate", the constants as they are, or "detect"

mvars == <<mode, hvars>>

Bare == INSTANCE GuardHistory WITH HasModel <- FALSE

MInit == mode \in {"escalate", "detect"} /\ HInit

MNext ==
    /\ \/ mode = "escalate" /\ HNext
       \/ mode = "detect" /\ Bare!HNext
    /\ UNCHANGED mode

MSpec == MInit /\ [][MNext]_mvars

-----------------------------------------------------------------------------
(***************************************************************************)
(* Without an escalation model whatever triggers is only detected, and     *)
(* nothing raises in any mode of failing open but the custom callback, of  *)
(* which this instance has none that does (guard.py:282-284).              *)
(***************************************************************************)
DetectionFailsOpen ==
    mode = "detect" => \A t \in Tasks : call[t].result.how # "raised"

=============================================================================
