---------------------------- MODULE MCGuardAsync ----------------------------
(***************************************************************************)
(* Two callers of one guard for TLC.  In every behaviour they are either   *)
(* free to do anything, or the loops of a stuck agent, which call the      *)
(* guarded function again and again, every call fails with the same error, *)
(* and nothing else is wrong with the guard than hooks that may raise.     *)
(***************************************************************************)
EXTENDS MCGuard

VARIABLE
    mode       \* "free", the constants as they are, or "stuck"

mvars == <<mode, vars>>

Stuck ==
    INSTANCE Guard WITH
        Outputs <- {}, TestInputs <- {}, SchemaInputs <- BOOLEAN,
        MaxHistory <- 3, Enabled <- {"repeated_error"},
        MaxRetries <- MCRetries3, Interrupt <- FALSE,
        OnGuardError <- "raise_original", CallbackResults <- {"false"},
        Faults <- {"hook"}

MInit == mode \in {"free", "stuck"} /\ Init

\* The stuck agent does not reset the guard, and the guarded function always
\* raises the same error.
StuckNext == Stuck!Next /\ cur' = cur

MNext ==
    /\ \/ mode = "free" /\ Next
       \/ mode = "stuck" /\ StuckNext
    /\ UNCHANGED mode

MProceed(t) ==
    /\ \/ mode = "free" /\ Proceed(t)
       \/ mode = "stuck" /\ Stuck!Proceed(t)
    /\ UNCHANGED mode

MResume(t) ==
    /\ \/ mode = "free" /\ Resume(t)
       \/ mode = "stuck" /\ Stuck!Resume(t)
    /\ UNCHANGED mode

CallsAgain(t) == mode = "stuck" /\ Stuck!Begin(t) /\ UNCHANGED mode

(***************************************************************************)
(* Fairness of Guard in either mode; and the stuck agent keeps calling,    *)
(* which is what being stuck means.                                        *)
(***************************************************************************)
MSpec ==
    /\ MInit /\ [][MNext]_mvars
    /\ \A t \in Tasks :
          /\ WF_mvars(MProceed(t)) /\ SF_mvars(MResume(t))
          /\ SF_mvars(CallsAgain(t))

(***************************************************************************)
(* An agent that only ever fails with the same error gets every escalation *)
(* its budget allows: no interleaving of callers and no truncation of the  *)
(* history hides the loop from the guard for ever (detectors.py:195-240).  *)
(***************************************************************************)
StuckAgentIsEscalated ==
    mode = "stuck" => <>(states[1].escalations >= MaxEscalations)

=============================================================================
