------------------------------ MODULE MCGraph ------------------------------
(***************************************************************************)
(* A graph beside one guarded caller for TLC, in every behaviour either in *)
(* interrupt mode or in auto mode with a custom callback that may raise,   *)
(* where what can be wrong are model, context and cancellation.            *)
(***************************************************************************)
EXTENDS MCLangGraphHandler

VARIABLE
    mode       \* "interrupt", the constants as they are, or "auto"

mvars == <<mode, gvars>>

Auto ==
    INSTANCE LangGraphHandler WITH
        NodeReports <- MCAnything, Enabled <- {"repeated_error", "custom"},
        Interrupt <- FALSE, OnGuardError <- "return_sentinel",
        CallbackResults <- {"false", "raises"},
        Faults <- {"model", "context", "cancel"}

MInit == mode \in {"interrupt", "auto"} /\ GraphInit

\* Resets are left to the first mode.
AutoNext == Auto!GraphNext /\ cur' = cur

MNext ==
    /\ \/ mode = "interrupt" /\ GraphNext
       \/ mode = "auto" /\ AutoNext
    /\ UNCHANGED mode

MProceed(t) ==
    /\ \/ mode = "interrupt" /\ Proceed(t)
       \/ mode = "auto" /\ Auto!Proceed(t)
    /\ UNCHANGED <<mode, node>>

MNodeProceed(g) ==
    /\ \/ mode = "interrupt" /\ NodeProceed(g)
       \/ mode = "auto" /\ Auto!NodeProceed(g)
    /\ UNCHANGED mode

MNodeResumes(g) ==
    /\ \/ mode = "interrupt" /\ NodeResumes(g)
       \/ mode = "auto" /\ Auto!NodeResumes(g)
    /\ UNCHANGED mode

\* GraphFairness in either mode.
MSpec ==
    /\ MInit /\ [][MNext]_mvars
    /\ \A t \in Tasks : WF_mvars(MProceed(t))
    /\ \A g \in Threads : WF_mvars(MNodeProceed(g)) /\ SF_mvars(MNodeResumes(g))

-----------------------------------------------------------------------------
(***************************************************************************)
(* In auto mode on_step_end raises only what the custom callback did: the  *)
(* escalation is made inside the try block of escalate (langgraph.py:160,  *)
(* escalation.py:273-282).                                                 *)
(***************************************************************************)
AutoFailsOpen ==
    mode = "auto" =>
        \A g \in Threads :
           node[g].result.how = "raised" => node[g].result.value = "TriggerError"

=============================================================================
