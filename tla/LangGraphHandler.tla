-------------------------- MODULE LangGraphHandler --------------------------
(***************************************************************************)
(* integrations/langgraph.py beside the guard: the nodes of a graph report *)
(* their steps with on_step_end, which uses the guard's state, detector    *)
(* and manager without being a guarded call.                               *)
(*                                                                         *)
(* on_step_end is synchronous: once entered it keeps the loop, also while  *)
(* the model works, until it returns, raises, or interrupts the graph.  An *)
(* interrupted node is executed again from its start when the user has     *)
(* answered; only then interrupt() returns that answer.                    *)
(***************************************************************************)
EXTENDS Guard

CONSTANTS
    Threads,      \* threads of the graph; each executes one node at a time
    NodeReports   \* <<output, error>> that nodes report, None for none

ASSUME HandlerAssumption ==
    /\ Threads \cap (Tasks \cup {None}) = {}
    /\ NodeReports \subseteq (Outputs \cup {None}) \X (AgentErrors \cup {None})

VARIABLE
    node       \* thread -> its current or latest execution of a node

gvars == <<vars, node>>

\* phase: "idle", "check", "escalate", "paused", "resumed", "package" or
\* "failopen"; output: what the node produced; answer: the user's.
FreshNode ==
    [phase |-> "idle", output |-> None, trigger |-> None, answer |-> None,
     result |-> NoResult]

GraphInit == Init /\ node = [g \in Threads |-> FreshNode]

Busy(g, phase) == running = g /\ node[g].phase = phase

NodeGoto(g, phase) ==
    /\ running' = g
    /\ node' = [node EXCEPT ![g].phase = phase]

\* on_step_end is over.
NodeFinish(g, result) ==
    /\ running' = None
    /\ node' = [node EXCEPT ![g] = [@ EXCEPT !.phase = "idle", !.output = None,
                                             !.trigger = None, !.result = result]]

NodeLogRaises(g) == LogRaises /\ NodeFinish(g, Raised("HookError"))

KeepAll == KeepState /\ UNCHANGED call

-----------------------------------------------------------------------------
\* Mutants of Executed: an approved thread escalates without a new check; the
\* answer does not survive the new execution of the node.
ExecutedUnchecked(g) ==
    IF node[g].phase = "resumed"
    THEN [node[g] EXCEPT !.phase = IF node[g].answer = "y" THEN "package"
                                                           ELSE "check"]
    ELSE [FreshNode EXCEPT !.phase = "check"]

ExecutedForgetful(g) == [FreshNode EXCEPT !.phase = "check"]

\* What the thread remembers when the node has been executed.
Executed(g) ==
    IF node[g].phase = "resumed"
    THEN [FreshNode EXCEPT !.phase = "check", !.answer = node[g].answer]
    ELSE [FreshNode EXCEPT !.phase = "check"]

\* A node calls on_step_end: what is pending goes into its step.  The number
\* of the step is the graph's own, which nothing reads.
NodeEnds(g, output, error) ==
    /\ running = None
    /\ running' = g
    /\ states' = [states EXCEPT ![cur].steps =
                    AddStep(@, [NewStep(output, error) EXCEPT !.num = 0])]
    /\ pending' = NoPending
    /\ node' = [node EXCEPT ![g] = [Executed(g) EXCEPT !.output = output]]
    /\ UNCHANGED <<cur, cached, call>>

NodeEndsFirst(g) ==
    /\ node[g].phase = "idle"
    /\ \E r \in NodeReports : NodeEnds(g, r[1], r[2])

\* The graph resumes; what the node does this time may differ.
NodeEndsAgain(g) ==
    /\ node[g].phase = "resumed"
    /\ \E r \in NodeReports : NodeEnds(g, r[1], r[2])

\* Components are created by guarded calls only, both at the same time.
Unready == ~ cached.detector \/ cached.manager = NoRun

NodeUnguarded(g) ==
    /\ Busy(g, "check") /\ Unready
    /\ NodeFinish(g, Returned(node[g].output))
    /\ KeepAll

NodeCallbackFails(g, c) ==
    /\ Busy(g, "check") /\ ~ Unready /\ CheckRaises(c)
    /\ NodeFinish(g, Raised("TriggerError"))
    /\ KeepAll

NodeNoTrigger(g, c) ==
    /\ Busy(g, "check") /\ ~ Unready /\ ~ CheckRaises(c) /\ Verdict(c) = None
    /\ NodeFinish(g, Returned(node[g].output))
    /\ KeepAll

NodeTriggered(g, c) ==
    /\ Busy(g, "check") /\ ~ Unready /\ ~ CheckRaises(c) /\ Verdict(c) # None
    /\ running' = g
    /\ node' = [node EXCEPT ![g].phase = "escalate", ![g].trigger = Verdict(c)]
    /\ KeepAll

-----------------------------------------------------------------------------
\* Mutant of NodeCapped: a thread with an answer does not look at the cap.
NodeCappedUnasked(g) ==
    node[g].answer = None /\ states[cur].escalations >= MaxEscalations

\* The cap is that of the guard's state, before the mode is looked at.
NodeCapped(g) == states[cur].escalations >= MaxEscalations

ManagerOutput == LastOutput(states[cached.manager].steps)

NodeHandleCap(g) ==
    /\ Busy(g, "escalate") /\ NodeCapped(g)
    /\ NodeFinish(g, Returned(ManagerOutput)) \/ NodeLogRaises(g)
    /\ KeepAll

\* Context and summary for the user are built, then the graph is interrupted.
NodeInterrupts(g) ==
    /\ Busy(g, "escalate") /\ ~ NodeCapped(g) /\ Interrupt
    /\ \/ /\ node[g].answer = None
          /\ running' = None
          /\ node' = [node EXCEPT ![g].phase = "paused"]
       \/ "context" \in Faults /\ NodeFinish(g, Raised("ContextError"))
    /\ KeepAll

UserAnswers(g) ==
    /\ running = None /\ node[g].phase = "paused"
    /\ \E a \in {"y", "n"} :
          node' = [node EXCEPT ![g].phase = "resumed", ![g].answer = a]
    /\ KeepAll /\ UNCHANGED running

\* Mutant of Confirmed: whatever is answered is taken for a yes.
ConfirmedByAnything(g) == node[g].answer # None

Confirmed(g) == node[g].answer = "y"

NodeConfirmed(g) ==
    /\ Busy(g, "escalate") /\ ~ NodeCapped(g) /\ Interrupt
    /\ node[g].answer # None /\ Confirmed(g)
    /\ NodeGoto(g, "package")
    /\ KeepAll

NodeDeclined(g) ==
    /\ Busy(g, "escalate") /\ ~ NodeCapped(g) /\ Interrupt
    /\ node[g].answer # None /\ ~ Confirmed(g)
    /\ NodeFinish(g, Returned(node[g].output))
    /\ KeepAll

\* mgr.escalate looks at the cap again, with the same result.
NodeAuto(g) ==
    /\ Busy(g, "escalate") /\ ~ NodeCapped(g) /\ ~ Interrupt
    /\ NodeGoto(g, "package")
    /\ KeepAll

-----------------------------------------------------------------------------
(***************************************************************************)
(* _do_escalate: inside the try of escalate in auto mode, called directly  *)
(* in interrupt mode.  The model is not looked for before it is invoked.   *)
(***************************************************************************)
\* Mutant of NodeFails: nothing is caught in auto mode either.
NodeFailsOutside(g, error) == NodeFinish(g, Raised(error))

NodeFails(g, error) ==
    IF Interrupt THEN NodeFinish(g, Raised(error)) ELSE NodeGoto(g, "failopen")

NodeModelAnswers(g) ==
    /\ Busy(g, "package") /\ HasModel
    /\ states' = [states EXCEPT ![cached.manager].escalations = @ + 1]
    /\ \/ NodeFinish(g, Returned(Advice))
       \/ LogRaises /\ NodeFails(g, "HookError")
    /\ UNCHANGED <<cur, pending, cached, call>>

NodeEscalationFails(g) ==
    /\ Busy(g, "package")
    /\ \/ ~ HasModel /\ NodeFails(g, "ModelError")
       \/ "model" \in Faults /\ NodeFails(g, "ModelError")
       \/ Faults \cap {"context", "template"} # {} /\ NodeFails(g, "ContextError")
    /\ KeepAll

NodeCancelled(g) ==
    /\ "cancel" \in Faults
    /\ Busy(g, "package")
    /\ NodeFinish(g, Cancelled)
    /\ KeepAll

NodeOriginalError ==
    IF LastError(states[cached.manager].steps) = None THEN "EscalationError"
    ELSE LastError(states[cached.manager].steps)

NodeFailOpen(g) ==
    /\ Busy(g, "failopen")
    /\ \/ NodeLogRaises(g)
       \/ /\ OnGuardError = "raise_original"
          /\ NodeFinish(g, Raised(NodeOriginalError))
       \/ /\ OnGuardError = "return_last_output"
          /\ NodeFinish(g, Returned(ManagerOutput))
       \/ /\ OnGuardError = "return_sentinel"
          /\ NodeFinish(g, Returned(Sentinel))
    /\ KeepAll

-----------------------------------------------------------------------------
NodeProceed(g) ==
    \/ NodeUnguarded(g)
    \/ \E c \in CallbackResults :
          NodeCallbackFails(g, c) \/ NodeNoTrigger(g, c) \/ NodeTriggered(g, c)
    \/ NodeHandleCap(g)
    \/ NodeInterrupts(g)
    \/ NodeConfirmed(g)
    \/ NodeDeclined(g)
    \/ NodeAuto(g)
    \/ NodeModelAnswers(g)
    \/ NodeEscalationFails(g)
    \/ NodeCancelled(g)
    \/ NodeFailOpen(g)

NodeResumes(g) == UserAnswers(g) \/ NodeEndsAgain(g)

\* The tasks and the rest of the application leave the nodes alone.
GuardSteps == Next /\ UNCHANGED node

GraphNext ==
    \/ GuardSteps
    \/ \E g \in Threads : NodeEndsFirst(g) \/ NodeProceed(g) \/ NodeResumes(g)

GraphSpec == GraphInit /\ [][GraphNext]_gvars

(***************************************************************************)
(* Code that has the loop runs on; a graph that was interrupted is resumed *)
(* with an answer and executes its node again.  That the agent, the user   *)
(* or the model of a guarded call ever answer is not needed.               *)
(***************************************************************************)
GraphFairness ==
    /\ \A t \in Tasks : WF_gvars(Proceed(t) /\ UNCHANGED node)
    /\ \A g \in Threads : WF_gvars(NodeProceed(g)) /\ SF_gvars(NodeResumes(g))

FairGraphSpec == GraphSpec /\ GraphFairness

-----------------------------------------------------------------------------
(***************************************************************************)
(* However long the graph was interrupted and whatever was escalated in    *)
(* between, a node never escalates beyond the cap: it is looked at again   *)
(* when the node is executed again (langgraph.py:131-137).                 *)
(***************************************************************************)
NodesKeepToCap ==
    [][ (running \in Threads) =>
          \A r \in Runs :
             states'[r].escalations # states[r].escalations
                => states'[r].escalations <= MaxEscalations ]_gvars

(***************************************************************************)
(* What a node escalates for holds of the history at that moment, and not  *)
(* of the one the user was asked about: other callers, a reset or the      *)
(* second execution of the node may have changed it (langgraph.py:122).    *)
(***************************************************************************)
NodeTriggerHolds ==
    \A g \in Threads :
        (node[g].phase = "package" /\ node[g].trigger # "custom")
            => Fires(node[g].trigger, states[cur].steps, "false")

(***************************************************************************)
(* A node that reports its step does not see errors of the guard: when the *)
(* log and the context that is packaged for the user do not fail and the   *)
(* mode is not raise_original, on_step_end raises only what the custom     *)
(* callback did, and the error of an escalation that the user approved,    *)
(* which is made outside the try block of escalate (langgraph.py:157-158,  *)
(* escalation.py:273-282).                                                 *)
(***************************************************************************)
NodesFailOpen ==
    (/\ ~ LogRaises
     /\ Interrupt => "context" \notin Faults
     /\ OnGuardError # "raise_original")
    => \A g \in Threads :
          node[g].result.how = "raised"
             => \/ node[g].result.value = "TriggerError"
                \/ Interrupt /\ node[g].answer = "y"

(***************************************************************************)
(* Every node comes back to its graph: an interrupt is answered once and   *)
(* does not ask again when the node is executed again (langgraph.py:150).  *)
(***************************************************************************)
EveryNodeEnds ==
    \A g \in Threads : node[g].phase # "idle" ~> node[g].phase = "idle"

(***************************************************************************)
(* "Runs all enabled triggers" (docs/integrations/langgraph.md, step 3 of  *)
(* on_step_end): a node is not given its own output back when the history  *)
(* it has just extended shows a trigger.                                   *)
(***************************************************************************)
OnStepEndDetects ==
    [][ \A g \in Threads :
          (Busy(g, "check") /\ node'[g].phase = "idle")
             => Check(states[cur].steps, "false") = None ]_gvars

=============================================================================
