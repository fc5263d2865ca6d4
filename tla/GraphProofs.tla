---------------------------- MODULE GraphProofs ----------------------------
(***************************************************************************)
(* Theorems about LangGraphHandler beside the guarded calls of its guard,  *)
(* for any callers, threads, faults and number of resets.                  *)
(***************************************************************************)
EXTENDS LangGraphHandler, GuardProofs

(***************************************************************************)
(* The type invariant of Guard leaves no room for a thread of the graph    *)
(* that holds the loop.  Everything else it says holds all the time.       *)
(***************************************************************************)
GuardTypes ==
    /\ states \in [Runs -> StateObject]
    /\ cur \in Runs
    /\ pending \in [tests  : TestInputs \cup {None},
                    schema : BOOLEAN \cup {None}]
    /\ cached \in [detector : BOOLEAN, manager : Runs \cup {NoRun}]
    /\ call \in [Tasks -> Call]
    /\ CachedManagerIsCurrent

NodePhases ==
    {"idle", "check", "escalate", "paused", "resumed", "package", "failopen"}

Node ==
    [phase   : NodePhases,
     output  : Outputs \cup {None},
     trigger : TriggerKinds \cup {None},
     answer  : {None, "y", "n"},
     result  : [how   : ResultKinds,
                value : ResultValues \cup {"ModelError"}]]

\* Phases of a thread that has found a trigger, and that is in on_step_end.
Handling == {"escalate", "package", "failopen"}

Inside == {"check"} \cup Handling

GraphTypes ==
    /\ GuardTypes
    /\ running \in Tasks \cup Threads \cup {None}
    /\ node \in [Threads -> Node]
    /\ \A g \in Threads : node[g].phase \in Inside => running = g

\* What on_step_end has found out stays true while it holds the loop.
FoundOut ==
    \A g \in Threads :
        /\ node[g].phase \in Handling =>
              /\ cached.manager = cur
              /\ node[g].trigger # "custom"
                    => Fires(node[g].trigger, states[cur].steps, "false")
        /\ node[g].phase = "package" => states[cur].escalations < MaxEscalations

\* Where a node's result can come from.
Reported ==
    \A g \in Threads :
        /\ node[g].phase # "idle" => node[g].result.how = "none"
        /\ (node[g].phase = "package" /\ Interrupt) => node[g].answer = "y"
        /\ node[g].phase = "failopen" => ~ Interrupt
        /\ node[g].result.how = "raised" =>
              \/ node[g].result.value = "TriggerError"
              \/ Interrupt /\ node[g].answer = "y"

GraphInv == GraphTypes /\ FoundOut

-----------------------------------------------------------------------------
\* Threads are neither tasks nor None.
LEMMA ThreadsApart == \A g \in Threads : g \notin Tasks /\ g # None
BY HandlerAssumption

LEMMA TypesMatch == TypeInv <=> GuardTypes /\ running \in Tasks \cup {None}
BY DEF TypeInv, TypeOK, GuardTypes

\* While a node is inside on_step_end nothing else of the guard moves.
LEMMA NodeHoldsLoop ==
    ASSUME NEW g \in Threads, running = g
    PROVE  ~ Next
<1>1. running # None /\ \A t \in Tasks : running # t
  BY ThreadsApart
<1>2. ASSUME NEW t \in Tasks PROVE ~ Resume(t) /\ ~ Proceed(t)
  BY <1>1, <1>2
  DEF Resume, FunctionReturns, FunctionRaises, Approved, Declined, PromptFails,
      ModelAnswers, ModelFails, Proceed, CallbackFails, NoTrigger, DetectOnly,
      Triggered, Capped, AskUser, SkipPrompt, Invoke, FailOpenLogFails,
      RaiseOriginal, ReturnFallback, Resolving, Escalating, Failing
<1> QED
  BY <1>1, <1>2 DEF Next, RecordTestResults, RecordSchemaValid, Reset, Begin,
                    AgentCodeRuns, Interrupted

\* A step of the guard leaves the nodes alone, none of which is inside.
LEMMA GuardKeepsGraph ==
    ASSUME GraphInv, GuardSteps
    PROVE  GraphInv' /\ (Reported => Reported') /\ running \notin Threads
<1>1. Next /\ UNCHANGED node
  BY DEF GuardSteps
<1>2. running \notin Threads
  BY <1>1, NodeHoldsLoop
<1>3. TypeInv
  BY <1>2, TypesMatch DEF GraphInv, GraphTypes
<1>4. TypeInv'
  BY <1>1, <1>3, TypeInvInductive
<1>5. GuardTypes' /\ running' \in Tasks \cup {None}
  BY <1>4 DEF TypeInv, TypeOK, GuardTypes
<1>6. \A g \in Threads : node[g].phase \notin Inside
  BY <1>2 DEF GraphInv, GraphTypes
<1>7. GraphTypes'
  BY <1>1, <1>5, <1>6 DEF GraphInv, GraphTypes
<1>8. FoundOut'
  BY <1>1, <1>6 DEF FoundOut, Inside, Handling
<1>9. Reported => Reported'
  BY <1>1 DEF Reported
<1> QED BY <1>2, <1>7, <1>8, <1>9 DEF GraphInv

-----------------------------------------------------------------------------
(***************************************************************************)
(* Steps of a node.  MovesTo(g, self): the thread g, which has the loop or *)
(* finds it free, is self after the step; every other thread stays as it   *)
(* is, and is not inside.                                                  *)
(***************************************************************************)
MovesTo(g, self) ==
    /\ running \in {None, g}
    /\ node' = [node EXCEPT ![g] = self]
    /\ running' = IF self.phase \in Inside THEN g ELSE None

LEMMA MoveKeepsTypes ==
    ASSUME GraphInv, NEW g \in Threads, NEW self \in Node, MovesTo(g, self),
           GuardTypes'
    PROVE  /\ GraphTypes'
           /\ node'[g] = self
           /\ \A h \in Threads \ {g} :
                 node'[h] = node[h] /\ node'[h].phase \notin Inside
<1>1. node'[g] = self /\ \A h \in Threads \ {g} : node'[h] = node[h]
  BY DEF MovesTo, GraphInv, GraphTypes
<1>2. \A h \in Threads \ {g} : node[h].phase \notin Inside
  BY ThreadsApart DEF MovesTo, GraphInv, GraphTypes
<1>3. node' \in [Threads -> Node]
  BY DEF MovesTo, GraphInv, GraphTypes
<1> QED BY <1>1, <1>2, <1>3 DEF GraphTypes, MovesTo

\* The thread's own part of the invariant is all that has to be looked at.
LEMMA MoveKeepsGraph ==
    ASSUME GraphInv, NEW g \in Threads, NEW self \in Node, MovesTo(g, self),
           GuardTypes',
           self.phase \in Handling =>
              /\ cached'.manager = cur'
              /\ self.trigger # "custom"
                    => Fires(self.trigger, states'[cur'].steps, "false"),
           self.phase = "package" => states'[cur'].escalations < MaxEscalations
    PROVE  GraphInv'
<1>1. /\ GraphTypes' /\ node'[g] = self
      /\ \A h \in Threads \ {g} : node'[h].phase \notin Inside
  BY MoveKeepsTypes
<1>2. ASSUME NEW h \in Threads
      PROVE  /\ node'[h].phase \in Handling =>
                   /\ cached'.manager = cur'
                   /\ node'[h].trigger # "custom"
                         => Fires(node'[h].trigger, states'[cur'].steps, "false")
             /\ node'[h].phase = "package"
                   => states'[cur'].escalations < MaxEscalations
  <2>1. CASE h = g
    BY <1>1, <2>1
  <2>2. CASE h # g
    BY <1>1, <2>2 DEF Inside, Handling
  <2> QED BY <2>1, <2>2
<1>3. FoundOut'
  BY <1>2 DEF FoundOut, Fires
<1> QED BY <1>1, <1>3 DEF GraphInv

-----------------------------------------------------------------------------
LEMMA KeepAllKeepsTypes ==
    ASSUME GraphInv, KeepAll
    PROVE  GuardTypes' /\ UNCHANGED <<states, cur, cached>>
BY DEF GraphInv, GraphTypes, GuardTypes, CachedManagerIsCurrent, KeepAll,
       KeepState

\* Results of a node.
NodeResult == [how : ResultKinds, value : ResultValues \cup {"ModelError"}]

LEMMA FinishKeepsGraph ==
    ASSUME GraphInv, NEW g \in Threads, running = g, NEW r \in NodeResult,
           NodeFinish(g, r), GuardTypes'
    PROVE  GraphInv'
<1> DEFINE self == [node[g] EXCEPT !.phase = "idle", !.output = None,
                                   !.trigger = None, !.result = r]
<1>1. self \in Node /\ self.phase = "idle"
  <2>1. node[g] \in Node
    BY DEF GraphInv, GraphTypes
  <2> QED BY <2>1 DEF Node, NodePhases, NodeResult
<1>2. MovesTo(g, self)
  BY <1>1 DEF NodeFinish, MovesTo, Inside, Handling
<1> HIDE DEF self
<1> QED BY <1>1, <1>2, MoveKeepsGraph DEF Handling

LEMMA GotoKeepsGraph ==
    ASSUME GraphInv, NEW g \in Threads, running = g, NEW p \in Inside,
           NodeGoto(g, p), GuardTypes', UNCHANGED <<states, cur, cached>>,
           p # "check" => /\ node[g].phase \in Handling
                          /\ p = "package" =>
                                states[cur].escalations < MaxEscalations
    PROVE  GraphInv'
<1> DEFINE self == [node[g] EXCEPT !.phase = p]
<1>1. /\ self \in Node /\ self.phase = p
      /\ self.trigger = node[g].trigger
  <2>1. node[g] \in Node
    BY DEF GraphInv, GraphTypes
  <2> QED BY <2>1 DEF Node, NodePhases, Inside, Handling
<1>2. MovesTo(g, self)
  BY <1>1 DEF NodeGoto, MovesTo, Inside, Handling
<1>3. p \in Handling =>
         /\ cached.manager = cur
         /\ node[g].trigger # "custom"
               => Fires(node[g].trigger, states[cur].steps, "false")
  BY DEF GraphInv, FoundOut, Handling
<1> HIDE DEF self
<1>4. states'[cur'].steps = states[cur].steps /\ cached'.manager = cached.manager
      /\ cur' = cur /\ states'[cur'].escalations = states[cur].escalations
  OBVIOUS
<1>5. p = "package" => states'[cur'].escalations < MaxEscalations
  BY <1>4
<1>6. p \in Handling =>
         /\ cached'.manager = cur'
         /\ self.trigger # "custom"
               => Fires(self.trigger, states'[cur'].steps, "false")
  BY <1>1, <1>3, <1>4
<1> QED BY <1>1, <1>2, <1>5, <1>6, MoveKeepsGraph

\* The values a node is given back.
LEMMA NodeResults ==
    ASSUME GraphInv, NEW g \in Threads
    PROVE  /\ \A v \in Outputs \cup {None, Advice, Sentinel} :
                 Returned(v) \in NodeResult
           /\ \A e \in Errors \cup {"ModelError"} : Raised(e) \in NodeResult
           /\ Cancelled \in NodeResult
           /\ node[g].output \in Outputs \cup {None}
<1>1. node[g] \in Node
  BY DEF GraphInv, GraphTypes
<1> QED
  BY <1>1 DEF Node, NodeResult, Returned, Raised, Cancelled, ResultKinds,
              ResultValues

\* A node reports its step.
LEMMA NodeEndKeepsGraph ==
    ASSUME GraphInv, NEW g \in Threads, node[g].phase \in {"idle", "resumed"},
           NEW o \in Outputs \cup {None}, NEW e \in Errors \cup {None},
           NodeEnds(g, o, e)
    PROVE  GraphInv'
<1> DEFINE self == [Executed(g) EXCEPT !.output = o]
           record == [NewStep(o, e) EXCEPT !.num = 0]
<1>1. node[g] \in Node
  BY DEF GraphInv, GraphTypes
<1>2. self \in Node /\ self.phase = "check"
  BY <1>1 DEF Executed, FreshNode, NoResult, Node, NodePhases, ResultKinds,
              ResultValues
<1>3. MovesTo(g, self)
  BY <1>2 DEF NodeEnds, MovesTo, Inside, Handling
<1>4. GuardTypes'
  <2>1. states[cur] \in StateObject /\ cur \in Runs
    BY DEF GraphInv, GraphTypes, GuardTypes
  <2>2. record \in StepRecord
    BY DEF NewStep, StepRecord, GraphInv, GraphTypes, GuardTypes
  <2>3. AddStep(states[cur].steps, record) \in Seq(StepRecord)
    BY <2>1, <2>2, AddStepType DEF StateObject
  <2>4. states' \in [Runs -> StateObject]
    BY <2>1, <2>3
    DEF NodeEnds, GraphInv, GraphTypes, GuardTypes, StateObject
  <2> QED
    BY <2>4 DEF NodeEnds, NoPending, GraphInv, GraphTypes, GuardTypes,
                CachedManagerIsCurrent
<1> HIDE DEF self
<1> QED BY <1>2, <1>3, <1>4, MoveKeepsGraph DEF Handling

\* Only the custom trigger looks at what the callback says.
LEMMA OnlyCustomCalls ==
    ASSUME NEW kind \in TriggerKinds, NEW s, NEW c, Fires(kind, s, c),
           kind # "custom"
    PROVE  Fires(kind, s, "false")
BY DEF Fires, TriggerKinds

\* What a node is given back for want of an answer.
LEMMA NodeLastOutput ==
    ASSUME GraphInv, cached.manager = cur
    PROVE  /\ ManagerOutput \in Outputs \cup {None}
           /\ NodeOriginalError \in Errors
<1>1. cur \in Runs
  BY DEF GraphInv, GraphTypes, GuardTypes
<1>2. states[cached.manager].steps \in Seq(StepRecord)
  BY <1>1 DEF GraphInv, GraphTypes, GuardTypes, StateObject
<1> QED
  BY <1>2, LastStepType, GuardAssumption
  DEF ManagerOutput, NodeOriginalError, GuardErrors

\* The model answers: one escalation more, below the cap before.
LEMMA AnswerKeepsTypes ==
    ASSUME GraphInv, NEW g \in Threads, Busy(g, "package"),
           NodeModelAnswers(g)
    PROVE  /\ GuardTypes'
           /\ UNCHANGED <<cur, cached>>
           /\ states'[cur].steps = states[cur].steps
           /\ \A r \in Runs :
                 states'[r].escalations # states[r].escalations
                    => states'[r].escalations <= MaxEscalations
<1>1. node[g].phase = "package"
  BY DEF Busy
<1>2. cached.manager = cur /\ states[cur].escalations < MaxEscalations
  BY <1>1 DEF GraphInv, FoundOut, Handling
<1>3. /\ states \in [Runs -> StateObject] /\ cur \in Runs
      /\ states[cur].escalations \in Nat
  BY DEF GraphInv, GraphTypes, GuardTypes, StateObject
<1>4. states' = [states EXCEPT ![cur].escalations = @ + 1]
  BY <1>2 DEF NodeModelAnswers
<1>5. states' \in [Runs -> StateObject]
  <2>1. [states[cur] EXCEPT !.escalations = @ + 1] \in StateObject
    BY <1>3 DEF StateObject
  <2> QED BY <1>3, <1>4, <2>1
<1>6. states'[cur].escalations = states[cur].escalations + 1
  BY <1>3, <1>4 DEF StateObject
<1>7. \A r \in Runs \ {cur} : states'[r] = states[r]
  BY <1>3, <1>4
<1>8. states[cur].escalations + 1 <= MaxEscalations
  BY <1>2, <1>3, GuardAssumption
<1>9. states'[cur].steps = states[cur].steps
  BY <1>3, <1>4 DEF StateObject
<1> QED
  BY <1>5, <1>6, <1>7, <1>8, <1>9
  DEF NodeModelAnswers, GraphInv, GraphTypes, GuardTypes, CachedManagerIsCurrent

\* Everything a node does when it has the loop.
LEMMA NodeKeepsGraph ==
    ASSUME GraphInv, NEW g \in Threads, NodeProceed(g)
    PROVE  GraphInv'
<1>1. running = g
  BY DEF NodeProceed, NodeUnguarded, NodeCallbackFails, NodeNoTrigger,
         NodeTriggered, NodeHandleCap, NodeInterrupts, NodeConfirmed,
         NodeDeclined, NodeAuto, NodeModelAnswers, NodeEscalationFails,
         NodeCancelled, NodeFailOpen, Busy
<1>2. ASSUME KeepAll, NEW r \in NodeResult, NodeFinish(g, r) PROVE GraphInv'
  BY <1>1, <1>2, KeepAllKeepsTypes, FinishKeepsGraph
<1>3. ASSUME NEW e \in Errors, KeepAll, NodeFinish(g, Raised(e))
      PROVE  GraphInv'
  BY <1>2, <1>3, NodeResults
<1>4. ASSUME KeepAll, NEW e, e \in Errors \cup {"ModelError"}, NodeFails(g, e),
             Busy(g, "package")
      PROVE  GraphInv'
  <2>1. CASE Interrupt
    BY <1>2, <1>4, <2>1, NodeResults DEF NodeFails
  <2>2. CASE ~ Interrupt
    <3>1. node[g].phase \in Handling /\ "failopen" \in Inside
      BY <1>4 DEF Busy, Handling, Inside
    <3> QED
      BY <1>1, <1>4, <2>2, <3>1, KeepAllKeepsTypes, GotoKeepsGraph DEF NodeFails
  <2> QED BY <2>1, <2>2
<1>5. /\ "HookError" \in Errors /\ "ContextError" \in Errors
      /\ "TriggerError" \in Errors
  BY GuardAssumption DEF GuardErrors
<1>6. CASE NodeUnguarded(g)
  BY <1>2, <1>6, NodeResults DEF NodeUnguarded
<1>7. ASSUME NEW c, NodeCallbackFails(g, c) \/ NodeNoTrigger(g, c)
      PROVE  GraphInv'
  BY <1>2, <1>5, <1>7, NodeResults DEF NodeCallbackFails, NodeNoTrigger
<1>8. ASSUME NEW c, NodeTriggered(g, c) PROVE GraphInv'
  <2> DEFINE self == [node[g] EXCEPT !.phase = "escalate",
                                     !.trigger = Verdict(c)]
  <2>1. node[g] \in Node
    BY DEF GraphInv, GraphTypes
  <2>2. Verdict(c) \in TriggerKinds /\ Fires(Verdict(c), states[cur].steps, c)
    BY <1>8, CheckType DEF NodeTriggered, Verdict
  <2>3. /\ self \in Node /\ self.phase = "escalate" /\ self.trigger = Verdict(c)
        /\ MovesTo(g, self)
    BY <1>1, <1>8, <2>1, <2>2
    DEF Node, NodePhases, NodeTriggered, MovesTo, Inside, Handling
  <2>4. cached.manager = cur
    BY <1>8 DEF NodeTriggered, Unready, GraphInv, GraphTypes, GuardTypes,
                CachedManagerIsCurrent
  <2>5. Verdict(c) # "custom"
           => Fires(Verdict(c), states[cur].steps, "false")
    BY <2>2, OnlyCustomCalls
  <2>6. GuardTypes' /\ UNCHANGED <<states, cur, cached>>
    BY <1>8, KeepAllKeepsTypes DEF NodeTriggered
  <2> HIDE DEF self
  <2>7. self.phase \in Handling =>
           /\ cached'.manager = cur'
           /\ self.trigger # "custom"
                 => Fires(self.trigger, states'[cur'].steps, "false")
    BY <2>3, <2>4, <2>5, <2>6
  <2> QED BY <2>3, <2>6, <2>7, MoveKeepsGraph
<1>9. ASSUME node[g].phase \in Handling
      PROVE  ManagerOutput \in Outputs \cup {None} /\ NodeOriginalError \in Errors
  <2>1. cached.manager = cur
    BY <1>9 DEF GraphInv, FoundOut
  <2> QED BY <2>1, NodeLastOutput
<1>10. CASE NodeHandleCap(g)
  <2>1. ManagerOutput \in Outputs \cup {None}
    BY <1>9, <1>10 DEF NodeHandleCap, Busy, Handling
  <2> QED
    BY <1>2, <1>3, <1>5, <1>10, <2>1, NodeResults DEF NodeHandleCap, NodeLogRaises
<1>11. CASE NodeInterrupts(g)
  <2> DEFINE self == [node[g] EXCEPT !.phase = "paused"]
  <2>1. CASE running' = None /\ node' = [node EXCEPT ![g].phase = "paused"]
    <3>1. node[g] \in Node
      BY DEF GraphInv, GraphTypes
    <3>2. self \in Node /\ self.phase = "paused" /\ MovesTo(g, self)
      BY <1>1, <2>1, <3>1 DEF Node, NodePhases, MovesTo, Inside, Handling
    <3>3. GuardTypes'
      BY <1>11, KeepAllKeepsTypes DEF NodeInterrupts
    <3> HIDE DEF self
    <3> QED BY <3>2, <3>3, MoveKeepsGraph DEF Handling
  <2> QED BY <1>3, <1>5, <1>11, <2>1 DEF NodeInterrupts
<1>12. CASE NodeConfirmed(g) \/ NodeAuto(g)
  <2>1. /\ NodeGoto(g, "package") /\ KeepAll
        /\ node[g].phase \in Handling /\ "package" \in Inside
        /\ ~ NodeCapped(g)
    BY <1>12 DEF NodeConfirmed, NodeAuto, Busy, Handling, Inside
  <2>2. states[cur].escalations < MaxEscalations
    BY <2>1, GuardAssumption
    DEF NodeCapped, GraphInv, GraphTypes, GuardTypes, StateObject
  <2> QED BY <1>1, <2>1, <2>2, KeepAllKeepsTypes, GotoKeepsGraph
<1>13. CASE NodeDeclined(g)
  BY <1>2, <1>13, NodeResults DEF NodeDeclined
<1>14. CASE NodeModelAnswers(g)
  <2>1. /\ GuardTypes' /\ UNCHANGED <<cur, cached>>
        /\ states'[cur].steps = states[cur].steps /\ Busy(g, "package")
    BY <1>14, AnswerKeepsTypes DEF NodeModelAnswers
  <2>2. ASSUME NEW r \in NodeResult, NodeFinish(g, r) PROVE GraphInv'
    BY <1>1, <2>1, <2>2, FinishKeepsGraph
  <2>3. CASE NodeFinish(g, Returned(Advice))
    BY <2>2, <2>3, NodeResults
  <2>4. CASE NodeFinish(g, Raised("HookError"))
    BY <1>5, <2>2, <2>4, NodeResults
  <2>5. CASE NodeGoto(g, "failopen")
    <3> DEFINE self == [node[g] EXCEPT !.phase = "failopen"]
    <3>1. node[g] \in Node
      BY DEF GraphInv, GraphTypes
    <3>2. /\ self \in Node /\ self.phase = "failopen"
          /\ self.trigger = node[g].trigger /\ MovesTo(g, self)
      BY <1>1, <2>5, <3>1
      DEF Node, NodePhases, NodeGoto, MovesTo, Inside, Handling
    <3>3. /\ cached.manager = cur
          /\ node[g].trigger # "custom"
                => Fires(node[g].trigger, states[cur].steps, "false")
      BY <2>1 DEF GraphInv, FoundOut, Busy, Handling
    <3> HIDE DEF self
    <3>4. /\ cached'.manager = cur'
          /\ self.trigger # "custom"
                => Fires(self.trigger, states'[cur'].steps, "false")
      BY <2>1, <3>2, <3>3
    <3> QED BY <2>1, <3>2, <3>4, MoveKeepsGraph
  <2> QED BY <1>14, <2>3, <2>4, <2>5 DEF NodeModelAnswers, NodeFails
<1>15. CASE NodeEscalationFails(g)
  BY <1>4, <1>5, <1>15 DEF NodeEscalationFails
<1>16. CASE NodeCancelled(g)
  BY <1>2, <1>16, NodeResults DEF NodeCancelled
<1>17. CASE NodeFailOpen(g)
  <2>1. ManagerOutput \in Outputs \cup {None} /\ NodeOriginalError \in Errors
    BY <1>9, <1>17 DEF NodeFailOpen, Busy, Handling
  <2> QED
    BY <1>2, <1>3, <1>5, <1>17, <2>1, NodeResults DEF NodeFailOpen, NodeLogRaises
<1> QED
  BY <1>6, <1>7, <1>8, <1>10, <1>11, <1>12, <1>13, <1>14, <1>15, <1>16, <1>17
  DEF NodeProceed

-----------------------------------------------------------------------------
LEMMA GraphStep == GraphInv /\ [GraphNext]_gvars => GraphInv'
<1> SUFFICES ASSUME GraphInv, [GraphNext]_gvars PROVE GraphInv'
  OBVIOUS
<1>1. CASE GuardSteps
  BY <1>1, GuardKeepsGraph
<1>2. ASSUME NEW g \in Threads, NEW r \in NodeReports,
             NodeEnds(g, r[1], r[2]), node[g].phase \in {"idle", "resumed"}
      PROVE  GraphInv'
  <2>1. r[1] \in Outputs \cup {None} /\ r[2] \in Errors \cup {None}
    BY <1>2, HandlerAssumption DEF AgentErrors
  <2> QED BY <1>2, <2>1, NodeEndKeepsGraph
<1>3. ASSUME NEW g \in Threads, UserAnswers(g) PROVE GraphInv'
  <2>1. PICK a \in {"y", "n"} :
           node' = [node EXCEPT ![g].phase = "resumed", ![g].answer = a]
    BY <1>3 DEF UserAnswers
  <2> DEFINE self == [node[g] EXCEPT !.phase = "resumed", !.answer = a]
  <2>2. node[g] \in Node
    BY DEF GraphInv, GraphTypes
  <2>3. self \in Node /\ self.phase = "resumed"
    BY <2>2 DEF Node, NodePhases
  <2>4. node' = [node EXCEPT ![g] = self]
    BY <2>1 DEF GraphInv, GraphTypes
  <2>5. MovesTo(g, self)
    BY <1>3, <2>3, <2>4 DEF UserAnswers, MovesTo, Inside, Handling
  <2>6. GuardTypes'
    BY <1>3, KeepAllKeepsTypes DEF UserAnswers
  <2> HIDE DEF self
  <2> QED BY <2>3, <2>5, <2>6, MoveKeepsGraph DEF Handling
<1>4. CASE UNCHANGED gvars
  BY <1>4 DEF gvars, vars, GraphInv, GraphTypes, GuardTypes, FoundOut,
              CachedManagerIsCurrent
<1> QED
  BY <1>1, <1>2, <1>3, <1>4, NodeKeepsGraph
  DEF GraphNext, NodeEndsFirst, NodeEndsAgain, NodeResumes

LEMMA GraphInitial == GraphInit => GraphInv
<1> SUFFICES ASSUME GraphInit PROVE GraphInv
  OBVIOUS
<1>1. GuardTypes /\ running = None
  BY TypeInvInitial, TypesMatch DEF GraphInit, Init
<1>2. FreshNode \in Node /\ FreshNode.phase = "idle"
  BY DEF FreshNode, NoResult, Node, NodePhases, ResultKinds, ResultValues
<1> QED
  BY <1>1, <1>2
  DEF GraphInit, GraphInv, GraphTypes, FoundOut, Inside, Handling

\* The invariant holds for ever.
THEOREM GraphCorrect == GraphSpec => []GraphInv
BY GraphInitial, GraphStep, PTL DEF GraphSpec

(***************************************************************************)
(* A node never escalates beyond the cap, however many callers the guard   *)
(* has and whatever happened while the graph was interrupted.              *)
(***************************************************************************)
THEOREM NoNodeExceedsCap == GraphSpec => NodesKeepToCap
<1> DEFINE A == running \in Threads =>
                   \A r \in Runs :
                      states'[r].escalations # states[r].escalations
                         => states'[r].escalations <= MaxEscalations
<1>1. GraphInv /\ [GraphNext]_gvars => A
  <2> SUFFICES ASSUME GraphInv, [GraphNext]_gvars, running \in Threads,
                      states' # states
               PROVE  \A r \in Runs :
                         states'[r].escalations # states[r].escalations
                            => states'[r].escalations <= MaxEscalations
    OBVIOUS
  <2>1. running # None
    BY ThreadsApart
  <2>2. ~ GuardSteps /\ \A g \in Threads : ~ NodeEndsFirst(g) /\ ~ NodeResumes(g)
    BY <2>1, GuardKeepsGraph
    DEF NodeEndsFirst, NodeResumes, NodeEndsAgain, NodeEnds, UserAnswers
  <2>3. PICK g \in Threads : NodeProceed(g)
    BY <2>2 DEF GraphNext, gvars, vars
  <2>4. NodeModelAnswers(g)
    BY <2>3
    DEF NodeProceed, NodeUnguarded, NodeCallbackFails, NodeNoTrigger,
        NodeTriggered, NodeHandleCap, NodeInterrupts, NodeConfirmed,
        NodeDeclined, NodeAuto, NodeEscalationFails, NodeCancelled,
        NodeFailOpen, KeepAll, KeepState
  <2> QED BY <2>4, AnswerKeepsTypes DEF NodeModelAnswers
<1>2. GraphInv /\ [GraphNext]_gvars => [A]_gvars
  BY <1>1
<1> QED BY <1>2, GraphCorrect, PTL DEF GraphSpec, NodesKeepToCap

(***************************************************************************)
(* What a node escalates for holds of the history at that moment.          *)
(***************************************************************************)
THEOREM TriggerHoldsForNode == GraphSpec => []NodeTriggerHolds
<1>1. GraphInv => NodeTriggerHolds
  BY DEF GraphInv, FoundOut, NodeTriggerHolds, Handling
<1> QED BY <1>1, GraphCorrect, PTL

-----------------------------------------------------------------------------
(***************************************************************************)
(* Fail-open of the nodes.                                                 *)
(***************************************************************************)
PromisedToFailOpen ==
    /\ ~ LogRaises
    /\ Interrupt => "context" \notin Faults
    /\ OnGuardError # "raise_original"

Blameless(self) ==
    /\ self.phase # "idle" => self.result.how = "none"
    /\ (self.phase = "package" /\ Interrupt) => self.answer = "y"
    /\ self.phase = "failopen" => ~ Interrupt
    /\ self.result.how = "raised" =>
          \/ self.result.value = "TriggerError"
          \/ Interrupt /\ self.answer = "y"

LEMMA ReportedStep ==
    PromisedToFailOpen =>
       (GraphInv /\ Reported /\ [GraphNext]_gvars => Reported')
<1> SUFFICES ASSUME PromisedToFailOpen, GraphInv, Reported, [GraphNext]_gvars
             PROVE  Reported'
  OBVIOUS
<1>1. \A g \in Threads : node[g] \in Node /\ Blameless(node[g])
  BY DEF Reported, Blameless, GraphInv, GraphTypes
<1>2. ASSUME NEW g \in Threads, NEW self, Blameless(self),
             node' = [node EXCEPT ![g] = self]
      PROVE  Reported'
  <2>1. \A h \in Threads : Blameless(node'[h])
    BY <1>1, <1>2 DEF GraphInv, GraphTypes
  <2> QED BY <2>1 DEF Reported, Blameless
<1>3. ASSUME NEW g \in Threads, NEW r, r.how # "raised", NodeFinish(g, r)
      PROVE  Reported'
  <2> DEFINE self == [node[g] EXCEPT !.phase = "idle", !.output = None,
                                     !.trigger = None, !.result = r]
  <2>1. Blameless(self)
    BY <1>1, <1>3 DEF Blameless, Node
  <2>2. node' = [node EXCEPT ![g] = self]
    BY <1>3 DEF NodeFinish
  <2> QED BY <1>2, <2>1, <2>2
<1>4. ASSUME NEW g \in Threads, NEW e, NodeFinish(g, Raised(e)),
             e = "TriggerError" \/ (Interrupt /\ node[g].answer = "y")
      PROVE  Reported'
  <2> DEFINE self == [node[g] EXCEPT !.phase = "idle", !.output = None,
                                     !.trigger = None, !.result = Raised(e)]
  <2>1. Blameless(self)
    BY <1>1, <1>4 DEF Blameless, Node, Raised
  <2>2. node' = [node EXCEPT ![g] = self]
    BY <1>4 DEF NodeFinish
  <2> QED BY <1>2, <2>1, <2>2
<1>5. ASSUME NEW g \in Threads, NEW p \in NodePhases \ {"idle"},
             node[g].phase # "idle",
             p = "package" /\ Interrupt => node[g].answer = "y",
             p = "failopen" => ~ Interrupt,
             node' = [node EXCEPT ![g].phase = p]
      PROVE  Reported'
  <2> DEFINE self == [node[g] EXCEPT !.phase = p]
  <2>1. Blameless(self)
    BY <1>1, <1>5 DEF Blameless, Node
  <2>2. node' = [node EXCEPT ![g] = self]
    BY <1>5 DEF GraphInv, GraphTypes
  <2> QED BY <1>2, <2>1, <2>2
<1>6. CASE GuardSteps
  BY <1>6, GuardKeepsGraph
<1>7. CASE UNCHANGED gvars
  BY <1>7 DEF gvars, Reported
<1>8. ASSUME NEW g \in Threads, NodeEndsFirst(g) \/ NodeEndsAgain(g)
      PROVE  Reported'
  <2>1. PICK o : node' = [node EXCEPT ![g] = [Executed(g) EXCEPT !.output = o]]
    BY <1>8 DEF NodeEndsFirst, NodeEndsAgain, NodeEnds
  <2>2. Blameless([Executed(g) EXCEPT !.output = o])
    BY DEF Blameless, Executed, FreshNode, NoResult
  <2> QED BY <1>2, <2>1, <2>2
<1>9. ASSUME NEW g \in Threads, UserAnswers(g) PROVE Reported'
  <2>1. PICK a \in {"y", "n"} :
           node' = [node EXCEPT ![g].phase = "resumed", ![g].answer = a]
    BY <1>9 DEF UserAnswers
  <2> DEFINE self == [node[g] EXCEPT !.phase = "resumed", !.answer = a]
  <2>2. Blameless(self)
    BY <1>1, <1>9 DEF Blameless, Node, UserAnswers
  <2>3. node' = [node EXCEPT ![g] = self]
    BY <2>1 DEF GraphInv, GraphTypes
  <2> QED BY <1>2, <2>2, <2>3
<1>10. ASSUME NEW g \in Threads, NodeProceed(g) PROVE Reported'
  <2>1. ASSUME NEW e, NodeFails(g, e), Busy(g, "package") PROVE Reported'
    BY <1>1, <1>4, <1>5, <2>1
    DEF NodeFails, NodeGoto, Busy, Blameless, NodePhases
  <2>2. ASSUME NEW v, NodeFinish(g, Returned(v)) PROVE Reported'
    BY <1>3, <2>2 DEF Returned
  <2>3. ASSUME NEW c, \/ NodeCallbackFails(g, c) \/ NodeNoTrigger(g, c)
        PROVE  Reported'
    BY <1>4, <2>2, <2>3 DEF NodeCallbackFails, NodeNoTrigger
  <2>4. ASSUME NEW c, NodeTriggered(g, c) PROVE Reported'
    <3> DEFINE self == [node[g] EXCEPT !.phase = "escalate",
                                       !.trigger = Verdict(c)]
    <3>1. Blameless(self)
      BY <1>1, <2>4 DEF Blameless, Node, NodeTriggered, Busy
    <3>2. node' = [node EXCEPT ![g] = self]
      BY <2>4 DEF NodeTriggered, GraphInv, GraphTypes
    <3> QED BY <1>2, <3>1, <3>2
  <2>5. CASE NodeInterrupts(g)
    BY <1>5, <2>5 DEF NodeInterrupts, PromisedToFailOpen, Busy, NodePhases
  <2>6. CASE NodeConfirmed(g) \/ NodeAuto(g)
    BY <1>5, <2>6
    DEF NodeConfirmed, NodeAuto, Confirmed, NodeGoto, Busy, NodePhases
  <2>7. CASE NodeModelAnswers(g) \/ NodeEscalationFails(g)
    BY <2>1, <2>2, <2>7
    DEF NodeModelAnswers, NodeEscalationFails, PromisedToFailOpen
  <2>8. CASE NodeCancelled(g)
    BY <1>3, <2>8 DEF NodeCancelled, Cancelled
  <2>9. CASE \/ NodeUnguarded(g) \/ NodeHandleCap(g) \/ NodeDeclined(g)
             \/ NodeFailOpen(g)
    BY <2>2, <2>9
    DEF NodeUnguarded, NodeHandleCap, NodeDeclined, NodeFailOpen,
        NodeLogRaises, PromisedToFailOpen
  <2> QED
    BY <1>10, <2>3, <2>4, <2>5, <2>6, <2>7, <2>8, <2>9 DEF NodeProceed
<1> QED
  BY <1>6, <1>7, <1>8, <1>9, <1>10 DEF GraphNext, NodeResumes

(***************************************************************************)
(* Where the configuration promises it, on_step_end raises only what the   *)
(* custom callback did and the error of an escalation the user approved.   *)
(***************************************************************************)
THEOREM GraphFailsOpen == GraphSpec => []NodesFailOpen
<1>1. CASE PromisedToFailOpen
  <2>1. GraphInit => Reported
    BY DEF GraphInit, FreshNode, NoResult, Reported
  <2>2. GraphInv /\ Reported /\ [GraphNext]_gvars => Reported'
    BY <1>1, ReportedStep
  <2>3. Reported => NodesFailOpen
    BY DEF Reported, NodesFailOpen
  <2> QED BY <2>1, <2>2, <2>3, GraphCorrect, PTL DEF GraphSpec
<1>2. CASE ~ PromisedToFailOpen
  <2>1. NodesFailOpen
    BY <1>2 DEF NodesFailOpen, PromisedToFailOpen
  <2> QED BY <2>1, PTL
<1> QED BY <1>1, <1>2

=============================================================================
