--------------------------- MODULE CrewAIWrapper ---------------------------
(***************************************************************************)
(* integrations/crewai.py: one guard, one GuardState per agent role, and   *)
(* an escalation manager whose state is exchanged for that of the agent    *)
(* while it escalates.                                                     *)
(*                                                                         *)
(* A crew runs its agents one at a time, but steps nest: an agent          *)
(* delegates to a coworker from inside its own step, and the user prompt   *)
(* or the escalation model may be code that runs agents as well.  So the   *)
(* wrapped steps that are in progress form a stack, and only its top moves.*)
(***************************************************************************)
EXTENDS FailureDetector

CONSTANTS
    Agents,           \* roles of the crew's agents
    OutputsOf,        \* role -> what its execute_task returns
    MaxDepth,         \* bound: wrapped steps that are in progress at once
    MaxRuns,          \* bound: number of resets of the guard, plus one
    MaxEscalations,   \* config.max_escalations_per_run
    HasModel,         \* config.escalation_model is not None
    Interrupt,        \* config.on_escalate = "interrupt"
    OnGuardError,     \* config.on_guard_error
    SchemaInputs,     \* what record_schema_valid is called with
    CallbackResults,  \* what the custom trigger's callback does when called
    Faults,           \* what can go wrong outside the agents
    Advice,           \* the content of a response of the escalation model
    Sentinel          \* config.sentinel_value

GuardErrors ==
    {"EscalationError", "TriggerError", "HookError", "ContextError",
     "PromptError"}

AgentErrors == Errors \ GuardErrors

Runs == 1 .. MaxRuns
NoRun == 0
Levels == 1 .. MaxDepth

ASSUME CrewAssumption ==
    /\ MaxDepth \in Nat \ {0} /\ MaxRuns \in Nat \ {0}
    /\ MaxEscalations \in Nat \ {0}
    /\ Agents \cap (Runs \cup {NoRun, None}) = {}
    /\ OutputsOf \in [Agents -> SUBSET Outputs]
    /\ HasModel \in BOOLEAN /\ Interrupt \in BOOLEAN
    /\ OnGuardError \in {"raise_original", "return_last_output",
                         "return_sentinel"}
    /\ GuardErrors \subseteq Errors
    /\ Outputs \cap (Errors \cup {None, Advice, Sentinel}) = {}
    /\ None \notin StateObject
    /\ SchemaInputs \subseteq BOOLEAN
    /\ CallbackResults \subseteq CallbackVerdicts
    /\ Faults \subseteq {"model", "context", "template", "prompt", "hook",
                         "cancel"}

VARIABLES
    states,    \* the GuardState objects: of each run of the guard, of each
               \* agent, the latter None until the agent first executes
    cur,       \* the run guard._state belongs to
    pending,   \* guard._pending_test_results, guard._pending_schema_valid
    cached,    \* the run guard._escalation_mgr was made for, or NoRun
    target,    \* run -> whose state its manager's _state is
    depth,     \* number of wrapped steps in progress
    frames,    \* level -> the wrapped step at that level of the stack
    outcome    \* how the latest wrapped step came out, if it ended

vars == <<states, cur, pending, cached, target, depth, frames, outcome>>

Owners == Runs \cup Agents

Outcome ==
    [agent : Agents \cup {None},
     how   : {"none", "returned", "raised", "cancelled"},
     value : Outputs \cup Errors \cup {None, Advice, Sentinel}]

Frame ==
    [phase   : {"none", "body", "resolve", "escalate", "prompt", "package",
                "invoke", "failopen"},
     agent   : Agents \cup {None},
     manager : Runs \cup {NoRun},
     saved   : Owners \cup {None},          \* original_state
     output  : Outputs \cup {None},
     error   : Errors \cup {None}]

NoFrame ==
    [phase |-> "none", agent |-> None, manager |-> NoRun, saved |-> None,
     output |-> None, error |-> None]

NoOutcome == [agent |-> None, how |-> "none", value |-> None]

NoPending == [tests |-> None, schema |-> None]

Init ==
    /\ states = [o \in Owners |-> IF o \in Runs THEN NewState ELSE None]
    /\ cur = 1
    /\ pending = NoPending
    /\ cached = NoRun
    /\ target = [r \in Runs |-> r]
    /\ depth = 0
    /\ frames = [l \in Levels |-> NoFrame]
    /\ outcome = NoOutcome

top == frames[depth]

\* Code of the application runs: no step is in progress, or the innermost
\* one is inside execute_task, the user prompt or the escalation model.
ApplicationRuns == depth > 0 => top.phase \in {"body", "prompt", "invoke"}

In(phase) == depth > 0 /\ top.phase = phase

\* Phases in which the manager works on the agent's state.
Swapped(f) == f.phase \in {"escalate", "prompt", "package", "invoke", "failopen"}

-----------------------------------------------------------------------------
(***************************************************************************)
(* The guard's own methods.                                                *)
(***************************************************************************)

\* Each run of the tests is a value of its own.
Fresh(r) ==
    /\ pending.tests # r
    /\ \A o \in Owners : states[o] # None =>
          \A i \in DOMAIN states[o].steps : states[o].steps[i].tests # r

RecordTestResults(r) ==
    /\ ApplicationRuns /\ Fresh(r)
    /\ pending' = [pending EXCEPT !.tests = r]
    /\ states' = [states EXCEPT ![cur].steps = PatchTests(@, r)]
    /\ UNCHANGED <<cur, cached, target, depth, frames, outcome>>

RecordSchemaValid(v) ==
    /\ ApplicationRuns
    /\ pending' = [pending EXCEPT !.schema = v]
    /\ states' = [states EXCEPT ![cur].steps = PatchSchema(@, v)]
    /\ UNCHANGED <<cur, cached, target, depth, frames, outcome>>

\* reset() knows nothing of the wrapper's agents.
Reset ==
    /\ ApplicationRuns /\ cur < MaxRuns
    /\ cur' = cur + 1
    /\ states' = [states EXCEPT ![cur + 1] = NewState]
    /\ pending' = NoPending
    /\ cached' = NoRun
    /\ UNCHANGED <<target, depth, frames, outcome>>

-----------------------------------------------------------------------------
(***************************************************************************)
(* The wrapper around execute_task.                                        *)
(***************************************************************************)

\* The state of an agent is created when it first executes.
Begin(a) ==
    /\ ApplicationRuns /\ depth < MaxDepth
    /\ states' = [states EXCEPT ![a] = IF @ = None THEN NewState ELSE @]
    /\ depth' = depth + 1
    /\ frames' = [frames EXCEPT ![depth + 1] =
                    [NoFrame EXCEPT !.phase = "body", !.agent = a]]
    /\ outcome' = NoOutcome
    /\ UNCHANGED <<cur, pending, cached, target>>

\* Mutant of Ended: no finally clause around the escalation.
EndedWithoutRestore(how, value) ==
    /\ outcome' = [agent |-> top.agent, how |-> how, value |-> value]
    /\ depth' = depth - 1
    /\ frames' = [frames EXCEPT ![depth] = NoFrame]
    /\ target' = IF Swapped(top) /\ how = "returned"
                 THEN [target EXCEPT ![top.manager] = top.saved] ELSE target

\* The innermost step is over; the finally clause gives the manager back the
\* state it had.
Ended(how, value) ==
    /\ outcome' = [agent |-> top.agent, how |-> how, value |-> value]
    /\ depth' = depth - 1
    /\ frames' = [frames EXCEPT ![depth] = NoFrame]
    /\ target' = IF Swapped(top)
                 THEN [target EXCEPT ![top.manager] = top.saved] ELSE target

KeepGuard == UNCHANGED <<states, cur, pending, cached>>

Goto(phase) ==
    /\ frames' = [frames EXCEPT ![depth].phase = phase]
    /\ UNCHANGED <<target, depth, outcome>>

\* Mutant of Recorded: the step takes pending data and leaves it there.
RecordedKeepsPending(output, error) ==
    LET a == top.agent
        record == [num |-> Len(states[a].steps), output |-> output,
                   error |-> error, tests |-> pending.tests,
                   schema |-> pending.schema]
        mgr == IF cached = NoRun THEN cur ELSE cached
    IN  /\ states' = [states EXCEPT ![a].steps = AddStep(@, record)]
        /\ cached' = mgr
        /\ frames' = [frames EXCEPT ![depth] =
                        [@ EXCEPT !.phase = "resolve", !.manager = mgr,
                                  !.output = output, !.error = error]]
        /\ UNCHANGED <<cur, pending, target, depth, outcome>>

\* execute_task is over: the step takes what is pending at the guard, goes to
\* the history of the agent, and the components are created if missing.
Recorded(output, error) ==
    LET a == top.agent
        record == [num |-> Len(states[a].steps), output |-> output,
                   error |-> error, tests |-> pending.tests,
                   schema |-> pending.schema]
        mgr == IF cached = NoRun THEN cur ELSE cached
    IN  /\ states' = [states EXCEPT ![a].steps = AddStep(@, record)]
        /\ pending' = NoPending
        /\ cached' = mgr
        /\ frames' = [frames EXCEPT ![depth] =
                        [@ EXCEPT !.phase = "resolve", !.manager = mgr,
                                  !.output = output, !.error = error]]
        /\ UNCHANGED <<cur, target, depth, outcome>>

OriginalReturns == In("body") /\ \E v \in OutputsOf[top.agent] : Recorded(v, None)

OriginalRaises == In("body") /\ \E e \in AgentErrors : Recorded(None, e)

\* A BaseException is not caught; the finally clause still runs.
Cancelled ==
    /\ "cancel" \in Faults
    /\ depth > 0 /\ ApplicationRuns
    /\ Ended("cancelled", None)
    /\ KeepGuard

Verdict(c) == Check(states[top.agent].steps, c)

CallbackFails(c) ==
    /\ In("resolve") /\ CheckRaises(c)
    /\ Ended("raised", "TriggerError")
    /\ KeepGuard

NoTrigger(c) ==
    /\ In("resolve") /\ ~ CheckRaises(c) /\ Verdict(c) = None
    /\ IF top.error # None THEN Ended("raised", top.error)
                           ELSE Ended("returned", top.output)
    /\ KeepGuard

\* Mutant of Swapping: the manager is only lent while it is at home.
SwappingOnce ==
    /\ frames' = [frames EXCEPT ![depth] =
                    [@ EXCEPT !.phase = "escalate",
                              !.saved = target[top.manager],
                              !.output = None, !.error = None]]
    /\ target' = IF target[top.manager] = top.manager
                 THEN [target EXCEPT ![top.manager] = top.agent] ELSE target

\* mgr._state = agent_state, with the old one kept in original_state.
Swapping ==
    /\ frames' = [frames EXCEPT ![depth] =
                    [@ EXCEPT !.phase = "escalate",
                              !.saved = target[top.manager],
                              !.output = None, !.error = None]]
    /\ target' = [target EXCEPT ![top.manager] = top.agent]

Triggered(c) ==
    /\ In("resolve") /\ ~ CheckRaises(c) /\ Verdict(c) # None
    /\ Swapping
    /\ KeepGuard /\ UNCHANGED <<depth, outcome>>

-----------------------------------------------------------------------------
(***************************************************************************)
(* mgr.escalate on the state the manager has now.  Nothing is caught       *)
(* around it: what it raises reaches the crew.                             *)
(***************************************************************************)
Lent == target[top.manager]
Managed == states[Lent]

\* Mutant of CapReached: off by one.
CapExceeded == Managed.escalations > MaxEscalations

CapReached == Managed.escalations >= MaxEscalations

LogRaises == "hook" \in Faults

Capped ==
    /\ In("escalate") /\ CapReached
    /\ \/ Ended("returned", LastOutput(Managed.steps))
       \/ LogRaises /\ Ended("raised", "HookError")
    /\ KeepGuard

\* In interrupt mode the context is packaged for the user, outside the try.
Admitted ==
    /\ In("escalate") /\ ~ CapReached
    /\ \/ ~ Interrupt /\ Goto("package")
       \/ Interrupt /\ Goto("prompt")
       \/ Interrupt /\ "context" \in Faults /\ Ended("raised", "ContextError")
    /\ KeepGuard

Approved == In("prompt") /\ Goto("package") /\ KeepGuard

Declined ==
    /\ In("prompt")
    /\ Ended("returned", LastOutput(Managed.steps))
    /\ KeepGuard

PromptFails ==
    /\ In("prompt") /\ "prompt" \in Faults
    /\ Ended("raised", "PromptError")
    /\ KeepGuard

\* Unlike the guard, the wrapper escalates without looking for a model;
\* invoke of None raises then.
Invoke ==
    /\ In("package")
    /\ \/ HasModel /\ Goto("invoke")
       \/ (~ HasModel \/ Faults \cap {"context", "template"} # {})
             /\ Goto("failopen")
    /\ KeepGuard

\* Mutant of ModelAnswers: the count goes to the guard's own state.
ModelAnswersForGuard ==
    /\ In("invoke")
    /\ states' = [states EXCEPT ![top.manager].escalations = @ + 1]
    /\ \/ Ended("returned", Advice)
       \/ LogRaises /\ Goto("failopen")
    /\ UNCHANGED <<cur, pending, cached>>

ModelAnswers ==
    /\ In("invoke")
    /\ states' = [states EXCEPT ![Lent].escalations = @ + 1]
    /\ \/ Ended("returned", Advice)
       \/ LogRaises /\ Goto("failopen")
    /\ UNCHANGED <<cur, pending, cached>>

ModelFails ==
    /\ In("invoke") /\ "model" \in Faults
    /\ Goto("failopen")
    /\ KeepGuard

OriginalError ==
    IF LastError(Managed.steps) = None THEN "EscalationError"
    ELSE LastError(Managed.steps)

FailOpen ==
    /\ In("failopen")
    /\ \/ LogRaises /\ Ended("raised", "HookError")
       \/ OnGuardError = "raise_original" /\ Ended("raised", OriginalError)
       \/ /\ OnGuardError = "return_last_output"
          /\ Ended("returned", LastOutput(Managed.steps))
       \/ OnGuardError = "return_sentinel" /\ Ended("returned", Sentinel)
    /\ KeepGuard

-----------------------------------------------------------------------------
Next ==
    \/ \E r \in TestInputs : RecordTestResults(r)
    \/ \E v \in SchemaInputs : RecordSchemaValid(v)
    \/ Reset
    \/ \E a \in Agents : Begin(a)
    \/ OriginalReturns
    \/ OriginalRaises
    \/ Cancelled
    \/ \E c \in CallbackResults :
          CallbackFails(c) \/ NoTrigger(c) \/ Triggered(c)
    \/ Capped
    \/ Admitted
    \/ Approved
    \/ Declined
    \/ PromptFails
    \/ Invoke
    \/ ModelAnswers
    \/ ModelFails
    \/ FailOpen

Spec == Init /\ [][Next]_vars

-----------------------------------------------------------------------------
(***************************************************************************)
(* Type invariant; every history, of the guard and of the agents, is kept  *)
(* within the bound of the configuration.                                  *)
(***************************************************************************)
TypeOK ==
    /\ states \in [Owners -> StateObject \cup {None}]
    /\ \A o \in Owners : states[o] # None => Len(states[o].steps) <= MaxHistory
    /\ cur \in Runs
    /\ pending \in [tests : TestInputs \cup {None}, schema : BOOLEAN \cup {None}]
    /\ cached \in Runs \cup {NoRun}
    /\ target \in [Runs -> Owners]
    /\ depth \in 0 .. MaxDepth
    /\ frames \in [Levels -> Frame]
    /\ outcome \in Outcome

(***************************************************************************)
(* A manager that no step has borrowed works on the state it was made for, *)
(* however the steps that borrowed it ended: "prevents state leakage       *)
(* between agents in subsequent calls" (crewai.py:219-222).                *)
(***************************************************************************)
ManagerAtHome ==
    \A r \in Runs :
        (\A l \in 1 .. depth : Swapped(frames[l]) => frames[l].manager # r)
            => target[r] = r

(***************************************************************************)
(* The step that escalates does so on the state of its own agent: caps,    *)
(* counts, packaged context and fallbacks are that agent's, also when      *)
(* steps nest or a reset brings in another manager (crewai.py:209-218).    *)
(***************************************************************************)
EscalatesOwnAgent == (depth > 0 /\ Swapped(top)) => Lent = top.agent

(***************************************************************************)
(* Every agent has a budget of its own, which a reset does not renew; only *)
(* steps of one agent that nest in each other's escalation can exceed it,  *)
(* each by one (escalation.py:256, 344).                                   *)
(***************************************************************************)
AgentBudget ==
    \A a \in Agents : states[a] # None
        => states[a].escalations <= MaxEscalations + MaxDepth - 1

(***************************************************************************)
(* "the guard's shared state is not used for step history, so multiple     *)
(* agents don't bleed into one another" (docs/integrations/crewai.md:31):  *)
(* the guard's own state has neither steps nor escalations, and nobody is  *)
(* answered with, or has in his history, the output of another agent, be   *)
(* it by a fallback, a refusal or a cap (crewai.py:78-84).                 *)
(***************************************************************************)
AgentsDontBleed ==
    /\ \A r \in Runs : states[r] = NewState
    /\ outcome.value \in Outputs => outcome.value \in OutputsOf[outcome.agent]
    /\ \A a \in Agents : states[a] # None =>
          \A i \in DOMAIN states[a].steps :
             states[a].steps[i].output \in OutputsOf[a] \cup {None}

(***************************************************************************)
(* What one call of record_test_results delivers reaches one step of one   *)
(* agent and no second one (crewai.py:161-169).  Which agent that is       *)
(* depends on who ends a step first: with delegation it may be a coworker. *)
(***************************************************************************)
ResultsReachOneStep ==
    \A a, b \in {x \in Agents : states[x] # None} :
        \A i \in DOMAIN states[a].steps, j \in DOMAIN states[b].steps :
            (/\ states[a].steps[i].tests # None
             /\ states[a].steps[i].tests = states[b].steps[j].tests)
            => a = b /\ i = j

(***************************************************************************)
(* "Call `guard.reset()` before `kickoff()`-ing an unrelated crew so the   *)
(* per-agent states don't carry history across runs."                      *)
(* (docs/integrations/crewai.md:145-146): after a reset between two crews  *)
(* no agent has steps or escalations of the run before.                    *)
(***************************************************************************)
ResetClearsAgents ==
    [][ (cur' # cur /\ depth = 0) =>
          \A a \in Agents : states'[a] \in {None, NewState} ]_vars

=============================================================================
