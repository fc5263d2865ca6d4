------------------------------- MODULE Guard -------------------------------
(***************************************************************************)
(* The Guard of guard.py with the EscalationManager it drives, for any     *)
(* number of callers of one Guard instance.                                *)
(*                                                                         *)
(* A task makes guarded calls one after the other.  With one task this is  *)
(* the synchronous decorator (protect); with several it is aprotect on an  *)
(* asyncio event loop: everything between two awaits happens without       *)
(* another task running, which the variable running expresses.  The        *)
(* places where a call hands over control are the guarded function, the    *)
(* interrupt prompt and the escalation model; they are the phases "body",  *)
(* "prompt" and "invoke".                                                  *)
(***************************************************************************)
EXTENDS FailureDetector

CONSTANTS
    Tasks,            \* callers of the guarded functions
    MaxRuns,          \* bound: number of GuardState objects, resets + 1
    MaxEscalations,   \* config.max_escalations_per_run
    HasModel,         \* config.escalation_model is not None
    Interrupt,        \* config.on_escalate = "interrupt"
    OnGuardError,     \* config.on_guard_error
    SchemaInputs,     \* what record_schema_valid is called with
    CallbackResults,  \* what the custom trigger's callback does when called
    Faults,           \* what can go wrong outside the guarded function
    Advice,           \* the content of a response of the escalation model
    Sentinel          \* config.sentinel_value

\* Exceptions that the guard and the code it calls add to the agent's own.
GuardErrors ==
    {"EscalationError", "TriggerError", "HookError", "ContextError",
     "PromptError"}

AgentErrors == Errors \ GuardErrors

\* "model": invoke raises; "context": packaging, sanitizing or redacting
\* raises; "template": building the prompt raises; "prompt": asking the user
\* raises; "hook": the log sink or a hook raises; "cancel": a BaseException
\* (task cancelled, Ctrl-C) interrupts the code the guard waits for.
FaultKinds == {"model", "context", "template", "prompt", "hook", "cancel"}

\* The sink or a hook raises out of a method of the logger, which calls them
\* one after the other and catches nothing.
LogRaises == "hook" \in Faults

FailOpenModes == {"raise_original", "return_last_output", "return_sentinel"}

ASSUME GuardAssumption ==
    /\ IsFiniteSet(Tasks) /\ Tasks # {} /\ None \notin Tasks
    /\ MaxRuns \in Nat \ {0}
    /\ MaxEscalations \in Nat \ {0}
    /\ HasModel \in BOOLEAN /\ Interrupt \in BOOLEAN
    /\ OnGuardError \in FailOpenModes
    /\ GuardErrors \subseteq Errors
    /\ SchemaInputs \subseteq BOOLEAN
    /\ CallbackResults \subseteq CallbackVerdicts /\ CallbackResults # {}
    /\ Faults \subseteq FaultKinds

VARIABLES
    states,    \* run -> the GuardState object of that run
    cur,       \* the run guard._state belongs to
    pending,   \* guard._pending_test_results, guard._pending_schema_valid
    cached,    \* guard._detector is there, run guard._escalation_mgr is for
    running,   \* the task that is executing guard code, or None
    call       \* task -> its guarded call

vars == <<states, cur, pending, cached, running, call>>

Runs == 1 .. MaxRuns
NoRun == 0

Phases ==
    {"idle",       \* no guarded call
     "body",       \* the guarded function is executing
     "resolve",    \* a step was recorded, triggers are to be checked
     "escalate",   \* a trigger fired, EscalationManager.escalate is entered
     "prompt",     \* the user is being asked
     "package",    \* _do_escalate builds context and prompt
     "invoke",     \* the escalation model is working
     "failopen"}   \* _handle_escalation_failure

\* Phases in which a call waits for something outside the guard.
Waiting == {"body", "prompt", "invoke"}

\* What a finished call did: nothing yet, returned, raised, or was cut short.
ResultKinds == {"none", "returned", "raised", "cancelled"}
ResultValues == Outputs \cup Errors \cup {None, Advice, Sentinel}

Result == [how : ResultKinds, value : ResultValues]

NoResult == [how |-> "none", value |-> None]
Returned(v) == [how |-> "returned", value |-> v]
Raised(e) == [how |-> "raised", value |-> e]
Cancelled == [how |-> "cancelled", value |-> None]

Call ==
    [phase    : Phases,
     handling : BOOLEAN,                 \* inside the except clause of _step
     manager  : Runs \cup {NoRun},       \* run of the manager it captured
     output   : Outputs \cup {None},     \* returned if no trigger fires
     trigger  : TriggerKinds \cup {None},
     result   : Result]

IdleCall(result) ==
    [phase |-> "idle", handling |-> FALSE, manager |-> NoRun,
     output |-> None, trigger |-> None, result |-> result]

NoPending == [tests |-> None, schema |-> None]

\* The state a manager works on.  Every call in its escalation has captured
\* one (ManagerCaptured), so this never looks up NoRun.
Managed(t) == states[call[t].manager]

Init ==
    /\ states = [r \in Runs |-> NewState]
    /\ cur = 1
    /\ pending = NoPending
    /\ cached = [detector |-> FALSE, manager |-> NoRun]
    /\ running = None
    /\ call = [t \in Tasks |-> IdleCall(NoResult)]

-----------------------------------------------------------------------------
(***************************************************************************)
(* What code of the application does with the guard: between guarded calls,*)
(* in a guarded function, in the callback that asks the user and in the    *)
(* escalation model, that is whenever no guard code has the loop.          *)
(***************************************************************************)
AgentCodeRuns == running = None

RecordTestResults(r) ==
    /\ AgentCodeRuns
    /\ pending' = [pending EXCEPT !.tests = r]
    /\ states' = [states EXCEPT ![cur].steps = PatchTests(@, r)]
    /\ UNCHANGED <<cur, cached, running, call>>

RecordSchemaValid(v) ==
    /\ AgentCodeRuns
    /\ pending' = [pending EXCEPT !.schema = v]
    /\ states' = [states EXCEPT ![cur].steps = PatchSchema(@, v)]
    /\ UNCHANGED <<cur, cached, running, call>>

\* Mutants of Reset: the manager stays cached; what is pending stays; the new
\* state starts with the old count; the old state is cleared in place.
ResetKeepsManager ==
    /\ AgentCodeRuns
    /\ cur < MaxRuns
    /\ cur' = cur + 1
    /\ states' = [states EXCEPT ![cur + 1] = NewState]
    /\ pending' = NoPending
    /\ UNCHANGED <<cached, running, call>>

ResetKeepsPending ==
    /\ AgentCodeRuns
    /\ cur < MaxRuns
    /\ cur' = cur + 1
    /\ states' = [states EXCEPT ![cur + 1] = NewState]
    /\ cached' = [detector |-> FALSE, manager |-> NoRun]
    /\ UNCHANGED <<pending, running, call>>

ResetKeepsCount ==
    /\ AgentCodeRuns
    /\ cur < MaxRuns
    /\ cur' = cur + 1
    /\ states' = [states EXCEPT ![cur + 1].escalations =
                    states[cur].escalations]
    /\ pending' = NoPending
    /\ cached' = [detector |-> FALSE, manager |-> NoRun]
    /\ UNCHANGED <<running, call>>

ResetClearsOld ==
    /\ AgentCodeRuns
    /\ cur < MaxRuns
    /\ cur' = cur + 1
    /\ states' = [states EXCEPT ![cur] = NewState, ![cur + 1] = NewState]
    /\ pending' = NoPending
    /\ cached' = [detector |-> FALSE, manager |-> NoRun]
    /\ UNCHANGED <<running, call>>

\* reset(): a new GuardState, nothing pending, components to be recreated.
\* A call that is in flight keeps the manager it captured.
Reset ==
    /\ AgentCodeRuns
    /\ cur < MaxRuns
    /\ cur' = cur + 1
    /\ states' = [states EXCEPT ![cur + 1] = NewState]
    /\ pending' = NoPending
    /\ cached' = [detector |-> FALSE, manager |-> NoRun]
    /\ UNCHANGED <<running, call>>

-----------------------------------------------------------------------------
(***************************************************************************)
(* The wrapper and _step_sync / _step_async.                               *)
(***************************************************************************)

\* _ensure_components: create what is missing, keep what is cached.
EnsuredComponents ==
    [detector |-> TRUE,
     manager  |-> IF cached.manager = NoRun THEN cur ELSE cached.manager]

Begin(t) ==
    /\ running = None
    /\ call[t].phase = "idle"
    /\ cached' = EnsuredComponents
    /\ call' = [call EXCEPT ![t] =
                  [IdleCall(NoResult) EXCEPT
                     !.phase = "body", !.manager = EnsuredComponents.manager]]
    /\ UNCHANGED <<states, cur, pending, running>>

\* Mutant of NewStep: steps numbered from the last index of the list.
NewStepNumberedEarly(output, error) ==
    [num    |-> Len(states[cur].steps) - 1,
     output |-> output,
     error  |-> error,
     tests  |-> pending.tests,
     schema |-> pending.schema]

\* _record_success and _record_failure: the step consumes what is pending.
NewStep(output, error) ==
    [num    |-> Len(states[cur].steps),
     output |-> output,
     error  |-> error,
     tests  |-> pending.tests,
     schema |-> pending.schema]

Record(output, error) ==
    /\ states' = [states EXCEPT
                    ![cur].steps = AddStep(@, NewStep(output, error))]
    /\ pending' = NoPending
    /\ UNCHANGED <<cur, cached>>

\* Task t goes on with phase p, keeping the loop.
Goto(t, p) ==
    /\ running' = t
    /\ call' = [call EXCEPT ![t].phase = p]

\* Task t starts waiting in phase p: other tasks can run.
Await(t, p) ==
    /\ running' = None
    /\ call' = [call EXCEPT ![t].phase = p]

Finish(t, result) ==
    /\ running' = None
    /\ call' = [call EXCEPT ![t] = IdleCall(result)]

KeepState == UNCHANGED <<states, cur, pending, cached>>

\* Mutant of Escape: the except clause surrounds itself.
EscapeAgain(t, error) ==
    /\ Record(None, error)
    /\ running' = t
    /\ call' = [call EXCEPT ![t].phase = "resolve", ![t].handling = TRUE,
                            ![t].output = None, ![t].trigger = None]

\* An exception leaves _resolve_step.  On the path of a successful step it is
\* caught by the except clause that surrounds it, recorded as a second step
\* of the same call, and the triggers are checked again; from inside that
\* clause it reaches the caller.
Escape(t, error) ==
    \/ /\ ~ call[t].handling
       /\ Record(None, error)
       /\ running' = t
       /\ call' = [call EXCEPT ![t].phase = "resolve", ![t].handling = TRUE,
                               ![t].output = None, ![t].trigger = None]
    \/ /\ call[t].handling
       /\ Finish(t, Raised(error))
       /\ KeepState

FunctionReturns(t, v) ==
    /\ running = None /\ call[t].phase = "body"
    /\ Record(v, None)
    /\ running' = t
    /\ call' = [call EXCEPT ![t].phase = "resolve", ![t].output = v]

FunctionRaises(t, e) ==
    /\ running = None /\ call[t].phase = "body"
    /\ Record(None, e)
    /\ running' = t
    /\ call' = [call EXCEPT ![t].phase = "resolve", ![t].handling = TRUE]

\* A BaseException passes through every except clause: nothing is recorded,
\* counted or logged.
Interrupted(t) ==
    /\ "cancel" \in Faults
    /\ running = None /\ call[t].phase \in Waiting
    /\ Finish(t, Cancelled)
    /\ KeepState

-----------------------------------------------------------------------------
(***************************************************************************)
(* _resolve_step: check the current state, whoever's step came last.       *)
(***************************************************************************)
Resolving(t) == running = t /\ call[t].phase = "resolve"

\* Mutant of Verdict: the triggers are checked before the step is recorded.
VerdictBeforeStep(c) ==
    LET steps == states[cur].steps
    IN  Check(SubSeq(steps, 1, Len(steps) - 1), c)

Verdict(c) == Check(states[cur].steps, c)

CallbackFails(t, c) ==
    /\ Resolving(t)
    /\ CheckRaises(c)
    /\ Escape(t, "TriggerError")

NoTrigger(t, c) ==
    /\ Resolving(t)
    /\ ~ CheckRaises(c) /\ Verdict(c) = None
    /\ Finish(t, Returned(call[t].output))
    /\ KeepState

\* Mutant of DetectOnly: the detected failure is raised.
DetectAndRaise(t, c) ==
    /\ Resolving(t)
    /\ ~ CheckRaises(c) /\ Verdict(c) # None /\ ~ HasModel
    /\ Finish(t, Raised("EscalationError"))
    /\ KeepState

\* Without a model the guard only detects; the last output is that of the
\* guard's current state.
DetectOnly(t, c) ==
    /\ Resolving(t)
    /\ ~ CheckRaises(c) /\ Verdict(c) # None /\ ~ HasModel
    /\ Finish(t, Returned(LastOutput(states[cur].steps)))
    /\ KeepState

Triggered(t, c) ==
    /\ Resolving(t)
    /\ ~ CheckRaises(c) /\ Verdict(c) # None /\ HasModel
    /\ running' = t
    /\ call' = [call EXCEPT ![t].phase = "escalate",
                            ![t].trigger = Verdict(c)]
    /\ KeepState

-----------------------------------------------------------------------------
(***************************************************************************)
(* EscalationManager.escalate / escalate_async, on the manager's state.    *)
(***************************************************************************)
Escalating(t) == running = t /\ call[t].phase = "escalate"

\* Mutant of CapReached: off by one.
CapExceeded(t) == Managed(t).escalations > MaxEscalations

\* escalation_cap_reached
CapReached(t) == Managed(t).escalations >= MaxEscalations

\* _handle_cap: log, then return the manager's last output.  A log sink or
\* hook that raises is outside escalate's try block.
Capped(t) ==
    /\ Escalating(t) /\ CapReached(t)
    /\ \/ Finish(t, Returned(LastOutput(Managed(t).steps))) /\ KeepState
       \/ LogRaises /\ Escape(t, "HookError")

\* The interrupt branch packages the context before the try block.
AskUser(t) ==
    /\ Escalating(t) /\ ~ CapReached(t) /\ Interrupt
    /\ \/ Await(t, "prompt") /\ KeepState
       \/ "context" \in Faults /\ Escape(t, "ContextError")

Approved(t) ==
    /\ running = None /\ call[t].phase = "prompt"
    /\ Goto(t, "package")
    /\ KeepState

Declined(t) ==
    /\ running = None /\ call[t].phase = "prompt"
    /\ Finish(t, Returned(LastOutput(Managed(t).steps)))
    /\ KeepState

PromptFails(t) ==
    /\ "prompt" \in Faults
    /\ running = None /\ call[t].phase = "prompt"
    /\ Escape(t, "PromptError")

SkipPrompt(t) ==
    /\ Escalating(t) /\ ~ CapReached(t) /\ ~ Interrupt
    /\ Goto(t, "package")
    /\ KeepState

\* Mutant of Invoke: context and prompt are built outside the try block.
InvokeUnguarded(t) ==
    /\ running = t /\ call[t].phase = "package"
    /\ \/ Await(t, "invoke") /\ KeepState
       \/ Faults \cap {"context", "template"} # {} /\ Escape(t, "ContextError")

\* _do_escalate up to the model call: context, prompt, invoke.
Invoke(t) ==
    /\ running = t /\ call[t].phase = "package"
    /\ \/ Await(t, "invoke")
       \/ Faults \cap {"context", "template"} # {} /\ Goto(t, "failopen")
    /\ KeepState

\* The rest of _do_escalate: count, log, unwrap.  When the sink or a hook
\* raises the escalation is counted and its answer is lost.
ModelAnswers(t) ==
    /\ running = None /\ call[t].phase = "invoke"
    /\ states' = [states EXCEPT ![call[t].manager].escalations = @ + 1]
    /\ \/ Finish(t, Returned(Advice))
       \/ LogRaises /\ Goto(t, "failopen")
    /\ UNCHANGED <<cur, pending, cached>>

ModelFails(t) ==
    /\ "model" \in Faults
    /\ running = None /\ call[t].phase = "invoke"
    /\ Goto(t, "failopen")
    /\ KeepState

-----------------------------------------------------------------------------
(***************************************************************************)
(* _handle_escalation_failure: log, then fail open as configured.          *)
(***************************************************************************)
Failing(t) == running = t /\ call[t].phase = "failopen"

FailOpenLogFails(t) ==
    /\ Failing(t) /\ LogRaises
    /\ Escape(t, "HookError")

\* Mutants of OriginalError: the guard's own error; any error of the history.
OriginalErrorHidden(t) == "EscalationError"

OriginalErrorAnywhere(t) ==
    LET steps == Managed(t).steps
        failed == {i \in DOMAIN steps : steps[i].error # None}
    IN  IF failed = {} THEN "EscalationError"
        ELSE steps[CHOOSE i \in LastOf(failed, 1) : TRUE].error

OriginalError(t) ==
    IF LastError(Managed(t).steps) = None THEN "EscalationError"
    ELSE LastError(Managed(t).steps)

RaiseOriginal(t) ==
    /\ Failing(t) /\ OnGuardError = "raise_original"
    /\ Escape(t, OriginalError(t))

ReturnFallback(t) ==
    /\ Failing(t) /\ OnGuardError # "raise_original"
    /\ Finish(t, Returned(IF OnGuardError = "return_last_output"
                          THEN LastOutput(Managed(t).steps)
                          ELSE Sentinel))
    /\ KeepState

-----------------------------------------------------------------------------
\* Steps the call itself takes once it has the loop.
Proceed(t) ==
    \/ \E c \in CallbackResults :
          \/ CallbackFails(t, c)
          \/ NoTrigger(t, c)
          \/ DetectOnly(t, c)
          \/ Triggered(t, c)
    \/ Capped(t)
    \/ AskUser(t)
    \/ SkipPrompt(t)
    \/ Invoke(t)
    \/ FailOpenLogFails(t)
    \/ RaiseOriginal(t)
    \/ ReturnFallback(t)

\* What the call waits for happens: it gets the loop back.
Resume(t) ==
    \/ \E v \in Outputs : FunctionReturns(t, v)
    \/ \E e \in AgentErrors : FunctionRaises(t, e)
    \/ Approved(t)
    \/ Declined(t)
    \/ PromptFails(t)
    \/ ModelAnswers(t)
    \/ ModelFails(t)

Next ==
    \/ \E r \in TestInputs : RecordTestResults(r)
    \/ \E v \in SchemaInputs : RecordSchemaValid(v)
    \/ Reset
    \/ \E t \in Tasks : Begin(t) \/ Resume(t) \/ Proceed(t) \/ Interrupted(t)

Spec == Init /\ [][Next]_vars

(***************************************************************************)
(* Guard code that has started runs to its next await.  The guarded        *)
(* function, the user and the model answer eventually, and asyncio's FIFO  *)
(* queue of ready tasks gives the loop to a task whose wait is over (with  *)
(* one task, protect, there is nothing to compete with).                   *)
(***************************************************************************)
Fairness ==
    \A t \in Tasks : WF_vars(Proceed(t)) /\ SF_vars(Resume(t))

FairSpec == Spec /\ Fairness

-----------------------------------------------------------------------------
(***************************************************************************)
(* Type invariant.                                                         *)
(***************************************************************************)
TypeOK ==
    /\ states \in [Runs -> StateObject]
    /\ cur \in Runs
    /\ pending \in [tests : TestInputs \cup {None},
                    schema : BOOLEAN \cup {None}]
    /\ cached \in [detector : BOOLEAN, manager : Runs \cup {NoRun}]
    /\ running \in Tasks \cup {None}
    /\ call \in [Tasks -> Call]

(***************************************************************************)
(* The budget.  The cap check and the increment are two acquisitions of    *)
(* the lock with the model call between them (escalation.py:256, 336,      *)
(* 344), so every caller that passed the check may still add one: with one *)
(* caller the count of every run stays within max_escalations_per_run,     *)
(* with n callers it can exceed it by at most n - 1.                       *)
(***************************************************************************)
CapOvershootBounded ==
    \A r \in Runs :
        states[r].escalations <= MaxEscalations + Cardinality(Tasks) - 1

(***************************************************************************)
(* The cap itself, for any number of callers (docs/PRD.md:375, "safe to    *)
(* use across concurrent agent runs"; state.py:170-171, "Prevents the      *)
(* TOCTOU race between checking and incrementing").                        *)
(***************************************************************************)
CapRespected == \A r \in Runs : states[r].escalations <= MaxEscalations

(***************************************************************************)
(* A manager left in the cache always works on the guard's own state: no   *)
(* call that starts after a reset is charged to, or answered from, the     *)
(* history before it (guard.py:152-157, issue #54).                        *)
(***************************************************************************)
CachedManagerIsCurrent ==
    /\ cached.manager \in {NoRun, cur}
    /\ \A t \in Tasks : call[t].phase # "idle" => call[t].manager \in 1 .. cur

(***************************************************************************)
(* With one caller, what the user was shown is what the model is sent and  *)
(* what a fallback is taken from: the context is packaged twice, before    *)
(* the prompt and after it (escalation.py:267, 326), and whatever is       *)
(* recorded or reset meanwhile leaves outputs and errors of the manager's  *)
(* history as they were.  Results of tests and validations may change.     *)
(***************************************************************************)
EscalationPhases == {"escalate", "prompt", "package", "invoke", "failopen"}

Told(steps) == [i \in DOMAIN steps |-> <<steps[i].output, steps[i].error>>]

EscalatedHistoryStands ==
    [][ \A t \in Tasks :
          {call[t].phase, call'[t].phase} \subseteq EscalationPhases
             => Told(states'[call[t].manager].steps)
                   = Told(states[call[t].manager].steps) ]_vars

(***************************************************************************)
(* Fail-open.  When nothing but the model, the context pipeline inside the *)
(* try block and the guarded function can fail, and the mode is not        *)
(* raise_original, or when there is no model, no guarded call raises       *)
(* anything but what the custom callback did (escalation.py:273-282,       *)
(* 569-588; guard.py:282-284).                                             *)
(***************************************************************************)
NothingEscapesByDesign ==
    HasModel => /\ OnGuardError # "raise_original"
                /\ ~ LogRaises
                /\ Interrupt => Faults \cap {"context", "prompt"} = {}

FailsOpen ==
    NothingEscapesByDesign =>
        \A t \in Tasks :
           call[t].result.how = "raised" => call[t].result.value = "TriggerError"

(***************************************************************************)
(* "the user sees the original error as if loopguard never intercepted it" *)
(* (escalation.py:570-571): with one caller, what a call raises is the     *)
(* error its last step records or comes from a part that fails outside the *)
(* guard's try block, unless a reset fell into the call: then the manager  *)
(* is that of the run before.                                              *)
(***************************************************************************)
RaisesWhatItRecorded ==
    [][ \A t \in Tasks :
          (/\ call[t].phase # "idle" /\ call[t].manager = cur
           /\ call'[t].result.how = "raised")
          => \/ call'[t].result.value = LastError(states[cur].steps)
             \/ call'[t].result.value \in GuardErrors \ {"EscalationError"} ]_vars

(***************************************************************************)
(* Every guarded call ends: an error of the guard that is caught, recorded *)
(* and resolved again does not start over for ever.                        *)
(***************************************************************************)
EveryCallEnds ==
    \A t \in Tasks : call[t].phase # "idle" ~> call[t].phase = "idle"

(***************************************************************************)
(* The guard implements the escalation budget: the count of the current    *)
(* run only grows one by one up to the limit, and goes back to zero with a *)
(* reset and at no other time (guard.py:133-157, escalation.py:344).  An   *)
(* answer that arrives for the run before a reset leaves the new run's     *)
(* budget alone.                                                           *)
(***************************************************************************)
Budget ==
    INSTANCE EscalationBudget WITH
        Limit <- MaxEscalations + Cardinality(Tasks) - 1,
        run   <- cur,
        spent <- states[cur].escalations

ImplementsBudget == Budget!BudgetSpec

=============================================================================
