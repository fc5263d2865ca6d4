# ai-loopguard in TLA+

`ai_loopguard` wraps the functions of an LLM agent. Every call of a wrapped
function is recorded as a step; *triggers* look at the last steps for signs of a
stuck agent (the same error again and again, the same test failing, an invalid
schema, a user's own predicate); when one fires, a stronger model is asked for
the answer, at most `max_escalations_per_run` times. Whatever goes wrong in the
guard itself, the agent's loop is supposed to go on (*fail-open*).

The modules beside this file model that machinery and what is built around it:
the two framework integrations, the log with its hooks, the cost tracker, the
context a model is sent, and the tool that reads the log. TLC checks them on
small instances, and TLAPS proves the central properties for all instances.

## 1. Inventory

| component | state | operations | talks to |
|---|---|---|---|
| `Guard` (`guard.py`) | `_state`, pending test results and validation, cached detector and manager | `protect`, `aprotect`, `record_test_results`, `record_schema_valid`, `reset` | detector, manager, the guarded function |
| `GuardState` (`_internal/state.py`) | list of steps, bounded; `escalation_count` | `add_step`, `increment_escalation_count`, `escalation_cap_reached` | held by guard **and** manager |
| `FailureDetector` (`detectors.py`) | configuration only | `check` and the four `_check_*` | reads `GuardState`, calls the custom callback |
| `EscalationManager` (`escalation.py`) | a reference to one `GuardState` | `escalate`, `escalate_async`, cap handling, fail-open | context pipeline, user prompt, model, logger |
| `InterruptHandler` (`escalation.py`) | none | `prompt`, `prompt_async` | the user |
| `EscalationLogger`, `EventHook` (`logging.py`) | an append-mode file with a buffer, list of hooks | `log`, `log_capped`, `log_escalation_failure`, `register_hook`, `close` | hooks, which may raise or register others |
| `OTelEventHook` (`integrations/otel.py`) | a tracer | the three hook methods | OpenTelemetry |
| `CostTracker` (`cost.py`) | counters per task, number of guarded calls | `record_*`, `get_*`, `clear` | nothing in the package calls it; an application does, from a hook |
| CLI (`cli.py`) | none | `analyze` with three filters, breakdown | the log file |
| `ContextPackager`, `Sanitizer`, `Redactor` (`context.py`) | none | `package`, compression, sanitizing, redaction | manager |
| `LangGraphHandler` (`integrations/langgraph.py`) | none of its own | `on_step_end` | private attributes of guard and manager, the graph's `interrupt` |
| `CrewAIWrapper` (`integrations/crewai.py`) | one `GuardState` per agent role | `wrap`, the wrapped `execute_task` | swaps the manager's state |
| configuration, exceptions, `BoundedHistory`, prompts | – | validation, classes, an unused list, a constant | – |

What makes it hard:

* **Two holders of one state.** The guard records into `guard._state`, the
  manager counts and answers from the state it was built with. `reset()`
  replaces the first and drops the cached manager; a call in flight keeps both
  objects it captured when it started.
* **Awaits.** With `aprotect` several callers share one guard. They lose the
  event loop at the guarded function, at the prompt and at the model; the cap is
  checked before the last two and counted after them.
* **One try block around everything.** `_step_sync` resolves the step inside the
  `try` that guards the function, so an exception of the guard is recorded as a
  step of the agent and resolved again.
* **Results belong to no step.** `record_test_results` both patches the last
  step and waits for the next one, whoever's it is.
* **Bounds.** The history forgets its oldest steps, which a trigger may need;
  the context is cut to a budget of tokens.
* **A graph executes its node again.** After `interrupt()` the node runs from
  its start when the user has answered, in a history others went on with.
* **One manager, many agents.** The CrewAI wrapper lends the manager the state
  of an agent while it escalates; steps nest, and resets bring new managers.
* **A file that may be torn.** Flushes fail half-way, processes die, several
  loggers append to one file, hooks raise after the line is written.

For each component the properties that make it correct: the *detector* answers
exactly as streaks counted one by one would; the *state*, by its bound, hides
only streaks of which too few steps are held; the *guard* records what each call
did, in the run it belongs to, and decides on what it recorded; the *manager* stays within its budget, whoever calls it, fails open
where the configuration says so and raises the agent's own error where it does
not; every call *ends*; a stuck agent *is* escalated; the *handler* looks at cap
and triggers again when a node is executed again; the *wrapper* keeps agents
apart; the *log* has what anyone was shown, and `analyze` reports what was
counted; the *context* covers the history and carries the error.

## 2. Modules

```
GuardState ─┬─ FailureDetector ─┬─ Guard ─┬─ GuardHistory ── MCGuardHistory
            │                   │         ├─ TestHistory ── MCTestHistory
            │                   │         ├─ EscalationBudget (abstract)
            │                   │         ├─ GuardProofs ─┬─ GraphProofs
            │                   │         │               └─ CallerProofs (with GuardHistory)
            │                   │         ├─ MCGuard ── MCGuardAsync
            │                   │         └─ LangGraphHandler ── MCLangGraphHandler ── MCGraph
            │                   ├─ CrewAIWrapper ─┬─ MCCrewAIWrapper
            │                   │                 └─ CrewProofs
            │                   └─ Streaks ─┐
            │                               ├─ Briefing ─┬─ DetectorProofs
            └─ ContextPackager ─────────────┘            └─ MCDetector

CostTracker ── EscalationLog ─┬─ MCEscalationLog
                              └─ LogProofs ── TrackerProofs
```

`Lists` is used by `ContextPackager` and `EscalationLog`, and its theorems in
`ListProofs` by `DetectorProofs` and `LogProofs`.

| module | models | how it corresponds to the code |
|---|---|---|
| `GuardState` | `StepRecord`, `GuardState` | operators on lists of step records: `AddStep`, the two patches of `steps[-1]`, the two reads of the last step. An error is one value that stands for its type and message, the pair `repeated_error` compares. |
| `FailureDetector` | `detectors.py` | one predicate per trigger, `Check` for the order. A slice `xs[-n:]` of a filtered list is the set of the n largest indices that pass the filter (`LastOf`), so no definition is recursive and all can be reasoned about. The modes of `test_failure` have names of their own. |
| `Guard` | `guard.py`, `escalation.py` | see below |
| `EscalationBudget` | the promise about escalations | `Spend` one unit below the limit, `Renew` with a new run |
| `GuardHistory` | – | history variables that count and remember what `Guard` did; they never constrain it |
| `TestHistory` | a guarded function of `docs/triggers.md` | `Guard` whose function records its results once in each call, with what it recorded in a variable |
| `LangGraphHandler` | `integrations/langgraph.py` | composed with `Guard`: nodes beside guarded calls of the same guard; see below |
| `CrewAIWrapper` | `integrations/crewai.py` | composed with `FailureDetector` and `GuardState`; see below |
| `EscalationLog` | `logging.py`, `integrations/otel.py`, `cli.py` | the loggers of one process, their file, their hooks, and what `analyze` reads; see below |
| `CostTracker` | `cost.py` | every method holds one lock from first to last line, so each is an operator on the value of a tracker; `EscalationLog` keeps that value in a variable |
| `ContextPackager` | `context.py`, the prompt of `escalation.py` | the classes keep nothing between calls: `Package`, `Sanitize`, `Redact`, `BuildPrompt` are operators on lists of steps. A text is what it was made of and what was done to it (how often delimited, whether redacted); `TypeOf` and `LengthOf` give the type of an error and the length of a message or output, so errors of one type may differ in their messages and a message may be empty. Budgets are counted in characters, as in the code. |
| `Streaks` | `GuardState.add_step` as the guard calls it, beside a reference for the detector | steps are added to the list the guard keeps and to one that is never truncated, and the streaks of errors, failing tests, flipping tests and invalid schemas are counted step by step, without any list |
| `Briefing` | – | what `ContextPackager` has to tell of the history that `Streaks` grows |
| `Lists` | list comprehensions with a condition | `SelectAt(s, I)` is the list of the elements of s at the indices in I, in their order. It is defined by counting, not by recursion as `SelectSeq` and the folds are, so what it returns can be proved. |
| `MCDetector`, `MCGuard`, `MCTestHistory`, `MCLangGraphHandler`, `MCCrewAIWrapper`, `MCEscalationLog` | – | instances for TLC |
| `MCGuardAsync`, `MCGuardHistory`, `MCGraph` | – | instances for TLC with a variable `mode`, which keeps every behaviour to one of two sets of constants |
| `ListProofs`, `GuardProofs`, `CallerProofs`, `DetectorProofs`, `GraphProofs`, `CrewProofs`, `LogProofs`, `TrackerProofs` | – | the theorems |

Operators whose comment calls them mutants stand before the definition they vary
and are used by no specification: each is a plausible bug that breaks one of the
properties.

### Guard

State. `states` holds the `GuardState` object of every run (a reset starts the
next run), `cur` the run `guard._state` belongs to, `pending` the two pending
fields, `cached` the cached detector and the run whose state the cached manager
has, `call` for every task the local state of its guarded call: its phase,
whether it is inside the `except` clause, the run of the manager it captured,
the output to return, the trigger that fired and, when it is over, its result.

Interleaving. `running` names the task that executes guard code. Code between
two awaits is atomic on an event loop, so while it is not `None` no other task
moves. A call waits in three phases: `body` (the guarded function), `prompt` and
`invoke`. Whenever no guard code has the loop, which with one task includes its
own prompt and model call, code of the application may record results and reset
the guard (`AgentCodeRuns`): `interrupt_callback` and the model are the user's.
With one task the model is the synchronous decorator. A guarded
function that calls another guarded function of the same guard is one of the
interleavings of two tasks. Hooks and custom predicates that call back into the
guard are not modelled, nor is a prompt or model that does so while `on_step_end`
waits for it. Preemptive threads are not modelled: `guard.py:22-26`
excludes them.

| code | actions |
|---|---|
| `record_test_results`, `record_schema_valid`, `reset` | `RecordTestResults`, `RecordSchemaValid`, `Reset`: between calls, inside a guarded function, from the prompt and from the model |
| wrapper, `_ensure_components` | `Begin` |
| `_record_success`, `_record_failure` | `FunctionReturns`, `FunctionRaises` (the step is recorded in the same action) |
| `_resolve_step` | `CallbackFails`, `NoTrigger`, `DetectOnly`, `Triggered` |
| `escalate` / `escalate_async` | `Capped`, `AskUser`, `SkipPrompt`, `Approved`, `Declined`, `PromptFails` |
| `_do_escalate` | `Invoke`, `ModelAnswers`, `ModelFails` |
| `_handle_escalation_failure`, `_get_fail_open_output` | `FailOpenLogFails`, `RaiseOriginal`, `ReturnFallback` |
| the `except Exception` of `_step_sync` | `Escape`, part of every action that raises |
| task cancelled, Ctrl-C | `Interrupted` |

`Faults` says which parts may fail in an instance: the model, the context
pipeline, the prompt template, the user prompt, the log with its hooks, and
cancellation. The custom callback may return true, return false or raise.

Abstractions. Outputs, errors and results of tests are members of small sets. The
contents of context, prompt and events are in modules of their own; that
building them can raise is kept here. `total_tokens` and `total_cost_usd` are
left out: every caller in the package records zeros. Integers are unbounded, as
in Python.

### LangGraphHandler

It adds one variable to those of `Guard`: `node`, for every thread of the graph
the local state of `on_step_end`. The method is synchronous and is not a guarded
call: it holds the loop (`running` is the thread) until it returns, raises, or
interrupts the graph, and what it raises goes to the graph.

| code | actions |
|---|---|
| entry, `_consume_pending_results`, `add_step` | `NodeEndsFirst`, and `NodeEndsAgain` when the graph executes the node a second time |
| missing detector or manager | `NodeUnguarded` |
| `detector.check` | `NodeCallbackFails`, `NodeNoTrigger`, `NodeTriggered` |
| the cap of `guard.state`, `_handle_cap` | `NodeHandleCap` |
| `interrupt(...)` and its answer | `NodeInterrupts`; `UserAnswers`; then `NodeConfirmed` or `NodeDeclined` in the second execution |
| auto mode | `NodeAuto` |
| `_do_escalate`, and in auto mode the `except` of `escalate` | `NodeModelAnswers`, `NodeEscalationFails`, `NodeFailOpen`, `NodeCancelled` |

### CrewAIWrapper

`states` holds the guard's own states by run and those of the agents by role;
`target` says whose state the manager of each run works on. A crew runs its
agents one at a time, but steps nest: an agent delegates from inside its own
step, and a prompt or a model may run agents as well. So `frames` is a stack of
wrapped steps and only its top moves; `outcome` is what the latest one came to.

| code | actions |
|---|---|
| `record_*`, `reset` of the guard | `RecordTestResults`, `RecordSchemaValid`, `Reset`, whenever application code runs |
| entry of the wrapped `execute_task` | `Begin` |
| original returns or raises, step recorded, components created | `OriginalReturns`, `OriginalRaises` |
| `detector.check` on the agent's state | `CallbackFails`, `NoTrigger`, `Triggered`; the last one includes `mgr._state = agent_state` |
| `mgr.escalate` | `Capped`, `Admitted`, `Approved`, `Declined`, `PromptFails`, `Invoke`, `ModelAnswers`, `ModelFails`, `FailOpen` |
| `finally: mgr._state = original_state` | `Ended`, part of every action that leaves the step |
| a `BaseException` | `Cancelled` |

### EscalationLog

`disk` is the file as a sequence of pieces: the two halves of an event's JSON and
the end of a line, enough to tell complete lines from torn ones. `logger` holds
for every logger its buffer, its hooks, whether it is open and how far the event
at hand has come; `seen` what every hook received; `tracker` the application's
`CostTracker`; `counted` the escalations a manager counted. A guarded call logs at most two
events on its own (`WorkPerCallIsBounded`); behind an event that was logged it
ends, unless that is a failure in mode `raise_original`, whose error is resolved
once more (`Finished`).

| code | actions |
|---|---|
| guarded call, `record_guarded_call`, `record_step`, `clear` | `BeginCall`, `ClearTracker` |
| `register_hook` | `RegisterHook`; a hook may also do it from inside (`HookReturns`) |
| `log`, `log_capped`, `log_escalation_failure` up to the flush | `Escalate`, `HandleCap`, `ModelFailure`, `HandleFailure`: each creates an event and flushes it (`Flushed`), fails half-way (`FlushFailed`) or writes to a closed sink |
| dispatch to the hooks | `HookReturns`, `HookRaises`, one hook at a time |
| `close` | `Close` |
| the process dies and starts again | `Crash`; while an event is written, `Dies` in the action that logs it. Any part of the buffer may reach the file first, so a crash leaves torn lines of its own |
| `load_jsonl`, `_parse_event`, filters, breakdown | `LoadJsonl`, `EventLog`, `Analyze`, `TriggerBreakdown`, operators on the text of the file |

The loggers interleave at every step: each may be in a thread of its own, since
one guard per agent loop is what `guard.py:22-26` asks for, and all of a process
share a directory.

## 3. Runs

| run | question | instance | states |
|---|---|---|---|
| `detector` | does every trigger answer as counters of streaks do, what exactly does truncation hide, which of several triggers is reported, what is the model told of the history? | five alphabets of step contents, lists of 5 to 7 steps, history of 4, thresholds of 1, 4 and 5, and of 3 for what is reported; three errors of two types, one without a message; outputs from none to more than the whole budget; what is sent with sanitizing, redaction and a stripped field, and without any of them | 390 000 |
| `guard_async` | budget, cached manager, refinement of `EscalationBudget`; does every call end? And: is a stuck agent escalated up to its budget? | two callers; mode *free*: interrupt, a callback that may raise, one reset anywhere, every fault; mode *stuck*: calls that always fail alike, history and threshold of 3, hooks that may raise | 222 000 |
| `guard_work` | the cap; how many steps and model calls can one call make, of what errors; what does `raise_original` raise; does what the escalation was decided on stand while user and model are asked; do results leak across a reset? And: does a guard without a model only detect? | one caller, results and resets anywhere; model and hooks fail; a custom trigger; mode *escalate* and, without a model, *detect* | 775 000 |
| `graph` | are cap and trigger looked at again when a node is executed again, is an interrupt answered once, what reaches the graph? | one guarded caller that escalates and one graph; mode *interrupt*: a reset anywhere; mode *auto*: model, context and callback fail | 126 000 |
| `crew` | does an escalation work on its own agent, does the manager come home, does anything cross over between agents? | two agents (symmetric), steps nest to depth two, one reset | 1 071 000 |
| `log` | is in the file what hooks and tracker saw, what does a torn event cost, what does `analyze` report? | two loggers, two hooks, two failed flushes or crashes at any point | 1 920 000 |

Six more runs show disagreements; they are listed below.

Deadlock is checked in every run except those of `MCDetector` and
`MCEscalationLog`, where lists and events end at their bound.

Bounds and why they are enough.

* `MaxHistory`, `MaxRetries`. The code allows histories of 10 to 1000 steps and
  thresholds of 1 to 20. The models use histories of 1 to 5 and thresholds of 1
  to 5, one of them above the bound of the history, which the configuration
  allows: what matters is how the bound relates to the threshold and to the
  oscillation window of four, and the runs have it above, at and below.
* `MaxRuns` bounds the resets. One reset is enough to have a call, a paused
  graph or a borrowed manager in flight across it. The stuck agent and the graph
  in auto mode do without: a reset would take the stuck agent's steps away, and
  no node waits across one in auto mode.
* `MaxSteps` bounds the lists of `MCDetector`: more than twice the threshold,
  and beyond the bound of the history.
* `CallBound` stops the counters of `GuardHistory` one above what the property
  tells apart.
* `MaxDepth` of 2 lets a step delegate, to another agent and to its own, from
  inside its body, its prompt and its escalation.
* `MaxEvents` 3, `MaxHooks` 2, `MaxCalls` 2, `MaxTorn` 2: a torn event, the one
  glued to it and one more; a failed flush whose rest is torn again by a crash;
  a hook behind another; a call that logs twice.
* `MaxEscalations` is 1 wherever a guard escalates, and 2 for one of the loggers:
  below the cap and at it are both reached.
* `MaxContextTokens` 500 with `FixedChars` 200 and outputs of 0 to 3000
  characters: contexts that fit, that fit without their middle, and that do not
  fit at all.

What is beyond these bounds is covered by the theorems of section 4, which have
none.

Fairness. `Fairness` in `Guard`: weak fairness of `Proceed`, since guard code that has
the loop runs on. Strong fairness of `Resume`: the guarded function, the user and
the model answer eventually, and asyncio serves its ready tasks in order, so a
task whose wait is over is not overtaken for ever; weak fairness would not do,
because another task that holds the loop disables the resumption again and
again. Nothing is assumed of agent code, resets or cancellation. The mode *stuck*
of `guard_async` adds that the agent keeps calling (`CallsAgain`): that is what
being stuck means.
`GraphFairness` in `LangGraphHandler` is the same for nodes: weak fairness of
what a node does while it has the loop and of guard code, strong fairness of the
resumption of an interrupted graph. It assumes nothing of the functions, users and models of
guarded calls: those wait without holding the loop.

### Disagreements between code and documentation

Six runs check a property that quotes the documentation, and TLC finds a
counterexample.

| run | documented | what the code does |
|---|---|---|
| `guard_toctou` (`CapRespected`) | "safe to use across concurrent agent runs" (PRD.md:375), "Prevents the TOCTOU race" (state.py:170) | check and increment are separate; callers that overlap exceed the cap. By exactly how much is `CapOvershootBounded` |
| `guard_oscillation` (`OscillationIsDetected`) | a test that oscillates over any four steps fires the trigger (triggers.md:72), for results recorded inside the guarded function, "no one-step lag" (triggers.md:58) | recording results overwrites those of the step before as well (guard.py:171), so neighbours agree. The end-to-end test that shows the trigger sets the private field instead (test_e2e_test_failure.py:86-92). The theorem `NoOscillation` says that no use of `record_test_results` ever fires it |
| `detector_window` (`OscillationIgnoresThreshold`) | the window of four is "independent of `max_retries`" (triggers.md:40, detectors.py:351-352) | fewer than `max_retries` steps with results return before either mode is tried (detectors.py:285); `TriggersAreStreaks` states the mode for thresholds up to the window, `TruncationIsExact` for those above it |
| `graph_standalone` (`OnStepEndDetects`) | `on_step_end` "3. Runs all enabled triggers" (docs/integrations/langgraph.md:61) | only guarded calls create the detector; a handler set up as documented has none and returns every output unchecked, and again after every reset |
| `crew_reset` (`ResetClearsAgents`) | "Call `guard.reset()` [...] so the per-agent states don't carry history across runs" (docs/integrations/crewai.md:145-146) | the guard does not know the agents' states. The theorem `OnlyOwnSteps` says that nothing but an agent's own steps changes them |
| `log_rate` (`EscalationRateIsFraction`) | escalation rate "between 0.0 and 1.0" (cost.py:194, 201) | a call whose log raises behind the tracker is resolved, and counted, twice |

On `guard_toctou`: `guard.py:22-26` tells users to have one guard per agent loop;
the quoted requirement and the locks of `GuardState` promise more. On
`guard_oscillation`: the docstring of `record_test_results` warns of what it does
to the step before (guard.py:166-168). On `log_rate`: the guards of that run have
triggers that fire for steps without an error only, since a failed step is not
resolved a second time.

Further disagreements that the definitions show when read beside the documents;
no run is spent on them.

| documented | definition | what the code does |
|---|---|---|
| "must never crash" the agent loop (escalation.py:168-169, PRD.md:373) | `Escape` | a hook that raises for the escalation and again for the failure reaches the caller, in every mode |
| "not called more than max_escalations_per_run times" (escalation.py:253-255) | `ModelFails` | failed calls are not counted; the model is called again on every trigger |
| three consecutive failing results (triggers.md:72) | `RecordTestResults` | a result recorded inside a call counts for the previous step as well |
| "One call = one step" (guard.py:68) | `Escape` | an exception of the guard is recorded as a second step; `WorkPerCallIsBounded` says there is no third |
| "last successful output" (config.py:80) | `LastOutput` | the output of the last step, `None` if it failed |
| "matching array indices" (guard.py:306-307) | `NewStep` | step numbers stand still once the history is full |
| steps without results do not break the chain (detectors.py:266-267) | `AddStep` | they push it out of a full history |
| the context "fits within the token budget" (context.py:187-207) | `Compress` | the truncated ends are assigned to variables that are not returned |
| `last_error` is of "the most recent failed step" (context.py:47) | `LastErrorSent` | that of the last step, `None` if it succeeded |
| the summary of the middle has "similar errors (ValueError: ...)" (context.py:274) | `SummarizeMiddle` | types of errors only, each once; messages of the steps between the first and the last are not told |
| untrusted text is delimited | `AttemptLine` | texts are cut to 120 characters after they were delimited, so the closing delimiter may be lost (escalation.py:493) |
| no escalation model means detection only (guard.py:282-284) | `Invoke` of `CrewAIWrapper`, `NodeEscalationFails` | the integrations escalate without looking for a model, fail, and raise where the mode is `raise_original` or, in a node, interrupt |
| failover is "model unavailability or infrastructure failure" (cost.py:217-219) | `Category` | every escalation for `repeated_error` |
| "logs survive crashes" (logging.py:230-235) | `FlushFailed`, `Crash` | a torn line glues its neighbours; `LossIsBounded` says how many are lost |

## 4. Proofs

Assumptions: the named assumptions of the modules, that is the ranges of the
configuration and that values of different kinds differ (`None` is no error, no
task, no agent, no state object, no text, no name of a trigger; an agent's outputs
are neither the sentinel nor errors).
`Tasks` is any finite non-empty set,
`Loggers` any finite set, `Threads`, `Agents` and `Hooks` are any sets, all bounds
are arbitrary.

* **`TypeCorrect`, `ManagerCurrent`** (`GuardProofs`). `TypeInv` is the type
  invariant together with `CachedManagerIsCurrent`: a call reads
  `states[call[t].manager]`, so its type depends on the captured manager
  being that of an existing run, and neither is inductive alone.
* **`NoOscillation`** (`GuardProofs`), for the run `guard_oscillation`: the property
  `OscillationNeverFires` is what the code does where the documentation says otherwise,
  for any callers and any results. The argument is about lists. A list is
  *settled* if its last two steps with results agree, or there are not two.
  `SteadyInv` says: while nothing is pending the history is settled; while
  results are pending the last step bears exactly these; a call whose
  triggers are to be checked has just consumed what was pending. Then a check
  always sees a settled list, and a settled list does not alternate
  (`SettledMeansSteady`). That truncation, patches of the schema flag and new
  steps preserve it are the lemmas `SettledSuffix`, `SettledPatchSchema` and
  `SettledAddStep`.
* **`OvershootBounded`, `CapHoldsForOneCaller`** (`GuardProofs`). The bound on
  the counters is not inductive, since a call that passed the check adds one
  later. `BudgetInv` counts the calls between check and answer as spent
  already: count plus calls in flight never exceeds cap plus callers minus one.
  A step of a call is *quiet*, an *admission* below the cap, or an *answer*
  that trades one call in flight for one count. For one caller the bound is the
  cap.
* **`GuardImplementsBudget`** (`GuardProofs`). Every step maps to `Spend`,
  `Renew` or a stutter; an answer for an earlier run is a stutter. `BudgetInv`
  gives the guard of `Spend`.
* **`GuardFailsOpen`** (`CallerProofs`). Nothing but what the custom callback raises
  comes out of a call where the configuration promises it. The invariant adds which phases a
  configuration can reach at all: without a model none beyond the check of the
  triggers, without interrupt mode never the prompt.
* **`NoNodeExceedsCap`, `TriggerHoldsForNode`, `GraphFailsOpen`** (`GraphProofs`).
  The lemmas about `Guard` are used again: while a thread of the graph has the
  loop no step of `Guard` is possible (`NodeHoldsLoop`), and otherwise its type
  invariant holds as it is. `FoundOut` says what a node knows between its check
  and its model call: the manager is the current one, the trigger fires, and
  from the cap check on there is budget left. That the cap is looked at in the guard's state
  and counted in the manager's is why `CachedManagerIsCurrent` is part of it.
  `Reported` adds where an exception can come from.
* **`OnlyOwnSteps`** (`CrewProofs`), for the run `crew_reset`: no action but those of
  an agent's own steps changes its state (`AgentChangesByOwnStepsOnly`).
* **`ManagerComesHome`, `EscalationOnOwnAgent`** (`CrewProofs`).
  What the manager of a run works on depends on all the steps in progress.
  `Holder` says it of any level of the stack: the agent of the topmost step that
  has borrowed this manager, or the run itself if none has. `Borrowing` says
  that `target` is the holder seen from the top, and that what each step has
  saved is the holder seen from just below it; so giving back is right at
  whatever level and in whatever order managers are mixed by resets. The
  properties are the case of the top step and of no step.
* **`CrewTypeCorrect`, `NothingBleeds`** (`CrewProofs`). `DataInv` types each
  agent's history over that agent's own outputs. It rests on the stack
  invariant: fallbacks and counts go through `target`.
* **`HistoryIsBounded`, `TriggersFindStreaks`, `BoundHidesNothingElse`,
  `ReportIsInOrder`** (`DetectorProofs`). For any steps, thresholds and bound. The
  triggers read the last n elements of a set of indices, the reference counts
  steps; `StreakIs` connects them: k elements at the end of a set have a property
  and the one before them, if any, has not. A counter is the k of four such
  sets, which is what `CountsStreaks` says and what a new step preserves, so no
  induction over lists is needed. `KeptIsTheEnd` says that the history is the end
  of the list of all steps; a streak of the whole list is then one of the
  history as far as that reaches (`Truncated`). `StreakInv` is both.
* **`ModelIsToldTheError`** (`DetectorProofs`). A text is `IsText(t, n)` if it was
  delimited n times; packaging makes it with 0, whatever is compressed, `Sanitize`
  with 1, and redaction keeps that. A reported `repeated_error` means that the last
  step failed (`ReportedErrorIsLast`), and its message is what is sent
  (`LastErrorIsSent`); it is shown unless it is empty and not delimited.
* **`ModelIsToldTheHistory`** (`DetectorProofs`). Whether a list of attempts fits the
  budget stays open: the theorem holds for each answer (`WhatIsSent`). A value that
  the summary needs has a first place in the middle, and a selection of all first
  places has it (`TruthyIsTold`); if fewer outputs are told than the summary takes,
  none was cut off (`FewAreAllTold`). That the range of steps in a summary is as long
  as their number needs `IsNumbered`, the third part of `StreakInv`: steps are
  numbered from zero until the history is full and then all bear `MaxHistory`.
* **`BoundedWork`** (`CallerProofs`). Guard code takes steps of five kinds: a call
  starts, its function ends, an exception is caught, it advances, it ends
  (`CallStep`); all further proofs of this module are about these. `WorkInv` says how
  many steps and model calls a call may have made by phase and by whether it is
  inside the `except` clause, which it enters at most once.
* **`MetadataIsOfThisRun`** (`CallerProofs`). `MetaInv` adds to the property that
  what is pending was recorded in the current run as well.
* **`HistoryStandsForOneCaller`, `OneCallerSeesWhatItRecorded`,
  `ExtraStepOfOneCaller`** (`CallerProofs`). For one caller, as in the run that
  checks them; with two, another call's step may come in between. At every wait of
  the call the application may record results, which leaves outputs and errors as
  they are, or reset the guard. `SoleInv` says that, unless a reset fell into the
  call, the last step is its own: one with an error if the call is inside the
  `except` clause, else one without. What comes out of `raise_original` is then the
  error of that step, and `HistoryStandsForOneCaller` follows from what each kind
  of step does to the history the manager holds.
* **`BudgetPerAgent`** (`CrewProofs`). As `BudgetInv`, for the stack: the count of an
  agent plus the levels of its steps on their way to an answer (`InFlight`) is at
  most the cap plus the depth minus one (`CoverInv`). That an answer is counted for
  the agent whose level ends is `EscalatesOwnAgent`.
* **`ResultsOnce`** (`CrewProofs`). No two steps of all agents' histories bear the
  same recorded result (`BornOnce`), which needs that what is pending is borne by
  none (`PendingUnborn`).
* **`HooksSeeWhatIsLogged`, `NothingIsOverwritten`** (`LogProofs`). An event is
  dispatched only after the whole buffer, of which it is the end, was written;
  `AtHand` keeps that for the time between two hooks, during which other loggers
  and failed flushes add to the file. Every step leaves the file as it is or
  adds to its end (`Grows`).
* **`HooksAreServedInOrder`** (`LogProofs`). `OrderInv`: no hook is twice in the list
  of a logger; the later of two has seen a subset of what the earlier has; those
  whose turn is over have seen the event at hand; a hook outside the list has seen
  nothing of this logger.

* **`ReportsAreSound`** (`LogProofs`). No event starts twice in the file, and each that
  starts there is of the past and, if an escalation, counted (`TextInv`). This is only
  inductive together with the same for the events that wait in the buffers, which are
  in no other buffer and not in the file, and of which each starts a line (`BufferSound`).
  Two lines of a text are apart, so an event is read at most once (`LinesOf` is a
  selection of the places where a line ends), and filters and the breakdown are
  selections of selections, of which `SelectionCounts` says how many elements they have.
* **`FewAreLost`** (`LogProofs`). An event is missed only if it is glued to what is
  before it. The number of those is not inductive, since it grows later than the number
  of faults; `LossInv` counts what may still be glued as well: the glued events, one if
  the file ends within a line, and the loggers whose buffers are not empty are together
  no more than two for each fault. A failed flush cuts the file and leaves a buffer, a
  crash cuts it, and a flush that is glued to a cut or ends a buffer spends one of them.
* **`TrackerShowsTheLog`** (`TrackerProofs`). What the tracker reports are sums over
  tasks. A sum over a set is a function that is recursive over its subsets; that it
  counts a union of disjoint sets (`TotalIsCount`) is shown by looking at a smallest
  subset where it does not (`SmallestSet`), and the rest is about cardinalities.
  `TrackInv` says of each task on its own what `TrackerAgrees` says of all: its
  categories add up (`SharesAdd`) and none exceeds the escalations that its hook has
  seen (`SharesSeen`). A
  hook sees an event once because the event at hand is new to the hooks still to come
  (`HandKnown`), which needs `OrderInv`; that what it sees is in the file is
  `HooksSeeLoggedEvents`. Steps of a logger are of four kinds (`OneLogger`).
* **`LogTypesAndBounds`** (`TrackerProofs`). The bound on hooks is one on the sum of
  all lists, which a hook extends while it is called; `Bounded` keeps it, and that no
  logger has more than the sum bounds the position in a list.

Every invariant and action property of the passing runs is a theorem or an
instance of one: `DetectionFailsOpen` of `GuardFailsOpen`, `AutoFailsOpen` of
`GraphFailsOpen`, `RawPromptCarriesTriggerError` of `ModelIsToldTheError`, which are
about all constants and so about both modes of a run. Only model-checked:

* liveness (`EveryCallEnds`, `EveryNodeEnds`, `StuckAgentIsEscalated`): it needs
  fairness and ENABLED, which the prover does not handle.

`FoldLeft`, which adds up the characters of a context, is recursive, so the proofs
say nothing of its value; none of them needs it.

## 5. Not modelled

* Preemptive threads on one guard or one wrapper: `guard.py:22-26` and
  `crewai.py:58-63` exclude them. Loggers, which threads do share through the
  file, interleave freely.
* What regular expressions match, the text of prompts and summaries, the
  parsing of dates, the table the CLI prints. That CLI costs are always zero
  follows from what is logged.
* Tokens and dollars: sums of values that every caller in the package records as
  zero.
* `_truncate_attempt`, whose results are discarded.
* The stdout sink, which is neither shared nor read back.
* pydantic's validation: the ranges it enforces are assumptions. It accepts a
  threshold above the bound of the history; `TruncationIsExact` says that
  `repeated_error` is then dead.
* `BoundedHistory` (unused), the default prompt (a constant), benchmarks and the
  field study.

## 6. Plan

Not done: runs with two threads of a graph, and with a graph beside two callers.
`GraphProofs` holds for both; only `EveryNodeEnds` has not been checked there.
