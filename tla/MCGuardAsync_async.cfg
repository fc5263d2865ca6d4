\* Two callers (aprotect) of one guard: every interleaving at the awaits, one reset,
\* which may fall into a call; everything outside the guarded function can fail.
\* Or the two loops of a stuck agent, with a history no longer than the threshold.
CONSTANTS
    None = None
    Advice = Advice
    Sentinel = Sentinel
    t1 = t1
    t2 = t2
    out = out
    e1 = e1
    Tasks = {t1, t2}
    Outputs = {out}
    Errors = {e1, "EscalationError", "TriggerError",
              "HookError", "ContextError", "PromptError"}
    TestInputs = {}
    SchemaInputs = {}
    MaxHistory = 1
    Enabled = {"custom"}
    MaxRetries <- MCRetries2
    MaxRuns = 2
    MaxEscalations = 1
    HasModel = TRUE
    Interrupt = TRUE
    OnGuardError = "return_last_output"
    CallbackResults = {"false", "true", "raises"}
    Faults = {"model", "context", "template", "prompt", "hook", "cancel"}
SPECIFICATION MSpec
INVARIANTS
    TypeOK
    CapOvershootBounded
    CachedManagerIsCurrent
PROPERTIES
    ImplementsBudget
    EveryCallEnds
    StuckAgentIsEscalated
