\* Two callers, cap of one.
CONSTANTS
    None = None
    Advice = Advice
    Sentinel = Sentinel
    t1 = t1
    t2 = t2
    out = out
    e1 = e1
    Tasks = {t1, t2}
    Outputs = {out}
    Errors = {e1, "EscalationError", "TriggerError",
              "HookError", "ContextError", "PromptError"}
    TestInputs = {}
    SchemaInputs = {}
    MaxHistory = 2
    Enabled = {"repeated_error"}
    MaxRetries <- MCRetries2
    MaxRuns = 1
    MaxEscalations = 1
    HasModel = TRUE
    Interrupt = FALSE
    OnGuardError = "raise_original"
    CallbackResults = {"false"}
    Faults = {}
SPECIFICATION Spec
INVARIANTS
    CapRespected
