\* A graph that uses the handler alone, as the documentation shows it.
CONSTANTS
    None = None
    Advice = Advice
    Sentinel = Sentinel
    t1 = t1
    g1 = g1
    out = out
    e1 = e1
    Tasks = {t1}
    Threads = {g1}
    NodeReports <- MCEither
    Outputs = {out}
    Errors = {e1, "EscalationError", "TriggerError",
              "HookError", "ContextError", "PromptError"}
    TestInputs = {}
    SchemaInputs = {}
    MaxHistory = 2
    Enabled = {"repeated_error"}
    MaxRetries <- MCRetries
    MaxRuns = 1
    MaxEscalations = 1
    HasModel = TRUE
    Interrupt = FALSE
    OnGuardError = "raise_original"
    CallbackResults = {"false"}
    Faults = {}
SPECIFICATION GraphSpec
PROPERTIES
    OnStepEndDetects
