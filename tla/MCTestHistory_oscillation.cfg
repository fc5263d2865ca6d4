\* One caller whose test alternates, as docs/triggers.md shows it.
CONSTANTS
    None = None
    Advice = Advice
    Sentinel = Sentinel
    t1 = t1
    out = out
    Tasks = {t1}
    Outputs = {out}
    Errors = {"EscalationError", "TriggerError",
              "HookError", "ContextError", "PromptError"}
    TestInputs <- MCOneTest
    SchemaInputs = {}
    MaxHistory = 5
    Enabled = {"test_failure"}
    MaxRetries <- MCRetries3
    MaxRuns = 1
    MaxEscalations = 1
    HasModel = TRUE
    Interrupt = FALSE
    OnGuardError = "raise_original"
    CallbackResults = {"false"}
    Faults = {}
SPECIFICATION TSpec
PROPERTIES
    OscillationIsDetected
