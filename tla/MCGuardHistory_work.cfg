\* One caller, raise_original: model and hooks may fail; results are recorded
\* and the guard is reset anywhere, also by the prompt and by the model.
CONSTANTS
    None = None
    Advice = Advice
    Sentinel = Sentinel
    t1 = t1
    out = out
    e1 = e1
    Tasks = {t1}
    Outputs = {out}
    Errors = {e1, "EscalationError", "TriggerError",
              "HookError", "ContextError", "PromptError"}
    TestInputs <- MCFailing
    SchemaInputs = {}
    MaxHistory = 2
    Enabled = {"custom", "repeated_error"}
    MaxRetries <- MCRetries2
    MaxRuns = 2
    MaxEscalations = 1
    HasModel = TRUE
    Interrupt = TRUE
    OnGuardError = "raise_original"
    CallbackResults = {"false", "true"}
    Faults = {"model", "hook", "cancel"}
SPECIFICATION MSpec
INVARIANTS
    CapRespected
    WorkPerCallIsBounded
    ExtraStepIsGuardError
    MetadataOfThisRun
    DetectionFailsOpen
PROPERTIES
    RaisesWhatItRecorded
    EscalatedHistoryStands
