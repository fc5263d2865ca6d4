\* One guarded caller and a graph that share a guard, interrupt mode, one reset:
\* the caller escalates and resets while the graph is paused.  Or auto mode.
CONSTANTS
    None = None
    Advice = Advice
    Sentinel = Sentinel
    t1 = t1
    g1 = g1
    out = out
    e1 = e1
    Tasks = {t1}
    Threads = {g1}
    NodeReports <- MCEither
    Outputs = {out}
    Errors = {e1, "EscalationError", "TriggerError",
              "HookError", "ContextError", "PromptError"}
    TestInputs = {}
    SchemaInputs = {}
    MaxHistory = 2
    Enabled = {"repeated_error"}
    MaxRetries <- MCRetries
    MaxRuns = 2
    MaxEscalations = 1
    HasModel = TRUE
    Interrupt = TRUE
    OnGuardError = "return_last_output"
    CallbackResults = {"false"}
    Faults = {"model", "template"}
SPECIFICATION MSpec
INVARIANTS
    NodeTriggerHolds
    NodesFailOpen
    FailsOpen
    AutoFailsOpen
PROPERTIES
    NodesKeepToCap
    EveryNodeEnds
