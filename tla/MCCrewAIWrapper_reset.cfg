\* One crew after another: a reset between two agents' steps.
CONSTANTS
    None = None
    Advice = Advice
    Sentinel = Sentinel
    researcher = researcher
    writer = writer
    sources = sources
    draft = draft
    e1 = e1
    Agents = {researcher, writer}
    Outputs = {sources, draft}
    OutputsOf <- MCOutputsOf
    Errors = {e1, "EscalationError", "TriggerError",
              "HookError", "ContextError", "PromptError"}
    TestInputs <- MCResults
    SchemaInputs = {FALSE}
    MaxHistory = 1
    Enabled = {"custom", "repeated_error"}
    MaxRetries <- MCRetries
    MaxDepth = 1
    MaxRuns = 2
    MaxEscalations = 1
    HasModel = TRUE
    Interrupt = FALSE
    OnGuardError = "return_last_output"
    CallbackResults = {"false", "true", "raises"}
    Faults = {}
SPECIFICATION Spec
PROPERTIES
    ResetClearsAgents
