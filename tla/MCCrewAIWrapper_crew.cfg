\* Two agents whose steps may nest, one reset of the guard.
CONSTANTS
    None = None
    Advice = Advice
    Sentinel = Sentinel
    researcher = researcher
    writer = writer
    sources = sources
    draft = draft
    e1 = e1
    Agents = {researcher, writer}
    Outputs = {sources, draft}
    OutputsOf <- MCOutputsOf
    Errors = {e1, "EscalationError", "TriggerError",
              "HookError", "ContextError", "PromptError"}
    TestInputs <- MCResults
    SchemaInputs = {FALSE}
    MaxHistory = 1
    Enabled = {"custom", "repeated_error"}
    MaxRetries <- MCRetries
    MaxDepth = 2
    MaxRuns = 2
    MaxEscalations = 1
    HasModel = TRUE
    Interrupt = TRUE
    OnGuardError = "return_last_output"
    CallbackResults = {"false", "true", "raises"}
    Faults = {"model", "prompt", "cancel"}
SYMMETRY MCSymmetry
SPECIFICATION Spec
INVARIANTS
    TypeOK
    ManagerAtHome
    EscalatesOwnAgent
    AgentBudget
    AgentsDontBleed
    ResultsReachOneStep
