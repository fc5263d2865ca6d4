\* All triggers, thresholds of 3 and at the ends of the range, a history that keeps 4 steps of up to 7.
CONSTANTS
    None = None
    Outputs = {"empty", "short", "other", "long", "huge"}
    Errors = {"error", "no message", "other error"}
    TestInputs <- MCTestInputs
    MaxHistory = 4
    Enabled = {"custom", "repeated_error", "test_failure", "schema_invalid"}
    MaxRetries <- MCRetries
    Thresholds = {1, 4, 5}
    MaxSteps <- MCMaxSteps
    MaxContextTokens = 500
    CompressContext = TRUE
    SanitizeContext = TRUE
    RedactPatterns = TRUE
    RedactFields = {"error_message"}
    TypeOf <- MCTypeOf
    LengthOf <- MCLengthOf
    FixedChars = 200
SPECIFICATION Spec
INVARIANTS
    StreakTypeOK
    TriggersAreStreaks
    TruncationIsExact
    ReportedInOrder
    ContextCoversHistory
    PromptCarriesTriggerError
    RawPromptCarriesTriggerError
CHECK_DEADLOCK FALSE
