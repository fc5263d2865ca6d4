\* A threshold above the oscillation window, which the configuration allows.
CONSTANTS
    None = None
    Outputs = {"empty", "short", "other", "long", "huge"}
    Errors = {"error", "no message", "other error"}
    TestInputs <- MCTestInputs
    MaxHistory = 4
    Enabled = {"custom", "repeated_error", "test_failure", "schema_invalid"}
    MaxRetries <- MCRetries
    Thresholds = {5}
    MaxSteps <- MCMaxSteps
    MaxContextTokens = 500
    CompressContext = TRUE
    SanitizeContext = TRUE
    RedactPatterns = TRUE
    RedactFields = {"error_message"}
    TypeOf <- MCTypeOf
    LengthOf <- MCLengthOf
    FixedChars = 200
SPECIFICATION Spec
INVARIANTS
    OscillationIgnoresThreshold
CHECK_DEADLOCK FALSE
