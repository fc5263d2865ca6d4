\* Guards that raise original errors, and hooks that raise.
CONSTANTS
    None = None
    g1 = g1
    g2 = g2
    Loggers = {g1, g2}
    Hooks = {"otel", "tracker"}
    OTelHook = "otel"
    TrackerHook = "tracker"
    TriggersOf <- MCCustom
    ModelOf <- MCModelOf
    CapOf <- MCCapOf
    Patterns <- MCPatterns
    Mode = "raise_original"
    Closing = {}
    Faults = {"hook"}
    MaxEvents = 3
    MaxHooks = 2
    MaxCalls = 2
    MaxTorn = 0
SPECIFICATION LogSpec
CHECK_DEADLOCK FALSE
INVARIANTS
    EscalationRateIsFraction
