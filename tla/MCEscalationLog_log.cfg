\* Two guards that log to one file, two hooks, and two failed flushes or crashes.
CONSTANTS
    None = None
    g1 = g1
    g2 = g2
    Loggers = {g1, g2}
    Hooks = {"otel", "tracker"}
    OTelHook = "otel"
    TrackerHook = "tracker"
    TriggersOf <- MCTriggersOf
    ModelOf <- MCModelOf
    CapOf <- MCCapOf
    Patterns <- MCPatterns
    Mode = "return_sentinel"
    Closing = {g1}
    Faults = {"disk", "hook", "crash"}
    MaxEvents = 3
    MaxHooks = 2
    MaxCalls = 2
    MaxTorn = 2
SPECIFICATION LogSpec
CHECK_DEADLOCK FALSE
INVARIANTS
    LogTypeOK
    HooksSeeLoggedEvents
    LaterHooksSeeNoMore
    AnalyzeIsSound
    LossIsBounded
    TrackerAgrees
PROPERTIES
    FileOnlyGrows
