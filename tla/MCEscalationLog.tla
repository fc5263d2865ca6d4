-------------------------- MODULE MCEscalationLog --------------------------
(***************************************************************************)
(* Two guards of one process for TLC.                                      *)
(***************************************************************************)
EXTENDS EscalationLog

CONSTANTS g1, g2

\* The guards differ in their triggers and in their escalation model; a
\* pattern finds one model or both.
MCTriggersOf == [l \in Loggers |-> IF l = g1 THEN {"repeated_error"}
                                            ELSE {"custom"}]

\* Triggers that fire for a step that has not failed: only such a step is
\* resolved inside the try block of _step_sync, whose except clause resolves
\* the error of the guard again.
MCCustom == [l \in Loggers |-> {"custom"}]

MCCapOf == [l \in Loggers |-> IF l = g1 THEN 1 ELSE 2]

MCModelOf == [l \in Loggers |-> IF l = g1 THEN "gpt-4" ELSE "gpt-4-turbo"]

MCPatterns == [p \in {"gpt-4", "turbo"} |->
                 IF p = "turbo" THEN {"gpt-4-turbo"}
                                ELSE {"gpt-4", "gpt-4-turbo"}]

=============================================================================
