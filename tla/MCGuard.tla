------------------------------ MODULE MCGuard ------------------------------
(***************************************************************************)
(* Small instances of Guard for TLC.                                       *)
(***************************************************************************)
EXTENDS Guard

\* Thresholds: the code accepts 1 to 20 and defaults to 3.
Retries(n) == [x \in CountingTriggers |-> n]
MCRetries1 == Retries(1)
MCRetries2 == Retries(2)
MCRetries3 == Retries(3)

\* Results of one test.
MCOneTest == [{"a"} -> BOOLEAN]
MCFailing == {[x \in {"a"} |-> FALSE]}

=============================================================================
