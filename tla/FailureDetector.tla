-------------------------- MODULE FailureDetector --------------------------
(***************************************************************************)
(* The four triggers of detectors.py as operators on a list of steps.      *)
(* A Python slice xs[-n:] of a filtered list is modelled as the set of the *)
(* n largest indices that pass the filter (LastOf), so no trigger needs    *)
(* recursion and each can be reasoned about.                               *)
(***************************************************************************)
EXTENDS GuardState, FiniteSets

CONSTANTS
    Enabled,     \* names of the configured triggers whose enabled flag is set
    MaxRetries   \* name -> TriggerConfig.max_retries, for the counting triggers

CountingTriggers == {"repeated_error", "test_failure", "schema_invalid"}

(***************************************************************************)
(* The two modes of test_failure, which the code tells apart in the detail *)
(* of its TriggerResult, are told apart here by their name.                *)
(***************************************************************************)
TriggerKinds ==
    {"custom", "repeated_error", "consecutive_failure", "oscillation",
     "schema_invalid"}

ASSUME DetectorAssumption ==
    /\ Enabled \subseteq CountingTriggers \cup {"custom"}
    /\ MaxRetries \in [CountingTriggers -> Nat \ {0}]
    /\ None \notin TriggerKinds

\* _OSCILLATION_WINDOW
OscillationWindow == 4

\* What a callback of the custom trigger can do when it is called.
CallbackVerdicts == {"false", "true", "raises"}

\* The n largest elements of S: xs[-n:] for the list of indices S.
LastOf(S, n) == {i \in S : Cardinality({j \in S : i < j}) < n}

WithTests(steps)  == {i \in DOMAIN steps : steps[i].tests # None}
WithSchema(steps) == {i \in DOMAIN steps : steps[i].schema # None}

\* Tests present in the results of every step of the window W.
CommonTests(steps, W) ==
    {x \in UNION {DOMAIN steps[i].tests : i \in W} :
        \A i \in W : x \in DOMAIN steps[i].tests}

\* Mutant of RepeatedError: one step more is asked for.
RepeatedErrorLate(steps, n) ==
    /\ Len(steps) > n
    /\ \E e \in Errors :
          \A i \in LastOf(DOMAIN steps, n) : steps[i].error = e

\* The last n steps, whatever they are, failed with the same error.
RepeatedError(steps, n) ==
    /\ Len(steps) >= n
    /\ \E e \in Errors :
          \A i \in LastOf(DOMAIN steps, n) : steps[i].error = e

\* Some test is in, and failed in, each of the last n steps with results.
ConsecutiveFailure(steps, n) ==
    LET W == LastOf(WithTests(steps), n)
    IN  /\ Cardinality(WithTests(steps)) >= n
        /\ \E x \in CommonTests(steps, W) :
              \A i \in W : steps[i].tests[x] = FALSE

\* i and j are neighbours in the window W.
Adjacent(W, i, j) == i < j /\ \A k \in W : k <= i \/ j <= k

\* Mutant of Oscillation: the window is as long as the threshold.
OscillationOverThreshold(steps, n) ==
    LET W == LastOf(WithTests(steps), n)
    IN  /\ Cardinality(WithTests(steps)) >= n
        /\ \E x \in CommonTests(steps, W) :
              \A i, j \in W :
                 Adjacent(W, i, j) => steps[i].tests[x] # steps[j].tests[x]

\* Some test alternates over the last four steps with results.  The caller
\* has already returned if there are fewer than max_retries such steps.
Oscillation(steps, n) ==
    LET W == LastOf(WithTests(steps), OscillationWindow)
    IN  /\ Cardinality(WithTests(steps)) >= n
        /\ Cardinality(WithTests(steps)) >= OscillationWindow
        /\ \E x \in CommonTests(steps, W) :
              \A i, j \in W :
                 Adjacent(W, i, j) => steps[i].tests[x] # steps[j].tests[x]

\* The last n steps that were validated were all invalid.
SchemaInvalid(steps, n) ==
    /\ Len(steps) >= n
    /\ Cardinality(WithSchema(steps)) >= n
    /\ \A i \in LastOf(WithSchema(steps), n) : steps[i].schema = FALSE

\* Mutant of TriggerOrder: tests before errors.
TestsFirst ==
    <<"custom", "consecutive_failure", "oscillation", "repeated_error",
      "schema_invalid">>

(***************************************************************************)
(* check(): custom, repeated_error, test_failure, schema_invalid, first    *)
(* one wins; test_failure itself tries a run of failures before an         *)
(* oscillation.                                                            *)
(***************************************************************************)
TriggerOrder ==
    <<"custom", "repeated_error", "consecutive_failure", "oscillation",
      "schema_invalid">>

Fires(kind, steps, verdict) ==
    CASE kind = "custom" ->
            "custom" \in Enabled /\ verdict = "true"
      [] kind = "repeated_error" ->
            kind \in Enabled /\ RepeatedError(steps, MaxRetries[kind])
      [] kind = "consecutive_failure" ->
            /\ "test_failure" \in Enabled
            /\ ConsecutiveFailure(steps, MaxRetries["test_failure"])
      [] kind = "oscillation" ->
            /\ "test_failure" \in Enabled
            /\ Oscillation(steps, MaxRetries["test_failure"])
      [] kind = "schema_invalid" ->
            kind \in Enabled /\ SchemaInvalid(steps, MaxRetries[kind])

\* The trigger check() returns, or None.  A raising callback is the
\* caller's case: check() itself then raises TriggerError.
Check(steps, verdict) ==
    LET hits == {i \in DOMAIN TriggerOrder :
                    Fires(TriggerOrder[i], steps, verdict)}
    IN  IF hits = {} THEN None
        ELSE TriggerOrder[CHOOSE i \in hits : \A j \in hits : i <= j]

CheckRaises(verdict) == "custom" \in Enabled /\ verdict = "raises"

=============================================================================
