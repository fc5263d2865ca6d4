------------------------------ MODULE Streaks ------------------------------
(***************************************************************************)
(* What a detector without a history would know.  Steps are added to the   *)
(* list that the guard keeps and to one that is never truncated, and the   *)
(* streaks that detectors.py is documented to look for are counted step by *)
(* step.  The triggers, which read lists, are compared with the counters.  *)
(***************************************************************************)
EXTENDS FailureDetector

CONSTANT
    Thresholds   \* values of max_retries that are asked about

ASSUME StreakAssumption == Thresholds \subseteq Nat \ {0}

VARIABLES
    full,       \* all the steps ever added
    kept,       \* GuardState.steps: what add_step keeps of them
    streaks     \* the counters

svars == <<full, kept, streaks>>

TestNames == UNION {DOMAIN r : r \in TestInputs}

(***************************************************************************)
(* For each error and each test, of how many steps the streak consists     *)
(* that the history ends with; the results of the last step that bears     *)
(* any; how many steps bear results.                                       *)
(***************************************************************************)
StreakCounts ==
    [errors   : [Errors -> Nat],      \* steps in a row with this error
     failures : [TestNames -> Nat],   \* results in a row with this test failed
     flips    : [TestNames -> Nat],   \* results in a row unlike those before
     results  : TestInputs \cup {None},
     tested   : Nat,
     invalid  : Nat]                  \* validations in a row that failed

NoStreaks ==
    [errors |-> [e \in Errors |-> 0], failures |-> [x \in TestNames |-> 0],
     flips |-> [x \in TestNames |-> 0], results |-> None, tested |-> 0,
     invalid |-> 0]

Failed(r, x) == x \in DOMAIN r /\ ~ r[x]

Flipped(before, r, x) ==
    before # None /\ x \in DOMAIN before \cap DOMAIN r /\ before[x] # r[x]

\* A streak that goes on, or breaks.
Counted(n, goes) == IF goes THEN n + 1 ELSE 0

\* Every step counts for the errors, only one with results for the tests,
\* and only one that was validated for the schema.
Count(k, s) ==
    [errors |-> [e \in Errors |-> Counted(k.errors[e], s.error = e)],
     failures |->
        IF s.tests = None THEN k.failures
        ELSE [x \in TestNames |-> Counted(k.failures[x], Failed(s.tests, x))],
     flips |->
        IF s.tests = None THEN k.flips
        ELSE [x \in TestNames |->
                 Counted(k.flips[x], Flipped(k.results, s.tests, x))],
     results |-> IF s.tests = None THEN k.results ELSE s.tests,
     tested |-> IF s.tests = None THEN k.tested ELSE k.tested + 1,
     invalid |-> IF s.schema = None THEN k.invalid
                                    ELSE Counted(k.invalid, ~ s.schema)]

StreakInit == full = <<>> /\ kept = <<>> /\ streaks = NoStreaks

\* A step is recorded under the number of steps that are held.
Add(s) ==
    LET record == [s EXCEPT !.num = Len(kept)]
    IN  /\ full' = Append(full, record)
        /\ kept' = AddStep(kept, record)
        /\ streaks' = Count(streaks, record)

StreakNext == \E s \in StepRecord : Add(s)

StreakSpec == StreakInit /\ [][StreakNext]_svars

-----------------------------------------------------------------------------
(***************************************************************************)
(* Type invariant: add_step keeps a list of step records within the bound. *)
(***************************************************************************)
StreakTypeOK ==
    /\ full \in Seq(StepRecord)
    /\ kept \in Seq(StepRecord) /\ Len(kept) <= MaxHistory
    /\ streaks \in StreakCounts

ErrorRepeats(n) == \E e \in Errors : streaks.errors[e] >= n
TestFails(n)    == \E x \in TestNames : streaks.failures[x] >= n
TestFlips       == \E x \in TestNames : streaks.flips[x] >= 3
SchemaFails(n)  == streaks.invalid >= n

(***************************************************************************)
(* Each trigger fires exactly on the streak it is documented to look for   *)
(* (detectors.py:193-420).  A success or another error breaks a run of     *)
(* errors; a step that bears no results, or was not validated, breaks      *)
(* nothing; a test that is absent from results breaks its own run.  That   *)
(* max_retries says nothing about oscillation holds up to the window.      *)
(***************************************************************************)
TriggersAreStreaks ==
    \A n \in Thresholds :
        /\ RepeatedError(full, n) <=> ErrorRepeats(n)
        /\ ConsecutiveFailure(full, n) <=> TestFails(n)
        /\ n <= OscillationWindow => (Oscillation(full, n) <=> TestFlips)
        /\ SchemaInvalid(full, n) <=> SchemaFails(n)

(***************************************************************************)
(* "Oscillation ... over a fixed 4-step window (independent of             *)
(* max_retries)" (docs/triggers.md:40; detectors.py:351-352), for the      *)
(* thresholds above the window as well.                                    *)
(***************************************************************************)
OscillationIgnoresThreshold ==
    \A n \in Thresholds : TestFlips => Oscillation(full, n)

HeldTests   == Cardinality(WithTests(kept))
HeldSchemas == Cardinality(WithSchema(kept))

(***************************************************************************)
(* Dropping the oldest steps makes no trigger fire and hides a streak only *)
(* when too few steps are held that count for it: of repeated errors, when *)
(* max_retries exceeds max_history_steps, which the configuration allows   *)
(* (config.py:130); of tests and schemas also when steps without results   *)
(* have pushed out those with them (_internal/state.py:148-150).           *)
(***************************************************************************)
TruncationIsExact ==
    \A n \in Thresholds :
        /\ RepeatedError(kept, n) <=> n <= MaxHistory /\ ErrorRepeats(n)
        /\ ConsecutiveFailure(kept, n) <=> HeldTests >= n /\ TestFails(n)
        /\ Oscillation(kept, n) <=>
              HeldTests >= n /\ HeldTests >= OscillationWindow /\ TestFlips
        /\ SchemaInvalid(kept, n) <=> HeldSchemas >= n /\ SchemaFails(n)

(***************************************************************************)
(* The trigger check() reports on the history the guard keeps is the first *)
(* of the documented order whose streak is complete: a predicate that      *)
(* returns true hides repeated errors, these hide failing tests, those     *)
(* hide flipping ones, and these hide invalid schemas (detectors.py:45-53, *)
(* 179-191).                                                               *)
(***************************************************************************)
ReportedInOrder ==
    \A verdict \in CallbackVerdicts \ {"raises"} :
    LET n        == MaxRetries
        kind     == Check(kept, verdict)
        custom   == "custom" \in Enabled /\ verdict = "true"
        errors   == /\ "repeated_error" \in Enabled
                    /\ n["repeated_error"] <= MaxHistory
                    /\ ErrorRepeats(n["repeated_error"])
        held     == /\ "test_failure" \in Enabled
                    /\ HeldTests >= n["test_failure"]
        failing  == held /\ TestFails(n["test_failure"])
        flipping == held /\ HeldTests >= OscillationWindow /\ TestFlips
        schemas  == /\ "schema_invalid" \in Enabled
                    /\ HeldSchemas >= n["schema_invalid"]
                    /\ SchemaFails(n["schema_invalid"])
    IN  /\ (kind = "custom") <=> custom
        /\ (kind = "repeated_error") <=> (~ custom /\ errors)
        /\ (kind = "consecutive_failure") <=> (~ custom /\ ~ errors /\ failing)
        /\ (kind = "oscillation") <=>
              (~ custom /\ ~ errors /\ ~ failing /\ flipping)
        /\ (kind = "schema_invalid") <=>
              (~ custom /\ ~ errors /\ ~ failing /\ ~ flipping /\ schemas)
        /\ (kind = None) <=>
              ~ (custom \/ errors \/ failing \/ flipping \/ schemas)

=============================================================================
