----------------------------- MODULE MCDetector -----------------------------
(***************************************************************************)
(* Every list of a bounded number of steps over small alphabets, grown one *)
(* step at a time, for TLC: the triggers of FailureDetector are compared   *)
(* with Streaks, on the list that add_step truncates and on the list it    *)
(* would be without the bound, and so is what ContextPackager tells of     *)
(* either.  A behaviour keeps to one of five alphabets, each made for one  *)
(* question.                                                               *)
(***************************************************************************)
EXTENDS Briefing

CONSTANT
    MaxSteps    \* alphabet -> bound on the length of the untruncated list

VARIABLE
    alphabet    \* the alphabet of this behaviour

vars == <<alphabet, svars>>

Step(error, tests, schema) ==
    [num |-> 0, output |-> None, error |-> error, tests |-> tests,
     schema |-> schema]

AnError == "error"
AllFail == CHOOSE x \in TestInputs : \A d \in DOMAIN x : ~ x[d]

Alphabets ==
    [ \* errors, a success
      errors |-> {Step(e, None, None) : e \in Errors \cup {None}},
      \* every input of the API, a failed step that bears results, and a
      \* step without results
      tests |-> {Step(None, r, None) : r \in TestInputs \cup {None}}
                   \cup {Step(AnError, AllFail, None)},
      \* failed or not, validated or not
      schema |-> {Step(e, None, v) : e \in {None, AnError},
                                     v \in BOOLEAN \cup {None}},
      \* outputs of every length, and a failed step, which has none
      outputs |-> {[Step(None, None, None) EXCEPT !.output = o] :
                      o \in Outputs \cup {None}}
                     \cup {Step(AnError, None, None)},
      \* a little of everything, for the order of the triggers
      mixed |-> {Step(e, r, v) : e \in {None, AnError},
                                 r \in {None, AllFail},
                                 v \in {None, FALSE}} ]

\* Results of one test or two: a absent and b absent included.
MCTestInputs ==
    {[x \in D |-> FALSE] : D \in {{"a"}, {"b"}, {"a", "b"}}} \cup
    {[x \in D |-> x = "a"] : D \in {{"a"}, {"a", "b"}}}

MCRetries == [x \in CountingTriggers |-> 3]

\* Twice the threshold and more, or one above the bound of the history.
MCMaxSteps == [errors |-> 7, tests |-> 6, schema |-> 6, mixed |-> 5,
               outputs |-> 6]

\* No characters, a few, and so many that one or two exceed the budget of
\* 2000 characters; two of three errors have a type in common, and one of
\* these no message.
MCLengthOf == [x \in Outputs \cup Errors |->
                 CASE x \in {"empty", "no message"} -> 0
                   [] x = "long" -> 1500
                   [] x = "huge" -> 3000
                   [] OTHER -> 20]

MCTypeOf == [e \in Errors |-> IF e = "other error" THEN "KeyError"
                                                   ELSE "ValueError"]

Init == alphabet \in DOMAIN Alphabets /\ StreakInit

Next ==
    /\ Len(full) < MaxSteps[alphabet]
    /\ \E s \in Alphabets[alphabet] : Add(s)
    /\ UNCHANGED alphabet

Spec == Init /\ [][Next]_vars

-----------------------------------------------------------------------------
\* The same with nothing delimited, stripped or redacted.
Raw == INSTANCE Briefing WITH SanitizeContext <- FALSE,
                              RedactPatterns <- FALSE, RedactFields <- {}

(***************************************************************************)
(* The model and the user are told the error that repeated_error fires for *)
(* also when the context is sent as it is (escalation.py:401-414).         *)
(***************************************************************************)
RawPromptCarriesTriggerError == Raw!PromptCarriesTriggerError

=============================================================================
