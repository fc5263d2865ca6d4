-------------------------- MODULE ContextPackager --------------------------
(***************************************************************************)
(* context.py and the part of escalation.py that turns it into a prompt:   *)
(* what the escalation model is told of the steps of a run.  Everything is *)
(* an operator on values, as the classes keep nothing between two calls.   *)
(*                                                                         *)
(* A text is a record of what it was made of and of what was done to it;   *)
(* attempts are functions on the keys of the dicts.  The fields that are   *)
(* only copied (tokens, cost, timestamp) and wording are left out.         *)
(***************************************************************************)
EXTENDS GuardState, Lists, SequencesExt

CONSTANTS
    MaxContextTokens,   \* config.max_context_tokens
    CompressContext,    \* config.compress_context
    SanitizeContext,    \* config.sanitize_context
    RedactPatterns,     \* whether config.redact_patterns lists any
    RedactFields,       \* config.redact_fields
    TypeOf,             \* error -> the name of its type
    LengthOf,           \* output, or message of an error -> its characters
    FixedChars          \* what str() of an attempt takes beside these

ErrorTypes == {TypeOf[e] : e \in Errors}

ASSUME ContextAssumption ==
    /\ MaxContextTokens \in Nat /\ FixedChars \in Nat
    /\ {CompressContext, SanitizeContext, RedactPatterns} \subseteq BOOLEAN
    /\ LengthOf \in [Outputs \cup Errors -> Nat]
    /\ DOMAIN TypeOf = Errors
    /\ Errors \cap Outputs = {} /\ ErrorTypes \cap (Errors \cup Outputs) = {}
    /\ None \notin [of : Errors \cup ErrorTypes, delimited : {0, 1},
                    redacted : BOOLEAN]

Plain(x) == [of |-> x, delimited |-> 0, redacted |-> FALSE]

Text(x) == IF x = None THEN None ELSE Plain(x)

Summarizes(attempt) == "_summary" \in DOMAIN attempt

TypeText(error) == IF error = None THEN None ELSE Plain(TypeOf[error])

\* _step_to_summary; the text of an error is that of its message.
StepToSummary(s) ==
    [step |-> s.num, output |-> Text(s.output), error |-> TypeText(s.error),
     error_message |-> Text(s.error), test_results |-> s.tests,
     schema_valid |-> s.schema]

Unless(attempt, key, default) ==
    IF key \in DOMAIN attempt THEN attempt[key] ELSE default

\* Python's truth of a text: it is there and not empty.
Truthy(text) ==
    /\ text # None
    /\ text.of \in Outputs \cup Errors
          => LengthOf[text.of] > 0 \/ text.delimited > 0

\* The truthy values of a key, each at its first place.
ValuesOf(attempts, key) ==
    LET values == [i \in DOMAIN attempts |-> attempts[i][key]]
    IN  SelectAt(values, {i \in DOMAIN attempts :
                            /\ Truthy(values[i])
                            /\ \A j \in 1 .. i - 1 : values[j] # values[i]})

MaxOutputs == 3

\* _summarize_middle: the range and number of the steps, every error type
\* and the first three distinct outputs.
SummarizeMiddle(middle) ==
    LET outputs == ValuesOf(middle, "output")
    IN  [first |-> Head(middle).step, last |-> Last(middle).step,
         errors |-> ValuesOf(middle, "error"),
         outputs |-> SubSeq(outputs, 1, Min({MaxOutputs, Len(outputs)})),
         total |-> Len(middle)]

\* Characters that an output takes in a summary of the middle.
Shortened(text) == Min({80, LengthOf[text.of]})

Length(text) == IF text = None THEN 0 ELSE LengthOf[text.of]

Chars(attempt) ==
    FixedChars +
    (IF Summarizes(attempt)
     THEN FoldLeft(LAMBDA n, text : n + Shortened(text), 0,
                   attempt["_summary"].of.outputs)
     ELSE Length(attempt.output) + Length(attempt.error_message))

FitsBudget(attempts) ==
    FoldLeft(LAMBDA n, a : n + Chars(a), 0, attempts) \div 4 <= MaxContextTokens

\* The ends, with or without what is between them.
Ends(attempts) == <<Head(attempts), Last(attempts)>>

EndsAndSummary(attempts, middle) ==
    <<Head(attempts), [x \in {"_summary"} |-> Plain(SummarizeMiddle(middle))],
      Last(attempts)>>

\* Mutant of Compress: the step before the last one is in no part.
CompressForgetful(attempts) ==
    LET shorter == EndsAndSummary(attempts, SubSeq(attempts, 2, Len(attempts) - 2))
    IN  IF Len(attempts) <= 2 THEN attempts
        ELSE IF Len(attempts) > 3 /\ FitsBudget(shorter) THEN shorter
        ELSE Ends(attempts)

\* _compress. When even the ends exceed the budget their texts are truncated,
\* but into variables that are not returned.
Compress(attempts) ==
    LET shorter == EndsAndSummary(attempts, SubSeq(attempts, 2, Len(attempts) - 1))
    IN  IF Len(attempts) <= 2 THEN attempts
        ELSE IF FitsBudget(shorter) THEN shorter ELSE Ends(attempts)

\* Mutant of LastErrorSent: the error of the first step is taken.
FirstErrorSent(steps) == IF steps = <<>> THEN None ELSE Text(steps[1].error)

\* The error of the last step, be it None.
LastErrorSent(steps) == Text(LastError(steps))

Package(steps) ==
    LET attempts == [i \in DOMAIN steps |-> StepToSummary(steps[i])]
    IN  [task |-> IF steps = <<>> THEN None ELSE Text(steps[1].output),
         attempts |-> IF CompressContext THEN Compress(attempts) ELSE attempts,
         lastError |-> LastErrorSent(steps)]

-----------------------------------------------------------------------------
(***************************************************************************)
(* Sanitizer and Redactor.                                                 *)
(***************************************************************************)
\* _delimit_string
Delimit(text) ==
    IF text = None THEN None ELSE [text EXCEPT !.delimited = @ + 1]

AgentKeys == {"output", "error_message", "_summary"}

Sanitize(context) ==
    LET Wrapped(a) == [k \in DOMAIN a |->
                         IF k \in AgentKeys THEN Delimit(a[k]) ELSE a[k]]
    IN  [task |-> Delimit(context.task),
         attempts |-> [i \in DOMAIN context.attempts |->
                          Wrapped(context.attempts[i])],
         lastError |-> Delimit(context.lastError)]

\* _redact_string
Clean(text) == IF text = None THEN None ELSE [text EXCEPT !.redacted = TRUE]

TextKeys == AgentKeys \cup {"error"}

\* strip_field for every field, then the patterns on every text.
Redact(context) ==
    LET Cleaned(a) == [k \in DOMAIN a \ RedactFields |->
                         IF k \in TextKeys THEN Clean(a[k]) ELSE a[k]]
    IN  [task |-> Clean(context.task),
         attempts |-> [i \in DOMAIN context.attempts |->
                          Cleaned(context.attempts[i])],
         lastError |-> Clean(context.lastError)]

\* _package_context: package, then sanitize, then redact.
PackageContext(steps) ==
    LET packaged  == Package(steps)
        sanitized == IF SanitizeContext THEN Sanitize(packaged) ELSE packaged
    IN  IF RedactPatterns \/ RedactFields # {} THEN Redact(sanitized)
                                               ELSE sanitized

-----------------------------------------------------------------------------
\* What is said of a text only if it is not empty.
Shown(text) == IF Truthy(text) THEN text ELSE None

\* A line of _format_failed_attempts; stripped fields have a default. That
\* message and output are cut to 120 characters is left out.
AttemptLine(attempt) ==
    IF Summarizes(attempt) THEN [summary |-> attempt["_summary"]]
    ELSE [step |-> Unless(attempt, "step", "?"),
          error |-> Unless(attempt, "error", None),
          message |-> Shown(Unless(attempt, "error_message", None)),
          output |-> Unless(attempt, "output", None)]

\* _build_prompt; None stands for "No error recorded."; the task description
\* is not in the template.
BuildPrompt(context) ==
    [attempts |-> [i \in DOMAIN context.attempts |->
                      AttemptLine(context.attempts[i])],
     lastError |-> Shown(context.lastError)]

Prompt(steps) == BuildPrompt(PackageContext(steps))

\* summary(): what the user sees of a context when he is asked.
SummaryForUser(context) ==
    [attempts |-> Len(context.attempts), lastError |-> Shown(context.lastError),
     task |-> Shown(context.task)]

=============================================================================
