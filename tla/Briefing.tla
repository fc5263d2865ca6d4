------------------------------ MODULE Briefing ------------------------------
(***************************************************************************)
(* What ContextPackager has to tell, of the steps that Streaks adds: the   *)
(* history a trigger fires on is the one that the escalation model is      *)
(* briefed on (escalation.py:387-416).                                     *)
(***************************************************************************)
EXTENDS Streaks, ContextPackager

(***************************************************************************)
(* What the escalation model is told covers the history: the first and the *)
(* last step; unless the budget does not allow it, of the steps between    *)
(* them their number, every type of error and the outputs as far as they   *)
(* fit (context.py:181-239, 291-312); messages of their errors are not     *)
(* told.  More than the budget is only sent when the ends alone exceed it. *)
(* The numbers of the steps agree with their count until the list has been *)
(* full for one step, after which they stand still (guard.py:312).         *)
(***************************************************************************)
Summarized(sent) == {i \in DOMAIN sent : Summarizes(sent[i])}

CoversHistory(steps) ==
    LET sent == Package(steps).attempts
    IN  /\ Head(sent) = StepToSummary(Head(steps))
        /\ Last(sent) = StepToSummary(Last(steps))
        /\ CompressContext /\ ~ FitsBudget(sent)
              => sent = Ends(sent) \/ Len(steps) = 1
        /\ \A i \in Summarized(sent) :
              LET told == sent[i]["_summary"].of
                  types == {Head(sent).error, Last(sent).error}
                              \cup Range(told.errors)
              IN  /\ told.total + 2 = Len(steps)
                  /\ \A j \in DOMAIN steps : TypeText(steps[j].error) \in types \cup {None}
                  /\ Len(told.outputs) < MaxOutputs =>
                        \A j \in 2 .. Len(steps) - 1 :
                           Truthy(Text(steps[j].output))
                              => Text(steps[j].output) \in Range(told.outputs)
                  /\ Len(full) <= MaxHistory + 1 =>
                        told.last - told.first + 1 = told.total

ContextCoversHistory == full # <<>> => CoversHistory(full) /\ CoversHistory(kept)

(***************************************************************************)
(* Whatever is compressed, delimited, redacted or stripped, the model and  *)
(* a user who is asked are told the message that repeated_error fires for  *)
(* (context.py:145-147), if it is not empty: an empty one is "No error     *)
(* recorded." unless it is delimited (escalation.py:446).  No text of the  *)
(* agent that is sent lacks the delimiter before it or has it twice. The   *)
(* one behind it may be missing: a line of the prompt is cut after it was  *)
(* delimited (escalation.py:493).                                          *)
(***************************************************************************)
PromptCarriesTriggerError ==
    LET prompt == Prompt(kept)
        Once(text) == text # None => text.delimited = 1
        Said(e) == SanitizeContext \/ LengthOf[e] > 0
    IN  /\ Check(kept, "false") = "repeated_error" /\ Said(Last(kept).error) =>
              /\ prompt.lastError # None
              /\ prompt.lastError.of = Last(kept).error
              /\ SummaryForUser(PackageContext(kept)).lastError = prompt.lastError
        /\ SanitizeContext =>
              /\ Once(prompt.lastError)
              /\ \A i \in DOMAIN prompt.attempts :
                    LET line == prompt.attempts[i]
                    IN  IF "summary" \in DOMAIN line THEN Once(line.summary)
                        ELSE Once(line.message) /\ Once(line.output)

=============================================================================
