---------------------------- MODULE CallerProofs ----------------------------
(***************************************************************************)
(* Theorems about the course of one guarded call: how much work it does,   *)
(* whose results its steps bear, when it does not raise, and, for a single *)
(* caller, what an escalation is told and what is raised.                  *)
(***************************************************************************)
EXTENDS GuardHistory, GuardProofs

-----------------------------------------------------------------------------
(***************************************************************************)
(* A step of a call is of one of five kinds.  The proofs below are about   *)
(* these, not about the actions of Guard.                                  *)
(***************************************************************************)
Escalation == {"escalate", "prompt", "package", "invoke", "failopen"}

Working(t) == call[t].phase \in {"resolve"} \cup Escalation

StepsKept ==
    /\ cur' = cur /\ pending' = pending
    /\ \A r \in Runs : states'[r].steps = states[r].steps

\* The call begins.
Starts(t) ==
    /\ call[t].phase = "idle"
    /\ call'[t].phase = "body" /\ ~ call'[t].handling
    /\ call'[t].trigger = None /\ call'[t].result = NoResult
    /\ StepsKept

\* The guarded function is over and its step is recorded.
FunctionEnds(t) ==
    /\ call[t].phase = "body" /\ call'[t].phase = "resolve"
    /\ call'[t].trigger = call[t].trigger
    /\ call'[t].manager = call[t].manager
    /\ call'[t].result = call[t].result
    /\ \/ /\ call'[t].handling = call[t].handling
          /\ \E v \in Outputs : Record(v, None)
       \/ /\ call'[t].handling
          /\ \E e \in Errors : Record(None, e)

\* An exception of the guard is caught and recorded as a second step.
Caught(t) ==
    /\ Working(t) /\ ~ call[t].handling
    /\ call'[t].phase = "resolve" /\ call'[t].handling
    /\ call'[t].trigger = None /\ call'[t].manager = call[t].manager
    /\ call'[t].result = call[t].result
    /\ \E e \in Errors : /\ Record(None, e)
                         /\ e \in GuardErrors \/ e = LastError(Managed(t).steps)

\* The call goes on, and no further than this.
Follows(p, q) ==
    \/ p = "resolve" /\ q = "escalate"
    \/ p = "escalate" /\ q = "package"
    \/ p = "escalate" /\ q = "prompt" /\ Interrupt
    \/ p = "prompt" /\ q = "package"
    \/ p = "package" /\ q \in {"invoke", "failopen"}
    \/ p = "invoke" /\ q = "failopen"

Advances(t) ==
    /\ Follows(call[t].phase, call'[t].phase)
    /\ call'[t].handling = call[t].handling
    /\ call'[t].manager = call[t].manager
    /\ call'[t].result = call[t].result
    /\ IF call[t].phase = "resolve"
       THEN \E c : call'[t].trigger = Verdict(c)
       ELSE call'[t].trigger = call[t].trigger
    /\ StepsKept

\* What is raised outside the guard's try block, by hooks, the custom
\* callback, the prompt, and the context that is packaged for it.
FromOutside == GuardErrors \ {"EscalationError"}

\* The call is over.
Ends(t) ==
    /\ call[t].phase # "idle"
    /\ \E r \in Result :
          /\ call'[t] = IdleCall(r)
          /\ r.how = "raised" =>
                /\ Working(t) /\ call[t].handling
                /\ r.value = OriginalError(t) \/ r.value \in FromOutside
    /\ StepsKept

CallStep(t) ==
    /\ running \in {None, t}
    /\ \A u \in Tasks \ {t} : call'[u] = call[u]
    /\ Starts(t) \/ FunctionEnds(t) \/ Caught(t) \/ Advances(t) \/ Ends(t)

-----------------------------------------------------------------------------
LEMMA FinishIsCallStep ==
    ASSUME TypeInv, NEW t \in Tasks, running \in {None, t},
           call[t].phase # "idle", NEW r \in Result, Finish(t, r), StepsKept,
           r.how = "raised" =>
                /\ Working(t) /\ call[t].handling
                /\ r.value = OriginalError(t) \/ r.value \in FromOutside
    PROVE  CallStep(t)
<1>1. call'[t] = IdleCall(r) /\ \A u \in Tasks \ {t} : call'[u] = call[u]
  BY FinishType
<1> QED BY <1>1 DEF CallStep, Ends

LEMMA AdvanceIsCallStep ==
    ASSUME TypeInv, NEW t \in Tasks, running \in {None, t},
           call[t].phase # "resolve", NEW p, Goto(t, p) \/ Await(t, p),
           Follows(call[t].phase, p), StepsKept
    PROVE  CallStep(t)
<1>1. call' = [call EXCEPT ![t].phase = p]
  BY DEF Goto, Await
<1>2. /\ call'[t].phase = p
      /\ call'[t].trigger = call[t].trigger
      /\ call'[t].handling = call[t].handling
      /\ call'[t].manager = call[t].manager
      /\ call'[t].result = call[t].result
      /\ \A u \in Tasks \ {t} : call'[u] = call[u]
  BY <1>1 DEF TypeInv, TypeOK, Call
<1> QED BY <1>2 DEF CallStep, Advances

LEMMA GuardErrorsNamed ==
    /\ "EscalationError" \in GuardErrors
    /\ {"TriggerError", "HookError", "ContextError", "PromptError"}
          \subseteq FromOutside
BY DEF GuardErrors, FromOutside

\* Whoever raises out of the resolution of a step.
LEMMA EscapeIsCallStep ==
    ASSUME TypeInv, NEW t \in Tasks, running \in {None, t}, Working(t),
           NEW e \in Errors, Escape(t, e),
           e = OriginalError(t) \/ e \in FromOutside
    PROVE  CallStep(t)
<1>1. CASE /\ ~ call[t].handling /\ Record(None, e)
           /\ call' = [call EXCEPT ![t].phase = "resolve",
                 ![t].handling = TRUE, ![t].output = None, ![t].trigger = None]
  <2>1. /\ call'[t].phase = "resolve" /\ call'[t].handling
        /\ call'[t].trigger = None /\ call'[t].manager = call[t].manager
        /\ call'[t].result = call[t].result
        /\ \A u \in Tasks \ {t} : call'[u] = call[u]
    BY <1>1 DEF TypeInv, TypeOK, Call
  <2>2. e \in GuardErrors \/ e = LastError(Managed(t).steps)
    BY GuardErrorsNamed DEF FromOutside, OriginalError
  <2> QED BY <1>1, <2>1, <2>2 DEF CallStep, Caught
<1>2. CASE call[t].handling /\ Finish(t, Raised(e)) /\ KeepState
  <2>1. Raised(e) \in Result /\ Raised(e).value = e
    BY ResultType DEF Raised
  <2>2. StepsKept /\ call[t].phase # "idle"
    BY <1>2 DEF KeepState, StepsKept, Working, Escalation
  <2> QED BY <1>2, <2>1, <2>2, FinishIsCallStep
<1> QED BY <1>1, <1>2 DEF Escape

LEMMA BeginIsCallStep ==
    ASSUME TypeInv, NEW t \in Tasks, Begin(t)
    PROVE  CallStep(t) /\ call'[t].manager = cur
<1>1. /\ call[t].phase = "idle" /\ call'[t].phase = "body"
      /\ ~ call'[t].handling /\ call'[t].trigger = None
      /\ call'[t].manager = EnsuredComponents.manager
      /\ call'[t].result = NoResult
      /\ \A u \in Tasks \ {t} : call'[u] = call[u]
  BY DEF Begin, TypeInv, TypeOK, IdleCall
<1>2. EnsuredComponents.manager = cur
  BY DEF EnsuredComponents, TypeInv, CachedManagerIsCurrent
<1>3. StepsKept /\ running = None
  BY DEF Begin, StepsKept
<1> QED BY <1>1, <1>2, <1>3 DEF CallStep, Starts

LEMMA InterruptedIsCallStep ==
    ASSUME TypeInv, NEW t \in Tasks, Interrupted(t)
    PROVE  CallStep(t)
<1>1. StepsKept /\ running = None /\ call[t].phase # "idle"
  BY DEF Interrupted, KeepState, StepsKept, Waiting
<1>2. Cancelled \in Result /\ Cancelled.how # "raised"
  BY ResultType DEF Cancelled
<1> QED BY <1>1, <1>2, FinishIsCallStep DEF Interrupted

\* A call that returns a value.
LEMMA ReturnIsCallStep ==
    ASSUME TypeInv, NEW t \in Tasks, running \in {None, t},
           call[t].phase # "idle", NEW v \in ResultValues,
           Finish(t, Returned(v)), StepsKept
    PROVE  CallStep(t)
<1>1. Returned(v) \in Result /\ Returned(v).how # "raised"
  BY ResultType DEF Returned
<1> QED BY <1>1, FinishIsCallStep

LEMMA ResumeIsCallStep ==
    ASSUME TypeInv, NEW t \in Tasks, Resume(t)
    PROVE  CallStep(t)
<1>1. ASSUME NEW v \in Outputs, FunctionReturns(t, v) PROVE CallStep(t)
  <2>1. /\ call'[t].phase = "resolve" /\ call'[t].trigger = call[t].trigger
        /\ call'[t].handling = call[t].handling
        /\ call'[t].manager = call[t].manager
        /\ call'[t].result = call[t].result
        /\ \A u \in Tasks \ {t} : call'[u] = call[u]
    BY <1>1 DEF FunctionReturns, TypeInv, TypeOK, Call
  <2> QED BY <1>1, <2>1 DEF FunctionReturns, CallStep, FunctionEnds
<1>2. ASSUME NEW e \in AgentErrors, FunctionRaises(t, e) PROVE CallStep(t)
  <2>1. /\ call'[t].phase = "resolve" /\ call'[t].trigger = call[t].trigger
        /\ call'[t].handling
        /\ call'[t].manager = call[t].manager
        /\ call'[t].result = call[t].result
        /\ \A u \in Tasks \ {t} : call'[u] = call[u]
    BY <1>2 DEF FunctionRaises, TypeInv, TypeOK, Call
  <2>2. e \in Errors
    BY DEF AgentErrors
  <2> QED BY <1>2, <2>1, <2>2 DEF FunctionRaises, CallStep, FunctionEnds
<1>3. CASE Approved(t)
  BY <1>3, AdvanceIsCallStep DEF Approved, KeepState, StepsKept, Follows
<1>4. CASE Declined(t)
  <2>1. call[t].phase # "idle" /\ running = None /\ StepsKept
    BY <1>4 DEF Declined, KeepState, StepsKept
  <2>2. LastOutput(Managed(t).steps) \in ResultValues
    BY <2>1, ManagedType DEF ResultValues
  <2> QED BY <1>4, <2>1, <2>2, ReturnIsCallStep DEF Declined
<1>5. CASE PromptFails(t)
  <2>1. Working(t) /\ running = None
    BY <1>5 DEF PromptFails, Working, Escalation
  <2> QED
    BY <1>5, <2>1, EscapeIsCallStep, GuardErrorsAreErrors, GuardErrorsNamed
    DEF PromptFails
<1>6. CASE ModelAnswers(t)
  <2>1. running = None /\ StepsKept /\ call[t].phase = "invoke"
    BY <1>6 DEF ModelAnswers, StepsKept, TypeInv, TypeOK, StateObject
  <2>2. Advice \in ResultValues
    BY DEF ResultValues
  <2>3. CASE Finish(t, Returned(Advice))
    BY <2>1, <2>2, <2>3, ReturnIsCallStep
  <2>4. CASE Goto(t, "failopen")
    BY <2>1, <2>4, AdvanceIsCallStep DEF Follows
  <2> QED BY <1>6, <2>3, <2>4 DEF ModelAnswers
<1>7. CASE ModelFails(t)
  BY <1>7, AdvanceIsCallStep DEF ModelFails, KeepState, StepsKept, Follows
<1> QED BY <1>1, <1>2, <1>3, <1>4, <1>5, <1>6, <1>7 DEF Resume

LEMMA ProceedIsCallStep ==
    ASSUME TypeInv, NEW t \in Tasks, Proceed(t)
    PROVE  CallStep(t)
<1>a. KeepState => StepsKept
  BY DEF KeepState, StepsKept
<1>1. ASSUME NEW c \in CallbackResults, CallbackFails(t, c) PROVE CallStep(t)
  <2>1. Working(t) /\ running = t
    BY <1>1 DEF CallbackFails, Resolving, Working
  <2> QED
    BY <1>1, <2>1, EscapeIsCallStep, GuardErrorsAreErrors, GuardErrorsNamed
    DEF CallbackFails
<1>2. ASSUME NEW c \in CallbackResults, NoTrigger(t, c) PROVE CallStep(t)
  <2>1. call[t].output \in ResultValues
    BY DEF TypeInv, TypeOK, Call, ResultValues
  <2> QED BY <1>2, <1>a, <2>1, ReturnIsCallStep DEF NoTrigger, Resolving
<1>3. ASSUME NEW c \in CallbackResults, DetectOnly(t, c) PROVE CallStep(t)
  <2>1. LastOutput(states[cur].steps) \in ResultValues
    BY LastStepType DEF TypeInv, TypeOK, StateObject, ResultValues
  <2> QED BY <1>3, <1>a, <2>1, ReturnIsCallStep DEF DetectOnly, Resolving
<1>4. ASSUME NEW c \in CallbackResults, Triggered(t, c) PROVE CallStep(t)
  <2>1. /\ call'[t].phase = "escalate" /\ call'[t].trigger = Verdict(c)
        /\ call'[t].handling = call[t].handling
        /\ call'[t].manager = call[t].manager
        /\ call'[t].result = call[t].result
        /\ \A u \in Tasks \ {t} : call'[u] = call[u]
    BY <1>4 DEF Triggered, TypeInv, TypeOK, Call
  <2>2. call[t].phase = "resolve" /\ running = t /\ StepsKept
    BY <1>4, <1>a DEF Triggered, Resolving
  <2> QED BY <2>1, <2>2 DEF CallStep, Advances, Follows
<1>5. CASE Capped(t)
  <2>1. call[t].phase # "idle" /\ running = t /\ Working(t)
    BY <1>5 DEF Capped, Escalating, Working, Escalation
  <2>2. LastOutput(Managed(t).steps) \in ResultValues
    BY <2>1, ManagedType DEF ResultValues
  <2>3. CASE LogRaises /\ Escape(t, "HookError")
    BY <2>1, <2>3, EscapeIsCallStep, GuardErrorsAreErrors, GuardErrorsNamed
  <2> QED BY <1>5, <1>a, <2>1, <2>2, <2>3, ReturnIsCallStep DEF Capped
<1>6. CASE AskUser(t)
  <2>1. call[t].phase = "escalate" /\ running = t /\ Working(t) /\ Interrupt
    BY <1>6 DEF AskUser, Escalating, Working, Escalation
  <2>2. CASE Await(t, "prompt") /\ KeepState
    BY <1>a, <2>1, <2>2, AdvanceIsCallStep DEF Follows
  <2>3. CASE "context" \in Faults /\ Escape(t, "ContextError")
    BY <2>1, <2>3, EscapeIsCallStep, GuardErrorsAreErrors, GuardErrorsNamed
  <2> QED BY <1>6, <2>2, <2>3 DEF AskUser
<1>7. CASE SkipPrompt(t)
  BY <1>7, <1>a, AdvanceIsCallStep DEF SkipPrompt, Escalating, Follows
<1>8. CASE Invoke(t)
  BY <1>8, <1>a, AdvanceIsCallStep DEF Invoke, Follows
<1>9. CASE FailOpenLogFails(t)
  <2>1. Working(t) /\ running = t
    BY <1>9 DEF FailOpenLogFails, Failing, Working, Escalation
  <2> QED
    BY <1>9, <2>1, EscapeIsCallStep, GuardErrorsAreErrors, GuardErrorsNamed
    DEF FailOpenLogFails
<1>10. CASE RaiseOriginal(t)
  <2>1. Working(t) /\ running = t /\ call[t].phase # "idle"
    BY <1>10 DEF RaiseOriginal, Failing, Working, Escalation
  <2>2. OriginalError(t) \in Errors
    BY <2>1, ManagedType, GuardErrorsAreErrors, GuardErrorsNamed
    DEF OriginalError
  <2> QED BY <1>10, <2>1, <2>2, EscapeIsCallStep DEF RaiseOriginal
<1>11. CASE ReturnFallback(t)
  <2>1. call[t].phase # "idle" /\ running = t
    BY <1>11 DEF ReturnFallback, Failing
  <2>2. (IF OnGuardError = "return_last_output"
         THEN LastOutput(Managed(t).steps) ELSE Sentinel) \in ResultValues
    BY <2>1, ManagedType DEF ResultValues
  <2> QED BY <1>11, <1>a, <2>1, <2>2, ReturnIsCallStep DEF ReturnFallback
<1> QED
  BY <1>1, <1>2, <1>3, <1>4, <1>5, <1>6, <1>7, <1>8, <1>9, <1>10, <1>11
  DEF Proceed

\* Every step of the guard is a step of one call, a record of the agent's
\* code, a reset, or none of these.
LEMMA EveryStepIsCallStep ==
    ASSUME TypeInv, [Next]_vars
    PROVE  \/ \E t \in Tasks : CallStep(t)
           \/ \E r \in TestInputs : RecordTestResults(r)
           \/ \E v \in SchemaInputs : RecordSchemaValid(v)
           \/ Reset
           \/ UNCHANGED vars
BY BeginIsCallStep, InterruptedIsCallStep, ResumeIsCallStep, ProceedIsCallStep
DEF Next

-----------------------------------------------------------------------------
(***************************************************************************)
(* What a list of steps holds after the operations on it.                  *)
(***************************************************************************)
LEMMA AddStepHolds ==
    ASSUME NEW s \in Seq(StepRecord), NEW r \in StepRecord
    PROVE  /\ LastError(AddStep(s, r)) = r.error
           /\ \A i \in DOMAIN AddStep(s, r) :
                 \/ AddStep(s, r)[i] = r
                 \/ \E j \in DOMAIN s : AddStep(s, r)[i] = s[j]
<1> DEFINE a == Append(s, r)
<1> DEFINE n == Len(s)
<1>1. /\ a \in Seq(StepRecord) /\ n \in Nat /\ Len(a) = n + 1 /\ a # <<>>
      /\ \A k \in 1 .. n : a[k] = s[k]
      /\ a[n + 1] = r
      /\ DOMAIN a = 1 .. n + 1 /\ DOMAIN s = 1 .. n
  <2>1. a \in Seq(StepRecord) /\ Len(a) = n + 1
    BY AppendProperties
  <2> QED BY <2>1, AppendProperties, LenProperties
<1> HIDE DEF a, n
<1>2. \A k \in DOMAIN a : a[k] = r \/ \E j \in DOMAIN s : a[k] = s[j]
  <2>1. TAKE k \in DOMAIN a
  <2>2. k = n + 1 \/ k \in 1 .. n
    BY <1>1
  <2> QED BY <1>1, <2>2
<1>3. CASE Len(a) > MaxHistory
  <2> DEFINE m == Len(a) - MaxHistory + 1
  <2> DEFINE c == SubSeq(a, m, Len(a))
  <2>1. m \in 1 .. n + 1 /\ m \in Nat /\ Len(a) \in Nat
    BY <1>1, <1>3, HistoryAssumption
  <2>2. \A k \in m .. Len(a) : a[k] \in StepRecord
    BY <1>1, <2>1, ElementOfSeq
  <2>3. /\ c \in Seq(StepRecord) /\ Len(c) = n + 2 - m
        /\ \A k \in 1 .. n + 2 - m : c[k] = a[m + k - 1]
    BY <1>1, <2>1, <2>2, SubSeqProperties
  <2>4. DOMAIN c = 1 .. n + 2 - m /\ AddStep(s, r) = c
    BY <1>3, <2>3, LenProperties DEF AddStep, a
  <2> HIDE DEF c, m
  <2>5. n + 2 - m \in 1 .. n + 2 - m /\ m + (n + 2 - m) - 1 = n + 1
    BY <1>1, <2>1
  <2>6. c # <<>> /\ c[Len(c)] = r
    BY <1>1, <2>3, <2>5, EmptySeq
  <2>7. \A k \in DOMAIN c : c[k] = r \/ \E j \in DOMAIN s : c[k] = s[j]
    <3>1. TAKE k \in DOMAIN c
    <3>2. m + k - 1 \in DOMAIN a /\ c[k] = a[m + k - 1]
      BY <1>1, <2>1, <2>3, <2>4
    <3> QED BY <1>2, <3>2
  <2> QED BY <2>4, <2>6, <2>7 DEF LastError
<1>4. CASE ~ (Len(a) > MaxHistory)
  <2>1. AddStep(s, r) = a
    BY <1>4 DEF AddStep, a
  <2> QED BY <1>1, <1>2, <2>1 DEF LastError
<1> QED BY <1>3, <1>4

LEMMA PatchHolds ==
    ASSUME NEW s \in Seq(StepRecord)
    PROVE  /\ \A r \in TestInputs :
                 /\ DOMAIN PatchTests(s, r) = DOMAIN s
                 /\ \A i \in DOMAIN s :
                       /\ PatchTests(s, r)[i].tests \in {r, s[i].tests}
                       /\ PatchTests(s, r)[i].schema = s[i].schema
           /\ \A v \in BOOLEAN :
                 /\ DOMAIN PatchSchema(s, v) = DOMAIN s
                 /\ \A i \in DOMAIN s :
                       /\ PatchSchema(s, v)[i].tests = s[i].tests
                       /\ PatchSchema(s, v)[i].schema \in {v, s[i].schema}
<1>1. CASE s = <<>>
  BY <1>1 DEF PatchTests, PatchSchema
<1>2. CASE s # <<>>
  <2>1. \A i \in DOMAIN s : s[i] \in StepRecord
    BY ElementOfSeq, LenProperties
  <2>2. ASSUME NEW r \in TestInputs, NEW i \in DOMAIN s
        PROVE  /\ DOMAIN PatchTests(s, r) = DOMAIN s
               /\ PatchTests(s, r)[i].tests \in {r, s[i].tests}
               /\ PatchTests(s, r)[i].schema = s[i].schema
    BY <1>2, <2>1 DEF PatchTests, StepRecord
  <2>3. ASSUME NEW v \in BOOLEAN, NEW i \in DOMAIN s
        PROVE  /\ DOMAIN PatchSchema(s, v) = DOMAIN s
               /\ PatchSchema(s, v)[i].tests = s[i].tests
               /\ PatchSchema(s, v)[i].schema \in {v, s[i].schema}
    BY <1>2, <2>1 DEF PatchSchema, StepRecord
  <2>4. /\ \A r \in TestInputs : DOMAIN PatchTests(s, r) = DOMAIN s
        /\ \A v \in BOOLEAN : DOMAIN PatchSchema(s, v) = DOMAIN s
    BY <1>2 DEF PatchTests, PatchSchema
  <2> QED BY <2>2, <2>3, <2>4
<1> QED BY <1>1, <1>2

\* A patch of the last step leaves its output and its error.
LEMMA PatchTells ==
    ASSUME NEW s \in Seq(StepRecord)
    PROVE  /\ \A r \in TestInputs :
                 /\ Told(PatchTests(s, r)) = Told(s)
                 /\ LastError(PatchTests(s, r)) = LastError(s)
           /\ \A v \in BOOLEAN :
                 /\ Told(PatchSchema(s, v)) = Told(s)
                 /\ LastError(PatchSchema(s, v)) = LastError(s)
<1>1. CASE s = <<>>
  BY <1>1 DEF PatchTests, PatchSchema
<1>2. CASE s # <<>>
  <2>1. Len(s) \in 1 .. Len(s) /\ s[Len(s)] \in StepRecord
    BY <1>2, EmptySeq, LenProperties, ElementOfSeq
  <2>2. ASSUME NEW x \in StepRecord, x.output = s[Len(s)].output,
               x.error = s[Len(s)].error,
               NEW p, p = [s EXCEPT ![Len(s)] = x]
        PROVE  Told(p) = Told(s) /\ LastError(p) = LastError(s)
    <3>1. /\ Len(p) = Len(s) /\ DOMAIN p = DOMAIN s
          /\ \A i \in 1 .. Len(s) : p[i] = IF i = Len(s) THEN x ELSE s[i]
      BY <2>1, <2>2, ExceptSeq
    <3>2. DOMAIN s = 1 .. Len(s)
      BY LenProperties
    <3>3. p # <<>>
      <4>1. Len(s) # 0 /\ Len(<<>>) = 0
        BY <1>2, EmptySeq
      <4> QED BY <3>1, <4>1
    <3>4. \A i \in DOMAIN s :
             p[i].output = s[i].output /\ p[i].error = s[i].error
      BY <2>2, <3>1, <3>2
    <3>5. Told(p) = Told(s)
      BY <3>1, <3>4 DEF Told
    <3>6. LastError(p) = LastError(s)
      BY <1>2, <2>1, <2>2, <3>1, <3>3 DEF LastError
    <3> QED BY <3>5, <3>6
  <2>3. ASSUME NEW r \in TestInputs
        PROVE  /\ Told(PatchTests(s, r)) = Told(s)
               /\ LastError(PatchTests(s, r)) = LastError(s)
    <3> DEFINE x == [s[Len(s)] EXCEPT !.tests = r]
    <3>1. /\ x \in StepRecord /\ x.output = s[Len(s)].output
          /\ x.error = s[Len(s)].error
      BY <2>1 DEF StepRecord
    <3>2. PatchTests(s, r) = [s EXCEPT ![Len(s)] = x]
      BY <1>2 DEF PatchTests
    <3> HIDE DEF x
    <3> QED BY <2>2, <3>1, <3>2
  <2>4. ASSUME NEW v \in BOOLEAN
        PROVE  /\ Told(PatchSchema(s, v)) = Told(s)
               /\ LastError(PatchSchema(s, v)) = LastError(s)
    <3> DEFINE x == [s[Len(s)] EXCEPT !.schema = v]
    <3>1. /\ x \in StepRecord /\ x.output = s[Len(s)].output
          /\ x.error = s[Len(s)].error
      BY <2>1 DEF StepRecord
    <3>2. PatchSchema(s, v) = [s EXCEPT ![Len(s)] = x]
      BY <1>2 DEF PatchSchema
    <3> HIDE DEF x
    <3> QED BY <2>2, <3>1, <3>2
  <2> QED BY <2>3, <2>4
<1> QED BY <1>1, <1>2

-----------------------------------------------------------------------------
(***************************************************************************)
(* The work of one call.  A call that is not inside the except clause has  *)
(* recorded one step, inside it at most two, and each invocation of the    *)
(* model follows the resolution of a step of its own.                      *)
(***************************************************************************)
Work(t) ==
    /\ recorded[t] \in 0 .. 2 /\ invoked[t] \in 0 .. 2
    /\ call[t].phase = "body" =>
          ~ call[t].handling /\ recorded[t] = 0 /\ invoked[t] = 0
    /\ Working(t) =>
          /\ IF call[t].handling THEN recorded[t] \in 1 .. 2
             ELSE recorded[t] = 1
          /\ IF call[t].phase \in {"invoke", "failopen"}
             THEN invoked[t] <= recorded[t]
             ELSE invoked[t] < recorded[t]

WorkInv == \A t \in Tasks : Work(t)

\* What the history variables say of a call that takes no step.
LEMMA ObserveOthers ==
    ASSUME NEW t \in Tasks, Observe, call'[t] = call[t]
    PROVE  recorded'[t] = recorded[t] /\ invoked'[t] = invoked[t]
BY DEF Observe, Begins, Records, Invokes

LEMMA OtherWork ==
    ASSUME NEW t \in Tasks, Work(t), Observe, call'[t] = call[t]
    PROVE  Work(t)'
BY ObserveOthers DEF Work, Working

\* What they say of a step of the call.
LEMMA ObserveStep ==
    ASSUME NEW t \in Tasks, Work(t), Observe
    PROVE  /\ Starts(t) => recorded'[t] = 0 /\ invoked'[t] = 0
           /\ FunctionEnds(t) \/ Caught(t) =>
                 recorded'[t] = recorded[t] + 1 /\ invoked'[t] = invoked[t]
           /\ Advances(t) =>
                 /\ recorded'[t] = recorded[t]
                 /\ invoked'[t] = IF call'[t].phase = "invoke"
                                  THEN invoked[t] + 1 ELSE invoked[t]
           /\ Ends(t) => recorded'[t] = recorded[t] /\ invoked'[t] = invoked[t]
<1>1. /\ Bounded(recorded[t], CallBound) = recorded[t] + 1
      /\ Bounded(invoked[t], CallBound) = invoked[t] + 1
  BY DEF Work, Bounded, CallBound
<1>2. ASSUME Starts(t) PROVE Begins(t)
  BY <1>2 DEF Starts, Begins
<1>3. ASSUME FunctionEnds(t) \/ Caught(t)
      PROVE  ~ Begins(t) /\ Records(t) /\ ~ Invokes(t)
  BY <1>3
  DEF FunctionEnds, Caught, Begins, Records, Invokes, Working, Escalation
<1>4. ASSUME Advances(t)
      PROVE  /\ ~ Begins(t) /\ ~ Records(t)
             /\ Invokes(t) <=> call'[t].phase = "invoke"
  BY <1>4 DEF Advances, Follows, Begins, Records, Invokes
<1>5. ASSUME Ends(t) PROVE ~ Begins(t) /\ ~ Records(t) /\ ~ Invokes(t)
  BY <1>5 DEF Ends, IdleCall, Begins, Records, Invokes
<1> QED BY <1>1, <1>2, <1>3, <1>4, <1>5 DEF Observe

LEMMA OwnWork ==
    ASSUME NEW t \in Tasks, Work(t), Observe, CallStep(t)
    PROVE  Work(t)'
<1>1. CASE Starts(t)
  BY <1>1, ObserveStep DEF Starts, Work, Working, Escalation
<1>2. CASE FunctionEnds(t)
  BY <1>2, ObserveStep DEF FunctionEnds, Work, Working, Escalation
<1>3. CASE Caught(t)
  <2>1. recorded[t] = 1 /\ invoked[t] \in 0 .. 1
    BY <1>3 DEF Caught, Work
  <2> QED BY <1>3, <2>1, ObserveStep DEF Caught, Work, Working, Escalation
<1>4. CASE Advances(t)
  <2>1. /\ Working(t) /\ call'[t].phase \in Escalation
        /\ call'[t].handling = call[t].handling
        /\ call'[t].phase = "invoke" => call[t].phase = "package"
        /\ call'[t].phase = "failopen" => call[t].phase \in {"package", "invoke"}
        /\ call[t].phase = "invoke" => call'[t].phase = "failopen"
    BY <1>4 DEF Advances, Follows, Working, Escalation
  <2>2. /\ recorded'[t] = recorded[t]
        /\ invoked'[t] = IF call'[t].phase = "invoke"
                         THEN invoked[t] + 1 ELSE invoked[t]
    BY <1>4, ObserveStep
  <2>3. recorded[t] \in 0 .. 2 /\ invoked[t] \in 0 .. 2
    BY DEF Work
  <2>4. IF call'[t].phase \in {"invoke", "failopen"}
        THEN invoked'[t] <= recorded'[t] ELSE invoked'[t] < recorded'[t]
    <3>1. IF call[t].phase = "invoke" THEN invoked[t] <= recorded[t]
          ELSE invoked[t] < recorded[t]
      BY <1>4, <2>1, <2>3 DEF Work, Advances, Follows
    <3>2. CASE call'[t].phase = "invoke"
      BY <2>1, <2>2, <2>3, <3>1, <3>2
    <3>3. CASE call'[t].phase # "invoke"
      BY <2>1, <2>2, <2>3, <3>1, <3>3
    <3> QED BY <3>2, <3>3
  <2>5. invoked'[t] \in 0 .. 2
    BY <2>2, <2>3, <2>4
  <2> QED
    BY <2>1, <2>2, <2>3, <2>4, <2>5 DEF Work, Working, Escalation
<1>5. CASE Ends(t)
  <2>1. call'[t].phase = "idle"
    BY <1>5 DEF Ends, IdleCall
  <2>2. recorded'[t] = recorded[t] /\ invoked'[t] = invoked[t]
    BY <1>5, ObserveStep
  <2> QED BY <2>1, <2>2 DEF Work, Working, Escalation
<1> QED BY <1>1, <1>2, <1>3, <1>4, <1>5 DEF CallStep

\* A step of the guard with its history: one of Guard, observed.
LEMMA HistoryStep ==
    ASSUME TypeInv, [HNext]_hvars
    PROVE  /\ [Next]_vars
           /\ \/ \E t \in Tasks : CallStep(t) /\ Observe /\ heard' = heard
              \/ \E r \in TestInputs :
                    /\ RecordTestResults(r) /\ Observe
                    /\ heard' = [heard EXCEPT !.tests = @ \cup {r}]
              \/ \E v \in SchemaInputs :
                    /\ RecordSchemaValid(v) /\ Observe
                    /\ heard' = [heard EXCEPT !.schema = @ \cup {v}]
              \/ /\ Reset /\ Observe
                 /\ heard' = [tests |-> {}, schema |-> {}]
              \/ UNCHANGED hvars
<1>1. CASE UNCHANGED hvars
  BY <1>1 DEF hvars
<1>2. ASSUME NEW t \in Tasks,
             Begin(t) \/ Resume(t) \/ Proceed(t) \/ Interrupted(t)
      PROVE  CallStep(t) /\ cur' = cur
  <2>1. CallStep(t)
    BY <1>2, BeginIsCallStep, InterruptedIsCallStep, ResumeIsCallStep,
       ProceedIsCallStep
  <2>2. cur' = cur
    BY <2>1
    DEF CallStep, Starts, FunctionEnds, Caught, Advances, Ends, StepsKept,
        Record
  <2> QED BY <2>1, <2>2
<1>3. Reset => cur' # cur
  <2>1. cur \in Nat
    BY DEF TypeInv, TypeOK, Runs
  <2> QED BY <2>1 DEF Reset
<1>4. CASE HNext
  BY <1>2, <1>3, <1>4 DEF HNext, Next
<1> QED BY <1>1, <1>4

LEMMA HistoryImplementsGuard == HSpec => Spec /\ []TypeInv
<1>1. HInit => Init
  BY DEF HInit
<1>2. TypeInv /\ [HNext]_hvars => [Next]_vars
  BY HistoryStep
<1>3. TypeInv /\ [Next]_vars => TypeInv'
  BY TypeInvInductive
<1>4. Init => TypeInv
  BY TypeInvInitial
<1> QED BY <1>1, <1>2, <1>3, <1>4, PTL DEF HSpec, Spec

LEMMA AgentCodeLeavesCalls ==
    ASSUME \/ \E r \in TestInputs : RecordTestResults(r)
           \/ \E v \in SchemaInputs : RecordSchemaValid(v)
           \/ Reset
    PROVE  AgentCodeRuns /\ call' = call
BY DEF RecordTestResults, RecordSchemaValid, Reset

LEMMA WorkHolds == HSpec => []WorkInv
<1>1. HInit => WorkInv
  BY DEF HInit, Init, IdleCall, WorkInv, Work, Working, Escalation
<1>2. TypeInv /\ WorkInv /\ [HNext]_hvars => WorkInv'
  <2> SUFFICES ASSUME TypeInv, WorkInv, [HNext]_hvars PROVE WorkInv'
    OBVIOUS
  <2>1. CASE UNCHANGED hvars
    BY <2>1 DEF hvars, vars, history, WorkInv, Work, Working
  <2>2. ASSUME NEW t \in Tasks, CallStep(t), Observe PROVE WorkInv'
    BY <2>2, OwnWork, OtherWork DEF WorkInv, CallStep
  <2>3. ASSUME call' = call, Observe PROVE WorkInv'
    BY <2>3, OtherWork DEF WorkInv
  <2> QED BY <2>1, <2>2, <2>3, HistoryStep, AgentCodeLeavesCalls
<1> QED BY <1>1, <1>2, HistoryImplementsGuard, PTL DEF HSpec

(***************************************************************************)
(* Whatever fails in a call, and whatever other callers do meanwhile, it   *)
(* records at most two steps and invokes the model at most twice.          *)
(***************************************************************************)
THEOREM BoundedWork == HSpec => []WorkPerCallIsBounded
<1>1. WorkInv => WorkPerCallIsBounded
  BY DEF WorkInv, Work, WorkPerCallIsBounded
<1> QED BY <1>1, WorkHolds, PTL

-----------------------------------------------------------------------------
(***************************************************************************)
(* Whose results a step bears.  What is pending was recorded in the        *)
(* current run, and so was what the steps bear, which is what was pending  *)
(* when they were recorded or has been patched into them since.            *)
(***************************************************************************)
PendingOfThisRun ==
    /\ pending.tests # None => pending.tests \in heard.tests
    /\ pending.schema # None => pending.schema \in heard.schema

MetaInv == MetadataOfThisRun /\ PendingOfThisRun

LEMMA CallStepRecords ==
    ASSUME NEW t \in Tasks, CallStep(t)
    PROVE  \/ StepsKept
           \/ \E o \in Outputs \cup {None}, e \in Errors \cup {None} :
                 Record(o, e)
BY DEF CallStep, Starts, FunctionEnds, Caught, Advances, Ends

\* Steps as the history variable bounds them.
OfThisRun(r) ==
    /\ r.tests # None => r.tests \in heard.tests
    /\ r.schema # None => r.schema \in heard.schema

LEMMA RecordKeepsMeta ==
    ASSUME TypeInv, MetaInv, NEW o \in Outputs \cup {None},
           NEW e \in Errors \cup {None}, Record(o, e), heard' = heard
    PROVE  MetaInv'
<1> DEFINE s == states[cur].steps
<1> DEFINE r == NewStep(o, e)
<1>1. /\ states'[cur].steps = AddStep(s, r) /\ cur' = cur
      /\ pending' = NoPending /\ r \in StepRecord
  BY RecordType
<1>2. s \in Seq(StepRecord)
  BY DEF TypeInv, TypeOK, StateObject
<1>3. OfThisRun(r) /\ \A j \in DOMAIN s : OfThisRun(s[j])
  BY DEF MetaInv, PendingOfThisRun, MetadataOfThisRun, NewStep, OfThisRun
<1> HIDE DEF r, s
<1>4. \A i \in DOMAIN AddStep(s, r) : OfThisRun(AddStep(s, r)[i])
  BY <1>1, <1>2, <1>3, AddStepHolds
<1> QED
  BY <1>1, <1>4
  DEF MetaInv, MetadataOfThisRun, PendingOfThisRun, OfThisRun, NoPending

HeardType == \E a, b : heard = [tests |-> a, schema |-> b]

LEMMA PatchKeepsMeta ==
    ASSUME TypeInv, MetaInv
    PROVE  /\ \A r \in TestInputs :
                 /\ RecordTestResults(r)
                 /\ heard' = [heard EXCEPT !.tests = heard.tests \cup {r}]
                 /\ HeardType
                 => MetaInv'
           /\ \A v \in SchemaInputs :
                 /\ RecordSchemaValid(v)
                 /\ heard' = [heard EXCEPT !.schema = heard.schema \cup {v}]
                 /\ HeardType
                 => MetaInv'
<1> DEFINE s == states[cur].steps
<1>1. s \in Seq(StepRecord) /\ cur \in Runs
  BY DEF TypeInv, TypeOK, StateObject
<1>2. \A j \in DOMAIN s : OfThisRun(s[j])
  BY DEF MetaInv, MetadataOfThisRun, OfThisRun
<1>3. ASSUME NEW r \in TestInputs, RecordTestResults(r),
             heard' = [heard EXCEPT !.tests = heard.tests \cup {r}],
             HeardType
      PROVE  MetaInv'
  <2>1. /\ pending'.tests = r /\ pending'.schema = pending.schema /\ cur' = cur
        /\ states'[cur].steps = PatchTests(s, r)
    BY <1>1, <1>3 DEF RecordTestResults, TypeInv, TypeOK, StateObject
  <2>2. heard'.tests = heard.tests \cup {r} /\ heard'.schema = heard.schema
    BY <1>3 DEF HeardType
  <2>3. PendingOfThisRun'
    BY <2>1, <2>2 DEF MetaInv, PendingOfThisRun
  <2> HIDE DEF s
  <2>4. MetadataOfThisRun'
    BY <1>1, <1>2, <2>1, <2>2, PatchHolds DEF MetadataOfThisRun, OfThisRun
  <2> QED BY <2>3, <2>4 DEF MetaInv
<1>4. ASSUME NEW v \in SchemaInputs, RecordSchemaValid(v),
             heard' = [heard EXCEPT !.schema = heard.schema \cup {v}],
             HeardType
      PROVE  MetaInv'
  <2>1. /\ pending'.schema = v /\ pending'.tests = pending.tests /\ cur' = cur
        /\ states'[cur].steps = PatchSchema(s, v)
    BY <1>1, <1>4 DEF RecordSchemaValid, TypeInv, TypeOK, StateObject
  <2>2. heard'.schema = heard.schema \cup {v} /\ heard'.tests = heard.tests
    BY <1>4 DEF HeardType
  <2>3. PendingOfThisRun'
    BY <2>1, <2>2 DEF MetaInv, PendingOfThisRun
  <2>4. v \in BOOLEAN
    BY GuardAssumption
  <2> HIDE DEF s
  <2>5. MetadataOfThisRun'
    BY <1>1, <1>2, <2>1, <2>2, <2>4, PatchHolds
    DEF MetadataOfThisRun, OfThisRun
  <2> QED BY <2>3, <2>5 DEF MetaInv
<1> QED BY <1>3, <1>4

LEMMA MetaHolds == HSpec => []MetaInv
<1>1. HInit => MetaInv /\ HeardType
  <2> SUFFICES ASSUME HInit PROVE MetaInv /\ HeardType
    OBVIOUS
  <2>1. 1 \in Runs
    BY GuardAssumption DEF Runs
  <2>2. states[cur].steps = <<>>
    BY <2>1 DEF HInit, Init, NewState
  <2>3. HeardType
    BY DEF HInit, HeardType
  <2> QED
    BY <2>2, <2>3
    DEF HInit, Init, NoPending, MetaInv, MetadataOfThisRun, PendingOfThisRun
<1>2. TypeInv /\ MetaInv /\ HeardType /\ [HNext]_hvars
         => MetaInv' /\ HeardType'
  <2> SUFFICES ASSUME TypeInv, MetaInv, HeardType, [HNext]_hvars
               PROVE  MetaInv' /\ HeardType'
    OBVIOUS
  <2>1. HeardType'
    <3>1. PICK a, b : heard = [tests |-> a, schema |-> b]
      BY DEF HeardType
    <3>2. /\ \A x : [heard EXCEPT !.tests = x] = [tests |-> x, schema |-> b]
          /\ \A x : [heard EXCEPT !.schema = x] = [tests |-> a, schema |-> x]
      BY <3>1
    <3>3. \/ heard' = heard
          \/ \E r \in TestInputs :
                heard' = [heard EXCEPT !.tests = heard.tests \cup {r}]
          \/ \E v \in SchemaInputs :
                heard' = [heard EXCEPT !.schema = heard.schema \cup {v}]
          \/ heard' = [tests |-> {}, schema |-> {}]
      BY HistoryStep DEF hvars, history
    <3>4. \E x, y : heard' = [tests |-> x, schema |-> y]
      BY <3>1, <3>2, <3>3
    <3> QED BY <3>4 DEF HeardType
  <2>2. CASE UNCHANGED hvars
    BY <2>1, <2>2
    DEF hvars, vars, history, MetaInv, MetadataOfThisRun, PendingOfThisRun
  <2>3. ASSUME NEW t \in Tasks, CallStep(t), heard' = heard PROVE MetaInv'
    <3>1. CASE StepsKept
      <4>1. states'[cur'].steps = states[cur].steps
        BY <3>1 DEF StepsKept, TypeInv, TypeOK
      <4> QED
        BY <2>3, <3>1, <4>1
        DEF StepsKept, MetaInv, MetadataOfThisRun, PendingOfThisRun
    <3> QED BY <2>3, <3>1, CallStepRecords, RecordKeepsMeta
  <2>4. ASSUME Reset, heard' = [tests |-> {}, schema |-> {}] PROVE MetaInv'
    <3>1. cur + 1 \in Runs
      BY <2>4, GuardAssumption DEF Reset, TypeInv, TypeOK, Runs
    <3>2. states'[cur'].steps = <<>> /\ pending' = NoPending
      BY <2>4, <3>1 DEF Reset, TypeInv, TypeOK, NewState
    <3> QED
      BY <3>2 DEF MetaInv, MetadataOfThisRun, PendingOfThisRun, NoPending
  <2>5. CASE \E r \in TestInputs :
                /\ RecordTestResults(r) /\ Observe
                /\ heard' = [heard EXCEPT !.tests = @ \cup {r}]
    BY <2>1, <2>5, PatchKeepsMeta
  <2>6. CASE \E v \in SchemaInputs :
                /\ RecordSchemaValid(v) /\ Observe
                /\ heard' = [heard EXCEPT !.schema = @ \cup {v}]
    BY <2>1, <2>6, PatchKeepsMeta
  <2> QED BY <2>1, <2>2, <2>3, <2>4, <2>5, <2>6, HistoryStep
<1> QED BY <1>1, <1>2, HistoryImplementsGuard, PTL DEF HSpec

(***************************************************************************)
(* No step of a run bears results or a validation recorded before the      *)
(* reset that began the run, whichever call the reset fell into.           *)
(***************************************************************************)
THEOREM MetadataIsOfThisRun == HSpec => []MetadataOfThisRun
<1>1. MetaInv => MetadataOfThisRun
  BY DEF MetaInv
<1> QED BY <1>1, MetaHolds, PTL

-----------------------------------------------------------------------------
(***************************************************************************)
(* A single caller.  Other code of the application still runs while its    *)
(* call waits for the user or the model: it may patch the last step, which *)
(* leaves output and error, or reset the guard, and then the manager of    *)
(* the call is that of an earlier run.                                     *)
(***************************************************************************)
OneCaller == \E t \in Tasks : Tasks = {t}

LEMMA OneCallerByCount == Cardinality(Tasks) = 1 => OneCaller
BY GuardAssumption, FS_Singleton DEF OneCaller

\* The last step tells whether the call is inside the except clause.
LastStepTells ==
    \A t \in Tasks :
        (Working(t) /\ call[t].manager = cur)
            => IF call[t].handling
               THEN LastError(states[cur].steps) \in Errors
               ELSE LastError(states[cur].steps) = None

CallsInOrder ==
    \A t \in Tasks :
        /\ call[t].phase = "body" => ~ call[t].handling
        /\ call[t].phase # "idle" => call[t].result = NoResult

SoleInv == LastStepTells /\ CallsInOrder

LEMMA RecordLastError ==
    ASSUME TypeInv, NEW o \in Outputs \cup {None},
           NEW e \in Errors \cup {None}, Record(o, e)
    PROVE  LastError(states'[cur'].steps) = e
<1>1. /\ cur' = cur /\ NewStep(o, e) \in StepRecord
      /\ states'[cur].steps = AddStep(states[cur].steps, NewStep(o, e))
  BY RecordType
<1>2. states[cur].steps \in Seq(StepRecord)
  BY DEF TypeInv, TypeOK, StateObject
<1>3. NewStep(o, e).error = e
  BY DEF NewStep
<1> QED BY <1>1, <1>2, <1>3, AddStepHolds

LEMMA SoleStep ==
    ASSUME TypeInv, SoleInv, NEW t \in Tasks, Tasks = {t}, CallStep(t)
    PROVE  SoleInv'
<1> SUFFICES
      /\ (Working(t)' /\ call'[t].manager = cur')
            => IF call'[t].handling
               THEN LastError(states'[cur'].steps) \in Errors
               ELSE LastError(states'[cur'].steps) = None
      /\ call'[t].phase = "body" => ~ call'[t].handling
      /\ call'[t].phase # "idle" => call'[t].result = NoResult
  BY DEF SoleInv, LastStepTells, CallsInOrder
<1>1. /\ (Working(t) /\ call[t].manager = cur)
            => IF call[t].handling
               THEN LastError(states[cur].steps) \in Errors
               ELSE LastError(states[cur].steps) = None
      /\ call[t].phase = "body" => ~ call[t].handling
      /\ call[t].phase # "idle" => call[t].result = NoResult
  BY DEF SoleInv, LastStepTells, CallsInOrder
<1>2. StepsKept => states'[cur'].steps = states[cur].steps /\ cur' = cur
  BY DEF StepsKept, TypeInv, TypeOK
<1>3. CASE Starts(t)
  BY <1>3 DEF Starts, Working, Escalation
<1>4. CASE FunctionEnds(t)
  <2>1. call'[t].phase = "resolve" /\ call'[t].result = NoResult
    BY <1>1, <1>4 DEF FunctionEnds
  <2>2. IF call'[t].handling
        THEN LastError(states'[cur'].steps) \in Errors
        ELSE LastError(states'[cur'].steps) = None
    BY <1>1, <1>4, RecordLastError DEF FunctionEnds
  <2> QED BY <2>1, <2>2
<1>5. CASE Caught(t)
  <2>1. LastError(states'[cur'].steps) \in Errors
    BY <1>5, RecordLastError DEF Caught
  <2> QED BY <1>1, <1>5, <2>1 DEF Caught, Working, Escalation
<1>6. CASE Advances(t)
  <2>1. /\ Working(t) /\ call'[t].phase \in Escalation
        /\ call'[t].handling = call[t].handling
        /\ call'[t].manager = call[t].manager
        /\ call'[t].result = call[t].result
        /\ states'[cur'].steps = states[cur].steps /\ cur' = cur
    BY <1>2, <1>6 DEF Advances, Follows, Working, Escalation
  <2> QED BY <1>1, <2>1 DEF Working, Escalation
<1>7. CASE Ends(t)
  <2>1. call'[t].phase = "idle"
    BY <1>7 DEF Ends, IdleCall
  <2> QED BY <2>1 DEF Working, Escalation
<1> QED BY <1>3, <1>4, <1>5, <1>6, <1>7 DEF CallStep

\* What the application's code does to the history of a call's manager.
LEMMA AgentCodeTells ==
    ASSUME TypeInv, NEW t \in Tasks, call[t].phase # "idle",
           \/ \E r \in TestInputs : RecordTestResults(r)
           \/ \E v \in SchemaInputs : RecordSchemaValid(v)
           \/ Reset
    PROVE  /\ Told(states'[call[t].manager].steps)
                 = Told(states[call[t].manager].steps)
           /\ call[t].manager = cur' =>
                 /\ cur' = cur
                 /\ LastError(states'[cur].steps) = LastError(states[cur].steps)
<1>1. /\ cur \in Nat /\ cur \in Runs /\ cur + 1 # cur
      /\ call[t].manager \in Runs /\ call[t].manager \in 1 .. cur
      /\ call[t].manager # cur + 1
  <2>1. /\ cur \in 1 .. MaxRuns /\ MaxRuns \in Nat
        /\ call[t].manager \in 1 .. cur
    BY GuardAssumption DEF TypeInv, TypeOK, CachedManagerIsCurrent, Runs
  <2> QED BY <2>1 DEF Runs
<1>2. /\ DOMAIN states = Runs
      /\ \A r \in Runs : states[r] \in StateObject
      /\ \A r \in Runs : states[r].steps \in Seq(StepRecord)
  BY DEF TypeInv, TypeOK, StateObject
<1>3. ASSUME NEW x, x \in Seq(StepRecord), cur' = cur,
             states' = [states EXCEPT ![cur].steps = x],
             Told(x) = Told(states[cur].steps),
             LastError(x) = LastError(states[cur].steps)
      PROVE  /\ Told(states'[call[t].manager].steps)
                   = Told(states[call[t].manager].steps)
             /\ LastError(states'[cur].steps) = LastError(states[cur].steps)
  <2>1. states'[cur].steps = x
    BY <1>1, <1>2, <1>3 DEF StateObject
  <2>2. \A r \in Runs \ {cur} : states'[r] = states[r]
    BY <1>1, <1>2, <1>3
  <2> QED BY <1>1, <1>3, <2>1, <2>2
<1>4. ASSUME NEW r \in TestInputs, RecordTestResults(r)
      PROVE  /\ Told(states'[call[t].manager].steps)
                   = Told(states[call[t].manager].steps)
             /\ LastError(states'[cur].steps) = LastError(states[cur].steps)
             /\ cur' = cur
  <2> DEFINE x == PatchTests(states[cur].steps, r)
  <2>1. /\ x \in Seq(StepRecord) /\ Told(x) = Told(states[cur].steps)
        /\ LastError(x) = LastError(states[cur].steps)
    BY <1>1, <1>2, PatchType, PatchTells
  <2>2. cur' = cur /\ states' = [states EXCEPT ![cur].steps = x]
    BY <1>4 DEF RecordTestResults
  <2> HIDE DEF x
  <2> QED BY <1>3, <2>1, <2>2
<1>5. ASSUME NEW v \in SchemaInputs, RecordSchemaValid(v)
      PROVE  /\ Told(states'[call[t].manager].steps)
                   = Told(states[call[t].manager].steps)
             /\ LastError(states'[cur].steps) = LastError(states[cur].steps)
             /\ cur' = cur
  <2> DEFINE x == PatchSchema(states[cur].steps, v)
  <2>0. v \in BOOLEAN
    BY GuardAssumption
  <2>1. /\ x \in Seq(StepRecord) /\ Told(x) = Told(states[cur].steps)
        /\ LastError(x) = LastError(states[cur].steps)
    BY <1>1, <1>2, <2>0, PatchType, PatchTells
  <2>2. cur' = cur /\ states' = [states EXCEPT ![cur].steps = x]
    BY <1>5 DEF RecordSchemaValid
  <2> HIDE DEF x
  <2> QED BY <1>3, <2>1, <2>2
<1>6. CASE Reset
  <2>1. cur' = cur + 1 /\ states' = [states EXCEPT ![cur + 1] = NewState]
    BY <1>6 DEF Reset
  <2>2. states'[call[t].manager] = states[call[t].manager]
    BY <1>1, <1>2, <2>1
  <2> QED BY <1>1, <2>1, <2>2
<1> QED BY <1>4, <1>5, <1>6

LEMMA SoleInductive ==
    ASSUME OneCaller, TypeInv, SoleInv, [Next]_vars
    PROVE  SoleInv'
<1>1. PICK t \in Tasks : Tasks = {t}
  BY DEF OneCaller
<1>2. CASE UNCHANGED vars
  BY <1>2 DEF vars, SoleInv, LastStepTells, CallsInOrder, Working
<1>3. CASE CallStep(t)
  BY <1>1, <1>3, SoleStep
<1>4. CASE \/ \E r \in TestInputs : RecordTestResults(r)
           \/ \E v \in SchemaInputs : RecordSchemaValid(v)
           \/ Reset
  <2>1. call' = call
    BY <1>4, AgentCodeLeavesCalls
  <2>2. CallsInOrder'
    BY <2>1 DEF SoleInv, CallsInOrder
  <2>3. (Working(t) /\ call[t].manager = cur')
           => /\ cur' = cur
              /\ LastError(states'[cur].steps) = LastError(states[cur].steps)
    BY <1>4, AgentCodeTells DEF Working, Escalation
  <2>4. LastStepTells'
    BY <1>1, <2>1, <2>3 DEF SoleInv, LastStepTells, Working
  <2> QED BY <2>2, <2>4 DEF SoleInv
<1> QED
  BY <1>1, <1>2, <1>3, <1>4, EveryStepIsCallStep

LEMMA SoleHolds == OneCaller => (Spec => []SoleInv)
<1> SUFFICES ASSUME OneCaller PROVE Spec => []SoleInv
  OBVIOUS
<1>1. Init => SoleInv
  BY DEF Init, IdleCall, SoleInv, LastStepTells, CallsInOrder, Working,
         Escalation
<1>2. TypeInv /\ SoleInv /\ [Next]_vars => SoleInv'
  BY SoleInductive
<1> QED BY <1>1, <1>2, TypeInvHolds, PTL DEF Spec

(***************************************************************************)
(* What a single caller's user was shown is what the model is sent and     *)
(* what a fallback is taken from, whatever the application records and     *)
(* however often it resets the guard while it is asked.                    *)
(***************************************************************************)
THEOREM HistoryStandsForOneCaller ==
    Cardinality(Tasks) = 1 => (Spec => EscalatedHistoryStands)
<1> SUFFICES ASSUME Cardinality(Tasks) = 1
             PROVE  Spec => EscalatedHistoryStands
  OBVIOUS
<1> DEFINE A == \A t \in Tasks :
                   {call[t].phase, call'[t].phase} \subseteq EscalationPhases
                      => Told(states'[call[t].manager].steps)
                            = Told(states[call[t].manager].steps)
<1>1. TypeInv /\ [Next]_vars => [A]_vars
  <2> SUFFICES ASSUME TypeInv, [Next]_vars, NEW t \in Tasks,
                      call[t].phase \in EscalationPhases,
                      call'[t].phase \in EscalationPhases
               PROVE  Told(states'[call[t].manager].steps)
                         = Told(states[call[t].manager].steps)
    OBVIOUS
  <2>1. Tasks = {t} /\ call[t].phase # "idle"
    BY OneCallerByCount DEF OneCaller, EscalationPhases
  <2>2. call[t].manager \in Runs
    BY <2>1, ManagedType
  <2>3. CASE CallStep(t)
    <3>1. Ends(t) => call'[t].phase = "idle"
      BY DEF Ends, IdleCall
    <3>2. /\ call[t].phase \notin {"idle", "body"}
          /\ call'[t].phase \notin {"idle", "resolve"}
      BY DEF EscalationPhases
    <3>3. Advances(t)
      BY <2>3, <3>1, <3>2 DEF CallStep, Starts, FunctionEnds, Caught
    <3> QED BY <2>2, <3>3 DEF Advances, StepsKept
  <2>4. CASE UNCHANGED vars
    BY <2>4 DEF vars
  <2> QED BY <2>1, <2>3, <2>4, EveryStepIsCallStep, AgentCodeTells
<1>2. Spec => [][A]_vars
  BY <1>1, TypeInvHolds, PTL DEF Spec
<1> QED BY <1>2 DEF EscalatedHistoryStands

(***************************************************************************)
(* What a single caller's call raises is the error its last step records,  *)
(* or that of a part which fails outside the guard's try block, unless a   *)
(* reset fell into it: when the model or the template failed and the mode  *)
(* is raise_original, the caller sees what it would have seen without the  *)
(* guard, or the one error that the guard recorded.                        *)
(***************************************************************************)
THEOREM OneCallerSeesWhatItRecorded ==
    Cardinality(Tasks) = 1 => (Spec => RaisesWhatItRecorded)
<1> SUFFICES ASSUME Cardinality(Tasks) = 1 PROVE Spec => RaisesWhatItRecorded
  OBVIOUS
<1> DEFINE A == \A t \in Tasks :
                   (/\ call[t].phase # "idle" /\ call[t].manager = cur
                    /\ call'[t].result.how = "raised")
                   => \/ call'[t].result.value = LastError(states[cur].steps)
                      \/ call'[t].result.value
                            \in GuardErrors \ {"EscalationError"}
<1>1. TypeInv /\ SoleInv /\ [Next]_vars => [A]_vars
  <2> SUFFICES ASSUME TypeInv, SoleInv, [Next]_vars,
                      NEW t \in Tasks, call[t].phase # "idle",
                      call[t].manager = cur, call'[t].result.how = "raised"
               PROVE  \/ call'[t].result.value = LastError(states[cur].steps)
                      \/ call'[t].result.value \in FromOutside
    BY DEF FromOutside
  <2>1. Tasks = {t} /\ call[t].result.how # "raised"
    BY OneCallerByCount DEF OneCaller, SoleInv, CallsInOrder, NoResult
  <2>2. CallStep(t)
    BY <2>1, EveryStepIsCallStep, AgentCodeLeavesCalls DEF vars
  <2>3. Ends(t)
    BY <2>1, <2>2
    DEF CallStep, Starts, FunctionEnds, Caught, Advances
  <2>4. /\ Working(t) /\ call[t].handling
        /\ \/ call'[t].result.value = OriginalError(t)
           \/ call'[t].result.value \in FromOutside
    BY <2>3 DEF Ends, IdleCall
  <2>5. LastError(states[cur].steps) \in Errors
    BY <2>4 DEF SoleInv, LastStepTells
  <2>6. OriginalError(t) = LastError(states[cur].steps)
    BY <2>5, HistoryAssumption DEF OriginalError, Managed
  <2> QED BY <2>4, <2>6
<1>2. OneCaller
  BY OneCallerByCount
<1>3. Spec => [][A]_vars
  BY <1>1, <1>2, TypeInvHolds, SoleHolds, PTL DEF Spec
<1> QED BY <1>3 DEF RaisesWhatItRecorded

\* The step that a caught exception leaves behind.
ExtraInv == ExtraStepIsGuardError

LEMMA ExtraInductive ==
    ASSUME OneCaller, TypeInv, SoleInv, WorkInv, ExtraInv, [HNext]_hvars
    PROVE  ExtraInv'
<1>1. PICK t \in Tasks : Tasks = {t}
  BY DEF OneCaller
<1> SUFFICES ASSUME recorded'[t] = 2, call'[t].phase = "resolve",
                    call'[t].manager = cur'
             PROVE  LastError(states'[cur'].steps) \in GuardErrors
  BY <1>1 DEF ExtraInv, ExtraStepIsGuardError
<1>2. CASE UNCHANGED hvars
  BY <1>1, <1>2 DEF hvars, vars, history, ExtraInv, ExtraStepIsGuardError
<1>3. CASE CallStep(t) /\ Observe
  <2>1. FunctionEnds(t) \/ Caught(t)
    <3>1. ~ Starts(t)
      BY DEF Starts
    <3>2. ~ Advances(t)
      BY DEF Advances, Follows
    <3>3. Ends(t) => call'[t].phase = "idle"
      BY DEF Ends, IdleCall
    <3> QED BY <1>3, <3>1, <3>2, <3>3 DEF CallStep
  <2>2. ~ FunctionEnds(t)
    BY <1>3, ObserveStep DEF WorkInv, Work, FunctionEnds
  <2>3. Caught(t)
    BY <2>1, <2>2
  <2>4. PICK e \in Errors :
           Record(None, e) /\ (e \in GuardErrors
                               \/ e = LastError(Managed(t).steps))
    BY <2>3 DEF Caught
  <2>5. /\ LastError(states'[cur'].steps) = e
        /\ cur' = cur
    BY <2>4, RecordLastError DEF Record
  <2>6. LastError(Managed(t).steps) = None
    <3>1. call[t].manager = cur
      BY <2>3, <2>5 DEF Caught
    <3> QED BY <2>3, <3>1 DEF Caught, SoleInv, LastStepTells, Managed
  <2> QED BY <2>4, <2>5, <2>6, HistoryAssumption
<1>4. CASE \/ \E r \in TestInputs : RecordTestResults(r) /\ Observe
           \/ \E v \in SchemaInputs : RecordSchemaValid(v) /\ Observe
           \/ Reset /\ Observe
  <2>1. call' = call
    BY <1>4, AgentCodeLeavesCalls
  <2>2. recorded'[t] = recorded[t]
    BY <1>4, <2>1, ObserveOthers
  <2>3. /\ cur' = cur
        /\ LastError(states'[cur].steps) = LastError(states[cur].steps)
    BY <1>4, <2>1, AgentCodeTells
  <2> QED BY <2>1, <2>2, <2>3 DEF ExtraInv, ExtraStepIsGuardError
<1> QED
  BY <1>1, <1>2, <1>3, <1>4, HistoryStep

(***************************************************************************)
(* The second step of a single caller's call never repeats what the        *)
(* guarded function did: it records an error of the guard or of what the   *)
(* guard calls, unless a reset fell into the call.                         *)
(***************************************************************************)
THEOREM ExtraStepOfOneCaller ==
    Cardinality(Tasks) = 1 => (HSpec => []ExtraStepIsGuardError)
<1> SUFFICES ASSUME Cardinality(Tasks) = 1
             PROVE  HSpec => []ExtraStepIsGuardError
  OBVIOUS
<1>1. OneCaller
  BY OneCallerByCount
<1>2. HInit => ExtraInv
  BY DEF HInit, ExtraInv, ExtraStepIsGuardError
<1>3. TypeInv /\ SoleInv /\ WorkInv /\ ExtraInv /\ [HNext]_hvars => ExtraInv'
  BY <1>1, ExtraInductive
<1>4. ExtraInv => ExtraStepIsGuardError
  BY DEF ExtraInv
<1> QED
  BY <1>1, <1>2, <1>3, <1>4, HistoryImplementsGuard, SoleHolds, WorkHolds,
     PTL DEF HSpec

-----------------------------------------------------------------------------
(***************************************************************************)
(* Fail-open: where the configuration promises that a guarded call does    *)
(* not raise, only the custom callback does.  The invariant also says      *)
(* which phases a configuration can reach: any other exception leaves the  *)
(* guard from the phases after the check of the triggers, and those need a *)
(* model.                                                                  *)
(***************************************************************************)
Detecting == {"idle", "body", "resolve"}

MayRaise(r) == r.how = "raised" => r.value = "TriggerError"

NothingRaised == \A t \in Tasks : MayRaise(call[t].result)

PhasesConfigured ==
    \A t \in Tasks :
        /\ call[t].phase \in Detecting \/ HasModel
        /\ call[t].phase # "prompt" \/ Interrupt

FailOpenInv == NothingRaised /\ PhasesConfigured

-----------------------------------------------------------------------------
LEMMA FinishFailsOpen ==
    ASSUME TypeInv, FailOpenInv, NEW t \in Tasks, NEW r, MayRaise(r),
           Finish(t, r)
    PROVE  FailOpenInv'
<1>1. call'[t] = IdleCall(r) /\ \A u \in Tasks \ {t} : call'[u] = call[u]
  BY DEF Finish, TypeInv, TypeOK
<1>2. call'[t].result = r /\ call'[t].phase = "idle"
  BY <1>1 DEF IdleCall
<1> QED
  BY <1>1, <1>2 DEF FailOpenInv, NothingRaised, PhasesConfigured, Detecting

\* A call moves to a phase that its configuration has.
LEMMA MoveFailsOpen ==
    ASSUME TypeInv, FailOpenInv, NEW t \in Tasks, NEW p,
           Goto(t, p) \/ Await(t, p), HasModel, p = "prompt" => Interrupt
    PROVE  FailOpenInv'
<1>1. call' = [call EXCEPT ![t].phase = p]
  BY DEF Goto, Await
<1>2. /\ call'[t].phase = p /\ call'[t].result = call[t].result
      /\ \A u \in Tasks \ {t} : call'[u] = call[u]
  BY <1>1 DEF TypeInv, TypeOK, Call
<1> QED BY <1>2 DEF FailOpenInv, NothingRaised, PhasesConfigured

LEMMA ResumeFailsOpen ==
    ASSUME NothingEscapesByDesign, TypeInv, FailOpenInv, NEW t \in Tasks,
           Resume(t)
    PROVE  FailOpenInv'
<1>1. ASSUME \/ \E v \in Outputs : FunctionReturns(t, v)
             \/ \E e \in AgentErrors : FunctionRaises(t, e)
      PROVE  FailOpenInv'
  <2>1. /\ call'[t].phase = "resolve" /\ call'[t].result = call[t].result
        /\ \A u \in Tasks \ {t} : call'[u] = call[u]
    BY <1>1 DEF FunctionReturns, FunctionRaises, TypeInv, TypeOK, Call
  <2> QED
    BY <2>1 DEF FailOpenInv, NothingRaised, PhasesConfigured, Detecting
<1>2. call[t].phase \in {"prompt", "invoke"} => HasModel
  BY DEF FailOpenInv, PhasesConfigured, Detecting
<1>3. ASSUME Approved(t) PROVE FailOpenInv'
  BY <1>2, <1>3, MoveFailsOpen DEF Approved
<1>4. ASSUME Declined(t) PROVE FailOpenInv'
  BY <1>4, FinishFailsOpen DEF Declined, Returned, MayRaise
<1>5. ASSUME PromptFails(t) PROVE FALSE
  BY <1>2, <1>5
  DEF PromptFails, FailOpenInv, PhasesConfigured, NothingEscapesByDesign
<1>6. ASSUME ModelAnswers(t) PROVE FailOpenInv'
  <2>1. CASE Finish(t, Returned(Advice))
    BY <2>1, FinishFailsOpen DEF Returned, MayRaise
  <2>2. CASE Goto(t, "failopen")
    BY <1>2, <1>6, <2>2, MoveFailsOpen DEF ModelAnswers
  <2> QED BY <1>6, <2>1, <2>2 DEF ModelAnswers
<1>7. ASSUME ModelFails(t) PROVE FailOpenInv'
  BY <1>2, <1>7, MoveFailsOpen DEF ModelFails
<1> QED BY <1>1, <1>3, <1>4, <1>5, <1>6, <1>7 DEF Resume

LEMMA ProceedFailsOpen ==
    ASSUME NothingEscapesByDesign, TypeInv, FailOpenInv, NEW t \in Tasks,
           Proceed(t)
    PROVE  FailOpenInv'
<1>1. call[t].phase \in {"escalate", "package", "failopen"} => HasModel
  BY DEF FailOpenInv, PhasesConfigured, Detecting
<1>2. ASSUME NEW c \in CallbackResults, CallbackFails(t, c)
      PROVE  FailOpenInv'
  <2>1. CASE call' = [call EXCEPT ![t].phase = "resolve",
               ![t].handling = TRUE, ![t].output = None, ![t].trigger = None]
    <3>1. /\ call'[t].phase = "resolve" /\ call'[t].result = call[t].result
          /\ \A u \in Tasks \ {t} : call'[u] = call[u]
      BY <2>1 DEF TypeInv, TypeOK, Call
    <3> QED
      BY <3>1 DEF FailOpenInv, NothingRaised, PhasesConfigured, Detecting
  <2>2. CASE Finish(t, Raised("TriggerError"))
    BY <2>2, FinishFailsOpen DEF Raised, MayRaise
  <2> QED BY <1>2, <2>1, <2>2 DEF CallbackFails, Escape
<1>3. ASSUME NEW c \in CallbackResults, NoTrigger(t, c) PROVE FailOpenInv'
  BY <1>3, FinishFailsOpen DEF NoTrigger, Returned, MayRaise
<1>4. ASSUME NEW c \in CallbackResults, DetectOnly(t, c) PROVE FailOpenInv'
  BY <1>4, FinishFailsOpen DEF DetectOnly, Returned, MayRaise
<1>5. ASSUME NEW c \in CallbackResults, Triggered(t, c) PROVE FailOpenInv'
  <2>1. /\ call'[t].phase = "escalate" /\ call'[t].result = call[t].result
        /\ \A u \in Tasks \ {t} : call'[u] = call[u]
    BY <1>5 DEF Triggered, TypeInv, TypeOK, Call
  <2> QED
    BY <1>5, <2>1 DEF Triggered, FailOpenInv, NothingRaised, PhasesConfigured
<1>6. ASSUME Capped(t) PROVE FailOpenInv'
  <2>1. Finish(t, Returned(LastOutput(Managed(t).steps)))
    BY <1>1, <1>6 DEF Capped, Escalating, NothingEscapesByDesign
  <2> QED BY <2>1, FinishFailsOpen DEF Returned, MayRaise
<1>7. ASSUME AskUser(t) PROVE FailOpenInv'
  <2>1. Await(t, "prompt")
    BY <1>1, <1>7 DEF AskUser, Escalating, NothingEscapesByDesign
  <2> QED BY <1>1, <1>7, <2>1, MoveFailsOpen DEF AskUser, Escalating
<1>8. ASSUME SkipPrompt(t) PROVE FailOpenInv'
  BY <1>1, <1>8, MoveFailsOpen DEF SkipPrompt, Escalating
<1>9. ASSUME Invoke(t) PROVE FailOpenInv'
  BY <1>1, <1>9, MoveFailsOpen DEF Invoke
<1>10. ASSUME FailOpenLogFails(t) \/ RaiseOriginal(t) PROVE FALSE
  BY <1>1, <1>10
  DEF FailOpenLogFails, RaiseOriginal, Failing, NothingEscapesByDesign
<1>11. ASSUME ReturnFallback(t) PROVE FailOpenInv'
  BY <1>11, FinishFailsOpen DEF ReturnFallback, Returned, MayRaise
<1> QED
  BY <1>2, <1>3, <1>4, <1>5, <1>6, <1>7, <1>8, <1>9, <1>10, <1>11
  DEF Proceed

LEMMA FailOpenInductive ==
    NothingEscapesByDesign
        => (TypeInv /\ FailOpenInv /\ [Next]_vars => FailOpenInv')
<1> SUFFICES ASSUME NothingEscapesByDesign, TypeInv, FailOpenInv, [Next]_vars
             PROVE  FailOpenInv'
  OBVIOUS
<1>1. ASSUME UNCHANGED call PROVE FailOpenInv'
  BY <1>1 DEF FailOpenInv, NothingRaised, PhasesConfigured
<1>2. CASE UNCHANGED vars
  BY <1>1, <1>2 DEF vars
<1>3. ASSUME \/ \E r \in TestInputs : RecordTestResults(r)
             \/ \E v \in SchemaInputs : RecordSchemaValid(v)
             \/ Reset
      PROVE  FailOpenInv'
  BY <1>1, <1>3 DEF RecordTestResults, RecordSchemaValid, Reset
<1>4. ASSUME NEW t \in Tasks, Begin(t) PROVE FailOpenInv'
  <2>1. /\ call'[t].phase = "body" /\ call'[t].result = NoResult
        /\ \A u \in Tasks \ {t} : call'[u] = call[u]
    BY <1>4 DEF Begin, IdleCall, TypeInv, TypeOK
  <2> QED
    BY <2>1
    DEF FailOpenInv, NothingRaised, PhasesConfigured, Detecting, NoResult,
        MayRaise
<1>5. ASSUME NEW t \in Tasks, Interrupted(t) PROVE FailOpenInv'
  BY <1>5, FinishFailsOpen DEF Interrupted, Cancelled, MayRaise
<1>6. CASE Next
  BY <1>3, <1>4, <1>5, <1>6, ResumeFailsOpen, ProceedFailsOpen DEF Next
<1> QED BY <1>2, <1>6

(***************************************************************************)
(* In every configuration that promises it, no guarded call raises         *)
(* anything but what the custom callback did.                              *)
(***************************************************************************)
THEOREM GuardFailsOpen == Spec => []FailsOpen
<1>1. CASE NothingEscapesByDesign
  <2>1. Init => FailOpenInv
    BY DEF Init, IdleCall, NoResult, FailOpenInv, NothingRaised,
           PhasesConfigured, Detecting, MayRaise
  <2>2. TypeInv /\ FailOpenInv /\ [Next]_vars => FailOpenInv'
    BY <1>1, FailOpenInductive
  <2>3. FailOpenInv => FailsOpen
    BY DEF FailOpenInv, NothingRaised, FailsOpen, MayRaise
  <2> QED BY <2>1, <2>2, <2>3, TypeInvHolds, PTL DEF Spec
<1>2. CASE ~ NothingEscapesByDesign
  <2>1. FailsOpen
    BY <1>2 DEF FailsOpen
  <2> QED BY <2>1, PTL
<1> QED BY <1>1, <1>2

=============================================================================
