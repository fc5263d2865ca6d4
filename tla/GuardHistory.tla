---------------------------- MODULE GuardHistory ----------------------------
(***************************************************************************)
(* History variables added to Guard.  They observe its steps and never     *)
(* constrain them; the properties below relate what the guard decides to   *)
(* what was really done by and told to it.                                 *)
(***************************************************************************)
EXTENDS Guard

VARIABLES
    recorded,   \* task -> steps recorded by its current or latest call
    invoked,    \* task -> model invocations of its current or latest call
    heard       \* what record_* was called with since the last reset

history == <<recorded, invoked, heard>>
hvars == <<vars, history>>

\* Bound of the history variables: the counters stop there.
CallBound == 3

Bounded(n, bound) == IF n < bound THEN n + 1 ELSE n

\* The step taken begins a call of t, records a step in it, invokes the model.
Begins(t) == call[t].phase = "idle" /\ call'[t].phase = "body"
Records(t) == call'[t].phase = "resolve" /\ call'[t] # call[t]
Invokes(t) == call[t].phase # "invoke" /\ call'[t].phase = "invoke"

HInit ==
    /\ Init
    /\ recorded = [t \in Tasks |-> 0]
    /\ invoked = [t \in Tasks |-> 0]
    /\ heard = [tests |-> {}, schema |-> {}]

Observe ==
    /\ recorded' = [t \in Tasks |->
                      IF Begins(t) THEN 0
                      ELSE IF Records(t) THEN Bounded(recorded[t], CallBound)
                      ELSE recorded[t]]
    /\ invoked' = [t \in Tasks |->
                      IF Begins(t) THEN 0
                      ELSE IF Invokes(t) THEN Bounded(invoked[t], CallBound)
                      ELSE invoked[t]]

HNext ==
    \/ /\ \/ Reset
          \/ \E t \in Tasks : Begin(t) \/ Resume(t) \/ Proceed(t) \/ Interrupted(t)
       /\ Observe
       /\ heard' = IF cur' # cur THEN [tests |-> {}, schema |-> {}] ELSE heard
    \/ \E r \in TestInputs :
          /\ RecordTestResults(r)
          /\ Observe
          /\ heard' = [heard EXCEPT !.tests = @ \cup {r}]
    \/ \E v \in SchemaInputs :
          /\ RecordSchemaValid(v)
          /\ Observe
          /\ heard' = [heard EXCEPT !.schema = @ \cup {v}]

HSpec == HInit /\ [][HNext]_hvars

-----------------------------------------------------------------------------
(***************************************************************************)
(* No step of a run carries test results or a validation recorded before   *)
(* the reset that began the run, even when the reset falls into a call     *)
(* (guard.py:145-151).                                                     *)
(***************************************************************************)
MetadataOfThisRun ==
    LET steps == states[cur].steps
    IN  \A i \in DOMAIN steps :
           /\ steps[i].tests # None => steps[i].tests \in heard.tests
           /\ steps[i].schema # None => steps[i].schema \in heard.schema

(***************************************************************************)
(* One call records at most two steps and invokes the model at most twice, *)
(* whatever fails in it: the except clause of _step_sync is not re-entered *)
(* (guard.py:234-240).                                                     *)
(***************************************************************************)
WorkPerCallIsBounded ==
    \A t \in Tasks : recorded[t] <= 2 /\ invoked[t] <= 2

(***************************************************************************)
(* With one caller, the second step of a call is an error of the guard or  *)
(* of what it calls, never a second record of what the guarded function    *)
(* did (guard.py:238-240).  A call overtaken by a reset may record the     *)
(* last error of the run before, which raise_original takes from there.    *)
(***************************************************************************)
ExtraStepIsGuardError ==
    \A t \in Tasks :
        (recorded[t] = 2 /\ call[t].phase = "resolve" /\ call[t].manager = cur)
            => LastError(states[cur].steps) \in GuardErrors

=============================================================================
