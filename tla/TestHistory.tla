---------------------------- MODULE TestHistory ----------------------------
(***************************************************************************)
(* A guarded function that records the results of its tests as             *)
(* docs/triggers.md shows it: once in every call, before it returns.  The  *)
(* variable told remembers what was recorded, beside what Guard makes of   *)
(* it.                                                                     *)
(***************************************************************************)
EXTENDS Guard

VARIABLE
    told       \* the last results recorded, one for each call

tvars == <<vars, told>>

TInit == Init /\ told = <<>>

\* record_test_results inside the function; while nothing is pending the
\* call in progress has not recorded yet.
Tell(r) ==
    /\ pending = NoPending
    /\ \E t \in Tasks : call[t].phase = "body"
    /\ RecordTestResults(r)
    /\ told' = Append(IF Len(told) = OscillationWindow THEN Tail(told) ELSE told,
                      r)

GuardGoesOn ==
    /\ \E t \in Tasks :
          \/ Begin(t)
          \/ (call[t].phase = "body" => pending # NoPending) /\ Resume(t)
          \/ Proceed(t)
    /\ UNCHANGED told

TNext == (\E r \in TestInputs : Tell(r)) \/ GuardGoesOn

TSpec == TInit /\ [][TNext]_tvars

-----------------------------------------------------------------------------
\* Some test alternates in all the results of a full window.
Alternates(results) ==
    /\ Len(results) = OscillationWindow
    /\ \E x \in UNION {DOMAIN r : r \in TestInputs} :
          /\ \A i \in DOMAIN results : x \in DOMAIN results[i]
          /\ \A i \in 1 .. OscillationWindow - 1 :
                results[i][x] # results[i + 1][x]

(***************************************************************************)
(* "If the same test oscillates pass->fail->pass->fail over any 4-step     *)
(* window, the trigger fires" (docs/triggers.md:72), for results recorded  *)
(* by record_test_results in the guarded function, "attached to the        *)
(* current step immediately (no one-step lag)" (docs/triggers.md:58).      *)
(***************************************************************************)
OscillationIsDetected ==
    [][ \A t \in Tasks :
          (Resolving(t) /\ Alternates(told)) => call'[t].phase = "escalate" ]_tvars

=============================================================================
