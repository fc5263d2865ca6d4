----------------------------- MODULE GuardState -----------------------------
(***************************************************************************)
(* The per-run data of the guard: StepRecord and GuardState of             *)
(* _internal/state.py, and what the rest of the package does with the      *)
(* list of steps.  Everything here is an operator on values: the variables *)
(* that hold these values are declared by the modules that extend this     *)
(* one.                                                                    *)
(***************************************************************************)
EXTENDS Naturals, Sequences

CONSTANTS
    None,        \* Python's None
    Outputs,     \* values a guarded function returns
    Errors,      \* exceptions, each standing for its (type, message) pair
    TestInputs,  \* dicts test name -> passed that record_test_results receives
    MaxHistory   \* config.max_history_steps

(***************************************************************************)
(* GuardConfig accepts only 10 <= max_history_steps <= 1000; a list of     *)
(* steps is bounded in the same way for every positive bound, and small    *)
(* ones keep the models small.                                             *)
(***************************************************************************)
ASSUME HistoryAssumption ==
    /\ MaxHistory \in Nat \ {0}
    /\ None \notin Errors
    /\ None \notin TestInputs
    /\ None \notin BOOLEAN
    /\ \A r \in TestInputs : r \in [DOMAIN r -> BOOLEAN]

StepRecord ==
    [num    : Nat,
     output : Outputs \cup {None},
     error  : Errors \cup {None},
     tests  : TestInputs \cup {None},
     schema : BOOLEAN \cup {None}]

\* One GuardState object: its list of steps and its escalation counter.
StateObject == [steps : Seq(StepRecord), escalations : Nat]

NewState == [steps |-> <<>>, escalations |-> 0]

\* Mutants of AddStep: the bound is forgotten; the slice keeps the wrong end.
AddStepUnbounded(steps, record) == Append(steps, record)

AddStepKeepsOldest(steps, record) ==
    IF Len(steps) = MaxHistory THEN steps ELSE Append(steps, record)

\* GuardState.add_step: append, then drop the oldest records.
AddStep(steps, record) ==
    LET longer == Append(steps, record)
    IN  IF Len(longer) > MaxHistory
        THEN SubSeq(longer, Len(longer) - MaxHistory + 1, Len(longer))
        ELSE longer

\* The immediate update of steps[-1] by record_test_results and
\* record_schema_valid; an empty list is left alone.
PatchTests(steps, results) ==
    IF steps = <<>> THEN steps
    ELSE [steps EXCEPT ![Len(steps)] = [@ EXCEPT !.tests = results]]

PatchSchema(steps, valid) ==
    IF steps = <<>> THEN steps
    ELSE [steps EXCEPT ![Len(steps)] = [@ EXCEPT !.schema = valid]]

\* _get_last_output of the guard and of the escalation manager.
LastOutput(steps) == IF steps = <<>> THEN None ELSE steps[Len(steps)].output

\* The exception raise_original finds on the last step, None if there is none.
LastError(steps) == IF steps = <<>> THEN None ELSE steps[Len(steps)].error

=============================================================================
