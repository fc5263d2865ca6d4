---------------------------- MODULE CostTracker ----------------------------
(***************************************************************************)
(* cost.py: what CostTracker keeps, as operators on the value of a         *)
(* tracker.  Every method holds one lock from its first to its last line,  *)
(* so each is one step.  Tokens and dollars are sums nothing branches on   *)
(* and are left out.                                                       *)
(***************************************************************************)
EXTENDS Naturals, FiniteSetsExt

Categories == {"routing", "failover"}

\* TaskCost of a task that nothing was recorded for.
NewTaskCost == [retries |-> 0, escalations |-> 0,
                categories |-> [c \in Categories |-> 0]]

\* Tasks appear in the dict with their first record.
NewTracker == [calls |-> 0, tasks |-> <<>>]

TaskCost == [retries : Nat, escalations : Nat, categories : [Categories -> Nat]]

IsTracker(tracker, names) ==
    /\ tracker.calls \in Nat
    /\ DOMAIN tracker.tasks \subseteq names
    /\ \A t \in DOMAIN tracker.tasks : tracker.tasks[t] \in TaskCost

TaskOf(tracker, task) ==
    IF task \in DOMAIN tracker.tasks THEN tracker.tasks[task] ELSE NewTaskCost

WithTask(tracker, task, cost) ==
    [tracker EXCEPT !.tasks =
        [t \in DOMAIN @ \cup {task} |-> IF t = task THEN cost ELSE @[t]]]

RecordStep(tracker, task) ==
    WithTask(tracker, task, [TaskOf(tracker, task) EXCEPT !.retries = @ + 1])

\* Mutant of RecordEscalation: the default category is taken.
RecordEscalationAsRouting(tracker, task, category) ==
    WithTask(tracker, task,
        [TaskOf(tracker, task) EXCEPT !.escalations = @ + 1,
                                      !.categories["routing"] = @ + 1])

RecordEscalation(tracker, task, category) ==
    WithTask(tracker, task,
        [TaskOf(tracker, task) EXCEPT !.escalations = @ + 1,
                                      !.categories[category] = @ + 1])

RecordGuardedCall(tracker) == [tracker EXCEPT !.calls = @ + 1]

Clear(tracker) == NewTracker

\* The numerator of get_escalation_rate; its denominator is tracker.calls.
TotalEscalations(tracker) ==
    MapThenSumSet(LAMBDA t : tracker.tasks[t].escalations, DOMAIN tracker.tasks)

RoutingVsFailover(tracker) ==
    [c \in Categories |->
        MapThenSumSet(LAMBDA t : tracker.tasks[t].categories[c],
                      DOMAIN tracker.tasks)]

=============================================================================
