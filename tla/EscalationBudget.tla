-------------------------- MODULE EscalationBudget --------------------------
(***************************************************************************)
(* What the guard promises about escalations, whatever the triggers, the   *)
(* callers and the model do: each run has a budget of Limit escalations,   *)
(* an escalation spends one unit of it, and only the start of a new run    *)
(* gives it back.                                                          *)
(***************************************************************************)
EXTENDS Naturals

CONSTANT Limit   \* how many escalations a run may have

VARIABLES
    run,     \* number of the current run
    spent    \* escalations of the current run

budgetVars == <<run, spent>>

BudgetInit == run = 1 /\ spent = 0

Spend ==
    /\ spent < Limit
    /\ spent' = spent + 1
    /\ run' = run

Renew ==
    /\ run' = run + 1
    /\ spent' = 0

BudgetNext == Spend \/ Renew

BudgetSpec == BudgetInit /\ [][BudgetNext]_budgetVars

=============================================================================
