----------------------------- MODULE RetryBudget -----------------------------
(***************************************************************************)
(* What the retry policies of worker.py promise of one run: every attempt  *)
(* after the first is paid for out of a budget per kind of error, nothing  *)
(* is ever paid back, and a verdict is final.                              *)
(***************************************************************************)
EXTENDS Integers

CONSTANTS
  Kind,    \* the kinds of error that have a policy
  Limit    \* how many retries each of them pays for, a function to Nat

VARIABLES phase, left

budgetVars == <<phase, left>>

BudgetInit == phase = "waiting" /\ left = Limit

(* An attempt begins. *)
Begin ==
  /\ phase = "waiting"
  /\ phase' = "attempt"
  /\ UNCHANGED left

(* It asks for another one, at the price of one unit of the cause at least. *)
Pay ==
  /\ phase = "attempt"
  /\ phase' = "waiting"
  /\ left' \in [Kind -> Nat]
  /\ \A k \in Kind : left'[k] <= left[k]
  /\ \E k \in Kind : left'[k] < left[k]

(* The run gets its verdict. *)
Close ==
  /\ phase \in {"waiting", "attempt"}
  /\ phase' = "closed"
  /\ UNCHANGED left

BudgetNext == Begin \/ Pay \/ Close

BudgetSpec == BudgetInit /\ [][BudgetNext]_budgetVars

=============================================================================
