--------------------------- MODULE MCBudgetLedger ---------------------------
(* BudgetLedger on a small instance for TLC. *)
EXTENDS BudgetLedger
=============================================================================
