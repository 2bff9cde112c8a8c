----------------------------- MODULE MCPlanning -----------------------------
(***************************************************************************)
(* The instance of PlanningWorkflow for TLC: its pairs are model values.   *)
(* A run under fairness, without symmetry.                                 *)
(***************************************************************************)
EXTENDS PlanningWorkflow

============================================================================
