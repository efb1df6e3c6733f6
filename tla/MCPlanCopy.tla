----------------------------- MODULE MCPlanCopy -----------------------------
(* Two windows that nothing tells apart.                                   *)
EXTENDS PlanCopy, TLC

Same == Permutations(Windows)
=============================================================================
