--------------------------- MODULE MCPlanLifecycle ---------------------------
(* Three plans of two attempts; p3 runs alone in a2. *)
EXTENDS PlanLifecycle, TLC

CONSTANTS a1, a2, p1, p2, p3

AttemptOfPlans == p1 :> a1 @@ p2 :> a1 @@ p3 :> a2

=============================================================================
