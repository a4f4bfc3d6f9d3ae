------------------------- MODULE MCLoadedReconciler -------------------------
(* Instances of LoadedReconciler for TLC.                                  *)
EXTENDS LoadedReconciler, TLC

CONSTANTS w1, w2, a, b

\* b must not run on the first worker, and its artifact is old on the second.
FirstOnlyA == [w \in Workers |-> IF w = w1 THEN {a} ELSE Models]
StaleB == [p \in Workers \X Models |-> IF p = <<w2, b>> THEN "stale_config" ELSE "ready"]

FloorOfBoth == [m \in Models |-> 1]
CeilingTwoOfA == (a :> 2) @@ (b :> AutoMax)
AFirst == (a :> 50) @@ (b :> 10)
=============================================================================
