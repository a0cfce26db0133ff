--------------------------- MODULE MCLifecycleRail ---------------------------
(* One task on a rail of three stages, the last verified.                  *)
EXTENDS LifecycleRail

CONSTANTS r1, r2, r3, a1, a2, h1, h2

\* r3 works for the agent of r1, in the thread of r2.
MCAgent == [r \in Runs |-> IF r = r2 THEN a2 ELSE a1]
MCThread == [r \in Runs |-> IF r = r1 THEN h1 ELSE h2]
MCVerifierStages == {LastStage}
=============================================================================
