---------------------------- MODULE MCReconciler ----------------------------
(* Two runs that claim the same path, one request at a time.               *)
EXTENDS Reconciler, TLC

CONSTANT src

Same == {<<src, src>>}
Flat == [r \in Runs |-> NoRun]
AllLegacy == [r \in Runs |-> "LEGACY"]
Unlimited == [r \in Runs |-> 2]
OneClaim == {{src}}
Symmetry == Permutations(Runs)
=============================================================================
