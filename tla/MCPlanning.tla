----------------------------- MODULE MCPlanning -----------------------------
(* Two plans of two texts, two decisions of which one cannot be snoozed.   *)
EXTENDS Planning, TLC

Symmetry == Permutations(Plans) \cup Permutations(Texts)
=============================================================================
