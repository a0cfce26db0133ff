-------------------------- MODULE MCCollisionLocks --------------------------
(* Two path scopes, one inside the other, and a third clear of both.       *)
EXTENDS CollisionLocks, TLC

CONSTANTS src, srcLib, docs

MCScopes == {src, srcLib, docs}
MCOverlap == {<<s, s>> : s \in MCScopes} \cup {<<src, srcLib>>, <<srcLib, src>>}
Symmetry == Permutations(Runs) \cup Permutations(Procs)
=============================================================================
