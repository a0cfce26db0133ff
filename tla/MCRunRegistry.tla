--------------------------- MODULE MCRunRegistry ---------------------------
(* An L0 run, and two runs on overlapping paths that name it as parent: an *)
(* L1 run and a legacy one.                                                *)
EXTENDS RunRegistry, TLC

CONSTANTS src, srcLib, docs, root, a, b

MCScopes == {src, srcLib, docs}
MCOverlap == {<<s, s>> : s \in MCScopes} \cup {<<src, srcLib>>, <<srcLib, src>>}
Flat == [r \in Runs |-> NoRun]
Tree == [r \in Runs |-> IF r = root THEN NoRun ELSE root]
Claims2 == {{src, docs}, {srcLib}}
OneScope == {{src}, {srcLib}}
Claims1 == {{}, {src}}
Levels == [r \in Runs |-> CASE r = root -> "L0" [] r = a -> "L1" [] OTHER -> "LEGACY"]
AllLegacy == [r \in Runs |-> "LEGACY"]
Symmetry == Permutations({a, b})
OneChild == [r \in Runs |-> 1]
=============================================================================
