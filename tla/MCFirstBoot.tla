----------------------------- MODULE MCFirstBoot -----------------------------
(* Values for model checking FirstBoot: the versions are interchangeable.  *)
EXTENDS FirstBoot, TLC

Symmetric == Permutations(Versions)
=============================================================================
