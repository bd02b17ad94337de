---------------------------- MODULE MCSuspendGuard ----------------------------
(* Values for model checking SuspendGuard: the objects that the script     *)
(* creates are interchangeable.                                            *)
EXTENDS SuspendGuard, TLC

Symmetric == Permutations(Objects)
=============================================================================
