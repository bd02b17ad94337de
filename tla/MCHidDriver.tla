----------------------------- MODULE MCHidDriver -----------------------------
(* Values for model checking HidDriver.  Brokers are interchangeable, and  *)
(* so are operation handles: VHF tells the driver nothing about either.    *)
EXTENDS HidDriver, TLC

Symmetric == Permutations(Files) \cup Permutations(Handles)
=============================================================================
