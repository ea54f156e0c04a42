---------------------------- MODULE MCSignalPath -----------------------------
(* SignalPath on three bars; the two directions are interchangeable. *)
EXTENDS SignalPath, TLC
DirsSymmetry == Permutations(Dirs)
=============================================================================
