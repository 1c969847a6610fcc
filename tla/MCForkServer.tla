---------------------------- MODULE MCForkServer ----------------------------
(* Model values for ForkServer; PIDs and slots are interchangeable.         *)
EXTENDS ForkServer, TLC
Symmetry == Permutations(Pids) \cup Permutations(Slots)
=============================================================================
