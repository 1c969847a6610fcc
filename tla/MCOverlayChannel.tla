------------------------- MODULE MCOverlayChannel -------------------------
(* Instances of OverlayChannel for TLC.                                      *)
EXTENDS OverlayChannel

MCBuffers == <<1, 2>>
MCFrames == <<3, 1>>
Symmetry == Permutations(Videos)
=============================================================================
