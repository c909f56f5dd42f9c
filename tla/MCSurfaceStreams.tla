-------------------------- MODULE MCSurfaceStreams --------------------------
(* Small instances of SurfaceStreams for TLC.                              *)
EXTENDS SurfaceStreams, TLC

Symmetry == Permutations(Views)
=============================================================================
