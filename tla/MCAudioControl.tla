---------------------------- MODULE MCAudioControl ----------------------------
(* Instances of AudioControl for TLC. *)
EXTENDS AudioControl, TLC

Symmetry == Permutations(PlayThreads)
=============================================================================
