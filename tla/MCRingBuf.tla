----------------------------- MODULE MCRingBuf -----------------------------
(* An instance of RingBuf for TLC. *)
EXTENDS RingBuf
=============================================================================
