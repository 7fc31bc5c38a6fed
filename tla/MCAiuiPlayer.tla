---------------------------- MODULE MCAiuiPlayer ----------------------------
(* Instances of AiuiPlayer for TLC. *)
EXTENDS AiuiPlayer
=============================================================================
