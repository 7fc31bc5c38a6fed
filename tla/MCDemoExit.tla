----------------------------- MODULE MCDemoExit -----------------------------
(* Instances of DemoExit for TLC. *)
EXTENDS DemoExit
=============================================================================
