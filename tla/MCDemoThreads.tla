--------------------------- MODULE MCDemoThreads ---------------------------
(* Instances of DemoThreads for TLC. *)
EXTENDS DemoThreads
=============================================================================
