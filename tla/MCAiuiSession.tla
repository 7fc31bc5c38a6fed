--------------------------- MODULE MCAiuiSession ---------------------------
(* Instances of AiuiSession for TLC. *)
EXTENDS AiuiSession, TLC

CONSTANTS c1, c2

One == {c1}
Two == {c1, c2}

Live == {"real"}
Text == {"text"}

NoFaults == {}
TimeoutOnly == {"timeout"}
CloseAndTimeout == {"close", "timeout"}

Dropping == {"timeout", "reject", "close"}

SymTwo == Permutations(Two)
=============================================================================
