----------------------------- MODULE MCWsFrame -----------------------------
(* Instances of WsFrame for TLC. *)
EXTENDS WsFrame

NoControl == {}

Ping == {9}

(* A length in each of the three forms of a length code, zero included. *)
EachForm == {0, 2, 4}

(* One length below, at and above each change of the length's form. *)
AllForms == {0, 1, 2, 3, 4, 5}

(* Around the first change of the form, and the last before the second. *)
AcrossForms == {1, 2, 3}
=============================================================================
