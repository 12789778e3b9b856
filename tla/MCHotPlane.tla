----------------------------- MODULE MCHotPlane -----------------------------
(* Finite values for HotPlane's constants. *)
EXTENDS HotPlane

CONSTANTS q1, q2

TwoQuotes == {q1, q2}
=============================================================================
