---------------------------- MODULE MCWarmPlane -----------------------------
(* Finite values for WarmPlane's constants. *)
EXTENDS WarmPlane, TLC

CONSTANTS o1, o2

OneId == {o1}
NoIds == {}
TwoIds == {o1, o2}
OrderSymmetry == Permutations(TwoIds)
=============================================================================
