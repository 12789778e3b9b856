------------------------------ MODULE MCMarket ------------------------------
(* Finite values for MarketWire's constants. *)
EXTENDS MarketWire, TLC

CONSTANTS p1, p2

TwoPairs == {p1, p2}
PairSymmetry == Permutations(TwoPairs)
DownJump == {-3}

\* What the theorem about the wires is conditional on holds of this instance.
ASSUME RoomOnTheWire == WidthsSuffice
=============================================================================
