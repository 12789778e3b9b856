------------------------------ MODULE MCLedger ------------------------------
(* Finite values for PositionsPage's constants. *)
EXTENDS PositionsPage, TLC

CONSTANTS o1, o2

MCOrders == {o1, o2}
OrderSymmetry == Permutations(MCOrders)
MCQuantities == {-1, 2}
=============================================================================
