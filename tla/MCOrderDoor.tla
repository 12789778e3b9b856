---------------------------- MODULE MCOrderDoor ----------------------------
(* Three server ids, bursts of two rows, two connections. *)
EXTENDS Ticket, TLC

CONSTANTS c1, h1, h2

MCConns == {h1, h2}
ConnSymmetry == Permutations(MCConns)

\* The best offer is missing, and the walk beyond the next is capped.
Level(price, size) == [price |-> price, size |-> size]
MCAskSides == {<<NoLevel, Level(5, 2), Level(7, 2)>>}
MCTyped == {-1}
=============================================================================
