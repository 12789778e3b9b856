----------------------------- MODULE MCFeedDoor -----------------------------
(* Finite values for FeedDoor's constants. *)
EXTENDS FeedDoor

CONSTANTS a, b

TwoPages == {a, b}
OnePage == {a}
=============================================================================
