------------------------------- MODULE Depth --------------------------------
(***************************************************************************)
(* The depth panel's arithmetic (apps/web/src/lib/depth.ts): one side of a *)
(* book, best level first, as rows that accumulate volume and the average  *)
(* price of taking it; and the order that a click on a row asks for.       *)
(***************************************************************************)
EXTENDS SequencesExt, Integers

CONSTANT MaxOrderQty   \* MAX_ORDER_QTY_K

ASSUME DepthAssumption == MaxOrderQty \in Nat \ {0}

\* A level the market publishes: its size is never below MIN_SIZE.
Offers == [price : Nat, size : Nat \ {0}]
NoLevel == [price |-> 0, size |-> 0]   \* a level the book does not hold

\* Math.round of a positive quotient.
Rounded(num, den) == (2 * num + den) \div (2 * den)

\* The volume and the money of everything down to a level.
Volume(levels, n) == FoldSeq(LAMBDA e, sum : sum + e.size, 0, SubSeq(levels, 1, n))
Notional(levels, n) ==
  FoldSeq(LAMBDA e, sum : sum + e.price * e.size, 0, SubSeq(levels, 1, n))

\* depthRows: levels that are missing are skipped, the others keep their number.
DepthRow(levels, n) ==
  [level |-> n, price |-> levels[n].price, size |-> levels[n].size,
   cumSize |-> Volume(levels, n),
   avgPx |-> Rounded(Notional(levels, n), Volume(levels, n))]

DepthRows(levels) ==
  {DepthRow(levels, n) : n \in {m \in DOMAIN levels : levels[m] # NoLevel}}

TakerSide(side) == IF side = "ask" THEN "buy" ELSE "sell"

\* Mutant: the whole walk is asked for.
PickWhole(side, row) ==
  [side |-> TakerSide(side), qty |-> row.cumSize, avgPx |-> row.avgPx,
   capped |-> row.cumSize > MaxOrderQty]

\* pickOf: the volume down to the clicked row, as far as one order may go.
PickOf(side, row) ==
  [side |-> TakerSide(side), qty |-> Min({row.cumSize, MaxOrderQty}),
   avgPx |-> row.avgPx, capped |-> row.cumSize > MaxOrderQty]
=============================================================================
