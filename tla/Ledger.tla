------------------------------- MODULE Ledger -------------------------------
(***************************************************************************)
(* The server's book of trades and positions                               *)
(* (packages/sim-core/src/ledger.ts): orders are registered, every TRADE   *)
(* is appended and folded into its pair's position by average-cost         *)
(* accounting.  avgPx and realisedPnl are exact fractions here, where the  *)
(* code keeps doubles.                                                     *)
(***************************************************************************)
EXTENDS SequencesExt, Integers

CONSTANTS
  Orders,        \* clOrdIds
  Pairs,
  Quantities,    \* sizes orders are opened with, legal or not
  Prices,        \* fill prices, pipettes
  MaxTrades      \* bound: trades recorded

ASSUME LedgerAssumption ==
  /\ Quantities \subseteq Int
  /\ Prices \subseteq Nat \ {0}
  /\ MaxTrades \in Nat

VARIABLES
  meta,        \* [Orders -> OrderMeta, Unregistered before open()]
  trades,      \* TradeRows
  positions    \* [Pairs -> PositionRow]

ledgerVars == <<meta, trades, positions>>

-----------------------------------------------------------------------------
(* Fractions over a positive denominator *)

Frac(num, den) == [num |-> num, den |-> den]
Plus(a, b) == Frac(a.num * b.den + b.num * a.den, a.den * b.den)
Times(n, a) == Frac(n * a.num, a.den)
Over(a, n) == Frac(a.num, a.den * n)
Same(a, b) == a.num * b.den = b.num * a.den
AtMost(a, b) == a.num * b.den <= b.num * a.den
Whole(n) == Frac(n, 1)

Size(n) == IF n < 0 THEN -n ELSE n
Sign(n) == IF n > 0 THEN 1 ELSE IF n < 0 THEN -1 ELSE 0

-----------------------------------------------------------------------------
(* Average-cost accounting *)

Unregistered == [pair |-> "none", side |-> "none", qty |-> 0]
Flat == [net |-> 0, avg |-> Whole(0), realised |-> Whole(0)]

Signed(side, qty) == IF side = "buy" THEN qty ELSE -qty

\* Opening or extending: the entry price averages in.
Extend(p, signed, price) ==
  LET qty == Size(signed)
  IN [net |-> p.net + signed,
      realised |-> p.realised,
      avg |-> Over(Plus(Times(Size(p.net), p.avg), Whole(price * qty)), Size(p.net) + qty)]

\* Mutant: a fill that crosses flat realises its whole quantity.
ReduceAll(p, signed, price) ==
  LET net == p.net + signed
      gain == Times(Size(signed) * Sign(p.net), Plus(Whole(price), Times(-1, p.avg)))
  IN [net |-> net,
      realised |-> Plus(p.realised, gain),
      avg |-> IF net = 0 THEN Whole(0)
              ELSE IF Sign(net) # Sign(p.net) THEN Whole(price)
              ELSE p.avg]

\* Reducing or crossing: what closes is realised against the entry, and what
\* is left on the other side of flat opens at the fill price.
Reduce(p, signed, price) ==
  LET net == p.net + signed
      closed == IF Size(signed) <= Size(p.net) THEN Size(signed) ELSE Size(p.net)
      gain == Times(closed * Sign(p.net), Plus(Whole(price), Times(-1, p.avg)))
  IN [net |-> net,
      realised |-> Plus(p.realised, gain),
      avg |-> IF net = 0 THEN Whole(0)
              ELSE IF Sign(net) # Sign(p.net) THEN Whole(price)
              ELSE p.avg]

ApplyFill(p, signed, price) ==
  IF p.net = 0 \/ Sign(p.net) = Sign(signed)
  THEN Extend(p, signed, price)
  ELSE Reduce(p, signed, price)

-----------------------------------------------------------------------------
(* The calls; open() of a known id or a negative size throws *)

Open(id, pair, side, qty) ==
  /\ meta[id] = Unregistered
  /\ qty >= 0
  /\ meta' = [meta EXCEPT ![id] = [pair |-> pair, side |-> side, qty |-> qty]]
  /\ UNCHANGED <<trades, positions>>

\* record() of a TRADE; reports of other types change nothing.
Record(id, lastQty, lastPx) ==
  LET order == meta[id]
      fill == [clOrdId |-> id, pair |-> order.pair, side |-> order.side,
               qty |-> lastQty, price |-> lastPx]
  IN /\ order # Unregistered
     /\ trades' = Append(trades, fill)
     /\ positions' = [positions EXCEPT ![order.pair] =
                        ApplyFill(@, Signed(order.side, lastQty), lastPx)]
     /\ UNCHANGED meta

LedgerInit ==
  /\ meta = [id \in Orders |-> Unregistered]
  /\ trades = << >>
  /\ positions = [pair \in Pairs |-> Flat]

\* What a number of each trade adds up to, oldest first.
Added(sum, number) == sum + number
Total(numbers) == FoldLeft(Added, 0, numbers)

\* The engine's fills are positive and add up to at most the order's size.
FillOf(t, id) == IF t.clOrdId = id THEN t.qty ELSE 0
Filled(id) == Total([i \in DOMAIN trades |-> FillOf(trades[i], id)])

LedgerNext ==
  \/ \E id \in Orders, pair \in Pairs, side \in {"buy", "sell"}, qty \in Quantities :
       Open(id, pair, side, qty)
  \/ \E id \in Orders, price \in Prices :
       \E lastQty \in 1..(meta[id].qty - Filled(id)) :
         /\ Len(trades) < MaxTrades
         /\ Record(id, lastQty, price)

LedgerSpec == LedgerInit /\ [][LedgerNext]_ledgerVars

-----------------------------------------------------------------------------
(* Properties *)

Position == [net : Int, avg : [num : Int, den : Nat \ {0}],
             realised : [num : Int, den : Nat \ {0}]]

LedgerTypeOK ==
  /\ \A id \in Orders : meta[id] = Unregistered \/ meta[id].qty \in Nat
  /\ \A i \in DOMAIN trades : trades[i].pair \in Pairs /\ trades[i].qty > 0
  /\ positions \in [Pairs -> Position]

\* The cash a pair's trades moved: paid for what was bought, received for
\* what was sold.
NetFrom(t, pair) == IF t.pair = pair THEN Signed(t.side, t.qty) ELSE 0
NetOf(pair) == Total([i \in DOMAIN trades |-> NetFrom(trades[i], pair)])

CashFrom(t, pair) == -(NetFrom(t, pair) * t.price)
Cash(pair) == Total([i \in DOMAIN trades |-> CashFrom(trades[i], pair)])

\* The prices a pair was dealt at.
Dealt(pair) == {trades[i].price : i \in {j \in DOMAIN trades : trades[j].pair = pair}}

\* However a position was built, reduced and crossed, its realised P&L plus its
\* open value at the entry price is the cash that moved (applyFill loses or
\* invents no money).
NoMoneyInvented ==
  \A pair \in Pairs :
    LET p == positions[pair]
    IN /\ p.net = NetOf(pair)
       /\ Same(p.realised, Plus(Whole(Cash(pair)), Times(p.net, p.avg)))

\* The entry price of an open position lies within the prices it was dealt at;
\* a flat one has none ("0 when flat", PositionRow).
EntryWasDealt ==
  \A pair \in Pairs :
    LET p == positions[pair]
    IN IF p.net = 0 THEN Same(p.avg, Whole(0))
       ELSE /\ \E low \in Dealt(pair) : AtMost(Whole(low), p.avg)
            /\ \E high \in Dealt(pair) : AtMost(p.avg, Whole(high))

\* What every sequence of fills leaves behind: no money lost or invented, and
\* entry prices that were dealt.
LedgerInv == LedgerTypeOK /\ NoMoneyInvented /\ EntryWasDealt
=============================================================================
