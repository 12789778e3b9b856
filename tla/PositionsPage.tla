--------------------------- MODULE PositionsPage ----------------------------
(***************************************************************************)
(* How the positions of the ledger reach the page                          *)
(* (apps/web/src/warm/TradingPanel.tsx, PositionsView and TradingSection). *)
(* A trade's report makes the page ask for the positions again; after a    *)
(* lost socket the page takes the orders wholesale and then asks.  All of  *)
(* it rides one socket, but a report waits in the bus queue first, where   *)
(* the answers overtake it (apps/feed-server/src/warm.ts).                 *)
(*                                                                         *)
(* The order book is in WarmPlane; here it is the number of trades it has  *)
(* taken in, counted over all days.  So an id must not be opened again     *)
(* while the page may hold its last order (heldOver): what the book does   *)
(* with such a reuse is WarmPlane's subject.                               *)
(***************************************************************************)
EXTENDS Ledger

CONSTANTS
  MaxDrops,    \* bound: sockets lost
  MaxDays,     \* bound: trading days
  MaxBus       \* bound: reports that wait at once

ASSUME PageAssumption == {MaxDrops, MaxDays, MaxBus} \subseteq Nat

VARIABLES
  day,           \* the trading day: reseeds and restarts so far, plus one
  dealt,         \* trades recorded on all days
  drops,
  link,          \* "new", "open", "lost"
  heldOver,      \* orders of earlier days that the page may hold
  subscribed,    \* the bus holds a queue for this socket
  bus,           \* the queue: reports of orders, number 0 when it is no trade
  uplink,        \* "subscribe", "positions", "orders": operations to be served
  downlink,      \* trade reports, answers, and the subscription's error
  subAlive,      \* the page's subscription has not been ended by an error
  asked,         \* a positions query is in flight
  book,          \* trades the orders store has taken in
  syncing,       \* a resync waits for its snapshot
  queued,        \* reports that wait with it
  tradesPending, \* the next flush will ask for positions
  shown,         \* the positions on the page
  shownDay       \* the day they were read on

linkVars == <<drops, link, heldOver, subscribed, bus, uplink, downlink, subAlive>>
bookVars == <<book, syncing, queued, tradesPending>>
viewVars == <<asked, shown, shownDay>>
vars == <<ledgerVars, day, dealt, linkVars, bookVars, viewVars>>

-----------------------------------------------------------------------------
(* The server *)

Published(id, number) ==
  /\ Len(bus) < MaxBus
  /\ bus' = IF subscribed THEN Append(bus, [id |-> id, number |-> number]) ELSE bus

\* A fill of the tick: recorded, counted, published.
Trade(id, lastQty, lastPx) ==
  /\ Record(id, lastQty, lastPx)
  /\ dealt' = dealt + 1
  /\ Published(id, dealt')
  /\ UNCHANGED <<day, drops, link, heldOver, subscribed, uplink, downlink, subAlive,
                 bookVars, viewVars>>

\* An order is registered, and its acceptance published.
OpenOrder(id, pair, side, qty) ==
  /\ id \notin heldOver
  /\ \A i \in DOMAIN bus : bus[i].id # id
  /\ Open(id, pair, side, qty)
  /\ Published(id, 0)
  /\ UNCHANGED <<day, dealt, drops, link, heldOver, subscribed, uplink, downlink, subAlive,
                 bookVars, viewVars>>

\* enrich(): the oldest report of the queue goes out with the registration of
\* its order, and ends the subscription when there is none.
Send ==
  /\ bus # << >>
  /\ LET report == Head(bus)
     IN IF meta[report.id] # Unregistered
        THEN /\ downlink' = IF report.number = 0 THEN downlink
                            ELSE Append(downlink, [kind |-> "trade", number |-> report.number])
             /\ bus' = Tail(bus)
             /\ UNCHANGED subscribed
        ELSE /\ downlink' = Append(downlink, [kind |-> "error"])
             /\ bus' = << >>
             /\ subscribed' = FALSE
  /\ UNCHANGED <<ledgerVars, day, dealt, drops, link, heldOver, uplink, subAlive,
                 bookVars, viewVars>>

\* The next operation of the socket; an answer is what its resolver reads now.
Serve ==
  /\ link = "open"
  /\ uplink # << >>
  /\ uplink' = Tail(uplink)
  /\ subscribed' = (subscribed \/ Head(uplink) = "subscribe")
  /\ downlink' =
       CASE Head(uplink) = "subscribe" -> downlink
         [] Head(uplink) = "positions" ->
              Append(downlink, [kind |-> "positions", rows |-> positions, day |-> day])
         [] Head(uplink) = "orders" ->
              Append(downlink, [kind |-> "orders", number |-> dealt, day |-> day])
  /\ UNCHANGED <<ledgerVars, day, dealt, drops, link, heldOver, bus, subAlive,
                 bookVars, viewVars>>

NewLedger ==
  /\ day < MaxDays
  /\ day' = day + 1
  /\ meta' = [id \in Orders |-> Unregistered]
  /\ trades' = << >>
  /\ positions' = [pair \in Pairs |-> Flat]
  /\ UNCHANGED dealt

Registered == {id \in Orders : meta[id] # Unregistered}

\* A new ledger; no subscriber hears of it, and what waits on the bus stays.
Reseed ==
  /\ NewLedger
  /\ heldOver' = IF link = "new" THEN {} ELSE heldOver \cup Registered
  /\ UNCHANGED <<drops, link, subscribed, bus, uplink, downlink, subAlive, bookVars, viewVars>>

-----------------------------------------------------------------------------
(* The page *)

\* refetch(): a query that is already in flight is shared, not sent again.
Refetch ==
  /\ asked' = TRUE
  /\ uplink' = IF asked \/ link # "open" THEN uplink ELSE Append(uplink, "positions")

LoseSocket ==
  /\ link' = "lost"
  /\ subscribed' = FALSE
  /\ bus' = << >>
  /\ uplink' = << >>
  /\ downlink' = << >>

Drop ==
  /\ link = "open"
  /\ drops < MaxDrops
  /\ drops' = drops + 1
  /\ LoseSocket
  /\ UNCHANGED <<ledgerVars, day, dealt, heldOver, subAlive, bookVars, viewVars>>

Restart ==
  /\ drops < MaxDrops
  /\ drops' = drops + 1
  /\ NewLedger
  /\ heldOver' = IF queued = {} THEN {} ELSE heldOver \cup Registered
  /\ IF link = "new" THEN UNCHANGED <<link, subscribed, bus, uplink, downlink>> ELSE LoseSocket
  /\ UNCHANGED <<subAlive, bookVars, viewVars>>

\* Operations without an answer are executed again, the oldest first; a
\* connection that is not the first begins a resync.
Connect ==
  LET again == (IF subAlive THEN <<"subscribe">> ELSE << >>)
                 \o (IF asked THEN <<"positions">> ELSE << >>)
  IN /\ link # "open"
     /\ link' = "open"
     /\ uplink' = IF link = "lost" THEN Append(again, "orders") ELSE again
     /\ syncing' = (syncing \/ link = "lost")
     /\ UNCHANGED <<ledgerVars, day, dealt, drops, heldOver, subscribed, bus, downlink,
                    subAlive, book, queued, tradesPending, viewVars>>

Received == /\ link = "open"
            /\ downlink # << >>
            /\ downlink' = Tail(downlink)
            /\ UNCHANGED <<ledgerVars, day, dealt, drops, link, subscribed, bus>>

\* ingest(): queued while syncing, dropped when the book contains it.
ReceiveTrade ==
  /\ Received
  /\ Head(downlink).kind = "trade"
  /\ LET number == Head(downlink).number
     IN IF syncing
        THEN queued' = queued \cup {number} /\ UNCHANGED <<book, tradesPending>>
        ELSE /\ book' = IF number > book THEN number ELSE book
             /\ tradesPending' = (tradesPending \/ number > book)
             /\ UNCHANGED queued
  /\ UNCHANGED <<heldOver, uplink, subAlive, syncing, viewVars>>

\* The subscription is ended; nobody subscribes again.
ReceiveError ==
  /\ Received
  /\ Head(downlink).kind = "error"
  /\ subAlive' = FALSE
  /\ UNCHANGED <<heldOver, uplink, bookVars, viewVars>>

\* Rows that are not in the answer go.
Forgets(answer) == heldOver' = IF answer.day = day THEN {} ELSE heldOver

\* Mutant: the reconcile leaves the positions to the trades it drains.
ReceiveOrdersOnly ==
  /\ Received
  /\ Head(downlink).kind = "orders"
  /\ LET fresh == {n \in queued : n > Head(downlink).number}
     IN /\ book' = Max(fresh \cup {Head(downlink).number})
        /\ tradesPending' = (tradesPending \/ fresh # {})
  /\ Forgets(Head(downlink))
  /\ syncing' = FALSE
  /\ queued' = {}
  /\ UNCHANGED <<uplink, subAlive, viewVars>>

\* reconcile(), the drain of the queue, and the refetch.
ReceiveOrders ==
  /\ Received
  /\ Head(downlink).kind = "orders"
  /\ LET fresh == {n \in queued : n > Head(downlink).number}
     IN /\ book' = Max(fresh \cup {Head(downlink).number})
        /\ tradesPending' = (tradesPending \/ fresh # {})
  /\ Forgets(Head(downlink))
  /\ syncing' = FALSE
  /\ queued' = {}
  /\ Refetch
  /\ UNCHANGED <<subAlive, shown, shownDay>>

ReceivePositions ==
  /\ Received
  /\ Head(downlink).kind = "positions"
  /\ shown' = Head(downlink).rows
  /\ shownDay' = Head(downlink).day
  /\ asked' = FALSE
  /\ UNCHANGED <<heldOver, uplink, subAlive, bookVars>>

\* The flush of the orders store runs the trade listeners.
FlushTrades ==
  /\ tradesPending
  /\ tradesPending' = FALSE
  /\ Refetch
  /\ UNCHANGED <<ledgerVars, day, dealt, drops, link, heldOver, subscribed, bus, downlink,
                 subAlive, book, syncing, queued, shown, shownDay>>

Init ==
  /\ LedgerInit
  /\ day = 1 /\ dealt = 0 /\ drops = 0
  /\ link = "new" /\ heldOver = {} /\ subscribed = FALSE /\ bus = << >>
  /\ uplink = << >> /\ downlink = << >> /\ subAlive = TRUE
  /\ asked = TRUE
  /\ book = 0 /\ syncing = FALSE /\ queued = {} /\ tradesPending = FALSE
  /\ shown = positions /\ shownDay = 1

Next ==
  \/ \E id \in Orders, pair \in Pairs, side \in {"buy", "sell"}, qty \in Quantities :
       OpenOrder(id, pair, side, qty)
  \/ \E id \in Orders, price \in Prices :
       \E lastQty \in 1..(meta[id].qty - Filled(id)) :
         dealt < MaxTrades /\ Trade(id, lastQty, price)
  \/ Send
  \/ Serve
  \/ Reseed
  \/ Drop
  \/ Restart
  \/ Connect
  \/ ReceiveTrade
  \/ ReceiveError
  \/ ReceiveOrders
  \/ ReceivePositions
  \/ FlushTrades

Spec == Init /\ [][Next]_vars
-----------------------------------------------------------------------------
(* Properties *)

\* midOf and unrealisedPnl of a book with both sides (the table shows a dash for
\* others).
MidOf(bid, ask) == Frac(bid + ask, 2)
Unrealised(p, mid) == Times(p.net, Plus(mid, Times(-1, p.avg)))

\* Nothing is on its way to the page.
Quiet ==
  /\ link = "open" /\ ~asked /\ ~syncing /\ ~tradesPending
  /\ bus = << >> /\ downlink = << >>

\* Realised and unrealised P&L, one from the last refetch and one computed on
\* the page, add up to the cash the day's trades moved plus what closing at the
\* mid would bring.  Figures of an old day last until the new one's first trade.
ShowsTheMoney ==
  \/ shownDay = day /\ \A pair \in Pairs, bid, ask \in Prices :
       LET mid == MidOf(bid, ask)
       IN Same(Plus(shown[pair].realised, Unrealised(shown[pair], mid)),
               Plus(Whole(Cash(pair)), Times(NetOf(pair), mid)))
  \/ shownDay # day /\ trades = << >>

\* A page whose subscription lives shows the money, whatever trade, overtaking
\* answer, lost socket, reseed, restart and flush came in between.
PageShowsTheMoney == Quiet /\ subAlive => ShowsTheMoney
=============================================================================
