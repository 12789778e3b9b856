----------------------------- MODULE WarmPlane ------------------------------
(***************************************************************************)
(* One page on the warm plane: the feed server's order states, ledger      *)
(* registrations and report bus (apps/feed-server/src/server.ts, warm.ts), *)
(* the graphql-ws socket with its one subscription and its orders query,   *)
(* and the OrdersStore with the resync glue of TradingPanel.tsx.           *)
(*                                                                         *)
(* The engine is any engine that keeps OrderLife: it rejects an order on   *)
(* the spot or later, or accepts it, fills it in parts and may cancel the  *)
(* rest.  graphql-ws and Apollo are modelled by what the code relies on:   *)
(* active operations run again on the next socket, an identical query in   *)
(* flight is shared, messages of one socket arrive in order.               *)
(***************************************************************************)
EXTENDS OrdersStore

CONSTANTS
  ServerIds,     \* ids the server counts up itself: never twice in one process
  OrderQtys,     \* sizes submitted
  MaxDue,        \* bound: reports one tick emits
  MaxReseeds,    \* bound: /sim/seed
  MaxRestarts,   \* bound: process restarts
  MaxDays,       \* bound: new trading days, by either
  MaxDrops,      \* bound: lost sockets, /sim/disconnect included
  MaxMixes       \* bound: ids used again while something of their last use is left

ASSUME WarmAssumption ==
  /\ ServerIds \subseteq Ids
  /\ OrderQtys \subseteq Nat \ {0}
  /\ {MaxDue, MaxReseeds, MaxRestarts, MaxDays, MaxDrops, MaxMixes} \subseteq Nat

VARIABLES
  meta,        \* ledger.orderMeta: [Ids -> OrderQty, 0 when unregistered]
  engine,      \* [Ids -> progress of the order in the engine]
  states,      \* orderStates: [Ids -> Row]
  deferred,    \* immediate rejections waiting for their setTimeout(0)
  spent,       \* ids the server's counter has given in this process
  crashed,     \* a report threw out of a timer callback
  link,        \* the socket: "down", "open"
  greeted,     \* the page has been connected before
  uplink,      \* operations on their way to the server
  subscribed,  \* the server runs the page's subscription
  buffer,      \* its bus queue
  downlink,    \* messages on their way to the page
  subAlive,    \* the page's subscription has not been terminated
  asking,      \* callbacks waiting for the orders query in flight
  retry,       \* the 1 s timer of a failed reconcile
  store,       \* the OrdersStore
  drawn,       \* [Ids -> Row] in the grid
  pageThrew,   \* a report was refused by the page's fold
  days,        \* for the properties: per trading day, each order's progresses
  mixes,       \* for the properties: ids used again before their last use was gone
  seen,        \* for the properties: [Ids -> events of this day that reached the page]
  falseHole,   \* for the properties: a hole was declared and nothing was missing
  reseeds, restarts, drops

serverVars == <<meta, engine, states, deferred, spent, crashed>>
wireVars == <<link, greeted, uplink, subscribed, buffer, downlink>>
pageVars == <<subAlive, asking, retry, store, drawn, pageThrew>>
ghostVars == <<days, mixes, seen, falseHole>>
boundVars == <<reseeds, restarts, drops>>
vars == <<serverVars, wireVars, pageVars, ghostVars, boundVars>>

-----------------------------------------------------------------------------
(* Reports an engine that keeps OrderLife may emit next *)

ReportOf(id, execType, status, lastQty, cumQty, leavesQty, reason) ==
  [id |-> id, execType |-> execType, ordStatus |-> status,
   priced |-> execType = "TRADE", lastQty |-> lastQty, cumQty |-> cumQty,
   leavesQty |-> leavesQty, rejectReason |-> reason, eventSeq |-> 0, orderQty |-> 0]

RejectOf(id, reason) == ReportOf(id, "REJECTED", "REJECTED", NoQty, 0, 0, reason)

TradeOf(id, p, lastQty) ==
  ReportOf(id, "TRADE",
           IF lastQty = p.leavesQty THEN "FILLED" ELSE "PARTIALLY_FILLED",
           lastQty, p.cumQty + lastQty, p.leavesQty - lastQty, NoReason)

NextReports(id, p, qty) ==
  IF p = NoOrder
  THEN {ReportOf(id, "NEW", "NEW", NoQty, 0, qty, NoReason), RejectOf(id, "LAST_LOOK")}
  ELSE {TradeOf(id, p, lastQty) : lastQty \in 1..p.leavesQty}
       \cup IF p.status = "PARTIALLY_FILLED"
            THEN {ReportOf(id, "CANCELED", "CANCELED", NoQty, p.cumQty, 0, NoReason)}
            ELSE {}

\* Orders the engine holds: registered and not ended.
Working(e) == {id \in Ids : meta[id] # 0 /\ e[id].status \notin Terminal}

Emitted(e, r) == [e EXCEPT ![r.id] = ApplyReport(@, r, meta[r.id])]

\* What one advance() may emit: each report continues the ones before it.
DueReports ==
  LET start == {[engine |-> engine, reports |-> << >>]}
      more(batch) ==
        UNION {{[engine |-> Emitted(batch.engine, r), reports |-> Append(batch.reports, r)] :
                  r \in NextReports(id, batch.engine[id], meta[id])} :
                 id \in Working(batch.engine)}
      batches[n \in 0..MaxDue] ==
        IF n = 0 THEN start ELSE UNION {more(batch) : batch \in batches[n - 1]}
  IN UNION {batches[n] : n \in 1..MaxDue}

-----------------------------------------------------------------------------
(* publishReport(): fold, stamp, fan out *)

Today == Len(days)

\* The server's side of it as a record, so that several reports can follow
\* each other in one step.
Desk == [states |-> states, buffer |-> buffer, day |-> days[Today], threw |-> FALSE]

Publish(desk, r) ==
  LET old == desk.states[r.id]
      next == ApplyReport(old.progress, r, meta[r.id])
      seq == old.eventSeq + 1
  IN IF meta[r.id] = 0 \/ desk.threw THEN desk
     ELSE IF next = Refused THEN [desk EXCEPT !.threw = TRUE]
     ELSE [desk EXCEPT
             !.states[r.id] = [progress |-> next, eventSeq |-> seq],
             !.buffer = IF subscribed THEN Append(@, [r EXCEPT !.eventSeq = seq])
                        ELSE @,
             !.day[r.id] = Append(@, next)]

PublishAll(reports) ==
  LET after[n \in 0..Len(reports)] ==
        IF n = 0 THEN Desk ELSE Publish(after[n - 1], reports[n])
      end == after[Len(reports)]
  IN /\ states' = end.states
     /\ buffer' = end.buffer
     /\ days' = [days EXCEPT ![Today] = end.day]
     /\ crashed' = end.threw

-----------------------------------------------------------------------------
(* Server actions *)

\* The page, its socket, the bus and the deferred rejections hold nothing of the
\* last use of an id.
Gone(id) ==
  /\ store.rows[id] = NoRow
  /\ id \notin store.removed
  /\ \A i \in DOMAIN store.pending : store.pending[i].id # id
  /\ \A i \in DOMAIN downlink :
       /\ downlink[i].kind = "report" => downlink[i].report.id # id
       /\ downlink[i].kind = "orders" => downlink[i].rows[id] = NoRow
  /\ \A i \in DOMAIN buffer : buffer[i].id # id
  /\ \A i \in DOMAIN deferred : deferred[i].id # id

\* For the properties: an order that is gone is forgotten when its id is used
\* again, any other reuse mixes two orders.
Reuse(id) ==
  IF Gone(id)
  THEN /\ days' = [d \in DOMAIN days |-> [days[d] EXCEPT ![id] = << >>]]
       /\ seen' = [seen EXCEPT ![id] = 0]
       /\ UNCHANGED mixes
  ELSE /\ mixes < MaxMixes
       /\ mixes' = mixes + 1
       /\ UNCHANGED <<days, seen>>

\* submitOrderShared(): the ledger registers, the engine schedules, or rejects
\* on the spot and the report waits for the next macrotask.
Submit(id, qty) ==
  /\ ~crashed
  /\ meta[id] = 0
  /\ id \notin spent
  /\ meta' = [meta EXCEPT ![id] = qty]
  /\ spent' = spent \cup ({id} \cap ServerIds)
  /\ Reuse(id)
  /\ \/ UNCHANGED <<engine, deferred>>
     \/ LET r == RejectOf(id, "STALE_PRICE")
        IN /\ engine' = [engine EXCEPT ![id] = ApplyReport(NoOrder, r, qty)]
           /\ deferred' = Append(deferred, r)
  /\ UNCHANGED <<states, crashed, wireVars, pageVars, falseHole, boundVars>>

\* setTimeout(() => publishReport(report), 0).
PublishDeferred ==
  /\ ~crashed
  /\ deferred # << >>
  /\ PublishAll(<<Head(deferred)>>)
  /\ deferred' = Tail(deferred)
  /\ UNCHANGED <<meta, engine, spent, link, greeted, uplink, subscribed, downlink,
                 pageVars, mixes, seen, falseHole, boundVars>>

\* The tick: everything that came due is recorded and published.
Tick(batch) ==
  /\ ~crashed
  /\ engine' = batch.engine
  /\ PublishAll(batch.reports)
  /\ UNCHANGED <<meta, deferred, spent, link, greeted, uplink, subscribed, downlink,
                 pageVars, mixes, seen, falseHole, boundVars>>

\* controlDeps.reseed(): a new engine, ledger and order states; what is
\* deferred or queued for the wire stays.
Reseed ==
  /\ ~crashed
  /\ reseeds < MaxReseeds /\ Today <= MaxDays
  /\ reseeds' = reseeds + 1
  /\ meta' = [id \in Ids |-> 0]
  /\ engine' = [id \in Ids |-> NoOrder]
  /\ states' = NoRows
  /\ days' = Append(days, [id \in Ids |-> << >>])
  /\ seen' = [id \in Ids |-> 0]
  /\ UNCHANGED <<deferred, spent, crashed, wireVars, pageVars, mixes, falseHole, restarts, drops>>

-----------------------------------------------------------------------------
(* The socket *)

LinkGone ==
  /\ link' = "down"
  /\ uplink' = << >>
  /\ subscribed' = FALSE
  /\ buffer' = << >>
  /\ downlink' = << >>
  /\ UNCHANGED greeted

\* The socket is lost, with everything on it.
Drop ==
  /\ link = "open"
  /\ drops < MaxDrops
  /\ drops' = drops + 1
  /\ LinkGone
  /\ UNCHANGED <<serverVars, pageVars, ghostVars, reseeds, restarts>>

\* The process ends and another one starts.
Restart ==
  /\ restarts < MaxRestarts /\ Today <= MaxDays
  /\ restarts' = restarts + 1
  /\ LinkGone
  /\ meta' = [id \in Ids |-> 0]
  /\ engine' = [id \in Ids |-> NoOrder]
  /\ states' = NoRows
  /\ deferred' = << >>
  /\ spent' = {}
  /\ crashed' = FALSE
  /\ days' = Append(days, [id \in Ids |-> << >>])
  /\ seen' = [id \in Ids |-> 0]
  /\ UNCHANGED <<pageVars, mixes, falseHole, reseeds, drops>>

\* The server takes the next operation; a subscription gets its own bus queue.
ServeSubscription ==
  /\ uplink # << >>
  /\ Head(uplink) = "subscribe"
  /\ uplink' = Tail(uplink)
  /\ subscribed' = TRUE
  /\ buffer' = << >>
  /\ UNCHANGED <<serverVars, link, greeted, downlink, pageVars, ghostVars, boundVars>>

\* The orders query: the states as they are now.
ServeQuery ==
  /\ uplink # << >>
  /\ Head(uplink) = "query"
  /\ uplink' = Tail(uplink)
  /\ downlink' = Append(downlink, [kind |-> "orders", rows |-> states])
  /\ UNCHANGED <<serverVars, link, greeted, subscribed, buffer, pageVars, ghostVars, boundVars>>

\* The subscription's generator sends the oldest report of its queue, enriched
\* with the registration; without one it throws, and that ends it.
SendReport ==
  /\ buffer # << >>
  /\ LET r == Head(buffer)
     IN IF meta[r.id] # 0
        THEN /\ downlink' = Append(downlink, [kind |-> "report",
                                             report |-> [r EXCEPT !.orderQty = meta[r.id]]])
             /\ buffer' = Tail(buffer)
             /\ UNCHANGED subscribed
        ELSE /\ downlink' = Append(downlink, [kind |-> "error"])
             /\ buffer' = << >>
             /\ subscribed' = FALSE
  /\ UNCHANGED <<serverVars, link, greeted, uplink, pageVars, ghostVars, boundVars>>

-----------------------------------------------------------------------------
(* The page *)

Settled(s) == [s EXCEPT !.holes = 0, !.threw = FALSE]

\* Mutant: a resync that finds one in flight leaves it at that.
AskOnce(n, base, at, up) ==
  /\ asking' = IF base + n > 0 THEN 1 ELSE 0
  /\ uplink' = IF base = 0 /\ n > 0 /\ at = "open" THEN Append(up, "query") ELSE up

\* n calls of apollo.query on a link in some state, waiting callbacks counted
\* from base: the first sends the query, the others share it.
Ask(n, base, at, up) ==
  /\ asking' = base + n
  /\ uplink' = IF base = 0 /\ n > 0 /\ at = "open" THEN Append(up, "query") ELSE up

\* Mutant: a reconnect only subscribes again.
ConnectOnly ==
  /\ link = "down"
  /\ ~crashed
  /\ link' = "open"
  /\ greeted' = TRUE
  /\ uplink' = (IF subAlive THEN <<"subscribe">> ELSE << >>)
                 \o (IF asking > 0 THEN <<"query">> ELSE << >>)
  /\ UNCHANGED <<serverVars, subscribed, buffer, downlink, subAlive, asking, retry, store,
                 drawn, pageThrew, ghostVars, boundVars>>

\* The socket is acknowledged: active operations run again, and from the second
\* time on the reconnect hook resyncs.
Connect ==
  /\ link = "down"
  /\ ~crashed
  /\ link' = "open"
  /\ greeted' = TRUE
  /\ store' = IF greeted THEN BeginResync(store) ELSE store
  /\ Ask(IF greeted THEN 1 ELSE 0, asking, "open",
         (IF subAlive THEN <<"subscribe">> ELSE << >>)
           \o (IF asking > 0 THEN <<"query">> ELSE << >>))
  /\ UNCHANGED <<serverVars, subscribed, buffer, downlink, subAlive, retry, drawn,
                 pageThrew, ghostVars, boundVars>>

\* What of the day has reached the page without a hole.
SeenReport(r) == [seen EXCEPT ![r.id] = IF r.eventSeq = @ + 1 THEN @ + 1 ELSE @]
SeenRows(rows) == [id \in Ids |-> Max({seen[id], rows[id].eventSeq})]

\* A hole is declared, by the report at the head of the queue, in an order the
\* page holds.
FalseAlarm(s, reached) ==
  LET r == Head(s.pending)
  IN s.holes > 0 /\ s.rows[r.id] # NoRow /\ r.eventSeq <= reached[r.id] + 1

\* onData: ingest, and a resync if that found a hole.
ReceiveReport ==
  /\ downlink # << >>
  /\ Head(downlink).kind = "report"
  /\ LET r == Head(downlink).report
         s == Ingest(store, r)
     IN /\ store' = Settled(s)
        /\ pageThrew' = (pageThrew \/ s.threw)
        /\ Ask(s.holes, asking, link, uplink)
        /\ seen' = SeenReport(r)
        /\ falseHole' = (falseHole \/ FalseAlarm(s, seen))
  /\ downlink' = Tail(downlink)
  /\ UNCHANGED <<serverVars, link, greeted, subscribed, buffer, subAlive, retry, drawn,
                 days, mixes, boundVars>>

\* The answer of the orders query, to every callback that waits for it; a
\* reconcile that throws tries again in a second.
ReceiveOrders ==
  /\ downlink # << >>
  /\ Head(downlink).kind = "orders"
  /\ LET rows == Head(downlink).rows
         after[n \in 0..asking] ==
           IF n = 0 THEN store ELSE Reconcile(after[n - 1], rows)
         s == after[asking]
     IN /\ store' = Settled(s)
        /\ pageThrew' = (pageThrew \/ \E n \in 1..asking : after[n].threw)
        /\ retry' = (retry \/ \E n \in 1..asking : after[n].threw)
        /\ Ask(s.holes, 0, link, uplink)
        /\ seen' = SeenRows(rows)
        /\ falseHole' = (falseHole \/ FalseAlarm(s, SeenRows(rows)))
  /\ downlink' = Tail(downlink)
  /\ UNCHANGED <<serverVars, link, greeted, subscribed, buffer, subAlive, drawn,
                 days, mixes, boundVars>>

\* The subscription is terminated; nobody subscribes again.
ReceiveError ==
  /\ downlink # << >>
  /\ Head(downlink).kind = "error"
  /\ subAlive' = FALSE
  /\ downlink' = Tail(downlink)
  /\ UNCHANGED <<serverVars, link, greeted, uplink, subscribed, buffer, asking, retry, store,
                 drawn, pageThrew, ghostVars, boundVars>>

RetryFires ==
  /\ retry
  /\ retry' = FALSE
  /\ store' = BeginResync(store)
  /\ Ask(1, asking, link, uplink)
  /\ UNCHANGED <<serverVars, link, greeted, subscribed, buffer, downlink, subAlive, drawn,
                 pageThrew, ghostVars, boundVars>>

\* An animation frame: prune, and the grid takes what changed.
Flush ==
  /\ store.notify
  /\ \E gone \in Prunable(store) :
       LET s == Pruned(store, gone)
       IN /\ drawn' = Drawn(drawn, s)
          /\ store' = Taken(s)
  /\ UNCHANGED <<serverVars, wireVars, subAlive, asking, retry, pageThrew, ghostVars, boundVars>>

-----------------------------------------------------------------------------
(* Specification *)

Init ==
  /\ meta = [id \in Ids |-> 0]
  /\ engine = [id \in Ids |-> NoOrder]
  /\ states = NoRows
  /\ deferred = << >>
  /\ spent = {}
  /\ crashed = FALSE
  /\ link = "down"
  /\ greeted = FALSE
  /\ uplink = << >>
  /\ subscribed = FALSE
  /\ buffer = << >>
  /\ downlink = << >>
  /\ subAlive = TRUE
  /\ asking = 0
  /\ retry = FALSE
  /\ store = EmptyStore
  /\ drawn = NoRows
  /\ pageThrew = FALSE
  /\ days = <<[id \in Ids |-> << >>]>>
  /\ mixes = 0
  /\ seen = [id \in Ids |-> 0]
  /\ falseHole = FALSE
  /\ reseeds = 0
  /\ restarts = 0
  /\ drops = 0

Served == ServeSubscription \/ ServeQuery \/ SendReport
TickSome == \E batch \in DueReports : Tick(batch)
Received == ReceiveReport \/ ReceiveOrders \/ ReceiveError

Next ==
  \/ \E id \in Ids, qty \in OrderQtys : Submit(id, qty)
  \/ PublishDeferred
  \/ TickSome
  \/ Reseed
  \/ Drop
  \/ Restart
  \/ Connect
  \/ Served
  \/ Received
  \/ RetryFires
  \/ Flush

Spec == Init /\ [][Next]_vars

\* The tick interval and the timers of both event loops run, the socket carries
\* what is written to it, a lost one is dialled again without limit
\* (retryAttempts: Infinity), frames are painted, and the engine ends what it
\* holds (EveryOrderEnds of Execution).  Where the successors are many, weak
\* fairness is written out with the action's guard for its ENABLED.
Fairness ==
  /\ WF_vars(PublishDeferred)
  /\ ([]<>(crashed \/ Working(engine) = {}) \/ []<><<TickSome>>_vars)
  /\ WF_vars(Connect)
  /\ ([]<>(uplink = << >> /\ buffer = << >>) \/ []<><<Served>>_vars)
  /\ ([]<>(downlink = << >>) \/ []<><<Received>>_vars)
  /\ WF_vars(RetryFires)
  /\ WF_vars(Flush)

FairSpec == Spec /\ Fairness

-----------------------------------------------------------------------------
(* Properties *)

StoreTypeOK ==
  /\ store.rows \in [Ids -> Row]
  /\ store.dirty \subseteq Ids
  /\ store.removed \subseteq Ids
  /\ store.pending # << >> => store.syncing

WarmTypeOK ==
  /\ meta \in [Ids -> Nat]
  /\ engine \in [Ids -> Progress \cup {NoOrder}]
  /\ states \in [Ids -> Row]
  /\ link \in {"down", "open"}
  /\ asking \in Nat
  /\ mixes \in Nat
  /\ StoreTypeOK
  /\ drawn \in [Ids -> Row]

\* Every row on the page is what the server's fold was after as many events of
\* one day, and unless a reseed kept the page connected all rows belong to the
\* same day: no interleaving of events, snapshot, queue, reconnect and new day
\* merges, skips or repeats an event ("Every event exactly once, in order",
\* domain/src/graphql.ts).
RowOfDay(id, day) ==
  LET row == store.rows[id]
  IN row # NoRow => /\ row.eventSeq <= Len(days[day][id])
                    /\ row.progress = days[day][id][row.eventSeq]

OneDayTruly ==
  mixes = 0 =>
    /\ \A id \in Ids : \E day \in 1..Today : RowOfDay(id, day)
    /\ reseeds = 0 => \E day \in 1..Today : \A id \in Ids : RowOfDay(id, day)

\* Every report of the engine extends what the server's fold knows of its order:
\* neither a timer callback nor a reseed between submit and publish makes
\* publishReport() throw, which would end the process.
ServerNeverThrows == ~crashed

\* No report is refused by the page's fold: holes are found by their number
\* before the grammar sees them, and a drained queue continues its snapshot.
PageNeverThrows == ~pageThrew

\* "A hole proves loss" (orders.ts): no row declares one while nothing of its
\* order is missing.  A late repeat of a pruned order's event does, for the book
\* has forgotten how far it had come.
HolesAreLosses == mixes = 0 => ~falseHole

\* The server's states lag its engine by deferred rejections only: each report
\* is published, whatever path and day it takes.
StatesFollowEngine ==
  \A id \in Ids : meta[id] # 0 =>
    \/ states[id].progress = engine[id]
    \/ \E i \in DOMAIN deferred : deferred[i].id = id

\* Between flushes every difference of grid and book is in the delta of the
\* next one, which removes no row of the book, and a flush is due, or the retry
\* of the reconcile that threw: "What changed since the last call, and nothing
\* else" (orders.ts).
GridFollows ==
  mixes = 0 =>
    /\ store.removed \cap Held(store.rows) = {}
    /\ \A id \in Ids : drawn[id] # store.rows[id] =>
         /\ store.notify \/ retry
         /\ id \in IF store.rows[id] = NoRow THEN store.removed ELSE store.dirty

\* As long as no id is used again before its last use was gone, nobody throws and
\* the server's states follow its engine.
WarmInv ==
  mixes = 0 => /\ WarmTypeOK
               /\ ServerNeverThrows
               /\ PageNeverThrows
               /\ StatesFollowEngine

\* No order that the server holds leaves the page before it ended: "a live order
\* still owes events" (orders.ts, prune), whatever is pruned or replaced.
LiveOrdersStay ==
  [][\A id \in Ids : /\ mixes = 0
                     /\ store.rows[id] # NoRow
                     /\ store'.rows[id] = NoRow
                     /\ states[id] # NoRow
                     => store.rows[id].progress.status \in Terminal]_vars

\* A server that stays up brings the page to its own states once faults stop:
\* nothing shown stays stale, no lost event is missed for good.  An order that
\* ended before the page first listened may stay unknown.
Converges ==
  <>[](\A id \in Ids : \/ store.rows[id] = states[id]
                       \/ store.rows[id] = NoRow /\ seen[id] = 0)
=============================================================================
