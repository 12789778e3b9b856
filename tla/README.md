# TLA+ specifications of fx-ladder

fx-ladder shows a simulated FX market in a browser: a feed server runs a market
and an execution engine, a page follows them over three planes. These modules
model the code of `apps/`, `packages/` (paths below are relative to the
repository), TLC checks them on small instances, and TLAPS proves the results
that matter most for every value of the constants.

- [The system](#the-system): components, state, interactions, what is hard
- [Modules](#modules): which module models what, and how
- [Runs](#runs): what each run asks, its bounds, its fairness
- [Proofs](#proofs)
- [Disagreements between code and its documentation](#disagreements-between-code-and-its-documentation)
- [What is not modelled](#what-is-not-modelled) and the [plan](#plan)

To reproduce: `tlc -config X.cfg M` for the run X of module M named below, and
`tlapm M.tla` for the eight `*Proofs` modules.

## The system

**Hot plane** (prices). `feed-server/src/server.ts` keeps one `ClientState` per
socket: `nextSeq`, the protocol it speaks. Each `tick` asks the market for the
updates of the elapsed time and sends them as numbered records, either one
DELTA per tick or, with `batch: false`, one frame per update up to a limit. A
new socket gets a SNAPSHOT; a `heartbeat` carries the last seq. `/sim` commands
reseed, skip seqs (a loss on purpose), disconnect and switch batching. The
browser's `stream/core.ts` is a pure state machine (`awaiting-snapshot`, `live`,
`resync`) over books and one expected seq; `stream/connect.ts` owns the socket
around it: dial, drop on resync, backoff, the close-code table, the watchdog,
`resume`, `setProtocols`, `close`. `stream/store.ts` turns their changes into
renders, at once or one per animation frame.

**Warm plane** (orders). Orders enter by one door, `submitOrderShared`: the
`ledger` registers them, the execution `engine` schedules their life, `tick`
takes what came due, and `publishReport` folds each report through the order
grammar (`domain/src/orders.ts`), stamps the order's dense `eventSeq` and fans
it out on the `ReportBus`. A page subscribes over graphql-ws and, on every
reconnect, asks for all orders: reports queue while the snapshot is under way
(`warm/orders.ts`), a hole in the numbers starts the same reconciliation, a
snapshot replaces the book, and a grid takes what changed once a frame.

**Cold plane and control.** A constant catalogue behind an ETag; `/sim` and
scenarios (timelines of commands on timers), `seed` (a new trading day: market,
engine, ledger and order states replaced, sockets left alone), bursts. A request
is judged when its headers are there and carried out when its body is. The panel
polls `/sim/stats` and draws rates from its counters; a page that finds nobody
knocks on `/healthz` (`lib/wake.ts`) until the server is awake.

| Component | State | Interacts through | What makes it correct |
|---|---|---|---|
| stream core | status, expectedSeq, books | frames in, events out | a live ladder is the book the wire was told; a lost seq is noticed, once |
| socket shell | ws, timer, flags, offer | browser events, core events | one driver at a time; stops only when told |
| hot server | nextSeq, batch mode | frames, heartbeats, close frames | dense numbers, exactly one hole per skip |
| render store | mode, frame, version counters | onChange, useSyncExternalStore | what the core holds reaches the page |
| order grammar | pure | server fold, page fold, engine | an order's life goes one way, quantities add up |
| execution engine | progress, pending events, stats | submit, tick | every script is legal and ends its order |
| ledger and its page | registrations, trades, positions, the refetch | open, record, positions query | no money lost or invented, and the page ends up with it |
| feed door | sockets, closing ones included | upgrade, close frames, shutdown | the limit holds, every page gets in, close() ends |
| order door, control plane, ticket | ids, live orders, bodies on their way, the mutation | HTTP, submitOrder | books agree, answers are true, a click is one order |
| wire codec | pure | both ends of a socket | what one end says the other reads, or refuses |
| load series, wake loop | last snapshot; a knock and its deadline | polls, /healthz | rates the server had; a knock ends in a dial |
| report bus, warm server | order states, queues | publish, subscribe, orders query | every event exactly once, in order |
| orders store, its glue, grid | rows, queue, delta, newDay | subscription, query, flush | one day's truth; converges after faults |
| market | mid, spread, news, freezes, credit | advance, snapshot, commands | bounded, uncrossed, paced |
| scenario director | timers, play | commands | one director; a play is repeatable |

**Hard behaviours.** Everything runs on two single-threaded event loops, so
there are no data races; what is hard is order and memory: callbacks of a
socket that was given up against timers of its successor; a snapshot racing the
subscription; state read before and used after a reseed; a process that
restarts and counts its ids from one; heartbeat, gap and silence as three
detectors of one loss; delayed rejections; overlapping freezes and news;
replaced scenarios; bodies that arrive side by side; answers that overtake each
other; slots held by sockets nobody is behind; a grid that applies what it was
handed later than it was asked. `PROJECT.json` lists each hazard at its line.

## Modules

State variables carry the source's names where they exist; each definition that
models code is mapped to its lines in `PROJECT.json`. Definitions commented
"Mutant" are plausible bugs kept beside the operator they replace; no
specification uses them.

### Hot plane

`StreamCore` is `core.ts` as operators on a record (`OnSnapshot`, `OnDelta`,
`OnHeartbeat`, `OnDamage`, `OnSilence`), with the frames of `protocol/frames.ts`
as records: type, first seq, level updates. A level's quote is an opaque value.

`FeedClient` is `connect.ts` with `reconnect.ts`: one action per browser
callback and per command of the handle. `ClientSpec` puts it in the most general
environment: any frames, damage, close codes, silence at any time. Backoff
delays are a timer that is armed or not; the attempt counter is kept, capped.

`HotPlane` puts the server and TCP at the other end: `Accept`, `Tick` (batched
and unbatched, with the slice of the newest 16 as `Newest`), `SendHeartbeat`,
`TickSlowConsumer` (4000 for a full buffer), `ServerEnds` (session ceiling and
disconnect), `Reseed`, `SkipSeqs`, `SetBatch`; frames in flight are a sequence,
and the wire may be lost with all of it. Seqs are per connection and clients do
not meet, so one client is the general case. `told` and the `after` of a frame
are bookkeeping for the properties.

`LadderMirror` is the abstract promise: the ladder passes through the published
books in order without missing one; when one is lost nothing more of that wire
is shown. `HotPlane` refines it (`MirrorsTheWire`).

`FeedDoor` is the other side of the server's socket: who is let in (`upgrade` with
its path, Origin, subprotocol and limit), when a slot comes free, the ceiling of
a session, `disconnect`, 4002, `close()` and a process that dies. What holds a
slot is a socket: pages that vanished leave `ghosts` (open), `dying` (a close
frame sent, no answer to come) and `orphans` (let in after `close()` had said
goodbye). Its counters, which a tick moves with the clock and a reseed
(`server.ts:372`) without it, are what the panel polls; `readings` keeps every
answer `/sim/stats` could have given. `LoadSeries` is what `perf/series.ts` makes
of the polls, in whatever order their answers come.

`WireCodec` is `protocol/frames.ts`: `assembleFrame`, the bytes of `fx.v2` as
fields with the widths of their layout, the schema of `fx.v1`, and everything
each decoder refuses. `MarketWire` composes it with `Market`: every book the
market can send goes through both.

`WakeLoop` is `lib/wake.ts`: a knock, a sleep, a deadline that passes at some
moment and is read between knocks only.

`RenderStore` extends `FeedClient` and `WakeLoop` with the path to the screen: every action of
the shell that calls `onChange` is taken together with what the store makes of
it. "The version moved since this component read it" is kept as a fact
(`moved`, `rowsMoved`) instead of growing counters; `Draw` is what React
redraws then. The watchdog, the pair counters, mode flips, pending frames, the
page's own renders (`AppRenders`) and the wake panel with its loop are in it.

### Warm plane

`OrderGrammar` is `nextOrdStatus` and `applyReport` with each check in its
place; a throw is the value `Refused`. `OrderLife` is the abstract promise of
anything that holds orders: accepted or rejected once, fills only grow and never
exceed the size, an ended order never moves, a new day forgets all.

`GrammarFold` feeds `applyReport` every report that can be written down, the
promise alone at work. `BlotterGrid` puts what a user sees behind it: the
frame that prunes and takes the delta (`takeChanged`), the split into rows the
grid has and has not, and AG Grid's queue of transactions it applies up to 60 ms
later, an id that is both handed over and removed ending up removed. `Execution` is the engine with its random draws as choices (splits, the
fillable part of an IOC order, the last-look bounce, `holdMs` changed
meanwhile); due events are emitted in `(dueAt, order)` order. The fold and the
engine both refine `OrderLife`.

`Ledger` keeps `applyFill` with exact fractions in place of doubles: averages are
a numerator and a denominator, and compared by cross-multiplication.
`PositionsPage` is its reader, `TradingPanel.tsx`: a trade's report asks for the
positions, a lost socket is followed by the orders and then by the positions,
one query is shared by everybody who asks while it is under way, and the page
adds the unrealised part itself (`warm/pnl.ts`). A report waits in the bus queue
(`Published`) until the subscription's generator sends it (`Send`), and answers
overtake it there; one whose registration a reseed has removed meanwhile makes
`enrich` throw, which ends the subscription for good (`ReceiveError`).

`OrdersStore` is `warm/orders.ts` as operators on a record: `fold`, `ingest`
(duplicate, next, hole), `beginResync`, `reconcile` with the drain and its
throw, `prune`, `takeChanged`, and `Drawn`, what the grid makes of the delta: an
id both changed and removed is removed. `WarmPlane` composes it with the server: the
engine is any engine that keeps `OrderLife`; `publishReport`, the deferred
rejection (`setTimeout(0)`), the bus queue, enrichment at sending time, the
shared orders query and its callbacks, retry, reconnect hook, reseed, restart,
drop, flush of the grid. Any id may be used again on a new day, the server's own
(`srv-1` and up) by a restarted process. `Gone` says that neither page, wire, bus nor a
deferred rejection holds anything of an id's last use; `mixes` counts the
reuses before that, and the properties are about behaviours with none. Apollo and graphql-ws are modelled by what the code
relies on: active operations run again on the next socket, identical queries in
flight are shared, one socket's messages arrive in order.

### Simulation and control

`Market` models `advance`: freeze stamps and thaw, news jumps, decay of the
spread, the loop that spends credit on mid moves and single-level jiggles
(each outcome of the generator is a choice), the tether, and `mirror`, the book of a client
that receives every record. Prices are distances from the pair's anchor.

`Director` is the scenario clockwork with the real timeline, its timers in
milliseconds, `disconnect` with its own timer, commands by hand and a late
loop.

`OrderDoor` has the operations of the order desk: `submitOrderShared` under the
client's id or the next of the server's, `blotter` and its ceiling, the end of an
order, reseed, and the end of the process. `ControlDoor` says how HTTP reaches
them: routing, the lock, the method, all decided from the headers; a body that
arrives over time, with other requests in between, or breaks off; then parse,
schema, handler and answer in one turn. `Ticket` adds the page: `Depth` (the
rows of `lib/depth.ts` and what a click on one loads into the form), one mutation at a
time, and a socket that may be lost with the request or with the answer, after
which graphql-ws executes the operation again.

Each `MC` module gives one of these finite constants. The `Proofs` modules hold the
theorems.

## Runs

All bounds are constants named in the module; their role is in its `CONSTANTS`
comments. State counts are from a complete search.

**HotPlane** (721 thousand states). Two levels, two quotes, four seqs, two
frames in flight, two updates per tick with an unbatched limit of one, one skip
command of one or two seqs, two faults (drop, refusal, server close, page
command, watchdog). Four seqs hold a snapshot and a delta after it or a second
snapshot; one skip can fall before, between or after frames; two faults let a
reconnect fail or be interrupted. Checks the inductive invariant `HotInv`,
`ExactIsTold`, `GapsAreSkips`, `OneDriver`, `StopsOnlyWhenTold`, the refinement,
and the liveness `LossIsNoticed` and `Recovers`.
*Fairness*: weak, on accepting connections, on the heartbeat interval (while the
wire has room), on handshake, delivery and close events, and on the reconnect
timer. These are the intervals, timers and socket events of two event loops,
which nothing in the code can starve. Ticks, faults, commands and the watchdog
are not fair, so loss is noticed without counting on new prices or on silence.

**FeedDoor** (161 thousand). Two pages, two slots, one page that may vanish, two
processes of one tick and one reseed each, one record a tick and two in a book:
slots can be held by nobody, a page can come back to a full door, a reading of
the old process can be folded after one of the new, and a reseed can fall
between two readings of one tick. `FeedDoorInv` (types, the limit, who is left
when the server drains), `RatesAreHonest` of every two readings the sampler may
fold after each other, and the liveness `PagesGetIn` and `ShutdownEnds`.
*Fairness*: weak, on a page's dial (its retry timer), on hearing a close frame,
on a silent page's watchdog, on the session ceiling (the heartbeat interval
sweeps it), on the WebSocket library's close timeout, on `warm.close()` and on
the exit. Ticks, commands, crashes and restarts are not fair.

**Execution** (256 thousand). Two orders, a legal and a too large size, both
times in force, up to two partial fills, holds of zero and one, and a
clock that ends after everything scheduled is due (assumed in `MCExecution`).
`EngineInv` (types, the live count the blotter ceiling uses, `NeverThrows`,
`ScriptsFinish`), the refinement `KeepsOrderLife`, and `EveryOrderEnds` under
`WF` of the clock, the server's tick interval.

**BlotterGrid** (201 thousand). Two orders of one or two units, every report one of them may
accept and more, room for one order, two transactions waiting: pruning, a
snapshot that brings back what was pruned, and a row that moves while the grid
still owes it an add all happen. `GridIsTheBookLate` and the refinement `FoldKeepsOrderLife`. That
leaves are not negative is an assumption of the refinement: the code accepts others,
see disagreement 5 below.

**Ledger** (3.4 million, about three minutes). Two orders, both sides, sizes -1 (refused) and 2,
fills of every part, two prices, three trades, one lost socket, two days, two
reports on the bus: enough to open, extend, reduce, close and cross zero with a
rest, for an answer read before a trade to arrive after its report, for one read
after it to arrive before, and for a reseed to end the subscription.
`LedgerInv` (types, the cash identity, `EntryWasDealt`), and `PageShowsTheMoney`
of a page whose subscription lives (disagreement 6 is about the others).

**WarmPlane** (2.2 million, three to four minutes). Two orders of two units, a
book with room for one (so pruning happens), one lost socket, one new day by
reseed or by restart. An id is used again on the new day as soon as nothing of
its last use is left on the page, the wire or the bus (`MaxMixes = 0`: not before).
What an earlier reuse breaks is in disagreements 7 to 10 and 22. `WarmInv` (types,
neither fold throws, the server's states follow its engine), `OneDayTruly`,
`HolesAreLosses` (a hole in an order on the page proves a loss), `GridFollows`
(what the grid does not show yet is in the next delta, which removes no row of
the book, and a flush or a retry is due) and `LiveOrdersStay`.
`OneDayTruly` across a restart relies on Apollo running both waiting callbacks
of a shared query; the mutant `AskOnce` shows it.

**WarmLive** (102 thousand). One order under an id the server gives, a restart that
gives it again, at once (a mix) or later, and a lost socket: `Converges`, the
page ends up with the server's states.
*Fairness* is weak, on every callback of both loops and on the reconnect. For the
actions with many successors it is written out as `[]<>~guard \/ []<><<A>>_vars`,
the guard in place of ENABLED: each is possible exactly when its guard holds.

**Market** (213 thousand). Two interchangeable pairs, two levels a side, mid
steps of two against a tether of two, two rates, two
elapsed times, a downward jump of three with and without a spread change, freezes that last one
or two advances, two commands: news can hit a frozen pair, a freeze can hit a
pair in the news, and either can repeat. The fields of the wire are just wide
enough, and its numbering stands at the start or at the last seq that fits.
`MarketInv` (types, the pace: the credit loop leaves less than one action
unpaid and at most one mid move overdrawn; what a tick says is paid for; the walk
is bounded), `WireNeverCrossed`, `WireLagsInNewsOnly`, `BothWiresCarryTheBook`,
and `FreezeIsKept` of every advance, the overlap of freeze and news included: a
pair inside its window moves by a pending jump only, and speaks exactly when
news owes its book.

**RenderStore** (141 thousand). Two rows, two quotes, a good and a bad close code, snapshots,
a delta and a heartbeat that is ahead. `RenderInv` (types; rows and status are
current once the pending frame ran) and `KnocksEndInADial`.
*Fairness*: weak, on the reconnect timer, the watchdog, the animation frame of a
visible page, the end of a fetch and of a sleep, the deadline, and on what App
does with the result. A server that answers is not assumed.

**RenderDown** expects a violation of `DownIsSaid` under the same fairness
(below).

**Director** (80 thousand). Three plays at speed 1 or 600, replaced at any
moment, one late callback, one command by hand. `DirectorInv` (types, and one
director), `PlayedAsWritten`, `OnlyDisconnectsStray`, and `PlayEnds` with
fairness of Node's timers and of time. Two timers that are due together fire in
either order unless they are steps of one play.

**OrderDoor** (1.9 million). Three server ids, one client id that looks like none
of them, bursts of two against a ceiling of two, two connections of the control
plane, a lock, two processes, a ticket with one lost socket, a depth with a
missing level and a size the engine refuses. Two bursts, or a burst and an order,
have their bodies under way at once; a body that breaks off starts the second
process. `DoorInv` (types, ledger and engine hold the same orders, every answer
tells what was done), `ClicksAreHonoured`, `ServerIdsNeverReturn`.

Where deadlock is not checked the bounds end the behaviour: the days, orders,
plays or trades are used up.

## Proofs

| Theorem | Says |
|---|---|
| `FeedClientProofs!OneDriverAlways` | a client that is not closed has exactly one of socket, timer or the "continue" button |
| `FeedClientProofs!StopsOnlyWhenToldAlways` | it stops for the server's 1000 or 4002 only, and a usable socket was dialled with the offer in force |
| `HotPlaneProofs!HotPlaneCorrect` | `HotInv` is invariant |
| `HotPlaneProofs!LiveLadderIsExact` | a client that holds every seq of its wire shows what the wire was told |
| `HotPlaneProofs!NoFalseAlarm` | gaps never outnumber skip commands |
| `HotPlaneProofs!HotPlaneMirrors` | `HotPlane` implements `LadderMirror` |
| `RenderProofs!ThePageIsCurrent` | `RenderInv`: once the pending frame has run, rows and status are the core's |
| `RenderProofs!StoreImplementsClient` | the render store takes only steps of the shell, so the shell's theorems hold behind the page |
| `MarketProofs!TheMarketIsBounded` | `MarketInv`: mids keep to tether, step and news, the credit loop stops neither early nor late, what a tick says is paid for |
| `MarketProofs!ClientsNeverCross` | no bid a client shows is at or above an ask it shows |
| `MarketProofs!ClientsLagInNewsOnly` | a level it shows is behind the book only where news moved it and is still owed |
| `MarketProofs!FreezesAreKept` | `FreezeIsKept`: until the thaw a frozen pair moves by a news jump only and speaks exactly when news owes its book |
| `MarketProofs!BothWiresAreFaithful` | both wires carry every book of the market, and refuse what is damaged |
| `DoorProofs!DoorIsHonest` | `DoorInv`: the books agree and every answer is true |
| `DoorProofs!GivenIdsNeverReturn` | a process never gives an id twice, when clients choose none of the server's |
| `DoorProofs!ClicksEnterWhatTheySay` | a click enters one order, and another only for an answer lost with its socket |
| `ServerProofs!TheEngineNeverThrows` | `EngineInv`: every script is legal to its end, the counters are what was emitted |
| `ServerProofs!TheEngineKeepsOrderLife` | the engine implements `OrderLife`, whatever falls due in one call |
| `ServerProofs!TheLimitHolds` | `FeedDoorInv`: the client limit counts every socket, a server that drains has told all it let in |
| `ServerProofs!PlottedRatesAreHonest` | no plotted rate exceeds what the ticks and reseeds of one process can send between two polls |
| `ServerProofs!OneDirectorAtATime` | the timers that fire commands are those of one play, each step once |
| `ServerProofs!PlaysGoByTheScript` | a play nobody interferes with leaves the world as its timeline says |
| `ServerProofs!OnlyEndingsStray` | of a replaced play only the end of a disconnect is still issued |
| `BookProofs!GrammarKeepsOrderLife` | folding any reports with leaves >= 0 implements `OrderLife` |
| `BookProofs!TheGridIsTheBook` | drawn to the end of its queue the grid shows the page's book |
| `BookProofs!BlotterFoldsOnly` | page and grid implement the grammar's book, so its promise holds behind the grid |
| `BookProofs!TheLedgerInventsNoMoney` | `LedgerInv`: P&L and open value are the cash the trades moved, an entry lies between dealt prices |
| `BookProofs!ThePageShowsTheMoney` | while its subscription lives, and with nothing on its way, the page's P&L is the day's cash and what closing at the mid would bring |
| `WarmProofs!NobodyThrows` | `WarmInv`: no fold refuses a report, and the server's states follow its engine |
| `WarmProofs!EveryEventExactlyOnceInOrder` | every row is the server's fold after as many events of one day; all of one day without a reseed |
| `WarmProofs!LiveOrdersAreKept` | no order the server holds leaves the page before it ended |
| `WarmProofs!HolesProveLosses` | `HolesAreLosses`: an order on the page declares a hole only when one of its events is missing |

**Assumptions.** Each module's `ASSUME`s are types and signs of its constants, and
TLC evaluates them in every run. Beyond them:

- Client: any frames and close codes (natural numbers). Hot plane: any number of
  levels at least one, any quotes, tick and slice sizes, bounds.
- `ThePageIsCurrent`: a snapshot has a record of every level (`WholeSnapshots`), as
  `Market.snapshot()` makes them: the core empties the levels a snapshot leaves
  out and bumps only those it names.
- Market: any finite set of pairs, depths, steps, rates, jumps and freezes, with a
  tether of at least one step, a spread of at least two and a longest time between
  ticks (`PaceAssumption`). `BothWiresAreFaithful` also
  assumes `WidthsSuffice`, that the fields hold the prices the tether allows;
  `MCMarket` evaluates it for the run.
- Door: any connections, ids, bursts, ceilings, books of depth.
  `GivenIdsNeverReturn` and `ClicksEnterWhatTheySay` assume
  `ClientIds \cap (1..MaxOrders) = {}`, which disagreement 15 shows to be needed.
- `TheLimitHolds` wants finitely many pages, the director's theorems any speeds,
  lateness and commands by hand, the engine's any sizes, holds and gaps, the
  ledger's any sizes and positive prices.
- `GrammarKeepsOrderLife` and `BlotterFoldsOnly` assume `LeavesValues \subseteq Nat`, which
  disagreement 5 shows to be needed.
- The warm plane's want no assumption on ids, but each property starts with
  `mixes = 0`: reseeds, restarts and clients may use every id again, the server's
  own included, and a behaviour counts until one is used while something of its
  last use is left. A restarted server can give `srv-1` while the page still shows
  the old `srv-1`, and no theorem speaks of what follows; disagreements 7 to 10 and
  22 do, and `WarmLive` shows that after a restart the page converges all the same.
- `ThePageShowsTheMoney` models the book as the trades it has taken in, so an id
  the page may hold (`heldOver`) is not opened again in it.

**Argument, hot plane.** `ShellInv` strengthens `OneDriver` by what a closing socket
and a terminal client look like; each callback then keeps it alone. For the wire,
`ExactIsTold` is not inductive: whether the client is exact depends on every
frame still in flight. `HotInv` says of each frame where it starts, how far it
reaches and what book a reader holds after it (`FrameOK`), how consecutive
frames continue each other, with a hole only after a skip (`Continues`), and
where the reader stands before the first of them (`ReaderInv`); `GapInv` counts
a skip the reader has not met as a gap to come. Sending proves that appended
frames continue the last one (`SendKeeps`); delivering proves that the reader
either ends up behind the frame or finds a gap that a skip made (`ReadHead`).
The refinement maps the queue of books to the `after` of the frames in flight.
The lemmas about `core.ts` (types, what an upsert keeps, when an event is
raised) open `FeedClientProofs`.

`RenderInv` speaks only of states without a pending frame. `MarkInv` says of
every state that what is behind is marked (`RowsAreMarked`, `StatusIsMarked`) and
that a mark has a frame to carry it (`MarksAreCarried`). Two lemmas carry all
steps: drawing leaves nothing behind (`DrawCatchesUp`), and a notification marks
what its step moved or draws it (`ChangeIsMarked`); what a frame moves in the
core is among the levels it bumps (`FrameTouches`).

**Market.** `StandingInv` says of each pair how far mid, spread and published levels
can lie apart, and of the client what it still shows (`mirror`) against the last
mid that was said. A call of `advance()` is a loop whose rounds each move one
pair; a round keeps what the loop's end needs, and the whole loop follows by
induction over its rounds. `PriceInv(far)` bounds every price by the farthest the
tether allows, and `WidthsSuffice` makes the codec's arithmetic exact below it.

**Door.** The inductive invariant adds to `DoorInv` that every id given so far
has been counted (`spent \subseteq 1..orderCounter`) and that the ledger is
finite, without which a cardinality says nothing. Each operation of the desk is
one of four steps (nothing happens, one order enters, a burst enters, the books
are emptied), each with its lemma (`NothingHappens`, `OneEnters`, ...) that proves the
invariant and the freshness of ids together; the answers follow from how
many orders such a step adds. `TicketInv` then ties the mutation's attempts to
the orders they entered.

**Server.** `EngineIInv`: what is still pending of an order is exactly the rest of its
script, in order of time, and adds up to what is left of it. The order in which
one call emits what fell due is a permutation, and the counters are sums, which
are proved independent of the order of their terms. `FeedIInv` counts seats:
each socket is behind a page or one of the three kinds nobody is behind. Any two
readings of one process are ordered by its ticks and its reseeds, each of which
adds at most what it sends to every socket; a restart is told by clock or
counter. `DirectorIInv`: the timers that are left are the steps
after the applied ones, in order of time, as many as there are steps left.

**Book.** `GridInv` speaks of the grid after its whole queue has been applied, a fold
of transactions that grows by one application for each one queued. The ledger's
identity is one lemma on a fill, with average and cash multiplied
crosswise so that no division is left: extending, reducing, closing and crossing zero keep
cash = realised + value at entry. `PageIInv`: whatever the page shows that is out of
date has something behind it (a report on the bus or the wire, an answer, a
timer, a lost socket) that will make it ask again after the last trade; a report
whose order a reseed has forgotten stands before all reports of the new day, and
its error takes the promise with it.

**Warm plane.** `Inv` joins five parts: the server's states follow the engine but for the
rejections that wait (`ServerInv`); whatever is on its way is true of some day
(`WireInv`); so is the page's book (`PageInv`); a snapshot on its
way is at least as far as all that precedes it (`Behind`); and without a reseed the page
mixes days only while it waits for an answer, its queue holding the old day's
reports first (`OneDayInv`). `Reconcile` drains its queue by a recursive
function, and a waiting answer is taken once per callback: both are run step by
step (`Drains`, `Rounded`), with an invariant for what remains of the queue. An id
that is used again forgets its earlier days (`Reuse`); since it is gone, nothing on its
way and no row is about them (`Cleared`), so what was true stays true
(`StillTrue`, `ClearedIsTrue`). `InvUnlessMixed` is the invariant of the
specification: `Inv`, until an id was mixed. `GridFollows` is only model-checked.

**A hole proves loss.** Whether a hole is one depends on every report of the order
that is anywhere. `LossInv`, checked by TLC on the instance of `WarmPlane`
before it was proved, follows the numbers of each order through three places,
the page's queue, the wire and the bus buffer: they ascend from one to the next, those
on the wire and in the buffer have no gap and, while the page is subscribed, end
at the order's last event (`FlowInv`, one lemma on sets of numbers per way a number
moves). At most one query or answer is on its way, and only while the
page waits (`AskInv`). An answer tells of an order of today all that the page
has or will have before it (`Tells`); of one it does not hold, either
everything comes after it or nothing does (`Split`). A page that does not wait is brought on by
the next report, or by none (`Level`); one that waits either has a hole at the
head of its queue that no answer will close, or lacks nothing of an old order
up to what it has seen (`Whole`). With these a report or an answer that raises
the alarm contradicts one of the parts, whichever was lost, reseeded or
restarted before.

**Recursive functions.** An unbatched tick, a reconcile, the credit loop, the batch
of a tick, the fold of a flush are recursive functions in the model. No induction theorem that takes an
operator can be used, so what the proofs need of them is proved by well-founded
induction over `Nat` in set form (`NatLessThanWellFounded`, `LeastNumber`,
`StepByStep`): the set of indices at which the claim fails has no least element.

**Only model-checked**: the liveness properties (`LossIsNoticed`, `Recovers`,
`PagesGetIn`, `ShutdownEnds`, `EveryOrderEnds`, `Converges`, `KnocksEndInADial`,
`PlayEnds`), as liveness under fairness and ENABLED are out of the prover's reach;
and the safety property `GridFollows`.

## Disagreements between code and its documentation

Each of these was met while modelling. One has a run of its own; for the
others the formula and the instance that show it are given, to be put in a cfg
of the module.

1. `server.ts:351`: reseed clears ledger, states and
   engine and closes nothing on the warm plane: a page that stays subscribed
   keeps the old day's rows. `DEMO.md:48`: "a new trading day (ADR-10): the page
   says exactly that instead of looking broken". `WarmPlane`, `FairSpec`, one
   order, one reseed, no faults: `Converges`.
2. **RenderDown** (`stream/store.ts:197`, run). `version()` does not move when
   the socket closes or retries, so useSyncExternalStore draws nothing: a server
   that stays down may never be shown as closed. `DEMO.md:170`: "free instance
   was asleep, the page says so".
3. `connect.ts:84`: `resyncing` is set even when there is no socket to drop (the
   watchdog during a retry), and the next close by the server is then not
   judged. `connect.ts:10`: "the table judges the server's endings, not our
   own". `FeedClient`, `ClientSpec`: `timer = "quick" => ending.by = "client"`.
4. `server.ts:260`: the unbatched slice keeps the newest updates whatever their
   level, so a level's only update is dropped under dense seqs. `server.ts:258`:
   "skipped upserts are legal on this plane (full upserts ...)", which coalescing
   of one level is, and this is not. `HotPlane`: compare `told` with the fold of
   all updates of each tick; `UnbatchedMax = 1`, `MaxUpdates = 2`.
5. `domain/orders.ts:144`: a TRADE is checked for cum + leaves = qty and not for
   leaves >= 0: an overfill with a negative rest folds as PARTIALLY_FILLED.
   `warm/orders.ts:12`: "a lying sequence throws instead of rendering wrong
   money". `GrammarFold`, `LeavesValues = -1..2`, `MaxQty = 2`: every
   `progress[id].cumQty <= size[id]`.
6. `warm.ts:182`: a report is enriched when sent; after a reseed the
   registration is gone, `enrich` throws and the subscription ends, and nothing
   starts it again. `domain/graphql.ts:140`: "Every event exactly once, in
   order; never merged, never dropped". `WarmPlane`, one id, one reseed: `subAlive`.
   The positions then stand still as well: `PositionsPage`, two days,
   `PageShowsTheMoney` without `subAlive`.
7. `server.ts:148`: a late report of the old day is recognised by a missing
   registration; when a client registered the same id again it is folded into
   the new order, and the engine's next report throws out of the tick.
   `server.ts:146`: "the old day's report has no home and no audience".
   `WarmPlane`, `Ids = {o1}`, `ServerIds = {}`, `MaxMixes = 1`, one reseed:
   `ServerNeverThrows`.
8. `warm/orders.ts:208`: `fold` leaves a returning id in `removed`, so a row
   removed by a new day's snapshot and re-opened under the same id before the
   flush is removed from the grid. `warm/orders.ts:79`: "What changed since the
   last call, and nothing else". `WarmPlane`, `ServerIds = Ids = {o1}`,
   `MaxMixes = 1`, one restart, one drop:
   `store.removed \cap Held(store.rows) = {}` (a part of `GridFollows`).
9. `warm/orders.ts:250`: the queue of a resync survives a second drop and is
   drained onto the next process's snapshot. `warm/orders.ts:290`: "on a live
   wire the queue continues exactly where the snapshot ends". The same with
   `OrderQtys = {2}`, `MaxDue = 2`: `PageNeverThrows`.
10. `warm/orders.ts:257`: two reconciles in a row: the first raises the new-day
    note, the second lowers it with nothing folded in between.
    `warm/orders.ts:97`: "Cleared by the next folded event". The same instance as 8:
    `[][store.newDay /\ ~store'.newDay => Held(store'.rows) # {}]_vars`.
11. `warm/orders.ts:213`: pruning forgets an order's last number; a late repeat
    of it counts as a hole. `warm/orders.ts:216`: "A hole proves loss".
    `WarmPlane`, two ids, `OrderQtys = {1}`, one drop: `HolesAreLosses` when
    `FalseAlarm` counts orders the page no longer holds as well. The property
    checked is the part that holds, for orders on the page.
12. `market.ts:266`: refreshes that news owes ignore `frozenUntil`.
    `schemas.ts:63`: "one pair goes silent for `ms`". `Market`, one pair, two
    commands: no pair with `frozenFor > 0` in `spoke`. `FreezeIsKept`
    is the part that holds.
13. `market.ts:259`: levels are re-priced one by one while the spread decays, so
    a deeper level can be better than the first. `lib/depth.ts:16`: "index 0 is
    the best price". `Market`, one command: a client's `mirror` is sorted.
14. `server.ts:431`: a new scenario clears `scenarioTimers` and not
    `pendingDisconnects` (`server.ts:519`). `server.ts:429`: "so a replay never
    inherits stray commands". `Director`: `OnlyDisconnectsStray` without its
    exception.
15. `server.ts:413`: `blotter` does not expect a duplicate id: a client's id
    equal to the next counter value ends the burst half-entered, in a rejection
    nobody handles, and with it the process. `control.ts:22`: "a request either
    becomes a proven value or dies at the border". `Ticket`, `ClientIds = {2}`,
    a burst of two: `[][BodyStep => up']_vars`.
16. `control.ts:97`: a connection that breaks while its body arrives makes
    `readBody` throw in a promise nobody handles: the process ends, where the same
    comment promises that the request does. The action `BodyBreaks` of `ControlDoor`.
17. `Blotter.tsx:120`: the split into new and known rows asks a grid that has not
    applied its queue: an order that moves within those 60 ms is handed over as
    new twice, and one whose removal is queued is handed over as an update of a
    row that is about to go. `Blotter.tsx:108`: "takeChanged() then carries it
    forward from there". `BlotterGrid`: `GridIsTheBookLate` without `hurried`.
18. `series.ts:75`: a restart is recognised by a clock or a counter that ran back;
    a process that has outlived and outsent the old one by the next poll is
    not, and one sample mixes the two. `series.ts:9`: "a missed second widens dt
    and the rate stays honest". `FeedDoor`, the instance of its run: every two readings
    that are not told apart have `oneLife`.
19. `frames.ts:58` wants a positive price and `market.ts` has no floor: below zero
    the `fx.v1` page drops the whole frame as damage and the `fx.v2` page shows
    it (`frames.ts:154` allows any 32-bit number). `MarketWire`,
    `AnchorPrice = 6`: the `fx.v1` part of `BothWiresCarryTheBook` without its
    condition.
20. `server.ts:645`: `close()` says goodbye to the sockets there are and then waits
    for the warm plane; a page let in meanwhile is not told, and the HTTP server
    waits for it. `FeedDoor`: `ShutdownEnds` without its exception.
21. `wake.ts:47`: the deadline is read between knocks, so a knock the browser keeps
    open outlives it. `wake.ts:3`: "until it answers or the deadline passes".
    `WakeLoop`: `~(late /\ knock = "fetch")`.
22. `warm.ts:182`: a report of the old day that is still queued after a reseed is sent
    with the registration of an order that a client opened meanwhile under the
    same id: the page takes it for a hole, and drains it onto the new day's
    snapshot, whose fold refuses it. `warm/orders.ts:290`: "on a live wire the
    queue continues exactly where the snapshot ends". `WarmPlane`, `Ids = {o1}`,
    `ServerIds = {}`, `MaxMixes = 1`, one reseed: `PageNeverThrows`.

## What is not modelled

- Bytes as bits: a payload of `fx.v2` is its fields, and its damage a wrong length,
  header or side byte.
- The ring of tick durations behind `/sim/stats` (`server.ts:179`): a sliding
  window of measurements.
- Sampling and plotting in `perf/`: the ring of samples, the axis ladder, the SVG path.
- Prices and sizes as numbers, except where money is the subject (`Ledger`) or a
  spread can cross (`Market`); layout, wording, React's own scheduling.
- The page's unmount in `RenderStore`; the wire-rate meter and freshness stamps
  of `core.ts`.
- `prune`'s order among rows of equal age, and Node's order between a disconnect
  and a step due together: left open, every order is possible.
- The generator `prng.ts`: every draw is a choice.
- The cold plane: one resource that never changes, with its ETag.
- `percentile` and price formatting: no state, and no order to get wrong.
- Components that only draw; what their forms send is a free choice of the
  modules.
- Tools, chaos and rehearsal drivers, end-to-end tests: programs around the system.

## Plan

1. *Done*: every component above is modelled and checked; every safety and action
   property that a run checks, but for `GridFollows`, is a theorem.
2. *Next proofs*: `GridFollows`, which needs of `Inv` that no report on its way is of a
   row the next flush removes; the safety part of what the liveness properties rest on, such as
   that a page which waits for an answer always has a query, an answer or a lost
   socket behind it (`AskInv` holds one half of it).
3. *Next modules*: the stream core's wire-rate meter and freshness stamps; a market
   under a scenario (freezes and news that outlive a replaced play).
