----------------------------- MODULE Execution ------------------------------
(***************************************************************************)
(* The scripted execution engine (packages/sim-core/src/execution.ts): a   *)
(* submitted order is rejected on the spot, held and bounced, or expanded  *)
(* into NEW, fills and perhaps a CANCELED, each due at its own time;       *)
(* advance(now) emits what came due, through the order grammar.            *)
(* The random draws are choices over every value they can take; prices are *)
(* left out.  Events are kept in a set: one order's events fall due at     *)
(* different times, so (dueAt, order) identifies an event.                 *)
(***************************************************************************)
EXTENDS OrderGrammar, SequencesExt

CONSTANTS
  Ids,            \* clOrdIds
  MaxOrderQty,    \* MAX_ORDER_QTY_K
  MaxPartials,    \* config.maxPartials
  EventGap,       \* config.eventGapMs
  Quantities,     \* sizes submitted, legal or not
  Holds,          \* holdMs values setLastLook is called with
  SubmitUntil,    \* bound: the latest arrival of an order
  MaxTime         \* bound: the clock

ASSUME ExecutionAssumption ==
  /\ {MaxOrderQty, MaxPartials, EventGap} \subseteq Nat \ {0}
  /\ Quantities \subseteq Nat
  /\ Holds \subseteq Nat
  /\ Holds # {}
  /\ {SubmitUntil, MaxTime} \subseteq Nat

VARIABLES
  orders,      \* [Ids -> [qty, tif]], Unknown before the submit
  submissions, \* the submission index
  pending,     \* scheduled events
  progress,    \* [Ids -> Progress or NoOrder]
  stats,       \* ExecutionStats
  holdMs,      \* config.holdMs
  bounces,     \* config.rejectRate: "never" (0), "sometimes", "always" (1)
  lastNow,     \* the clock of the last advance()
  out,         \* what the last call returned
  threw        \* a call threw out of emit()

engineVars == <<orders, submissions, pending, progress, stats, holdMs, bounces,
                lastNow, out, threw>>

NoStats == [submitted |-> 0, trades |-> 0, partials |-> 0,
            filled |-> 0, canceled |-> 0, rejected |-> 0]

TimeInForce == {"DAY", "IOC"}
Unknown == [qty |-> NoQty, tif |-> "DAY"]
Known == {id \in Ids : orders[id] # Unknown}
Qtys == [id \in Ids |-> orders[id].qty]

-----------------------------------------------------------------------------
(* The script of one order *)

\* Mutant: the last part may be one more than what remains.
SplitsOverrun(n) ==
  UNION {{s \in [1..k -> 1..(n + 1)] : FoldFunction(+, 0, s) \in {n, n + 1}} :
           k \in 1..MaxPartials}

\* Ways to fill n in at most MaxPartials trades.
Splits(n) ==
  {<<n>>} \cup UNION {{s \in [1..k -> 1..n] : FoldFunction(+, 0, s) = n} :
                      k \in 2..MaxPartials}

\* What of the order the market has: all of it, or 30-90 % of an IOC.
Fillable(qty, tif) ==
  {qty} \cup IF tif = "IOC"
             THEN {Max({1, part}) : part \in (3 * qty) \div 10 .. (9 * qty - 1) \div 10}
             ELSE {}

Event(id, order, kind, dueAt, lastQty, reason) ==
  [id |-> id, order |-> order, kind |-> kind, dueAt |-> dueAt,
   lastQty |-> lastQty, rejectReason |-> reason]

\* Mutant: the unfilled leftover of an IOC is never closed.
ScriptUnclosed(id, order, split, leftover, t0) ==
  {Event(id, order, "NEW", t0, NoQty, NoReason)}
  \cup {Event(id, order, "TRADE", t0 + i * EventGap, split[i], NoReason) :
          i \in DOMAIN split}

\* NEW after the hold, the fills, and what closes an unfilled leftover.
Script(id, order, split, leftover, t0) ==
  {Event(id, order, "NEW", t0, NoQty, NoReason)}
  \cup {Event(id, order, "TRADE", t0 + i * EventGap, split[i], NoReason) :
          i \in DOMAIN split}
  \cup IF leftover
       THEN {Event(id, order, "CANCELED", t0 + (Len(split) + 1) * EventGap,
                   NoQty, NoReason)}
       ELSE {}

-----------------------------------------------------------------------------
(* emit(): one event becomes a report, folded through the grammar *)

Materialise(e, prev, qty) ==
  LET cum == prev.cumQty + e.lastQty
      report(status, priced, lastQty, cumQty, leavesQty, reason) ==
        [id |-> e.id, execType |-> e.kind, ordStatus |-> status,
         priced |-> priced, lastQty |-> lastQty, cumQty |-> cumQty,
         leavesQty |-> leavesQty, rejectReason |-> reason,
         transactTime |-> e.dueAt]
  IN CASE e.kind = "NEW" -> report("NEW", FALSE, NoQty, 0, qty, NoReason)
       [] e.kind = "TRADE" ->
            report(IF cum = qty THEN "FILLED" ELSE "PARTIALLY_FILLED",
                   TRUE, e.lastQty, cum, qty - cum, NoReason)
       [] e.kind = "CANCELED" ->
            report("CANCELED", FALSE, NoQty, prev.cumQty, 0, NoReason)
       [] e.kind = "REJECTED" ->
            report("REJECTED", FALSE, NoQty, 0, 0, e.rejectReason)

\* Mutant: every fill counts its order as filled.
CountEveryFill(s, r) ==
  LET one(cond) == IF cond THEN 1 ELSE 0
  IN [s EXCEPT !.trades = @ + one(r.execType = "TRADE"),
               !.partials = @ + one(r.execType = "TRADE" /\ r.leavesQty > 0),
               !.filled = @ + one(r.execType = "TRADE"),
               !.canceled = @ + one(r.execType = "CANCELED"),
               !.rejected = @ + one(r.execType = "REJECTED")]

Count(s, r) ==
  LET one(cond) == IF cond THEN 1 ELSE 0
  IN [s EXCEPT !.trades = @ + one(r.execType = "TRADE"),
               !.partials = @ + one(r.execType = "TRADE" /\ r.leavesQty > 0),
               !.filled = @ + one(r.execType = "TRADE" /\ r.leavesQty <= 0),
               !.canceled = @ + one(r.execType = "CANCELED"),
               !.rejected = @ + one(r.execType = "REJECTED")]

\* Once an emit() throws, the ones after it do not run.
Emit(acc, e, qtys) ==
  LET r == Materialise(e, acc.progress[e.id], qtys[e.id])
      next == ApplyReport(acc.progress[e.id], r, qtys[e.id])
  IN IF acc.threw THEN acc
     ELSE IF next = Refused THEN [acc EXCEPT !.threw = TRUE, !.out = << >>]
     ELSE [acc EXCEPT !.progress[e.id] = next, !.out = Append(@, r),
                      !.stats = Count(@, r)]

Before(d, e) == d.dueAt < e.dueAt \/ (d.dueAt = e.dueAt /\ d.order < e.order)

\* The events of a set in due order, ties by submission.
InDueOrder(events) ==
  [i \in 1..Cardinality(events) |->
     CHOOSE e \in events : Cardinality({d \in events : Before(d, e)}) = i - 1]

\* What emitting the events one after the other makes of start.
EmitFrom(start, events, qtys) ==
  LET after[i \in 0..Len(events)] ==
        IF i = 0 THEN start ELSE Emit(after[i - 1], events[i], qtys)
  IN after[Len(events)]

\* Emits the events, on the counters s.
EmitAll(events, s, qtys) ==
  LET start == [progress |-> progress, stats |-> s, out |-> << >>, threw |-> threw]
      end == EmitFrom(start, events, qtys)
  IN /\ progress' = end.progress
     /\ stats' = end.stats
     /\ out' = end.out
     /\ threw' = end.threw

-----------------------------------------------------------------------------
(* The calls *)

\* What every accepted call of submit() does before it looks at the order.
Register(id, qty, tif) ==
  /\ orders[id] = Unknown
  /\ orders' = [orders EXCEPT ![id] = [qty |-> qty, tif |-> tif]]
  /\ submissions' = submissions + 1

Submitted == [stats EXCEPT !.submitted = @ + 1]

\* The order is rejected in the answer of the call.
Reject(id, reason, at) ==
  /\ EmitAll(<<Event(id, submissions', "REJECTED", at, NoQty, reason)>>,
             Submitted, [i \in Ids |-> orders'[i].qty])
  /\ UNCHANGED <<pending, holdMs, bounces, lastNow>>

\* The order is scheduled and the call returns nothing.
Schedule(events) ==
  /\ pending' = pending \cup events
  /\ stats' = Submitted
  /\ out' = << >>
  /\ UNCHANGED <<progress, holdMs, bounces, lastNow, threw>>

Legal(qty) == qty \in 1..MaxOrderQty

\* submit(order, at, {stale}).
Submit(id, qty, tif, stale, at) ==
  /\ Register(id, qty, tif)
  /\ \/ ~Legal(qty) /\ Reject(id, "INVALID_QTY", at)
     \/ Legal(qty) /\ stale /\ Reject(id, "STALE_PRICE", at)
     \/ /\ Legal(qty) /\ ~stale /\ bounces # "never"
        /\ Schedule({Event(id, submissions', "REJECTED", at + holdMs, NoQty, "LAST_LOOK")})
     \/ /\ Legal(qty) /\ ~stale /\ bounces # "always"
        /\ \E fillable \in Fillable(qty, tif) : \E split \in Splits(fillable) :
             Schedule(Script(id, submissions', split, fillable < qty, at + holdMs))

\* advance(now).
Advance(now) ==
  LET due == {e \in pending : e.dueAt <= now}
  IN /\ now >= lastNow
     /\ lastNow' = now
     /\ pending' = pending \ due
     /\ EmitAll(InDueOrder(due), stats, Qtys)
     /\ UNCHANGED <<orders, submissions, holdMs, bounces>>

SetLastLook(hold, rate) ==
  /\ holdMs' = hold
  /\ bounces' = rate
  /\ out' = << >>
  /\ UNCHANGED <<orders, submissions, pending, progress, stats, lastNow, threw>>

-----------------------------------------------------------------------------
(* Specification *)

EngineInit ==
  /\ orders = [id \in Ids |-> Unknown]
  /\ submissions = 0
  /\ pending = {}
  /\ progress = [id \in Ids |-> NoOrder]
  /\ stats = NoStats
  /\ holdMs \in Holds
  /\ bounces = "never"
  /\ lastNow = 0
  /\ out = << >>
  /\ threw = FALSE

EngineNext ==
  \/ \E id \in Ids, qty \in Quantities, tif \in TimeInForce, stale \in BOOLEAN,
       at \in lastNow..SubmitUntil : Submit(id, qty, tif, stale, at)
  \/ \E now \in lastNow..MaxTime : Advance(now)
  \/ \E hold \in Holds, rate \in {"never", "sometimes", "always"} :
       SetLastLook(hold, rate)

EngineSpec == EngineInit /\ [][EngineNext]_engineVars

\* The tick interval calls advance() with a growing clock for as long as the
\* server runs; no other call moves lastNow.
ClockMoves == lastNow' \in (lastNow + 1)..MaxTime

FairEngineSpec == EngineSpec /\ WF_lastNow(ClockMoves)

-----------------------------------------------------------------------------
(* Properties *)

Events == [id : Ids, order : Nat, kind : {"NEW", "TRADE", "CANCELED", "REJECTED"},
           dueAt : Nat, lastQty : Int, rejectReason : RejectReason \cup {NoReason}]

EngineTypeOK ==
  /\ orders \in [Ids -> [qty : Int, tif : TimeInForce]]
  /\ submissions \in Nat
  /\ pending \subseteq Events
  /\ progress \in [Ids -> Progress \cup {NoOrder}]
  /\ stats \in [DOMAIN NoStats -> Nat]
  /\ holdMs \in Nat
  /\ bounces \in {"never", "sometimes", "always"}
  /\ lastNow \in Nat
  /\ \A i \in DOMAIN out : out[i].id \in Known
  /\ threw \in BOOLEAN

\* "An inconsistent sequence cannot leave this module" because none is ever
\* scripted: no split, hold change, late tick or tie makes emit() throw.
NeverThrows == ~threw

\* What a script still owes: nothing once the order ended; before that, NEW
\* first, and last a fill of exactly the rest or, for an IOC order, a CANCELED
\* of less ("IOC closes any unfilled leftover with CANCELED; DAY fills fully",
\* domain/src/orders.ts).
ScriptFinishes(id) ==
  LET p == progress[id]
      left == {e \in pending : e.id = id}
      trades == {e \in left : e.kind = "TRADE"}
      sum == p.cumQty + MapThenSumSet(LAMBDA e : e.lastQty, trades)
      ofKind(k) == {e \in left : e.kind = k}
  IN IF id \notin Known \/ p.status \in Terminal THEN left = {}
     ELSE \/ p = NoOrder /\ \E e \in left : left = {e} /\ e.kind = "REJECTED"
          \/ /\ ofKind("REJECTED") = {}
             /\ Cardinality(ofKind("NEW")) = IF p = NoOrder THEN 1 ELSE 0
             /\ \A e \in ofKind("NEW") : \A d \in left \ {e} : e.dueAt < d.dueAt
             /\ \A e \in trades : \A d \in trades \ {e} : e.dueAt # d.dueAt
             /\ \/ ofKind("CANCELED") = {} /\ sum = orders[id].qty
                \/ /\ Cardinality(ofKind("CANCELED")) = 1
                   /\ orders[id].tif = "IOC"
                   /\ sum < orders[id].qty
                   /\ \A e \in ofKind("CANCELED") : \A d \in left \ {e} : d.dueAt < e.dueAt

ScriptsFinish == \A id \in Ids : ScriptFinishes(id)

\* The live count the blotter ceiling is computed from (server.ts blotter) is
\* the number of orders that may still emit.
LiveCountIsExact ==
  stats.submitted - stats.filled - stats.canceled - stats.rejected
    = Cardinality({id \in Known : progress[id].status \notin Terminal})

\* What holds after every call: a grammar never broken, what is pending a life
\* that ends, and counters that agree with the orders.
EngineInv == EngineTypeOK /\ NeverThrows /\ ScriptsFinish /\ LiveCountIsExact

\* Every submitted order ends, whatever last look is set to meanwhile.
EveryOrderEnds ==
  \A id \in Ids : (id \in Known) ~> (progress[id].status \in Terminal)

\* The engine keeps the promise of OrderLife.
Life == INSTANCE OrderLife WITH life <- progress, size <- Qtys

KeepsOrderLife == Life!LifeSpec
=============================================================================
