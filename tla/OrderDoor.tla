----------------------------- MODULE OrderDoor ------------------------------
(***************************************************************************)
(* The one way orders enter the server (apps/feed-server/src/server.ts,    *)
(* submitOrderShared and controlDeps.blotter): the id is the client's or   *)
(* the next of the server's own, the ledger registers it, the engine takes *)
(* it.  A burst submits its rows one by one in one call.  What the engine  *)
(* makes of an order is in Execution; here an order is live until it ends. *)
(* The operations are the work of one call each; ControlDoor and Ticket    *)
(* say who calls them.                                                     *)
(***************************************************************************)
EXTENDS Integers, FiniteSets

CONSTANTS
  ClientIds,       \* ids clients choose; those of the form srv-n are numbers
  BurstRows,       \* sizes of the bursts asked for
  MaxLiveOrders,   \* MAX_LIVE_ORDERS
  MaxOrders        \* bound: ids the server hands out

ASSUME DoorAssumption ==
  /\ BurstRows \subseteq Nat \ {0}
  /\ {MaxLiveOrders, MaxOrders} \subseteq Nat

VARIABLES
  orderCounter,  \* the last id the server handed out
  meta,          \* ids the ledger has registered
  known,         \* ids the engine has taken
  live,          \* orders that have not ended
  spent,         \* ids the server has given orders since it started
  up             \* the process runs

books == <<meta, known, live>>
deskVars == <<orderCounter, books, spent, up>>

-----------------------------------------------------------------------------
(* One order *)

NextId == orderCounter + 1

\* Mutant: the ledger's registration comes after the engine's.
EnterEngineOnly(ids, running) ==
  /\ known' = known \cup ids
  /\ live' = live \cup running
  /\ UNCHANGED meta

\* Orders under ids that are not taken: registered, taken, and running unless
\* the engine rejects them on the spot.
Enter(ids, running) ==
  /\ meta' = meta \cup ids
  /\ known' = known \cup ids
  /\ live' = live \cup running

EnterNone == UNCHANGED books

\* A client's own id; one that is taken is refused with a reason.
SubmitOwnId(id) ==
  /\ IF id \in meta THEN EnterNone ELSE Enter({id}, {id})
  /\ UNCHANGED <<orderCounter, spent, up>>

\* An id of the server's; one that is taken is spent, and refused all the same,
\* like a size the ledger does not register.
SubmitFresh(registered, running) ==
  /\ orderCounter < MaxOrders
  /\ orderCounter' = NextId
  /\ IF ~registered \/ NextId \in meta
     THEN EnterNone /\ UNCHANGED spent
     ELSE /\ Enter({NextId}, IF running THEN {NextId} ELSE {})
          /\ spent' = spent \cup {NextId}
  /\ UNCHANGED up

-----------------------------------------------------------------------------
(* A burst *)

BurstFits(rows) == Cardinality(live) + rows <= MaxLiveOrders

BurstIds(rows) == {NextId + i : i \in 0..(rows - 1)}

-----------------------------------------------------------------------------
(* The life of the desk *)

\* An order reaches a terminal status; its id stays taken.
OrderEnds ==
  /\ up
  /\ \E id \in live : live' = live \ {id}
  /\ UNCHANGED <<orderCounter, meta, known, spent, up>>

EmptyBooks == meta' = {} /\ known' = {} /\ live' = {}

\* Mutant: the new day counts its orders from one.
ReseedRecounts ==
  /\ EmptyBooks
  /\ orderCounter' = 0
  /\ UNCHANGED <<spent, up>>

\* A new trading day: a new ledger and a new engine, the same counter.
Reseed ==
  /\ EmptyBooks
  /\ UNCHANGED <<orderCounter, spent, up>>

\* The process dies and takes everything with it.
DeskDies ==
  /\ EmptyBooks
  /\ orderCounter' = 0
  /\ spent' = {}
  /\ up' = FALSE

\* A burst within the ceiling, row by row.  An id that is taken throws what is no
\* FieldError: nothing catches it, and the process ends.
Blotter(rows) ==
  /\ orderCounter + rows <= MaxOrders
  /\ BurstFits(rows)
  /\ IF BurstIds(rows) \cap meta # {} THEN DeskDies
     ELSE /\ Enter(BurstIds(rows), BurstIds(rows))
          /\ spent' = spent \cup BurstIds(rows)
          /\ orderCounter' = orderCounter + rows
          /\ UNCHANGED up

DeskInit ==
  /\ orderCounter = 0
  /\ meta = {} /\ known = {} /\ live = {}
  /\ spent = {}
  /\ up = TRUE

-----------------------------------------------------------------------------
(* Properties *)

DeskTypeOK ==
  /\ orderCounter \in 0..MaxOrders
  /\ meta \subseteq 1..MaxOrders \cup ClientIds
  /\ known \subseteq 1..MaxOrders \cup ClientIds
  /\ live \subseteq known
  /\ spent \subseteq 1..MaxOrders
  /\ up \in BOOLEAN

\* The ledger and the engine refuse the same ids: an order is never on one of
\* the books without the other, over bursts and new days (submitOrderShared).
BooksAgree == meta = known

\* An id the server has given is never given again by the same process, not
\* even on another day, so a report of the old day finds no order under its id
\* (publishReport).
ServerIdsNeverReturn ==
  [][up' => ((meta' \ meta) \cap 1..MaxOrders) \cap spent = {}]_deskVars
=============================================================================
