---------------------------- MODULE BlotterGrid -----------------------------
(***************************************************************************)
(* The blotter (apps/web/src/warm/Blotter.tsx): once an animation frame it *)
(* takes what the orders store says has changed, splits it into rows the   *)
(* grid has and rows it has not, and hands the grid a transaction.  The    *)
(* grid (AG Grid, external) applies the transactions it was handed in one  *)
(* go, up to 60 ms later, so the split asks a grid that is behind.         *)
(* The orders store is GrammarFold's progress plus the ids the page holds; *)
(* a day is not left here (WarmPlane has that) and no report is lost.      *)
(***************************************************************************)
EXTENDS GrammarFold, FiniteSetsExt, SequencesExt

CONSTANTS
  Reports,        \* the reports the page may meet
  Capacity,       \* orders the book keeps
  MaxQueue        \* bound: transactions waiting in the grid

ASSUME GridAssumption ==
  /\ Reports \subseteq AnyReport
  /\ Capacity \in Nat
  /\ MaxQueue \in Nat

VARIABLES
  held,        \* ids of the page's rows
  dirty,       \* ids touched since the last takeChanged()
  removed,     \* ids that left since the last takeChanged()
  notify,      \* an animation frame is scheduled
  seeded,      \* the grid is mounted, seeded and subscribed
  queue,       \* transactions the grid has not applied yet
  grid,        \* [Ids -> Progress or NoOrder]: the row getRowNode() finds
  hurried      \* history: ids that moved while their add or removal was queued

storeVars == <<held, dirty, removed, notify>>
drawnVars == <<seeded, queue, grid, hurried>>
gridVars == <<progress, size, storeVars, drawnVars>>

Shown(id) == IF id \in held THEN progress[id] ELSE NoOrder

\* ingest(): fold, dirty, markDirty.
Ingest(id) ==
  /\ \E r \in Reports : Fold(id, r)
  /\ held' = held \cup {id}
  /\ dirty' = dirty \cup {id}
  /\ notify' = TRUE
  /\ UNCHANGED <<removed, drawnVars>>

\* reconcile(): the server knows every order, the pruned ones too.
Snapshot ==
  LET known == {id \in Ids : progress[id] # NoOrder}
  IN /\ held' = known
     /\ dirty' = dirty \cup known
     /\ removed' = removed \ known
     /\ notify' = TRUE
     /\ UNCHANGED <<progress, size, drawnVars>>

\* The rows one prune() may take (see OrdersStore).
Prunable ==
  LET retired == {id \in held : progress[id].status \in Terminal}
      excess == Max({0, Cardinality(held) - Capacity})
  IN kSubset(Min({excess, Cardinality(retired)}), retired)

\* Mutant: every changed row is handed over as an update.
TransactionUpdates(changed, gone) ==
  [add |-> {}, update |-> changed, remove |-> gone, rows |-> [id \in changed |-> progress[id]]]

\* The transaction a flush hands to the grid.
Transaction(changed, gone) ==
  LET add == {id \in changed : grid[id] = NoOrder}
  IN [add |-> add, update |-> changed \ add, remove |-> gone,
      rows |-> [id \in changed |-> progress[id]]]

Queued(field) == UNION {queue[i][field] : i \in DOMAIN queue}

\* The frame: prune, and the blotter, once it has subscribed, takes the delta.
Flush ==
  /\ notify
  /\ Len(queue) < MaxQueue
  /\ \E gone \in Prunable :
       LET changed == dirty \ gone
           left == removed \cup gone
       IN /\ held' = held \ gone
          /\ IF seeded
             THEN /\ dirty' = {}
                  /\ removed' = {}
                  /\ queue' = IF changed \cup left = {} THEN queue
                              ELSE Append(queue, Transaction(changed, left))
                  /\ hurried' = hurried \cup (changed \cap (Queued("add") \cup Queued("remove")))
             ELSE /\ dirty' = changed
                  /\ removed' = left
                  /\ UNCHANGED <<queue, hurried>>
  /\ notify' = FALSE
  /\ UNCHANGED <<progress, size, seeded, grid>>

\* The grid is ready: it starts from the whole book, and the delta from there.
Seed ==
  /\ ~seeded
  /\ seeded' = TRUE
  /\ grid' = [id \in Ids |-> Shown(id)]
  /\ dirty' = {}
  /\ removed' = {}
  /\ UNCHANGED <<progress, size, held, notify, queue, hurried>>

\* The grid's part: an update of a row it does not have is lost, and what is both
\* handed over and removed is removed.
Applied(rows, t) ==
  [id \in Ids |->
     IF id \in t.remove THEN NoOrder
     ELSE IF id \in t.add \/ (id \in t.update /\ rows[id] # NoOrder) THEN t.rows[id]
     ELSE rows[id]]

GridDraws ==
  /\ queue # << >>
  /\ grid' = FoldLeft(Applied, grid, queue)
  /\ queue' = << >>
  /\ UNCHANGED <<progress, size, storeVars, seeded, hurried>>

GridInit ==
  /\ FoldInit
  /\ held = {} /\ dirty = {} /\ removed = {}
  /\ notify = FALSE /\ seeded = FALSE
  /\ queue = << >>
  /\ grid = [id \in Ids |-> NoOrder]
  /\ hurried = {}

GridNext ==
  \/ \E id \in Ids : Ingest(id)
  \/ Snapshot
  \/ Flush
  \/ Seed
  \/ GridDraws

GridSpec == GridInit /\ [][GridNext]_gridVars

-----------------------------------------------------------------------------
(* Properties *)

\* What the grid will show once it has drawn its queue is the page's book, row
\* by row, but for the rows of the next delta and for orders that moved again
\* while the grid still owed them an add or a removal (Blotter.tsx 120-130): the
\* split calls those new a second time, or known when they are about to go.
GridIsTheBookLate ==
  seeded => LET drawn == FoldLeft(Applied, grid, queue)
            IN \A id \in Ids \ (dirty \cup removed \cup hurried) : drawn[id] = Shown(id)
=============================================================================
