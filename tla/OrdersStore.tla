---------------------------- MODULE OrdersStore -----------------------------
(***************************************************************************)
(* The browser's order book (apps/web/src/warm/orders.ts): reports fold    *)
(* into rows through the order grammar, the dense per-order eventSeq tells *)
(* duplicates from holes, a snapshot replaces the book wholesale while     *)
(* reports queue, and once a frame the grid takes what changed.            *)
(* The store is a record, its methods are operators from store to store;   *)
(* holes counts the calls of the onResyncNeeded listener.                  *)
(***************************************************************************)
EXTENDS OrderGrammar, SequencesExt

CONSTANTS
  Ids,         \* clOrdIds
  Capacity     \* orders the book keeps

ASSUME StoreAssumption == Capacity \in Nat

\* A row: the progress it shows and the events it contains.
Row == [progress : Progress \cup {NoOrder}, eventSeq : Nat]
NoRow == [progress |-> NoOrder, eventSeq |-> 0]
NoRows == [id \in Ids |-> NoRow]

Held(rows) == {id \in Ids : rows[id] # NoRow}

EmptyStore ==
  [rows |-> NoRows, pending |-> << >>, syncing |-> FALSE, newDay |-> FALSE,
   dirty |-> {}, removed |-> {}, notify |-> FALSE, holes |-> 0, threw |-> FALSE]

-----------------------------------------------------------------------------
(* Reports *)

\* A report the grammar refuses throws and leaves the store as it was.
FoldReport(s, r) ==
  LET next == ApplyReport(s.rows[r.id].progress, r, r.orderQty)
  IN IF next = Refused THEN [s EXCEPT !.threw = TRUE]
     ELSE [s EXCEPT !.newDay = FALSE,
                    !.rows[r.id] = [progress |-> next, eventSeq |-> r.eventSeq],
                    !.dirty = @ \cup {r.id},
                    !.notify = TRUE]

\* Mutant: the last event held counts as new.
IngestNowSameSeq(s, r) ==
  LET known == s.rows[r.id].eventSeq
  IN IF r.eventSeq < known THEN s
     ELSE IF r.eventSeq = known + 1 THEN FoldReport(s, r)
     ELSE [s EXCEPT !.syncing = TRUE, !.pending = Append(@, r), !.holes = @ + 1]

\* Mutant: a report past a hole is folded all the same.
IngestNowOverHoles(s, r) ==
  IF r.eventSeq <= s.rows[r.id].eventSeq THEN s ELSE FoldReport(s, r)

\* A repeat is dropped; a hole starts a resync that waits for a snapshot.
IngestNow(s, r) ==
  LET known == s.rows[r.id].eventSeq
  IN IF r.eventSeq <= known THEN s
     ELSE IF r.eventSeq = known + 1 THEN FoldReport(s, r)
     ELSE [s EXCEPT !.syncing = TRUE, !.pending = Append(@, r), !.holes = @ + 1]

Ingest(s, r) ==
  IF s.syncing THEN [s EXCEPT !.pending = Append(@, r)] ELSE IngestNow(s, r)

BeginResync(s) == [s EXCEPT !.syncing = TRUE]

-----------------------------------------------------------------------------
(* The snapshot *)

\* Mutant: orders the snapshot does not mention stay on the screen.
ReplacedSilently(s, snapshot) ==
  [s EXCEPT !.newDay = Held(s.rows) # {} /\ Held(snapshot) = {},
            !.removed = @ \ Held(snapshot),
            !.dirty = @ \cup Held(snapshot),
            !.rows = snapshot,
            !.syncing = FALSE,
            !.pending = << >>]

\* Wholesale replacement: what the snapshot does not mention is gone.
Replaced(s, snapshot) ==
  [s EXCEPT !.newDay = Held(s.rows) # {} /\ Held(snapshot) = {},
            !.removed = (@ \cup Held(s.rows)) \ Held(snapshot),
            !.dirty = @ \cup Held(snapshot),
            !.rows = snapshot,
            !.syncing = FALSE,
            !.pending = << >>]

\* reconcile(): replace, then drain what queued.  A hole queues the rest again;
\* a throw abandons it.
Reconcile(s, snapshot) ==
  LET drained[i \in 0..Len(s.pending)] ==
        IF i = 0 THEN Replaced([s EXCEPT !.threw = FALSE], snapshot)
        ELSE IF drained[i - 1].threw THEN drained[i - 1]
        ELSE Ingest(drained[i - 1], s.pending[i])
      end == drained[Len(s.pending)]
  IN IF end.threw THEN end ELSE [end EXCEPT !.notify = TRUE]

-----------------------------------------------------------------------------
(* The flush *)

\* prune(): terminal rows leave, the least updatedAt first.  transactTime does not
\* follow the order of publication (a burst stamps rejections ahead), so which
\* rows those are is left open.
Pruned(s, gone) ==
  [s EXCEPT !.rows = [id \in Ids |-> IF id \in gone THEN NoRow ELSE @[id]],
            !.dirty = @ \ gone,
            !.removed = @ \cup gone]

\* Mutant: any row may leave.
RetiredOrLive(s) == Held(s.rows)

Retired(s) == {id \in Held(s.rows) : s.rows[id].progress.status \in Terminal}

\* Sets of rows one prune may take.
Prunable(s) ==
  LET excess == Cardinality(Held(s.rows)) - Capacity
      retired == Retired(s)
  IN IF excess <= 0 THEN {{}}
     ELSE {gone \in SUBSET retired :
             Cardinality(gone) = Min({excess, Cardinality(retired)})}

\* What takeChanged() returns.
Changed(s) == {id \in s.dirty : s.rows[id] # NoRow}

\* takeChanged() and the end of the flush.
Taken(s) == [s EXCEPT !.dirty = {}, !.removed = {}, !.notify = FALSE]

\* The grid's rows after the one transaction it is handed: an id that is both
\* changed and removed is removed.
Drawn(drawn, s) ==
  [id \in Ids |-> IF id \in s.removed THEN NoRow
                  ELSE IF id \in Changed(s) THEN s.rows[id]
                  ELSE drawn[id]]
=============================================================================
