----------------------------- MODULE WarmProofs ------------------------------
(***************************************************************************)
(* The warm plane for any orders, sizes, capacity and bounds.  Ids may be  *)
(* used again; the theorems speak of behaviours in which that happens when *)
(* nothing of the last use is left (mixes = 0; README, what reuse breaks). *)
(*                                                                         *)
(* Inv holds until an id is mixed.  On the server the states follow the    *)
(* engine but for the rejections that wait; every row and every report on  *)
(* its way is true of some day; a snapshot on its way covers all that      *)
(* precedes it; and without a reseed the page mixes days only while it     *)
(* waits for an answer, its queue holding the old day's reports first.     *)
(*                                                                         *)
(* LossInv follows the numbers of each order's events from the server to   *)
(* the page: none is passed over unless the page asks again.               *)
(***************************************************************************)
EXTENDS WarmPlane, FiniteSetTheorems, SequenceTheorems, WellFoundedInduction, TLAPS

-----------------------------------------------------------------------------
(* Induction over a range of numbers *)

\* A set of numbers has a least one.
LEMMA LeastNumber ==
  ASSUME NEW S \in SUBSET Nat, S # {}
  PROVE  \E n \in S : \A k \in S : n <= k
<1> DEFINE R == {p \in Nat \X Nat : p[1] < p[2]}
<1>1. IsWellFoundedOn(R, Nat)
  BY NatLessThanWellFounded DEF OpToRel
<1>2. PICK n \in S : \A k \in S : <<k, n>> \notin R
  <2> HIDE DEF R
  <2> QED BY <1>1, WFMin
<1>3. \A k \in S : ~(k < n)
  BY <1>2
<1> QED BY <1>3

\* A set that holds 0 and, up to n, the number after each of its own holds 0..n.
LEMMA StepByStep ==
  ASSUME NEW n \in Nat, NEW S, 0 \in S, \A i \in 1..n : i - 1 \in S => i \in S
  PROVE  \A i \in 0..n : i \in S
<1> DEFINE Bad == {i \in 0..n : i \notin S}
<1>1. SUFFICES ASSUME Bad # {} PROVE FALSE
  OBVIOUS
<1>2. PICK m \in Bad : \A k \in Bad : m <= k
  <2>1. Bad \subseteq Nat
    OBVIOUS
  <2> HIDE DEF Bad
  <2> QED BY <1>1, <2>1, LeastNumber
<1>3. m \in 1..n /\ m - 1 \in 0..n
  OBVIOUS
<1>4. m - 1 \notin Bad
  <2> HIDE DEF Bad
  <2> QED BY <1>2, <1>3
<1> QED BY <1>3, <1>4

\* f is what n steps make of base, every step within D.
Steps(n, D) == [D -> [1..n -> D]]

IsRunOf(f, n, D, base, step) ==
  /\ f \in [0..n -> D]
  /\ f[0] = base
  /\ \A i \in 1..n : f[i] = step[f[i - 1]][i]

\* A recursion whose values stay in D has a solution.
LEMMA RecursionExists ==
  ASSUME NEW n \in Nat, NEW D, NEW base \in D, NEW step \in Steps(n, D)
  PROVE  \E f : IsRunOf(f, n, D, base, step)
<1> USE DEF Steps
<1> DEFINE IsRun(f, k) == /\ f \in [0..k -> D]
                          /\ f[0] = base
                          /\ \A i \in 1..k : f[i] = step[f[i - 1]][i]
           S == {k \in 0..n : \E f : IsRun(f, k)}
<1>1. 0 \in S
  <2>1. IsRun([i \in 0..0 |-> base], 0)
    OBVIOUS
  <2>2. \E f : IsRun(f, 0)
    <3> HIDE DEF IsRun
    <3> QED BY <2>1
  <2> QED BY <2>2
<1>2. ASSUME NEW k \in 1..n, k - 1 \in S
      PROVE  k \in S
  <2>1. PICK f : IsRun(f, k - 1)
    BY <1>2
  <2>2. k - 1 \in 0..(k - 1) /\ f[k - 1] \in D
    BY <2>1
  <2>3. step[f[k - 1]][k] \in D
    BY <2>2
  <2> DEFINE g == [i \in 0..k |-> IF i = k THEN step[f[k - 1]][k] ELSE f[i]]
  <2>4. \A i \in 0..k : i # k => i \in 0..(k - 1)
    OBVIOUS
  <2>5. g \in [0..k -> D]
    BY <2>1, <2>3, <2>4
  <2>6. g[0] = base
    BY <2>1
  <2>7. \A i \in 1..k : g[i] = step[g[i - 1]][i]
    <3> TAKE i \in 1..k
    <3>1. i - 1 \in 0..k /\ i - 1 # k /\ g[i - 1] = f[i - 1]
      OBVIOUS
    <3>2. CASE i = k
      BY <3>1, <3>2
    <3>3. CASE i # k
      <4>1. i \in 1..(k - 1) /\ g[i] = f[i]
        BY <3>3
      <4> QED BY <2>1, <3>1, <4>1
    <3> QED BY <3>2, <3>3
  <2>8. IsRun(g, k)
    BY <2>5, <2>6, <2>7
  <2> HIDE DEF IsRun
  <2> QED BY <2>8
<1>3. n \in S
  <2> HIDE DEF S
  <2>1. \A k \in 0..n : k \in S
    BY <1>1, <1>2, StepByStep
  <2> QED BY <2>1
<1>4. PICK f : IsRun(f, n)
  BY <1>3
<1>5. IsRunOf(f, n, D, base, step)
  BY <1>4 DEF IsRunOf
<1> QED BY <1>5

-----------------------------------------------------------------------------
(* One report on the page *)

\* A report on its way: what the validator looks at, its order and its number.
WireReport ==
  [id : Ids, execType : ExecType, ordStatus : OrdStatus, priced : BOOLEAN,
   lastQty : Int, cumQty : Int, leavesQty : Int, rejectReason : RejectReason \cup {NoReason},
   eventSeq : Nat, orderQty : Nat]

Store ==
  [rows : [Ids -> Row], pending : Seq(WireReport), syncing : BOOLEAN, newDay : BOOLEAN,
   dirty : SUBSET Ids, removed : SUBSET Ids, notify : BOOLEAN, holes : Nat, threw : BOOLEAN]

LEMMA SentinelsAreNoProgress ==
  /\ NoOrder \notin Progress /\ Refused \notin Progress /\ NoOrder # Refused
  BY DEF NoOrder, Refused, Progress, OrdStatus, Terminal, Live

LEMMA RowTypes ==
  /\ NoRow \in Row
  /\ \A p \in Progress, n \in Nat : [progress |-> p, eventSeq |-> n] \in Row
  /\ \A p \in Progress, n \in Nat : [progress |-> p, eventSeq |-> n] # NoRow
  BY SentinelsAreNoProgress DEF Row, NoRow

\* What the grammar makes of any report is a progress, or refused.
LEMMA FoldsToProgress ==
  ASSUME NEW p, NEW r \in WireReport, NEW qty
  PROVE  ApplyReport(p, r, qty) \in Progress \cup {Refused}
  BY DEF ApplyReport, WireReport, Progress

\* What folding one report does to the store, field by field.
IsFolded(s, r, f, next) ==
  /\ f.rows = [s.rows EXCEPT ![r.id] = [progress |-> next, eventSeq |-> r.eventSeq]]
  /\ f.dirty = s.dirty \cup {r.id}
  /\ f.notify = TRUE
  /\ f.removed = s.removed
  /\ f.pending = s.pending
  /\ f.syncing = s.syncing
  /\ f.holes = s.holes
  /\ f.threw = s.threw

LEMMA Folded ==
  ASSUME NEW s \in Store, NEW r \in WireReport, NEW next \in Progress,
         next = ApplyReport(s.rows[r.id].progress, r, r.orderQty)
  PROVE  FoldReport(s, r) \in Store /\ IsFolded(s, r, FoldReport(s, r), next)
<1>1. FoldReport(s, r) = [s EXCEPT !.newDay = FALSE,
                    !.rows[r.id] = [progress |-> next, eventSeq |-> r.eventSeq],
                    !.dirty = @ \cup {r.id},
                    !.notify = TRUE]
   BY SentinelsAreNoProgress DEF FoldReport
<1>2. [progress |-> next, eventSeq |-> r.eventSeq] \in Row /\ r.id \in Ids
  BY RowTypes DEF WireReport
<1> DEFINE row == [progress |-> next, eventSeq |-> r.eventSeq]
           ids == s.dirty \cup {r.id}
<1>3. PICK ro : ro = row
  OBVIOUS
<1>4. FoldReport(s, r) = [s EXCEPT !.newDay = FALSE, !.rows = [s.rows EXCEPT ![r.id] = ro],
                            !.dirty = s.dirty \cup {r.id}, !.notify = TRUE]
  BY <1>1, <1>3
<1>5. PICK d, rr : d = ids /\ rr = [s.rows EXCEPT ![r.id] = ro]
  OBVIOUS
<1>6. FoldReport(s, r) = [s EXCEPT !.newDay = FALSE, !.rows = rr,
                            !.dirty = d, !.notify = TRUE]
  BY <1>4, <1>5
<1>7. rr \in [Ids -> Row] /\ d \in SUBSET Ids
  BY <1>2, <1>3, <1>5 DEF Store
<1>8. FoldReport(s, r) = [rows |-> rr, pending |-> s.pending, syncing |-> s.syncing, newDay |-> FALSE,
         dirty |-> d, removed |-> s.removed, notify |-> TRUE, holes |-> s.holes, threw |-> s.threw]
  BY <1>6 DEF Store
<1> QED BY <1>3, <1>5, <1>7, <1>8 DEF Store, IsFolded

LEMMA FoldRefused ==
  ASSUME NEW s \in Store, NEW r \in WireReport,
         ApplyReport(s.rows[r.id].progress, r, r.orderQty) = Refused
  PROVE  FoldReport(s, r) \in Store
  BY DEF FoldReport, Store

\* A report queues; with a hole the listener is called.
IsQueued(s, r, f) ==
  /\ f.pending = Append(s.pending, r)
  /\ f.syncing = TRUE
  /\ f.rows = s.rows
  /\ f.dirty = s.dirty
  /\ f.removed = s.removed
  /\ f.notify = s.notify
  /\ f.threw = s.threw

LEMMA Queued ==
  ASSUME NEW s \in Store, NEW r \in WireReport, s.syncing
  PROVE  /\ Ingest(s, r) \in Store
         /\ IsQueued(s, r, Ingest(s, r))
         /\ Ingest(s, r).holes = s.holes
<1>1. PICK p : p = Append(s.pending, r)
  OBVIOUS
<1>2. Ingest(s, r) = [s EXCEPT !.pending = p]
  BY <1>1 DEF Ingest
<1>3. p \in Seq(WireReport)
  BY <1>1 DEF Store
<1> QED BY <1>1, <1>2, <1>3 DEF Store, IsQueued

LEMMA Holed ==
  ASSUME NEW s \in Store, NEW r \in WireReport, ~s.syncing,
         r.eventSeq > s.rows[r.id].eventSeq + 1
  PROVE  /\ Ingest(s, r) \in Store
         /\ IsQueued(s, r, Ingest(s, r))
         /\ Ingest(s, r).holes = s.holes + 1
<1>1. PICK p, h : p = Append(s.pending, r) /\ h = s.holes + 1
  OBVIOUS
<1>2. s.rows[r.id].eventSeq \in Nat /\ r.eventSeq \in Nat
  BY DEF Store, Row, WireReport
<1>3. Ingest(s, r) = [s EXCEPT !.syncing = TRUE, !.pending = p, !.holes = h]
  BY <1>1, <1>2 DEF Ingest, IngestNow
<1>4. p \in Seq(WireReport) /\ h \in Nat
  BY <1>1 DEF Store
<1>5. Ingest(s, r) = [rows |-> s.rows, pending |-> p, syncing |-> TRUE, newDay |-> s.newDay,
         dirty |-> s.dirty, removed |-> s.removed, notify |-> s.notify, holes |-> h, threw |-> s.threw]
  BY <1>3 DEF Store
<1> QED BY <1>1, <1>4, <1>5 DEF Store, IsQueued

LEMMA IngestType ==
  ASSUME NEW s \in Store, NEW r \in WireReport
  PROVE  Ingest(s, r) \in Store
<1>1. CASE s.syncing
  BY <1>1, Queued
<1>2. CASE ~s.syncing /\ r.eventSeq <= s.rows[r.id].eventSeq
  BY <1>2 DEF Ingest, IngestNow
<1>3. CASE ~s.syncing /\ r.eventSeq = s.rows[r.id].eventSeq + 1
  <2>1. Ingest(s, r) = FoldReport(s, r)
    BY <1>3 DEF Ingest, IngestNow, Store, Row, WireReport
  <2> QED BY <2>1, Folded, FoldRefused, FoldsToProgress
<1>4. CASE ~s.syncing /\ r.eventSeq > s.rows[r.id].eventSeq + 1
  BY <1>4, Holed
<1>5. s.rows[r.id].eventSeq \in Nat /\ r.eventSeq \in Nat
  BY DEF Store, Row, WireReport
<1> QED BY <1>1, <1>2, <1>3, <1>4, <1>5

\* What a snapshot does to the store, field by field.
IsReplaced(s, snapshot, f) ==
  /\ f.rows = snapshot
  /\ f.removed = (s.removed \cup Held(s.rows)) \ Held(snapshot)
  /\ f.dirty = s.dirty \cup Held(snapshot)
  /\ f.syncing = FALSE
  /\ f.pending = << >>
  /\ f.holes = s.holes
  /\ f.threw = FALSE

LEMMA ReplacedFields ==
  ASSUME NEW s \in Store, NEW snapshot \in [Ids -> Row]
  PROVE  LET f == Replaced([s EXCEPT !.threw = FALSE], snapshot)
         IN f \in Store /\ IsReplaced(s, snapshot, f)
<1> DEFINE c == [s EXCEPT !.threw = FALSE]
<1>1. /\ c.rows = s.rows /\ c.removed = s.removed /\ c.dirty = s.dirty
      /\ c.holes = s.holes /\ c.threw = FALSE /\ c \in Store
  BY DEF Store
<1> HIDE DEF c
<1>2. PICK day, gone, touched :
        /\ day = (Held(c.rows) # {} /\ Held(snapshot) = {})
        /\ gone = (c.removed \cup Held(c.rows)) \ Held(snapshot)
        /\ touched = c.dirty \cup Held(snapshot)
  OBVIOUS
<1>3. Replaced(c, snapshot) =
        [c EXCEPT !.newDay = day, !.removed = gone, !.dirty = touched, !.rows = snapshot,
                  !.syncing = FALSE, !.pending = << >>]
  BY <1>2 DEF Replaced
<1>4. Replaced(c, snapshot) =
        [rows |-> snapshot, pending |-> << >>, syncing |-> FALSE, newDay |-> day,
         dirty |-> touched, removed |-> gone, notify |-> c.notify, holes |-> c.holes,
         threw |-> c.threw]
  BY <1>1, <1>3 DEF Store
<1>5. /\ day \in BOOLEAN /\ gone \in SUBSET Ids /\ touched \in SUBSET Ids
      /\ << >> \in Seq(WireReport)
  BY <1>1, <1>2 DEF Store, Held
<1>6. Replaced(c, snapshot) \in Store
  BY <1>1, <1>4, <1>5 DEF Store
<1>7. IsReplaced(s, snapshot, Replaced(c, snapshot))
  BY <1>1, <1>2, <1>4 DEF IsReplaced
<1> QED BY <1>6, <1>7 DEF c

-----------------------------------------------------------------------------
(* The reconcile, step by step *)

\* The stores a reconcile goes through, report by report.
Drains(f, s, snapshot) ==
  /\ f \in [0..Len(s.pending) -> Store]
  /\ f[0] = Replaced([s EXCEPT !.threw = FALSE], snapshot)
  /\ \A i \in 1..Len(s.pending) :
       f[i] = IF f[i - 1].threw THEN f[i - 1] ELSE Ingest(f[i - 1], s.pending[i])

LEMMA ReconcileDrains ==
  ASSUME NEW s \in Store, NEW snapshot \in [Ids -> Row]
  PROVE  \E f : /\ Drains(f, s, snapshot)
                /\ LET end == f[Len(s.pending)]
                   IN Reconcile(s, snapshot) = IF end.threw THEN end
                                               ELSE [end EXCEPT !.notify = TRUE]
<1> DEFINE q == s.pending
           base == Replaced([s EXCEPT !.threw = FALSE], snapshot)
           stepped(x, i) == IF x.threw THEN x ELSE Ingest(x, q[i])
           drained == CHOOSE drained : drained = [i \in 0..Len(q) |->
             IF i = 0 THEN base ELSE IF drained[i - 1].threw THEN drained[i - 1]
                                     ELSE Ingest(drained[i - 1], q[i])]
<1>1. q \in Seq(WireReport) /\ Len(q) \in Nat
  BY DEF Store
<1>2. base \in Store
  BY ReplacedFields
<1>3. Reconcile(s, snapshot) =
        LET end == drained[Len(q)]
        IN IF end.threw THEN end ELSE [end EXCEPT !.notify = TRUE]
  BY DEF Reconcile
<1> HIDE DEF base
<1>4. \A x \in Store, i \in 1..Len(q) : stepped(x, i) \in Store
  BY <1>1, IngestType
<1>5. \E f \in [0..Len(q) -> Store] :
        /\ f[0] = base
        /\ \A i \in 1..Len(q) : f[i] = stepped(f[i - 1], i)
  <2> HIDE DEF stepped, q
  <2> DEFINE step == [x \in Store |-> [i \in 1..Len(q) |-> stepped(x, i)]]
  <2>1. step \in [Store -> [1..Len(q) -> Store]]
    BY <1>4
  <2>2. \A x \in Store, i \in 1..Len(q) : step[x][i] = stepped(x, i)
    OBVIOUS
  <2> HIDE DEF step
  <2>3. PICK f \in [0..Len(q) -> Store] :
          f[0] = base /\ \A i \in 1..Len(q) : f[i] = step[f[i - 1]][i]
    <3>1. step \in Steps(Len(q), Store)
      BY <2>1 DEF Steps
    <3>2. PICK f : IsRunOf(f, Len(q), Store, base, step)
      BY <1>1, <1>2, <3>1, RecursionExists
    <3> QED BY <3>2 DEF IsRunOf
  <2>4. \A i \in 1..Len(q) : i - 1 \in 0..Len(q) /\ f[i - 1] \in Store
    BY <1>1
  <2> QED BY <2>2, <2>3, <2>4
<1>6. drained = [i \in 0..Len(q) |->
             IF i = 0 THEN base ELSE IF drained[i - 1].threw THEN drained[i - 1]
                                     ELSE Ingest(drained[i - 1], q[i])]
  <2>1. PICK f \in [0..Len(q) -> Store] :
        /\ f[0] = base
        /\ \A i \in 1..Len(q) : f[i] = stepped(f[i - 1], i)
    BY <1>5
  <2>2. f = [i \in 0..Len(q) |->
             IF i = 0 THEN base ELSE IF f[i - 1].threw THEN f[i - 1]
                                     ELSE Ingest(f[i - 1], q[i])]
    <3>1. \A i \in 0..Len(q) : i # 0 => i \in 1..Len(q)
      BY <1>1
    <3>2. \A i \in 0..Len(q) :
            f[i] = IF i = 0 THEN base ELSE IF f[i - 1].threw THEN f[i - 1]
                                     ELSE Ingest(f[i - 1], q[i])
      BY <2>1, <3>1
    <3> HIDE DEF stepped, q
    <3> QED BY <2>1, <3>2
  <2> HIDE DEF q
  <2> QED BY <2>2
<1> HIDE DEF drained
<1>7. drained[0] = base
  BY <1>1, <1>6
<1>8. \A i \in 1..Len(q) : drained[i] = stepped(drained[i - 1], i)
  <2> TAKE i \in 1..Len(q)
  <2>1. i \in 0..Len(q) /\ i # 0
    BY <1>1
  <2> HIDE DEF q
  <2> QED BY <1>6, <2>1
<1>9. drained \in [0..Len(q) -> Store]
  <2> DEFINE S == {i \in 0..Len(q) : drained[i] \in Store}
  <2>1. 0 \in S
    BY <1>1, <1>2, <1>7
  <2>2. \A i \in 1..Len(q) : i - 1 \in S => i \in S
    BY <1>1, <1>4, <1>8
  <2>3. \A i \in 0..Len(q) : i \in S
    <3> HIDE DEF S, q
    <3> QED BY <1>1, <2>1, <2>2, StepByStep
  <2>4. \A i \in 0..Len(q) : drained[i] \in Store
    BY <2>3
  <2> HIDE DEF q, S
  <2> QED BY <1>6, <2>4
<1>10. Drains(drained, s, snapshot)
  BY <1>7, <1>8, <1>9 DEF Drains, base
<1> QED BY <1>3, <1>10

-----------------------------------------------------------------------------
(* True rows and true reports *)

\* The row of an order whose events these are, and its progress before the n-th.
StateAfter(events) ==
  IF events = << >> THEN NoRow
  ELSE [progress |-> events[Len(events)], eventSeq |-> Len(events)]

Before(events, n) == IF n = 1 THEN NoOrder ELSE events[n - 1]

\* A row shows the order as it was after some of these events, and a report is
\* the one that brought one of them about.
RowAt(row, events) ==
  row # NoRow => /\ row.eventSeq \in 1..Len(events)
                 /\ row.progress = events[row.eventSeq]

ReportAt(r, qty, events) ==
  /\ r.eventSeq \in 1..Len(events)
  /\ ApplyReport(Before(events, r.eventSeq), r, qty) = events[r.eventSeq]

Days == 1..Today

DaysType == days \in Seq([Ids -> Seq(Progress)]) /\ days # << >>

\* No id is used on two days.
OneDayEach ==
  \A d \in Days, e \in Days, id \in Ids :
    days[d][id] # << >> /\ days[e][id] # << >> => d = e

\* Of some day.
TrueReport(r) == \E d \in Days : ReportAt(r, r.orderQty, days[d][r.id])
TrueRow(row, id) == \E d \in Days : RowAt(row, days[d][id])

LEMMA DayTypes ==
  ASSUME DaysType
  PROVE  /\ Today \in Nat /\ Today \in Days
         /\ \A d \in Days, id \in Ids :
              /\ days[d][id] \in Seq(Progress)
              /\ Len(days[d][id]) \in Nat
              /\ \A n \in 1..Len(days[d][id]) : days[d][id][n] \in Progress
  BY DEF DaysType, Today, Days

\* A row that is not empty has a number.
LEMMA RowNumber ==
  ASSUME NEW row \in Row, NEW events \in Seq(Progress), RowAt(row, events)
  PROVE  row.eventSeq = 0 <=> row = NoRow
  BY DEF RowAt, NoRow, Row

\* A true report that is the next one for a true row continues it.
LEMMA NextIsAccepted ==
  ASSUME DaysType, OneDayEach,
         NEW r \in WireReport, TrueReport(r),
         NEW row \in Row, TrueRow(row, r.id),
         r.eventSeq = row.eventSeq + 1
  PROVE  \E next \in Progress :
           /\ next = ApplyReport(row.progress, r, r.orderQty)
           /\ TrueRow([progress |-> next, eventSeq |-> r.eventSeq], r.id)
<1>1. PICK d \in Days : ReportAt(r, r.orderQty, days[d][r.id])
  BY DEF TrueReport
<1>2. PICK e \in Days : RowAt(row, days[e][r.id])
  BY DEF TrueRow
<1> DEFINE events == days[d][r.id]
           n == r.eventSeq
<1>3. r.id \in Ids /\ n \in Nat /\ row.eventSeq \in Nat
  BY DEF WireReport, Row
<1>4. /\ events \in Seq(Progress) /\ Len(events) \in Nat
      /\ \A i \in 1..Len(events) : events[i] \in Progress
      /\ days[e][r.id] \in Seq(Progress) /\ Len(days[e][r.id]) \in Nat
  BY <1>3, DayTypes
<1>5. n \in 1..Len(events) /\ ApplyReport(Before(events, n), r, r.orderQty) = events[n]
  BY <1>1 DEF ReportAt
<1>6. row.progress = Before(events, n)
  <2>1. CASE row = NoRow
    <3>1. n = 1 /\ row.progress = NoOrder
      BY <1>3, <2>1 DEF NoRow
    <3> QED BY <3>1 DEF Before
  <2>2. CASE row # NoRow
    <3>1. /\ row.eventSeq \in 1..Len(days[e][r.id])
          /\ row.progress = days[e][r.id][row.eventSeq]
      BY <1>2, <2>2 DEF RowAt
    <3>2. days[e][r.id] # << >> /\ events # << >>
      BY <1>4, <1>5, <3>1
    <3>3. d = e
      BY <1>3, <3>2 DEF OneDayEach
    <3>4. n # 1 /\ row.eventSeq = n - 1
      BY <1>3, <3>1
    <3> QED BY <3>1, <3>3, <3>4 DEF Before
  <2> QED BY <2>1, <2>2
<1>7. events[n] = ApplyReport(row.progress, r, r.orderQty) /\ events[n] \in Progress
  BY <1>4, <1>5, <1>6
<1>8. RowAt([progress |-> events[n], eventSeq |-> n], events)
  BY <1>5 DEF RowAt
<1>9. TrueRow([progress |-> events[n], eventSeq |-> n], r.id)
  BY <1>8 DEF TrueRow
<1> QED BY <1>7, <1>9

\* What one report does to a true store.
LEMMA Ingested ==
  ASSUME DaysType, OneDayEach,
         NEW s \in Store, NEW r \in WireReport, TrueReport(r),
         TrueRow(s.rows[r.id], r.id), ~s.threw
  PROVE  LET f == Ingest(s, r)
             known == s.rows[r.id].eventSeq
         IN /\ f \in Store /\ ~f.threw
            /\ s.syncing => IsQueued(s, r, f) /\ f.holes = s.holes
            /\ ~s.syncing /\ r.eventSeq <= known => f = s
            /\ ~s.syncing /\ r.eventSeq = known + 1 =>
                 \E next \in Progress :
                   /\ IsFolded(s, r, f, next)
                   /\ TrueRow([progress |-> next, eventSeq |-> r.eventSeq], r.id)
            /\ ~s.syncing /\ r.eventSeq > known + 1 =>
                 IsQueued(s, r, f) /\ f.holes = s.holes + 1 /\ r.eventSeq >= 2
<1> DEFINE f == Ingest(s, r)
           known == s.rows[r.id].eventSeq
<1>1. f \in Store
  BY IngestType
<1>2. r.id \in Ids /\ s.rows[r.id] \in Row /\ known \in Nat /\ r.eventSeq \in Nat
  BY DEF WireReport, Store, Row
<1>3. ASSUME s.syncing
      PROVE  IsQueued(s, r, f) /\ f.holes = s.holes
  BY <1>3, Queued
<1>4. ASSUME ~s.syncing, r.eventSeq <= known
      PROVE  f = s
  BY <1>4 DEF Ingest, IngestNow
<1>5. ASSUME ~s.syncing, r.eventSeq = known + 1
      PROVE  \E next \in Progress :
               /\ IsFolded(s, r, f, next)
               /\ TrueRow([progress |-> next, eventSeq |-> r.eventSeq], r.id)
  <2>1. PICK next \in Progress :
          /\ next = ApplyReport(s.rows[r.id].progress, r, r.orderQty)
          /\ TrueRow([progress |-> next, eventSeq |-> r.eventSeq], r.id)
    BY <1>2, <1>5, NextIsAccepted
  <2>2. f = FoldReport(s, r)
    BY <1>2, <1>5 DEF Ingest, IngestNow
  <2>3. IsFolded(s, r, f, next)
    BY <2>1, <2>2, Folded
  <2> QED BY <2>1, <2>3
<1>6. ASSUME ~s.syncing, r.eventSeq > known + 1
      PROVE  IsQueued(s, r, f) /\ f.holes = s.holes + 1 /\ r.eventSeq >= 2
  BY <1>2, <1>6, Holed
<1>7. ~f.threw
  <2>1. CASE s.syncing
    BY <1>3, <2>1 DEF IsQueued
  <2>2. CASE ~s.syncing /\ r.eventSeq <= known
    BY <1>4, <2>2
  <2>3. CASE ~s.syncing /\ r.eventSeq = known + 1
    BY <1>5, <2>3 DEF IsFolded
  <2>4. CASE ~s.syncing /\ r.eventSeq > known + 1
    BY <1>6, <2>4 DEF IsQueued
  <2> QED BY <1>2, <2>1, <2>2, <2>3, <2>4
<1> QED BY <1>1, <1>3, <1>4, <1>5, <1>6, <1>7

-----------------------------------------------------------------------------
(* Draining what has queued *)

\* Of a day that is over.
Old(r) == meta[r.id] = 0
OfToday(rows) == \A id \in Ids : rows[id] # NoRow => meta[id] # 0

\* Reports of the old day wait before those of the new one, and a queue that
\* still has some begins with one that no snapshot of the new day continues.
OldFirst(q) == \A i, j \in DOMAIN q : i < j /\ Old(q[j]) => Old(q[i])
PendingFine(q) ==
  \/ \A i \in DOMAIN q : ~Old(q[i])
  \/ q # << >> /\ Old(q[1]) /\ q[1].eventSeq >= 2

\* The snapshot has every report of the day that waits.
Told(q, snapshot) ==
  \A i \in DOMAIN q : ~Old(q[i]) => q[i].eventSeq <= snapshot[q[i].id].eventSeq

\* x holds the k-th to the i-th report of q.
Waiting(p, q, k, i) ==
  /\ Len(p) = i - k + 1
  /\ \A j \in 1..(i - k + 1) : p[j] = q[k + j - 1]

\* A store on the way through a reconcile, i reports on.
Draining(x, i, s, snapshot) ==
  LET q == s.pending
  IN /\ ~x.threw
     /\ \A id \in Ids : TrueRow(x.rows[id], id)
     /\ \A id \in Ids : meta[id] # 0 => x.rows[id] = snapshot[id]
     /\ x.syncing => /\ x.holes >= s.holes + 1
                     /\ \E k \in 1..i : Waiting(x.pending, q, k, i) /\ q[k].eventSeq >= 2
     /\ ~x.syncing => x.holes = s.holes /\ x.pending = << >>
     /\ OfToday(snapshot) /\ PendingFine(q) =>
          /\ x.rows = snapshot
          /\ i >= 1 /\ Old(q[1]) => x.syncing

LEMMA DrainStarts ==
  ASSUME NEW s \in Store, NEW snapshot \in [Ids -> Row],
         \A id \in Ids : TrueRow(snapshot[id], id),
         NEW x, IsReplaced(s, snapshot, x), x \in Store
  PROVE  Draining(x, 0, s, snapshot)
  BY DEF Draining, IsReplaced

LEMMA DrainGoesOn ==
  ASSUME DaysType, OneDayEach, NEW s \in Store, NEW snapshot \in [Ids -> Row],
         \A i \in DOMAIN s.pending : TrueReport(s.pending[i]),
         Told(s.pending, snapshot),
         NEW i \in 1..Len(s.pending), NEW x \in Store, Draining(x, i - 1, s, snapshot)
  PROVE  Draining(Ingest(x, s.pending[i]), i, s, snapshot)
<1> DEFINE q == s.pending
           r == q[i]
           known == x.rows[r.id].eventSeq
           f == Ingest(x, r)
<1>1. /\ q \in Seq(WireReport) /\ Len(q) \in Nat /\ DOMAIN q = 1..Len(q)
      /\ i \in 1..Len(q) /\ i \in Nat /\ i - 1 \in Nat
      /\ r \in WireReport /\ r.id \in Ids /\ r.eventSeq \in Nat
  <2>1. q \in Seq(WireReport)
    BY DEF Store
  <2>2. r \in WireReport
    BY <2>1
  <2>3. r.id \in Ids /\ r.eventSeq \in Nat
    BY <2>2 DEF WireReport
  <2> QED BY <2>1, <2>2, <2>3
<1>2. /\ x.rows \in [Ids -> Row] /\ known \in Nat /\ x.pending \in Seq(WireReport)
      /\ x.dirty \subseteq Ids /\ x.holes \in Nat /\ s.holes \in Nat
      /\ x.syncing \in BOOLEAN
  BY <1>1 DEF Store, Row
<1>3. /\ f \in Store /\ ~f.threw
      /\ x.syncing => IsQueued(x, r, f) /\ f.holes = x.holes
      /\ ~x.syncing /\ r.eventSeq <= known => f = x
      /\ ~x.syncing /\ r.eventSeq = known + 1 =>
           \E next \in Progress :
             /\ IsFolded(x, r, f, next)
             /\ TrueRow([progress |-> next, eventSeq |-> r.eventSeq], r.id)
      /\ ~x.syncing /\ r.eventSeq > known + 1 =>
           IsQueued(x, r, f) /\ f.holes = x.holes + 1 /\ r.eventSeq >= 2
  <2>1. TrueReport(r) /\ TrueRow(x.rows[r.id], r.id) /\ ~x.threw
    BY <1>1 DEF Draining
  <2> HIDE DEF r
  <2> QED BY <1>1, <2>1, Ingested
\* A report of the day repeats what the snapshot has.
<1>4. ~Old(r) => x.rows[r.id] = snapshot[r.id] /\ r.eventSeq <= known
  BY <1>1 DEF Draining, Told, Old
<1>5. OfToday(snapshot) /\ PendingFine(q) => x.rows = snapshot /\ (i - 1 >= 1 /\ Old(q[1]) => x.syncing)
  BY DEF Draining
<1>6. /\ \A id \in Ids : TrueRow(x.rows[id], id)
      /\ \A id \in Ids : meta[id] # 0 => x.rows[id] = snapshot[id]
      /\ x.syncing => /\ x.holes >= s.holes + 1
                      /\ \E k \in 1..(i - 1) : Waiting(x.pending, q, k, i - 1) /\ q[k].eventSeq >= 2
      /\ ~x.syncing => x.holes = s.holes /\ x.pending = << >>
  BY DEF Draining
<1> SUFFICES Draining(f, i, s, snapshot)
  OBVIOUS
<1> HIDE DEF r, q, f, known
<1>7. CASE x.syncing
  <2>1. IsQueued(x, r, f) /\ f.holes = x.holes
    BY <1>3, <1>7
  <2>3. PICK k \in 1..(i - 1) : Waiting(x.pending, q, k, i - 1) /\ q[k].eventSeq >= 2
    BY <1>6, <1>7
  <2>4. k \in 1..i /\ Waiting(f.pending, q, k, i)
    <3>1. k \in Nat /\ k <= i - 1 /\ k >= 1
      BY <1>1
    <3>2. f.pending = Append(x.pending, r)
      BY <2>1 DEF IsQueued
    <3>3. Len(x.pending) = i - k
      BY <1>1, <2>3, <3>1 DEF Waiting
    <3>4. Len(f.pending) = i - k + 1 /\ f.pending[i - k + 1] = r
      <4>1. Len(f.pending) = Len(x.pending) + 1 /\ f.pending[Len(x.pending) + 1] = r
        BY <1>1, <1>2, <3>2
      <4> QED BY <3>3, <4>1
    <3>5. \A j \in 1..(i - k) : f.pending[j] = x.pending[j] /\ x.pending[j] = q[k + j - 1]
      <4>1. \A j \in 1..(i - k) : f.pending[j] = x.pending[j]
        BY <1>1, <1>2, <3>2, <3>3
      <4>2. (i - 1) - k + 1 = i - k
        BY <1>1, <3>1
      <4> QED BY <2>3, <4>1, <4>2 DEF Waiting
    <3>6. r = q[i] /\ k + (i - k + 1) - 1 = i
      BY <1>1, <3>1 DEF r
    <3>7. \A j \in 1..(i - k + 1) : j \in 1..(i - k) \/ j = i - k + 1
      BY <1>1, <3>1
    <3>8. \A j \in 1..(i - k + 1) : f.pending[j] = q[k + j - 1]
      <4> TAKE j \in 1..(i - k + 1)
      <4>1. CASE j = i - k + 1
        BY <3>4, <3>6, <4>1
      <4>2. CASE j \in 1..(i - k)
        BY <3>5, <4>2
      <4> QED BY <3>7, <4>1, <4>2
    <3>9. k \in 1..i
      BY <1>1, <3>1
    <3> QED BY <3>4, <3>8, <3>9 DEF Waiting
  <2> QED BY <1>3, <1>5, <1>6, <1>7, <2>1, <2>3, <2>4 DEF Draining, IsQueued, q
<1>8. CASE ~x.syncing /\ r.eventSeq <= known
  <2>1. f = x
    BY <1>3, <1>8
  <2>2. ASSUME OfToday(snapshot), PendingFine(q) PROVE i >= 1 /\ Old(q[1]) => x.syncing
    <3>1. SUFFICES ASSUME Old(q[1]) PROVE FALSE
      OBVIOUS
    <3>2. i = 1
      BY <1>1, <1>5, <1>8, <2>2, <3>1
    <3>3. q # << >> /\ q[1].eventSeq >= 2
      BY <1>1, <2>2, <3>1 DEF PendingFine
    <3>4. r = q[1]
      BY <3>2 DEF r
    <3>5. known = 0
      BY <1>1, <1>5, <2>2, <3>1, <3>4 DEF OfToday, Old, NoRow, known
    <3> QED BY <1>1, <1>8, <3>3, <3>4, <3>5
  <2> QED BY <1>3, <1>5, <1>6, <1>8, <2>1, <2>2 DEF Draining, q
<1>9. CASE ~x.syncing /\ r.eventSeq = known + 1
  <2>1. PICK next \in Progress :
             /\ IsFolded(x, r, f, next)
             /\ TrueRow([progress |-> next, eventSeq |-> r.eventSeq], r.id)
    BY <1>3, <1>9
  <2>2. Old(r)
    BY <1>1, <1>2, <1>4, <1>9
  <2> DEFINE row == [progress |-> next, eventSeq |-> r.eventSeq]
  <2>3. row # NoRow /\ f.rows = [x.rows EXCEPT ![r.id] = row]
    BY <1>1, <2>1, RowTypes DEF IsFolded
  <2>4. TrueRow(row, r.id)
    BY <2>1
  <2> HIDE DEF row
  <2>5. \A id \in Ids : TrueRow(f.rows[id], id)
    BY <1>1, <1>2, <1>6, <2>3, <2>4
  <2>7. \A id \in Ids : meta[id] # 0 => f.rows[id] = snapshot[id]
    BY <1>1, <1>2, <1>6, <2>2, <2>3 DEF Old
  <2>8. ~(OfToday(snapshot) /\ PendingFine(q))
    <3>1. SUFFICES ASSUME OfToday(snapshot), PendingFine(q) PROVE FALSE
      OBVIOUS
    <3>2. q # << >> /\ Old(q[1]) /\ q[1].eventSeq >= 2
      BY <1>1, <2>2, <3>1 DEF PendingFine, r
    <3>3. i = 1
      BY <1>1, <1>5, <1>9, <3>1, <3>2
    <3>4. r = q[1]
      BY <3>3 DEF r
    <3>5. known = 0
      BY <1>1, <1>5, <2>2, <3>1 DEF OfToday, Old, NoRow, known
    <3> QED BY <1>1, <1>9, <3>2, <3>4, <3>5
  <2>9. f.syncing = FALSE /\ f.holes = x.holes /\ f.pending = x.pending
    BY <1>2, <1>9, <2>1 DEF IsFolded
  <2> QED BY <1>3, <1>6, <1>9, <2>5, <2>7, <2>8, <2>9 DEF Draining, q
<1>10. CASE ~x.syncing /\ r.eventSeq > known + 1
  <2>1. IsQueued(x, r, f) /\ f.holes = x.holes + 1 /\ r.eventSeq >= 2
    BY <1>3, <1>10
  <2>3. f.pending = <<r>>
    <3>1. f.pending = Append(<< >>, r)
      BY <1>6, <1>10, <2>1 DEF IsQueued
    <3> QED BY <1>1, <3>1
  <2>4. i \in 1..i /\ Waiting(f.pending, q, i, i) /\ q[i].eventSeq >= 2
    <3>1. r = q[i]
      BY DEF r
    <3> QED BY <1>1, <2>1, <2>3, <3>1 DEF Waiting
  <2>5. f.holes >= s.holes + 1
    BY <1>2, <1>6, <1>10, <2>1
  <2> QED BY <1>3, <1>5, <1>6, <1>10, <2>1, <2>4, <2>5 DEF Draining, IsQueued, q
<1> QED BY <1>1, <1>2, <1>7, <1>8, <1>9, <1>10

-----------------------------------------------------------------------------
(* One reconcile *)

\* What one reconcile makes of a true store and a true snapshot.
Reconciled(t, s, snapshot) ==
  /\ t \in Store /\ ~t.threw
  /\ \A id \in Ids : TrueRow(t.rows[id], id)
  /\ t.notify
  /\ \A id \in Ids : meta[id] # 0 => t.rows[id] = snapshot[id]
  /\ t.syncing => t.holes >= s.holes + 1
  /\ ~t.syncing => t.holes = s.holes /\ t.pending = << >>
  /\ \A i \in DOMAIN t.pending : \E j \in DOMAIN s.pending : t.pending[i] = s.pending[j]
  /\ OldFirst(s.pending) => OldFirst(t.pending) /\ PendingFine(t.pending)
  /\ OfToday(snapshot) /\ PendingFine(s.pending) => t.rows = snapshot

\* The tail of a queue in which the old come first has the old first, and is fine
\* if it begins with a hole.
LEMMA TailIsFine ==
  ASSUME NEW q \in Seq(WireReport), NEW p \in Seq(WireReport),
         NEW k \in 1..Len(q), Waiting(p, q, k, Len(q)), q[k].eventSeq >= 2, OldFirst(q)
  PROVE  OldFirst(p) /\ PendingFine(p)
<1>1. k \in Nat /\ Len(q) \in Nat /\ DOMAIN q = 1..Len(q) /\ k \in DOMAIN q
  OBVIOUS
<1>2. Len(p) = Len(q) - k + 1 /\ DOMAIN p = 1..Len(p) /\ 1 \in DOMAIN p /\ p # << >>
  BY <1>1 DEF Waiting
<1>3. \A j \in DOMAIN p : k + j - 1 \in DOMAIN q /\ p[j] = q[k + j - 1]
  <2> TAKE j \in DOMAIN p
  <2>1. j \in 1..(Len(q) - k + 1)
    BY <1>2
  <2>2. k + j - 1 \in 1..Len(q)
    BY <1>1, <2>1
  <2> QED BY <1>1, <2>1, <2>2 DEF Waiting
<1>4. OldFirst(p)
  <2>1. SUFFICES ASSUME NEW i \in DOMAIN p, NEW j \in DOMAIN p, i < j, Old(p[j])
                 PROVE  Old(p[i])
    BY DEF OldFirst
  <2>2. k + i - 1 < k + j - 1
    BY <1>1, <1>2, <2>1
  <2> QED BY <1>3, <2>1, <2>2 DEF OldFirst
<1>5. p[1] = q[k]
  <2>1. k + 1 - 1 = k
    BY <1>1
  <2> QED BY <1>2, <1>3, <2>1
<1>6. PendingFine(p)
  <2>1. CASE Old(p[1])
    BY <1>2, <1>5, <2>1 DEF PendingFine
  <2>2. CASE ~Old(p[1])
    <3>1. \A j \in DOMAIN p : j = 1 \/ 1 < j
      BY <1>2
    <3>2. \A j \in DOMAIN p : ~Old(p[j])
      BY <1>2, <1>4, <2>2, <3>1 DEF OldFirst
    <3> QED BY <3>2 DEF PendingFine
  <2> QED BY <2>1, <2>2
<1> QED BY <1>4, <1>6

LEMMA ReconcileType ==
  ASSUME NEW s \in Store, NEW snapshot \in [Ids -> Row]
  PROVE  Reconcile(s, snapshot) \in Store
<1>1. PICK f : /\ Drains(f, s, snapshot)
               /\ LET end == f[Len(s.pending)]
                  IN Reconcile(s, snapshot) = IF end.threw THEN end
                                              ELSE [end EXCEPT !.notify = TRUE]
  BY ReconcileDrains
<1>2. Len(s.pending) \in 0..Len(s.pending)
  BY DEF Store
<1>3. f[Len(s.pending)] \in Store
  BY <1>1, <1>2 DEF Drains
<1>4. \A end \in Store : [end EXCEPT !.notify = TRUE] \in Store
  BY DEF Store
<1> QED BY <1>1, <1>3, <1>4

LEMMA OneRound ==
  ASSUME DaysType, OneDayEach, NEW s \in Store, NEW snapshot \in [Ids -> Row],
         \A i \in DOMAIN s.pending : TrueReport(s.pending[i]),
         \A id \in Ids : TrueRow(snapshot[id], id),
         Told(s.pending, snapshot)
  PROVE  Reconciled(Reconcile(s, snapshot), s, snapshot)
<1>1. PICK f : /\ Drains(f, s, snapshot)
               /\ LET end == f[Len(s.pending)]
                  IN Reconcile(s, snapshot) = IF end.threw THEN end
                                              ELSE [end EXCEPT !.notify = TRUE]
  BY ReconcileDrains
<1> DEFINE n == Len(s.pending)
           end == f[n]
           t == Reconcile(s, snapshot)
           S == {i \in 0..n : Draining(f[i], i, s, snapshot)}
<1>2. n \in Nat /\ DOMAIN s.pending = 1..n /\ s.pending \in Seq(WireReport)
  BY DEF Store
<1>3. 0 \in S
  <2>1. f[0] \in Store /\ IsReplaced(s, snapshot, f[0])
    BY <1>1, ReplacedFields DEF Drains
  <2>2. Draining(f[0], 0, s, snapshot)
    BY <2>1, DrainStarts
  <2> QED BY <1>2, <2>2
<1>4. ASSUME NEW i \in 1..n, i - 1 \in S
      PROVE  i \in S
  <2>1. Draining(f[i - 1], i - 1, s, snapshot)
    BY <1>4
  <2>2. f[i - 1] \in Store
    BY <1>1, <1>2 DEF Drains
  <2>3. f[i] = Ingest(f[i - 1], s.pending[i])
    BY <1>1, <2>1 DEF Drains, Draining
  <2>4. Draining(f[i], i, s, snapshot)
    BY <2>1, <2>2, <2>3, DrainGoesOn
  <2> QED BY <1>2, <2>4
<1>5. Draining(end, n, s, snapshot)
  <2>1. \A i \in 0..n : i \in S
    <3> HIDE DEF S, n
    <3> QED BY <1>2, <1>3, <1>4, StepByStep
  <2>2. n \in 0..n
    BY <1>2
  <2> QED BY <2>1, <2>2
<1>6. end \in Store
  BY <1>1, <1>2 DEF Drains
<1> SUFFICES Reconciled(t, s, snapshot)
  OBVIOUS
<1>7. ~end.threw
  BY <1>5 DEF Draining
<1>8. t = [end EXCEPT !.notify = TRUE]
  BY <1>1, <1>7
<1> HIDE DEF t, end, n
<1>9. /\ t \in Store /\ t.notify
      /\ t.rows = end.rows /\ t.pending = end.pending /\ t.syncing = end.syncing
      /\ t.holes = end.holes /\ t.threw = end.threw
  BY <1>6, <1>8 DEF Store
<1>11. t.syncing => \E k \in 1..n : Waiting(t.pending, s.pending, k, n) /\ s.pending[k].eventSeq >= 2
  BY <1>5, <1>9 DEF Draining
<1>12. t.pending \in Seq(WireReport) /\ DOMAIN t.pending = 1..Len(t.pending)
  BY <1>9 DEF Store
<1>13. ~t.syncing => t.pending = << >>
  BY <1>5, <1>9 DEF Draining
<1>14. \A i \in DOMAIN t.pending : \E j \in DOMAIN s.pending : t.pending[i] = s.pending[j]
  <2>1. CASE ~t.syncing
    BY <1>13, <2>1
  <2>2. CASE t.syncing
    <3>1. PICK k \in 1..n : Waiting(t.pending, s.pending, k, n)
      BY <1>11, <2>2
    <3>2. k \in Nat /\ Len(t.pending) = n - k + 1
      BY <1>2, <3>1 DEF Waiting
    <3>3. \A i \in 1..Len(t.pending) : k + i - 1 \in 1..n /\ t.pending[i] = s.pending[k + i - 1]
      BY <1>2, <3>1, <3>2 DEF Waiting
    <3> QED BY <1>2, <1>12, <3>3
  <2> QED BY <2>1, <2>2
<1>15. OldFirst(s.pending) => OldFirst(t.pending) /\ PendingFine(t.pending)
  <2>1. CASE ~t.syncing
    BY <1>13, <2>1 DEF OldFirst, PendingFine
  <2>2. CASE t.syncing
    BY <1>2, <1>11, <1>12, <2>2, TailIsFine DEF n
  <2> QED BY <2>1, <2>2
<1> QED BY <1>5, <1>7, <1>9, <1>14, <1>15 DEF Reconciled, Draining

-----------------------------------------------------------------------------
(* All callbacks of one answer *)

\* The store after n callbacks have reconciled it with the same snapshot.
Rounded(x, n, s, snapshot) ==
  /\ x \in Store /\ ~x.threw
  /\ \A id \in Ids : TrueRow(x.rows[id], id)
  /\ \A i \in DOMAIN x.pending : \E j \in DOMAIN s.pending : x.pending[i] = s.pending[j]
  /\ OldFirst(s.pending) => OldFirst(x.pending)
  /\ n = 0 => x = s
  /\ n >= 1 =>
       /\ x.notify
       /\ \A id \in Ids : meta[id] # 0 => x.rows[id] = snapshot[id]
       /\ x.syncing => x.holes >= 1
       /\ ~x.syncing => x.pending = << >>
       /\ OldFirst(s.pending) => PendingFine(x.pending)
       /\ OfToday(snapshot) /\ OldFirst(s.pending) /\ (n >= 2 \/ PendingFine(s.pending)) =>
            x.rows = snapshot

LEMMA RoundGoesOn ==
  ASSUME DaysType, OneDayEach, NEW s \in Store, NEW snapshot \in [Ids -> Row],
         \A i \in DOMAIN s.pending : TrueReport(s.pending[i]),
         \A id \in Ids : TrueRow(snapshot[id], id),
         Told(s.pending, snapshot),
         NEW n \in Nat \ {0}, NEW x, Rounded(x, n - 1, s, snapshot)
  PROVE  Rounded(Reconcile(x, snapshot), n, s, snapshot)
<1> DEFINE t == Reconcile(x, snapshot)
<1>1. /\ x \in Store
      /\ \A i \in DOMAIN x.pending : \E j \in DOMAIN s.pending : x.pending[i] = s.pending[j]
      /\ OldFirst(s.pending) => OldFirst(x.pending)
      /\ n - 1 = 0 => x = s
      /\ n - 1 >= 1 /\ OldFirst(s.pending) => PendingFine(x.pending)
  BY DEF Rounded
<1>2. \A i \in DOMAIN x.pending : TrueReport(x.pending[i])
  BY <1>1
<1>3. Told(x.pending, snapshot)
  BY <1>1 DEF Told
<1>4. Reconciled(t, x, snapshot)
  BY <1>1, <1>2, <1>3, OneRound
<1> SUFFICES Rounded(t, n, s, snapshot)
  OBVIOUS
<1> HIDE DEF t
<1>5. \A i \in DOMAIN t.pending : \E j \in DOMAIN s.pending : t.pending[i] = s.pending[j]
  BY <1>1, <1>4 DEF Reconciled
<1>6. t.syncing => t.holes >= 1
  <2>1. x.holes \in Nat /\ t.holes \in Nat
    BY <1>1, <1>4 DEF Reconciled, Store
  <2> QED BY <1>4, <2>1 DEF Reconciled
<1>7. ASSUME OldFirst(s.pending), n >= 2 \/ PendingFine(s.pending)
      PROVE  PendingFine(x.pending)
  <2>1. n - 1 = 0 \/ n - 1 >= 1
    OBVIOUS
  <2> QED BY <1>1, <1>7, <2>1
<1> QED BY <1>1, <1>4, <1>5, <1>6, <1>7 DEF Rounded, Reconciled

\* Every callback that waited for the answer reconciles with it.
LEMMA AnswerIsTaken ==
  ASSUME DaysType, OneDayEach, NEW s \in Store, NEW snapshot \in [Ids -> Row],
         ~s.threw, \A id \in Ids : TrueRow(s.rows[id], id),
         \A i \in DOMAIN s.pending : TrueReport(s.pending[i]),
         \A id \in Ids : TrueRow(snapshot[id], id),
         Told(s.pending, snapshot), NEW m \in Nat,
         NEW after, after = CHOOSE f : f = [n \in 0..m |->
            IF n = 0 THEN s ELSE Reconcile(f[n - 1], snapshot)]
  PROVE  \A n \in 0..m : Rounded(after[n], n, s, snapshot)
<1> DEFINE step == [x \in Store |-> [n \in 1..m |-> Reconcile(x, snapshot)]]
<1>1. step \in Steps(m, Store)
  BY ReconcileType DEF Steps
<1>2. PICK f : IsRunOf(f, m, Store, s, step)
  <2> HIDE DEF step
  <2> QED BY <1>1, RecursionExists
<1>3. f = [n \in 0..m |-> IF n = 0 THEN s ELSE Reconcile(f[n - 1], snapshot)]
  <2>1. \A n \in 0..m : n # 0 => n \in 1..m /\ n - 1 \in 0..m
    OBVIOUS
  <2>2. f \in [0..m -> Store] /\ f[0] = s /\ \A n \in 1..m : f[n] = step[f[n - 1]][n]
    BY <1>2 DEF IsRunOf
  <2>3. \A n \in 0..m : f[n] = IF n = 0 THEN s ELSE Reconcile(f[n - 1], snapshot)
    BY <2>1, <2>2
  <2> HIDE DEF step
  <2> QED BY <2>2, <2>3
<1>4. after = [n \in 0..m |-> IF n = 0 THEN s ELSE Reconcile(after[n - 1], snapshot)]
  BY <1>3
<1>5. after[0] = s /\ \A n \in 1..m : after[n] = Reconcile(after[n - 1], snapshot)
  <2>1. 0 \in 0..m /\ \A n \in 1..m : n \in 0..m /\ n # 0
    OBVIOUS
  <2>2. \A n \in 0..m : after[n] = IF n = 0 THEN s ELSE Reconcile(after[n - 1], snapshot)
    BY <1>4
  <2> HIDE DEF step
  <2> QED BY <2>1, <2>2
<1> DEFINE S == {n \in 0..m : Rounded(after[n], n, s, snapshot)}
<1>6. 0 \in S
  <2>1. Rounded(s, 0, s, snapshot)
    BY DEF Rounded
  <2> QED BY <1>5, <2>1
<1>7. ASSUME NEW n \in 1..m, n - 1 \in S
      PROVE  n \in S
  <2>1. Rounded(after[n - 1], n - 1, s, snapshot) /\ n \in Nat \ {0} /\ n \in 0..m
    BY <1>7
  <2>2. Rounded(Reconcile(after[n - 1], snapshot), n, s, snapshot)
    BY <2>1, RoundGoesOn
  <2> QED BY <1>5, <2>1, <2>2
<1>8. \A n \in 0..m : n \in S
  <2> HIDE DEF S
  <2> QED BY <1>6, <1>7, StepByStep
<1> QED BY <1>8

-----------------------------------------------------------------------------
(* The engine's reports *)

\* An order of this size can look like this in an engine that keeps OrderLife.
OrderSound(p, qty) ==
  \/ p = NoOrder
  \/ p.status \in Live /\ p.cumQty >= 0 /\ p.leavesQty >= 1 /\ p.cumQty + p.leavesQty = qty
  \/ p.status \in Terminal /\ p.cumQty \in 0..qty /\ p.leavesQty = 0

RejectedProgress == [status |-> "REJECTED", cumQty |-> 0, leavesQty |-> 0]

LEMMA RejectFolds ==
  ASSUME NEW id \in Ids, NEW reason \in RejectReason, NEW qty \in Nat
  PROVE  LET r == RejectOf(id, reason)
         IN /\ r \in WireReport /\ r.id = id
            /\ ApplyReport(NoOrder, r, qty) = RejectedProgress
            /\ RejectedProgress \in Progress /\ OrderSound(RejectedProgress, qty)
<1> DEFINE r == RejectOf(id, reason)
<1>1. r \in WireReport /\ r.id = id
  BY DEF RejectOf, ReportOf, WireReport, ExecType, OrdStatus, Terminal, NoQty
<1>2. reason # NoReason
  BY DEF RejectReason, NoReason
<1>3. Accepts(NoOrder, r, qty)
  BY <1>2 DEF RejectOf, ReportOf, Accepts, NextOrdStatus, RejectAdds, NoOrder
<1>4. ApplyReport(NoOrder, r, qty) = RejectedProgress
  BY <1>3 DEF ApplyReport, RejectOf, ReportOf, RejectedProgress
<1>5. RejectedProgress \in Progress /\ OrderSound(RejectedProgress, qty)
  BY DEF RejectedProgress, Progress, OrdStatus, Terminal, OrderSound
<1> QED BY <1>1, <1>4, <1>5

\* What the engine may report next of a working order, the fold accepts.
LEMMA NextFolds ==
  ASSUME NEW id \in Ids, NEW p \in Progress \cup {NoOrder}, NEW qty \in Nat \ {0},
         OrderSound(p, qty), p.status \notin Terminal, NEW r \in NextReports(id, p, qty)
  PROVE  /\ r \in WireReport /\ r.id = id
         /\ ApplyReport(p, r, qty) \in Progress
         /\ OrderSound(ApplyReport(p, r, qty), qty)
<1> DEFINE q == ApplyReport(p, r, qty)
<1>1. CASE p = NoOrder
  <2>1. CASE r = ReportOf(id, "NEW", "NEW", NoQty, 0, qty, NoReason)
    <3>1. r \in WireReport /\ r.id = id
      BY <2>1 DEF ReportOf, WireReport, ExecType, OrdStatus, Live, NoQty
    <3>2. Accepts(p, r, qty)
      BY <1>1, <2>1 DEF ReportOf, Accepts, NextOrdStatus, NewAdds, NoOrder
    <3>3. q = [status |-> "NEW", cumQty |-> 0, leavesQty |-> qty]
      BY <2>1, <3>2 DEF ApplyReport, ReportOf
    <3>4. q \in Progress /\ OrderSound(q, qty)
      <4> HIDE DEF q
      <4> QED BY <3>3 DEF Progress, OrdStatus, Live, OrderSound
    <3> QED BY <3>1, <3>4
  <2>2. CASE r = RejectOf(id, "LAST_LOOK")
    BY <1>1, <2>2, RejectFolds DEF RejectReason
  <2> QED BY <1>1, <2>1, <2>2 DEF NextReports
<1>2. CASE p # NoOrder
  <2>1. /\ p \in Progress /\ p.status \in Live
        /\ p.cumQty \in Int /\ p.leavesQty \in Int
        /\ p.cumQty >= 0 /\ p.leavesQty >= 1 /\ p.cumQty + p.leavesQty = qty
    BY <1>2 DEF OrderSound, Progress
  <2>2. ASSUME NEW lastQty \in 1..p.leavesQty, r = TradeOf(id, p, lastQty)
        PROVE  r \in WireReport /\ r.id = id /\ q \in Progress /\ OrderSound(q, qty)
    <3> DEFINE status == IF lastQty = p.leavesQty THEN "FILLED" ELSE "PARTIALLY_FILLED"
    <3>1. r = [id |-> id, execType |-> "TRADE", ordStatus |-> status, priced |-> TRUE,
               lastQty |-> lastQty, cumQty |-> p.cumQty + lastQty,
               leavesQty |-> p.leavesQty - lastQty, rejectReason |-> NoReason,
               eventSeq |-> 0, orderQty |-> 0]
      BY <2>2 DEF TradeOf, ReportOf
    <3>2. lastQty \in Int /\ status \in OrdStatus
      BY <2>1 DEF OrdStatus, Terminal, Live
    <3>3. r \in WireReport /\ r.id = id
      BY <2>1, <3>1, <3>2 DEF WireReport, ExecType
    <3>4. Accepts(p, r, qty)
      <4>1. p.leavesQty - lastQty = 0 <=> lastQty = p.leavesQty
        BY <2>1, <3>2
      <4>2. NextOrdStatus(p.status, "TRADE", p.leavesQty - lastQty) = status
        BY <2>1, <4>1 DEF NextOrdStatus
      <4>3. TradeAdds(p, r, qty)
        BY <2>1, <3>1, <3>2 DEF TradeAdds
      <4> HIDE DEF status
      <4> QED BY <3>1, <4>2, <4>3 DEF Accepts
    <3>5. q = [status |-> status, cumQty |-> p.cumQty + lastQty, leavesQty |-> p.leavesQty - lastQty]
      BY <3>1, <3>4 DEF ApplyReport
    <3>6. q \in Progress
      <4> HIDE DEF q, status
      <4> QED BY <2>1, <3>2, <3>5 DEF Progress
    <3>7. OrderSound(q, qty)
      <4> HIDE DEF q
      <4>1. CASE lastQty = p.leavesQty
        BY <2>1, <3>5, <4>1 DEF OrderSound, Terminal
      <4>2. CASE lastQty # p.leavesQty
        BY <2>1, <3>5, <4>2 DEF OrderSound, Live
      <4> QED BY <4>1, <4>2
    <3> QED BY <3>3, <3>6, <3>7
  <2>3. ASSUME r = ReportOf(id, "CANCELED", "CANCELED", NoQty, p.cumQty, 0, NoReason)
        PROVE  r \in WireReport /\ r.id = id /\ q \in Progress /\ OrderSound(q, qty)
    <3>1. r = [id |-> id, execType |-> "CANCELED", ordStatus |-> "CANCELED", priced |-> FALSE,
               lastQty |-> -1, cumQty |-> p.cumQty, leavesQty |-> 0,
               rejectReason |-> NoReason, eventSeq |-> 0, orderQty |-> 0]
      BY <2>3 DEF ReportOf, NoQty
    <3>2. r \in WireReport /\ r.id = id
      BY <2>1, <3>1 DEF WireReport, ExecType, OrdStatus, Terminal
    <3>3. Accepts(p, r, qty)
      BY <2>1, <3>1 DEF Accepts, NextOrdStatus, CloseAdds
    <3>4. q = [status |-> "CANCELED", cumQty |-> p.cumQty, leavesQty |-> 0]
      BY <3>1, <3>3 DEF ApplyReport
    <3>5. q \in Progress /\ OrderSound(q, qty)
      <4> HIDE DEF q
      <4> QED BY <2>1, <3>4 DEF Progress, OrdStatus, Terminal, OrderSound
    <3> QED BY <3>2, <3>5
  <2> QED BY <1>2, <2>2, <2>3 DEF NextReports
<1> QED BY <1>1, <1>2

\* The number a report carries and the size it is enriched with do not matter to
\* the fold.
Stamped(s, r, n) == s = [r EXCEPT !.eventSeq = n] \/ s = [r EXCEPT !.orderQty = n]

LEMMA StampsDoNotCount ==
  ASSUME NEW r \in WireReport, NEW n \in Nat, NEW s, Stamped(s, r, n)
  PROVE  /\ s \in WireReport
         /\ \A p, qty : ApplyReport(p, s, qty) = ApplyReport(p, r, qty)
<1>1. s \in WireReport
  BY DEF WireReport, Stamped
<1>2. /\ s.execType = r.execType /\ s.ordStatus = r.ordStatus /\ s.priced = r.priced
      /\ s.lastQty = r.lastQty /\ s.cumQty = r.cumQty /\ s.leavesQty = r.leavesQty
      /\ s.rejectReason = r.rejectReason
  BY DEF WireReport, Stamped
<1>3. \A p, qty : ApplyReport(p, s, qty) = ApplyReport(p, r, qty)
  BY <1>2 DEF ApplyReport, Accepts, NewAdds, TradeAdds, RejectAdds, CloseAdds
<1> QED BY <1>1, <1>3

-----------------------------------------------------------------------------
(* Publishing one report *)

DeskType ==
  [states : [Ids -> Row], buffer : Seq(WireReport), day : [Ids -> Seq(Progress)],
   threw : BOOLEAN]

\* What one published report does to the desk, field by field.
IsPublished(desk, r, f, next) ==
  LET seq == desk.states[r.id].eventSeq + 1
  IN /\ f.states = [desk.states EXCEPT ![r.id] = [progress |-> next, eventSeq |-> seq]]
     /\ f.day = [desk.day EXCEPT ![r.id] = Append(desk.day[r.id], next)]
     /\ f.buffer = IF subscribed THEN Append(desk.buffer, [r EXCEPT !.eventSeq = seq])
                   ELSE desk.buffer
     /\ f.threw = desk.threw

LEMMA PublishFields ==
  ASSUME NEW desk \in DeskType, NEW r \in WireReport, NEW next \in Progress,
         next = ApplyReport(desk.states[r.id].progress, r, meta[r.id]),
         meta[r.id] # 0, ~desk.threw
  PROVE  Publish(desk, r) \in DeskType /\ IsPublished(desk, r, Publish(desk, r), next)
<1> DEFINE seq == desk.states[r.id].eventSeq + 1
           row == [progress |-> next, eventSeq |-> seq]
           out == [r EXCEPT !.eventSeq = seq]
<1>1. /\ r.id \in Ids /\ seq \in Nat /\ desk.states \in [Ids -> Row]
      /\ desk.day \in [Ids -> Seq(Progress)] /\ desk.buffer \in Seq(WireReport)
  BY DEF WireReport, DeskType, Row
<1>2. row \in Row /\ out \in WireReport
  <2>1. Stamped(out, r, seq)
    BY DEF Stamped
  <2> HIDE DEF seq, out
  <2> QED BY <1>1, <2>1, RowTypes, StampsDoNotCount DEF row
<1>3. PICK ro, b, d, sts, day :
        /\ ro = row
        /\ b = IF subscribed THEN Append(desk.buffer, out) ELSE desk.buffer
        /\ d = Append(desk.day[r.id], next)
        /\ sts = [desk.states EXCEPT ![r.id] = ro]
        /\ day = [desk.day EXCEPT ![r.id] = d]
  OBVIOUS
<1>4. Publish(desk, r) =
        [desk EXCEPT !.states[r.id] = [progress |-> next, eventSeq |-> seq],
                     !.buffer = IF subscribed THEN Append(@, [r EXCEPT !.eventSeq = seq])
                                ELSE @,
                     !.day[r.id] = Append(@, next)]
  BY SentinelsAreNoProgress DEF Publish
<1>5. Publish(desk, r) =
        [desk EXCEPT !.states = [desk.states EXCEPT ![r.id] = ro], !.buffer = b,
                     !.day = [desk.day EXCEPT ![r.id] = d]]
  BY <1>3, <1>4
<1> HIDE DEF seq, row, out
<1>6. Publish(desk, r) = [desk EXCEPT !.states = sts, !.buffer = b, !.day = day]
  BY <1>3, <1>5
<1>7. Publish(desk, r) = [states |-> sts, buffer |-> b, day |-> day, threw |-> desk.threw]
  BY <1>6 DEF DeskType
<1>8. /\ d \in Seq(Progress) /\ sts \in [Ids -> Row] /\ day \in [Ids -> Seq(Progress)]
      /\ b \in Seq(WireReport)
  <2>1. d \in Seq(Progress)
    BY <1>1, <1>3
  <2>2. sts \in [Ids -> Row] /\ day \in [Ids -> Seq(Progress)]
    BY <1>1, <1>2, <1>3, <2>1
  <2>3. b \in Seq(WireReport)
    BY <1>1, <1>2, <1>3
  <2> QED BY <2>1, <2>2, <2>3
<1>9. Publish(desk, r) \in DeskType
  BY <1>7, <1>8 DEF DeskType
<1>10. IsPublished(desk, r, Publish(desk, r), next)
  BY <1>3, <1>7 DEF IsPublished, seq, row, out
<1> QED BY <1>9, <1>10

LEMMA PublishType ==
  ASSUME NEW desk \in DeskType, NEW r \in WireReport
  PROVE  Publish(desk, r) \in DeskType
<1> DEFINE next == ApplyReport(desk.states[r.id].progress, r, meta[r.id])
<1>1. CASE meta[r.id] = 0 \/ desk.threw
  BY <1>1 DEF Publish
<1>2. CASE ~(meta[r.id] = 0 \/ desk.threw) /\ next = Refused
  <2>1. Publish(desk, r) = [desk EXCEPT !.threw = TRUE]
    BY <1>2 DEF Publish
  <2> QED BY <2>1 DEF DeskType
<1>3. CASE ~(meta[r.id] = 0 \/ desk.threw) /\ next # Refused
  <2>1. next \in Progress
    BY <1>3, FoldsToProgress
  <2> HIDE DEF next
  <2>2. PICK p \in Progress : p = ApplyReport(desk.states[r.id].progress, r, meta[r.id])
    BY <2>1 DEF next
  <2> QED BY <1>3, <2>2, PublishFields
<1> QED BY <1>1, <1>2, <1>3

\* The desks publishReport() leaves behind, report by report.
Publishes(f, reports) ==
  /\ f \in [0..Len(reports) -> DeskType]
  /\ f[0] = Desk
  /\ \A i \in 1..Len(reports) : f[i] = Publish(f[i - 1], reports[i])

LEMMA PublishRuns ==
  ASSUME Desk \in DeskType, NEW reports \in Seq(WireReport), PublishAll(reports)
  PROVE  \E f : /\ Publishes(f, reports)
                /\ states' = f[Len(reports)].states
                /\ buffer' = f[Len(reports)].buffer
                /\ days' = [days EXCEPT ![Today] = f[Len(reports)].day]
                /\ crashed' = f[Len(reports)].threw
<1> DEFINE n == Len(reports)
           step == [desk \in DeskType |-> [i \in 1..n |-> Publish(desk, reports[i])]]
           after == CHOOSE f : f = [i \in 0..n |->
                      IF i = 0 THEN Desk ELSE Publish(f[i - 1], reports[i])]
<1>1. n \in Nat /\ \A i \in 1..n : reports[i] \in WireReport
  OBVIOUS
<1>2. step \in Steps(n, DeskType)
  BY <1>1, PublishType DEF Steps
<1>3. PICK f : IsRunOf(f, n, DeskType, Desk, step)
  <2> HIDE DEF step, n
  <2> QED BY <1>1, <1>2, RecursionExists
<1>4. f = [i \in 0..n |-> IF i = 0 THEN Desk ELSE Publish(f[i - 1], reports[i])]
  <2>1. \A i \in 0..n : i # 0 => i \in 1..n /\ i - 1 \in 0..n
    BY <1>1
  <2>2. f \in [0..n -> DeskType] /\ f[0] = Desk /\ \A i \in 1..n : f[i] = step[f[i - 1]][i]
    BY <1>3 DEF IsRunOf
  <2>3. \A i \in 0..n : f[i] = IF i = 0 THEN Desk ELSE Publish(f[i - 1], reports[i])
    BY <2>1, <2>2
  <2> HIDE DEF step, n
  <2> QED BY <2>2, <2>3
<1>5. after = [i \in 0..n |-> IF i = 0 THEN Desk ELSE Publish(after[i - 1], reports[i])]
  <2> HIDE DEF n
  <2> QED BY <1>4
<1>6. /\ states' = after[n].states
      /\ buffer' = after[n].buffer
      /\ days' = [days EXCEPT ![Today] = after[n].day]
      /\ crashed' = after[n].threw
  BY DEF PublishAll
<1> HIDE DEF after
<1>7. after[0] = Desk /\ \A i \in 1..n : after[i] = Publish(after[i - 1], reports[i])
  <2>1. 0 \in 0..n /\ \A i \in 1..n : i \in 0..n /\ i # 0
    BY <1>1
  <2>2. \A i \in 0..n : after[i] = IF i = 0 THEN Desk ELSE Publish(after[i - 1], reports[i])
    BY <1>5
  <2> HIDE DEF step, n
  <2> QED BY <2>1, <2>2
<1>8. after \in [0..n -> DeskType]
  <2> DEFINE S == {i \in 0..n : after[i] \in DeskType}
  <2>1. 0 \in S
    BY <1>1, <1>7
  <2>2. \A i \in 1..n : i - 1 \in S => i \in S
    BY <1>1, <1>7, PublishType
  <2>3. \A i \in 0..n : i \in S
    <3> HIDE DEF S, n
    <3> QED BY <1>1, <2>1, <2>2, StepByStep
  <2>4. \A i \in 0..n : after[i] \in DeskType
    BY <2>3
  <2> HIDE DEF n, S
  <2> QED BY <1>5, <2>4
<1>9. Publishes(after, reports)
  BY <1>7, <1>8 DEF Publishes
<1> QED BY <1>6, <1>9

-----------------------------------------------------------------------------
(* Publishing follows the engine *)

\* events' begins with events.
Extends(longer, events) ==
  /\ Len(events) <= Len(longer)
  /\ \A n \in 1..Len(events) : longer[n] = events[n]

\* What waits in the server's queue for the wire, if its order is still known.
Waits(r, day) ==
  /\ meta[r.id] # 0 => ReportAt(r, meta[r.id], day[r.id])
  /\ reseeds = 0 => meta[r.id] # 0

\* A desk that has followed the engine e but for the rejections that wait.
DeskOK(desk, e, waiting) ==
  /\ desk \in DeskType /\ ~desk.threw
  /\ \A id \in Ids : /\ desk.states[id] = StateAfter(desk.day[id])
                     /\ Extends(desk.day[id], days[Today][id])
                     /\ desk.day[id] # << >> => meta[id] # 0
  /\ \A i \in DOMAIN desk.buffer : Waits(desk.buffer[i], desk.day)
  /\ ~subscribed => desk.buffer = buffer
  /\ \A id \in Ids :
       /\ meta[id] = 0 => e[id] = NoOrder
       /\ meta[id] # 0 => e[id] \in Progress \cup {NoOrder} /\ OrderSound(e[id], meta[id])
  /\ \A i \in DOMAIN waiting : meta[waiting[i].id] # 0 =>
       e[waiting[i].id] = RejectedProgress /\ desk.day[waiting[i].id] = << >>
  /\ \A id \in Ids : meta[id] # 0 =>
       \/ desk.states[id].progress = e[id]
       \/ \E i \in DOMAIN waiting : waiting[i].id = id

LEMMA OneMoreEvent ==
  ASSUME NEW events \in Seq(Progress), NEW next \in Progress
  PROVE  LET longer == Append(events, next)
         IN /\ longer \in Seq(Progress) /\ longer # << >>
            /\ Len(longer) = Len(events) + 1
            /\ StateAfter(longer) = [progress |-> next, eventSeq |-> Len(events) + 1]
            /\ StateAfter(events).eventSeq = Len(events)
            /\ StateAfter(events).progress = Before(longer, Len(events) + 1)
            /\ Extends(longer, events)
            /\ \A r, qty : ReportAt(r, qty, events) => ReportAt(r, qty, longer)
<1> DEFINE longer == Append(events, next)
<1>1. /\ longer \in Seq(Progress) /\ longer # << >>
      /\ Len(events) \in Nat /\ Len(longer) = Len(events) + 1
      /\ longer[Len(events) + 1] = next
      /\ \A n \in 1..Len(events) : longer[n] = events[n]
  OBVIOUS
<1> HIDE DEF longer
<1>2. StateAfter(longer) = [progress |-> next, eventSeq |-> Len(events) + 1]
  BY <1>1 DEF StateAfter
<1>3. CASE events = << >>
  <2>1. StateAfter(events) = NoRow /\ Len(events) = 0
    BY <1>3 DEF StateAfter
  <2>2. Before(longer, Len(events) + 1) = NoOrder
    BY <2>1 DEF Before
  <2> QED BY <1>1, <1>2, <2>1, <2>2 DEF NoRow, Extends, ReportAt, longer
<1>4. CASE events # << >>
  <2>1. Len(events) # 0 /\ Len(events) \in 1..Len(events)
    BY <1>1, <1>4
  <2>2. StateAfter(events) = [progress |-> events[Len(events)], eventSeq |-> Len(events)]
    BY <1>4 DEF StateAfter
  <2>3. Before(longer, Len(events) + 1) = events[Len(events)]
    BY <1>1, <2>1 DEF Before
  <2>4. ASSUME NEW n \in 1..Len(events)
        PROVE  Before(longer, n) = Before(events, n) /\ longer[n] = events[n] /\ n \in 1..Len(longer)
    <3>1. n # 1 => n - 1 \in 1..Len(events)
      BY <1>1
    <3> QED BY <1>1, <3>1 DEF Before
  <2>5. \A r, qty : ReportAt(r, qty, events) => ReportAt(r, qty, longer)
    BY <2>4 DEF ReportAt
  <2> QED BY <1>1, <1>2, <2>2, <2>3, <2>5 DEF Extends, longer
<1> QED BY <1>3, <1>4

LEMMA ExtendsTransitive ==
  ASSUME NEW a \in Seq(Progress), NEW b \in Seq(Progress), NEW c \in Seq(Progress),
         Extends(b, a), Extends(c, b)
  PROVE  Extends(c, a)
  BY DEF Extends

\* One published report: the desk follows the engine.
LEMMA PublishFollows ==
  ASSUME NEW desk, NEW e, NEW waiting, DeskOK(desk, e, waiting), DaysType,
         NEW r \in WireReport, meta[r.id] \in Nat, meta[r.id] # 0,
         NEW next \in Progress,
         next = ApplyReport(desk.states[r.id].progress, r, meta[r.id]),
         OrderSound(next, meta[r.id]),
         NEW e2, \A id \in Ids : e2[id] = IF id = r.id THEN next ELSE e[id],
         NEW left, \A j \in DOMAIN waiting : waiting[j].id \in Ids,
         \A i \in DOMAIN left : /\ left[i].id # r.id
                                /\ \E j \in DOMAIN waiting : left[i] = waiting[j],
         \A j \in DOMAIN waiting : waiting[j].id # r.id =>
           \E i \in DOMAIN left : left[i] = waiting[j]
  PROVE  DeskOK(Publish(desk, r), e2, left)
<1> DEFINE f == Publish(desk, r)
           seq == desk.states[r.id].eventSeq + 1
           old == desk.day[r.id]
           longer == Append(old, next)
           stamped == [r EXCEPT !.eventSeq = seq]
<1>1. /\ desk \in DeskType /\ ~desk.threw
      /\ \A id \in Ids : /\ desk.states[id] = StateAfter(desk.day[id])
                         /\ Extends(desk.day[id], days[Today][id])
                         /\ desk.day[id] # << >> => meta[id] # 0
      /\ \A i \in DOMAIN desk.buffer : Waits(desk.buffer[i], desk.day)
      /\ ~subscribed => desk.buffer = buffer
      /\ \A id \in Ids :
           /\ meta[id] = 0 => e[id] = NoOrder
           /\ meta[id] # 0 => e[id] \in Progress \cup {NoOrder} /\ OrderSound(e[id], meta[id])
      /\ \A i \in DOMAIN waiting : meta[waiting[i].id] # 0 =>
           e[waiting[i].id] = RejectedProgress /\ desk.day[waiting[i].id] = << >>
      /\ \A id \in Ids : meta[id] # 0 =>
           \/ desk.states[id].progress = e[id]
           \/ \E i \in DOMAIN waiting : waiting[i].id = id
  BY DEF DeskOK
<1>2. f \in DeskType /\ IsPublished(desk, r, f, next)
  BY <1>1, PublishFields
<1>3. /\ r.id \in Ids
      /\ desk.states \in [Ids -> Row] /\ desk.day \in [Ids -> Seq(Progress)]
      /\ desk.buffer \in Seq(WireReport) /\ old \in Seq(Progress)
  BY <1>1 DEF WireReport, DeskType
<1>4. /\ longer \in Seq(Progress) /\ longer # << >>
      /\ Len(longer) = Len(old) + 1
      /\ StateAfter(longer) = [progress |-> next, eventSeq |-> Len(old) + 1]
      /\ StateAfter(old).eventSeq = Len(old)
      /\ StateAfter(old).progress = Before(longer, Len(old) + 1)
      /\ Extends(longer, old)
      /\ \A x, qty : ReportAt(x, qty, old) => ReportAt(x, qty, longer)
      /\ longer[Len(old) + 1] = next /\ Len(old) \in Nat
  <2>1. longer[Len(old) + 1] = next /\ Len(old) \in Nat
    BY <1>3
  <2> HIDE DEF old
  <2> QED BY <1>3, <2>1, OneMoreEvent
<1>5. seq = Len(old) + 1
  BY <1>1, <1>3, <1>4
<1>6. /\ f.states = [desk.states EXCEPT ![r.id] = StateAfter(longer)]
      /\ f.day = [desk.day EXCEPT ![r.id] = longer]
      /\ f.buffer = desk.buffer \/ f.buffer = Append(desk.buffer, stamped)
      /\ ~subscribed => f.buffer = buffer
      /\ ~f.threw
  BY <1>1, <1>2, <1>4, <1>5 DEF IsPublished
<1>7. ReportAt(stamped, meta[r.id], longer) /\ stamped \in WireReport /\ stamped.id = r.id
  <2>1. stamped.eventSeq = seq /\ stamped.id = r.id
    BY DEF WireReport
  <2>2. desk.states[r.id].progress = Before(longer, seq)
    BY <1>1, <1>3, <1>4, <1>5
  <2>3. seq \in Nat /\ seq \in 1..Len(longer) /\ longer[seq] = next
    BY <1>4, <1>5
  <2>4. /\ stamped \in WireReport
        /\ ApplyReport(Before(longer, seq), stamped, meta[r.id]) =
             ApplyReport(Before(longer, seq), r, meta[r.id])
    <3>1. Stamped(stamped, r, seq)
      BY DEF Stamped
    <3> HIDE DEF seq, longer, stamped
    <3> QED BY <2>3, <3>1, StampsDoNotCount
  <2> HIDE DEF stamped, seq, longer
  <2> QED BY <2>1, <2>2, <2>3, <2>4 DEF ReportAt
<1> SUFFICES DeskOK(f, e2, left)
  OBVIOUS
<1> HIDE DEF f, longer, stamped, seq
<1>8. ASSUME NEW id \in Ids
      PROVE  /\ f.states[id] = StateAfter(f.day[id])
             /\ Extends(f.day[id], days[Today][id])
             /\ f.day[id] # << >> => meta[id] # 0
  <2>1. CASE id # r.id
    BY <1>1, <1>3, <1>6, <2>1
  <2>2. CASE id = r.id
    <3>1. f.states[id] = StateAfter(longer) /\ f.day[id] = longer
      BY <1>3, <1>6, <2>2
    <3>2. days[Today][id] \in Seq(Progress)
      BY DayTypes
    <3>3. Extends(longer, days[Today][id])
      BY <1>1, <1>3, <1>4, <2>2, <3>2, ExtendsTransitive
    <3> QED BY <2>2, <3>1, <3>3
  <2> QED BY <2>1, <2>2
<1>9. ASSUME NEW x, Waits(x, desk.day), x.id \in Ids
      PROVE  Waits(x, f.day)
  BY <1>3, <1>4, <1>6, <1>9 DEF Waits
<1>10. Waits(stamped, f.day)
  <2>1. f.day[stamped.id] = longer
    BY <1>3, <1>6, <1>7
  <2> QED BY <1>7, <2>1 DEF Waits
<1>11. ASSUME NEW i \in DOMAIN f.buffer
       PROVE  Waits(f.buffer[i], f.day)
  <2>1. ASSUME NEW j \in DOMAIN desk.buffer PROVE Waits(desk.buffer[j], f.day)
    <3>1. desk.buffer[j].id \in Ids
      <4>1. desk.buffer[j] \in WireReport
        BY <1>3
      <4> QED BY <4>1 DEF WireReport
    <3> QED BY <1>1, <1>9, <3>1
  <2>2. CASE f.buffer = desk.buffer
    BY <2>1, <2>2
  <2>3. CASE f.buffer = Append(desk.buffer, stamped)
    <3>1. (i \in DOMAIN desk.buffer /\ f.buffer[i] = desk.buffer[i]) \/ f.buffer[i] = stamped
      BY <1>3, <1>7, <2>3
    <3> QED BY <1>10, <2>1, <3>1
  <2> QED BY <1>6, <2>2, <2>3
<1>12. ASSUME NEW id \in Ids
       PROVE  /\ meta[id] = 0 => e2[id] = NoOrder
              /\ meta[id] # 0 => e2[id] \in Progress \cup {NoOrder} /\ OrderSound(e2[id], meta[id])
  BY <1>1
<1>13. ASSUME NEW i \in DOMAIN left, meta[left[i].id] # 0
       PROVE  e2[left[i].id] = RejectedProgress /\ f.day[left[i].id] = << >>
  <2>1. PICK j \in DOMAIN waiting : left[i] = waiting[j]
    OBVIOUS
  <2>2. left[i].id \in Ids /\ left[i].id # r.id
    BY <2>1
  <2>3. e2[left[i].id] = e[left[i].id] /\ f.day[left[i].id] = desk.day[left[i].id]
    BY <1>3, <1>6, <2>2
  <2> QED BY <1>1, <1>13, <2>1, <2>3
<1>14. ASSUME NEW id \in Ids, meta[id] # 0
       PROVE  \/ f.states[id].progress = e2[id]
              \/ \E i \in DOMAIN left : left[i].id = id
  <2>1. CASE id = r.id
    BY <1>3, <1>4, <1>6, <2>1
  <2>2. CASE id # r.id
    <3>1. f.states[id] = desk.states[id] /\ e2[id] = e[id]
      BY <1>3, <1>6, <2>2
    <3>2. CASE desk.states[id].progress = e[id]
      BY <3>1, <3>2
    <3>3. CASE desk.states[id].progress # e[id]
      <4>1. PICK j \in DOMAIN waiting : waiting[j].id = id
        BY <1>1, <1>14, <3>3
      <4>2. PICK i \in DOMAIN left : left[i] = waiting[j]
        BY <2>2, <4>1
      <4> QED BY <4>1, <4>2
    <3> QED BY <3>2, <3>3
  <2> QED BY <2>1, <2>2
<1> QED BY <1>2, <1>6, <1>8, <1>11, <1>12, <1>13, <1>14 DEF DeskOK

-----------------------------------------------------------------------------
(* The server's invariant *)

\* The server's half: the desk follows the engine, and no id is on two days.
ServerInv ==
  /\ meta \in [Ids -> Nat]
  /\ engine \in [Ids -> Progress \cup {NoOrder}]
  /\ deferred \in Seq(WireReport)
  /\ reseeds \in Nat
  /\ DaysType
  /\ ~crashed
  /\ states \in [Ids -> Row]
  /\ buffer \in Seq(WireReport)
  /\ \A id \in Ids :
       /\ states[id] = StateAfter(days[Today][id])
       /\ days[Today][id] # << >> => meta[id] # 0
       /\ meta[id] = 0 => engine[id] = NoOrder
       /\ meta[id] # 0 => OrderSound(engine[id], meta[id])
  /\ \A i \in DOMAIN buffer : Waits(buffer[i], days[Today])
  /\ \A i \in DOMAIN deferred : meta[deferred[i].id] # 0 =>
       engine[deferred[i].id] = RejectedProgress /\ days[Today][deferred[i].id] = << >>
  /\ StatesFollowEngine
  /\ \A d \in Days, id \in Ids : days[d][id] # << >> /\ meta[id] # 0 => d = Today
  /\ OneDayEach
  /\ \A i \in DOMAIN deferred :
       /\ deferred[i] = RejectOf(deferred[i].id, "STALE_PRICE")
       /\ \A j \in DOMAIN deferred : deferred[i].id = deferred[j].id => i = j

\* A rejection that waits is of an order the engine has rejected.
WaitingOK ==
  \A i \in DOMAIN deferred : meta[deferred[i].id] # 0 =>
    engine[deferred[i].id] = RejectedProgress /\ days[Today][deferred[i].id] = << >>

LEMMA WaitingIs == ServerInv => WaitingOK
  BY Zenon DEF ServerInv, WaitingOK

Batch == [engine : [Ids -> Progress \cup {NoOrder, Refused}], reports : Seq(WireReport)]

More(batch) ==
  UNION {{[engine |-> Emitted(batch.engine, r), reports |-> Append(batch.reports, r)] :
            r \in NextReports(id, batch.engine[id], meta[id])} :
           id \in Working(batch.engine)}

LEMMA NextReportsType ==
  ASSUME NEW id \in Ids, NEW p \in Progress \cup {NoOrder, Refused}, NEW qty \in Nat,
         NEW r \in NextReports(id, p, qty)
  PROVE  r \in WireReport /\ r.id = id
<1>1. p.cumQty \in Int /\ p.leavesQty \in Int
  BY DEF Progress, NoOrder, Refused
<1>2. CASE \E lastQty \in 1..p.leavesQty : r = TradeOf(id, p, lastQty)
  <2>1. PICK lastQty \in 1..p.leavesQty : r = TradeOf(id, p, lastQty)
    BY <1>2
  <2>2. PICK status \in OrdStatus :
          status = IF lastQty = p.leavesQty THEN "FILLED" ELSE "PARTIALLY_FILLED"
    BY DEF OrdStatus, Terminal, Live
  <2>3. r = [id |-> id, execType |-> "TRADE", ordStatus |-> status, priced |-> TRUE,
             lastQty |-> lastQty, cumQty |-> p.cumQty + lastQty,
             leavesQty |-> p.leavesQty - lastQty, rejectReason |-> NoReason,
             eventSeq |-> 0, orderQty |-> 0]
    BY <2>1, <2>2 DEF TradeOf, ReportOf
  <2> QED BY <1>1, <2>3 DEF WireReport, ExecType
<1>3. CASE ~ \E lastQty \in 1..p.leavesQty : r = TradeOf(id, p, lastQty)
  <2>1. \/ r = ReportOf(id, "NEW", "NEW", NoQty, 0, qty, NoReason)
        \/ r = RejectOf(id, "LAST_LOOK")
        \/ r = ReportOf(id, "CANCELED", "CANCELED", NoQty, p.cumQty, 0, NoReason)
    BY <1>3 DEF NextReports
  <2>2. NoQty \in Int /\ 0 \in Nat
    BY DEF NoQty
  <2>3. CASE r = ReportOf(id, "NEW", "NEW", NoQty, 0, qty, NoReason)
    BY <2>2, <2>3 DEF ReportOf, WireReport, ExecType, OrdStatus, Live
  <2>4. CASE r = RejectOf(id, "LAST_LOOK")
    BY <2>4, RejectFolds DEF RejectReason
  <2>5. CASE r = ReportOf(id, "CANCELED", "CANCELED", NoQty, p.cumQty, 0, NoReason)
    BY <1>1, <2>2, <2>5 DEF ReportOf, WireReport, ExecType, OrdStatus, Terminal
  <2> QED BY <2>1, <2>3, <2>4, <2>5
<1> QED BY <1>2, <1>3

LEMMA MoreType ==
  ASSUME meta \in [Ids -> Nat], NEW batch \in Batch, NEW b \in More(batch)
  PROVE  b \in Batch
<1>1. PICK id \in Working(batch.engine) : \E r \in NextReports(id, batch.engine[id], meta[id]) :
        b = [engine |-> Emitted(batch.engine, r), reports |-> Append(batch.reports, r)]
  BY DEF More
<1>1a. PICK r \in NextReports(id, batch.engine[id], meta[id]) :
        b = [engine |-> Emitted(batch.engine, r), reports |-> Append(batch.reports, r)]
  BY <1>1
<1>2. id \in Ids /\ r \in WireReport /\ r.id = id
  BY <1>1a, NextReportsType DEF Working, Batch
<1>3. Emitted(batch.engine, r) \in [Ids -> Progress \cup {NoOrder, Refused}]
  BY <1>2, FoldsToProgress DEF Emitted, Batch
<1> QED BY <1>1a, <1>2, <1>3 DEF Batch

LEMMA ExtendsItself ==
  ASSUME NEW events \in Seq(Progress)
  PROVE  Extends(events, events)
  BY DEF Extends

LEMMA DeskFollows ==
  ASSUME ServerInv
  PROVE  Desk \in DeskType /\ DeskOK(Desk, engine, deferred)
<1>1. days[Today] \in [Ids -> Seq(Progress)]
  BY DEF ServerInv, DaysType, Today
<1>2. Desk \in DeskType
  BY <1>1 DEF ServerInv, Desk, DeskType
<1>3. /\ Desk.states = states /\ Desk.buffer = buffer
      /\ Desk.day = days[Today] /\ Desk.threw = FALSE
  BY DEF Desk
<1>4. \A id \in Ids : Extends(days[Today][id], days[Today][id])
  BY <1>1, ExtendsItself
<1> QED BY <1>2, <1>3, <1>4 DEF DeskOK, ServerInv, StatesFollowEngine

\* Publishing what a batch has reported leaves a desk that follows its engine.
BatchOK(b) ==
  /\ b \in Batch
  /\ \A f : Publishes(f, b.reports) => DeskOK(f[Len(b.reports)], b.engine, deferred)

LEMMA NothingDueYet ==
  ASSUME ServerInv
  PROVE  BatchOK([engine |-> engine, reports |-> << >>])
<1>1. [engine |-> engine, reports |-> << >>] \in Batch
  BY DEF ServerInv, Batch
<1> QED BY <1>1, DeskFollows DEF BatchOK, Publishes

LEMMA MoreIsDue ==
  ASSUME ServerInv, NEW batch, BatchOK(batch), NEW b \in More(batch)
  PROVE  BatchOK(b)
<1>1. PICK id \in Working(batch.engine) : \E r \in NextReports(id, batch.engine[id], meta[id]) :
        b = [engine |-> Emitted(batch.engine, r), reports |-> Append(batch.reports, r)]
  BY DEF More
<1>1a. PICK r \in NextReports(id, batch.engine[id], meta[id]) :
        b = [engine |-> Emitted(batch.engine, r), reports |-> Append(batch.reports, r)]
  BY <1>1
<1>2. /\ id \in Ids /\ meta[id] \in Nat \ {0}
      /\ batch.engine[id].status \notin Terminal
      /\ batch \in Batch /\ b \in Batch
  BY MoreType DEF ServerInv, Working, BatchOK
<1>3. SUFFICES ASSUME NEW f, Publishes(f, b.reports)
               PROVE  DeskOK(f[Len(b.reports)], b.engine, deferred)
  BY <1>2 DEF BatchOK
<1> DEFINE n == Len(batch.reports)
           g == [i \in 0..n |-> f[i]]
           e == batch.engine
<1>4. /\ batch.reports \in Seq(WireReport) /\ n \in Nat
      /\ e \in [Ids -> Progress \cup {NoOrder, Refused}]
  BY <1>2 DEF Batch
<1>5. r \in WireReport /\ r.id = id
  BY <1>2, <1>4, NextReportsType
<1>6. /\ Len(b.reports) = n + 1 /\ b.reports[n + 1] = r
      /\ \A i \in 1..n : b.reports[i] = batch.reports[i]
  BY <1>1a, <1>4, <1>5
<1>7. /\ f \in [0..(n + 1) -> DeskType] /\ f[0] = Desk
      /\ \A i \in 1..(n + 1) : f[i] = Publish(f[i - 1], b.reports[i])
  BY <1>3, <1>6 DEF Publishes
<1>8. Publishes(g, batch.reports)
  <2>1. g \in [0..n -> DeskType] /\ g[0] = Desk
    BY <1>4, <1>7
  <2>2. \A i \in 1..n : g[i] = Publish(g[i - 1], batch.reports[i])
    <3> TAKE i \in 1..n
    <3>1. i \in 1..(n + 1) /\ i \in 0..n /\ i - 1 \in 0..n
      BY <1>4
    <3> QED BY <1>6, <1>7, <3>1
  <2> QED BY <2>1, <2>2 DEF Publishes
<1>9. g[n] = f[n] /\ f[n + 1] = Publish(f[n], r)
  BY <1>4, <1>6, <1>7
<1>10. DeskOK(f[n], e, deferred)
  BY <1>2, <1>8, <1>9 DEF BatchOK
<1> HIDE DEF g
<1>11. \A i \in DOMAIN deferred : deferred[i].id # id /\ deferred[i].id \in Ids
  <2> TAKE i \in DOMAIN deferred
  <2>1. deferred[i] \in WireReport
    BY DEF ServerInv
  <2>2. deferred[i].id = id => e[id] = RejectedProgress
    BY <1>2, <1>10 DEF DeskOK
  <2> QED BY <1>2, <2>1, <2>2 DEF WireReport, RejectedProgress, Terminal
<1>12. /\ e[id] \in Progress \cup {NoOrder} /\ OrderSound(e[id], meta[id])
       /\ f[n].states[id].progress = e[id]
  BY <1>2, <1>10, <1>11 DEF DeskOK
<1>13. PICK next \in Progress :
         next = ApplyReport(e[id], r, meta[id]) /\ OrderSound(next, meta[id])
  BY <1>2, <1>12, NextFolds
<1>14. \A j \in Ids : Emitted(e, r)[j] = IF j = r.id THEN next ELSE e[j]
  BY <1>4, <1>5, <1>13 DEF Emitted
<1> HIDE DEF n, e
<1>15. DeskOK(Publish(f[n], r), Emitted(e, r), deferred)
  <2>1. DaysType
    BY DEF ServerInv
  <2> QED BY <1>2, <1>5, <1>10, <1>11, <1>12, <1>13, <1>14, <2>1, PublishFollows
<1> QED BY <1>1a, <1>6, <1>9, <1>15 DEF e

\* Whatever comes due in a tick, the desk follows it.
LEMMA DueIsOK ==
  ASSUME ServerInv, NEW batch \in DueReports
  PROVE  BatchOK(batch)
<1> DEFINE start == {[engine |-> engine, reports |-> << >>]}
           batches == CHOOSE batches : batches = [n \in 0..MaxDue |->
             IF n = 0 THEN start ELSE UNION {More(b) : b \in batches[n - 1]}]
           D == SUBSET Batch
           step == [B \in D |-> [n \in 1..MaxDue |-> UNION {More(b) : b \in B}]]
<1>1. MaxDue \in Nat
  BY WarmAssumption
<1>2. start \in D /\ meta \in [Ids -> Nat]
  BY NothingDueYet DEF BatchOK, ServerInv
<1>3. step \in Steps(MaxDue, D)
  <2>1. \A B \in D : UNION {More(b) : b \in B} \in D
    BY <1>2, MoreType
  <2> HIDE DEF D
  <2> QED BY <2>1 DEF Steps
<1>4. PICK f : IsRunOf(f, MaxDue, D, start, step)
  <2> HIDE DEF step, D, start
  <2> QED BY <1>1, <1>2, <1>3, RecursionExists
<1>5. f = [n \in 0..MaxDue |-> IF n = 0 THEN start ELSE UNION {More(b) : b \in f[n - 1]}]
  <2>1. \A n \in 0..MaxDue : n # 0 => n \in 1..MaxDue /\ n - 1 \in 0..MaxDue
    BY <1>1
  <2>2. f \in [0..MaxDue -> D] /\ f[0] = start /\ \A n \in 1..MaxDue : f[n] = step[f[n - 1]][n]
    BY <1>4 DEF IsRunOf
  <2>3. \A B \in D, n \in 1..MaxDue : step[B][n] = UNION {More(b) : b \in B}
    OBVIOUS
  <2> HIDE DEF step, D, start
  <2>4. \A n \in 0..MaxDue : f[n] = IF n = 0 THEN start ELSE UNION {More(b) : b \in f[n - 1]}
    BY <2>1, <2>2, <2>3
  <2> QED BY <2>2, <2>4
<1>6. batches = [n \in 0..MaxDue |->
         IF n = 0 THEN start ELSE UNION {More(b) : b \in batches[n - 1]}]
  <2> HIDE DEF start
  <2> QED BY <1>5
<1>7. DueReports = UNION {batches[n] : n \in 1..MaxDue}
  BY DEF DueReports, More
<1> HIDE DEF batches, step, D
<1>8. batches[0] = start /\ \A n \in 1..MaxDue : batches[n] = UNION {More(b) : b \in batches[n - 1]}
  <2>1. 0 \in 0..MaxDue /\ \A n \in 1..MaxDue : n \in 0..MaxDue /\ n # 0
    BY <1>1
  <2>2. \A n \in 0..MaxDue :
          batches[n] = IF n = 0 THEN start ELSE UNION {More(b) : b \in batches[n - 1]}
    BY <1>6
  <2> QED BY <2>1, <2>2
<1> DEFINE S == {n \in 0..MaxDue : \A b \in batches[n] : BatchOK(b)}
<1>9. 0 \in S
  BY <1>1, <1>8, NothingDueYet
<1>10. ASSUME NEW n \in 1..MaxDue, n - 1 \in S
       PROVE  n \in S
  BY <1>1, <1>8, <1>10, MoreIsDue
<1>11. \A n \in 0..MaxDue : n \in S
  <2> HIDE DEF S
  <2> QED BY <1>1, <1>9, <1>10, StepByStep
<1>12. PICK n \in 1..MaxDue : batch \in batches[n]
  BY <1>7
<1> QED BY <1>1, <1>11, <1>12

-----------------------------------------------------------------------------
(* The days grow *)

\* The days so far are kept and only added to.
Grown ==
  /\ Len(days) <= Len(days')
  /\ \A d \in Days, id \in Ids : Extends(days'[d][id], days[d][id])

LEMMA SameDaysGrown ==
  ASSUME DaysType, days' = days
  PROVE  Grown
  BY DayTypes, ExtendsItself DEF Grown, DaysType

\* A queue of the same reports, or fewer, changes nothing else.
LEMMA QueueShrinks ==
  ASSUME ServerInv, UNCHANGED <<serverVars, days, reseeds>>, buffer' \in Seq(WireReport),
         \A i \in DOMAIN buffer' : \E j \in DOMAIN buffer : buffer'[i] = buffer[j]
  PROVE  ServerInv' /\ Grown
<1>1. /\ meta' = meta /\ engine' = engine /\ states' = states /\ deferred' = deferred
      /\ crashed' = crashed /\ days' = days /\ reseeds' = reseeds
  BY DEF serverVars
<1>2. Today' = Today /\ Days' = Days
  BY <1>1 DEF Today, Days
<1>3. (\A i \in DOMAIN buffer : Waits(buffer[i], days[Today]))'
  <2>1. \A i \in DOMAIN buffer' : Waits(buffer'[i], days[Today])
    BY DEF ServerInv
  <2> QED BY <1>1, <1>2, <2>1 DEF Waits
<1>4. StatesFollowEngine'
  BY <1>1 DEF ServerInv, StatesFollowEngine
<1>5. DaysType' /\ OneDayEach'
  BY <1>1, <1>2 DEF ServerInv, DaysType, OneDayEach
<1>6. ServerInv'
  BY <1>1, <1>2, <1>3, <1>4, <1>5 DEF ServerInv
<1>7. Grown
  BY <1>1, SameDaysGrown DEF ServerInv
<1> QED BY <1>6, <1>7

LEMMA ServerInitOK ==
  ASSUME Init
  PROVE  ServerInv
<1>1. /\ meta = [id \in Ids |-> 0] /\ engine = [id \in Ids |-> NoOrder] /\ states = NoRows
      /\ deferred = << >> /\ crashed = FALSE /\ buffer = << >>
      /\ days = <<[id \in Ids |-> << >>]>> /\ reseeds = 0
  BY DEF Init
<1>2. DaysType /\ Today = 1 /\ Days = {1} /\ days[1] = [id \in Ids |-> << >>]
  <2>1. [id \in Ids |-> << >>] \in [Ids -> Seq(Progress)]
    OBVIOUS
  <2>2. PICK day \in [Ids -> Seq(Progress)] : day = [id \in Ids |-> << >>]
    BY <2>1
  <2>3. days = <<day>>
    BY <1>1, <2>2
  <2> QED BY <2>2, <2>3 DEF DaysType, Today, Days
<1>3. \A id \in Ids : days[Today][id] = << >> /\ meta[id] = 0 /\ states[id] = NoRow
                      /\ engine[id] = NoOrder
  BY <1>1, <1>2 DEF NoRows
<1>4. states \in [Ids -> Row] /\ engine \in [Ids -> Progress \cup {NoOrder}]
  BY <1>1, RowTypes DEF NoRows
<1>5. \A id \in Ids : states[id] = StateAfter(days[Today][id])
  BY <1>3 DEF StateAfter
<1>6. StatesFollowEngine
  BY <1>3 DEF StatesFollowEngine
<1>7. OneDayEach
  BY <1>2 DEF OneDayEach
<1>8. \A d \in Days, id \in Ids : days[d][id] = << >>
  BY <1>2, <1>3
<1> QED BY <1>1, <1>2, <1>3, <1>4, <1>5, <1>6, <1>7, <1>8 DEF ServerInv

-----------------------------------------------------------------------------
(* Deferred rejections and the tick *)

\* Rejections wait once each.
DeferredOK ==
  \A i \in DOMAIN deferred :
    /\ deferred[i] = RejectOf(deferred[i].id, "STALE_PRICE")
    /\ \A j \in DOMAIN deferred : deferred[i].id = deferred[j].id => i = j

LEMMA DeskBecomes ==
  ASSUME ServerInv, NEW f, DeskOK(f, engine', deferred'),
         states' = f.states, buffer' = f.buffer,
         days' = [days EXCEPT ![Today] = f.day], crashed' = f.threw,
         UNCHANGED <<meta, reseeds>>,
         engine' \in [Ids -> Progress \cup {NoOrder, Refused}],
         deferred' \in Seq(WireReport), DeferredOK'
  PROVE  ServerInv' /\ Grown /\ (~subscribed => buffer' = buffer)
<1>1. /\ f \in DeskType /\ ~f.threw
      /\ \A id \in Ids : /\ f.states[id] = StateAfter(f.day[id])
                         /\ Extends(f.day[id], days[Today][id])
                         /\ f.day[id] # << >> => meta[id] # 0
      /\ \A i \in DOMAIN f.buffer : Waits(f.buffer[i], f.day)
      /\ ~subscribed => f.buffer = buffer
      /\ \A id \in Ids :
           /\ meta[id] = 0 => engine'[id] = NoOrder
           /\ meta[id] # 0 => engine'[id] \in Progress \cup {NoOrder} /\ OrderSound(engine'[id], meta[id])
      /\ \A i \in DOMAIN deferred' : meta[deferred'[i].id] # 0 =>
           engine'[deferred'[i].id] = RejectedProgress /\ f.day[deferred'[i].id] = << >>
      /\ \A id \in Ids : meta[id] # 0 =>
           \/ f.states[id].progress = engine'[id]
           \/ \E i \in DOMAIN deferred' : deferred'[i].id = id
  BY DEF DeskOK
<1>2. /\ f.states \in [Ids -> Row] /\ f.buffer \in Seq(WireReport)
      /\ f.day \in [Ids -> Seq(Progress)]
  BY <1>1 DEF DeskType
<1>3. /\ DaysType /\ Today \in Nat /\ Today \in Days /\ Days = 1..Today
      /\ days \in Seq([Ids -> Seq(Progress)]) /\ DOMAIN days = 1..Today
      /\ meta' = meta /\ reseeds' = reseeds
  BY DayTypes DEF ServerInv, DaysType, Days, Today
<1>4. /\ days' \in Seq([Ids -> Seq(Progress)]) /\ Len(days') = Today
      /\ days'[Today] = f.day
      /\ \A d \in Days : d # Today => days'[d] = days[d]
  <2>1. PICK day \in [Ids -> Seq(Progress)] : day = f.day
    BY <1>2
  <2>2. days' = [days EXCEPT ![Today] = day]
    BY <2>1
  <2> QED BY <1>3, <2>1, <2>2 DEF Today
<1>5. Today' = Today /\ Days' = Days /\ DaysType'
  <2>1. Today' = Len(days')
    BY DEF Today
  <2>2. Days' = 1..Today'
    BY DEF Days
  <2>3. days' # << >>
    <3>1. Today >= 1
      BY <1>3
    <3> QED BY <1>3, <1>4, <3>1
  <2>4. DaysType'
    BY <1>4, <2>3 DEF DaysType
  <2> QED BY <1>3, <1>4, <2>1, <2>2, <2>4
<1>6. (engine \in [Ids -> Progress \cup {NoOrder}])'
  <2>1. \A id \in Ids : engine'[id] \in Progress \cup {NoOrder}
    BY <1>1
  <2> QED BY <2>1
<1>7. (\A id \in Ids :
       /\ states[id] = StateAfter(days[Today][id])
       /\ days[Today][id] # << >> => meta[id] # 0
       /\ meta[id] = 0 => engine[id] = NoOrder
       /\ meta[id] # 0 => OrderSound(engine[id], meta[id]))'
  BY <1>1, <1>3, <1>4, <1>5
<1>8. (\A i \in DOMAIN buffer : Waits(buffer[i], days[Today]))'
  BY <1>1, <1>3, <1>4, <1>5 DEF Waits
<1>9. (\A i \in DOMAIN deferred : meta[deferred[i].id] # 0 =>
       engine[deferred[i].id] = RejectedProgress /\ days[Today][deferred[i].id] = << >>)'
  BY <1>1, <1>3, <1>4, <1>5
<1>10. StatesFollowEngine'
  BY <1>1, <1>3 DEF StatesFollowEngine
<1>11. (\A d \in Days, id \in Ids : days[d][id] # << >> /\ meta[id] # 0 => d = Today)'
  <2>1. \A d \in Days, id \in Ids : days'[d][id] # << >> /\ meta[id] # 0 => d = Today
    <3> TAKE d \in Days, id \in Ids
    <3>1. CASE d = Today
      BY <1>1, <1>4, <3>1 DEF ServerInv
    <3>2. CASE d # Today
      BY <1>4, <3>2 DEF ServerInv
    <3> QED BY <3>1, <3>2
  <2> QED BY <1>3, <1>5, <2>1
<1>12. OneDayEach'
  <2>1. ASSUME NEW d \in Days, NEW e \in Days, NEW id \in Ids,
               days'[d][id] # << >>, days'[e][id] # << >>
        PROVE  d = e
    <3>1. CASE d # Today /\ e # Today
      BY <1>4, <2>1, <3>1 DEF ServerInv, OneDayEach
    <3>2. CASE d = Today \/ e = Today
      <4>1. meta[id] # 0
        BY <1>1, <1>4, <2>1, <3>2
      <4>2. d = Today /\ e = Today
        BY <1>3, <1>5, <1>11, <2>1, <4>1
      <4> QED BY <4>2
    <3> QED BY <3>1, <3>2
  <2> QED BY <1>5, <2>1 DEF OneDayEach
<1>13. Grown
  <2>1. ASSUME NEW d \in Days, NEW id \in Ids
        PROVE  Extends(days'[d][id], days[d][id])
    <3>1. CASE d = Today
      BY <1>1, <1>4, <3>1
    <3>2. CASE d # Today
      BY <1>3, <1>4, <3>2, DayTypes, ExtendsItself
    <3> QED BY <3>1, <3>2
  <2>2. Len(days) = Today /\ Len(days) <= Len(days')
    <3>1. Len(days) = Today
      BY DEF Today
    <3> QED BY <1>3, <1>4, <3>1
  <2> QED BY <2>1, <2>2 DEF Grown
<1>14. ServerInv'
  BY <1>1, <1>2, <1>3, <1>5, <1>6, <1>7, <1>8, <1>9, <1>10, <1>11, <1>12
     DEF ServerInv, DeferredOK
<1> QED BY <1>1, <1>13, <1>14

\* Within a day: registrations stay, and a new one is of an order nobody has
\* heard of.
Registers ==
  \A id \in Ids : /\ meta[id] # 0 => meta'[id] # 0
                  /\ meta[id] = 0 /\ meta'[id] # 0 => \A d \in Days' : days'[d][id] = << >>

LEMMA PublishDeferredOK ==
  ASSUME ServerInv, PublishDeferred
  PROVE  ServerInv' /\ Grown /\ Registers /\ (~subscribed => buffer' = buffer)
<1> DEFINE r == Head(deferred)
           id == r.id
<1>1. /\ deferred # << >> /\ PublishAll(<<r>>) /\ deferred' = Tail(deferred)
      /\ meta' = meta /\ engine' = engine /\ reseeds' = reseeds
  BY DEF PublishDeferred, boundVars
<1>2. /\ deferred \in Seq(WireReport) /\ Len(deferred) \in Nat /\ Len(deferred) >= 1
      /\ r = deferred[1] /\ r \in WireReport /\ 1 \in DOMAIN deferred
      /\ deferred' \in Seq(WireReport)
      /\ DOMAIN deferred = 1..Len(deferred)
      /\ DOMAIN deferred' = 1..(Len(deferred) - 1)
      /\ \A i \in DOMAIN deferred' : i + 1 \in DOMAIN deferred /\ deferred'[i] = deferred[i + 1]
  <2>1. deferred \in Seq(WireReport) /\ deferred # << >>
    BY <1>1 DEF ServerInv
  <2> HIDE DEF r
  <2> QED BY <1>1, <2>1 DEF r
<1>3. id \in Ids
  BY <1>2 DEF WireReport
<1> HIDE DEF r
<1>4. /\ r = RejectOf(id, "STALE_PRICE")
      /\ \A j \in DOMAIN deferred : deferred[j].id = id => j = 1
  BY <1>2 DEF ServerInv
<1>5. \A i \in DOMAIN deferred' :
        deferred'[i].id # id /\ \E j \in DOMAIN deferred : deferred'[i] = deferred[j]
  <2> TAKE i \in DOMAIN deferred'
  <2>1. i + 1 \in DOMAIN deferred /\ deferred'[i] = deferred[i + 1] /\ i + 1 # 1
    BY <1>2
  <2> QED BY <1>4, <2>1
<1>6. \A j \in DOMAIN deferred : deferred[j].id # id =>
        \E i \in DOMAIN deferred' : deferred'[i] = deferred[j]
  <2> TAKE j \in DOMAIN deferred
  <2>1. j # 1 => j - 1 \in DOMAIN deferred' /\ (j - 1) + 1 = j
    BY <1>2
  <2> QED BY <1>2, <2>1
<1>7. DeferredOK'
  <2>1. \A i \in DOMAIN deferred' : deferred'[i] = RejectOf(deferred'[i].id, "STALE_PRICE")
    BY <1>5 DEF ServerInv
  <2>2. \A i, j \in DOMAIN deferred' : deferred'[i].id = deferred'[j].id => i = j
    <3> TAKE i, j \in DOMAIN deferred'
    <3>1. deferred'[i].id = deferred'[j].id => i + 1 = j + 1
      BY <1>2 DEF ServerInv
    <3> QED BY <1>2, <3>1
  <2> QED BY <1>1, <2>1, <2>2 DEF DeferredOK
<1>8. PICK f : /\ Publishes(f, <<r>>)
               /\ states' = f[1].states /\ buffer' = f[1].buffer
               /\ days' = [days EXCEPT ![Today] = f[1].day] /\ crashed' = f[1].threw
  <2>1. <<r>> \in Seq(WireReport) /\ Len(<<r>>) = 1
    BY <1>2
  <2>2. PublishAll(<<r>>)
    BY <1>1
  <2> QED BY <2>1, <2>2, DeskFollows, PublishRuns
<1>9. f[1] = Publish(Desk, r)
  <2>1. Len(<<r>>) = 1 /\ <<r>>[1] = r /\ f[0] = Desk /\ 1 \in 1..Len(<<r>>)
    BY <1>8 DEF Publishes
  <2> QED BY <1>8, <2>1 DEF Publishes
<1>10. DeskOK(f[1], engine', deferred')
  <2>1. DeskOK(Desk, engine, deferred)
    BY DeskFollows
  <2>2. CASE meta[id] = 0
    <3>1. f[1] = Desk
      BY <1>9, <2>2 DEF Publish
    <3>2. \A j \in Ids : meta[j] # 0 =>
            \/ Desk.states[j].progress = engine[j]
            \/ \E i \in DOMAIN deferred' : deferred'[i].id = j
      <4> TAKE j \in Ids
      <4>1. SUFFICES ASSUME meta[j] # 0, Desk.states[j].progress # engine[j]
                     PROVE  \E i \in DOMAIN deferred' : deferred'[i].id = j
        OBVIOUS
      <4>2. PICK k \in DOMAIN deferred : deferred[k].id = j
        BY <2>1, <4>1 DEF DeskOK
      <4> QED BY <1>6, <2>2, <4>1, <4>2
    <3>3. \A i \in DOMAIN deferred' : meta[deferred'[i].id] # 0 =>
            engine[deferred'[i].id] = RejectedProgress /\ Desk.day[deferred'[i].id] = << >>
      BY <1>5, <2>1 DEF DeskOK
    <3> QED BY <1>1, <2>1, <3>1, <3>2, <3>3 DEF DeskOK
  <2>3. CASE meta[id] # 0
    <3>1. engine[id] = RejectedProgress /\ days[Today][id] = << >>
      <4>1. 1 \in DOMAIN deferred /\ id = deferred[1].id
        BY <1>2
      <4> QED BY <2>3, <4>1, WaitingIs DEF WaitingOK
    <3>2. Desk.states[id].progress = NoOrder
      BY <1>3, <3>1 DEF Desk, ServerInv, StateAfter, NoRow
    <3>3. meta[id] \in Nat
      BY <1>3 DEF ServerInv
    <3>4. /\ RejectedProgress = ApplyReport(NoOrder, r, meta[id])
          /\ RejectedProgress \in Progress /\ OrderSound(RejectedProgress, meta[id])
      BY <1>3, <1>4, <3>3, RejectFolds DEF RejectReason
    <3>5. \A j \in DOMAIN deferred : deferred[j].id \in Ids
      <4> TAKE j \in DOMAIN deferred
      <4>1. deferred[j] \in WireReport
        BY <1>2
      <4> QED BY <4>1 DEF WireReport
    <3>6. \A j \in Ids : engine'[j] = IF j = id THEN RejectedProgress ELSE engine[j]
      BY <1>1, <3>1
    <3>7. DaysType
      BY DEF ServerInv
    <3>8. RejectedProgress = ApplyReport(Desk.states[id].progress, r, meta[id])
      BY <3>2, <3>4
    <3> HIDE DEF id
    <3>9. DeskOK(Publish(Desk, r), engine', deferred')
      <4>1. r.id = id
        BY DEF id
      <4>2. /\ \A i \in DOMAIN deferred' : /\ deferred'[i].id # r.id
                                           /\ \E j \in DOMAIN deferred : deferred'[i] = deferred[j]
            /\ \A j \in DOMAIN deferred : deferred[j].id # r.id =>
                 \E i \in DOMAIN deferred' : deferred'[i] = deferred[j]
        BY <1>5, <1>6, <4>1
      <4>3. /\ r \in WireReport /\ meta[r.id] \in Nat /\ meta[r.id] # 0
            /\ RejectedProgress = ApplyReport(Desk.states[r.id].progress, r, meta[r.id])
            /\ OrderSound(RejectedProgress, meta[r.id])
        BY <1>2, <1>4, <2>3, <3>3, <3>4, <3>8, <4>1
      <4>4. \A j \in Ids : engine'[j] = IF j = r.id THEN RejectedProgress ELSE engine[j]
        BY <3>6, <4>1
      <4> QED BY <2>1, <3>4, <3>5, <3>7, <4>2, <4>3, <4>4, PublishFollows
    <3> QED BY <1>9, <3>9
  <2> QED BY <2>2, <2>3
<1>11. engine' \in [Ids -> Progress \cup {NoOrder, Refused}]
  BY <1>1 DEF ServerInv
<1>12. ServerInv' /\ Grown /\ (~subscribed => buffer' = buffer)
  <2>1. UNCHANGED <<meta, reseeds>>
    BY <1>1
  <2> QED BY <1>2, <1>7, <1>8, <1>10, <1>11, <2>1, DeskBecomes
<1> QED BY <1>1, <1>12 DEF Registers

LEMMA TickOK ==
  ASSUME ServerInv, NEW batch \in DueReports, Tick(batch)
  PROVE  ServerInv' /\ Grown /\ Registers /\ (~subscribed => buffer' = buffer)
<1>1. /\ engine' = batch.engine /\ PublishAll(batch.reports)
      /\ meta' = meta /\ deferred' = deferred /\ reseeds' = reseeds
  BY DEF Tick, boundVars
<1>2. BatchOK(batch)
  BY DueIsOK
<1>3. /\ batch.reports \in Seq(WireReport)
      /\ batch.engine \in [Ids -> Progress \cup {NoOrder, Refused}]
  BY <1>2 DEF BatchOK, Batch
<1>4. PICK f : /\ Publishes(f, batch.reports)
               /\ states' = f[Len(batch.reports)].states
               /\ buffer' = f[Len(batch.reports)].buffer
               /\ days' = [days EXCEPT ![Today] = f[Len(batch.reports)].day]
               /\ crashed' = f[Len(batch.reports)].threw
  BY <1>1, <1>3, DeskFollows, PublishRuns
<1>5. DeskOK(f[Len(batch.reports)], engine', deferred')
  BY <1>1, <1>2, <1>4 DEF BatchOK
<1>6. DeferredOK' /\ deferred' \in Seq(WireReport)
  BY <1>1 DEF ServerInv, DeferredOK
<1>7. ServerInv' /\ Grown /\ (~subscribed => buffer' = buffer)
  <2>1. UNCHANGED <<meta, reseeds>>
    BY <1>1
  <2> QED BY <1>1, <1>3, <1>4, <1>5, <1>6, <2>1, DeskBecomes
<1> QED BY <1>1, <1>7 DEF Registers

-----------------------------------------------------------------------------
(* Submissions and new days *)

\* The days forget an order whose id is used again.
Cleared(id) ==
  /\ Len(days') = Len(days)
  /\ \A d \in Days : /\ days'[d][id] = << >>
                     /\ \A j \in Ids : j # id => days'[d][j] = days[d][j]

LEMMA SubmitOK ==
  ASSUME ServerInv, NEW id \in Ids, NEW qty \in OrderQtys, Submit(id, qty), Gone(id)
  PROVE  ServerInv' /\ Cleared(id) /\ Registers
<1>1. /\ meta[id] = 0
      /\ meta' = [meta EXCEPT ![id] = qty]
      /\ states' = states /\ crashed' = crashed /\ buffer' = buffer /\ reseeds' = reseeds
      /\ days' = [d \in DOMAIN days |-> [days[d] EXCEPT ![id] = << >>]]
      /\ \/ engine' = engine /\ deferred' = deferred
         \/ LET r == RejectOf(id, "STALE_PRICE")
            IN /\ engine' = [engine EXCEPT ![id] = ApplyReport(NoOrder, r, qty)]
               /\ deferred' = Append(deferred, r)
  BY DEF Submit, Reuse, wireVars, ghostVars, boundVars
<1>2. qty \in Nat /\ qty # 0
  BY WarmAssumption
<1>3. Cleared(id) /\ DaysType' /\ Today' = Today /\ Days' = Days
  <2>1. /\ DaysType /\ days \in Seq([Ids -> Seq(Progress)]) /\ Len(days) \in Nat
        /\ DOMAIN days = 1..Len(days) /\ days # << >>
    BY DEF ServerInv, DaysType
  <2>2. << >> \in Seq(Progress)
    OBVIOUS
  <2>3. \A d \in 1..Len(days) : days[d] \in [Ids -> Seq(Progress)]
    BY <2>1
  <2>4. \A d \in 1..Len(days) :
          /\ days'[d] \in [Ids -> Seq(Progress)]
          /\ days'[d][id] = << >>
          /\ \A j \in Ids : j # id => days'[d][j] = days[d][j]
    BY <1>1, <2>1, <2>2, <2>3
  <2>5. days' = [d \in 1..Len(days) |-> days'[d]]
    BY <1>1, <2>1
  <2>6. days' \in Seq([Ids -> Seq(Progress)]) /\ Len(days') = Len(days)
    <3> DEFINE Day == [Ids -> Seq(Progress)]
               n == Len(days)
    <3>1. n \in Nat /\ days' = [d \in 1..n |-> days'[d]] /\ \A d \in 1..n : days'[d] \in Day
      BY <2>1, <2>4, <2>5
    <3> HIDE DEF Day, n
    <3>2. days' \in [1..n -> Day]
      BY <3>1
    <3>3. days' \in Seq(Day) /\ Len(days') = n
      BY <3>1, <3>2
    <3> QED BY <3>3 DEF Day, n
  <2>7. days' # << >>
    BY <2>1, <2>6
  <2> QED BY <2>1, <2>4, <2>6, <2>7 DEF Cleared, DaysType, Today, Days
<1>4. /\ meta' \in [Ids -> Nat] /\ meta'[id] = qty
      /\ \A j \in Ids : j # id => meta'[j] = meta[j]
  BY <1>1, <1>2 DEF ServerInv
<1>5. /\ Today' = Today /\ Days' = Days /\ DaysType /\ DaysType' /\ Today \in Days
      /\ \A d \in Days : days'[d][id] = << >>
      /\ \A d \in Days, j \in Ids : j # id => days'[d][j] = days[d][j]
      /\ \A j \in Ids : days'[Today][j] = days[Today][j]
  <2>1. DaysType /\ Today \in Days
    BY DayTypes DEF ServerInv
  <2>2. days[Today][id] = << >>
    BY <1>1 DEF ServerInv
  <2> QED BY <1>3, <2>1, <2>2 DEF Cleared
<1>6. engine[id] = NoOrder /\ states[id] = NoRow
  BY <1>1, <1>5 DEF ServerInv, StateAfter
<1>7. /\ deferred \in Seq(WireReport) /\ DOMAIN deferred = 1..Len(deferred) /\ Len(deferred) \in Nat
      /\ \A i \in DOMAIN deferred : deferred[i].id # id /\ deferred[i].id \in Ids
  <2>1. \A i \in DOMAIN deferred : deferred[i].id # id
    BY DEF Gone
  <2>2. deferred \in Seq(WireReport)
    BY DEF ServerInv
  <2>3. \A i \in DOMAIN deferred : deferred[i] \in WireReport
    BY <2>2
  <2>4. \A i \in DOMAIN deferred : deferred[i].id \in Ids
    BY <2>3 DEF WireReport
  <2> QED BY <2>1, <2>2, <2>4
<1>8. (\A i \in DOMAIN buffer : Waits(buffer[i], days[Today]))'
  <2>1. ASSUME NEW i \in DOMAIN buffer
        PROVE  /\ meta'[buffer[i].id] # 0 =>
                    ReportAt(buffer[i], meta'[buffer[i].id], days'[Today][buffer[i].id])
               /\ reseeds' = 0 => meta'[buffer[i].id] # 0
    <3>1. Waits(buffer[i], days[Today])
      BY DEF ServerInv
    <3>2. buffer[i].id # id /\ buffer[i].id \in Ids
      <4>1. buffer[i] \in WireReport
        BY DEF ServerInv
      <4> QED BY <4>1 DEF Gone, WireReport
    <3> QED BY <1>1, <1>4, <1>5, <3>1, <3>2 DEF Waits
  <2> QED BY <1>1, <1>5, <2>1 DEF Waits
<1>9. (\A d \in Days, j \in Ids : days[d][j] # << >> /\ meta[j] # 0 => d = Today)'
  <2>1. \A d \in Days, j \in Ids : days'[d][j] # << >> /\ meta'[j] # 0 => d = Today
    <3> TAKE d \in Days, j \in Ids
    <3>1. days[d][j] # << >> /\ meta[j] # 0 => d = Today
      BY Zenon DEF ServerInv
    <3> QED BY <1>4, <1>5, <3>1
  <2> QED BY <1>5, <2>1
<1>10. OneDayEach'
  <2>1. \A d \in Days, e \in Days, j \in Ids :
          days'[d][j] # << >> /\ days'[e][j] # << >> => d = e
    <3> TAKE d \in Days, e \in Days, j \in Ids
    <3>1. days[d][j] # << >> /\ days[e][j] # << >> => d = e
      BY Zenon DEF ServerInv, OneDayEach
    <3> QED BY <1>5, <3>1
  <2> QED BY <1>5, <2>1 DEF OneDayEach
<1>11. meta' \in [Ids -> Nat] /\ buffer' \in Seq(WireReport) /\ states' \in [Ids -> Row]
  BY <1>1, <1>4 DEF ServerInv
<1>12. ASSUME NEW j \in Ids, j # id
       PROVE  /\ meta'[j] = meta[j] /\ days'[Today'][j] = days[Today][j]
              /\ states'[j] = StateAfter(days'[Today'][j])
              /\ days'[Today'][j] # << >> => meta'[j] # 0
              /\ meta'[j] = 0 => engine[j] = NoOrder
              /\ meta'[j] # 0 => OrderSound(engine[j], meta'[j])
  <2>1. /\ states[j] = StateAfter(days[Today][j])
        /\ days[Today][j] # << >> => meta[j] # 0
        /\ meta[j] = 0 => engine[j] = NoOrder
        /\ meta[j] # 0 => OrderSound(engine[j], meta[j])
    BY Zenon DEF ServerInv
  <2>2. meta'[j] = meta[j] /\ days'[Today'][j] = days[Today][j]
    BY <1>4, <1>5, <1>12
  <2> QED BY <1>1, <2>1, <2>2
<1>13. days'[Today'][id] = << >>
  BY <1>5
<1>14. ASSUME engine' = engine, deferred' = deferred
       PROVE  ServerInv'
  <2>1. (\A j \in Ids :
          /\ states[j] = StateAfter(days[Today][j])
          /\ days[Today][j] # << >> => meta[j] # 0
          /\ meta[j] = 0 => engine[j] = NoOrder
          /\ meta[j] # 0 => OrderSound(engine[j], meta[j]))'
    <3>1. ASSUME NEW j \in Ids, j # id
          PROVE  /\ states'[j] = StateAfter(days'[Today'][j])
                 /\ days'[Today'][j] # << >> => meta'[j] # 0
                 /\ meta'[j] = 0 => engine'[j] = NoOrder
                 /\ meta'[j] # 0 => OrderSound(engine'[j], meta'[j])
      BY <1>12, <3>1, <1>14
    <3>2. /\ states'[id] = StateAfter(days'[Today'][id])
          /\ days'[Today'][id] # << >> => meta'[id] # 0
          /\ meta'[id] = 0 => engine'[id] = NoOrder
          /\ meta'[id] # 0 => OrderSound(engine'[id], meta'[id])
      BY <1>1, <1>2, <1>4, <1>6, <1>14, <1>13 DEF OrderSound, StateAfter
    <3> QED BY <3>1, <3>2
  <2>2. (\A i \in DOMAIN deferred : meta[deferred[i].id] # 0 =>
          engine[deferred[i].id] = RejectedProgress /\ days[Today][deferred[i].id] = << >>)'
    <3> SUFFICES ASSUME NEW i \in DOMAIN deferred, meta'[deferred[i].id] # 0
                 PROVE  /\ engine[deferred[i].id] = RejectedProgress
                        /\ days'[Today'][deferred[i].id] = << >>
      BY <1>14
    <3>1. deferred[i].id \in Ids /\ deferred[i].id # id
      BY <1>7
    <3>2. meta[deferred[i].id] # 0
      BY <1>4, <3>1
    <3>3. engine[deferred[i].id] = RejectedProgress /\ days[Today][deferred[i].id] = << >>
      BY <3>2, WaitingIs DEF WaitingOK
    <3> QED BY <1>12, <3>1, <3>3
  <2>3. StatesFollowEngine'
    BY <1>1, <1>4, <1>6, <1>14 DEF ServerInv, StatesFollowEngine, NoRow
  <2>4. (\A i \in DOMAIN deferred :
          /\ deferred[i] = RejectOf(deferred[i].id, "STALE_PRICE")
          /\ \A j \in DOMAIN deferred : deferred[i].id = deferred[j].id => i = j)'
    BY <1>14 DEF ServerInv
  <2> QED BY <1>1, <1>3, <1>4, <1>5, <1>8, <1>9, <1>10, <1>11, <1>14, <2>1, <2>2, <2>3, <2>4
          DEF ServerInv
<1>15. ASSUME LET r == RejectOf(id, "STALE_PRICE")
              IN /\ engine' = [engine EXCEPT ![id] = ApplyReport(NoOrder, r, qty)]
                 /\ deferred' = Append(deferred, r)
       PROVE  ServerInv'
  <2> DEFINE r == RejectOf(id, "STALE_PRICE")
             n == Len(deferred)
  <2>1. /\ r \in WireReport /\ r.id = id
        /\ ApplyReport(NoOrder, r, qty) = RejectedProgress
        /\ RejectedProgress \in Progress /\ OrderSound(RejectedProgress, qty)
    BY <1>2, RejectFolds DEF RejectReason
  <2> HIDE DEF r
  <2>2. /\ engine' = [engine EXCEPT ![id] = RejectedProgress]
        /\ deferred' = Append(deferred, r) /\ r = RejectOf(id, "STALE_PRICE")
    BY <1>15, <2>1 DEF r
  <2>3. engine' \in [Ids -> Progress \cup {NoOrder}]
    BY <2>1, <2>2 DEF ServerInv
  <2>4. /\ deferred' \in Seq(WireReport) /\ DOMAIN deferred' = 1..(n + 1)
        /\ deferred'[n + 1] = r
        /\ \A i \in 1..n : deferred'[i] = deferred[i]
        /\ \A i \in DOMAIN deferred' : i \in 1..n \/ i = n + 1
    BY <1>7, <2>1, <2>2
  <2>5. (\A j \in Ids :
          /\ states[j] = StateAfter(days[Today][j])
          /\ days[Today][j] # << >> => meta[j] # 0
          /\ meta[j] = 0 => engine[j] = NoOrder
          /\ meta[j] # 0 => OrderSound(engine[j], meta[j]))'
    <3>1. ASSUME NEW j \in Ids, j # id
          PROVE  /\ states'[j] = StateAfter(days'[Today'][j])
                 /\ days'[Today'][j] # << >> => meta'[j] # 0
                 /\ meta'[j] = 0 => engine'[j] = NoOrder
                 /\ meta'[j] # 0 => OrderSound(engine'[j], meta'[j])
      <4>1. engine'[j] = engine[j]
        BY <2>2, <3>1 DEF ServerInv
      <4> QED BY <1>12, <3>1, <4>1
    <3>2. /\ states'[id] = StateAfter(days'[Today'][id])
          /\ days'[Today'][id] # << >> => meta'[id] # 0
          /\ meta'[id] = 0 => engine'[id] = NoOrder
          /\ meta'[id] # 0 => OrderSound(engine'[id], meta'[id])
      <4>1. engine'[id] = RejectedProgress
        BY <2>2 DEF ServerInv
      <4> QED BY <1>1, <1>2, <1>4, <1>6, <1>13, <2>1, <4>1 DEF StateAfter
    <3> QED BY <3>1, <3>2
  <2>6. (\A i \in DOMAIN deferred : meta[deferred[i].id] # 0 =>
          engine[deferred[i].id] = RejectedProgress /\ days[Today][deferred[i].id] = << >>)'
    <3> TAKE i \in DOMAIN deferred'
    <3>1. CASE i = n + 1
      <4>1. deferred'[i].id = id
        BY <2>1, <2>4, <3>1
      <4>2. engine'[id] = RejectedProgress /\ days'[Today'][id] = << >>
        BY <1>1, <1>5, <2>2 DEF ServerInv
      <4>3. engine'[deferred'[i].id] = RejectedProgress /\ days'[Today'][deferred'[i].id] = << >>
        BY <4>1, <4>2
      <4> QED BY <4>3
    <3>2. CASE i \in 1..n
      <4>1. i \in DOMAIN deferred /\ deferred'[i] = deferred[i]
        BY <1>7, <2>4, <3>2
      <4>2. deferred[i].id \in Ids /\ deferred[i].id # id
        BY <1>7, <4>1
      <4>3. /\ meta'[deferred[i].id] = meta[deferred[i].id]
            /\ engine'[deferred[i].id] = engine[deferred[i].id]
        BY <1>4, <2>2, <4>2 DEF ServerInv
      <4>4. meta[deferred[i].id] # 0 =>
              engine[deferred[i].id] = RejectedProgress /\ days[Today][deferred[i].id] = << >>
        BY <4>1, WaitingIs DEF WaitingOK
      <4>5. meta'[deferred'[i].id] # 0 =>
              engine'[deferred'[i].id] = RejectedProgress /\ days'[Today'][deferred'[i].id] = << >>
        BY <1>12, <4>1, <4>2, <4>3, <4>4
      <4> QED BY <4>5
    <3> QED BY <2>4, <3>1, <3>2
  <2>7. StatesFollowEngine'
    <3> SUFFICES ASSUME NEW j \in Ids, meta'[j] # 0
                 PROVE  \/ states'[j].progress = engine'[j]
                        \/ \E i \in DOMAIN deferred' : deferred'[i].id = j
      BY DEF StatesFollowEngine
    <3>1. CASE j = id
      <4>1. n + 1 \in DOMAIN deferred' /\ deferred'[n + 1].id = j
        BY <1>7, <2>1, <2>4, <3>1
      <4> QED BY <4>1
    <3>2. CASE j # id
      <4>1. \/ states[j].progress = engine[j]
            \/ \E i \in DOMAIN deferred : deferred[i].id = j
        BY <1>4, <3>2 DEF ServerInv, StatesFollowEngine
      <4>2. \A i \in DOMAIN deferred : i \in DOMAIN deferred' /\ deferred'[i] = deferred[i]
        BY <1>7, <2>4
      <4> QED BY <1>1, <2>2, <3>2, <4>1, <4>2 DEF ServerInv
    <3> QED BY <3>1, <3>2
  <2>8. (\A i \in DOMAIN deferred :
          /\ deferred[i] = RejectOf(deferred[i].id, "STALE_PRICE")
          /\ \A j \in DOMAIN deferred : deferred[i].id = deferred[j].id => i = j)'
    <3>1. ASSUME NEW i \in 1..n
          PROVE  /\ deferred'[i] = RejectOf(deferred'[i].id, "STALE_PRICE")
                 /\ \A j \in 1..n : deferred'[i].id = deferred'[j].id => i = j
                 /\ deferred'[i].id # id
      BY <1>7, <2>4 DEF ServerInv
    <3>2. deferred'[n + 1].id = id /\ deferred'[n + 1] = RejectOf(id, "STALE_PRICE")
      BY <2>1, <2>2, <2>4
    <3> QED BY <2>4, <3>1, <3>2
  <2> QED BY <1>1, <1>3, <1>4, <1>5, <1>8, <1>9, <1>10, <1>11, <2>3, <2>4, <2>5, <2>6, <2>7, <2>8
          DEF ServerInv
<1>16. Registers
  <2>1. \A j \in Ids : meta[j] # 0 => meta'[j] # 0
    BY <1>1, <1>4
  <2>2. \A j \in Ids : meta[j] = 0 /\ meta'[j] # 0 => j = id
    BY <1>4
  <2> QED BY <1>1, <1>5, <2>1, <2>2 DEF Registers
<1> QED BY <1>1, <1>3, <1>14, <1>15, <1>16

\* A new trading day: the days gain an empty one.
Dawns ==
  /\ meta' = [id \in Ids |-> 0]
  /\ engine' = [id \in Ids |-> NoOrder]
  /\ states' = NoRows
  /\ days' = Append(days, [id \in Ids |-> << >>])
  /\ crashed' = FALSE

LEMMA DawnOK ==
  ASSUME ServerInv, Dawns, reseeds' \in Nat,
         deferred' \in Seq(WireReport), DeferredOK',
         buffer' \in Seq(WireReport),
         buffer' = << >> \/ reseeds' # 0
  PROVE  ServerInv' /\ Grown
<1>1. /\ DaysType /\ Today \in Nat /\ Days = 1..Today
      /\ days \in Seq([Ids -> Seq(Progress)])
  BY DayTypes DEF ServerInv, DaysType, Days
<1>2. PICK day \in [Ids -> Seq(Progress)] : day = [id \in Ids |-> << >>]
  <2>1. [id \in Ids |-> << >>] \in [Ids -> Seq(Progress)]
    OBVIOUS
  <2> QED BY <2>1
<1>3. /\ days' \in Seq([Ids -> Seq(Progress)]) /\ Len(days') = Today + 1
      /\ days'[Today + 1] = day
      /\ \A d \in Days : days'[d] = days[d]
  BY <1>1, <1>2 DEF Dawns, Today
<1>4. Today' = Today + 1 /\ DaysType' /\ \A d \in Days' : d \in Days \/ d = Today'
  <2>1. Today' = Len(days')
    BY DEF Today
  <2>2. Days' = 1..Today'
    BY DEF Days
  <2>3. days' # << >>
    BY <1>1, <1>3
  <2> QED BY <1>1, <1>3, <2>1, <2>2, <2>3 DEF DaysType
<1>5. \A id \in Ids : days'[Today'][id] = << >> /\ meta'[id] = 0
  BY <1>2, <1>3, <1>4 DEF Dawns
<1>5a. ASSUME NEW d \in Days', NEW id \in Ids, days'[d][id] # << >>
       PROVE  d \in Days /\ days'[d] = days[d]
  BY <1>3, <1>4, <1>5, <1>5a
<1>6. /\ meta' \in [Ids -> Nat] /\ engine' \in [Ids -> Progress \cup {NoOrder}]
      /\ states' \in [Ids -> Row]
  BY RowTypes DEF Dawns, NoRows
<1>7. (\A id \in Ids :
       /\ states[id] = StateAfter(days[Today][id])
       /\ days[Today][id] # << >> => meta[id] # 0
       /\ meta[id] = 0 => engine[id] = NoOrder
       /\ meta[id] # 0 => OrderSound(engine[id], meta[id]))'
  BY <1>5 DEF Dawns, StateAfter, NoRows
<1>8. (\A i \in DOMAIN buffer : Waits(buffer[i], days[Today]))'
  <2>1. \A i \in DOMAIN buffer' : buffer'[i].id \in Ids
    <3> TAKE i \in DOMAIN buffer'
    <3>1. buffer'[i] \in WireReport
      OBVIOUS
    <3> QED BY <3>1 DEF WireReport
  <2>2. \A i \in DOMAIN buffer' : meta'[buffer'[i].id] = 0 /\ reseeds' # 0
    BY <1>5, <2>1 DEF Dawns
  <2> QED BY <2>2 DEF Waits
<1>9. \A i \in DOMAIN deferred' : meta'[deferred'[i].id] = 0
  <2> TAKE i \in DOMAIN deferred'
  <2>1. deferred'[i] \in WireReport
    OBVIOUS
  <2>2. deferred'[i].id \in Ids
    BY <2>1 DEF WireReport
  <2> QED BY <1>5, <2>2
<1>10. StatesFollowEngine'
  BY <1>5 DEF StatesFollowEngine
<1>11. (\A d \in Days, id \in Ids : days[d][id] # << >> /\ meta[id] # 0 => d = Today)'
  BY <1>5
<1>12. OneDayEach'
  <2>1. \A d \in Days', e \in Days', id \in Ids :
          days'[d][id] # << >> /\ days'[e][id] # << >> => d = e
    <3> SUFFICES ASSUME NEW d \in Days', NEW e \in Days', NEW id \in Ids,
                        days'[d][id] # << >>, days'[e][id] # << >>
                 PROVE  d = e
      OBVIOUS
    <3>1. d \in Days /\ e \in Days /\ days[d][id] # << >> /\ days[e][id] # << >>
      BY <1>5a
    <3> QED BY <3>1 DEF ServerInv, OneDayEach
  <2> QED BY <2>1 DEF OneDayEach
<1>13. Grown
  <2>1. Len(days) = Today
    BY DEF Today
  <2> QED BY <1>1, <1>3, <2>1, DayTypes, ExtendsItself DEF Grown
<1>14. ServerInv'
  <2>1. crashed' = FALSE
    BY DEF Dawns
  <2> QED BY <1>4, <1>5, <1>6, <1>7, <1>8, <1>9, <1>10, <1>11, <1>12, <2>1 DEF ServerInv, DeferredOK
<1> QED BY <1>13, <1>14

LEMMA ReseedOK ==
  ASSUME ServerInv, Reseed
  PROVE  ServerInv' /\ Grown /\ reseeds' # 0
<1>1. /\ Dawns /\ deferred' = deferred /\ buffer' = buffer /\ reseeds' = reseeds + 1
      /\ reseeds \in Nat
  BY DEF Reseed, Dawns, wireVars, ServerInv
<1>2. DeferredOK' /\ deferred' \in Seq(WireReport) /\ buffer' \in Seq(WireReport)
  BY <1>1 DEF ServerInv, DeferredOK
<1>3. reseeds' \in Nat /\ reseeds' # 0
  BY <1>1
<1> QED BY <1>1, <1>2, <1>3, DawnOK

LEMMA RestartOK ==
  ASSUME ServerInv, Restart
  PROVE  ServerInv' /\ Grown
<1>1. /\ deferred' = << >> /\ buffer' = << >> /\ reseeds' = reseeds
      /\ meta' = [id \in Ids |-> 0] /\ engine' = [id \in Ids |-> NoOrder]
      /\ states' = NoRows /\ days' = Append(days, [id \in Ids |-> << >>])
      /\ crashed' = FALSE
  BY DEF Restart, LinkGone
<1>2. Dawns /\ reseeds' \in Nat
  BY <1>1 DEF ServerInv, Dawns
<1>3. DeferredOK'
  BY <1>1 DEF DeferredOK
<1>4. << >> \in Seq(WireReport)
  OBVIOUS
<1> QED BY <1>1, <1>2, <1>3, <1>4, DawnOK

-----------------------------------------------------------------------------
(* The invariant of the whole plane *)

Message ==
  [kind : {"report"}, report : WireReport] \cup [kind : {"orders"}, rows : [Ids -> Row]]
    \cup [kind : {"error"}]

\* What is on its way is true, and nothing is on its way without a socket.
WireInv ==
  /\ link \in {"down", "open"}
  /\ link = "down" => downlink = << >> /\ buffer = << >> /\ uplink = << >> /\ ~subscribed
  /\ link = "open" => greeted
  /\ subscribed \in BOOLEAN
  /\ downlink \in Seq(Message)
  /\ \A i \in DOMAIN downlink :
       /\ downlink[i].kind = "report" => TrueReport(downlink[i].report)
       /\ downlink[i].kind = "orders" => \A id \in Ids : TrueRow(downlink[i].rows[id], id)

\* What the page has is true; it waits for an answer while it queues.
PageInv ==
  /\ ~pageThrew /\ ~retry
  /\ asking \in Nat /\ drawn \in [Ids -> Row]
  /\ store \in Store /\ store.holes = 0 /\ ~store.threw
  /\ \A id \in Ids : TrueRow(store.rows[id], id)
  /\ \A i \in DOMAIN store.pending : TrueReport(store.pending[i])
  /\ store.pending # << >> => store.syncing
  /\ store.syncing => asking >= 1

\* The number of an order's event in a message, 0 if it has none.
Num(m, id) ==
  IF m.kind = "report" THEN IF m.report.id = id THEN m.report.eventSeq ELSE 0
  ELSE IF m.kind = "orders" THEN m.rows[id].eventSeq ELSE 0

\* Nothing the page has, and nothing among the first j messages, goes beyond told.
Covers(told, id, j) ==
  /\ store.rows[id].eventSeq <= told
  /\ \A i \in 1..j : Num(downlink[i], id) <= told
  /\ \A i \in DOMAIN store.pending :
       store.pending[i].id = id => store.pending[i].eventSeq <= told

\* A snapshot on its way has everything that is before it.
Behind ==
  \A j \in DOMAIN downlink : downlink[j].kind = "orders" =>
    \A id \in Ids : meta[id] # 0 => Covers(downlink[j].rows[id].eventSeq, id, j)

\* Without a reseed a socket never outlives its day: only queued reports may be of
\* an old one, and only until the first answer.
OneDayInv ==
  reseeds = 0 =>
    /\ \A i \in DOMAIN downlink :
         /\ downlink[i].kind = "report" => ~Old(downlink[i].report)
         /\ downlink[i].kind = "orders" => OfToday(downlink[i].rows)
    /\ link = "open" /\ ~store.syncing => OfToday(store.rows)
    /\ \E d \in Days : \A id \in Ids : RowAt(store.rows[id], days[d][id])
    /\ ~greeted => store.rows = NoRows /\ store.pending = << >>
    /\ link = "open" => asking >= 2 \/ PendingFine(store.pending)
    /\ OldFirst(store.pending)

Inv == ServerInv /\ WireInv /\ PageInv /\ Behind /\ OneDayInv

LaterReport(r) == \E d \in Days' : ReportAt(r, r.orderQty, days'[d][r.id])
LaterRow(row, id) == \E d \in Days' : RowAt(row, days'[d][id])

LEMMA ExtendsMeans ==
  ASSUME NEW a \in Seq(Progress), NEW b \in Seq(Progress), Extends(b, a)
  PROVE  /\ \A r, qty : ReportAt(r, qty, a) => ReportAt(r, qty, b)
         /\ \A row : RowAt(row, a) => RowAt(row, b)
<1>1. \A n \in 1..Len(a) : n \in 1..Len(b) /\ b[n] = a[n]
  BY DEF Extends
<1>2. \A n \in 1..Len(a) : Before(b, n) = Before(a, n)
  <2> TAKE n \in 1..Len(a)
  <2>1. n # 1 => n - 1 \in 1..Len(a)
    OBVIOUS
  <2> QED BY <1>1, <2>1 DEF Before
<1> QED BY <1>1, <1>2 DEF ReportAt, RowAt

\* What was true stays true.
LEMMA TruthStays ==
  ASSUME DaysType, DaysType', Grown
  PROVE  /\ Days \subseteq Days'
         /\ \A d \in Days, id \in Ids : \A row : RowAt(row, days[d][id]) => RowAt(row, days'[d][id])
         /\ \A r \in WireReport : TrueReport(r) => LaterReport(r)
         /\ \A id \in Ids : \A row : TrueRow(row, id) => LaterRow(row, id)
<1>1. Days \subseteq Days'
  BY DayTypes DEF Grown, Days, Today, DaysType
<1>2. ASSUME NEW d \in Days, NEW id \in Ids
      PROVE  /\ \A r, qty : ReportAt(r, qty, days[d][id]) => ReportAt(r, qty, days'[d][id])
             /\ \A row : RowAt(row, days[d][id]) => RowAt(row, days'[d][id])
  <2>1. days[d][id] \in Seq(Progress)
    BY DayTypes
  <2>2. days'[d][id] \in Seq(Progress)
    <3>1. d \in 1..Len(days') /\ days' \in Seq([Ids -> Seq(Progress)])
      BY <1>1 DEF Days, Today, DaysType
    <3> QED BY <3>1
  <2>3. Extends(days'[d][id], days[d][id])
    BY DEF Grown
  <2> QED BY <2>1, <2>2, <2>3, ExtendsMeans
<1>3. ASSUME NEW r \in WireReport, TrueReport(r)
      PROVE  LaterReport(r)
  <2>1. PICK d \in Days : ReportAt(r, r.orderQty, days[d][r.id])
    BY <1>3 DEF TrueReport
  <2>2. r.id \in Ids
    BY DEF WireReport
  <2> QED BY <1>1, <1>2, <2>1, <2>2 DEF LaterReport
<1>4. ASSUME NEW id \in Ids, NEW row, TrueRow(row, id)
      PROVE  LaterRow(row, id)
  <2>1. PICK d \in Days : RowAt(row, days[d][id])
    BY <1>4 DEF TrueRow
  <2> QED BY <1>1, <1>2, <2>1 DEF LaterRow
<1> QED BY <1>1, <1>2, <1>3, <1>4

\* Nobody has anything of an order that is registered in this step.
LEMMA FreshIsUnheard ==
  ASSUME Registers, DaysType'
  PROVE  /\ \A r \in WireReport : LaterReport(r) => (meta'[r.id] = 0 <=> meta[r.id] = 0)
         /\ \A id \in Ids : \A row : LaterRow(row, id) /\ row # NoRow => (meta'[id] = 0 <=> meta[id] = 0)
<1>1. ASSUME NEW r \in WireReport, LaterReport(r)
      PROVE  meta'[r.id] = 0 <=> meta[r.id] = 0
  <2>1. PICK d \in Days' : ReportAt(r, r.orderQty, days'[d][r.id])
    BY <1>1 DEF LaterReport
  <2>2. r.id \in Ids
    BY DEF WireReport
  <2>3. days'[d][r.id] # << >>
    <3>1. r.eventSeq \in 1..Len(days'[d][r.id]) /\ Len(<< >>) = 0
      BY <2>1 DEF ReportAt
    <3> QED BY <3>1
  <2> QED BY <2>2, <2>3 DEF Registers
<1>2. ASSUME NEW id \in Ids, NEW row, LaterRow(row, id), row # NoRow
      PROVE  meta'[id] = 0 <=> meta[id] = 0
  <2>1. PICK d \in Days' : RowAt(row, days'[d][id])
    BY <1>2 DEF LaterRow
  <2>2. days'[d][id] # << >>
    <3>1. row.eventSeq \in 1..Len(days'[d][id]) /\ Len(<< >>) = 0
      BY <1>2, <2>1 DEF RowAt
    <3> QED BY <3>1
  <2> QED BY <2>2 DEF Registers
<1> QED BY <1>1, <1>2

pageKept == <<asking, retry, store, drawn, pageThrew>>

\* What the page and its messages say is still said of the days.
StillTrue ==
  /\ Days \subseteq Days'
  /\ \A d \in Days, id \in Ids :
       RowAt(store.rows[id], days[d][id]) => RowAt(store.rows[id], days'[d][id])
  /\ \A i \in DOMAIN store.pending :
       store.pending[i] \in WireReport /\ LaterReport(store.pending[i])
  /\ \A i \in DOMAIN downlink :
       /\ downlink[i].kind = "report" =>
            downlink[i].report \in WireReport /\ LaterReport(downlink[i].report)
       /\ downlink[i].kind = "orders" =>
            /\ downlink[i].rows \in [Ids -> Row]
            /\ \A id \in Ids : LaterRow(downlink[i].rows[id], id)

LEMMA MessageTypes ==
  ASSUME PageInv, WireInv
  PROVE  /\ \A i \in DOMAIN store.pending : store.pending[i] \in WireReport
         /\ \A i \in DOMAIN downlink :
              /\ downlink[i].kind = "report" => downlink[i].report \in WireReport
              /\ downlink[i].kind = "orders" => downlink[i].rows \in [Ids -> Row]
<1>1. \A i \in DOMAIN store.pending : store.pending[i] \in WireReport
  BY DEF PageInv, Store
<1>2. ASSUME NEW i \in DOMAIN downlink
      PROVE  /\ downlink[i].kind = "report" => downlink[i].report \in WireReport
             /\ downlink[i].kind = "orders" => downlink[i].rows \in [Ids -> Row]
  <2>1. downlink[i] \in Message
    BY DEF WireInv
  <2> QED BY <2>1 DEF Message
<1> QED BY <1>1, <1>2

\* Days that only grow keep everything true.
LEMMA GrownIsTrue ==
  ASSUME PageInv, WireInv, DaysType, DaysType', Grown
  PROVE  StillTrue
<1>1. /\ \A i \in DOMAIN store.pending : store.pending[i] \in WireReport
      /\ \A i \in DOMAIN downlink :
           /\ downlink[i].kind = "report" => downlink[i].report \in WireReport
           /\ downlink[i].kind = "orders" => downlink[i].rows \in [Ids -> Row]
  BY MessageTypes
<1>2. \A i \in DOMAIN store.pending : LaterReport(store.pending[i])
  BY <1>1, TruthStays DEF PageInv
<1>3. \A i \in DOMAIN downlink :
        /\ downlink[i].kind = "report" => LaterReport(downlink[i].report)
        /\ downlink[i].kind = "orders" => \A id \in Ids : LaterRow(downlink[i].rows[id], id)
  BY <1>1, TruthStays DEF WireInv
<1> QED BY <1>1, <1>2, <1>3, TruthStays DEF StillTrue

\* And so does forgetting an order of which nothing is left.
LEMMA ClearedIsTrue ==
  ASSUME PageInv, WireInv, DaysType, NEW gone \in Ids, Gone(gone), Cleared(gone)
  PROVE  StillTrue
<1>1. /\ \A i \in DOMAIN store.pending : store.pending[i] \in WireReport
      /\ \A i \in DOMAIN downlink :
           /\ downlink[i].kind = "report" => downlink[i].report \in WireReport
           /\ downlink[i].kind = "orders" => downlink[i].rows \in [Ids -> Row]
  BY MessageTypes
<1>2. Days' = Days /\ \A d \in Days, id \in Ids : id # gone => days'[d][id] = days[d][id]
  BY DEF Cleared, Days, Today
<1>3. ASSUME NEW r \in WireReport, r.id # gone, TrueReport(r)
      PROVE  LaterReport(r)
  BY <1>2, <1>3 DEF TrueReport, LaterReport, WireReport
<1>4. ASSUME NEW id \in Ids, NEW row, id = gone => row = NoRow, TrueRow(row, id)
      PROVE  LaterRow(row, id)
  <2>1. PICK d \in Days : RowAt(row, days[d][id])
    BY <1>4 DEF TrueRow
  <2>2. RowAt(row, days'[d][id])
    BY <1>2, <1>4, <2>1 DEF RowAt
  <2> QED BY <1>2, <2>2 DEF LaterRow
<1>5. \A d \in Days, id \in Ids :
        RowAt(store.rows[id], days[d][id]) => RowAt(store.rows[id], days'[d][id])
  BY <1>2 DEF Gone, RowAt
<1>6. \A i \in DOMAIN store.pending : LaterReport(store.pending[i])
  BY <1>1, <1>3 DEF PageInv, Gone
<1>7. \A i \in DOMAIN downlink :
        /\ downlink[i].kind = "report" => LaterReport(downlink[i].report)
        /\ downlink[i].kind = "orders" => \A id \in Ids : LaterRow(downlink[i].rows[id], id)
  BY <1>1, <1>3, <1>4 DEF WireInv, Gone
<1> QED BY <1>1, <1>2, <1>5, <1>6, <1>7 DEF StillTrue

\* The page keeps what it has.
LEMMA PageKeepsTruth ==
  ASSUME PageInv, UNCHANGED pageKept,
         \A id \in Ids : LaterRow(store.rows[id], id),
         \A i \in DOMAIN store.pending : LaterReport(store.pending[i])
  PROVE  PageInv'
<1>1. /\ asking' = asking /\ retry' = retry /\ store' = store /\ drawn' = drawn
      /\ pageThrew' = pageThrew
  BY DEF pageKept
<1>2. (\A id \in Ids : TrueRow(store.rows[id], id))'
  BY <1>1 DEF TrueRow, LaterRow
<1>3. (\A i \in DOMAIN store.pending : TrueReport(store.pending[i]))'
  BY <1>1 DEF TrueReport, LaterReport
<1> QED BY <1>1, <1>2, <1>3 DEF PageInv

LEMMA PageStays ==
  ASSUME PageInv, DaysType, DaysType', Grown, UNCHANGED pageKept
  PROVE  PageInv'
<1>1. \A id \in Ids : LaterRow(store.rows[id], id)
  BY TruthStays DEF PageInv
<1>2. \A i \in DOMAIN store.pending : LaterReport(store.pending[i])
  <2> TAKE i \in DOMAIN store.pending
  <2>1. store.pending[i] \in WireReport
    BY DEF PageInv, Store
  <2> QED BY <2>1, TruthStays DEF PageInv
<1> QED BY <1>1, <1>2, PageKeepsTruth

\* And messages stay true.
LEMMA WireStays ==
  ASSUME WireInv, StillTrue,
         UNCHANGED <<link, greeted, uplink, subscribed, downlink>>,
         ~subscribed => buffer' = buffer
  PROVE  WireInv'
<1>1. (\A i \in DOMAIN downlink :
        /\ downlink[i].kind = "report" => TrueReport(downlink[i].report)
        /\ downlink[i].kind = "orders" => \A id \in Ids : TrueRow(downlink[i].rows[id], id))'
  BY DEF StillTrue, TrueReport, TrueRow, LaterReport, LaterRow
<1> QED BY <1>1 DEF WireInv

-----------------------------------------------------------------------------
(* The server acts, the socket is lost *)

\* A step of the server within its day changes nothing for what is on its way or
\* on the page: a new registration is of an order nobody has heard of.
LEMMA ServerStepOK ==
  ASSUME Inv, ServerInv', StillTrue, Registers,
         UNCHANGED <<link, greeted, uplink, subscribed, downlink>>, UNCHANGED pageKept,
         reseeds' = reseeds, ~subscribed => buffer' = buffer
  PROVE  Inv'
<1>1. DaysType /\ DaysType' /\ WireInv /\ PageInv /\ Behind /\ OneDayInv /\ ServerInv
  BY DEF Inv, ServerInv
<1>2. WireInv'
  BY <1>1, WireStays
<1>3. /\ link' = link /\ greeted' = greeted /\ downlink' = downlink
      /\ store' = store /\ asking' = asking
  BY DEF pageKept
<1>4. \A id \in Ids : LaterRow(store.rows[id], id) /\ store.rows[id] \in Row
  BY <1>1 DEF PageInv, Store, TrueRow, LaterRow, StillTrue
<1>5. \A i \in DOMAIN store.pending :
        store.pending[i] \in WireReport /\ LaterReport(store.pending[i])
  BY DEF StillTrue
<1>5a. PageInv'
  BY <1>1, <1>4, <1>5, PageKeepsTruth
<1>6. \A i \in DOMAIN downlink :
        /\ downlink[i].kind = "report" =>
             downlink[i].report \in WireReport /\ LaterReport(downlink[i].report)
        /\ downlink[i].kind = "orders" =>
             /\ downlink[i].rows \in [Ids -> Row]
             /\ \A id \in Ids : LaterRow(downlink[i].rows[id], id)
  BY DEF StillTrue
<1>7. /\ \A r \in WireReport : LaterReport(r) => (meta'[r.id] = 0 <=> meta[r.id] = 0)
      /\ \A id \in Ids : \A row : LaterRow(row, id) /\ row # NoRow => (meta'[id] = 0 <=> meta[id] = 0)
  BY <1>1, FreshIsUnheard
<1>8. Behind'
  <2> SUFFICES ASSUME NEW j \in DOMAIN downlink, downlink[j].kind = "orders",
                      NEW id \in Ids, meta'[id] # 0
               PROVE  Covers(downlink[j].rows[id].eventSeq, id, j)
    BY <1>3 DEF Behind, Covers
  <2>1. CASE meta[id] # 0
    BY <1>1, <2>1 DEF Behind
  <2>2. CASE meta[id] = 0
    <3> DEFINE told == downlink[j].rows[id].eventSeq
    <3>1. told = 0 /\ store.rows[id].eventSeq = 0
      BY <1>4, <1>6, <1>7, <2>2 DEF NoRow
    <3>2. \A i \in 1..j : Num(downlink[i], id) = 0
      <4> TAKE i \in 1..j
      <4>1. i \in DOMAIN downlink
        BY <1>1 DEF WireInv
      <4>2. downlink[i].kind = "report" => downlink[i].report.id # id
        BY <1>6, <1>7, <2>2, <4>1
      <4>3. downlink[i].kind = "orders" => downlink[i].rows[id].eventSeq = 0
        BY <1>6, <1>7, <2>2, <4>1 DEF NoRow
      <4> QED BY <4>2, <4>3 DEF Num
    <3>3. \A i \in DOMAIN store.pending : store.pending[i].id # id
      BY <1>5, <1>7, <2>2
    <3> QED BY <3>1, <3>2, <3>3 DEF Covers
  <2> QED BY <2>1, <2>2
<1>9. OneDayInv'
  <2> SUFFICES ASSUME reseeds = 0
               PROVE  OneDayInv'
    BY DEF OneDayInv
  <2>1. (\A i \in DOMAIN downlink :
          /\ downlink[i].kind = "report" => ~Old(downlink[i].report)
          /\ downlink[i].kind = "orders" => OfToday(downlink[i].rows))'
    <3>1. \A i \in DOMAIN downlink : downlink[i].kind = "report" =>
            meta'[downlink[i].report.id] # 0
      BY <1>1, <1>6, <1>7 DEF OneDayInv, Old
    <3>2. \A i \in DOMAIN downlink : downlink[i].kind = "orders" =>
            \A id \in Ids : downlink[i].rows[id] # NoRow => meta'[id] # 0
      BY <1>1, <1>6, <1>7 DEF OneDayInv, OfToday
    <3> QED BY <1>3, <3>1, <3>2 DEF Old, OfToday
  <2>2. (link = "open" /\ ~store.syncing => OfToday(store.rows))'
    BY <1>1, <1>3, <1>4, <1>7 DEF OneDayInv, OfToday
  <2>3. (\E d \in Days : \A id \in Ids : RowAt(store.rows[id], days[d][id]))'
    <3>1. PICK d \in Days : \A id \in Ids : RowAt(store.rows[id], days[d][id])
      BY <1>1 DEF OneDayInv
    <3>2. d \in Days' /\ \A id \in Ids : RowAt(store.rows[id], days'[d][id])
      BY <3>1 DEF StillTrue
    <3> QED BY <1>3, <3>2
  <2>4. \A i \in DOMAIN store.pending :
          meta'[store.pending[i].id] = 0 <=> meta[store.pending[i].id] = 0
    BY <1>5, <1>7
  <2>5. PendingFine(store.pending) => PendingFine(store.pending)'
    <3>1. store.pending # << >> => 1 \in DOMAIN store.pending
      BY <1>1 DEF PageInv, Store
    <3> QED BY <1>3, <2>4, <3>1 DEF PendingFine, Old
  <2>6. OldFirst(store.pending) => OldFirst(store.pending)'
    BY <1>3, <2>4 DEF OldFirst, Old
  <2> QED BY <1>1, <1>3, <2>1, <2>2, <2>3, <2>5, <2>6 DEF OneDayInv
<1> QED BY <1>1, <1>2, <1>5a, <1>8, <1>9 DEF Inv

\* A new day keeps the socket, which only a reseed does.
LEMMA ReseedKeeps ==
  ASSUME Inv, Reseed
  PROVE  Inv'
<1>1. DaysType /\ WireInv /\ PageInv /\ ServerInv
  BY DEF Inv, ServerInv
<1>2. ServerInv' /\ Grown /\ reseeds' # 0
  BY <1>1, ReseedOK
<1>3. DaysType'
  BY <1>2 DEF ServerInv
<1>4. /\ UNCHANGED <<link, greeted, uplink, subscribed, downlink>> /\ buffer' = buffer
      /\ UNCHANGED pageKept
  BY DEF Reseed, wireVars, pageVars, pageKept
<1>5. WireInv' /\ PageInv'
  BY <1>1, <1>2, <1>3, <1>4, GrownIsTrue, WireStays, PageStays
<1>6. Behind'
  BY DEF Reseed, Behind
<1>7. OneDayInv'
  BY <1>2 DEF OneDayInv
<1> QED BY <1>2, <1>5, <1>6, <1>7 DEF Inv

\* Nothing is on its way on a socket that is gone, and the page keeps what it has.
LEMMA SocketGone ==
  ASSUME Inv, LinkGone, UNCHANGED pageKept, ServerInv', Grown,
         meta' = meta \/ meta' = [id \in Ids |-> 0],
         reseeds' = reseeds
  PROVE  Inv'
<1>1. DaysType /\ WireInv /\ PageInv /\ ServerInv /\ OneDayInv
  BY DEF Inv, ServerInv
<1>2. DaysType'
  BY DEF ServerInv
<1>3. PageInv'
  BY <1>1, <1>2, PageStays
<1>4. /\ link' = "down" /\ downlink' = << >> /\ buffer' = << >> /\ uplink' = << >>
      /\ subscribed' = FALSE /\ greeted' = greeted
  BY DEF LinkGone
<1>5. DOMAIN downlink' = {} /\ downlink' \in Seq(Message)
  BY <1>4
<1>6. WireInv'
  BY <1>4, <1>5 DEF WireInv
<1>7. Behind'
  BY <1>5 DEF Behind
<1>8. OneDayInv'
  <2> SUFFICES ASSUME reseeds = 0
               PROVE  OneDayInv'
    BY DEF OneDayInv
  <2>1. store' = store
    BY DEF pageKept
  <2>2. (\E d \in Days : \A id \in Ids : RowAt(store.rows[id], days[d][id]))'
    <3>1. PICK d \in Days : \A id \in Ids : RowAt(store.rows[id], days[d][id])
      BY <1>1 DEF OneDayInv
    <3>2. d \in Days' /\ \A id \in Ids : RowAt(store.rows[id], days'[d][id])
      BY <1>1, <1>2, <3>1, TruthStays
    <3> QED BY <2>1, <3>2
  <2>3. OldFirst(store.pending)'
    <3>1. \A i \in DOMAIN store.pending : store.pending[i].id \in Ids
      <4> TAKE i \in DOMAIN store.pending
      <4>1. store.pending[i] \in WireReport
        BY <1>1 DEF PageInv, Store
      <4> QED BY <4>1 DEF WireReport
    <3>2. CASE meta' = meta
      BY <1>1, <2>1, <3>2 DEF OneDayInv, OldFirst, Old
    <3>3. CASE meta' = [id \in Ids |-> 0]
      BY <2>1, <3>1, <3>3 DEF OldFirst, Old
    <3> QED BY <3>2, <3>3
  <2> QED BY <1>1, <1>4, <1>5, <2>1, <2>2, <2>3 DEF OneDayInv
<1> QED BY <1>3, <1>6, <1>7, <1>8 DEF Inv

LEMMA DropKeeps ==
  ASSUME Inv, Drop
  PROVE  Inv'
<1>1. ServerInv' /\ Grown
  <2>1. buffer' = << >> /\ UNCHANGED <<serverVars, days, reseeds>>
    BY DEF Drop, LinkGone, ghostVars
  <2>2. buffer' \in Seq(WireReport) /\ DOMAIN buffer' = {}
    BY <2>1
  <2> QED BY <2>1, <2>2, QueueShrinks DEF Inv
<1>2. meta' = meta /\ reseeds' = reseeds /\ LinkGone /\ UNCHANGED pageKept
  BY DEF Drop, serverVars, pageVars, pageKept
<1> QED BY <1>1, <1>2, SocketGone

LEMMA RestartKeeps ==
  ASSUME Inv, Restart
  PROVE  Inv'
<1>1. ServerInv' /\ Grown
  BY RestartOK DEF Inv
<1>2. meta' = [id \in Ids |-> 0] /\ reseeds' = reseeds /\ LinkGone /\ UNCHANGED pageKept
  BY DEF Restart, pageVars, pageKept
<1> QED BY <1>1, <1>2, SocketGone

LEMMA SubmitKeeps ==
  ASSUME Inv, NEW id \in Ids, NEW qty \in OrderQtys, Submit(id, qty), Gone(id)
  PROVE  Inv'
<1>1. ServerInv' /\ Cleared(id) /\ Registers
  BY SubmitOK DEF Inv
<1>1a. StillTrue
  BY <1>1, ClearedIsTrue DEF Inv, ServerInv
<1>2. /\ UNCHANGED <<link, greeted, uplink, subscribed, downlink>> /\ UNCHANGED pageKept
      /\ reseeds' = reseeds /\ buffer' = buffer
  BY DEF Submit, wireVars, pageVars, boundVars, pageKept
<1> QED BY <1>1, <1>1a, <1>2, ServerStepOK

LEMMA PublishDeferredKeeps ==
  ASSUME Inv, PublishDeferred
  PROVE  Inv'
<1>1. ServerInv' /\ Grown /\ Registers /\ (~subscribed => buffer' = buffer)
  BY PublishDeferredOK DEF Inv
<1>1a. StillTrue
  BY <1>1, GrownIsTrue DEF Inv, ServerInv
<1>2. /\ UNCHANGED <<link, greeted, uplink, subscribed, downlink>> /\ UNCHANGED pageKept
      /\ reseeds' = reseeds
  BY DEF PublishDeferred, pageVars, boundVars, pageKept
<1> QED BY <1>1, <1>1a, <1>2, ServerStepOK

LEMMA TickKeeps ==
  ASSUME Inv, NEW batch \in DueReports, Tick(batch)
  PROVE  Inv'
<1>1. ServerInv' /\ Grown /\ Registers /\ (~subscribed => buffer' = buffer)
  BY TickOK DEF Inv
<1>1a. StillTrue
  BY <1>1, GrownIsTrue DEF Inv, ServerInv
<1>2. /\ UNCHANGED <<link, greeted, uplink, subscribed, downlink>> /\ UNCHANGED pageKept
      /\ reseeds' = reseeds
  BY DEF Tick, pageVars, boundVars, pageKept
<1> QED BY <1>1, <1>1a, <1>2, ServerStepOK

\* What is true of an order of the day is true of today.
LEMMA TodaysTruth ==
  ASSUME ServerInv
  PROVE  /\ \A id \in Ids : \A row : meta[id] # 0 /\ TrueRow(row, id) => RowAt(row, days[Today][id])
         /\ \A r \in WireReport : ~Old(r) /\ TrueReport(r) =>
              ReportAt(r, r.orderQty, days[Today][r.id])
<1>1. DaysType /\ \A d \in Days, id \in Ids : days[d][id] # << >> /\ meta[id] # 0 => d = Today
  BY DEF ServerInv
<1>2. ASSUME NEW id \in Ids, NEW row, meta[id] # 0, TrueRow(row, id)
      PROVE  RowAt(row, days[Today][id])
  <2>1. CASE row = NoRow
    BY <2>1 DEF RowAt
  <2>2. CASE row # NoRow
    <3>1. PICK d \in Days : RowAt(row, days[d][id])
      BY <1>2 DEF TrueRow
    <3>2. row.eventSeq \in 1..Len(days[d][id]) /\ Len(<< >>) = 0
      BY <2>2, <3>1 DEF RowAt
    <3>3. days[d][id] # << >>
      BY <3>2
    <3> QED BY <1>1, <1>2, <3>1, <3>3
  <2> QED BY <2>1, <2>2
<1>3. ASSUME NEW r \in WireReport, ~Old(r), TrueReport(r)
      PROVE  ReportAt(r, r.orderQty, days[Today][r.id])
  <2>1. PICK d \in Days : ReportAt(r, r.orderQty, days[d][r.id])
    BY <1>3 DEF TrueReport
  <2>2. r.eventSeq \in 1..Len(days[d][r.id]) /\ Len(<< >>) = 0 /\ r.id \in Ids
    BY <2>1 DEF ReportAt, WireReport
  <2>3. days[d][r.id] # << >>
    BY <2>2
  <2> QED BY <1>1, <1>3, <2>1, <2>2, <2>3 DEF Old
<1> QED BY <1>2, <1>3

\* So a book of today's orders shows one day.
LEMMA TodaysBook ==
  ASSUME ServerInv, NEW rows \in [Ids -> Row], OfToday(rows), \A id \in Ids : TrueRow(rows[id], id)
  PROVE  \E d \in Days : \A id \in Ids : RowAt(rows[id], days[d][id])
<1>1. Today \in Days
  BY DayTypes DEF ServerInv
<1>2. \A id \in Ids : RowAt(rows[id], days[Today][id])
  <2> TAKE id \in Ids
  <2>1. CASE rows[id] = NoRow
    BY <2>1 DEF RowAt
  <2>2. CASE rows[id] # NoRow
    BY <2>2, TodaysTruth DEF OfToday
  <2> QED BY <2>1, <2>2
<1> QED BY <1>1, <1>2

\* Nothing true goes beyond the server's own state of an order.
LEMMA ServerKnowsMost ==
  ASSUME ServerInv, NEW id \in Ids, meta[id] # 0
  PROVE  /\ \A row \in Row : TrueRow(row, id) => row.eventSeq <= states[id].eventSeq
         /\ \A r \in WireReport : TrueReport(r) /\ r.id = id => r.eventSeq <= states[id].eventSeq
<1> DEFINE events == days[Today][id]
<1>1. events \in Seq(Progress) /\ Len(events) \in Nat /\ states[id] = StateAfter(events)
  BY DayTypes DEF ServerInv
<1>2. states[id].eventSeq = Len(events)
  <2>1. events = << >> => Len(events) = 0
    OBVIOUS
  <2> QED BY <1>1, <2>1 DEF StateAfter, NoRow
<1>3. ASSUME NEW row \in Row, TrueRow(row, id)
      PROVE  row.eventSeq <= Len(events)
  <2>1. RowAt(row, events)
    BY <1>3, TodaysTruth
  <2> QED BY <1>1, <2>1 DEF RowAt, NoRow
<1>4. ASSUME NEW r \in WireReport, TrueReport(r), r.id = id
      PROVE  r.eventSeq <= Len(events)
  <2>1. ReportAt(r, r.orderQty, events)
    BY <1>4, TodaysTruth DEF Old
  <2> QED BY <1>1, <2>1 DEF ReportAt
<1> QED BY <1>2, <1>3, <1>4

\* The server's states are true, and of today.
LEMMA StatesAreTrue ==
  ASSUME ServerInv
  PROVE  /\ \A id \in Ids : TrueRow(states[id], id)
         /\ OfToday(states)
<1>1. Today \in Days /\ DaysType
  BY DayTypes DEF ServerInv
<1>2. ASSUME NEW id \in Ids
      PROVE  /\ RowAt(states[id], days[Today][id])
             /\ states[id] # NoRow => meta[id] # 0
  <2>1. /\ days[Today][id] \in Seq(Progress) /\ states[id] = StateAfter(days[Today][id])
        /\ days[Today][id] # << >> => meta[id] # 0
    BY <1>1, DayTypes DEF ServerInv
  <2>2. days[Today][id] # << >> => Len(days[Today][id]) \in 1..Len(days[Today][id])
    BY <2>1
  <2> QED BY <2>1, <2>2 DEF StateAfter, RowAt
<1> QED BY <1>1, <1>2 DEF TrueRow, OfToday

-----------------------------------------------------------------------------
(* The server sends *)

LEMMA LongerQueue ==
  ASSUME NEW D, NEW q \in Seq(D), NEW m \in D
  PROVE  /\ Append(q, m) \in Seq(D)
         /\ Len(q) \in Nat /\ Len(q) + 1 \in DOMAIN Append(q, m)
         /\ Append(q, m)[Len(q) + 1] = m
         /\ DOMAIN q = 1..Len(q)
         /\ \A i \in DOMAIN q : i \in DOMAIN Append(q, m) /\ Append(q, m)[i] = q[i]
         /\ \A i \in DOMAIN Append(q, m) : i \in DOMAIN q \/ i = Len(q) + 1
OBVIOUS

LEMMA ShorterQueue ==
  ASSUME NEW D, NEW q \in Seq(D), q # << >>
  PROVE  /\ Tail(q) \in Seq(D)
         /\ 1 \in DOMAIN q /\ Head(q) = q[1]
         /\ \A i \in DOMAIN Tail(q) : i + 1 \in DOMAIN q /\ Tail(q)[i] = q[i + 1]
OBVIOUS

\* The server sends a message: a true report, its states, or an error.
LEMMA MessageSent ==
  ASSUME Inv, ServerInv', link = "open",
         UNCHANGED <<link, greeted, meta, days, reseeds>>, UNCHANGED pageKept,
         subscribed' \in BOOLEAN,
         NEW m \in Message, downlink' = Append(downlink, m),
         m.kind = "report" => TrueReport(m.report) /\ (reseeds = 0 => ~Old(m.report)),
         m.kind = "orders" => m.rows = states
  PROVE  Inv'
<1>1. DaysType /\ DaysType' /\ ServerInv /\ WireInv /\ PageInv /\ Behind /\ OneDayInv
  BY DEF Inv, ServerInv
<1>2. /\ link' = link /\ greeted' = greeted /\ meta' = meta /\ days' = days /\ reseeds' = reseeds
      /\ store' = store /\ asking' = asking /\ Days' = Days
  BY DEF pageKept, Days, Today
<1>3. /\ (\A r : TrueReport(r) <=> TrueReport(r)') /\ (\A row, id : TrueRow(row, id) <=> TrueRow(row, id)')
      /\ (\A r : Old(r) <=> Old(r)') /\ (\A rows : OfToday(rows) <=> OfToday(rows)')
  BY <1>2 DEF TrueReport, TrueRow, Old, OfToday
<1> DEFINE n == Len(downlink) + 1
<1>4. /\ downlink' \in Seq(Message) /\ n \in DOMAIN downlink' /\ downlink'[n] = m
      /\ \A i \in DOMAIN downlink : i \in DOMAIN downlink' /\ downlink'[i] = downlink[i]
      /\ \A i \in DOMAIN downlink' : i \in DOMAIN downlink \/ i = n
      /\ n \in Nat /\ DOMAIN downlink = 1..(n - 1)
  BY <1>1, LongerQueue DEF WireInv
<1> HIDE DEF n
<1>5. WireInv'
  <2>1. (\A i \in DOMAIN downlink :
          /\ downlink[i].kind = "report" => TrueReport(downlink[i].report)
          /\ downlink[i].kind = "orders" => \A id \in Ids : TrueRow(downlink[i].rows[id], id))'
    <3> SUFFICES ASSUME NEW i \in DOMAIN downlink'
                 PROVE  /\ downlink'[i].kind = "report" => TrueReport(downlink'[i].report)
                        /\ downlink'[i].kind = "orders" =>
                             \A id \in Ids : TrueRow(downlink'[i].rows[id], id)
      BY <1>2 DEF TrueReport, TrueRow
    <3>1. CASE i \in DOMAIN downlink
      BY <1>1, <1>4, <3>1 DEF WireInv
    <3>2. CASE i = n
      BY <1>1, <1>4, <3>2, StatesAreTrue
    <3> QED BY <1>4, <3>1, <3>2
  <2> QED BY <1>1, <1>2, <1>4, <2>1 DEF WireInv
<1>6. PageInv'
  BY <1>1, <1>2, SameDaysGrown, PageStays
<1>7. Behind'
  <2> SUFFICES ASSUME NEW j \in DOMAIN downlink', downlink'[j].kind = "orders",
                      NEW id \in Ids, meta[id] # 0
               PROVE  LET told == downlink'[j].rows[id].eventSeq
                      IN /\ store.rows[id].eventSeq <= told
                         /\ \A i \in 1..j : Num(downlink'[i], id) <= told
                         /\ \A i \in DOMAIN store.pending :
                              store.pending[i].id = id => store.pending[i].eventSeq <= told
    BY <1>2 DEF Behind, Covers, Num
  <2> DEFINE told == downlink'[j].rows[id].eventSeq
  <2>1. CASE j \in DOMAIN downlink
    <3>1. Covers(downlink[j].rows[id].eventSeq, id, j) /\ told = downlink[j].rows[id].eventSeq
      BY <1>1, <1>4, <2>1 DEF Behind
    <3>2. \A i \in 1..j : downlink'[i] = downlink[i]
      BY <1>4, <2>1
    <3> QED BY <3>1, <3>2 DEF Covers
  <2>2. CASE j = n
    <3>1. told = states[id].eventSeq
      BY <1>4, <2>2
    <3>2. store.rows[id].eventSeq <= told
      BY <1>1, <3>1, ServerKnowsMost DEF PageInv, Store
    <3>3. ASSUME NEW i \in 1..j
          PROVE  Num(downlink'[i], id) <= told
      <4>1. CASE i = n
        <5>1. downlink'[i].kind = "orders" /\ downlink'[i].rows[id].eventSeq = told
          BY <2>2, <4>1
        <5>2. told \in Nat
          BY <1>1, <3>1 DEF ServerInv, Row
        <5> QED BY <5>1, <5>2 DEF Num
      <4>2. CASE i # n
        <5>1. i \in DOMAIN downlink /\ downlink'[i] = downlink[i] /\ downlink[i] \in Message
          BY <1>1, <1>4, <2>2, <4>2 DEF WireInv
        <5>2. downlink[i].kind = "report" => downlink[i].report \in WireReport /\ TrueReport(downlink[i].report)
          BY <1>1, <5>1 DEF Message, WireInv
        <5>3. downlink[i].kind = "orders" => downlink[i].rows[id] \in Row /\ TrueRow(downlink[i].rows[id], id)
          BY <1>1, <5>1 DEF Message, WireInv
        <5>4. told \in Nat
          BY <1>1, <3>1 DEF ServerInv, Row
        <5> QED BY <1>1, <3>1, <5>1, <5>2, <5>3, <5>4, ServerKnowsMost DEF Num
      <4> QED BY <4>1, <4>2
    <3>4. ASSUME NEW i \in DOMAIN store.pending, store.pending[i].id = id
          PROVE  store.pending[i].eventSeq <= told
      <4>1. store.pending[i] \in WireReport /\ TrueReport(store.pending[i])
        BY <1>1 DEF PageInv, Store
      <4> QED BY <1>1, <3>1, <3>4, <4>1, ServerKnowsMost
    <3> QED BY <3>2, <3>3, <3>4
  <2> QED BY <1>4, <2>1, <2>2
<1>8. OneDayInv'
  <2> SUFFICES ASSUME reseeds = 0
               PROVE  OneDayInv'
    BY <1>2 DEF OneDayInv
  <2>1. (\A i \in DOMAIN downlink :
          /\ downlink[i].kind = "report" => ~Old(downlink[i].report)
          /\ downlink[i].kind = "orders" => OfToday(downlink[i].rows))'
    <3> SUFFICES ASSUME NEW i \in DOMAIN downlink'
                 PROVE  /\ downlink'[i].kind = "report" => ~Old(downlink'[i].report)
                        /\ downlink'[i].kind = "orders" => OfToday(downlink'[i].rows)
      BY <1>2 DEF Old, OfToday
    <3>1. CASE i \in DOMAIN downlink
      BY <1>1, <1>4, <3>1 DEF OneDayInv
    <3>2. CASE i = n
      BY <1>1, <1>4, <3>2, StatesAreTrue
    <3> QED BY <1>4, <3>1, <3>2
  <2>2. (\E d \in Days : \A id \in Ids : RowAt(store.rows[id], days[d][id]))'
    BY <1>1, <1>2 DEF OneDayInv
  <2>3. /\ (link = "open" /\ ~store.syncing => OfToday(store.rows))'
        /\ OldFirst(store.pending)' /\ (PendingFine(store.pending) => PendingFine(store.pending)')
    BY <1>1, <1>2 DEF OneDayInv, OldFirst, PendingFine, Old, OfToday
  <2> QED BY <1>1, <1>2, <2>1, <2>2, <2>3 DEF OneDayInv
<1> QED BY <1>5, <1>6, <1>7, <1>8 DEF Inv

LEMMA ServeQueryKeeps ==
  ASSUME Inv, ServeQuery
  PROVE  Inv'
<1>1. link = "open" /\ subscribed' \in BOOLEAN
  BY DEF Inv, WireInv, ServeQuery
<1>2. ServerInv'
  <2>1. buffer' = buffer /\ UNCHANGED <<serverVars, days, reseeds>> /\ ServerInv
    BY DEF Inv, ServeQuery, ghostVars, boundVars
  <2>2. buffer' \in Seq(WireReport) /\ \A i \in DOMAIN buffer' : \E j \in DOMAIN buffer : buffer'[i] = buffer[j]
    BY <2>1 DEF ServerInv
  <2> QED BY <2>1, <2>2, QueueShrinks
<1> DEFINE m == [kind |-> "orders", rows |-> states]
<1>3. m \in Message /\ m.kind = "orders" /\ m.rows = states
  BY DEF Message, Inv, ServerInv
<1>4. /\ downlink' = Append(downlink, m) /\ UNCHANGED <<link, greeted, meta, days, reseeds>>
      /\ UNCHANGED pageKept
  BY DEF ServeQuery, serverVars, pageVars, ghostVars, boundVars, pageKept
<1> HIDE DEF m
<1> QED BY <1>1, <1>2, <1>3, <1>4, MessageSent

LEMMA SendReportKeeps ==
  ASSUME Inv, SendReport
  PROVE  Inv'
<1>1. link = "open" /\ ServerInv /\ buffer # << >> /\ buffer \in Seq(WireReport)
  BY DEF Inv, WireInv, ServerInv, SendReport
<1>2. /\ UNCHANGED <<link, greeted, meta, days, reseeds>> /\ UNCHANGED pageKept
      /\ UNCHANGED <<serverVars, days, reseeds>>
  BY DEF SendReport, serverVars, pageVars, ghostVars, boundVars, pageKept
<1> DEFINE r == Head(buffer)
<1>3. r \in WireReport /\ r.id \in Ids /\ Waits(r, days[Today]) /\ meta[r.id] \in Nat
  <2>1. 1 \in DOMAIN buffer /\ r = buffer[1] /\ buffer[1] \in WireReport
    BY <1>1
  <2>2. r.id \in Ids
    BY <2>1 DEF WireReport
  <2> QED BY <1>1, <2>1, <2>2 DEF ServerInv
<1>4. buffer' = Tail(buffer) \/ buffer' = << >>
  BY DEF SendReport
<1>5. ServerInv'
  <2>1. buffer' \in Seq(WireReport) /\ \A i \in DOMAIN buffer' : \E j \in DOMAIN buffer : buffer'[i] = buffer[j]
    <3>1. CASE buffer' = << >>
      BY <3>1
    <3>2. CASE buffer' = Tail(buffer)
      BY <1>1, <3>2, ShorterQueue
    <3> QED BY <1>4, <3>1, <3>2
  <2> QED BY <1>1, <1>2, <2>1, QueueShrinks
<1>6. subscribed' \in BOOLEAN
  BY DEF SendReport, Inv, WireInv
<1>7. CASE meta[r.id] # 0
  <2> DEFINE sent == [r EXCEPT !.orderQty = meta[r.id]]
             m == [kind |-> "report", report |-> sent]
  <2>1. Stamped(sent, r, meta[r.id])
    BY DEF Stamped
  <2>2. /\ sent \in WireReport /\ sent.id = r.id /\ sent.eventSeq = r.eventSeq
        /\ sent.orderQty = meta[r.id]
        /\ \A p, qty : ApplyReport(p, sent, qty) = ApplyReport(p, r, qty)
    <3>1. sent \in WireReport /\ \A p, qty : ApplyReport(p, sent, qty) = ApplyReport(p, r, qty)
      <4> HIDE DEF sent
      <4> QED BY <1>3, <2>1, StampsDoNotCount
    <3>2. sent.id = r.id /\ sent.eventSeq = r.eventSeq /\ sent.orderQty = meta[r.id]
      BY <1>3 DEF WireReport
    <3> QED BY <3>1, <3>2
  <2> HIDE DEF sent
  <2>3. ReportAt(sent, sent.orderQty, days[Today][sent.id])
    BY <1>3, <1>7, <2>2 DEF Waits, ReportAt
  <2>4. TrueReport(sent) /\ ~Old(sent)
    BY <1>1, <1>7, <2>2, <2>3, DayTypes DEF TrueReport, Old, ServerInv
  <2>5. m \in Message /\ m.kind = "report" /\ m.report = sent
    BY <2>2 DEF Message
  <2>6. downlink' = Append(downlink, m)
    BY <1>7 DEF SendReport, sent
  <2> HIDE DEF m
  <2> QED BY <1>1, <1>2, <1>5, <1>6, <2>4, <2>5, <2>6, MessageSent
<1>8. CASE meta[r.id] = 0
  <2> DEFINE m == [kind |-> "error"]
  <2>1. m \in Message /\ m.kind = "error" /\ downlink' = Append(downlink, m)
    BY <1>8 DEF Message, SendReport
  <2> HIDE DEF m
  <2> QED BY <1>1, <1>2, <1>5, <1>6, <2>1, MessageSent
<1> QED BY <1>7, <1>8

-----------------------------------------------------------------------------
(* The page connects and paints *)

\* The server does nothing.
LEMMA ServerIdle ==
  ASSUME Inv, UNCHANGED <<serverVars, buffer, days, reseeds>>
  PROVE  ServerInv'
<1>1. buffer' = buffer /\ UNCHANGED <<serverVars, days, reseeds>> /\ ServerInv
  BY DEF Inv
<1>2. buffer' \in Seq(WireReport) /\ \A i \in DOMAIN buffer' : \E j \in DOMAIN buffer : buffer'[i] = buffer[j]
  BY <1>1 DEF ServerInv
<1> QED BY <1>1, <1>2, QueueShrinks

\* What is true depends on the server alone.
LEMMA SameTruth ==
  ASSUME UNCHANGED <<meta, days>>
  PROVE  /\ Days' = Days
         /\ (\A r : TrueReport(r) <=> TrueReport(r)') /\ (\A row, id : TrueRow(row, id) <=> TrueRow(row, id)')
         /\ (\A r : Old(r) <=> Old(r)') /\ (\A rows : OfToday(rows) <=> OfToday(rows)')
         /\ (\A q : OldFirst(q) <=> OldFirst(q)') /\ (\A q : PendingFine(q) <=> PendingFine(q)')
<1>1. meta' = meta /\ days' = days /\ Days' = Days
  BY DEF Days, Today
<1>2. /\ (\A r : TrueReport(r) <=> TrueReport(r)') /\ (\A row, id : TrueRow(row, id) <=> TrueRow(row, id)')
      /\ (\A r : Old(r) <=> Old(r)') /\ (\A rows : OfToday(rows) <=> OfToday(rows)')
  BY <1>1 DEF TrueReport, TrueRow, Old, OfToday
<1>3. (\A q : OldFirst(q) <=> OldFirst(q)') /\ (\A q : PendingFine(q) <=> PendingFine(q)')
  BY <1>1 DEF OldFirst, PendingFine, Old
<1> QED BY <1>1, <1>2, <1>3

LEMMA ServeSubscriptionKeeps ==
  ASSUME Inv, ServeSubscription
  PROVE  Inv'
<1>1. /\ link' = link /\ greeted' = greeted /\ downlink' = downlink /\ meta' = meta
      /\ days' = days /\ reseeds' = reseeds /\ store' = store /\ asking' = asking
      /\ subscribed' = TRUE /\ buffer' = << >> /\ UNCHANGED pageKept
      /\ UNCHANGED <<serverVars, days, reseeds>>
  BY DEF ServeSubscription, serverVars, pageVars, ghostVars, boundVars, pageKept
<1>2. /\ ServerInv /\ WireInv /\ PageInv /\ Behind /\ OneDayInv /\ DaysType /\ DaysType'
      /\ link = "open"
  BY <1>1 DEF Inv, ServerInv, DaysType, WireInv, ServeSubscription
<1>3. ServerInv'
  <2>1. buffer' \in Seq(WireReport) /\ DOMAIN buffer' = {}
    BY <1>1
  <2> QED BY <1>1, <1>2, <2>1, QueueShrinks
<1>4. WireInv'
  BY <1>1, <1>2, SameTruth DEF WireInv
<1>5. PageInv'
  BY <1>1, <1>2, SameDaysGrown, PageStays
<1>6. Behind'
  BY <1>1, <1>2 DEF Behind, Covers, Num
<1>7. OneDayInv'
  BY <1>1, <1>2, SameTruth DEF OneDayInv
<1> QED BY <1>3, <1>4, <1>5, <1>6, <1>7 DEF Inv

LEMMA ConnectKeeps ==
  ASSUME Inv, Connect
  PROVE  Inv'
<1>1. /\ link = "down" /\ link' = "open" /\ greeted' = TRUE /\ downlink' = downlink
      /\ meta' = meta /\ days' = days /\ reseeds' = reseeds /\ subscribed' = subscribed
      /\ retry' = retry /\ drawn' = drawn /\ pageThrew' = pageThrew
      /\ asking' = asking + (IF greeted THEN 1 ELSE 0)
      /\ store' = IF greeted THEN BeginResync(store) ELSE store
      /\ UNCHANGED <<serverVars, buffer, days, reseeds>>
  BY DEF Connect, Ask, serverVars, ghostVars, boundVars
<1>2. /\ ServerInv /\ WireInv /\ PageInv /\ Behind /\ OneDayInv /\ DaysType /\ downlink = << >>
  BY <1>1 DEF Inv, ServerInv, WireInv
<1>3. ServerInv'
  BY <1>1, ServerIdle
<1>4. /\ store' \in Store /\ store'.rows = store.rows /\ store'.pending = store.pending
      /\ store'.holes = store.holes /\ store'.threw = store.threw
      /\ store'.removed = store.removed /\ store'.dirty = store.dirty
      /\ store'.notify = store.notify
      /\ store'.syncing = (greeted \/ store.syncing)
  BY <1>1, <1>2 DEF PageInv, Store, BeginResync
<1>5. WireInv'
  BY <1>1, <1>2 DEF WireInv
<1>6. PageInv'
  <2>1. asking' \in Nat /\ (store'.syncing => asking' >= 1)
    BY <1>1, <1>2, <1>4 DEF PageInv
  <2> QED BY <1>1, <1>2, <1>4, <2>1, SameTruth DEF PageInv
<1>7. Behind'
  BY <1>1, <1>2 DEF Behind
<1>8. OneDayInv'
  <2> SUFFICES ASSUME reseeds = 0
               PROVE  OneDayInv'
    BY <1>1 DEF OneDayInv
  <2>1. OfToday(NoRows) /\ PendingFine(<< >>)
    BY DEF OfToday, NoRows, PendingFine
  <2>2. (link = "open" /\ ~store.syncing => OfToday(store.rows))'
    <3>1. ~store'.syncing => store'.rows = NoRows
      BY <1>2, <1>4 DEF OneDayInv
    <3> QED BY <1>1, <2>1, <3>1, SameTruth
  <2>3. (asking >= 2 \/ PendingFine(store.pending))'
    <3>1. store.pending # << >> => greeted /\ asking >= 1
      BY <1>2 DEF PageInv, OneDayInv
    <3>2. store.pending # << >> => asking' >= 2
      BY <1>1, <1>2, <3>1 DEF PageInv
    <3>3. PendingFine(<< >>)'
      BY <1>1, <2>1, SameTruth
    <3> QED BY <1>4, <3>2, <3>3
  <2>4. (\E d \in Days : \A id \in Ids : RowAt(store.rows[id], days[d][id]))'
    BY <1>1, <1>2, <1>4, SameTruth DEF OneDayInv
  <2>5. OldFirst(store.pending)'
    BY <1>1, <1>2, <1>4, SameTruth DEF OneDayInv
  <2> QED BY <1>1, <1>2, <2>2, <2>3, <2>4, <2>5 DEF OneDayInv
<1> QED BY <1>3, <1>5, <1>6, <1>7, <1>8 DEF Inv

\* A frame: what may leave has ended.
LEMMA Flushed ==
  ASSUME PageInv, NEW gone \in Prunable(store), NEW f, f = Taken(Pruned(store, gone)),
         drawn' = Drawn(drawn, Pruned(store, gone))
  PROVE  /\ f \in Store /\ drawn' \in [Ids -> Row]
         /\ f.rows = [id \in Ids |-> IF id \in gone THEN NoRow ELSE store.rows[id]]
         /\ \A id \in gone : id \in Ids /\ store.rows[id].progress.status \in Terminal
         /\ f.pending = store.pending /\ f.syncing = store.syncing
         /\ f.holes = store.holes /\ f.threw = store.threw
<1>1. store \in Store /\ drawn \in [Ids -> Row]
  BY DEF PageInv
<1>2. \A id \in gone : id \in Ids /\ store.rows[id].progress.status \in Terminal
  BY DEF Prunable, Retired, Held
<1> DEFINE s == Pruned(store, gone)
<1>3. /\ s.rows = [id \in Ids |-> IF id \in gone THEN NoRow ELSE store.rows[id]]
      /\ s.dirty = store.dirty \ gone
      /\ s.removed = store.removed \cup gone
      /\ s.pending = store.pending /\ s.syncing = store.syncing
      /\ s.holes = store.holes /\ s.threw = store.threw /\ s.newDay = store.newDay
      /\ s.notify = store.notify
      /\ DOMAIN s = DOMAIN store
  BY <1>1 DEF Pruned, Store
<1> HIDE DEF s
<1>4. s.rows \in [Ids -> Row]
  BY <1>1, <1>3, RowTypes DEF Store
<1>5. /\ f.rows = s.rows /\ f.pending = s.pending /\ f.syncing = s.syncing
      /\ f.holes = s.holes /\ f.threw = s.threw /\ f.removed = {} /\ f.dirty = {}
      /\ f.notify = FALSE /\ f.newDay = s.newDay
  BY <1>1, <1>3 DEF Taken, s, Store, Pruned
<1>6. f \in Store
  BY <1>1, <1>2, <1>3, <1>4 DEF Taken, s, Store, Pruned
<1>7. drawn' \in [Ids -> Row]
  <2>1. drawn' = Drawn(drawn, s)
    BY DEF s
  <2> QED BY <1>1, <1>4, <2>1, RowTypes DEF Drawn
<1> QED BY <1>2, <1>3, <1>5, <1>6, <1>7

LEMMA FlushKeeps ==
  ASSUME Inv, Flush
  PROVE  Inv'
<1>1. /\ link' = link /\ greeted' = greeted /\ downlink' = downlink /\ meta' = meta
      /\ days' = days /\ reseeds' = reseeds /\ asking' = asking /\ subscribed' = subscribed
      /\ retry' = retry /\ pageThrew' = pageThrew
      /\ UNCHANGED <<serverVars, buffer, days, reseeds>>
      /\ uplink' = uplink /\ buffer' = buffer
  BY DEF Flush, serverVars, wireVars, ghostVars, boundVars
<1>2. /\ ServerInv /\ WireInv /\ PageInv /\ Behind /\ OneDayInv /\ DaysType
  BY DEF Inv, ServerInv
<1>3. PICK gone \in Prunable(store) :
        /\ drawn' = Drawn(drawn, Pruned(store, gone))
        /\ store' = Taken(Pruned(store, gone))
  BY DEF Flush
<1>4. /\ store' \in Store /\ drawn' \in [Ids -> Row]
      /\ store'.rows = [id \in Ids |-> IF id \in gone THEN NoRow ELSE store.rows[id]]
      /\ store'.pending = store.pending /\ store'.syncing = store.syncing
      /\ store'.holes = store.holes /\ store'.threw = store.threw
  BY <1>2, <1>3, Flushed
<1>5. \A id \in Ids : store'.rows[id] = NoRow \/ store'.rows[id] = store.rows[id]
  BY <1>4
<1>6. ServerInv' /\ WireInv'
  BY <1>1, <1>2, ServerIdle, SameTruth DEF WireInv
<1>7. PageInv'
  <2>1. \A id \in Ids : TrueRow(store'.rows[id], id)
    BY <1>2, <1>5, DayTypes DEF PageInv, TrueRow, RowAt
  <2>2. store'.rows \in [Ids -> Row]
    BY <1>4 DEF Store
  <2> QED BY <1>1, <1>2, <1>4, <2>1, <2>2, SameTruth DEF PageInv
<1>8. Behind'
  <2> SUFFICES ASSUME NEW j \in DOMAIN downlink, downlink[j].kind = "orders",
                      NEW id \in Ids, meta[id] # 0
               PROVE  store'.rows[id].eventSeq <= downlink[j].rows[id].eventSeq
    BY <1>1, <1>2, <1>4 DEF Behind, Covers, Num
  <2>1. store.rows[id].eventSeq <= downlink[j].rows[id].eventSeq
    BY <1>2 DEF Behind, Covers
  <2>2. downlink[j].rows[id].eventSeq \in Nat
    <3>1. downlink[j] \in Message
      BY <1>2 DEF WireInv
    <3>2. downlink[j].rows \in [Ids -> Row]
      BY <3>1 DEF Message
    <3> QED BY <3>2 DEF Row
  <2> QED BY <1>5, <2>1, <2>2 DEF NoRow
<1>9. OneDayInv'
  <2> SUFFICES ASSUME reseeds = 0
               PROVE  OneDayInv'
    BY <1>1 DEF OneDayInv
  <2>1. (link = "open" /\ ~store.syncing => OfToday(store.rows))'
    <3>1. OfToday(store.rows) => OfToday(store'.rows)
      BY <1>5 DEF OfToday
    <3> QED BY <1>1, <1>2, <1>4, <3>1, SameTruth DEF OneDayInv
  <2>2. (\E d \in Days : \A id \in Ids : RowAt(store.rows[id], days[d][id]))'
    <3>1. PICK d \in Days : \A id \in Ids : RowAt(store.rows[id], days[d][id])
      BY <1>2 DEF OneDayInv
    <3>2. \A id \in Ids : RowAt(store'.rows[id], days[d][id])
      BY <1>5, <3>1 DEF RowAt
    <3> QED BY <1>1, <3>2, SameTruth
  <2>3. ~greeted => store'.rows = NoRows
    BY <1>2, <1>4 DEF OneDayInv, NoRows
  <2> QED BY <1>1, <1>2, <1>4, <2>1, <2>2, <2>3, SameTruth DEF OneDayInv
<1> QED BY <1>6, <1>7, <1>8, <1>9 DEF Inv

-----------------------------------------------------------------------------
(* The page receives *)

LEMMA SettledFields ==
  ASSUME NEW s \in Store
  PROVE  /\ Settled(s) \in Store
         /\ Settled(s).rows = s.rows /\ Settled(s).pending = s.pending
         /\ Settled(s).syncing = s.syncing /\ Settled(s).dirty = s.dirty
         /\ Settled(s).removed = s.removed /\ Settled(s).notify = s.notify
         /\ Settled(s).holes = 0 /\ Settled(s).threw = FALSE
BY DEF Settled, Store

\* The page takes the oldest message; what it then has is still behind the
\* snapshots that follow.
LEMMA MessageTaken ==
  ASSUME Inv, downlink # << >>, downlink' = Tail(downlink),
         UNCHANGED <<link, greeted, subscribed, buffer, meta, days>>
  PROVE  /\ WireInv' /\ link = "open" /\ greeted
         /\ 1 \in DOMAIN downlink /\ Head(downlink) = downlink[1] /\ downlink[1] \in Message
         /\ \A i \in DOMAIN downlink' : i + 1 \in DOMAIN downlink /\ downlink'[i] = downlink[i + 1]
         /\ (\A j \in DOMAIN downlink : downlink[j].kind = "orders" =>
               \A id \in Ids : meta[id] # 0 =>
                 LET told == downlink[j].rows[id].eventSeq
                 IN /\ store'.rows[id].eventSeq <= told
                    /\ \A i \in DOMAIN store'.pending :
                         store'.pending[i].id = id => store'.pending[i].eventSeq <= told)
            => Behind'
         /\ reseeds' = reseeds /\ reseeds = 0 =>
              (\A i \in DOMAIN downlink :
                 /\ downlink[i].kind = "report" => ~Old(downlink[i].report)
                 /\ downlink[i].kind = "orders" => OfToday(downlink[i].rows))'
<1>1. /\ WireInv /\ Behind /\ OneDayInv /\ downlink \in Seq(Message)
      /\ link' = link /\ greeted' = greeted /\ subscribed' = subscribed /\ buffer' = buffer
      /\ meta' = meta
  BY DEF Inv, WireInv
<1>2. link = "open" /\ greeted
  BY <1>1 DEF WireInv
<1>3. /\ downlink' \in Seq(Message)
      /\ 1 \in DOMAIN downlink /\ Head(downlink) = downlink[1] /\ downlink[1] \in Message
      /\ \A i \in DOMAIN downlink' : i + 1 \in DOMAIN downlink /\ downlink'[i] = downlink[i + 1]
  BY <1>1, ShorterQueue
<1>4. WireInv'
  <2>1. (\A i \in DOMAIN downlink :
          /\ downlink[i].kind = "report" => TrueReport(downlink[i].report)
          /\ downlink[i].kind = "orders" => \A id \in Ids : TrueRow(downlink[i].rows[id], id))'
    <3> SUFFICES ASSUME NEW i \in DOMAIN downlink'
                 PROVE  /\ downlink'[i].kind = "report" => TrueReport(downlink'[i].report)
                        /\ downlink'[i].kind = "orders" =>
                             \A id \in Ids : TrueRow(downlink'[i].rows[id], id)
      BY <1>1, SameTruth DEF TrueReport, TrueRow, Days, Today
    <3> QED BY <1>1, <1>3 DEF WireInv
  <2> QED BY <1>1, <1>2, <1>3, <2>1 DEF WireInv
<1>5. ASSUME \A j \in DOMAIN downlink : downlink[j].kind = "orders" =>
               \A id \in Ids : meta[id] # 0 =>
                 LET told == downlink[j].rows[id].eventSeq
                 IN /\ store'.rows[id].eventSeq <= told
                    /\ \A i \in DOMAIN store'.pending :
                         store'.pending[i].id = id => store'.pending[i].eventSeq <= told
      PROVE  Behind'
  <2> SUFFICES ASSUME NEW j \in DOMAIN downlink', downlink'[j].kind = "orders",
                      NEW id \in Ids, meta[id] # 0
               PROVE  LET told == downlink'[j].rows[id].eventSeq
                      IN /\ store'.rows[id].eventSeq <= told
                         /\ \A i \in 1..j : Num(downlink'[i], id) <= told
                         /\ \A i \in DOMAIN store'.pending :
                              store'.pending[i].id = id => store'.pending[i].eventSeq <= told
    BY <1>1 DEF Behind, Covers, Num
  <2>1. j + 1 \in DOMAIN downlink /\ downlink'[j] = downlink[j + 1] /\ j \in Nat
        /\ DOMAIN downlink' = 1..Len(downlink')
    BY <1>3
  <2>2. Covers(downlink[j + 1].rows[id].eventSeq, id, j + 1)
    BY <1>1, <2>1 DEF Behind
  <2>3. \A i \in 1..j : Num(downlink'[i], id) <= downlink[j + 1].rows[id].eventSeq
    <3> TAKE i \in 1..j
    <3>1. i \in DOMAIN downlink' /\ i + 1 \in 1..(j + 1) /\ downlink'[i] = downlink[i + 1]
      BY <1>3, <2>1
    <3> QED BY <2>2, <3>1 DEF Covers
  <2> QED BY <1>5, <2>1, <2>3
<1>6. ASSUME reseeds = 0
      PROVE  (\A i \in DOMAIN downlink :
                /\ downlink[i].kind = "report" => ~Old(downlink[i].report)
                /\ downlink[i].kind = "orders" => OfToday(downlink[i].rows))'
  <2>1. \A i \in DOMAIN downlink' :
                /\ downlink'[i].kind = "report" => ~Old(downlink'[i].report)
                /\ downlink'[i].kind = "orders" => OfToday(downlink'[i].rows)
    BY <1>1, <1>3, <1>6 DEF OneDayInv
  <2> QED BY <1>1, <2>1 DEF Old, OfToday
<1> QED BY <1>2, <1>3, <1>4, <1>5, <1>6

LEMMA ReceiveErrorKeeps ==
  ASSUME Inv, ReceiveError
  PROVE  Inv'
<1>1. /\ downlink # << >> /\ downlink' = Tail(downlink) /\ link' = link /\ store' = store
      /\ asking' = asking /\ greeted' = greeted /\ UNCHANGED pageKept /\ reseeds' = reseeds
      /\ meta' = meta /\ days' = days
      /\ UNCHANGED <<link, greeted, subscribed, buffer, meta, days>>
      /\ UNCHANGED <<serverVars, buffer, days, reseeds>>
  BY DEF ReceiveError, serverVars, ghostVars, boundVars, pageKept
<1>2. /\ ServerInv /\ PageInv /\ Behind /\ OneDayInv /\ DaysType
  BY DEF Inv, ServerInv
<1>3. ServerInv' /\ DaysType'
  BY <1>1, <1>2, ServerIdle DEF DaysType
<1>4. PageInv'
  BY <1>1, <1>2, <1>3, SameDaysGrown, PageStays
<1>5. WireInv' /\ Behind'
  BY <1>1, <1>2, MessageTaken DEF Behind, Covers
<1>6. OneDayInv'
  BY <1>1, <1>2, MessageTaken, SameTruth DEF OneDayInv
<1> QED BY <1>3, <1>4, <1>5, <1>6 DEF Inv

\* What a true report can do to the page: nothing, queue, or bring its row on.
IsTaken(x, n, r) ==
  \/ /\ x.rows = store.rows /\ x.pending = store.pending
     /\ x.syncing = store.syncing /\ x.dirty = store.dirty
     /\ x.notify = store.notify /\ n = asking
  \/ /\ x.rows = store.rows /\ x.pending = Append(store.pending, r)
     /\ x.syncing = TRUE /\ x.dirty = store.dirty
     /\ x.notify = store.notify /\ n \in Nat /\ n >= asking /\ n >= 1
  \/ /\ ~store.syncing /\ x.pending = store.pending
     /\ x.syncing = store.syncing /\ n = asking
     /\ x.dirty = store.dirty \cup {r.id} /\ x.notify = TRUE
     /\ \E next \in Progress :
          /\ TrueRow([progress |-> next, eventSeq |-> r.eventSeq], r.id)
          /\ x.rows = [store.rows EXCEPT ![r.id] =
                         [progress |-> next, eventSeq |-> r.eventSeq]]

LEMMA ReportTaken ==
  ASSUME Inv, NEW r \in WireReport, TrueReport(r)
  PROVE  LET f == Ingest(store, r)
             x == Settled(f)
         IN /\ x \in Store /\ x.holes = 0 /\ ~x.threw /\ ~f.threw
            /\ x.removed = store.removed
            /\ IsTaken(x, asking + f.holes, r)
<1>1. /\ ServerInv /\ PageInv /\ DaysType /\ OneDayEach /\ store \in Store /\ ~store.threw
      /\ store.holes = 0 /\ asking \in Nat /\ (store.syncing => asking >= 1)
  BY DEF Inv, ServerInv, PageInv
<1>2. r.id \in Ids /\ r.eventSeq \in Nat /\ store.rows[r.id].eventSeq \in Nat
      /\ store.syncing \in BOOLEAN
  BY <1>1 DEF WireReport, Store, Row
<1>3. TrueRow(store.rows[r.id], r.id)
  BY <1>1, <1>2 DEF PageInv
<1> DEFINE f == Ingest(store, r)
           x == Settled(f)
           n == asking + f.holes
           known == store.rows[r.id].eventSeq
<1>4. /\ f \in Store /\ ~f.threw
      /\ store.syncing => IsQueued(store, r, f) /\ f.holes = store.holes
      /\ ~store.syncing /\ r.eventSeq <= known => f = store
      /\ ~store.syncing /\ r.eventSeq = known + 1 =>
           \E next \in Progress :
             /\ IsFolded(store, r, f, next)
             /\ TrueRow([progress |-> next, eventSeq |-> r.eventSeq], r.id)
      /\ ~store.syncing /\ r.eventSeq > known + 1 =>
           IsQueued(store, r, f) /\ f.holes = store.holes + 1 /\ r.eventSeq >= 2
  BY <1>1, <1>3, Ingested
<1> SUFFICES /\ x \in Store /\ x.holes = 0 /\ ~x.threw /\ ~f.threw
             /\ x.removed = store.removed
             /\ IsTaken(x, n, r)
  OBVIOUS
<1> HIDE DEF f
<1>5. /\ x \in Store /\ x.rows = f.rows /\ x.pending = f.pending
      /\ x.syncing = f.syncing /\ x.dirty = f.dirty
      /\ x.removed = f.removed /\ x.notify = f.notify
      /\ x.holes = 0 /\ x.threw = FALSE /\ n = asking + f.holes
  BY <1>4, SettledFields
<1> HIDE DEF x, n
<1>6. ASSUME store.syncing
      PROVE  IsTaken(x, n, r) /\ x.removed = store.removed
  <2>1. IsQueued(store, r, f) /\ f.holes = 0
    BY <1>1, <1>4, <1>6
  <2>2. n = asking /\ asking >= 1 /\ asking \in Nat
    BY <1>1, <1>5, <1>6, <2>1
  <2> QED BY <1>5, <2>1, <2>2 DEF IsQueued, IsTaken
<1>7. ASSUME ~store.syncing, r.eventSeq <= known
      PROVE  IsTaken(x, n, r) /\ x.removed = store.removed
  <2>1. f = store /\ n = asking
    BY <1>1, <1>4, <1>5, <1>7
  <2> QED BY <1>5, <2>1 DEF IsTaken
<1>8. ASSUME ~store.syncing, r.eventSeq = known + 1
      PROVE  IsTaken(x, n, r) /\ x.removed = store.removed
  <2>1. PICK next \in Progress :
             /\ IsFolded(store, r, f, next)
             /\ TrueRow([progress |-> next, eventSeq |-> r.eventSeq], r.id)
    BY <1>4, <1>8
  <2>2. n = asking
    BY <1>1, <1>5, <2>1 DEF IsFolded
  <2> QED BY <1>5, <1>8, <2>1, <2>2 DEF IsFolded, IsTaken
<1>9. ASSUME ~store.syncing, r.eventSeq > known + 1
      PROVE  IsTaken(x, n, r) /\ x.removed = store.removed
  BY <1>1, <1>4, <1>5, <1>9 DEF IsQueued, IsTaken
<1> QED BY <1>2, <1>4, <1>5, <1>6, <1>7, <1>8, <1>9

LEMMA ReceiveReportKeeps ==
  ASSUME Inv, ReceiveReport
  PROVE  Inv'
<1> DEFINE r == Head(downlink).report
<1>1. /\ downlink # << >> /\ downlink' = Tail(downlink) /\ link' = link
      /\ greeted' = greeted /\ reseeds' = reseeds
      /\ meta' = meta /\ days' = days /\ retry' = retry /\ drawn' = drawn
      /\ store' = Settled(Ingest(store, r))
      /\ asking' = asking + Ingest(store, r).holes
      /\ pageThrew' = (pageThrew \/ Ingest(store, r).threw)
      /\ UNCHANGED <<link, greeted, subscribed, buffer, meta, days>>
      /\ UNCHANGED <<serverVars, buffer, days, reseeds>>
      /\ Head(downlink).kind = "report"
  BY DEF ReceiveReport, Ask, serverVars, boundVars
<1>2. /\ ServerInv /\ WireInv /\ PageInv /\ Behind /\ OneDayInv /\ DaysType
  BY DEF Inv, ServerInv
<1>3. /\ WireInv' /\ link = "open" /\ greeted
      /\ 1 \in DOMAIN downlink /\ Head(downlink) = downlink[1] /\ downlink[1] \in Message
  BY <1>1, MessageTaken
<1>4. r \in WireReport /\ r.id \in Ids /\ TrueReport(r) /\ (reseeds = 0 => ~Old(r))
  <2>1. r \in WireReport
    BY <1>1, <1>3 DEF Message
  <2> QED BY <1>1, <1>2, <1>3, <2>1 DEF WireInv, OneDayInv, WireReport
<1> HIDE DEF r
<1>5a. /\ store' \in Store /\ store'.holes = 0 /\ ~store'.threw /\ ~Ingest(store, r).threw
       /\ store'.removed = store.removed
       /\ IsTaken(store', asking', r)
  BY <1>1, <1>4, ReportTaken
<1>5. /\ store' \in Store /\ store'.holes = 0 /\ ~store'.threw /\ ~Ingest(store, r).threw
      /\ store'.removed = store.removed
      /\ \/ /\ store'.rows = store.rows /\ store'.pending = store.pending
            /\ store'.syncing = store.syncing /\ store'.dirty = store.dirty
            /\ store'.notify = store.notify /\ asking' = asking
         \/ /\ store'.rows = store.rows /\ store'.pending = Append(store.pending, r)
            /\ store'.syncing = TRUE /\ store'.dirty = store.dirty
            /\ store'.notify = store.notify /\ asking' \in Nat /\ asking' >= asking /\ asking' >= 1
         \/ /\ ~store.syncing /\ store'.pending = store.pending
            /\ store'.syncing = store.syncing /\ asking' = asking
            /\ store'.dirty = store.dirty \cup {r.id} /\ store'.notify = TRUE
            /\ \E next \in Progress :
                 /\ TrueRow([progress |-> next, eventSeq |-> r.eventSeq], r.id)
                 /\ store'.rows = [store.rows EXCEPT ![r.id] =
                                     [progress |-> next, eventSeq |-> r.eventSeq]]
  BY <1>5a DEF IsTaken
<1>6. ServerInv'
  BY <1>1, ServerIdle
<1>7. /\ store.rows \in [Ids -> Row] /\ store.pending \in Seq(WireReport)
      /\ store'.pending \in Seq(WireReport) /\ asking \in Nat /\ store.syncing \in BOOLEAN
      /\ \A id \in Ids : store.rows[id].eventSeq \in Nat
  BY <1>2, <1>5 DEF PageInv, Store, Row
\* the rows: what they were, but for the one the report brought on
<1>8. \A id \in Ids :
        \/ store'.rows[id] = store.rows[id]
        \/ /\ id = r.id /\ ~store.syncing /\ store'.rows[id].eventSeq = r.eventSeq
           /\ store'.rows[id] # NoRow /\ TrueRow(store'.rows[id], id)
           /\ id \in store'.dirty /\ store'.notify
  <2> TAKE id \in Ids
  <2>1. CASE store'.rows = store.rows
    BY <2>1
  <2>2. ASSUME ~store.syncing, store'.dirty = store.dirty \cup {r.id}, store'.notify = TRUE,
               NEW next \in Progress,
               TrueRow([progress |-> next, eventSeq |-> r.eventSeq], r.id),
               store'.rows = [store.rows EXCEPT ![r.id] =
                                 [progress |-> next, eventSeq |-> r.eventSeq]]
        PROVE  \/ store'.rows[id] = store.rows[id]
               \/ /\ id = r.id /\ ~store.syncing /\ store'.rows[id].eventSeq = r.eventSeq
                  /\ store'.rows[id] # NoRow /\ TrueRow(store'.rows[id], id)
                  /\ id \in store'.dirty /\ store'.notify
    <3>1. r.eventSeq \in Nat
      BY <1>4 DEF WireReport
    <3>2. [progress |-> next, eventSeq |-> r.eventSeq] # NoRow
      BY <3>1, RowTypes
    <3>3. CASE id = r.id
      BY <1>4, <1>7, <2>2, <3>2, <3>3
    <3>4. CASE id # r.id
      BY <1>4, <1>7, <2>2, <3>4
    <3> QED BY <3>3, <3>4
  <2> QED BY <1>5, <2>1, <2>2
\* the queue: what it was, or with the report at its end
<1>9. /\ \A i \in DOMAIN store'.pending :
           \/ i \in DOMAIN store.pending /\ store'.pending[i] = store.pending[i]
           \/ store'.pending[i] = r
      /\ OldFirst(store.pending) /\ ~Old(r) => OldFirst(store'.pending)
      /\ PendingFine(store.pending) /\ ~Old(r) => PendingFine(store'.pending)
      /\ asking' \in Nat /\ asking' >= asking
      /\ store'.pending # << >> => store'.syncing
      /\ store'.syncing => asking' >= 1
  <2>1. CASE store'.pending = store.pending
    BY <1>2, <1>5, <1>7, <2>1 DEF PageInv
  <2>2. CASE /\ store'.pending = Append(store.pending, r) /\ store'.syncing
             /\ asking' \in Nat /\ asking' >= asking /\ asking' >= 1
    <3> DEFINE p == store.pending
               q == Append(p, r)
    <3>1. /\ Len(p) \in Nat /\ Len(p) + 1 \in DOMAIN q /\ q[Len(p) + 1] = r
          /\ DOMAIN p = 1..Len(p)
          /\ \A i \in DOMAIN p : i \in DOMAIN q /\ q[i] = p[i]
          /\ \A i \in DOMAIN q : i \in DOMAIN p \/ i = Len(p) + 1
      BY <1>4, <1>7, LongerQueue
    <3>2. \A i \in DOMAIN q : (i \in DOMAIN p /\ q[i] = p[i]) \/ q[i] = r
      BY <3>1
    <3>3. OldFirst(p) /\ ~Old(r) => OldFirst(q)
      <4> SUFFICES ASSUME OldFirst(p), ~Old(r), NEW i \in DOMAIN q, NEW j \in DOMAIN q,
                          i < j, Old(q[j])
                   PROVE  Old(q[i])
        BY DEF OldFirst
      <4>1. j \in DOMAIN p
        BY <3>1
      <4>2. i \in DOMAIN p
        BY <3>1, <4>1
      <4>3. q[i] = p[i] /\ q[j] = p[j]
        BY <3>1, <4>1, <4>2
      <4> HIDE DEF q, p
      <4>4. Old(p[j])
        BY <4>3
      <4>5. Old(p[i])
        BY <4>1, <4>2, <4>4 DEF OldFirst
      <4> QED BY <4>3, <4>5
    <3>4. PendingFine(p) /\ ~Old(r) => PendingFine(q)
      <4>1. ASSUME \A i \in DOMAIN p : ~Old(p[i]), ~Old(r)
            PROVE  PendingFine(q)
        BY <3>2, <4>1 DEF PendingFine
      <4>2. ASSUME p # << >>, Old(p[1]), p[1].eventSeq >= 2
            PROVE  PendingFine(q)
        <5>1. 1 \in DOMAIN p
          BY <1>7, <4>2
        <5>2. q # << >> /\ q[1] = p[1]
          BY <3>1, <5>1
        <5> QED BY <4>2, <5>2 DEF PendingFine
      <4> QED BY <4>1, <4>2 DEF PendingFine
    <3> QED BY <2>2, <3>2, <3>3, <3>4
  <2> QED BY <1>5, <2>1, <2>2
<1>10. PageInv'
  <2>1. \A id \in Ids : TrueRow(store'.rows[id], id)
    BY <1>2, <1>8 DEF PageInv
  <2>2. \A i \in DOMAIN store'.pending : TrueReport(store'.pending[i])
    BY <1>2, <1>4, <1>9 DEF PageInv
  <2>3. ~pageThrew' /\ ~retry' /\ drawn' \in [Ids -> Row]
    BY <1>1, <1>2, <1>5 DEF PageInv
  <2> QED BY <1>1, <1>5, <1>9, <2>1, <2>2, <2>3, SameTruth DEF PageInv
<1>11. Behind'
  <2>1. \A j \in DOMAIN downlink : downlink[j].kind = "orders" =>
          \A id \in Ids : meta[id] # 0 =>
            LET told == downlink[j].rows[id].eventSeq
            IN /\ store'.rows[id].eventSeq <= told
               /\ \A i \in DOMAIN store'.pending :
                    store'.pending[i].id = id => store'.pending[i].eventSeq <= told
    <3> SUFFICES ASSUME NEW j \in DOMAIN downlink, downlink[j].kind = "orders",
                        NEW id \in Ids, meta[id] # 0
                 PROVE  LET told == downlink[j].rows[id].eventSeq
                        IN /\ store'.rows[id].eventSeq <= told
                           /\ \A i \in DOMAIN store'.pending :
                                store'.pending[i].id = id => store'.pending[i].eventSeq <= told
      OBVIOUS
    <3>1. Covers(downlink[j].rows[id].eventSeq, id, j)
      BY <1>2 DEF Behind
    <3>2. r.id = id => r.eventSeq <= downlink[j].rows[id].eventSeq
      <4>1. 1 \in 1..j
        BY <1>2 DEF WireInv
      <4>2. Num(downlink[1], id) = IF r.id = id THEN r.eventSeq ELSE 0
        BY <1>1, <1>3 DEF Num, r
      <4> QED BY <3>1, <4>1, <4>2 DEF Covers
    <3>3. store'.rows[id].eventSeq <= downlink[j].rows[id].eventSeq
      BY <1>8, <3>1, <3>2 DEF Covers
    <3>4. ASSUME NEW i \in DOMAIN store'.pending, store'.pending[i].id = id
          PROVE  store'.pending[i].eventSeq <= downlink[j].rows[id].eventSeq
      BY <1>9, <3>1, <3>2, <3>4 DEF Covers
    <3> QED BY <3>3, <3>4
  <2> QED BY <1>1, <2>1, MessageTaken
<1>12. OneDayInv'
  <2> SUFFICES ASSUME reseeds = 0
               PROVE  OneDayInv'
    BY <1>1 DEF OneDayInv
  <2>1. (\A i \in DOMAIN downlink :
           /\ downlink[i].kind = "report" => ~Old(downlink[i].report)
           /\ downlink[i].kind = "orders" => OfToday(downlink[i].rows))'
    BY <1>1, MessageTaken
  <2>2. ~store.syncing => OfToday(store.rows)
    BY <1>2, <1>3 DEF OneDayInv
  <2>3. ~store'.syncing => OfToday(store'.rows)
    <3>1. ~store'.syncing => ~store.syncing
      BY <1>5
    <3> QED BY <1>4, <1>8, <2>2, <3>1 DEF OfToday, Old
  <2>4. \E d \in Days : \A id \in Ids : RowAt(store'.rows[id], days[d][id])
    <3>1. CASE store'.rows = store.rows
      BY <1>2, <3>1 DEF OneDayInv
    <3>2. CASE ~store.syncing
      <4>1. OfToday(store'.rows)
        BY <1>4, <1>8, <2>2, <3>2 DEF OfToday, Old
      <4>2. store'.rows \in [Ids -> Row] /\ \A id \in Ids : TrueRow(store'.rows[id], id)
        BY <1>2, <1>5, <1>8 DEF PageInv, Store
      <4> QED BY <1>2, <4>1, <4>2, TodaysBook
    <3> QED BY <1>5, <3>1, <3>2
  <2>5. asking' >= 2 \/ PendingFine(store'.pending)
    BY <1>2, <1>3, <1>4, <1>7, <1>9 DEF OneDayInv
  <2>6. OldFirst(store'.pending)
    BY <1>2, <1>4, <1>9 DEF OneDayInv
  <2> QED BY <1>1, <1>3, <2>1, <2>3, <2>4, <2>5, <2>6, SameTruth DEF OneDayInv
<1> QED BY <1>3, <1>6, <1>10, <1>11, <1>12 DEF Inv

\* The answer reaches every callback that waits for it, and none throws.
LEMMA AnswerReconciles ==
  ASSUME Inv, ReceiveOrders
  PROVE  LET snapshot == Head(downlink).rows
         IN /\ snapshot \in [Ids -> Row] /\ snapshot = downlink[1].rows
            /\ downlink[1].kind = "orders" /\ 1 \in DOMAIN downlink
            /\ \A id \in Ids : TrueRow(snapshot[id], id)
            /\ \E x : /\ Rounded(x, asking, store, snapshot)
                      /\ store' = Settled(x) /\ asking' = x.holes
                      /\ ~pageThrew' /\ ~retry'
<1> DEFINE snapshot == Head(downlink).rows
<1>1. /\ ServerInv /\ WireInv /\ PageInv /\ Behind /\ DaysType /\ OneDayEach
      /\ store \in Store /\ ~store.threw /\ asking \in Nat
      /\ \A id \in Ids : TrueRow(store.rows[id], id)
      /\ \A i \in DOMAIN store.pending : TrueReport(store.pending[i])
  BY DEF Inv, ServerInv, PageInv
<1>2. 1 \in DOMAIN downlink /\ Head(downlink) = downlink[1] /\ downlink[1] \in Message
  <2>1. downlink # << >> /\ downlink \in Seq(Message)
    BY <1>1 DEF ReceiveOrders, WireInv
  <2> QED BY <2>1, ShorterQueue
<1>3. downlink[1].kind = "orders" /\ snapshot = downlink[1].rows
  BY <1>2 DEF ReceiveOrders
<1>4. snapshot \in [Ids -> Row]
  BY <1>2, <1>3 DEF Message
<1>5. \A id \in Ids : TrueRow(snapshot[id], id)
  BY <1>1, <1>2, <1>3 DEF WireInv
<1>6. Told(store.pending, snapshot)
  <2> SUFFICES ASSUME NEW i \in DOMAIN store.pending, ~Old(store.pending[i])
               PROVE  store.pending[i].eventSeq <= snapshot[store.pending[i].id].eventSeq
    BY DEF Told
  <2>1. store.pending[i] \in WireReport
    BY <1>1 DEF Store
  <2>2. store.pending[i].id \in Ids /\ meta[store.pending[i].id] # 0
    BY <2>1 DEF WireReport, Old
  <2>3. Covers(snapshot[store.pending[i].id].eventSeq, store.pending[i].id, 1)
    BY <1>1, <1>2, <1>3, <2>2 DEF Behind
  <2> QED BY <2>3 DEF Covers
<1> HIDE DEF snapshot
<1>7. PICK after :
        /\ after = CHOOSE f : f = [n \in 0..asking |->
             IF n = 0 THEN store ELSE Reconcile(f[n - 1], snapshot)]
        /\ store' = Settled(after[asking])
        /\ pageThrew' = (pageThrew \/ \E n \in 1..asking : after[n].threw)
        /\ retry' = (retry \/ \E n \in 1..asking : after[n].threw)
        /\ asking' = 0 + after[asking].holes
  BY DEF ReceiveOrders, Ask, snapshot
<1>8. \A n \in 0..asking : Rounded(after[n], n, store, snapshot)
  BY <1>1, <1>4, <1>5, <1>6, <1>7, AnswerIsTaken
<1>9. Rounded(after[asking], asking, store, snapshot)
  BY <1>1, <1>8
<1>10. ~pageThrew' /\ ~retry'
  <2>1. \A n \in 1..asking : n \in 0..asking
    BY <1>1
  <2>2. \A n \in 1..asking : ~after[n].threw
    BY <1>8, <2>1 DEF Rounded
  <2> QED BY <1>1, <1>7, <2>2 DEF PageInv
<1>11. asking' = after[asking].holes
  BY <1>7, <1>9 DEF Rounded, Store
<1> QED BY <1>2, <1>3, <1>4, <1>5, <1>7, <1>9, <1>10, <1>11 DEF snapshot

LEMMA ReceiveOrdersKeeps ==
  ASSUME Inv, ReceiveOrders
  PROVE  Inv'
<1> DEFINE snapshot == Head(downlink).rows
<1>1. /\ downlink # << >> /\ downlink' = Tail(downlink) /\ link' = link
      /\ greeted' = greeted /\ reseeds' = reseeds
      /\ meta' = meta /\ days' = days /\ drawn' = drawn
      /\ UNCHANGED <<link, greeted, subscribed, buffer, meta, days>>
      /\ UNCHANGED <<serverVars, buffer, days, reseeds>>
  BY DEF ReceiveOrders, Ask, serverVars, boundVars
<1>2. /\ ServerInv /\ WireInv /\ PageInv /\ Behind /\ OneDayInv /\ DaysType
  BY DEF Inv, ServerInv
<1>3. WireInv' /\ link = "open" /\ greeted
  BY <1>1, MessageTaken
<1>4. /\ snapshot \in [Ids -> Row] /\ snapshot = downlink[1].rows
      /\ downlink[1].kind = "orders" /\ 1 \in DOMAIN downlink
      /\ \A id \in Ids : TrueRow(snapshot[id], id)
  BY AnswerReconciles
<1>5. PICK x : /\ Rounded(x, asking, store, snapshot)
               /\ store' = Settled(x) /\ asking' = x.holes
               /\ ~pageThrew' /\ ~retry'
  BY AnswerReconciles
<1> HIDE DEF snapshot
<1>6. ServerInv'
  BY <1>1, ServerIdle
<1>7. /\ x \in Store
      /\ store' \in Store /\ store'.holes = 0 /\ ~store'.threw
      /\ store'.rows = x.rows /\ store'.pending = x.pending /\ store'.syncing = x.syncing
      /\ store'.dirty = x.dirty /\ store'.removed = x.removed /\ store'.notify = x.notify
  BY <1>5, SettledFields DEF Rounded
<1>8. asking \in Nat /\ (asking = 0 \/ asking >= 1) /\ asking' \in Nat
  BY <1>2, <1>5, <1>7 DEF PageInv, Store
<1>9. \A i \in DOMAIN x.pending : \E j \in DOMAIN store.pending : x.pending[i] = store.pending[j]
  BY <1>5 DEF Rounded
<1>10. asking = 0 => x = store /\ store.holes = 0 /\ ~store.syncing /\ store.pending = << >>
  BY <1>2, <1>5 DEF Rounded, PageInv
<1>11. asking >= 1 => /\ x.notify
                      /\ \A id \in Ids : meta[id] # 0 => x.rows[id] = snapshot[id]
                      /\ x.syncing => x.holes >= 1
                      /\ ~x.syncing => x.pending = << >>
  BY <1>5 DEF Rounded
<1>12. PageInv'
  <2>1. \A id \in Ids : TrueRow(store'.rows[id], id)
    BY <1>5, <1>7 DEF Rounded
  <2>2. \A i \in DOMAIN store'.pending : TrueReport(store'.pending[i])
    BY <1>2, <1>7, <1>9 DEF PageInv
  <2>5. store'.pending # << >> => store'.syncing
    BY <1>7, <1>8, <1>10, <1>11
  <2>6. store'.syncing => asking' >= 1
    BY <1>5, <1>7, <1>8, <1>10, <1>11
  <2>7. drawn' \in [Ids -> Row]
    BY <1>1, <1>2 DEF PageInv
  <2> QED BY <1>1, <1>5, <1>7, <1>8, <2>1, <2>2, <2>5, <2>6, <2>7, SameTruth DEF PageInv
<1>13. Behind'
  <2>1. ASSUME NEW j \in DOMAIN downlink, downlink[j].kind = "orders",
               NEW id \in Ids, meta[id] # 0
        PROVE  LET told == downlink[j].rows[id].eventSeq
               IN /\ store'.rows[id].eventSeq <= told
                  /\ \A i \in DOMAIN store'.pending :
                       store'.pending[i].id = id => store'.pending[i].eventSeq <= told
    <3>1. Covers(downlink[j].rows[id].eventSeq, id, j)
      BY <1>2, <2>1 DEF Behind
    <3>2. snapshot[id].eventSeq <= downlink[j].rows[id].eventSeq
      <4>1. 1 \in 1..j
        BY <1>2 DEF WireInv
      <4>2. Num(downlink[1], id) = snapshot[id].eventSeq
        BY <1>4 DEF Num
      <4> QED BY <3>1, <4>1, <4>2 DEF Covers
    <3>3. store'.rows[id] = store.rows[id] \/ store'.rows[id] = snapshot[id]
      BY <1>7, <1>8, <1>10, <1>11, <2>1
    <3>4. store'.rows[id].eventSeq <= downlink[j].rows[id].eventSeq
      BY <3>1, <3>2, <3>3 DEF Covers
    <3>5. ASSUME NEW i \in DOMAIN store'.pending, store'.pending[i].id = id
          PROVE  store'.pending[i].eventSeq <= downlink[j].rows[id].eventSeq
      BY <1>7, <1>9, <3>1, <3>5 DEF Covers
    <3> QED BY <3>4, <3>5
  <2> QED BY <1>1, <2>1, MessageTaken
<1>14. OneDayInv'
  <2> SUFFICES ASSUME reseeds = 0
               PROVE  OneDayInv'
    BY <1>1 DEF OneDayInv
  <2>1. (\A i \in DOMAIN downlink :
           /\ downlink[i].kind = "report" => ~Old(downlink[i].report)
           /\ downlink[i].kind = "orders" => OfToday(downlink[i].rows))'
    BY <1>1, MessageTaken
  <2>2. /\ OfToday(snapshot) /\ OldFirst(store.pending)
        /\ asking >= 2 \/ PendingFine(store.pending)
    BY <1>2, <1>3, <1>4 DEF OneDayInv
  <2>3. asking >= 1 => x.rows = snapshot
    BY <1>5, <2>2 DEF Rounded
  <2>4. ~store'.syncing => OfToday(store'.rows)
    <3>1. CASE asking = 0
      BY <1>2, <1>3, <1>7, <1>10, <3>1 DEF OneDayInv
    <3>2. CASE asking >= 1
      BY <1>7, <2>2, <2>3, <3>2
    <3> QED BY <1>8, <3>1, <3>2
  <2>5. \E d \in Days : \A id \in Ids : RowAt(store'.rows[id], days[d][id])
    <3>1. CASE asking = 0
      BY <1>2, <1>7, <1>10, <3>1 DEF OneDayInv
    <3>2. CASE asking >= 1
      <4>1. store'.rows = snapshot
        BY <1>7, <2>3, <3>2
      <4> QED BY <1>2, <1>4, <2>2, <4>1, TodaysBook
    <3> QED BY <1>8, <3>1, <3>2
  <2>6. PendingFine(store'.pending)
    <3>1. CASE asking = 0
      BY <1>7, <1>10, <3>1 DEF PendingFine
    <3>2. CASE asking >= 1
      BY <1>5, <1>7, <2>2, <3>2 DEF Rounded
    <3> QED BY <1>8, <3>1, <3>2
  <2>7. OldFirst(store'.pending)
    BY <1>5, <1>7, <2>2 DEF Rounded
  <2> QED BY <1>1, <1>3, <2>1, <2>4, <2>5, <2>6, <2>7, SameTruth DEF OneDayInv
<1> QED BY <1>3, <1>6, <1>12, <1>13, <1>14 DEF Inv

-----------------------------------------------------------------------------
(* The theorems *)

LEMMA InitOK ==
  ASSUME Init
  PROVE  Inv
<1>1. ServerInv /\ DaysType
  BY ServerInitOK DEF ServerInv
<1>2. /\ link = "down" /\ downlink = << >> /\ buffer = << >> /\ uplink = << >>
      /\ subscribed = FALSE /\ greeted = FALSE /\ store = EmptyStore /\ drawn = NoRows
      /\ asking = 0 /\ retry = FALSE /\ pageThrew = FALSE
  BY DEF Init
<1>3. downlink \in Seq(Message) /\ DOMAIN downlink = {}
  BY <1>2
<1>4. WireInv
  BY <1>2, <1>3 DEF WireInv
<1>5. /\ store \in Store /\ store.rows = NoRows /\ store.pending = << >> /\ ~store.syncing
      /\ store.removed = {} /\ store.holes = 0 /\ ~store.threw
  <2>1. << >> \in Seq(WireReport) /\ NoRows \in [Ids -> Row]
    BY RowTypes DEF NoRows
  <2> QED BY <1>2, <2>1 DEF EmptyStore, Store
<1>6. \A id \in Ids, d \in Days : RowAt(NoRows[id], days[d][id])
  BY DEF RowAt, NoRows
<1>7. Today \in Days
  BY <1>1, DayTypes
<1>8. PageInv
  <2>1. \A id \in Ids : TrueRow(store.rows[id], id)
    BY <1>5, <1>6, <1>7 DEF TrueRow
  <2>2. drawn \in [Ids -> Row]
    BY <1>2, <1>5 DEF Store
  <2> QED BY <1>2, <1>5, <2>1, <2>2 DEF PageInv
<1>9. Behind /\ OneDayInv
  <2>1. PendingFine(store.pending) /\ OldFirst(store.pending)
    BY <1>5 DEF PendingFine, OldFirst
  <2>2. \E d \in Days : \A id \in Ids : RowAt(store.rows[id], days[d][id])
    BY <1>5, <1>6, <1>7
  <2> QED BY <1>2, <1>3, <1>5, <2>1, <2>2 DEF Behind, OneDayInv
<1> QED BY <1>1, <1>4, <1>8, <1>9 DEF Inv

LEMMA NothingMoves ==
  ASSUME Inv, UNCHANGED vars
  PROVE  Inv'
<1>1. ServerInv /\ ServerInv' /\ Grown /\ Registers
  <2>1. UNCHANGED <<serverVars, buffer, days, reseeds>> /\ ServerInv /\ DaysType
    BY DEF Inv, ServerInv, vars, wireVars, ghostVars, boundVars
  <2>2. meta' = meta
    BY <2>1 DEF serverVars
  <2> QED BY <2>1, <2>2, ServerIdle, SameDaysGrown DEF Registers
<1>2. /\ UNCHANGED <<link, greeted, uplink, subscribed, downlink>> /\ UNCHANGED pageKept
      /\ reseeds' = reseeds /\ buffer' = buffer
  BY DEF vars, wireVars, pageVars, boundVars, pageKept
<1>3. StillTrue
  BY <1>1, GrownIsTrue DEF Inv, ServerInv
<1> QED BY <1>1, <1>2, <1>3, ServerStepOK

\* A step that uses no id again before its last use is gone.
LEMMA Unmixed ==
  ASSUME mixes = 0, mixes' = 0, NEW id \in Ids, NEW qty \in OrderQtys, Submit(id, qty)
  PROVE  Gone(id)
  BY DEF Submit, Reuse

LEMMA NextKeeps ==
  ASSUME Inv, mixes = 0, mixes' = 0, [Next]_vars
  PROVE  Inv'
<1>1. CASE \E id \in Ids, qty \in OrderQtys : Submit(id, qty)
  BY <1>1, Unmixed, SubmitKeeps
<1>2. CASE PublishDeferred
  BY <1>2, PublishDeferredKeeps
<1>3. CASE TickSome
  BY <1>3, TickKeeps DEF TickSome
<1>4. CASE Reseed
  BY <1>4, ReseedKeeps
<1>5. CASE Drop
  BY <1>5, DropKeeps
<1>6. CASE Restart
  BY <1>6, RestartKeeps
<1>7. CASE Connect
  BY <1>7, ConnectKeeps
<1>8. CASE Served
  BY <1>8, ServeSubscriptionKeeps, ServeQueryKeeps, SendReportKeeps DEF Served
<1>9. CASE Received
  BY <1>9, ReceiveReportKeeps, ReceiveOrdersKeeps, ReceiveErrorKeeps DEF Received
<1>10. CASE RetryFires
  BY <1>10 DEF RetryFires, Inv, PageInv
<1>11. CASE Flush
  BY <1>11, FlushKeeps
<1>12. CASE UNCHANGED vars
  BY <1>12, NothingMoves
<1> QED BY <1>1, <1>2, <1>3, <1>4, <1>5, <1>6, <1>7, <1>8, <1>9, <1>10, <1>11, <1>12 DEF Next

\* Mixed ids stay mixed.
LEMMA MixesGrow ==
  ASSUME mixes \in Nat, [Next]_vars
  PROVE  mixes' \in Nat /\ (mixes' = 0 => mixes = 0)
<1>1. CASE \E id \in Ids, qty \in OrderQtys : Submit(id, qty)
  BY <1>1 DEF Submit, Reuse
<1>2. CASE Connect \/ RetryFires \/ Flush \/ Drop
  BY <1>2 DEF Connect, RetryFires, Flush, Drop, ghostVars
<1>3. CASE PublishDeferred \/ TickSome \/ Reseed \/ Restart
  BY <1>3 DEF PublishDeferred, TickSome, Tick, Reseed, Restart
<1>4. CASE Served \/ Received
  BY <1>4 DEF Served, Received, ServeSubscription, ServeQuery, SendReport, ReceiveReport,
     ReceiveOrders, ReceiveError, ghostVars
<1>5. CASE UNCHANGED vars
  BY <1>5 DEF vars, ghostVars
<1> QED BY <1>1, <1>2, <1>3, <1>4, <1>5 DEF Next

InvUnlessMixed == mixes \in Nat /\ (mixes = 0 => Inv)

LEMMA InvAlways == Spec => []InvUnlessMixed
<1>1. Init => InvUnlessMixed
  <2> SUFFICES ASSUME Init PROVE InvUnlessMixed
    OBVIOUS
  <2>1. mixes = 0
    BY DEF Init
  <2> QED BY <2>1, InitOK DEF InvUnlessMixed
<1>2. InvUnlessMixed /\ [Next]_vars => InvUnlessMixed'
  BY NextKeeps, MixesGrow DEF InvUnlessMixed
<1> QED BY <1>1, <1>2, PTL DEF Spec

LEMMA InvSays ==
  ASSUME Inv, mixes = 0
  PROVE  WarmInv /\ OneDayTruly
<1>1. ServerInv /\ WireInv /\ PageInv /\ OneDayInv /\ DaysType
  BY DEF Inv, ServerInv
<1>2. WarmTypeOK
  <2>1. meta \in [Ids -> Nat] /\ engine \in [Ids -> Progress \cup {NoOrder}] /\ states \in [Ids -> Row]
    BY <1>1 DEF ServerInv
  <2>2. StoreTypeOK
    BY <1>1 DEF PageInv, Store, StoreTypeOK
  <2> QED BY <1>1, <2>1, <2>2 DEF WarmTypeOK, WireInv, PageInv
<1>3. ServerNeverThrows /\ PageNeverThrows /\ StatesFollowEngine
  BY <1>1 DEF ServerInv, PageInv, ServerNeverThrows, PageNeverThrows
<1>5. \A id \in Ids, d \in Days : RowAt(store.rows[id], days[d][id]) => RowOfDay(id, d)
  BY DayTypes, <1>1 DEF RowAt, RowOfDay
<1>6. OneDayTruly
  BY <1>1, <1>5 DEF OneDayTruly, OneDayInv, PageInv, TrueRow, Days
<1> QED BY <1>2, <1>3, <1>6 DEF WarmInv

\* For any orders, sizes, capacity and bounds, as long as no id is used again before
\* its last use was gone: nobody throws, and the states follow the engine but for
\* rejections that wait (warm.ts, server.ts, orders.ts).
THEOREM NobodyThrows == Spec => []WarmInv
<1>1. InvUnlessMixed => WarmInv
  <2>1. CASE mixes = 0
    BY <2>1, InvSays DEF InvUnlessMixed
  <2>2. CASE mixes # 0
    BY <2>2 DEF WarmInv
  <2> QED BY <2>1, <2>2
<1> QED BY <1>1, InvAlways, PTL

\* And every row on the page is what the server's fold was after as many events of
\* one day, and without a reseed all rows are of the same day.
THEOREM EveryEventExactlyOnceInOrder == Spec => []OneDayTruly
<1>1. InvUnlessMixed => OneDayTruly
  <2>1. CASE mixes = 0
    BY <2>1, InvSays DEF InvUnlessMixed
  <2>2. CASE mixes # 0
    BY <2>2 DEF OneDayTruly
  <2> QED BY <2>1, <2>2
<1> QED BY <1>1, InvAlways, PTL

LEMMA StepKeepsLive ==
  ASSUME Inv, [Next]_vars, NEW id \in Ids,
         store.rows[id] # NoRow, store'.rows[id] = NoRow, states[id] # NoRow
  PROVE  store.rows[id].progress.status \in Terminal
<1>1. /\ ServerInv /\ WireInv /\ PageInv /\ Behind /\ DaysType /\ store \in Store /\ ~retry
  BY DEF Inv, ServerInv, PageInv
<1>2. store' # store
  OBVIOUS
<1>3. CASE Connect
  BY <1>1, <1>3 DEF Connect, BeginResync, Store
<1>4. CASE ReceiveReport
  <2> DEFINE r == Head(downlink).report
  <2>1. /\ downlink # << >> /\ downlink \in Seq(Message) /\ Head(downlink).kind = "report"
        /\ store' = Settled(Ingest(store, r))
    BY <1>1, <1>4 DEF ReceiveReport, WireInv
  <2>2. 1 \in DOMAIN downlink /\ Head(downlink) = downlink[1] /\ downlink[1] \in Message
    BY <2>1, ShorterQueue
  <2>3. r \in WireReport /\ TrueReport(r) /\ r.eventSeq \in Nat
    <3>1. r \in WireReport
      BY <2>1, <2>2 DEF Message
    <3> QED BY <1>1, <2>1, <2>2, <3>1 DEF WireInv, WireReport
  <2> HIDE DEF r
  <2>4. IsTaken(store', asking + Ingest(store, r).holes, r)
    BY <2>1, <2>3, ReportTaken
  <2>5. store.rows \in [Ids -> Row]
    BY <1>1 DEF Store
  <2>6. PICK next \in Progress :
          store'.rows = [store.rows EXCEPT ![r.id] = [progress |-> next, eventSeq |-> r.eventSeq]]
    BY <2>4 DEF IsTaken
  <2>7. [progress |-> next, eventSeq |-> r.eventSeq] # NoRow
    BY <2>3, RowTypes
  <2> QED BY <2>5, <2>6, <2>7
<1>5. CASE ReceiveOrders
  <2> DEFINE snapshot == Head(downlink).rows
  <2>1. /\ snapshot \in [Ids -> Row] /\ snapshot = downlink[1].rows
        /\ downlink[1].kind = "orders" /\ 1 \in DOMAIN downlink
    BY <1>5, AnswerReconciles
  <2>2. PICK x : Rounded(x, asking, store, snapshot) /\ store' = Settled(x)
    BY <1>5, AnswerReconciles
  <2> HIDE DEF snapshot
  <2>3. meta[id] # 0
    BY <1>1, StatesAreTrue DEF OfToday
  <2>4. store'.rows = x.rows
    BY <2>2, SettledFields DEF Rounded
  <2>5. asking \in Nat /\ asking # 0
    BY <1>1, <1>2, <2>2, <2>4 DEF Rounded, PageInv
  <2>6. snapshot[id] = NoRow
    BY <2>2, <2>3, <2>4, <2>5 DEF Rounded
  <2>7. store.rows[id].eventSeq <= 0
    BY <1>1, <2>1, <2>3, <2>6 DEF Behind, Covers, NoRow
  <2>8. store.rows[id] \in Row /\ RowAt(store.rows[id], days[Today][id])
        /\ days[Today][id] \in Seq(Progress)
    BY <1>1, <2>3, TodaysTruth, DayTypes DEF PageInv, Store
  <2>9. store.rows[id].eventSeq = 0
    BY <2>7, <2>8 DEF Row
  <2> QED BY <2>8, <2>9, RowNumber
<1>6. CASE RetryFires
  BY <1>1, <1>6 DEF RetryFires
<1>7. CASE Flush
  <2>1. PICK gone \in Prunable(store) :
          /\ drawn' = Drawn(drawn, Pruned(store, gone))
          /\ store' = Taken(Pruned(store, gone))
    BY <1>7 DEF Flush
  <2>2. /\ store'.rows = [i \in Ids |-> IF i \in gone THEN NoRow ELSE store.rows[i]]
        /\ \A i \in gone : store.rows[i].progress.status \in Terminal
    BY <1>1, <2>1, Flushed
  <2> QED BY <2>2
<1>8. CASE \/ \E i \in Ids, qty \in OrderQtys : Submit(i, qty)
           \/ PublishDeferred \/ TickSome \/ Reseed \/ Drop \/ Restart \/ Served
           \/ ReceiveError \/ UNCHANGED vars
  BY <1>2, <1>8 DEF Submit, PublishDeferred, TickSome, Tick, Reseed, Drop, Restart, Served,
     ServeSubscription, ServeQuery, SendReport, ReceiveError, vars, pageVars
<1> QED BY <1>3, <1>4, <1>5, <1>6, <1>7, <1>8 DEF Next, Received

\* And no order that the server holds leaves the page before it ended, whatever is
\* pruned or replaced (prune, reconcile of orders.ts).
THEOREM LiveOrdersAreKept == Spec => LiveOrdersStay
<1>1. InvUnlessMixed /\ [Next]_vars =>
        [\A id \in Ids : /\ mixes = 0
                         /\ store.rows[id] # NoRow
                         /\ store'.rows[id] = NoRow
                         /\ states[id] # NoRow
                         => store.rows[id].progress.status \in Terminal]_vars
  BY StepKeepsLive DEF InvUnlessMixed
<1> QED BY <1>1, InvAlways, PTL DEF Spec, LiveOrdersStay

-----------------------------------------------------------------------------
(* The numbers of an order's events, in a queue and on the wire *)

Numbers(q, id) == {q[i].eventSeq : i \in {j \in DOMAIN q : q[j].id = id}}
Sent(q, id) ==
  {q[i].report.eventSeq :
     i \in {j \in DOMAIN q : q[j].kind = "report" /\ q[j].report.id = id}}

\* Of each order later events come later.
Rising(q) ==
  \A i, j \in DOMAIN q : i < j /\ q[i].id = q[j].id => q[i].eventSeq < q[j].eventSeq
RisingSent(q) ==
  \A i, j \in DOMAIN q :
    /\ i < j
    /\ q[i].kind = "report" /\ q[j].kind = "report"
    /\ q[i].report.id = q[j].report.id
    => q[i].report.eventSeq < q[j].report.eventSeq

Above(S, T) == \A m \in S, n \in T : m < n
NoGap(S) == \A m, n \in S : m < n => m + 1 \in S

LEMMA NumbersAre ==
  ASSUME NEW q \in Seq(WireReport), NEW id
  PROVE  /\ Numbers(q, id) \in SUBSET Nat
         /\ \A i \in DOMAIN q : q[i] \in WireReport /\ (q[i].id = id => q[i].eventSeq \in Numbers(q, id))
         /\ \A n \in Numbers(q, id) : \E i \in DOMAIN q : q[i].id = id /\ q[i].eventSeq = n
<1>1. \A i \in DOMAIN q : q[i] \in WireReport
  OBVIOUS
<1>2. \A i \in DOMAIN q : q[i].eventSeq \in Nat
  BY <1>1 DEF WireReport
<1> QED BY <1>1, <1>2 DEF Numbers

LEMMA SentAre ==
  ASSUME NEW q \in Seq(Message), NEW id
  PROVE  /\ Sent(q, id) \in SUBSET Nat
         /\ \A i \in DOMAIN q :
              /\ q[i] \in Message
              /\ q[i].kind = "report" => q[i].report \in WireReport
              /\ q[i].kind = "report" /\ q[i].report.id = id => q[i].report.eventSeq \in Sent(q, id)
         /\ \A n \in Sent(q, id) : \E i \in DOMAIN q :
              q[i].kind = "report" /\ q[i].report.id = id /\ q[i].report.eventSeq = n
<1>1. \A i \in DOMAIN q : q[i] \in Message
  OBVIOUS
<1>2. \A i \in DOMAIN q : q[i].kind = "report" => q[i].report \in WireReport
  BY <1>1 DEF Message
<1>3. \A i \in DOMAIN q : q[i].kind = "report" => q[i].report.eventSeq \in Nat
  BY <1>2 DEF WireReport
<1> QED BY <1>1, <1>2, <1>3 DEF Sent

\* One more report at the end.
LEMMA NumbersGrow ==
  ASSUME NEW q \in Seq(WireReport), NEW r \in WireReport
  PROVE  /\ Numbers(Append(q, r), r.id) = Numbers(q, r.id) \cup {r.eventSeq}
         /\ \A id : id # r.id => Numbers(Append(q, r), id) = Numbers(q, id)
         /\ Rising(q) /\ (\A n \in Numbers(q, r.id) : n < r.eventSeq) => Rising(Append(q, r))
<1> DEFINE p == Append(q, r)
           k == Len(q) + 1
<1>1. /\ p \in Seq(WireReport) /\ k \in DOMAIN p /\ p[k] = r /\ k \in Nat /\ DOMAIN q = 1..(k - 1)
      /\ \A i \in DOMAIN q : i \in DOMAIN p /\ p[i] = q[i]
      /\ \A i \in DOMAIN p : i \in DOMAIN q \/ i = k
  BY LongerQueue
<1> HIDE DEF p, k
<1>2. ASSUME NEW id
      PROVE  Numbers(p, id) = IF id = r.id THEN Numbers(q, id) \cup {r.eventSeq} ELSE Numbers(q, id)
  BY <1>1 DEF Numbers
<1>3. ASSUME Rising(q), \A n \in Numbers(q, r.id) : n < r.eventSeq
      PROVE  Rising(p)
  <2> SUFFICES ASSUME NEW i \in DOMAIN p, NEW j \in DOMAIN p, i < j, p[i].id = p[j].id
               PROVE  p[i].eventSeq < p[j].eventSeq
    BY DEF Rising
  <2>1. i \in DOMAIN q /\ p[i] = q[i]
    BY <1>1
  <2>2. CASE j \in DOMAIN q
    BY <1>1, <1>3, <2>1, <2>2 DEF Rising
  <2>3. CASE j = k
    <3>1. q[i].eventSeq \in Numbers(q, r.id)
      BY <1>1, <2>1, <2>3, NumbersAre
    <3> QED BY <1>1, <1>3, <2>1, <2>3, <3>1
  <2> QED BY <1>1, <2>2, <2>3
<1> QED BY <1>2, <1>3 DEF p

\* One report less at the head.
LEMMA NumbersShrink ==
  ASSUME NEW q \in Seq(WireReport), q # << >>, Rising(q)
  PROVE  /\ \A id : Numbers(q, id) = IF id = q[1].id THEN Numbers(Tail(q), id) \cup {q[1].eventSeq}
                                     ELSE Numbers(Tail(q), id)
         /\ \A n \in Numbers(Tail(q), q[1].id) : q[1].eventSeq < n
         /\ Rising(Tail(q))
<1> DEFINE p == Tail(q)
<1>1. /\ p \in Seq(WireReport) /\ 1 \in DOMAIN q
      /\ \A i \in DOMAIN p : i + 1 \in DOMAIN q /\ p[i] = q[i + 1] /\ i \in Nat /\ i >= 1
      /\ \A i \in DOMAIN q : i = 1 \/ (i - 1 \in DOMAIN p /\ i = (i - 1) + 1)
  OBVIOUS
<1> HIDE DEF p
<1>2. ASSUME NEW id
      PROVE  Numbers(q, id) = IF id = q[1].id THEN Numbers(p, id) \cup {q[1].eventSeq} ELSE Numbers(p, id)
  <2>1. ASSUME NEW n \in Numbers(p, id) PROVE n \in Numbers(q, id)
    <3>1. PICK i \in DOMAIN p : p[i].id = id /\ p[i].eventSeq = n
      BY <1>1, NumbersAre
    <3> QED BY <1>1, <3>1, NumbersAre
  <2>2. ASSUME NEW n \in Numbers(q, id)
        PROVE  n \in Numbers(p, id) \/ (id = q[1].id /\ n = q[1].eventSeq)
    <3>1. PICK i \in DOMAIN q : q[i].id = id /\ q[i].eventSeq = n
      BY <1>1, NumbersAre
    <3>2. CASE i # 1
      <4>1. i - 1 \in DOMAIN p /\ p[i - 1] = q[i]
        BY <1>1, <3>1, <3>2
      <4> QED BY <1>1, <3>1, <4>1, NumbersAre
    <3> QED BY <3>1, <3>2
  <2>3. id = q[1].id => q[1].eventSeq \in Numbers(q, id)
    BY <1>1, NumbersAre
  <2> QED BY <2>1, <2>2, <2>3
<1>3. ASSUME NEW n \in Numbers(p, q[1].id) PROVE q[1].eventSeq < n
  <2>1. PICK i \in DOMAIN p : p[i].id = q[1].id /\ p[i].eventSeq = n
    BY <1>1, NumbersAre
  <2>2. i + 1 \in DOMAIN q /\ 1 < i + 1 /\ q[i + 1] = p[i]
    BY <1>1
  <2> QED BY <1>1, <2>1, <2>2 DEF Rising
<1>4. Rising(p)
  <2> SUFFICES ASSUME NEW i \in DOMAIN p, NEW j \in DOMAIN p, i < j, p[i].id = p[j].id
               PROVE  p[i].eventSeq < p[j].eventSeq
    BY DEF Rising
  <2>1. /\ i + 1 \in DOMAIN q /\ q[i + 1] = p[i]
        /\ j + 1 \in DOMAIN q /\ q[j + 1] = p[j] /\ i + 1 < j + 1
    BY <1>1
  <2> QED BY <2>1 DEF Rising
<1> QED BY <1>2, <1>3, <1>4 DEF p

\* One more message.
LEMMA SentGrow ==
  ASSUME NEW q \in Seq(Message), NEW m \in Message
  PROVE  /\ \A id : Sent(Append(q, m), id) =
                      IF m.kind = "report" THEN IF id = m.report.id THEN Sent(q, id) \cup {m.report.eventSeq}
                                                ELSE Sent(q, id)
                      ELSE Sent(q, id)
         /\ RisingSent(q) /\ (m.kind = "report" => \A n \in Sent(q, m.report.id) : n < m.report.eventSeq)
              => RisingSent(Append(q, m))
<1> DEFINE p == Append(q, m)
           k == Len(q) + 1
<1>1. /\ p \in Seq(Message) /\ k \in DOMAIN p /\ p[k] = m /\ k \in Nat /\ DOMAIN q = 1..(k - 1)
      /\ \A i \in DOMAIN q : i \in DOMAIN p /\ p[i] = q[i]
      /\ \A i \in DOMAIN p : i \in DOMAIN q \/ i = k
  BY LongerQueue
<1> HIDE DEF p, k
<1>2. ASSUME NEW id
      PROVE  Sent(p, id) = IF m.kind = "report" THEN IF id = m.report.id THEN Sent(q, id) \cup {m.report.eventSeq}
                                                     ELSE Sent(q, id)
                           ELSE Sent(q, id)
  BY <1>1 DEF Sent
<1>3. ASSUME RisingSent(q), m.kind = "report" => \A n \in Sent(q, m.report.id) : n < m.report.eventSeq
      PROVE  RisingSent(p)
  <2> SUFFICES ASSUME NEW i \in DOMAIN p, NEW j \in DOMAIN p, i < j,
                      p[i].kind = "report", p[j].kind = "report", p[i].report.id = p[j].report.id
               PROVE  p[i].report.eventSeq < p[j].report.eventSeq
    BY DEF RisingSent
  <2>1. i \in DOMAIN q /\ p[i] = q[i]
    BY <1>1
  <2>2. CASE j \in DOMAIN q
    BY <1>1, <1>3, <2>1, <2>2 DEF RisingSent
  <2>3. CASE j = k
    <3>1. q[i].report.eventSeq \in Sent(q, m.report.id)
      BY <1>1, <2>1, <2>3, SentAre
    <3> QED BY <1>1, <1>3, <2>1, <2>3, <3>1
  <2> QED BY <1>1, <2>2, <2>3
<1> QED BY <1>2, <1>3 DEF p

\* One message less.
LEMMA SentShrink ==
  ASSUME NEW q \in Seq(Message), q # << >>, RisingSent(q)
  PROVE  /\ \A id : Sent(q, id) =
                      IF q[1].kind = "report" THEN IF id = q[1].report.id THEN Sent(Tail(q), id) \cup {q[1].report.eventSeq}
                                                   ELSE Sent(Tail(q), id)
                      ELSE Sent(Tail(q), id)
         /\ q[1].kind = "report" => \A n \in Sent(Tail(q), q[1].report.id) : q[1].report.eventSeq < n
         /\ RisingSent(Tail(q))
<1> DEFINE p == Tail(q)
<1>1. /\ p \in Seq(Message) /\ 1 \in DOMAIN q
      /\ \A i \in DOMAIN p : i + 1 \in DOMAIN q /\ p[i] = q[i + 1] /\ i \in Nat /\ i >= 1
      /\ \A i \in DOMAIN q : i = 1 \/ (i - 1 \in DOMAIN p /\ i = (i - 1) + 1)
  OBVIOUS
<1> HIDE DEF p
<1>2. ASSUME NEW id
      PROVE  Sent(q, id) = IF q[1].kind = "report" THEN IF id = q[1].report.id THEN Sent(p, id) \cup {q[1].report.eventSeq}
                                                   ELSE Sent(p, id)
                           ELSE Sent(p, id)
  <2>1. ASSUME NEW n \in Sent(p, id) PROVE n \in Sent(q, id)
    <3>1. PICK i \in DOMAIN p : p[i].kind = "report" /\ p[i].report.id = id /\ p[i].report.eventSeq = n
      BY <1>1, SentAre
    <3> QED BY <1>1, <3>1, SentAre
  <2>2. ASSUME NEW n \in Sent(q, id)
        PROVE  \/ n \in Sent(p, id)
               \/ q[1].kind = "report" /\ id = q[1].report.id /\ n = q[1].report.eventSeq
    <3>1. PICK i \in DOMAIN q : q[i].kind = "report" /\ q[i].report.id = id /\ q[i].report.eventSeq = n
      BY <1>1, SentAre
    <3>2. CASE i # 1
      <4>1. i - 1 \in DOMAIN p /\ p[i - 1] = q[i]
        BY <1>1, <3>1, <3>2
      <4> QED BY <1>1, <3>1, <4>1, SentAre
    <3> QED BY <3>1, <3>2
  <2>3. q[1].kind = "report" /\ id = q[1].report.id => q[1].report.eventSeq \in Sent(q, id)
    BY <1>1, SentAre
  <2> QED BY <2>1, <2>2, <2>3
<1>3. ASSUME q[1].kind = "report", NEW n \in Sent(p, q[1].report.id) PROVE q[1].report.eventSeq < n
  <2>1. PICK i \in DOMAIN p :
          p[i].kind = "report" /\ p[i].report.id = q[1].report.id /\ p[i].report.eventSeq = n
    BY <1>1, SentAre
  <2>2. i + 1 \in DOMAIN q /\ 1 < i + 1 /\ q[i + 1] = p[i]
    BY <1>1
  <2> QED BY <1>1, <1>3, <2>1, <2>2 DEF RisingSent
<1>4. RisingSent(p)
  <2> SUFFICES ASSUME NEW i \in DOMAIN p, NEW j \in DOMAIN p, i < j,
                      p[i].kind = "report", p[j].kind = "report", p[i].report.id = p[j].report.id
               PROVE  p[i].report.eventSeq < p[j].report.eventSeq
    BY DEF RisingSent
  <2>1. /\ i + 1 \in DOMAIN q /\ q[i + 1] = p[i]
        /\ j + 1 \in DOMAIN q /\ q[j + 1] = p[j] /\ i + 1 < j + 1
    BY <1>1
  <2> QED BY <2>1 DEF RisingSent
<1> QED BY <1>2, <1>3, <1>4 DEF p

LEMMA NothingSent ==
  /\ \A id : Numbers(<< >>, id) = {} /\ Sent(<< >>, id) = {}
  /\ Rising(<< >>) /\ RisingSent(<< >>)
  BY DEF Numbers, Sent, Rising, RisingSent

-----------------------------------------------------------------------------
(* The flow of an order's numbers from the server to the page *)

\* P waits at the page, S is on the wire, B in the server's queue; len events the
\* order has had.  What is on its way ascends without a gap behind what waits,
\* and while the page is subscribed it ends at the order's last event.
OneFlow(P, S, B, len, known, listening) ==
  /\ Above(P, S) /\ Above(P, B) /\ Above(S, B)
  /\ NoGap(S \cup B)
  /\ known => /\ \A n \in P \cup S \cup B : n <= len
              /\ listening => S \cup B = {} \/ len \in S \cup B

LEMMA FlowGrows ==
  ASSUME NEW P \in SUBSET Nat, NEW S \in SUBSET Nat, NEW B \in SUBSET Nat, NEW len \in Nat,
         OneFlow(P, S, B, len, TRUE, TRUE)
  PROVE  OneFlow(P, S, B \cup {len + 1}, len + 1, TRUE, TRUE)
<1>1. NoGap(S \cup (B \cup {len + 1}))
  <2> SUFFICES ASSUME NEW m \in S \cup (B \cup {len + 1}), NEW n \in S \cup (B \cup {len + 1}), m < n
               PROVE  m + 1 \in S \cup (B \cup {len + 1})
    BY DEF NoGap
  <2>1. m \in S \cup B /\ m <= len
    BY DEF OneFlow
  <2>2. CASE m = len
    BY <2>2
  <2>3. CASE m # len
    BY <2>1, <2>3 DEF OneFlow, NoGap
  <2> QED BY <2>2, <2>3
<1>2. Above(P, B \cup {len + 1}) /\ Above(S, B \cup {len + 1})
  BY DEF OneFlow, Above
<1>3. \A n \in P \cup S \cup (B \cup {len + 1}) : n <= len + 1
  BY DEF OneFlow
<1> QED BY <1>1, <1>2, <1>3 DEF OneFlow

LEMMA FlowUnheard ==
  ASSUME NEW P \in SUBSET Nat, NEW S \in SUBSET Nat, NEW B \in SUBSET Nat, NEW len \in Nat,
         NEW later \in Nat, len <= later, NEW known,
         OneFlow(P, S, B, len, known, FALSE)
  PROVE  OneFlow(P, S, B, later, known, FALSE)
BY DEF OneFlow

\* The server's next report of the order goes onto the wire.
LEMMA FlowMoves ==
  ASSUME NEW P \in SUBSET Nat, NEW S \in SUBSET Nat, NEW B \in SUBSET Nat, NEW len,
         NEW known, NEW listening, NEW n \in Nat, \A m \in B : n < m,
         OneFlow(P, S, B \cup {n}, len, known, listening)
  PROVE  OneFlow(P, S \cup {n}, B, len, known, listening)
<1>1. (S \cup {n}) \cup B = S \cup (B \cup {n}) /\ P \cup (S \cup {n}) \cup B = P \cup S \cup (B \cup {n})
  OBVIOUS
<1>2. Above(P, S \cup {n}) /\ Above(P, B) /\ Above(S \cup {n}, B)
  BY DEF OneFlow, Above
<1> QED BY <1>1, <1>2 DEF OneFlow

\* Less of it waits.
LEMMA FlowForgets ==
  ASSUME NEW P, NEW S, NEW B, NEW len, NEW known, NEW listening, NEW R, R \subseteq P,
         OneFlow(P, S, B, len, known, listening)
  PROVE  OneFlow(R, S, B, len, known, listening)
BY DEF OneFlow, Above

\* The first on the wire reaches the page.
LEMMA FlowArrives ==
  ASSUME NEW P \in SUBSET Nat, NEW S \in SUBSET Nat, NEW B \in SUBSET Nat, NEW len \in Nat,
         NEW known, NEW listening, NEW n \in Nat, \A m \in S : n < m,
         OneFlow(P, S \cup {n}, B, len, known, listening)
  PROVE  OneFlow(P \cup {n}, S, B, len, known, listening)
<1>1. Above(P \cup {n}, S) /\ Above(P \cup {n}, B) /\ Above(S, B) /\ \A m \in S \cup B : n < m
  BY DEF OneFlow, Above
<1>2. NoGap(S \cup B)
  <2> SUFFICES ASSUME NEW i \in S \cup B, NEW j \in S \cup B, i < j
               PROVE  i + 1 \in S \cup B
    BY DEF NoGap
  <2>1. i + 1 \in (S \cup {n}) \cup B
    BY DEF OneFlow, NoGap
  <2>2. n < i
    BY <1>1
  <2> QED BY <2>1, <2>2
<1>3. ASSUME known
      PROVE  /\ \A m \in (P \cup {n}) \cup S \cup B : m <= len
             /\ listening => S \cup B = {} \/ len \in S \cup B
  BY <1>1, <1>3 DEF OneFlow
<1> QED BY <1>1, <1>2, <1>3 DEF OneFlow

\* The server's queue is dropped.
LEMMA FlowStops ==
  ASSUME NEW P \in SUBSET Nat, NEW S \in SUBSET Nat, NEW B \in SUBSET Nat, NEW len \in Nat,
         NEW known, NEW listening, OneFlow(P, S, B, len, known, listening)
  PROVE  OneFlow(P, S, {}, len, known, FALSE)
<1>1. NoGap(S \cup {})
  <2> SUFFICES ASSUME NEW i \in S, NEW j \in S, i < j
               PROVE  i + 1 \in S
    BY DEF NoGap
  <2>1. i + 1 \in S \cup B /\ \A m \in B : j < m
    BY DEF OneFlow, NoGap, Above
  <2> QED BY <2>1
<1> QED BY <1>1 DEF OneFlow, Above

FlowInv ==
  /\ Rising(store.pending) /\ RisingSent(downlink) /\ Rising(buffer)
  /\ \A id \in Ids : OneFlow(Numbers(store.pending, id), Sent(downlink, id), Numbers(buffer, id),
                             Len(days[Today][id]), meta[id] # 0, subscribed)

\* The desk after some of the reports of a step.
DeskFlow(desk) ==
  /\ desk \in DeskType
  /\ Rising(desk.buffer)
  /\ \A id \in Ids :
       /\ desk.states[id].eventSeq = Len(desk.day[id])
       /\ OneFlow(Numbers(store.pending, id), Sent(downlink, id), Numbers(desk.buffer, id),
                  Len(desk.day[id]), meta[id] # 0, subscribed)
       /\ Numbers(buffer, id) \subseteq Numbers(desk.buffer, id)
       /\ meta[id] = 0 \/ ~subscribed => Numbers(desk.buffer, id) = Numbers(buffer, id)

LEMMA PublishFlows ==
  ASSUME Inv, NEW desk, DeskFlow(desk), NEW r \in WireReport
  PROVE  DeskFlow(Publish(desk, r))
<1> DEFINE next == ApplyReport(desk.states[r.id].progress, r, meta[r.id])
<1>0. desk \in DeskType
  BY DEF DeskFlow
<1>1. CASE meta[r.id] = 0 \/ desk.threw
  BY <1>1 DEF Publish
<1>2. CASE ~(meta[r.id] = 0 \/ desk.threw) /\ next = Refused
  <2>1. Publish(desk, r) = [desk EXCEPT !.threw = TRUE]
    BY <1>2 DEF Publish
  <2>2. /\ Publish(desk, r).buffer = desk.buffer /\ Publish(desk, r).states = desk.states
        /\ Publish(desk, r).day = desk.day /\ Publish(desk, r) \in DeskType
    BY <1>0, <2>1 DEF DeskType
  <2> QED BY <2>2 DEF DeskFlow
<1>3. CASE ~(meta[r.id] = 0 \/ desk.threw) /\ next # Refused
  <2>1. next \in Progress
    BY <1>3, FoldsToProgress
  <2> HIDE DEF next
  <2>2. PICK p \in Progress : p = ApplyReport(desk.states[r.id].progress, r, meta[r.id])
    BY <2>1 DEF next
  <2>3. PICK f : /\ f = Publish(desk, r) /\ f \in DeskType /\ IsPublished(desk, r, f, p)
    BY <1>0, <1>3, <2>2, PublishFields
  <2> DEFINE seq == desk.states[r.id].eventSeq + 1
             out == [r EXCEPT !.eventSeq = seq]
  <2>4. /\ r.id \in Ids /\ desk.states[r.id].eventSeq \in Nat
        /\ desk.states \in [Ids -> Row] /\ desk.day \in [Ids -> Seq(Progress)]
        /\ desk.buffer \in Seq(WireReport)
    BY <1>0 DEF DeskType, WireReport, Row
  <2>5. out \in WireReport /\ out.id = r.id /\ out.eventSeq = seq
    <3>1. Stamped(out, r, seq) /\ seq \in Nat
      BY <2>4 DEF Stamped
    <3>2. out.id = r.id /\ out.eventSeq = seq
      BY DEF WireReport
    <3> HIDE DEF seq, out
    <3> QED BY <3>1, <3>2, StampsDoNotCount
  <2>6. /\ f.states = [desk.states EXCEPT ![r.id] = [progress |-> p, eventSeq |-> seq]]
        /\ f.day = [desk.day EXCEPT ![r.id] = Append(desk.day[r.id], p)]
        /\ f.buffer = IF subscribed THEN Append(desk.buffer, out) ELSE desk.buffer
    BY <2>3 DEF IsPublished
  <2> HIDE DEF out
  <2>7. PICK len \in Nat : len = Len(desk.day[r.id]) /\ len = desk.states[r.id].eventSeq /\ seq = len + 1
    BY <2>4 DEF DeskFlow
  <2>8. Len(f.day[r.id]) = len + 1 /\ f.states[r.id].eventSeq = len + 1
    <3>1. f.states[r.id] = [progress |-> p, eventSeq |-> seq] /\ f.day[r.id] = Append(desk.day[r.id], p)
      BY <2>4, <2>6
    <3>2. desk.day[r.id] \in Seq(Progress)
      BY <2>4
    <3>3. Len(Append(desk.day[r.id], p)) = Len(desk.day[r.id]) + 1
      BY <3>2
    <3> QED BY <2>7, <3>1, <3>3
  <2>9. \A id \in Ids : id # r.id => f.day[id] = desk.day[id] /\ f.states[id] = desk.states[id]
    BY <2>4, <2>6
  <2>10. store.pending \in Seq(WireReport) /\ downlink \in Seq(Message) /\ subscribed \in BOOLEAN
    BY DEF Inv, PageInv, WireInv, Store
  <2>11. /\ Numbers(store.pending, r.id) \in SUBSET Nat /\ Sent(downlink, r.id) \in SUBSET Nat
         /\ Numbers(desk.buffer, r.id) \in SUBSET Nat
    BY <2>4, <2>10, NumbersAre, SentAre
  <2>12. OneFlow(Numbers(store.pending, r.id), Sent(downlink, r.id), Numbers(desk.buffer, r.id),
                 len, TRUE, subscribed)
    <3>1. (meta[r.id] # 0) = TRUE
      BY <1>3
    <3>2. OneFlow(Numbers(store.pending, r.id), Sent(downlink, r.id), Numbers(desk.buffer, r.id),
                  Len(desk.day[r.id]), meta[r.id] # 0, subscribed)
      BY <2>4 DEF DeskFlow
    <3> QED BY <2>7, <3>1, <3>2
  <2>13. CASE subscribed
    <3>1. f.buffer = Append(desk.buffer, out)
      BY <2>6, <2>13
    <3>2. /\ Numbers(f.buffer, r.id) = Numbers(desk.buffer, r.id) \cup {len + 1}
          /\ \A id : id # r.id => Numbers(f.buffer, id) = Numbers(desk.buffer, id)
          /\ Rising(desk.buffer) /\ (\A n \in Numbers(desk.buffer, r.id) : n < len + 1) => Rising(f.buffer)
      <4>1. PICK q \in Seq(WireReport), o \in WireReport :
              q = desk.buffer /\ o = out /\ o.id = r.id /\ o.eventSeq = len + 1
        BY <2>4, <2>5, <2>7
      <4>2. /\ Numbers(Append(q, o), o.id) = Numbers(q, o.id) \cup {o.eventSeq}
            /\ \A id : id # o.id => Numbers(Append(q, o), id) = Numbers(q, id)
            /\ Rising(q) /\ (\A n \in Numbers(q, o.id) : n < o.eventSeq) => Rising(Append(q, o))
        BY <4>1, NumbersGrow
      <4> QED BY <3>1, <4>1, <4>2
    <3>3. \A n \in Numbers(desk.buffer, r.id) : n < len + 1
      BY <2>11, <2>12 DEF OneFlow
    <3>4. OneFlow(Numbers(store.pending, r.id), Sent(downlink, r.id), Numbers(f.buffer, r.id),
                  len + 1, TRUE, TRUE)
      <4>1. subscribed = TRUE
        BY <2>10, <2>13
      <4>2. PICK P, S, B : /\ P = Numbers(store.pending, r.id) /\ S = Sent(downlink, r.id)
                           /\ B = Numbers(desk.buffer, r.id)
        OBVIOUS
      <4>3. /\ P \in SUBSET Nat /\ S \in SUBSET Nat /\ B \in SUBSET Nat
            /\ OneFlow(P, S, B, len, TRUE, TRUE)
        BY <2>11, <2>12, <4>1, <4>2
      <4>4. OneFlow(P, S, B \cup {len + 1}, len + 1, TRUE, TRUE)
        BY <4>3, FlowGrows
      <4> QED BY <3>2, <4>2, <4>4
    <3>5. ASSUME NEW id \in Ids
          PROVE  /\ f.states[id].eventSeq = Len(f.day[id])
                 /\ OneFlow(Numbers(store.pending, id), Sent(downlink, id), Numbers(f.buffer, id),
                            Len(f.day[id]), meta[id] # 0, subscribed)
                 /\ Numbers(buffer, id) \subseteq Numbers(f.buffer, id)
                 /\ meta[id] = 0 \/ ~subscribed => Numbers(f.buffer, id) = Numbers(buffer, id)
      <4>1. CASE id = r.id
        BY <1>3, <2>8, <2>13, <3>2, <3>4, <4>1 DEF DeskFlow
      <4>2. CASE id # r.id
        BY <2>9, <3>2, <4>2 DEF DeskFlow
      <4> QED BY <4>1, <4>2
    <3> QED BY <2>3, <3>2, <3>3, <3>5 DEF DeskFlow
  <2>14. CASE ~subscribed
    <3>1. f.buffer = desk.buffer
      BY <2>6, <2>14
    <3>2. OneFlow(Numbers(store.pending, r.id), Sent(downlink, r.id), Numbers(desk.buffer, r.id),
                  len + 1, TRUE, FALSE)
      <4>1. subscribed = FALSE /\ len + 1 \in Nat /\ len <= len + 1
        BY <2>10, <2>14
      <4>2. PICK P, S, B : /\ P = Numbers(store.pending, r.id) /\ S = Sent(downlink, r.id)
                           /\ B = Numbers(desk.buffer, r.id)
        OBVIOUS
      <4>3. /\ P \in SUBSET Nat /\ S \in SUBSET Nat /\ B \in SUBSET Nat
            /\ OneFlow(P, S, B, len, TRUE, FALSE)
        BY <2>11, <2>12, <4>1, <4>2
      <4>4. OneFlow(P, S, B, len + 1, TRUE, FALSE)
        BY <4>1, <4>3, FlowUnheard
      <4> QED BY <4>2, <4>4
    <3>3. ASSUME NEW id \in Ids
          PROVE  /\ f.states[id].eventSeq = Len(f.day[id])
                 /\ OneFlow(Numbers(store.pending, id), Sent(downlink, id), Numbers(f.buffer, id),
                            Len(f.day[id]), meta[id] # 0, subscribed)
      <4>1. CASE id = r.id
        <5>1. meta[id] # 0 /\ subscribed = FALSE
          BY <1>3, <2>10, <2>14, <4>1
        <5> QED BY <2>8, <3>1, <3>2, <4>1, <5>1
      <4>2. CASE id # r.id
        BY <2>9, <3>1, <4>2 DEF DeskFlow
      <4> QED BY <4>1, <4>2
    <3> QED BY <2>3, <3>1, <3>3 DEF DeskFlow
  <2> QED BY <2>13, <2>14
<1> QED BY <1>1, <1>2, <1>3

LEMMA PublishAllFlows ==
  ASSUME Inv, FlowInv, NEW reports \in Seq(WireReport), PublishAll(reports)
  PROVE  \E desk : /\ DeskFlow(desk)
                   /\ buffer' = desk.buffer
                   /\ days' = [days EXCEPT ![Today] = desk.day]
<1>1. Desk \in DeskType /\ ServerInv
  BY DeskFollows DEF Inv
<1>2. PICK f : /\ Publishes(f, reports)
               /\ buffer' = f[Len(reports)].buffer
               /\ days' = [days EXCEPT ![Today] = f[Len(reports)].day]
  BY <1>1, PublishRuns
<1>3. DeskFlow(Desk)
  <2>1. Desk.buffer = buffer /\ Desk.day = days[Today] /\ Desk.states = states
    BY DEF Desk
  <2>2. \A id \in Ids : states[id].eventSeq = Len(days[Today][id])
    BY <1>1 DEF ServerInv, StateAfter, NoRow
  <2> QED BY <1>1, <2>1, <2>2 DEF DeskFlow, FlowInv
<1>4. Len(reports) \in Nat /\ \A i \in 1..Len(reports) : reports[i] \in WireReport /\ i - 1 \in 0..Len(reports)
  OBVIOUS
<1>5. f[0] = Desk /\ \A i \in 1..Len(reports) : f[i] = Publish(f[i - 1], reports[i])
  BY <1>2 DEF Publishes
<1> DEFINE S == {i \in 0..Len(reports) : DeskFlow(f[i])}
<1>6. 0 \in S
  BY <1>3, <1>4, <1>5
<1>7. \A i \in 1..Len(reports) : i - 1 \in S => i \in S
  <2> SUFFICES ASSUME NEW i \in 1..Len(reports), DeskFlow(f[i - 1])
               PROVE  DeskFlow(f[i])
    OBVIOUS
  <2> QED BY <1>4, <1>5, PublishFlows
<1>8. Len(reports) \in S
  <2> HIDE DEF S
  <2>1. \A i \in 0..Len(reports) : i \in S
    BY <1>4, <1>6, <1>7, StepByStep
  <2> QED BY <1>4, <2>1
<1> QED BY <1>2, <1>8

-----------------------------------------------------------------------------
(* What the page has been told, and what it asks *)

\* No more of an order has reached the page than it had events on one day.
SeenInv ==
  /\ seen \in [Ids -> Nat]
  /\ \A id \in Ids : \E d \in Days : seen[id] <= Len(days[d][id])

IsQuery(i) == uplink[i] = "query"
IsAnswer(j) == downlink[j].kind = "orders"
IsReportOf(i, id) == downlink[i].kind = "report" /\ downlink[i].report.id = id

\* One query is on its way or one answer, and only while the page resyncs; a
\* subscription that has not been served is the first thing on a new socket.
AskInv ==
  /\ ~greeted => store.rows = NoRows /\ ~store.syncing /\ store.pending = << >>
  /\ asking >= 1 => store.syncing
  /\ uplink \in Seq({"subscribe", "query"})
  /\ \A i, j \in DOMAIN uplink : IsQuery(i) /\ IsQuery(j) => i = j
  /\ \A i, j \in DOMAIN downlink : IsAnswer(i) /\ IsAnswer(j) => i = j
  /\ \A i \in DOMAIN uplink, j \in DOMAIN downlink : ~(IsQuery(i) /\ IsAnswer(j))
  /\ asking = 0 => /\ \A i \in DOMAIN uplink : ~IsQuery(i)
                   /\ \A j \in DOMAIN downlink : ~IsAnswer(j)
  /\ \A i \in DOMAIN uplink : ~IsQuery(i) =>
       /\ i = 1 /\ downlink = << >> /\ buffer = << >> /\ ~subscribed
       /\ store.syncing \/ store.rows = NoRows

\* The page has no more of the order than told, and the first j - 1 messages bring
\* no more.
Tell(told, id, j) ==
  /\ seen[id] <= told
  /\ store.rows[id].eventSeq <= told
  /\ \A n \in Numbers(store.pending, id) : n <= told
  /\ \A i \in 1..(j - 1) : IsReportOf(i, id) => downlink[i].report.eventSeq <= told

Tells ==
  \A j \in DOMAIN downlink : IsAnswer(j) =>
    \A id \in Ids : meta[id] # 0 \/ downlink[j].rows[id] # NoRow =>
      Tell(downlink[j].rows[id].eventSeq, id, j)

\* Of an order that an answer does not have, either all the page has or will have
\* comes after the answer, or nothing does.
Split ==
  \A j \in DOMAIN downlink : IsAnswer(j) =>
    \A id \in Ids : downlink[j].rows[id] = NoRow =>
      \/ /\ Numbers(store.pending, id) = {}
         /\ \A i \in 1..(j - 1) : ~IsReportOf(i, id)
      \/ \A i \in DOMAIN downlink : i > j => ~IsReportOf(i, id)

\* What is still to come of an order.
Coming(id) ==
  IF meta[id] = 0 THEN Sent(downlink, id)
  ELSE Sent(downlink, id) \cup Numbers(buffer, id)

\* A row that is behind what was seen is brought on without a hole, or never.
LevelOf(id) ==
  link = "open" /\ store.rows[id] # NoRow /\ seen[id] > store.rows[id].eventSeq =>
    \/ \E n \in Coming(id) : n <= store.rows[id].eventSeq + 1
    \/ Coming(id) = {} /\ (meta[id] = 0 \/ ~subscribed)

Level == ~store.syncing => \A id \in Ids : LevelOf(id)

\* The first report that waits is of an old order and no answer continues it.
Blocked ==
  /\ store.pending # << >>
  /\ meta[store.pending[1].id] = 0
  /\ store.pending[1].eventSeq >= 2
  /\ \A j \in DOMAIN downlink : IsAnswer(j) => downlink[j].rows[store.pending[1].id] = NoRow

\* Between what waits of an old order and what of it was seen nothing is missing.
NoLoss(P, S, top) == \A m \in P, n \in P \cup S : m + 1 < n /\ n <= top + 1 => m + 1 \in P \cup S
Whole ==
  Blocked \/ \A id \in Ids : meta[id] = 0 =>
    NoLoss(Numbers(store.pending, id), Sent(downlink, id), seen[id])

LossInv ==
  /\ ~falseHole /\ FlowInv /\ SeenInv /\ AskInv /\ Tells /\ Split /\ Level /\ Whole

-----------------------------------------------------------------------------
(* What everybody may rely on *)

LEMMA Shapes ==
  ASSUME Inv
  PROVE  /\ ServerInv /\ WireInv /\ PageInv /\ Behind /\ DaysType
         /\ store \in Store /\ store.rows \in [Ids -> Row] /\ store.pending \in Seq(WireReport)
         /\ store.syncing \in BOOLEAN /\ asking \in Nat /\ subscribed \in BOOLEAN
         /\ downlink \in Seq(Message) /\ buffer \in Seq(WireReport)
         /\ meta \in [Ids -> Nat] /\ Today \in Days
         /\ \A id \in Ids : store.rows[id].eventSeq \in Nat
         /\ \A d \in Days, id \in Ids : Len(days[d][id]) \in Nat
BY DayTypes DEF Inv, ServerInv, WireInv, PageInv, Store, Row

LEMMA Sets ==
  ASSUME Inv, NEW id
  PROVE  /\ Numbers(store.pending, id) \in SUBSET Nat
         /\ Sent(downlink, id) \in SUBSET Nat
         /\ Numbers(buffer, id) \in SUBSET Nat
BY Shapes, NumbersAre, SentAre

\* A message of the wire.
LEMMA Messages ==
  ASSUME Inv, NEW i \in DOMAIN downlink
  PROVE  /\ downlink[i] \in Message
         /\ downlink[i].kind = "report" =>
              /\ downlink[i].report \in WireReport /\ downlink[i].report.id \in Ids
              /\ downlink[i].report.eventSeq \in Nat /\ downlink[i].report.eventSeq >= 1
              /\ downlink[i].report.eventSeq \in Sent(downlink, downlink[i].report.id)
              /\ TrueReport(downlink[i].report)
         /\ IsAnswer(i) =>
              /\ downlink[i].rows \in [Ids -> Row]
              /\ \A id \in Ids : downlink[i].rows[id].eventSeq \in Nat /\ TrueRow(downlink[i].rows[id], id)
<1>1. downlink \in Seq(Message) /\ WireInv /\ DaysType
  BY Shapes
<1>2. downlink[i] \in Message
  BY <1>1
<1>3. ASSUME downlink[i].kind = "report"
      PROVE  /\ downlink[i].report \in WireReport /\ downlink[i].report.id \in Ids
             /\ downlink[i].report.eventSeq \in Nat /\ downlink[i].report.eventSeq >= 1
             /\ downlink[i].report.eventSeq \in Sent(downlink, downlink[i].report.id)
             /\ TrueReport(downlink[i].report)
  <2>1. downlink[i].report \in WireReport
    BY <1>2, <1>3 DEF Message
  <2>2. TrueReport(downlink[i].report)
    BY <1>1, <1>3 DEF WireInv
  <2>3. PICK d \in Days : ReportAt(downlink[i].report, downlink[i].report.orderQty, days[d][downlink[i].report.id])
    BY <2>2 DEF TrueReport
  <2>4. downlink[i].report.id \in Ids /\ downlink[i].report.eventSeq \in Nat
    BY <2>1 DEF WireReport
  <2>5. downlink[i].report.eventSeq >= 1
    BY <2>3, <2>4 DEF ReportAt
  <2>6. downlink[i].report.eventSeq \in Sent(downlink, downlink[i].report.id)
    BY <1>3 DEF Sent
  <2> QED BY <2>1, <2>2, <2>4, <2>5, <2>6
<1>4. ASSUME IsAnswer(i)
      PROVE  /\ downlink[i].rows \in [Ids -> Row]
             /\ \A id \in Ids : downlink[i].rows[id].eventSeq \in Nat /\ TrueRow(downlink[i].rows[id], id)
  <2>1. downlink[i].rows \in [Ids -> Row]
    BY <1>2, <1>4 DEF Message, IsAnswer
  <2>2. \A id \in Ids : TrueRow(downlink[i].rows[id], id)
    BY <1>1, <1>4 DEF WireInv, IsAnswer
  <2> QED BY <2>1, <2>2 DEF Row
<1> QED BY <1>2, <1>3, <1>4

\* Nobody has anything of an order that is gone.
LEMMA Unheard ==
  ASSUME Inv, NEW id \in Ids, Gone(id)
  PROVE  /\ Numbers(store.pending, id) = {} /\ Sent(downlink, id) = {} /\ Numbers(buffer, id) = {}
         /\ store.rows[id] = NoRow
         /\ \A i \in DOMAIN store.pending : store.pending[i].id # id
         /\ \A i \in DOMAIN downlink : ~IsReportOf(i, id)
         /\ \A j \in DOMAIN downlink : IsAnswer(j) => downlink[j].rows[id] = NoRow
BY DEF Gone, Numbers, Sent, IsReportOf, IsAnswer

\* Nothing goes beyond the day's events of an order of today.
LEMMA NothingBeyondToday ==
  ASSUME Inv, SeenInv, NEW id \in Ids, meta[id] # 0
  PROVE  /\ seen[id] <= Len(days[Today][id])
         /\ states[id].eventSeq = Len(days[Today][id])
<1>1. PICK d \in Days : seen[id] <= Len(days[d][id])
  BY DEF SeenInv
<1>2. /\ days[d][id] # << >> => d = Today
      /\ days[d][id] = << >> => Len(days[d][id]) = 0
  BY Shapes DEF ServerInv
<1>3. Len(days[Today][id]) \in Nat
  BY Shapes
<1>4. states[id].eventSeq = Len(days[Today][id])
  BY Shapes, DayTypes DEF ServerInv, StateAfter, NoRow
<1> QED BY <1>1, <1>2, <1>3, <1>4 DEF SeenInv

-----------------------------------------------------------------------------
(* What a reconcile drains, and the hole it stops at *)

\* The k-th report of q is a hole over these rows, the ones before it are not.
HoleAt(rows, q, k) ==
  /\ q[k].eventSeq > rows[q[k].id].eventSeq + 1
  /\ \A j \in 1..(k - 1) : q[j].eventSeq <= rows[q[j].id].eventSeq

\* The snapshot does not even lead to the first report.
HeadHole(q, snapshot) == q # << >> /\ q[1].eventSeq > snapshot[q[1].id].eventSeq + 1

\* A row is the snapshot's, or has a report that waited.
Brought(rows, q, snapshot) ==
  \A id \in Ids : /\ rows[id].eventSeq >= snapshot[id].eventSeq
                  /\ rows[id] = snapshot[id] \/ rows[id].eventSeq \in Numbers(q, id)

\* A store on the way through a reconcile, i reports on, again.
Drained(x, i, q, snapshot, holes) ==
  /\ Brought(x.rows, q, snapshot)
  /\ i = 0 => x.rows = snapshot /\ ~x.syncing
  /\ ~x.syncing => /\ x.holes = holes /\ x.pending = << >>
                   /\ \A j \in 1..i : q[j].eventSeq <= x.rows[q[j].id].eventSeq
  /\ x.syncing => /\ x.holes > holes
                  /\ \E k \in 1..i : Waiting(x.pending, q, k, i) /\ HoleAt(x.rows, q, k)
  /\ HeadHole(q, snapshot) /\ i >= 1 =>
       x.syncing /\ x.rows = snapshot /\ Waiting(x.pending, q, 1, i)

LEMMA WaitsOn ==
  ASSUME NEW q \in Seq(WireReport), NEW p \in Seq(WireReport), NEW i \in 1..Len(q),
         NEW k \in 1..(i - 1), Waiting(p, q, k, i - 1)
  PROVE  k \in 1..i /\ Waiting(Append(p, q[i]), q, k, i)
<1>1. i \in Nat /\ k \in Nat /\ k >= 1 /\ k <= i - 1 /\ q[i] \in WireReport
  OBVIOUS
<1>2. Len(p) = i - k /\ \A j \in 1..(i - k) : p[j] = q[k + j - 1]
  <2>1. (i - 1) - k + 1 = i - k
    BY <1>1
  <2> QED BY <2>1 DEF Waiting
<1>3. /\ Len(Append(p, q[i])) = i - k + 1
      /\ Append(p, q[i])[i - k + 1] = q[i]
      /\ \A j \in 1..(i - k) : Append(p, q[i])[j] = p[j]
  BY <1>1, <1>2
<1>4. \A j \in 1..(i - k + 1) : Append(p, q[i])[j] = q[k + j - 1]
  <2> TAKE j \in 1..(i - k + 1)
  <2>1. CASE j \in 1..(i - k)
    BY <1>2, <1>3, <2>1
  <2>2. CASE j = i - k + 1
    <3>1. k + j - 1 = i
      BY <1>1, <2>2
    <3>2. Append(p, q[i])[j] = q[i]
      BY <1>3, <2>2
    <3>3. q[k + j - 1] = q[i]
      BY <3>1
    <3> QED BY <3>2, <3>3
  <2>3. j \in 1..(i - k) \/ j = i - k + 1
    BY <1>1
  <2> QED BY <2>1, <2>2, <2>3
<1> QED BY <1>1, <1>3, <1>4 DEF Waiting

LEMMA WaitStarts ==
  ASSUME NEW q \in Seq(WireReport), NEW i \in 1..Len(q)
  PROVE  Waiting(Append(<< >>, q[i]), q, i, i)
<1>1. /\ i \in Nat /\ i - i + 1 = 1 /\ i + 1 - 1 = i
      /\ Len(Append(<< >>, q[i])) = 1 /\ Append(<< >>, q[i])[1] = q[i]
  OBVIOUS
<1>2. \A j \in 1..1 : Append(<< >>, q[i])[j] = q[i + j - 1]
  BY <1>1
<1> QED BY <1>1, <1>2 DEF Waiting

LEMMA DrainTells ==
  ASSUME DaysType, OneDayEach, NEW s \in Store, NEW snapshot \in [Ids -> Row],
         \A i \in DOMAIN s.pending : TrueReport(s.pending[i]),
         NEW i \in 1..Len(s.pending), NEW x \in Store, Draining(x, i - 1, s, snapshot),
         Drained(x, i - 1, s.pending, snapshot, s.holes)
  PROVE  Drained(Ingest(x, s.pending[i]), i, s.pending, snapshot, s.holes)
<1> DEFINE q == s.pending
           r == q[i]
           known == x.rows[r.id].eventSeq
           f == Ingest(x, r)
<1>1. /\ q \in Seq(WireReport) /\ Len(q) \in Nat /\ DOMAIN q = 1..Len(q)
      /\ i \in 1..Len(q) /\ i \in Nat /\ i - 1 \in Nat
      /\ r \in WireReport /\ r.id \in Ids /\ r.eventSeq \in Nat
      /\ \A j \in 1..Len(q) : q[j].id \in Ids /\ q[j].eventSeq \in Nat
      /\ r.eventSeq \in Numbers(q, r.id)
  <2>1. q \in Seq(WireReport)
    BY DEF Store
  <2>2. \A j \in 1..Len(q) : q[j] \in WireReport
    BY <2>1
  <2>3. \A j \in 1..Len(q) : q[j].id \in Ids /\ q[j].eventSeq \in Nat
    BY <2>2 DEF WireReport
  <2>4. r.eventSeq \in Numbers(q, r.id)
    BY <2>1, <2>2 DEF Numbers
  <2> QED BY <2>1, <2>2, <2>3, <2>4
<1>2. /\ x.rows \in [Ids -> Row] /\ known \in Nat /\ x.pending \in Seq(WireReport)
      /\ x.holes \in Nat /\ s.holes \in Nat /\ x.syncing \in BOOLEAN
      /\ \A id \in Ids : x.rows[id].eventSeq \in Nat /\ snapshot[id].eventSeq \in Nat
  BY <1>1 DEF Store, Row
<1>3. /\ f \in Store /\ ~f.threw
      /\ x.syncing => IsQueued(x, r, f) /\ f.holes = x.holes
      /\ ~x.syncing /\ r.eventSeq <= known => f = x
      /\ ~x.syncing /\ r.eventSeq = known + 1 =>
           \E next \in Progress :
             /\ IsFolded(x, r, f, next)
             /\ TrueRow([progress |-> next, eventSeq |-> r.eventSeq], r.id)
      /\ ~x.syncing /\ r.eventSeq > known + 1 =>
           IsQueued(x, r, f) /\ f.holes = x.holes + 1 /\ r.eventSeq >= 2
  <2>1. TrueReport(r) /\ TrueRow(x.rows[r.id], r.id) /\ ~x.threw
    BY <1>1 DEF Draining
  <2> HIDE DEF r
  <2> QED BY <1>1, <2>1, Ingested
<1>4. /\ Brought(x.rows, q, snapshot)
      /\ i - 1 = 0 => x.rows = snapshot /\ ~x.syncing
      /\ ~x.syncing => /\ x.holes = s.holes /\ x.pending = << >>
                       /\ \A j \in 1..(i - 1) : q[j].eventSeq <= x.rows[q[j].id].eventSeq
      /\ x.syncing => /\ x.holes > s.holes
                      /\ \E k \in 1..(i - 1) : Waiting(x.pending, q, k, i - 1) /\ HoleAt(x.rows, q, k)
      /\ HeadHole(q, snapshot) /\ i - 1 >= 1 =>
           x.syncing /\ x.rows = snapshot /\ Waiting(x.pending, q, 1, i - 1)
  BY DEF Drained
<1>5. HeadHole(q, snapshot) /\ ~x.syncing => i = 1 /\ x.rows = snapshot /\ r.eventSeq > known + 1
  <2> SUFFICES ASSUME HeadHole(q, snapshot), ~x.syncing
               PROVE  i = 1 /\ x.rows = snapshot /\ r.eventSeq > known + 1
    OBVIOUS
  <2>1. i = 1
    BY <1>1, <1>4
  <2>2. x.rows = snapshot
    BY <1>4, <2>1
  <2> QED BY <2>1, <2>2 DEF HeadHole
<1> SUFFICES Drained(f, i, q, snapshot, s.holes)
  OBVIOUS
<1>6. q[i] = r
  OBVIOUS
<1> HIDE DEF r, q, f
<1>7. CASE x.syncing
  <2>1. f.rows = x.rows /\ f.syncing /\ f.pending = Append(x.pending, q[i]) /\ f.holes = x.holes
    BY <1>3, <1>6, <1>7 DEF IsQueued
  <2>2. PICK k \in 1..(i - 1) : Waiting(x.pending, q, k, i - 1) /\ HoleAt(x.rows, q, k)
    BY <1>4, <1>7
  <2>3. k \in 1..i /\ Waiting(f.pending, q, k, i) /\ HoleAt(f.rows, q, k)
    BY <1>1, <1>2, <2>1, <2>2, WaitsOn
  <2>4. HeadHole(q, snapshot) => f.rows = snapshot /\ Waiting(f.pending, q, 1, i)
    <3> SUFFICES ASSUME HeadHole(q, snapshot)
                 PROVE  f.rows = snapshot /\ Waiting(f.pending, q, 1, i)
      OBVIOUS
    <3>1. 1 \in 1..(i - 1)
      BY <1>1, <1>4, <1>7
    <3>2. x.rows = snapshot /\ Waiting(x.pending, q, 1, i - 1)
      BY <1>4, <3>1
    <3> QED BY <1>1, <1>2, <2>1, <3>1, <3>2, WaitsOn
  <2>5. i # 0 /\ f.holes > s.holes
    BY <1>1, <1>4, <1>7, <2>1
  <2> QED BY <1>4, <2>1, <2>3, <2>4, <2>5 DEF Drained
<1>8. CASE ~x.syncing /\ r.eventSeq <= known
  <2>1. f = x
    BY <1>3, <1>8
  <2>2. ~HeadHole(q, snapshot)
    BY <1>1, <1>2, <1>5, <1>8
  <2>3. \A j \in 1..i : q[j].eventSeq <= x.rows[q[j].id].eventSeq
    <3> TAKE j \in 1..i
    <3>1. CASE j = i
      BY <1>6, <1>8, <3>1
    <3>2. CASE j # i
      <4>1. j \in 1..(i - 1)
        BY <1>1, <3>2
      <4> QED BY <1>4, <1>8, <4>1
    <3> QED BY <3>1, <3>2
  <2>4. i # 0
    BY <1>1
  <2> QED BY <1>4, <1>8, <2>1, <2>2, <2>3, <2>4 DEF Drained
<1>9. CASE ~x.syncing /\ r.eventSeq = known + 1
  <2>1. PICK next \in Progress : IsFolded(x, r, f, next)
    BY <1>3, <1>9
  <2>2. /\ f.rows = [x.rows EXCEPT ![r.id] = [progress |-> next, eventSeq |-> r.eventSeq]]
        /\ ~f.syncing /\ f.holes = x.holes /\ f.pending = x.pending
    BY <1>9, <2>1 DEF IsFolded
  <2>3. f.rows[r.id].eventSeq = r.eventSeq /\ \A id \in Ids : id # r.id => f.rows[id] = x.rows[id]
    BY <1>1, <1>2, <2>2
  <2>4. ~HeadHole(q, snapshot)
    BY <1>1, <1>2, <1>5, <1>9
  <2>5. \A id \in Ids : f.rows[id].eventSeq >= x.rows[id].eventSeq /\ f.rows[id].eventSeq \in Nat
    BY <1>1, <1>2, <1>9, <2>3
  <2>6. Brought(f.rows, q, snapshot)
    <3> SUFFICES ASSUME NEW id \in Ids
                 PROVE  /\ f.rows[id].eventSeq >= snapshot[id].eventSeq
                        /\ f.rows[id] = snapshot[id] \/ f.rows[id].eventSeq \in Numbers(q, id)
      BY DEF Brought
    <3>1. f.rows[id].eventSeq >= snapshot[id].eventSeq
      BY <1>2, <1>4, <2>5 DEF Brought
    <3>2. f.rows[id] = snapshot[id] \/ f.rows[id].eventSeq \in Numbers(q, id)
      BY <1>1, <1>4, <2>3 DEF Brought
    <3> QED BY <3>1, <3>2
  <2>7. \A j \in 1..i : q[j].eventSeq <= f.rows[q[j].id].eventSeq
    <3> TAKE j \in 1..i
    <3>1. CASE j = i
      BY <1>1, <1>6, <2>3, <3>1
    <3>2. CASE j # i
      <4>1. j \in 1..(i - 1) /\ j \in 1..Len(q)
        BY <1>1, <3>2
      <4>2. q[j].eventSeq <= x.rows[q[j].id].eventSeq
        BY <1>4, <1>9, <4>1
      <4>3. q[j].id \in Ids /\ q[j].eventSeq \in Nat
        BY <1>1, <4>1
      <4> QED BY <1>2, <2>5, <4>2, <4>3
    <3> QED BY <3>1, <3>2
  <2>8. i # 0
    BY <1>1
  <2> QED BY <1>4, <1>9, <2>2, <2>4, <2>6, <2>7, <2>8 DEF Drained
<1>10. CASE ~x.syncing /\ r.eventSeq > known + 1
  <2>1. /\ f.rows = x.rows /\ f.syncing /\ f.holes = x.holes + 1
        /\ f.pending = Append(<< >>, q[i])
    BY <1>3, <1>4, <1>6, <1>10 DEF IsQueued
  <2>2. Waiting(f.pending, q, i, i) /\ i \in 1..i /\ i # 0
    BY <1>1, <2>1, WaitStarts
  <2>3. HoleAt(f.rows, q, i)
    BY <1>4, <1>6, <1>10, <2>1 DEF HoleAt, known
  <2>4. HeadHole(q, snapshot) => f.rows = snapshot /\ Waiting(f.pending, q, 1, i)
    BY <1>5, <1>10, <2>1, <2>2
  <2>5. f.holes > s.holes
    BY <1>2, <1>4, <1>10, <2>1
  <2> QED BY <1>4, <2>1, <2>2, <2>3, <2>4, <2>5 DEF Drained
<1> QED BY <1>1, <1>2, <1>7, <1>8, <1>9, <1>10

-----------------------------------------------------------------------------
(* One reconcile after the other *)

\* What the n-th reconcile of the same snapshot leaves, when q waited at first.
Answered(t, n, q, snapshot) ==
  /\ Brought(t.rows, q, snapshot)
  /\ n >= 2 => t.rows = snapshot
  /\ ~t.syncing => t.holes = 0 /\ t.pending = << >>
  /\ t.syncing => /\ t.holes >= 1
                  /\ \E k \in 1..Len(q) :
                       /\ Waiting(t.pending, q, k, Len(q))
                       /\ q[k].eventSeq > t.rows[q[k].id].eventSeq + 1
                       /\ t.rows = snapshot \/ HoleAt(t.rows, q, k)
  /\ HeadHole(q, snapshot) => t.syncing /\ t.rows = snapshot /\ Waiting(t.pending, q, 1, Len(q))

LEMMA OneRoundTells ==
  ASSUME DaysType, OneDayEach, NEW s \in Store, NEW snapshot \in [Ids -> Row],
         \A i \in DOMAIN s.pending : TrueReport(s.pending[i]),
         \A id \in Ids : TrueRow(snapshot[id], id),
         Told(s.pending, snapshot)
  PROVE  /\ Drained(Reconcile(s, snapshot), Len(s.pending), s.pending, snapshot, s.holes)
         /\ Reconcile(s, snapshot) \in Store
<1>1. PICK f : /\ Drains(f, s, snapshot)
               /\ LET end == f[Len(s.pending)]
                  IN Reconcile(s, snapshot) = IF end.threw THEN end
                                              ELSE [end EXCEPT !.notify = TRUE]
  BY ReconcileDrains
<1> DEFINE n == Len(s.pending)
           end == f[n]
           t == Reconcile(s, snapshot)
           S == {i \in 0..n : /\ Draining(f[i], i, s, snapshot)
                              /\ Drained(f[i], i, s.pending, snapshot, s.holes)}
<1>2. n \in Nat /\ DOMAIN s.pending = 1..n /\ s.pending \in Seq(WireReport)
  BY DEF Store
<1>3. 0 \in S
  <2>1. f[0] \in Store /\ IsReplaced(s, snapshot, f[0])
    BY <1>1, ReplacedFields DEF Drains
  <2>2. Draining(f[0], 0, s, snapshot)
    BY <2>1, DrainStarts
  <2>3. Brought(snapshot, s.pending, snapshot)
    BY DEF Brought, Row
  <2>4. Drained(f[0], 0, s.pending, snapshot, s.holes)
    BY <2>1, <2>3 DEF Drained, IsReplaced
  <2> QED BY <1>2, <2>2, <2>4
<1>4. ASSUME NEW i \in 1..n, i - 1 \in S
      PROVE  i \in S
  <2>1. Draining(f[i - 1], i - 1, s, snapshot) /\ Drained(f[i - 1], i - 1, s.pending, snapshot, s.holes)
    BY <1>4
  <2>2. f[i - 1] \in Store
    BY <1>1, <1>2 DEF Drains
  <2>3. f[i] = Ingest(f[i - 1], s.pending[i])
    BY <1>1, <2>1 DEF Drains, Draining
  <2>4. Draining(f[i], i, s, snapshot)
    BY <2>1, <2>2, <2>3, DrainGoesOn
  <2>5. Drained(f[i], i, s.pending, snapshot, s.holes)
    BY <2>1, <2>2, <2>3, DrainTells
  <2> QED BY <1>2, <2>4, <2>5
<1>5. Draining(end, n, s, snapshot) /\ Drained(end, n, s.pending, snapshot, s.holes)
  <2>1. \A i \in 0..n : i \in S
    <3> HIDE DEF S, n
    <3> QED BY <1>2, <1>3, <1>4, StepByStep
  <2>2. n \in 0..n
    BY <1>2
  <2> QED BY <2>1, <2>2
<1>6. end \in Store
  BY <1>1, <1>2 DEF Drains
<1>7. ~end.threw
  BY <1>5 DEF Draining
<1>8. t = [end EXCEPT !.notify = TRUE]
  BY <1>1, <1>7
<1> SUFFICES Drained(t, n, s.pending, snapshot, s.holes) /\ t \in Store
  OBVIOUS
<1> HIDE DEF t, end, n
<1>9. /\ t \in Store
      /\ t.rows = end.rows /\ t.pending = end.pending /\ t.syncing = end.syncing
      /\ t.holes = end.holes
  BY <1>6, <1>8 DEF Store
<1> QED BY <1>5, <1>9 DEF Drained

\* The first answer.
LEMMA FirstAnswer ==
  ASSUME NEW s \in Store, NEW snapshot \in [Ids -> Row], NEW t, s.holes = 0, t \in Store,
         Drained(t, Len(s.pending), s.pending, snapshot, s.holes)
  PROVE  Answered(t, 1, s.pending, snapshot)
<1> DEFINE q == s.pending
<1>1. q \in Seq(WireReport) /\ Len(q) \in Nat /\ (q # << >> => Len(q) >= 1)
  BY DEF Store
<1>2. HeadHole(q, snapshot) => Len(q) >= 1
  BY <1>1 DEF HeadHole
<1>3. t.syncing => /\ t.holes >= 1
                   /\ \E k \in 1..Len(q) : /\ Waiting(t.pending, q, k, Len(q)) /\ HoleAt(t.rows, q, k)
  <2>1. t.holes \in Nat
    BY DEF Store
  <2> QED BY <2>1 DEF Drained
<1> QED BY <1>2, <1>3 DEF Drained, Answered, HoleAt

\* And every further one of the same snapshot.
LEMMA NextAnswer ==
  ASSUME NEW q \in Seq(WireReport), NEW snapshot \in [Ids -> Row], NEW x \in Store, NEW n \in Nat \ {0},
         Answered(x, n, q, snapshot), NEW t \in Store,
         Drained(t, Len(x.pending), x.pending, snapshot, x.holes)
  PROVE  Answered(t, n + 1, q, snapshot)
<1> DEFINE p == x.pending
<1>1. /\ p \in Seq(WireReport) /\ Len(p) \in Nat /\ Len(q) \in Nat /\ x.syncing \in BOOLEAN
      /\ x.rows \in [Ids -> Row] /\ x.holes \in Nat /\ t.holes \in Nat
  BY DEF Store
<1>2. Brought(snapshot, q, snapshot)
  BY DEF Brought, Row
<1>3. CASE ~x.syncing
  <2>1. Len(p) = 0 /\ x.holes = 0 /\ ~HeadHole(q, snapshot)
    BY <1>3 DEF Answered
  <2>2. t.rows = snapshot /\ ~t.syncing /\ t.holes = 0 /\ t.pending = << >>
    BY <2>1 DEF Drained
  <2> QED BY <1>2, <2>1, <2>2 DEF Answered
<1>4. CASE x.syncing
  <2>1. PICK k \in 1..Len(q) :
          /\ Waiting(p, q, k, Len(q))
          /\ q[k].eventSeq > x.rows[q[k].id].eventSeq + 1
    BY <1>4 DEF Answered
  <2>2. k \in Nat /\ k >= 1 /\ k <= Len(q) /\ q[k] \in WireReport /\ 1 \in 1..(Len(q) - k + 1)
    BY <1>1, <2>1
  <2>3. Len(p) = Len(q) - k + 1 /\ Len(p) >= 1 /\ p # << >> /\ p[1] = q[k]
    <3>1. k + 1 - 1 = k
      BY <2>2
    <3>2. p[1] = q[k + 1 - 1]
      BY <2>1, <2>2 DEF Waiting
    <3> QED BY <1>1, <2>1, <2>2, <3>1, <3>2 DEF Waiting
  <2>4. HeadHole(p, snapshot)
    <3>1. q[k].id \in Ids /\ q[k].eventSeq \in Nat
      BY <2>2 DEF WireReport
    <3>2. x.rows[q[k].id].eventSeq >= snapshot[q[k].id].eventSeq
      BY <3>1 DEF Answered, Brought
    <3>3. x.rows[q[k].id].eventSeq \in Nat /\ snapshot[q[k].id].eventSeq \in Nat
      BY <1>1, <3>1 DEF Row
    <3>4. q[k].eventSeq > snapshot[q[k].id].eventSeq + 1
      BY <2>1, <3>1, <3>2, <3>3
    <3> QED BY <2>3, <3>4 DEF HeadHole
  <2>5. t.syncing /\ t.rows = snapshot /\ Waiting(t.pending, p, 1, Len(p)) /\ t.holes > x.holes
    BY <2>3, <2>4 DEF Drained
  <2>6. Len(t.pending) = Len(p) /\ \A j \in 1..Len(p) : t.pending[j] = p[j]
    <3>1. Len(p) - 1 + 1 = Len(p)
      BY <1>1
    <3>2. Len(t.pending) = Len(p) /\ \A j \in 1..Len(p) : t.pending[j] = p[1 + j - 1]
      BY <2>5, <3>1 DEF Waiting
    <3>3. \A j \in 1..Len(p) : 1 + j - 1 = j
      BY <1>1
    <3> QED BY <3>2, <3>3
  <2>7. \A i \in Nat : Waiting(p, q, i, Len(q)) => Waiting(t.pending, q, i, Len(q))
    BY <2>6 DEF Waiting
  <2>8. t.holes >= 1
    BY <1>1, <2>5
  <2>9. q[k].eventSeq > t.rows[q[k].id].eventSeq + 1
    BY <2>3, <2>4, <2>5 DEF HeadHole
  <2>10. HeadHole(q, snapshot) => Waiting(t.pending, q, 1, Len(q))
    BY <2>7 DEF Answered
  <2> QED BY <1>2, <2>1, <2>2, <2>5, <2>7, <2>8, <2>9, <2>10 DEF Answered
<1> QED BY <1>1, <1>3, <1>4

\* Every callback that waited for the answer, in turn.
LEMMA AnswersInTurn ==
  ASSUME DaysType, OneDayEach, NEW s \in Store, NEW snapshot \in [Ids -> Row],
         ~s.threw, s.holes = 0, \A id \in Ids : TrueRow(s.rows[id], id),
         \A i \in DOMAIN s.pending : TrueReport(s.pending[i]),
         \A id \in Ids : TrueRow(snapshot[id], id),
         Told(s.pending, snapshot), NEW m \in Nat \ {0},
         NEW after, after = CHOOSE f : f = [n \in 0..m |->
            IF n = 0 THEN s ELSE Reconcile(f[n - 1], snapshot)]
  PROVE  Answered(after[m], m, s.pending, snapshot)
<1> DEFINE step == [x \in Store |-> [n \in 1..m |-> Reconcile(x, snapshot)]]
<1>1. step \in Steps(m, Store)
  BY ReconcileType DEF Steps
<1>2. PICK f : IsRunOf(f, m, Store, s, step)
  <2> HIDE DEF step
  <2> QED BY <1>1, RecursionExists
<1>3. f = [n \in 0..m |-> IF n = 0 THEN s ELSE Reconcile(f[n - 1], snapshot)]
  <2>1. \A n \in 0..m : n # 0 => n \in 1..m /\ n - 1 \in 0..m
    OBVIOUS
  <2>2. f \in [0..m -> Store] /\ f[0] = s /\ \A n \in 1..m : f[n] = step[f[n - 1]][n]
    BY <1>2 DEF IsRunOf
  <2>3. \A n \in 0..m : f[n] = IF n = 0 THEN s ELSE Reconcile(f[n - 1], snapshot)
    BY <2>1, <2>2
  <2> HIDE DEF step
  <2> QED BY <2>2, <2>3
<1>4. after = [n \in 0..m |-> IF n = 0 THEN s ELSE Reconcile(after[n - 1], snapshot)]
  BY <1>3
<1> HIDE DEF step
<1>5. after[0] = s /\ \A n \in 1..m : after[n] = Reconcile(after[n - 1], snapshot)
  <2>1. 0 \in 0..m /\ \A n \in 1..m : n \in 0..m /\ n # 0
    OBVIOUS
  <2>2. \A n \in 0..m : after[n] = IF n = 0 THEN s ELSE Reconcile(after[n - 1], snapshot)
    BY <1>4
  <2> QED BY <2>1, <2>2
<1>6. \A n \in 0..m : Rounded(after[n], n, s, snapshot)
  BY AnswerIsTaken
<1>7. ASSUME NEW n \in 1..m
      PROVE  LET x == after[n - 1]
                 t == after[n]
             IN /\ x \in Store /\ t \in Store
                /\ Drained(t, Len(x.pending), x.pending, snapshot, x.holes)
  <2> DEFINE x == after[n - 1]
             t == after[n]
  <2>1. n - 1 \in 0..m
    OBVIOUS
  <2>2. Rounded(x, n - 1, s, snapshot)
    BY <1>6, <2>1
  <2>3. t = Reconcile(x, snapshot)
    BY <1>5
  <2> HIDE DEF x, t
  <2>4. /\ x \in Store
        /\ \A i \in DOMAIN x.pending : \E j \in DOMAIN s.pending : x.pending[i] = s.pending[j]
    BY <2>2 DEF Rounded
  <2>5. (\A i \in DOMAIN x.pending : TrueReport(x.pending[i])) /\ Told(x.pending, snapshot)
    BY <2>4 DEF Told
  <2>6. t \in Store /\ Drained(t, Len(x.pending), x.pending, snapshot, x.holes)
    BY <2>3, <2>4, <2>5, OneRoundTells
  <2> QED BY <2>4, <2>6 DEF x, t
<1> DEFINE S == {n \in 0..m : n >= 1 => Answered(after[n], n, s.pending, snapshot)}
<1>8. 0 \in S
  OBVIOUS
<1>9. ASSUME NEW n \in 1..m, n - 1 \in S
      PROVE  n \in S
  <2>1. /\ after[n - 1] \in Store /\ after[n] \in Store
        /\ Drained(after[n], Len(after[n - 1].pending), after[n - 1].pending, snapshot, after[n - 1].holes)
    BY <1>7
  <2>2. CASE n = 1
    <3>1. after[n - 1] = s /\ 1 - 1 = 0
      BY <1>5, <2>2
    <3>2. Answered(after[n], 1, s.pending, snapshot)
      BY <2>1, <3>1, FirstAnswer
    <3> QED BY <2>2, <3>2
  <2>3. CASE n # 1
    <3>1. n - 1 \in Nat \ {0} /\ n - 1 >= 1 /\ n = (n - 1) + 1
      BY <2>3
    <3>2. Answered(after[n - 1], n - 1, s.pending, snapshot)
      BY <1>9, <3>1
    <3>3. PICK k \in Nat \ {0} : k = n - 1
      BY <3>1
    <3>4. s.pending \in Seq(WireReport)
      BY DEF Store
    <3>5. Answered(after[n], k + 1, s.pending, snapshot)
      BY <2>1, <3>2, <3>3, <3>4, NextAnswer
    <3> QED BY <3>1, <3>3, <3>5
  <2> QED BY <2>2, <2>3
<1>10. \A n \in 0..m : n \in S
  <2> HIDE DEF S
  <2> QED BY <1>8, <1>9, StepByStep
<1>11. m \in 0..m /\ m >= 1
  OBVIOUS
<1> QED BY <1>10, <1>11

\* The answer of the orders query: what the page then has.
LEMMA AnswerTells ==
  ASSUME Inv, AskInv, ReceiveOrders
  PROVE  LET snapshot == Head(downlink).rows
         IN /\ downlink # << >> /\ downlink' = Tail(downlink) /\ 1 \in DOMAIN downlink
            /\ IsAnswer(1) /\ snapshot = downlink[1].rows /\ snapshot \in [Ids -> Row]
            /\ asking >= 1 /\ link = "open"
            /\ seen' = SeenRows(snapshot)
            /\ UNCHANGED <<link, greeted, subscribed, buffer, meta, days>>
            /\ \E x \in Store :
                 /\ Answered(x, asking, store.pending, snapshot)
                 /\ store' = Settled(x) /\ asking' = x.holes
                 /\ uplink' = IF x.holes > 0 THEN Append(uplink, "query") ELSE uplink
                 /\ falseHole' = (falseHole \/ FalseAlarm(x, SeenRows(snapshot)))
<1> DEFINE snapshot == Head(downlink).rows
<1>1. /\ snapshot \in [Ids -> Row] /\ snapshot = downlink[1].rows
      /\ downlink[1].kind = "orders" /\ 1 \in DOMAIN downlink
      /\ \A id \in Ids : TrueRow(snapshot[id], id)
  BY AnswerReconciles
<1>2. /\ ServerInv /\ WireInv /\ PageInv /\ Behind /\ DaysType /\ OneDayEach
      /\ store \in Store /\ ~store.threw /\ store.holes = 0 /\ asking \in Nat
      /\ \A id \in Ids : TrueRow(store.rows[id], id)
      /\ \A i \in DOMAIN store.pending : TrueReport(store.pending[i])
  BY DEF Inv, ServerInv, PageInv
<1>3. asking >= 1 /\ link = "open" /\ downlink # << >>
  <2>1. asking # 0
    BY <1>1 DEF AskInv, IsAnswer
  <2>2. downlink # << >>
    BY DEF ReceiveOrders
  <2>3. link = "open"
    BY <1>2, <2>2 DEF WireInv
  <2> QED BY <1>2, <2>1, <2>2, <2>3
<1>4. Told(store.pending, snapshot)
  <2> SUFFICES ASSUME NEW i \in DOMAIN store.pending, ~Old(store.pending[i])
               PROVE  store.pending[i].eventSeq <= snapshot[store.pending[i].id].eventSeq
    BY DEF Told
  <2>1. store.pending[i] \in WireReport
    BY <1>2 DEF Store
  <2>2. store.pending[i].id \in Ids /\ meta[store.pending[i].id] # 0
    BY <2>1 DEF WireReport, Old
  <2>3. Covers(snapshot[store.pending[i].id].eventSeq, store.pending[i].id, 1)
    BY <1>1, <1>2, <2>2 DEF Behind
  <2> QED BY <2>3 DEF Covers
<1> HIDE DEF snapshot
<1>5. PICK after :
        /\ after = CHOOSE f : f = [n \in 0..asking |->
             IF n = 0 THEN store ELSE Reconcile(f[n - 1], snapshot)]
        /\ store' = Settled(after[asking])
        /\ asking' = 0 + after[asking].holes
        /\ uplink' = IF 0 = 0 /\ after[asking].holes > 0 /\ link = "open" THEN Append(uplink, "query") ELSE uplink
        /\ seen' = SeenRows(snapshot)
        /\ falseHole' = (falseHole \/ FalseAlarm(after[asking], SeenRows(snapshot)))
  BY DEF ReceiveOrders, Ask, snapshot
<1>6. asking \in Nat \ {0} /\ asking \in 0..asking
  BY <1>2, <1>3
<1>7. Answered(after[asking], asking, store.pending, snapshot)
  BY <1>1, <1>2, <1>4, <1>5, <1>6, AnswersInTurn
<1>8. after[asking] \in Store
  <2>1. Rounded(after[asking], asking, store, snapshot)
    BY <1>1, <1>2, <1>4, <1>5, <1>6, AnswerIsTaken
  <2> QED BY <2>1 DEF Rounded
<1>9. 0 + after[asking].holes = after[asking].holes
  BY <1>8 DEF Store
<1>10. /\ downlink' = Tail(downlink)
       /\ UNCHANGED <<link, greeted, subscribed, buffer, meta, days>>
  BY DEF ReceiveOrders, serverVars
<1>11. IsAnswer(1)
  BY <1>1 DEF IsAnswer
<1> QED BY <1>1, <1>3, <1>5, <1>7, <1>8, <1>9, <1>10, <1>11 DEF snapshot

-----------------------------------------------------------------------------
(* Within a day *)

LEMMA DayStepKeepsAsking ==
  ASSUME AskInv, UNCHANGED <<greeted, uplink, subscribed, downlink, store, asking>>,
         ~subscribed => buffer' = buffer
  PROVE  AskInv'
BY DEF AskInv, IsQuery, IsAnswer

LEMMA DaysGrowSeen ==
  ASSUME Inv, Inv', SeenInv, Grown, seen' = seen
  PROVE  SeenInv'
<1>1. DaysType /\ DaysType'
  BY Shapes DEF Inv, ServerInv
<1>2. Days \subseteq Days'
  BY <1>1, TruthStays
<1>3. ASSUME NEW d \in Days, NEW id \in Ids
      PROVE  Len(days[d][id]) <= Len(days'[d][id])
  BY DEF Grown, Extends
<1>4. \A d \in Days, id \in Ids : Len(days[d][id]) \in Nat
  BY <1>1, DayTypes
<1>5. \A d \in Days', id \in Ids : Len(days'[d][id]) \in Nat
  <2>1. days' \in Seq([Ids -> Seq(Progress)])
    BY <1>1 DEF DaysType
  <2> QED BY <2>1 DEF Days, Today
<1>6. ASSUME NEW id \in Ids
      PROVE  \E d \in Days' : seen[id] <= Len(days'[d][id])
  <2>1. PICK d \in Days : seen[id] <= Len(days[d][id])
    BY DEF SeenInv
  <2>2. seen[id] \in Nat /\ d \in Days'
    BY <1>2 DEF SeenInv
  <2> QED BY <1>3, <1>4, <1>5, <2>1, <2>2
<1> QED BY <1>6 DEF SeenInv

\* A step of the server within its day: what is on its way to the page and on it
\* stays, and new reports queue behind the others.
LEMMA DayStepKeeps ==
  ASSUME Inv, Inv', LossInv, SeenInv', FlowInv',
         UNCHANGED <<link, greeted, uplink, subscribed, downlink, store, asking, falseHole>>,
         \A id \in Ids : /\ meta[id] # 0 => meta'[id] # 0
                         /\ IF meta[id] = 0 /\ meta'[id] # 0 THEN Gone(id) /\ seen'[id] = 0
                            ELSE seen'[id] = seen[id]
                         /\ Numbers(buffer, id) \subseteq Numbers(buffer', id),
         ~subscribed => buffer' = buffer
  PROVE  LossInv'
<1>1. /\ link' = link /\ greeted' = greeted /\ uplink' = uplink /\ subscribed' = subscribed
      /\ downlink' = downlink /\ store' = store /\ asking' = asking
      /\ falseHole' = falseHole
  OBVIOUS
<1>2. /\ ~falseHole /\ FlowInv /\ SeenInv /\ AskInv /\ Tells /\ Split /\ Level /\ Whole
  BY DEF LossInv
<1>3. AskInv'
  BY <1>1, <1>2, DayStepKeepsAsking
<1>5. ASSUME NEW id \in Ids, meta[id] = 0, meta'[id] # 0
      PROVE  /\ Numbers(store.pending, id) = {} /\ Sent(downlink, id) = {}
             /\ store.rows[id] = NoRow /\ seen'[id] = 0
             /\ \A i \in DOMAIN store.pending : store.pending[i].id # id
             /\ \A i \in DOMAIN downlink : ~IsReportOf(i, id)
             /\ \A j \in DOMAIN downlink : IsAnswer(j) => downlink[j].rows[id] = NoRow
  BY <1>5, Unheard
<1>6. Tells'
  <2> SUFFICES ASSUME NEW j \in DOMAIN downlink, IsAnswer(j), NEW id \in Ids,
                      meta'[id] # 0 \/ downlink[j].rows[id] # NoRow
               PROVE  Tell(downlink[j].rows[id].eventSeq, id, j)'
    BY <1>1 DEF Tells, IsAnswer
  <2>1. CASE meta[id] # 0 \/ downlink[j].rows[id] # NoRow
    <3>1. seen'[id] = seen[id]
      BY <1>5, <2>1
    <3>2. Tell(downlink[j].rows[id].eventSeq, id, j)
      BY <1>2, <2>1 DEF Tells
    <3> QED BY <1>1, <3>1, <3>2 DEF Tell, IsReportOf
  <2>2. CASE meta[id] = 0 /\ meta'[id] # 0
    <3>1. downlink[j].rows[id].eventSeq \in Nat
      BY Messages
    <3>2. store.rows[id].eventSeq = 0
      BY <1>5, <2>2 DEF NoRow
    <3>3. 1..(j - 1) \subseteq DOMAIN downlink
      BY Shapes
    <3> QED BY <1>1, <1>5, <2>2, <3>1, <3>2, <3>3 DEF Tell, IsReportOf
  <2> QED BY <2>1, <2>2
<1>7. Split'
  BY <1>1, <1>2 DEF Split, IsAnswer, IsReportOf
<1>8. Level'
  <2> SUFFICES ASSUME ~store.syncing, NEW id \in Ids, link = "open", store.rows[id] # NoRow,
                      seen'[id] > store.rows[id].eventSeq
               PROVE  LevelOf(id)'
    BY <1>1 DEF Level, LevelOf
  <2>1. LevelOf(id)
    BY <1>2 DEF Level
  <2>2. (meta'[id] = 0 <=> meta[id] = 0) /\ seen'[id] = seen[id]
    BY <1>5
  <2>3. Coming(id) \subseteq Coming(id)'
    BY <1>1, <2>2 DEF Coming
  <2>4. meta[id] = 0 \/ ~subscribed => Coming(id)' = Coming(id)
    BY <1>1, <2>2 DEF Coming
  <2> QED BY <1>1, <2>1, <2>2, <2>3, <2>4 DEF LevelOf
<1>9. Whole'
  <2>1. CASE Blocked
    <3>1. /\ store.pending # << >> /\ meta[store.pending[1].id] = 0
          /\ 1 \in DOMAIN store.pending /\ store.pending[1].id \in Ids
      <4>1. store.pending # << >> /\ meta[store.pending[1].id] = 0 /\ store.pending \in Seq(WireReport)
        BY <2>1, Shapes DEF Blocked
      <4>2. 1 \in DOMAIN store.pending /\ store.pending[1] \in WireReport
        BY <4>1
      <4> QED BY <4>1, <4>2 DEF WireReport
    <3>2. meta'[store.pending[1].id] = 0
      BY <1>5, <3>1
    <3> QED BY <1>1, <2>1, <3>2 DEF Whole, Blocked, IsAnswer
  <2>2. CASE ~Blocked
    <3>1. \A id \in Ids : meta[id] = 0 =>
            NoLoss(Numbers(store.pending, id), Sent(downlink, id), seen[id])
      BY <1>2, <2>2 DEF Whole
    <3>2. \A id \in Ids : meta'[id] = 0 => meta[id] = 0 /\ seen'[id] = seen[id]
      OBVIOUS
    <3> QED BY <1>1, <3>1, <3>2 DEF Whole
  <2> QED BY <2>1, <2>2
<1> QED BY <1>1, <1>2, <1>3, <1>6, <1>7, <1>8, <1>9 DEF LossInv

LEMMA SubmitKeepsLoss ==
  ASSUME Inv, Inv', LossInv, NEW id \in Ids, NEW qty \in OrderQtys, Submit(id, qty), Gone(id)
  PROVE  LossInv'
<1>1. /\ UNCHANGED <<link, greeted, uplink, subscribed, downlink, store, asking, falseHole>>
      /\ buffer' = buffer /\ meta' = [meta EXCEPT ![id] = qty] /\ meta[id] = 0
      /\ seen' = [seen EXCEPT ![id] = 0]
  BY DEF Submit, Reuse, wireVars, pageVars, boundVars
<1>2. Cleared(id)
  BY SubmitOK DEF Inv
<1>3. /\ \A i \in Ids : i # id => meta'[i] = meta[i] /\ seen'[i] = seen[i]
      /\ qty # 0 /\ meta'[id] = qty /\ seen'[id] = 0 /\ seen' \in [Ids -> Nat]
  BY <1>1, Shapes, WarmAssumption DEF LossInv, SeenInv
<1>4. Days' = Days /\ Today' = Today /\ Today \in Days
  BY <1>2, Shapes DEF Cleared, Days, Today
<1>5. FlowInv'
  <2>1. FlowInv
    BY DEF LossInv
  <2>2. Numbers(store.pending, id) = {} /\ Sent(downlink, id) = {} /\ Numbers(buffer, id) = {}
    BY Unheard
  <2>3. /\ store' = store /\ downlink' = downlink /\ subscribed' = subscribed
    BY <1>1
  <2>4. ASSUME NEW i \in Ids
        PROVE  OneFlow(Numbers(store.pending, i), Sent(downlink, i), Numbers(buffer, i),
                       Len(days'[Today][i]), meta'[i] # 0, subscribed)
    <3>1. CASE i = id
      BY <2>2, <3>1 DEF OneFlow, Above, NoGap
    <3>2. CASE i # id
      <4>1. days'[Today][i] = days[Today][i]
        BY <1>2, <1>4, <3>2 DEF Cleared
      <4> QED BY <1>3, <2>1, <3>2, <4>1 DEF FlowInv
    <3> QED BY <3>1, <3>2
  <2> QED BY <1>1, <1>4, <2>1, <2>3, <2>4 DEF FlowInv
<1>6. SeenInv'
  <2>1. ASSUME NEW i \in Ids
        PROVE  \E d \in Days : seen'[i] <= Len(days'[d][i])
    <3>1. CASE i = id
      <4>1. Len(days'[Today][id]) = 0
        BY <1>2, <1>4 DEF Cleared
      <4> QED BY <1>3, <1>4, <3>1, <4>1
    <3>2. CASE i # id
      <4>1. PICK d \in Days : seen[i] <= Len(days[d][i])
        BY DEF LossInv, SeenInv
      <4>2. days'[d][i] = days[d][i]
        BY <1>2, <3>2 DEF Cleared
      <4> QED BY <1>3, <3>2, <4>1, <4>2
    <3> QED BY <3>1, <3>2
  <2> QED BY <1>3, <1>4, <2>1 DEF SeenInv
<1>7. \A i \in Ids : /\ meta[i] # 0 => meta'[i] # 0
                     /\ IF meta[i] = 0 /\ meta'[i] # 0 THEN Gone(i) /\ seen'[i] = 0
                        ELSE seen'[i] = seen[i]
                     /\ Numbers(buffer, i) \subseteq Numbers(buffer', i)
  BY <1>1, <1>3
<1> QED BY <1>1, <1>5, <1>6, <1>7, DayStepKeeps

LEMMA PublishKeepsLoss ==
  ASSUME Inv, Inv', LossInv, NEW reports \in Seq(WireReport), PublishAll(reports), Grown,
         UNCHANGED <<link, greeted, uplink, subscribed, downlink, store, asking, seen, falseHole, meta>>,
         ~subscribed => buffer' = buffer
  PROVE  LossInv'
<1>1. PICK desk : /\ DeskFlow(desk)
                  /\ buffer' = desk.buffer
                  /\ days' = [days EXCEPT ![Today] = desk.day]
  BY PublishAllFlows DEF LossInv
<1>2. /\ store' = store /\ downlink' = downlink /\ subscribed' = subscribed /\ meta' = meta
  OBVIOUS
<1>3. Today' = Today /\ days'[Today] = desk.day
  <2>1. days \in Seq([Ids -> Seq(Progress)]) /\ Today \in 1..Len(days) /\ DOMAIN days = 1..Len(days)
    BY Shapes DEF DaysType, Days, Today
  <2>2. desk.day \in [Ids -> Seq(Progress)]
    BY <1>1 DEF DeskFlow, DeskType
  <2>3. days' \in Seq([Ids -> Seq(Progress)]) /\ Len(days') = Len(days)
    BY <1>1, <2>1, <2>2
  <2> QED BY <1>1, <2>1, <2>3 DEF Today
<1>4. FlowInv'
  <2>1. Rising(store.pending) /\ RisingSent(downlink)
    BY DEF LossInv, FlowInv
  <2>2. Rising(desk.buffer) /\ \A id \in Ids :
          OneFlow(Numbers(store.pending, id), Sent(downlink, id), Numbers(desk.buffer, id),
                  Len(desk.day[id]), meta[id] # 0, subscribed)
    BY <1>1 DEF DeskFlow
  <2> QED BY <1>1, <1>2, <1>3, <2>1, <2>2 DEF FlowInv
<1>5. \A i \in Ids : Numbers(buffer, i) \subseteq Numbers(buffer', i)
  BY <1>1 DEF DeskFlow
<1>6. SeenInv'
  BY DaysGrowSeen DEF LossInv
<1> QED BY <1>2, <1>4, <1>5, <1>6, DayStepKeeps

LEMMA PublishDeferredKeepsLoss ==
  ASSUME Inv, Inv', LossInv, PublishDeferred
  PROVE  LossInv'
<1>1. /\ UNCHANGED <<link, greeted, uplink, subscribed, downlink, store, asking, seen, falseHole, meta>>
      /\ PublishAll(<<Head(deferred)>>) /\ deferred # << >>
  BY DEF PublishDeferred, pageVars
<1>2. Grown /\ (~subscribed => buffer' = buffer)
  BY PublishDeferredOK DEF Inv
<1>3. <<Head(deferred)>> \in Seq(WireReport)
  <2>1. deferred \in Seq(WireReport)
    BY DEF Inv, ServerInv
  <2>2. Head(deferred) \in WireReport
    BY <1>1, <2>1
  <2> QED BY <2>2
<1> QED BY <1>1, <1>2, <1>3, PublishKeepsLoss

LEMMA TickKeepsLoss ==
  ASSUME Inv, Inv', LossInv, NEW batch \in DueReports, Tick(batch)
  PROVE  LossInv'
<1>1. /\ UNCHANGED <<link, greeted, uplink, subscribed, downlink, store, asking, seen, falseHole, meta>>
      /\ PublishAll(batch.reports)
  BY DEF Tick, pageVars
<1>2. Grown /\ (~subscribed => buffer' = buffer)
  BY TickOK DEF Inv
<1>3. batch.reports \in Seq(WireReport)
  BY DueIsOK DEF Inv, BatchOK, Batch
<1> QED BY <1>1, <1>2, <1>3, PublishKeepsLoss

-----------------------------------------------------------------------------
(* New days and lost sockets *)

\* On a new day nothing was seen.
LEMMA DawnSeen ==
  ASSUME Inv', seen' = [id \in Ids |-> 0]
  PROVE  SeenInv' /\ \A id \in Ids : seen'[id] = 0
<1>1. DaysType'
  BY DayTypes DEF Inv, ServerInv
<1>2. Today' \in Days' /\ \A id \in Ids : Len(days'[Today'][id]) \in Nat
  <2>1. days' \in Seq([Ids -> Seq(Progress)]) /\ days' # << >>
    BY <1>1 DEF DaysType
  <2>2. Len(days') \in 1..Len(days') /\ days'[Len(days')] \in [Ids -> Seq(Progress)]
    BY <2>1
  <2> QED BY <2>2 DEF Days, Today
<1> QED BY <1>2 DEF SeenInv

LEMMA NothingLostYet ==
  ASSUME NEW P \in SUBSET Nat, NEW S \in SUBSET Nat
  PROVE  NoLoss(P, S, 0)
BY DEF NoLoss

LEMMA ReseedKeepsLoss ==
  ASSUME Inv, Inv', LossInv, Reseed
  PROVE  LossInv'
<1>1. /\ link' = link /\ greeted' = greeted /\ uplink' = uplink /\ subscribed' = subscribed
      /\ downlink' = downlink /\ store' = store /\ asking' = asking /\ buffer' = buffer
      /\ falseHole' = falseHole /\ seen' = [id \in Ids |-> 0]
      /\ meta' = [id \in Ids |-> 0]
  BY DEF Reseed, wireVars, pageVars
<1>2. /\ ~falseHole /\ FlowInv /\ SeenInv /\ AskInv /\ Tells /\ Split /\ Level /\ Whole
  BY DEF LossInv
<1>3. SeenInv' /\ \A id \in Ids : seen'[id] = 0 /\ meta'[id] = 0
  BY <1>1, DawnSeen
<1>4. AskInv'
  BY <1>1, <1>2, DayStepKeepsAsking
<1>5. FlowInv'
  <2>1. ASSUME NEW id \in Ids, NEW len, NEW listening
        PROVE  OneFlow(Numbers(store.pending, id), Sent(downlink, id), Numbers(buffer, id),
                       len, FALSE, listening)
    BY <1>2 DEF FlowInv, OneFlow
  <2> QED BY <1>1, <1>2, <1>3, <2>1 DEF FlowInv
<1>6. Tells'
  <2> SUFFICES ASSUME NEW j \in DOMAIN downlink, IsAnswer(j), NEW id \in Ids,
                      downlink[j].rows[id] # NoRow
               PROVE  Tell(downlink[j].rows[id].eventSeq, id, j)'
    BY <1>1, <1>3 DEF Tells, IsAnswer
  <2>1. Tell(downlink[j].rows[id].eventSeq, id, j) /\ downlink[j].rows[id].eventSeq \in Nat
    BY <1>2, Messages DEF Tells
  <2> QED BY <1>1, <1>3, <2>1 DEF Tell, IsReportOf
<1>7. Split'
  BY <1>1, <1>2 DEF Split, IsAnswer, IsReportOf
<1>8. Level'
  <2>1. \A id \in Ids : store.rows[id].eventSeq \in Nat
    BY Shapes
  <2> QED BY <1>1, <1>3, <2>1 DEF Level, LevelOf
<1>9. Whole'
  <2>1. \A id \in Ids : NoLoss(Numbers(store.pending, id), Sent(downlink, id), 0)
    BY Sets, NothingLostYet
  <2> QED BY <1>1, <1>3, <2>1 DEF Whole
<1> QED BY <1>1, <1>2, <1>3, <1>4, <1>5, <1>6, <1>7, <1>8, <1>9 DEF LossInv

\* A socket that is gone leaves what the page has.
LEMMA GoneKeeps ==
  ASSUME Inv, Inv', LossInv, LinkGone, UNCHANGED <<store, asking, falseHole>>, SeenInv',
         meta' = [id \in Ids |-> 0] \/ (meta' = meta /\ days' = days),
         Whole'
  PROVE  LossInv'
<1>1. /\ link' = "down" /\ downlink' = << >> /\ buffer' = << >> /\ uplink' = << >>
      /\ subscribed' = FALSE /\ greeted' = greeted
      /\ store' = store /\ asking' = asking /\ falseHole' = falseHole
  BY DEF LinkGone
<1>2. /\ ~falseHole /\ FlowInv /\ AskInv
  BY DEF LossInv
<1>3. DOMAIN downlink' = {} /\ DOMAIN uplink' = {} /\ uplink' \in Seq({"subscribe", "query"})
  BY <1>1
<1>4. AskInv'
  BY <1>1, <1>2, <1>3 DEF AskInv
<1>5. Tells' /\ Split'
  BY <1>3 DEF Tells, Split
<1>6. Level'
  BY <1>1 DEF Level, LevelOf
<1>7. FlowInv'
  <2>1. ASSUME NEW id \in Ids
        PROVE  OneFlow(Numbers(store.pending, id), {}, {}, Len(days'[Today'][id]), meta'[id] # 0, FALSE)
    <3>1. OneFlow(Numbers(store.pending, id), Sent(downlink, id), Numbers(buffer, id),
                  Len(days[Today][id]), meta[id] # 0, subscribed)
      BY <1>2 DEF FlowInv
    <3>2. CASE meta'[id] = 0
      BY <3>2 DEF OneFlow, Above, NoGap
    <3>3. CASE meta' = meta /\ days' = days
      <4>1. Today' = Today
        BY <3>3 DEF Today
      <4> QED BY <3>1, <3>3, <4>1 DEF OneFlow, Above, NoGap
    <3> QED BY <3>2, <3>3
  <2> QED BY <1>1, <1>2, <2>1, NothingSent DEF FlowInv
<1> QED BY <1>1, <1>2, <1>4, <1>5, <1>6, <1>7 DEF LossInv

\* Nothing is missing between what waits when what follows it is lost.
LEMMA LossAtTheEnd ==
  ASSUME NEW P \in SUBSET Nat, NEW S \in SUBSET Nat, NEW top, Above(P, S), NoLoss(P, S, top)
  PROVE  NoLoss(P, {}, top)
<1> SUFFICES ASSUME NEW m \in P, NEW n \in P, m + 1 < n, n <= top + 1
             PROVE  m + 1 \in P
  BY DEF NoLoss
<1>1. m + 1 \in P \cup S
  BY DEF NoLoss
<1>2. m + 1 \notin S
  BY DEF Above
<1> QED BY <1>1, <1>2

LEMMA DropKeepsLoss ==
  ASSUME Inv, Inv', LossInv, Drop
  PROVE  LossInv'
<1>1. /\ LinkGone /\ store' = store /\ asking' = asking /\ falseHole' = falseHole
      /\ seen' = seen /\ days' = days /\ meta' = meta /\ downlink' = << >>
  BY DEF Drop, LinkGone, serverVars, pageVars, ghostVars
<1>2. FlowInv /\ SeenInv /\ Whole
  BY DEF LossInv
<1>3. SeenInv'
  BY <1>1, <1>2 DEF SeenInv, Days, Today
<1>4. Whole'
  <2>1. CASE Blocked
    <3>1. DOMAIN downlink' = {}
      BY <1>1
    <3> QED BY <1>1, <2>1, <3>1 DEF Whole, Blocked
  <2>2. CASE ~Blocked
    <3>1. ASSUME NEW id \in Ids, meta[id] = 0
          PROVE  NoLoss(Numbers(store.pending, id), {}, seen[id])
      <4>1. Above(Numbers(store.pending, id), Sent(downlink, id))
        BY <1>2 DEF FlowInv, OneFlow
      <4>2. NoLoss(Numbers(store.pending, id), Sent(downlink, id), seen[id])
        BY <1>2, <2>2, <3>1 DEF Whole
      <4>3. Numbers(store.pending, id) \in SUBSET Nat /\ Sent(downlink, id) \in SUBSET Nat
        BY Sets
      <4> QED BY <4>1, <4>2, <4>3, LossAtTheEnd
    <3> QED BY <1>1, <3>1, NothingSent DEF Whole
  <2> QED BY <2>1, <2>2
<1>5. meta' = meta /\ days' = days
  BY <1>1
<1>6. UNCHANGED <<store, asking, falseHole>>
  BY <1>1
<1>7. LinkGone
  BY <1>1
<1> QED BY <1>3, <1>4, <1>5, <1>6, <1>7, GoneKeeps

LEMMA RestartKeepsLoss ==
  ASSUME Inv, Inv', LossInv, Restart
  PROVE  LossInv'
<1>1. /\ LinkGone /\ store' = store /\ asking' = asking /\ falseHole' = falseHole
      /\ seen' = [id \in Ids |-> 0] /\ meta' = [id \in Ids |-> 0] /\ downlink' = << >>
  BY DEF Restart, LinkGone, pageVars
<1>2. SeenInv' /\ \A id \in Ids : seen'[id] = 0 /\ meta'[id] = 0
  BY <1>1, DawnSeen
<1>3. Whole'
  <2>1. \A id \in Ids : NoLoss(Numbers(store.pending, id), {}, 0)
    BY Sets, NothingLostYet
  <2> QED BY <1>1, <1>2, <2>1, NothingSent DEF Whole
<1> QED BY <1>1, <1>2, <1>3, GoneKeeps

-----------------------------------------------------------------------------
(* A socket that opens *)

LEMMA Alone ==
  ASSUME NEW D, NEW a \in D
  PROVE  <<a>> \in Seq(D) /\ Len(<<a>>) = 1 /\ <<a>>[1] = a
OBVIOUS

LEMMA ConnectKeepsLoss ==
  ASSUME Inv, Inv', LossInv, Connect
  PROVE  LossInv'
<1>1. /\ link = "down" /\ greeted' = TRUE /\ downlink' = downlink /\ subscribed' = subscribed
      /\ buffer' = buffer /\ meta' = meta /\ days' = days /\ seen' = seen /\ falseHole' = falseHole
      /\ asking' = asking + (IF greeted THEN 1 ELSE 0)
      /\ store' = IF greeted THEN BeginResync(store) ELSE store
  BY DEF Connect, Ask, serverVars, ghostVars
<1>2. /\ ~falseHole /\ FlowInv /\ SeenInv /\ AskInv /\ Whole
  BY DEF LossInv
<1>3. /\ downlink = << >> /\ DOMAIN downlink = {} /\ buffer = << >> /\ ~subscribed
      /\ asking \in Nat /\ store \in Store
  BY <1>1, Shapes DEF WireInv
<1>4. /\ store'.rows = store.rows /\ store'.pending = store.pending
      /\ greeted => store'.syncing
  BY <1>1, <1>3 DEF Store, BeginResync
<1>5. ~greeted => asking = 0 /\ asking' = 0 /\ store.rows = NoRows
  BY <1>1, <1>2, <1>3 DEF AskInv
<1>6. greeted => asking' >= 1
  BY <1>1, <1>3
<1> DEFINE sub == IF subAlive THEN <<"subscribe">> ELSE << >>
           again == IF asking > 0 THEN <<"query">> ELSE << >>
           up == sub \o again
<1>7. /\ up \in Seq({"subscribe", "query"})
      /\ \A i \in DOMAIN up : up[i] = "query" => i = Len(up) /\ asking > 0
      /\ \A i \in DOMAIN up : up[i] # "query" => i = 1
      /\ asking = 0 => Len(up) <= 1
  <2>1. CASE subAlive /\ asking > 0
    <3>1. sub = <<"subscribe">> /\ again = <<"query">>
      BY <2>1
    <3>2a. "subscribe" \in {"subscribe", "query"} /\ "query" \in {"subscribe", "query"}
      OBVIOUS
    <3>2b. PICK D : D = {"subscribe", "query"}
      OBVIOUS
    <3>2. /\ sub \in Seq(D) /\ Len(sub) = 1 /\ sub[1] = "subscribe"
          /\ again \in Seq(D) /\ Len(again) = 1 /\ again[1] = "query"
      BY <3>1, <3>2a, <3>2b, Alone
    <3> HIDE DEF sub, again
    <3>3. up \in Seq({"subscribe", "query"}) /\ Len(up) = 2 /\ up[1] = "subscribe" /\ up[2] = "query"
      <4>1. up \in Seq(D) /\ Len(up) = 1 + 1 /\ up[1] = sub[1] /\ up[1 + 1] = again[1]
        BY <3>2
      <4> HIDE DEF up
      <4> QED BY <3>2, <3>2b, <4>1
    <3> HIDE DEF up
    <3>4. DOMAIN up = 1..2
      BY <3>3
    <3> QED BY <2>1, <3>3, <3>4
  <2>2. CASE subAlive /\ ~(asking > 0)
    <3>1. up = <<"subscribe">>
      BY <2>2
    <3> QED BY <2>2, <3>1
  <2>3. CASE ~subAlive /\ asking > 0
    <3>1. up = <<"query">>
      BY <2>3
    <3> QED BY <2>3, <3>1
  <2>4. CASE ~subAlive /\ ~(asking > 0)
    <3>1. up = << >>
      BY <2>4
    <3> QED BY <2>4, <3>1
  <2> QED BY <2>1, <2>2, <2>3, <2>4
<1>8. uplink' = IF asking = 0 /\ greeted THEN Append(up, "query") ELSE up
  BY <1>3 DEF Connect, Ask
<1> HIDE DEF up
<1>9. /\ uplink' \in Seq({"subscribe", "query"})
      /\ \A i, j \in DOMAIN uplink' : IsQuery(i)' /\ IsQuery(j)' => i = j
      /\ \A i \in DOMAIN uplink' : IsQuery(i)' => greeted
      /\ \A i \in DOMAIN uplink' : ~IsQuery(i)' => i = 1
  <2>1. CASE asking = 0 /\ greeted
    <3>1. uplink' = Append(up, "query") /\ \A i \in DOMAIN up : up[i] # "query"
      BY <1>7, <1>8, <2>1
    <3>2. "query" \in {"subscribe", "query"}
      OBVIOUS
    <3>3. /\ uplink' \in Seq({"subscribe", "query"})
          /\ uplink'[Len(up) + 1] = "query"
          /\ \A i \in DOMAIN up : uplink'[i] = up[i]
          /\ \A i \in DOMAIN uplink' : i \in DOMAIN up \/ i = Len(up) + 1
      BY <1>7, <3>1, <3>2, LongerQueue
    <3> QED BY <1>7, <2>1, <3>1, <3>3 DEF IsQuery
  <2>2. CASE ~(asking = 0 /\ greeted)
    BY <1>3, <1>5, <1>7, <1>8, <2>2 DEF IsQuery
  <2> QED BY <2>1, <2>2
<1>10. AskInv'
  <2>1. asking' >= 1 => store'.syncing
    BY <1>4, <1>5, Shapes
  <2>2. \A i \in DOMAIN uplink' : ~IsQuery(i)' => store'.syncing \/ store'.rows = NoRows
    BY <1>4, <1>5
  <2>3. asking' = 0 => \A i \in DOMAIN uplink' : ~IsQuery(i)'
    BY <1>6, <1>9
  <2> QED BY <1>1, <1>3, <1>9, <2>1, <2>2, <2>3 DEF AskInv
<1>11. Tells' /\ Split'
  BY <1>1, <1>3 DEF Tells, Split
<1>12. Level'
  BY <1>4, <1>5 DEF Level, LevelOf, NoRows
<1>13. SeenInv' /\ FlowInv'
  BY <1>1, <1>2, <1>4 DEF SeenInv, FlowInv, Days, Today
<1>14. Whole'
  BY <1>1, <1>2, <1>4 DEF Whole, Blocked, IsAnswer
<1> QED BY <1>1, <1>2, <1>10, <1>11, <1>12, <1>13, <1>14 DEF LossInv

-----------------------------------------------------------------------------
(* The server serves *)

LEMMA ServeSubscriptionKeepsLoss ==
  ASSUME Inv, Inv', LossInv, ServeSubscription
  PROVE  LossInv'
<1>1. /\ uplink # << >> /\ Head(uplink) = "subscribe" /\ uplink' = Tail(uplink)
      /\ subscribed' = TRUE /\ buffer' = << >>
      /\ link' = link /\ greeted' = greeted /\ downlink' = downlink /\ meta' = meta
      /\ days' = days /\ store' = store /\ asking' = asking /\ seen' = seen /\ falseHole' = falseHole
  BY DEF ServeSubscription, serverVars, pageVars, ghostVars
<1>2. /\ ~falseHole /\ FlowInv /\ SeenInv /\ AskInv /\ Tells /\ Split /\ Level /\ Whole
  BY DEF LossInv
<1>3. /\ uplink \in Seq({"subscribe", "query"}) /\ 1 \in DOMAIN uplink /\ uplink[1] = "subscribe"
      /\ uplink' \in Seq({"subscribe", "query"})
      /\ \A i \in DOMAIN uplink' : i + 1 \in DOMAIN uplink /\ uplink'[i] = uplink[i + 1] /\ i + 1 # 1
      /\ \A i, j \in DOMAIN uplink' : i + 1 = j + 1 => i = j
  <2>1. uplink \in Seq({"subscribe", "query"})
    BY <1>2 DEF AskInv
  <2> QED BY <1>1, <2>1, ShorterQueue
<1>4. ~IsQuery(1)
  BY <1>3 DEF IsQuery
<1>5. downlink = << >> /\ (store.syncing \/ store.rows = NoRows)
  BY <1>2, <1>3, <1>4 DEF AskInv
<1>6. AskInv'
  <2>1. \A i \in DOMAIN uplink' : IsQuery(i)' /\ IsQuery(i + 1)
    BY <1>2, <1>3 DEF AskInv, IsQuery
  <2> QED BY <1>1, <1>2, <1>3, <2>1 DEF AskInv, IsAnswer
<1>7. FlowInv'
  <2>1. ASSUME NEW id \in Ids
        PROVE  OneFlow(Numbers(store.pending, id), {}, {}, Len(days[Today][id]), meta[id] # 0, TRUE)
    <3>1. OneFlow(Numbers(store.pending, id), Sent(downlink, id), Numbers(buffer, id),
                  Len(days[Today][id]), meta[id] # 0, subscribed)
      BY <1>2 DEF FlowInv
    <3> QED BY <3>1 DEF OneFlow, Above, NoGap
  <2>2. Today' = Today
    BY <1>1 DEF Today
  <2> QED BY <1>1, <1>2, <1>5, <2>1, <2>2, NothingSent DEF FlowInv
<1>8. SeenInv'
  BY <1>1, <1>2 DEF SeenInv, Days, Today
<1>9. Tells' /\ Split' /\ Whole'
  BY <1>1, <1>2 DEF Tells, Tell, Split, Whole, Blocked, IsAnswer, IsReportOf
<1>10. Level'
  BY <1>1, <1>5 DEF Level, LevelOf, NoRows
<1> QED BY <1>1, <1>2, <1>6, <1>7, <1>8, <1>9, <1>10 DEF LossInv

LEMMA ServeQueryKeepsLoss ==
  ASSUME Inv, Inv', LossInv, ServeQuery
  PROVE  LossInv'
<1> DEFINE m == [kind |-> "orders", rows |-> states]
<1>0. PICK n : n = Len(downlink) + 1
  OBVIOUS
<1>1. /\ uplink # << >> /\ Head(uplink) = "query" /\ uplink' = Tail(uplink)
      /\ downlink' = Append(downlink, m)
      /\ link' = link /\ greeted' = greeted /\ subscribed' = subscribed /\ buffer' = buffer
      /\ meta' = meta /\ days' = days /\ store' = store /\ asking' = asking /\ seen' = seen
      /\ falseHole' = falseHole
  BY DEF ServeQuery, serverVars, pageVars, ghostVars
<1>2. /\ ~falseHole /\ FlowInv /\ SeenInv /\ AskInv /\ Tells /\ Split /\ Level /\ Whole
  BY DEF LossInv
<1>3. /\ uplink \in Seq({"subscribe", "query"}) /\ 1 \in DOMAIN uplink /\ uplink[1] = "query"
      /\ uplink' \in Seq({"subscribe", "query"})
      /\ \A i \in DOMAIN uplink' : i + 1 \in DOMAIN uplink /\ uplink'[i] = uplink[i + 1] /\ i + 1 # 1
  <2>1. uplink \in Seq({"subscribe", "query"})
    BY <1>2 DEF AskInv
  <2> QED BY <1>1, <2>1, ShorterQueue
<1>4. IsQuery(1)
  BY <1>3 DEF IsQuery
<1>5. /\ \A j \in DOMAIN downlink : ~IsAnswer(j)
      /\ asking # 0 /\ store.syncing
  <2>1. asking # 0 /\ \A j \in DOMAIN downlink : ~IsAnswer(j)
    BY <1>2, <1>3, <1>4 DEF AskInv
  <2> QED BY <1>2, <2>1, Shapes DEF AskInv
<1>6. /\ m.kind = "orders" /\ m.rows = states /\ m \in Message
  BY Shapes DEF Message, ServerInv
<1> HIDE DEF m
<1>7. /\ n \in DOMAIN downlink' /\ downlink'[n] = m /\ n \in Nat /\ n = Len(downlink) + 1
      /\ DOMAIN downlink = 1..Len(downlink)
      /\ \A i \in DOMAIN downlink : i \in DOMAIN downlink' /\ downlink'[i] = downlink[i]
      /\ \A i \in DOMAIN downlink' : i \in DOMAIN downlink \/ i = n
  BY <1>0, <1>1, <1>6, Shapes, LongerQueue
<1>8. /\ IsAnswer(n)' /\ downlink'[n].rows = states
      /\ \A j \in DOMAIN downlink' : IsAnswer(j)' => j = n
  BY <1>5, <1>6, <1>7 DEF IsAnswer
<1>9. AskInv'
  <2>1. DOMAIN uplink' = {}
    <3>1. \A i \in DOMAIN uplink : i = 1
      BY <1>2, <1>3, <1>4 DEF AskInv
    <3> QED BY <1>3, <3>1
  <2> QED BY <1>1, <1>2, <1>3, <1>5, <1>8, <2>1 DEF AskInv
<1>10. FlowInv'
  <2>1. /\ \A id : Sent(downlink', id) = Sent(downlink, id)
        /\ RisingSent(downlink')
    <3>1. RisingSent(downlink) /\ downlink \in Seq(Message) /\ m.kind # "report"
      BY <1>2, <1>6, Shapes DEF FlowInv
    <3> QED BY <1>1, <1>6, <3>1, SentGrow
  <2>2. Today' = Today
    BY <1>1 DEF Today
  <2> QED BY <1>1, <1>2, <2>1, <2>2 DEF FlowInv
<1>11. SeenInv'
  BY <1>1, <1>2 DEF SeenInv, Days, Today
<1>12. Tells'
  <2> SUFFICES ASSUME NEW id \in Ids, meta[id] # 0 \/ states[id] # NoRow
               PROVE  Tell(states[id].eventSeq, id, n)'
    BY <1>1, <1>8 DEF Tells, ServeQuery, serverVars
  <2>1. meta[id] # 0
    BY Shapes, StatesAreTrue DEF OfToday
  <2>2. seen[id] <= states[id].eventSeq
    BY <1>2, <2>1, NothingBeyondToday
  <2>3. store.rows[id].eventSeq <= states[id].eventSeq
    BY <2>1, Shapes, ServerKnowsMost DEF PageInv
  <2>4. ASSUME NEW k \in Numbers(store.pending, id)
        PROVE  k <= states[id].eventSeq
    <3>1. PICK i \in DOMAIN store.pending : store.pending[i].id = id /\ store.pending[i].eventSeq = k
      BY DEF Numbers
    <3>2. store.pending[i] \in WireReport /\ TrueReport(store.pending[i])
      BY Shapes DEF PageInv
    <3> QED BY <2>1, <3>1, <3>2, Shapes, ServerKnowsMost
  <2>5. ASSUME NEW i \in 1..(n - 1), IsReportOf(i, id)'
        PROVE  downlink'[i].report.eventSeq <= states[id].eventSeq
    <3>1. i \in DOMAIN downlink /\ downlink'[i] = downlink[i]
      BY <1>7, Shapes
    <3>2. downlink[i].kind = "report" /\ downlink[i].report.id = id
      BY <2>5, <3>1 DEF IsReportOf
    <3>3. downlink[i].report \in WireReport /\ TrueReport(downlink[i].report)
      BY <3>1, <3>2, Messages
    <3> QED BY <2>1, <3>1, <3>2, <3>3, Shapes, ServerKnowsMost
  <2>6. states' = states
    BY DEF ServeQuery, serverVars
  <2> QED BY <1>1, <2>2, <2>3, <2>4, <2>5, <2>6 DEF Tell
<1>13. Split'
  <2>1. \A i \in DOMAIN downlink' : ~(i > n)
    BY <1>7, Shapes
  <2> QED BY <1>8, <2>1 DEF Split
<1>14. Level'
  BY <1>1, <1>5 DEF Level
<1>15. Whole'
  <2>1. CASE Blocked
    <3>1. store.pending[1].id \in Ids
      <4>1. store.pending # << >> /\ store.pending \in Seq(WireReport)
        BY <2>1, Shapes DEF Blocked
      <4>2. store.pending[1] \in WireReport
        BY <4>1
      <4> QED BY <4>2 DEF WireReport
    <3>2. states[store.pending[1].id] = NoRow
      BY <2>1, <3>1, Shapes, StatesAreTrue DEF OfToday, Blocked
    <3> QED BY <1>1, <1>8, <2>1, <3>2 DEF Whole, Blocked
  <2>2. CASE ~Blocked
    <3>1. \A id : Sent(downlink', id) = Sent(downlink, id)
      <4>1. RisingSent(downlink) /\ downlink \in Seq(Message) /\ m.kind # "report"
        BY <1>2, <1>6, Shapes DEF FlowInv
      <4> QED BY <1>1, <1>6, <4>1, SentGrow
    <3> QED BY <1>1, <1>2, <2>2, <3>1 DEF Whole
  <2> QED BY <2>1, <2>2
<1> QED BY <1>1, <1>2, <1>9, <1>10, <1>11, <1>12, <1>13, <1>14, <1>15 DEF LossInv

\* A report goes onto the wire.
LEMMA ReportGoesOut ==
  ASSUME Inv, Inv', LossInv, NEW r \in WireReport, buffer # << >>, r = Head(buffer), meta[r.id] # 0,
         NEW m \in Message, m.kind = "report", m.report.id = r.id, m.report.eventSeq = r.eventSeq,
         downlink' = Append(downlink, m), buffer' = Tail(buffer),
         UNCHANGED <<link, greeted, uplink, subscribed, meta, days, store, asking, seen, falseHole>>
  PROVE  LossInv'
<1>1. /\ link' = link /\ greeted' = greeted /\ uplink' = uplink /\ subscribed' = subscribed
      /\ meta' = meta /\ days' = days /\ store' = store /\ asking' = asking /\ seen' = seen
      /\ falseHole' = falseHole /\ Today' = Today /\ Days' = Days
  BY DEF Today, Days
<1>2. /\ ~falseHole /\ FlowInv /\ SeenInv /\ AskInv /\ Tells /\ Split /\ Level /\ Whole
  BY DEF LossInv
<1>3. PICK n \in Nat : n = Len(downlink) + 1
  BY Shapes
<1>4. /\ n \in DOMAIN downlink' /\ downlink'[n] = m
      /\ DOMAIN downlink = 1..(n - 1) /\ downlink \in Seq(Message)
      /\ \A i \in DOMAIN downlink : i \in DOMAIN downlink' /\ downlink'[i] = downlink[i]
      /\ \A i \in DOMAIN downlink' : i \in DOMAIN downlink \/ i = n
  BY <1>3, Shapes, LongerQueue
<1>5. r.id \in Ids /\ r.eventSeq \in Nat
  BY DEF WireReport
<1>6. /\ \A id : id # r.id => Sent(downlink', id) = Sent(downlink, id)
      /\ Sent(downlink', r.id) = Sent(downlink, r.id) \cup {r.eventSeq}
      /\ RisingSent(downlink) /\ (\A k \in Sent(downlink, r.id) : k < r.eventSeq) => RisingSent(downlink')
  BY <1>4, SentGrow
<1>7. /\ buffer \in Seq(WireReport) /\ Rising(buffer) /\ r = buffer[1]
      /\ \A id : id # r.id => Numbers(buffer, id) = Numbers(Tail(buffer), id)
      /\ Numbers(buffer, r.id) = Numbers(Tail(buffer), r.id) \cup {r.eventSeq}
      /\ \A k \in Numbers(Tail(buffer), r.id) : r.eventSeq < k
      /\ Rising(Tail(buffer)) /\ Tail(buffer) \in Seq(WireReport)
  <2>1. buffer \in Seq(WireReport) /\ Rising(buffer)
    BY <1>2, Shapes DEF FlowInv
  <2>2. r = buffer[1] /\ Tail(buffer) \in Seq(WireReport)
    BY <2>1
  <2> QED BY <2>1, <2>2, NumbersShrink
<1>8. FlowInv'
  <2>1. OneFlow(Numbers(store.pending, r.id), Sent(downlink, r.id), Numbers(buffer, r.id),
                Len(days[Today][r.id]), TRUE, subscribed)
    BY <1>2, <1>5 DEF FlowInv
  <2>2. RisingSent(downlink')
    <3>1. Above(Sent(downlink, r.id), Numbers(buffer, r.id))
      BY <2>1 DEF OneFlow
    <3>2. \A k \in Sent(downlink, r.id) : k < r.eventSeq
      BY <1>7, <3>1 DEF Above
    <3> QED BY <1>2, <1>6, <3>2 DEF FlowInv
  <2>3. OneFlow(Numbers(store.pending, r.id), Sent(downlink, r.id) \cup {r.eventSeq},
                Numbers(Tail(buffer), r.id), Len(days[Today][r.id]), TRUE, subscribed)
    <3>1. PICK P, S, B : /\ P = Numbers(store.pending, r.id) /\ S = Sent(downlink, r.id)
                         /\ B = Numbers(Tail(buffer), r.id)
      OBVIOUS
    <3>2. P \in SUBSET Nat /\ S \in SUBSET Nat /\ B \in SUBSET Nat
      BY <1>7, <3>1, Sets, NumbersAre
    <3>3. OneFlow(P, S, B \cup {r.eventSeq}, Len(days[Today][r.id]), TRUE, subscribed)
      BY <1>7, <2>1, <3>1
    <3>4. \A k \in B : r.eventSeq < k
      BY <1>7, <3>1
    <3>5. OneFlow(P, S \cup {r.eventSeq}, B, Len(days[Today][r.id]), TRUE, subscribed)
      BY <1>5, <3>2, <3>3, <3>4, FlowMoves
    <3> QED BY <3>1, <3>5
  <2>4. ASSUME NEW id \in Ids
        PROVE  OneFlow(Numbers(store.pending, id), Sent(downlink', id), Numbers(buffer', id),
                       Len(days[Today][id]), meta[id] # 0, subscribed)
    <3>1. CASE id = r.id
      BY <1>6, <2>3, <3>1
    <3>2. CASE id # r.id
      BY <1>2, <1>6, <1>7, <3>2 DEF FlowInv
    <3> QED BY <3>1, <3>2
  <2> QED BY <1>1, <1>2, <1>7, <2>2, <2>4 DEF FlowInv
<1>9. /\ \A j \in DOMAIN downlink : IsAnswer(j)' <=> IsAnswer(j)
      /\ \A j \in DOMAIN downlink' : IsAnswer(j)' => j \in DOMAIN downlink /\ IsAnswer(j) /\ j <= n - 1
      /\ \A i \in DOMAIN downlink, id \in Ids : IsReportOf(i, id)' <=> IsReportOf(i, id)
      /\ \A id \in Ids : IsReportOf(n, id)' => id = r.id
  BY <1>4 DEF IsAnswer, IsReportOf
<1>10. AskInv'
  <2>1. \A i \in DOMAIN uplink : IsQuery(i)
    BY <1>2 DEF AskInv
  <2> QED BY <1>1, <1>2, <1>9, <2>1 DEF AskInv, IsQuery
<1>11. SeenInv'
  BY <1>1, <1>2 DEF SeenInv
<1>12. Tells'
  <2> SUFFICES ASSUME NEW j \in DOMAIN downlink, IsAnswer(j), j <= n - 1, NEW id \in Ids,
                      meta[id] # 0 \/ downlink[j].rows[id] # NoRow
               PROVE  Tell(downlink[j].rows[id].eventSeq, id, j)'
    BY <1>1, <1>4, <1>9 DEF Tells
  <2>1. Tell(downlink[j].rows[id].eventSeq, id, j)
    BY <1>2 DEF Tells
  <2>2. \A i \in 1..(j - 1) : i \in DOMAIN downlink
    BY <1>4
  <2> QED BY <1>1, <1>4, <1>9, <2>1, <2>2 DEF Tell
<1>13. Split'
  <2> SUFFICES ASSUME NEW j \in DOMAIN downlink, IsAnswer(j), j <= n - 1, NEW id \in Ids,
                      downlink[j].rows[id] = NoRow
               PROVE  \/ /\ Numbers(store.pending, id) = {}
                         /\ \A i \in 1..(j - 1) : ~IsReportOf(i, id)'
                      \/ \A i \in DOMAIN downlink' : i > j => ~IsReportOf(i, id)'
    BY <1>1, <1>4, <1>9 DEF Split
  <2>1. \A i \in 1..(j - 1) : i \in DOMAIN downlink /\ (IsReportOf(i, id)' <=> IsReportOf(i, id))
    BY <1>4, <1>9
  <2>2. CASE id = r.id
    <3>1. Tell(0, id, j)
      BY <1>2, <2>2 DEF Tells, NoRow
    <3>2. Numbers(store.pending, id) = {}
      <4>1. SUFFICES ASSUME NEW k \in Numbers(store.pending, id) PROVE FALSE
        OBVIOUS
      <4>2. PICK i \in DOMAIN store.pending : store.pending[i].id = id /\ store.pending[i].eventSeq = k
        BY DEF Numbers
      <4>3. store.pending[i] \in WireReport /\ TrueReport(store.pending[i])
        BY Shapes DEF PageInv
      <4>4. k >= 1 /\ k \in Nat
        BY <4>2, <4>3 DEF TrueReport, ReportAt, WireReport
      <4> QED BY <3>1, <4>4 DEF Tell
    <3>3. \A i \in 1..(j - 1) : ~IsReportOf(i, id)
      <4> SUFFICES ASSUME NEW i \in 1..(j - 1), IsReportOf(i, id) PROVE FALSE
        OBVIOUS
      <4>1. downlink[i].report.eventSeq >= 1 /\ downlink[i].report.eventSeq \in Nat
        BY <2>1, Messages DEF IsReportOf
      <4> QED BY <3>1, <4>1 DEF Tell
    <3> QED BY <2>1, <3>2, <3>3
  <2>3. CASE id # r.id
    <3>1. CASE /\ Numbers(store.pending, id) = {}
               /\ \A i \in 1..(j - 1) : ~IsReportOf(i, id)
      BY <2>1, <3>1
    <3>2. CASE \A i \in DOMAIN downlink : i > j => ~IsReportOf(i, id)
      BY <1>4, <1>9, <2>3, <3>2
    <3> QED BY <1>2, <3>1, <3>2 DEF Split
  <2> QED BY <2>2, <2>3
<1>14. Level'
  <2>1. \A id \in Ids : Coming(id)' = Coming(id)
    <3> TAKE id \in Ids
    <3>1. CASE id = r.id
      BY <1>1, <1>6, <1>7, <3>1 DEF Coming
    <3>2. CASE id # r.id
      BY <1>1, <1>6, <1>7, <3>2 DEF Coming
    <3> QED BY <3>1, <3>2
  <2> QED BY <1>1, <1>2, <2>1 DEF Level, LevelOf
<1>15. Whole'
  <2>1. CASE Blocked
    BY <1>1, <1>4, <1>9, <2>1 DEF Whole, Blocked
  <2>2. CASE ~Blocked
    BY <1>1, <1>2, <1>6, <2>2 DEF Whole
  <2> QED BY <2>1, <2>2
<1> QED BY <1>1, <1>2, <1>8, <1>10, <1>11, <1>12, <1>13, <1>14, <1>15 DEF LossInv

\* The generator throws: an error goes out and the queue is gone.
LEMMA ErrorGoesOut ==
  ASSUME Inv, Inv', LossInv, buffer # << >>,
         NEW m \in Message, m.kind = "error",
         downlink' = Append(downlink, m), buffer' = << >>, subscribed' = FALSE,
         UNCHANGED <<link, greeted, uplink, meta, days, store, asking, seen, falseHole>>
  PROVE  LossInv'
<1>1. /\ link' = link /\ greeted' = greeted /\ uplink' = uplink
      /\ meta' = meta /\ days' = days /\ store' = store /\ asking' = asking /\ seen' = seen
      /\ falseHole' = falseHole /\ Today' = Today /\ Days' = Days
  BY DEF Today, Days
<1>2. /\ ~falseHole /\ FlowInv /\ SeenInv /\ AskInv /\ Tells /\ Split /\ Level /\ Whole
  BY DEF LossInv
<1>3. PICK n \in Nat : n = Len(downlink) + 1
  BY Shapes
<1>4. /\ n \in DOMAIN downlink' /\ downlink'[n] = m
      /\ DOMAIN downlink = 1..(n - 1) /\ downlink \in Seq(Message)
      /\ \A i \in DOMAIN downlink : i \in DOMAIN downlink' /\ downlink'[i] = downlink[i]
      /\ \A i \in DOMAIN downlink' : i \in DOMAIN downlink \/ i = n
  BY <1>3, Shapes, LongerQueue
<1>5. /\ \A id : Sent(downlink', id) = Sent(downlink, id)
      /\ RisingSent(downlink')
  <2>1. RisingSent(downlink) /\ m.kind # "report"
    BY <1>2 DEF FlowInv
  <2> QED BY <1>4, <2>1, SentGrow
<1>6. \A id \in Ids : OneFlow(Numbers(store.pending, id), Sent(downlink, id), Numbers(buffer, id),
                              Len(days[Today][id]), meta[id] # 0, subscribed)
  BY <1>2 DEF FlowInv
<1>7. FlowInv'
  <2>1. ASSUME NEW id \in Ids
        PROVE  OneFlow(Numbers(store.pending, id), Sent(downlink, id), {},
                       Len(days[Today][id]), meta[id] # 0, FALSE)
    <3>1. PICK P, S, B : /\ P = Numbers(store.pending, id) /\ S = Sent(downlink, id)
                         /\ B = Numbers(buffer, id)
      OBVIOUS
    <3>2. P \in SUBSET Nat /\ S \in SUBSET Nat /\ B \in SUBSET Nat /\ Len(days[Today][id]) \in Nat
      BY <3>1, Sets, Shapes
    <3>3. OneFlow(P, S, B, Len(days[Today][id]), meta[id] # 0, subscribed)
      BY <1>6, <3>1
    <3>4. OneFlow(P, S, {}, Len(days[Today][id]), meta[id] # 0, FALSE)
      BY <3>2, <3>3, FlowStops
    <3> QED BY <3>1, <3>4
  <2> QED BY <1>1, <1>2, <1>5, <2>1, NothingSent DEF FlowInv
<1>8. /\ \A j \in DOMAIN downlink : IsAnswer(j)' <=> IsAnswer(j)
      /\ \A j \in DOMAIN downlink' : IsAnswer(j)' => j \in DOMAIN downlink /\ IsAnswer(j) /\ j <= n - 1
      /\ \A i \in DOMAIN downlink, id \in Ids : IsReportOf(i, id)' <=> IsReportOf(i, id)
      /\ \A id \in Ids : ~IsReportOf(n, id)'
  BY <1>4 DEF IsAnswer, IsReportOf
<1>9. AskInv'
  <2>1. \A i \in DOMAIN uplink : IsQuery(i)
    BY <1>2 DEF AskInv
  <2> QED BY <1>1, <1>2, <1>8, <2>1 DEF AskInv, IsQuery
<1>10. SeenInv'
  BY <1>1, <1>2 DEF SeenInv
<1>11. Tells'
  <2> SUFFICES ASSUME NEW j \in DOMAIN downlink, IsAnswer(j), j <= n - 1, NEW id \in Ids,
                      meta[id] # 0 \/ downlink[j].rows[id] # NoRow
               PROVE  Tell(downlink[j].rows[id].eventSeq, id, j)'
    BY <1>1, <1>4, <1>8 DEF Tells
  <2>1. Tell(downlink[j].rows[id].eventSeq, id, j)
    BY <1>2 DEF Tells
  <2>2. \A i \in 1..(j - 1) : i \in DOMAIN downlink
    BY <1>4
  <2> QED BY <1>1, <1>4, <1>8, <2>1, <2>2 DEF Tell
<1>12. Split'
  <2> SUFFICES ASSUME NEW j \in DOMAIN downlink, IsAnswer(j), j <= n - 1, NEW id \in Ids,
                      downlink[j].rows[id] = NoRow
               PROVE  \/ /\ Numbers(store.pending, id) = {}
                         /\ \A i \in 1..(j - 1) : ~IsReportOf(i, id)'
                      \/ \A i \in DOMAIN downlink' : i > j => ~IsReportOf(i, id)'
    BY <1>1, <1>4, <1>8 DEF Split
  <2>1. \A i \in 1..(j - 1) : i \in DOMAIN downlink /\ (IsReportOf(i, id)' <=> IsReportOf(i, id))
    BY <1>4, <1>8
  <2>2. CASE /\ Numbers(store.pending, id) = {}
             /\ \A i \in 1..(j - 1) : ~IsReportOf(i, id)
    BY <2>1, <2>2
  <2>3. CASE \A i \in DOMAIN downlink : i > j => ~IsReportOf(i, id)
    BY <1>4, <1>8, <2>3
  <2> QED BY <1>2, <2>2, <2>3 DEF Split
<1>13. Level'
  <2> SUFFICES ASSUME ~store.syncing, NEW id \in Ids, link = "open", store.rows[id] # NoRow,
                      seen[id] > store.rows[id].eventSeq
               PROVE  \/ \E k \in Sent(downlink, id) : k <= store.rows[id].eventSeq + 1
                      \/ Sent(downlink, id) = {}
    <3>2. \A i : Coming(i)' = Sent(downlink, i)
      BY <1>1, <1>5, NothingSent DEF Coming
    <3> QED BY <1>1, <3>2 DEF Level, LevelOf
  <2>1. LevelOf(id)
    BY <1>2 DEF Level
  <2>2. Above(Sent(downlink, id), Numbers(buffer, id))
    BY <1>6 DEF OneFlow
  <2>3. /\ Sent(downlink, id) \in SUBSET Nat /\ Numbers(buffer, id) \in SUBSET Nat
        /\ store.rows[id].eventSeq \in Nat
    BY Sets, Shapes
  <2>4. CASE Coming(id) = {}
    BY <2>4 DEF Coming
  <2>5. CASE \E k \in Coming(id) : k <= store.rows[id].eventSeq + 1
    <3>1. PICK k \in Coming(id) : k <= store.rows[id].eventSeq + 1
      BY <2>5
    <3>2. CASE k \in Sent(downlink, id)
      BY <3>1, <3>2
    <3>3. CASE k \in Numbers(buffer, id)
      <4> SUFFICES ASSUME NEW s \in Sent(downlink, id)
                   PROVE  s <= store.rows[id].eventSeq + 1
        OBVIOUS
      <4>1. s < k /\ s \in Nat /\ k \in Nat
        BY <2>2, <2>3, <3>3 DEF Above
      <4> QED BY <2>3, <3>1, <4>1
    <3> QED BY <3>1, <3>2, <3>3 DEF Coming
  <2> QED BY <2>1, <2>4, <2>5 DEF LevelOf
<1>14. Whole'
  <2>1. CASE Blocked
    BY <1>1, <1>4, <1>8, <2>1 DEF Whole, Blocked
  <2>2. CASE ~Blocked
    BY <1>1, <1>2, <1>5, <2>2 DEF Whole
  <2> QED BY <2>1, <2>2
<1> QED BY <1>1, <1>2, <1>7, <1>9, <1>10, <1>11, <1>12, <1>13, <1>14 DEF LossInv

LEMMA SendReportKeepsLoss ==
  ASSUME Inv, Inv', LossInv, SendReport
  PROVE  LossInv'
<1> DEFINE r == Head(buffer)
<1>1. /\ buffer # << >> /\ buffer \in Seq(WireReport)
      /\ UNCHANGED <<link, greeted, uplink, meta, days, store, asking, seen, falseHole>>
  BY Shapes DEF SendReport, serverVars, pageVars, ghostVars
<1>2. r \in WireReport /\ r.id \in Ids /\ meta[r.id] \in Nat
  <2>1. 1 \in DOMAIN buffer /\ r = buffer[1] /\ buffer[1] \in WireReport
    BY <1>1
  <2>2. r.id \in Ids
    BY <2>1 DEF WireReport
  <2> QED BY <2>1, <2>2, Shapes
<1>3. CASE meta[r.id] # 0
  <2> DEFINE sent == [r EXCEPT !.orderQty = meta[r.id]]
             m == [kind |-> "report", report |-> sent]
  <2>1. sent \in WireReport /\ sent.id = r.id /\ sent.eventSeq = r.eventSeq
    BY <1>2 DEF WireReport
  <2>2. /\ downlink' = Append(downlink, m) /\ buffer' = Tail(buffer) /\ subscribed' = subscribed
    BY <1>3 DEF SendReport
  <2> HIDE DEF sent
  <2>3. m \in Message /\ m.kind = "report" /\ m.report = sent
    BY <2>1 DEF Message
  <2> HIDE DEF m, r
  <2> QED BY <1>1, <1>2, <1>3, <2>1, <2>2, <2>3, ReportGoesOut DEF r
<1>4. CASE meta[r.id] = 0
  <2> DEFINE m == [kind |-> "error"]
  <2>1. m \in Message /\ m.kind = "error" /\ downlink' = Append(downlink, m)
        /\ buffer' = << >> /\ subscribed' = FALSE
    BY <1>4 DEF Message, SendReport
  <2> HIDE DEF m
  <2> QED BY <1>1, <2>1, ErrorGoesOut
<1> QED BY <1>3, <1>4

-----------------------------------------------------------------------------
(* The page paints, and hears of an error *)

LEMMA FlushKeepsLoss ==
  ASSUME Inv, Inv', LossInv, Flush
  PROVE  LossInv'
<1>1. /\ link' = link /\ greeted' = greeted /\ uplink' = uplink /\ downlink' = downlink
      /\ buffer' = buffer /\ subscribed' = subscribed
      /\ meta' = meta /\ days' = days /\ asking' = asking /\ seen' = seen /\ falseHole' = falseHole
  BY DEF Flush, serverVars, wireVars, ghostVars
<1>2. /\ ~falseHole /\ FlowInv /\ SeenInv /\ AskInv /\ Tells /\ Split /\ Level /\ Whole
  BY DEF LossInv
<1>3. PICK gone \in Prunable(store) :
        /\ drawn' = Drawn(drawn, Pruned(store, gone))
        /\ store' = Taken(Pruned(store, gone))
  BY DEF Flush
<1>4. /\ store'.rows = [id \in Ids |-> IF id \in gone THEN NoRow ELSE store.rows[id]]
      /\ store'.pending = store.pending /\ store'.syncing = store.syncing
  BY <1>3, Shapes, Flushed
<1>5. \A id \in Ids : store'.rows[id] # NoRow => store'.rows[id] = store.rows[id]
  BY <1>4
<1>6. \A id \in Ids : store'.rows[id].eventSeq <= store.rows[id].eventSeq
  BY <1>4, Shapes DEF NoRow
<1>7. AskInv'
  <2>1. store.rows = NoRows => store'.rows = NoRows
    BY <1>4 DEF NoRows
  <2> QED BY <1>1, <1>2, <1>4, <2>1 DEF AskInv, IsQuery, IsAnswer
<1>8. FlowInv' /\ SeenInv'
  BY <1>1, <1>2, <1>4 DEF FlowInv, SeenInv, Days, Today
<1>9. Tells'
  <2> SUFFICES ASSUME NEW j \in DOMAIN downlink, IsAnswer(j), NEW id \in Ids,
                      meta[id] # 0 \/ downlink[j].rows[id] # NoRow
               PROVE  Tell(downlink[j].rows[id].eventSeq, id, j)'
    BY <1>1 DEF Tells, IsAnswer
  <2>1. Tell(downlink[j].rows[id].eventSeq, id, j) /\ downlink[j].rows[id].eventSeq \in Nat
    BY <1>2, Messages DEF Tells
  <2>2. store'.rows[id].eventSeq \in Nat /\ store.rows[id].eventSeq \in Nat
    BY <1>4, Shapes DEF NoRow
  <2> QED BY <1>1, <1>4, <1>6, <2>1, <2>2 DEF Tell, IsReportOf
<1>10. Split' /\ Whole'
  BY <1>1, <1>2, <1>4 DEF Split, Whole, Blocked, IsAnswer, IsReportOf
<1>11. Level'
  <2> SUFFICES ASSUME ~store.syncing, NEW id \in Ids, link = "open", store'.rows[id] # NoRow,
                      seen[id] > store'.rows[id].eventSeq
               PROVE  LevelOf(id)'
    BY <1>1, <1>4 DEF Level, LevelOf
  <2>1. LevelOf(id) /\ store'.rows[id] = store.rows[id]
    BY <1>2, <1>5 DEF Level
  <2> QED BY <1>1, <2>1 DEF LevelOf, Coming
<1> QED BY <1>1, <1>2, <1>7, <1>8, <1>9, <1>10, <1>11 DEF LossInv

\* The first message is gone: where the answers and the reports then are.
LEMMA ShiftedWire ==
  ASSUME Inv, downlink # << >>, downlink' = Tail(downlink)
  PROVE  /\ \A j \in DOMAIN downlink' : /\ j + 1 \in DOMAIN downlink /\ downlink'[j] = downlink[j + 1]
                                        /\ j \in Nat /\ j >= 1
         /\ \A j \in DOMAIN downlink' : IsAnswer(j)' <=> IsAnswer(j + 1)
         /\ \A i \in DOMAIN downlink', id \in Ids : IsReportOf(i, id)' <=> IsReportOf(i + 1, id)
         /\ \A j \in DOMAIN downlink' : \A i \in 1..(j - 1) :
              i \in DOMAIN downlink' /\ i + 1 \in 1..(j + 1 - 1)
<1>1. downlink \in Seq(Message) /\ downlink' \in Seq(Message)
  BY Shapes, ShorterQueue
<1>2. \A j \in DOMAIN downlink' : /\ j + 1 \in DOMAIN downlink /\ downlink'[j] = downlink[j + 1]
                                  /\ j \in Nat /\ j >= 1
  BY <1>1, ShorterQueue
<1>3. \A j \in DOMAIN downlink' : \A i \in 1..(j - 1) :
              i \in DOMAIN downlink' /\ i + 1 \in 1..(j + 1 - 1)
  BY <1>1
<1> QED BY <1>2, <1>3 DEF IsAnswer, IsReportOf

LEMMA ReceiveErrorKeepsLoss ==
  ASSUME Inv, Inv', LossInv, ReceiveError
  PROVE  LossInv'
<1>1. /\ downlink # << >> /\ Head(downlink).kind = "error" /\ downlink' = Tail(downlink)
      /\ link' = link /\ greeted' = greeted /\ uplink' = uplink /\ subscribed' = subscribed
      /\ buffer' = buffer /\ meta' = meta /\ days' = days /\ store' = store /\ asking' = asking
      /\ seen' = seen /\ falseHole' = falseHole
  BY DEF ReceiveError, serverVars, ghostVars
<1>2. /\ ~falseHole /\ FlowInv /\ SeenInv /\ AskInv /\ Tells /\ Split /\ Level /\ Whole
  BY DEF LossInv
<1>3. downlink \in Seq(Message) /\ downlink[1].kind = "error" /\ 1 \in DOMAIN downlink
  BY <1>1, Shapes, ShorterQueue
<1>4. (\A id : Sent(downlink', id) = Sent(downlink, id)) /\ RisingSent(downlink')
  <2>1. RisingSent(downlink)
    BY <1>2 DEF FlowInv
  <2> QED BY <1>1, <1>3, <2>1, SentShrink
<1>5. AskInv'
  <2>1. \A i \in DOMAIN uplink : IsQuery(i)
    BY <1>1, <1>2 DEF AskInv
  <2>2. \A i, j \in DOMAIN downlink' : IsAnswer(i)' /\ IsAnswer(j)' => i = j
    <3> TAKE i, j \in DOMAIN downlink'
    <3>1. IsAnswer(i)' /\ IsAnswer(j)' => i + 1 = j + 1
      BY <1>1, <1>2, ShiftedWire DEF AskInv
    <3>2. i \in Nat /\ j \in Nat
      BY <1>1, ShiftedWire
    <3> QED BY <3>1, <3>2
  <2>3. \A i \in DOMAIN uplink, j \in DOMAIN downlink' : ~(IsQuery(i) /\ IsAnswer(j)')
    BY <1>1, <1>2, ShiftedWire DEF AskInv
  <2>4. asking = 0 => \A j \in DOMAIN downlink' : ~IsAnswer(j)'
    BY <1>1, <1>2, ShiftedWire DEF AskInv
  <2> QED BY <1>1, <1>2, <2>1, <2>2, <2>3, <2>4 DEF AskInv, IsQuery
<1>6. FlowInv' /\ SeenInv'
  BY <1>1, <1>2, <1>4 DEF FlowInv, SeenInv, Days, Today
<1>7. Tells'
  <2> SUFFICES ASSUME NEW j \in DOMAIN downlink', IsAnswer(j)', NEW id \in Ids,
                      meta[id] # 0 \/ downlink'[j].rows[id] # NoRow
               PROVE  Tell(downlink[j].rows[id].eventSeq, id, j)'
    BY <1>1 DEF Tells
  <2>1. /\ j + 1 \in DOMAIN downlink /\ downlink'[j] = downlink[j + 1] /\ IsAnswer(j + 1)
    BY <1>1, ShiftedWire
  <2>2. Tell(downlink'[j].rows[id].eventSeq, id, j + 1)
    BY <1>2, <2>1 DEF Tells
  <2>3. \A i \in 1..(j - 1) : /\ i + 1 \in 1..(j + 1 - 1) /\ downlink'[i] = downlink[i + 1]
                              /\ IsReportOf(i, id)' <=> IsReportOf(i + 1, id)
    BY <1>1, ShiftedWire
  <2> QED BY <1>1, <2>2, <2>3 DEF Tell
<1>8. Split'
  <2> SUFFICES ASSUME NEW j \in DOMAIN downlink', IsAnswer(j)', NEW id \in Ids,
                      downlink'[j].rows[id] = NoRow
               PROVE  \/ /\ Numbers(store.pending, id) = {}
                         /\ \A i \in 1..(j - 1) : ~IsReportOf(i, id)'
                      \/ \A i \in DOMAIN downlink' : i > j => ~IsReportOf(i, id)'
    BY <1>1 DEF Split
  <2>1. /\ j + 1 \in DOMAIN downlink /\ downlink'[j] = downlink[j + 1] /\ IsAnswer(j + 1)
        /\ j \in Nat
    BY <1>1, ShiftedWire
  <2>2. CASE /\ Numbers(store.pending, id) = {}
             /\ \A i \in 1..(j + 1 - 1) : ~IsReportOf(i, id)
    <3>1. \A i \in 1..(j - 1) : /\ i + 1 \in 1..(j + 1 - 1)
                                /\ IsReportOf(i, id)' <=> IsReportOf(i + 1, id)
      BY <1>1, ShiftedWire
    <3> QED BY <2>2, <3>1
  <2>3. CASE \A i \in DOMAIN downlink : i > j + 1 => ~IsReportOf(i, id)
    <3>1. \A i \in DOMAIN downlink' : /\ i + 1 \in DOMAIN downlink /\ i \in Nat
                                      /\ IsReportOf(i, id)' <=> IsReportOf(i + 1, id)
      BY <1>1, ShiftedWire
    <3>2. \A i \in DOMAIN downlink' : i > j => i + 1 > j + 1
      BY <2>1, <3>1
    <3> QED BY <2>3, <3>1, <3>2
  <2> QED BY <1>2, <2>1, <2>2, <2>3 DEF Split
<1>9. Level'
  <2>1. \A id \in Ids : Coming(id)' = Coming(id)
    BY <1>1, <1>4 DEF Coming
  <2> QED BY <1>1, <1>2, <2>1 DEF Level, LevelOf
<1>10. Whole'
  <2>1. CASE Blocked
    <3>1. \A j \in DOMAIN downlink' : IsAnswer(j)' => downlink'[j].rows[store.pending[1].id] = NoRow
      BY <1>1, <2>1, ShiftedWire DEF Blocked
    <3> QED BY <1>1, <2>1, <3>1 DEF Whole, Blocked
  <2>2. CASE ~Blocked
    BY <1>1, <1>2, <1>4, <2>2 DEF Whole
  <2> QED BY <2>1, <2>2
<1> QED BY <1>1, <1>2, <1>5, <1>6, <1>7, <1>8, <1>9, <1>10 DEF LossInv

LEMMA NothingMovesLoss ==
  ASSUME LossInv, UNCHANGED vars
  PROVE  LossInv'
BY DEF LossInv, FlowInv, SeenInv, AskInv, IsQuery, IsAnswer, IsReportOf, Tells, Tell, Split,
   Coming, LevelOf, Level, Blocked, Whole, Days, Today,
   vars, serverVars, wireVars, pageVars, ghostVars

-----------------------------------------------------------------------------
(* A report arrives *)

\* What follows the first report of an order on the wire begins with the next one.
LEMMA GoesOn ==
  ASSUME NEW P \in SUBSET Nat, NEW S \in SUBSET Nat, NEW B \in SUBSET Nat, NEW len \in Nat,
         NEW known, NEW listening, NEW n \in Nat, \A m \in S : n < m,
         OneFlow(P, S \cup {n}, B, len, known, listening)
  PROVE  /\ S = {} \/ n + 1 \in S
         /\ S \cup B = {} \/ n + 1 \in S \cup B
<1>1. NoGap(S \cup {n} \cup B) /\ Above(S \cup {n}, B)
  BY DEF OneFlow
<1>2. ASSUME NEW m \in S \cup B
      PROVE  n < m /\ n + 1 \in S \cup B
  <2>1. n < m
    BY <1>1 DEF Above
  <2>2. n + 1 \in S \cup {n} \cup B
    BY <1>1, <2>1 DEF NoGap
  <2> QED BY <2>1, <2>2
<1>3. ASSUME NEW m \in S
      PROVE  n + 1 \in S
  <2>1. n + 1 \in S \cup B /\ n < m
    BY <1>2
  <2>2. n + 1 \in B => m < n + 1
    BY <1>1 DEF Above
  <2> QED BY <2>1, <2>2
<1> QED BY <1>2, <1>3

\* And nothing is missing between what waits then.
LEMMA LossArrives ==
  ASSUME NEW P \in SUBSET Nat, NEW S \in SUBSET Nat, NEW B \in SUBSET Nat, NEW len \in Nat,
         NEW known, NEW listening, NEW n \in Nat, \A m \in S : n < m,
         OneFlow(P, S \cup {n}, B, len, known, listening),
         NEW top \in Nat, NoLoss(P, S \cup {n}, top),
         NEW later, later = IF n = top + 1 THEN top + 1 ELSE top
  PROVE  NoLoss(P \cup {n}, S, later)
<1> SUFFICES ASSUME NEW m \in P \cup {n}, NEW q \in P \cup {n} \cup S, m + 1 < q, q <= later + 1
             PROVE  m + 1 \in P \cup {n} \cup S
  BY DEF NoLoss
<1>1. \A p \in P : p < n
  BY DEF OneFlow, Above
<1>2. m \in Nat /\ q \in Nat
  OBVIOUS
<1>3. CASE m = n
  <2>1. q \in S
    BY <1>1, <1>2, <1>3
  <2>2. n + 1 \in S
    BY <2>1, GoesOn
  <2> QED BY <1>3, <2>2
<1>4. CASE m \in P
  <2>1. CASE q <= top + 1
    BY <1>4, <2>1 DEF NoLoss
  <2>2. CASE ~(q <= top + 1)
    <3>1. n = top + 1
      BY <1>2, <2>2
    <3>2. m < n
      BY <1>1, <1>4
    <3>3. CASE m + 1 < n
      <4>1. n \in P \cup (S \cup {n}) /\ n <= top + 1
        BY <3>1
      <4>2. m + 1 \in P \cup (S \cup {n})
        BY <1>4, <3>3, <4>1 DEF NoLoss
      <4> QED BY <4>2
    <3>4. CASE m + 1 = n
      BY <3>4
    <3> QED BY <1>2, <3>2, <3>3, <3>4
  <2> QED BY <2>1, <2>2
<1> QED BY <1>3, <1>4

\* What a report does to the page.
Taking(r) ==
  LET known == store.rows[r.id].eventSeq
  IN \/ /\ store.syncing
        /\ store'.rows = store.rows /\ store'.pending = Append(store.pending, r) /\ store'.syncing
        /\ asking' = asking /\ uplink' = uplink /\ ~falseHole'
     \/ /\ ~store.syncing /\ r.eventSeq <= known
        /\ store'.rows = store.rows /\ store'.pending = store.pending /\ ~store'.syncing
        /\ asking' = asking /\ uplink' = uplink /\ ~falseHole'
     \/ /\ ~store.syncing /\ r.eventSeq = known + 1
        /\ \E next \in Progress :
             store'.rows = [store.rows EXCEPT ![r.id] = [progress |-> next, eventSeq |-> r.eventSeq]]
        /\ store'.pending = store.pending /\ ~store'.syncing
        /\ asking' = asking /\ uplink' = uplink /\ ~falseHole'
     \/ /\ ~store.syncing /\ r.eventSeq > known + 1
        /\ store'.rows = store.rows /\ store'.pending = Append(store.pending, r) /\ store'.syncing
        /\ asking' = 1 /\ uplink' = Append(uplink, "query")
        /\ falseHole' => store.rows[r.id] # NoRow /\ r.eventSeq <= seen[r.id] + 1

LEMMA ReportTells ==
  ASSUME Inv, LossInv, ReceiveReport
  PROVE  \E r \in WireReport :
           /\ downlink # << >> /\ downlink' = Tail(downlink) /\ 1 \in DOMAIN downlink
           /\ link = "open" /\ greeted /\ r.id \in Ids /\ r.eventSeq \in Nat /\ r.eventSeq >= 1
           /\ TrueReport(r) /\ IsReportOf(1, r.id) /\ r = downlink[1].report
           /\ UNCHANGED <<link, greeted, subscribed, buffer, meta, days>>
           /\ seen' = [seen EXCEPT ![r.id] = IF r.eventSeq = seen[r.id] + 1 THEN seen[r.id] + 1
                                             ELSE seen[r.id]]
           /\ store.pending # << >> => store.syncing
           /\ ~store.syncing => /\ asking = 0 /\ DOMAIN uplink = {}
                                /\ \A j \in DOMAIN downlink : ~IsAnswer(j)
           /\ \A i \in DOMAIN uplink : IsQuery(i)
           /\ Taking(r)
<1> DEFINE r == Head(downlink).report
           f == Ingest(store, r)
           known == store.rows[r.id].eventSeq
<1>1. /\ downlink # << >> /\ downlink' = Tail(downlink) /\ Head(downlink).kind = "report"
      /\ UNCHANGED <<link, greeted, subscribed, buffer, meta, days>>
      /\ store' = Settled(f) /\ asking' = asking + f.holes
      /\ uplink' = IF asking = 0 /\ f.holes > 0 /\ link = "open" THEN Append(uplink, "query") ELSE uplink
      /\ seen' = SeenReport(r)
      /\ falseHole' = (falseHole \/ FalseAlarm(f, seen))
  BY DEF ReceiveReport, Ask, serverVars
<1>2. /\ 1 \in DOMAIN downlink /\ r = downlink[1].report /\ downlink[1].kind = "report"
      /\ link = "open" /\ greeted
  <2>1. Head(downlink) = downlink[1] /\ 1 \in DOMAIN downlink
    BY <1>1, Shapes, ShorterQueue
  <2>2. link = "open" /\ greeted
    BY <1>1, Shapes DEF WireInv
  <2> QED BY <1>1, <2>1, <2>2
<1>3. /\ r \in WireReport /\ r.id \in Ids /\ r.eventSeq \in Nat /\ r.eventSeq >= 1 /\ TrueReport(r)
      /\ IsReportOf(1, r.id)
  BY <1>2, Messages DEF IsReportOf
<1>4. /\ AskInv /\ PageInv /\ DaysType /\ OneDayEach /\ store \in Store /\ ~store.threw
      /\ store.holes = 0 /\ asking \in Nat /\ (store.pending # << >> => store.syncing)
      /\ store.syncing \in BOOLEAN /\ store.pending \in Seq(WireReport) /\ known \in Nat
  BY <1>3, Shapes DEF LossInv, PageInv, ServerInv
<1>5. \A i \in DOMAIN uplink : IsQuery(i)
  BY <1>1, <1>4 DEF AskInv
<1>6. ~store.syncing => /\ asking = 0 /\ DOMAIN uplink = {}
                        /\ \A j \in DOMAIN downlink : ~IsAnswer(j)
  <2> SUFFICES ASSUME ~store.syncing
               PROVE  /\ asking = 0 /\ DOMAIN uplink = {}
                      /\ \A j \in DOMAIN downlink : ~IsAnswer(j)
    OBVIOUS
  <2>1. asking = 0
    BY <1>4 DEF AskInv
  <2>2. \A i \in DOMAIN uplink : ~IsQuery(i)
    BY <1>4, <2>1 DEF AskInv
  <2>3. DOMAIN uplink = {}
    BY <1>5, <2>2
  <2> QED BY <1>4, <2>1, <2>3 DEF AskInv
<1>7. TrueRow(store.rows[r.id], r.id)
  BY <1>3, <1>4 DEF PageInv
<1> HIDE DEF r
<1>8. /\ f \in Store
      /\ store.syncing => IsQueued(store, r, f) /\ f.holes = store.holes
      /\ ~store.syncing /\ r.eventSeq <= known => f = store
      /\ ~store.syncing /\ r.eventSeq = known + 1 =>
           \E next \in Progress :
             /\ IsFolded(store, r, f, next)
             /\ TrueRow([progress |-> next, eventSeq |-> r.eventSeq], r.id)
      /\ ~store.syncing /\ r.eventSeq > known + 1 =>
           IsQueued(store, r, f) /\ f.holes = store.holes + 1 /\ r.eventSeq >= 2
  BY <1>3, <1>4, <1>7, Ingested
<1>9. /\ store'.rows = f.rows /\ store'.pending = f.pending /\ store'.syncing = f.syncing
  BY <1>1, <1>8, SettledFields
<1> HIDE DEF f
<1>10. f.holes = 0 => asking' = asking /\ uplink' = uplink /\ ~falseHole'
  <2>1. f.holes = 0 => ~FalseAlarm(f, seen)
    BY DEF FalseAlarm
  <2>2. f.holes = 0 => ~falseHole'
    BY <1>1, <2>1 DEF LossInv
  <2> QED BY <1>1, <1>4, <2>2
<1>15. Taking(r)
  <2>1. CASE store.syncing
    BY <1>4, <1>8, <1>9, <1>10, <2>1 DEF Taking, IsQueued
  <2>2. CASE ~store.syncing /\ r.eventSeq <= known
    BY <1>4, <1>8, <1>9, <1>10, <2>2 DEF Taking
  <2>3. CASE ~store.syncing /\ r.eventSeq = known + 1
    BY <1>4, <1>8, <1>9, <1>10, <2>3 DEF Taking, IsFolded
  <2>4. CASE ~store.syncing /\ r.eventSeq > known + 1
    <3>1. IsQueued(store, r, f) /\ f.holes = 1 /\ store.pending = << >> /\ asking = 0
      BY <1>4, <1>6, <1>8, <2>4
    <3>2. /\ f.rows = store.rows /\ f.pending = Append(<< >>, r) /\ f.syncing
      BY <3>1 DEF IsQueued
    <3>3. Head(f.pending) = r
      BY <1>3, <3>2
    <3>4. FalseAlarm(f, seen) => store.rows[r.id] # NoRow /\ r.eventSeq <= seen[r.id] + 1
      BY <3>1, <3>2, <3>3 DEF FalseAlarm
    <3>5. falseHole' => store.rows[r.id] # NoRow /\ r.eventSeq <= seen[r.id] + 1
      BY <1>1, <3>4 DEF LossInv
    <3>6. asking' = 1 /\ uplink' = Append(uplink, "query")
      BY <1>1, <1>2, <3>1
    <3> QED BY <1>9, <2>4, <3>1, <3>2, <3>5, <3>6 DEF Taking
  <2> QED BY <1>3, <1>4, <2>1, <2>2, <2>3, <2>4
<1>16. seen' = [seen EXCEPT ![r.id] = IF r.eventSeq = seen[r.id] + 1 THEN seen[r.id] + 1
                                      ELSE seen[r.id]]
  BY <1>1 DEF SeenReport
<1> QED BY <1>1, <1>2, <1>3, <1>4, <1>5, <1>6, <1>15, <1>16

\* What an answer tells still holds when the message at the head was taken.
LEMMA TellMoves ==
  ASSUME NEW j \in Nat, NEW id, NEW told, Tell(told, id, j + 1),
         \A k \in 1..(j - 1) : /\ k + 1 \in 1..(j + 1 - 1) /\ downlink'[k] = downlink[k + 1]
                               /\ IsReportOf(k, id)' <=> IsReportOf(k + 1, id)
  PROVE  \A k \in 1..(j - 1) : IsReportOf(k, id)' => downlink'[k].report.eventSeq <= told
<1>1. \A h \in 1..(j + 1 - 1) : IsReportOf(h, id) => downlink[h].report.eventSeq <= told
  BY DEF Tell
<1> SUFFICES ASSUME NEW k \in 1..(j - 1), IsReportOf(k, id)'
             PROVE  downlink'[k].report.eventSeq <= told
  OBVIOUS
<1>2. k + 1 \in 1..(j + 1 - 1) /\ downlink'[k] = downlink[k + 1] /\ IsReportOf(k + 1, id)
  OBVIOUS
<1>3. downlink[k + 1].report.eventSeq <= told
  BY <1>1, <1>2
<1> QED BY <1>2, <1>3

LEMMA ReceiveReportKeepsLoss ==
  ASSUME Inv, Inv', LossInv, ReceiveReport
  PROVE  LossInv'
<1>1. PICK r \in WireReport :
           /\ downlink # << >> /\ downlink' = Tail(downlink) /\ 1 \in DOMAIN downlink
           /\ link = "open" /\ greeted /\ r.id \in Ids /\ r.eventSeq \in Nat /\ r.eventSeq >= 1
           /\ TrueReport(r) /\ IsReportOf(1, r.id) /\ r = downlink[1].report
           /\ UNCHANGED <<link, greeted, subscribed, buffer, meta, days>>
           /\ seen' = [seen EXCEPT ![r.id] = IF r.eventSeq = seen[r.id] + 1 THEN seen[r.id] + 1
                                             ELSE seen[r.id]]
           /\ store.pending # << >> => store.syncing
           /\ ~store.syncing => /\ asking = 0 /\ DOMAIN uplink = {}
                                /\ \A j \in DOMAIN downlink : ~IsAnswer(j)
           /\ \A i \in DOMAIN uplink : IsQuery(i)
           /\ Taking(r)
  BY ReportTells
<1> DEFINE id == r.id
           n == r.eventSeq
           P == Numbers(store.pending, id)
           S == Sent(downlink, id)
           T == Sent(downlink', id)
           B == Numbers(buffer, id)
           known == store.rows[id].eventSeq
<1>2. /\ ~falseHole /\ FlowInv /\ SeenInv /\ AskInv /\ Tells /\ Split /\ Level /\ Whole
  BY DEF LossInv
<1>3. /\ link' = link /\ greeted' = greeted /\ subscribed' = subscribed /\ buffer' = buffer
      /\ meta' = meta /\ days' = days /\ Today' = Today /\ Days' = Days
  BY <1>1 DEF Today, Days
<1>4. /\ store.rows \in [Ids -> Row] /\ store.pending \in Seq(WireReport) /\ store.syncing \in BOOLEAN
      /\ store'.syncing \in BOOLEAN
      /\ P \in SUBSET Nat /\ S \in SUBSET Nat /\ B \in SUBSET Nat /\ T \in SUBSET Nat
      /\ known \in Nat /\ Len(days[Today][id]) \in Nat /\ n \in Nat /\ n >= 1 /\ id \in Ids
      /\ seen \in [Ids -> Nat] /\ \A i \in Ids : store.rows[i].eventSeq \in Nat
  <2>1. T \in SUBSET Nat /\ store'.syncing \in BOOLEAN
    <3>1. downlink' \in Seq(Message) /\ store' \in Store
      BY DEF Inv, WireInv, PageInv
    <3> QED BY <3>1, SentAre DEF Store
  <2> QED BY <1>1, <1>2, <2>1, Shapes, Sets DEF SeenInv
<1>5. /\ S = T \cup {n} /\ \A m \in T : n < m
      /\ \A i : i # id => Sent(downlink', i) = Sent(downlink, i)
      /\ RisingSent(downlink')
  <2>1. RisingSent(downlink) /\ downlink \in Seq(Message) /\ downlink[1].kind = "report"
    BY <1>1, <1>2, Shapes DEF FlowInv, IsReportOf
  <2> QED BY <1>1, <2>1, SentShrink
<1>6. OneFlow(P, T \cup {n}, B, Len(days[Today][id]), meta[id] # 0, subscribed)
  BY <1>1, <1>2, <1>5 DEF FlowInv
<1>7. \/ store'.pending = store.pending /\ Numbers(store'.pending, id) \subseteq P \cup {n}
      \/ /\ store'.pending = Append(store.pending, r) /\ store'.syncing
         /\ Numbers(store'.pending, id) = P \cup {n}
         /\ \A i : i # id => Numbers(store'.pending, i) = Numbers(store.pending, i)
  <2>1. Numbers(Append(store.pending, r), id) = P \cup {n}
        /\ \A i : i # id => Numbers(Append(store.pending, r), i) = Numbers(store.pending, i)
    BY <1>4, NumbersGrow
  <2>2. (store'.pending = Append(store.pending, r) /\ store'.syncing) \/ store'.pending = store.pending
    BY <1>1 DEF Taking
  <2> QED BY <2>1, <2>2
<1>8. \A i \in Ids : i # id => /\ Numbers(store'.pending, i) = Numbers(store.pending, i)
                               /\ store'.rows[i] = store.rows[i] /\ seen'[i] = seen[i]
  <2>1. \A i \in Ids : i # id => store'.rows[i] = store.rows[i]
    BY <1>1, <1>4 DEF Taking
  <2> QED BY <1>1, <1>4, <1>7, <2>1
<1>9. seen'[id] = IF n = seen[id] + 1 THEN seen[id] + 1 ELSE seen[id]
  BY <1>1, <1>4
<1>10. FlowInv'
  <2>1. Rising(store'.pending)
    <3>1. Rising(store.pending)
      BY <1>2 DEF FlowInv
    <3>2. \A m \in P : m < n
      BY <1>6 DEF OneFlow, Above
    <3>3. Rising(Append(store.pending, r))
      BY <1>4, <3>1, <3>2, NumbersGrow
    <3> QED BY <1>7, <3>1, <3>3
  <2>2. OneFlow(P \cup {n}, T, B, Len(days[Today][id]), meta[id] # 0, subscribed)
    <3> HIDE DEF P, T, B, n, id
    <3> QED BY <1>4, <1>5, <1>6, FlowArrives
  <2>3. OneFlow(Numbers(store'.pending, id), T, B, Len(days[Today][id]), meta[id] # 0, subscribed)
    <3>1. Numbers(store'.pending, id) \subseteq P \cup {n}
      BY <1>7
    <3> HIDE DEF P, T, B, n, id
    <3> QED BY <2>2, <3>1, FlowForgets
  <2>4. ASSUME NEW i \in Ids
        PROVE  OneFlow(Numbers(store'.pending, i), Sent(downlink', i), Numbers(buffer, i),
                       Len(days[Today][i]), meta[i] # 0, subscribed)
    <3>1. CASE i = id
      BY <2>3, <3>1
    <3>2. CASE i # id
      BY <1>2, <1>5, <1>8, <3>2 DEF FlowInv
    <3> QED BY <3>1, <3>2
  <2> QED BY <1>2, <1>3, <1>5, <2>1, <2>4 DEF FlowInv
<1>11. SeenInv'
  <2>1. ASSUME NEW i \in Ids
        PROVE  \E d \in Days : seen'[i] <= Len(days[d][i])
    <3>1. CASE seen'[i] = seen[i]
      BY <1>2, <3>1 DEF SeenInv
    <3>2. CASE seen'[i] # seen[i]
      <4>1. i = id /\ seen'[i] = n
        BY <1>8, <1>9, <3>2
      <4>2. PICK d \in Days : n \in 1..Len(days[d][id])
        BY <1>1 DEF TrueReport, ReportAt
      <4> QED BY <1>4, <4>1, <4>2
    <3> QED BY <3>1, <3>2
  <2>2. seen' \in [Ids -> Nat]
    BY <1>1, <1>4
  <2> QED BY <1>3, <2>1, <2>2 DEF SeenInv
<1>12. ~store.syncing => \A j \in DOMAIN downlink' : ~IsAnswer(j)'
  BY <1>1, ShiftedWire
<1>13. AskInv'
  <2>1. \A i, j \in DOMAIN downlink' : IsAnswer(i)' /\ IsAnswer(j)' => i = j
    <3> TAKE i, j \in DOMAIN downlink'
    <3>1. IsAnswer(i)' /\ IsAnswer(j)' => i + 1 = j + 1
      BY <1>1, <1>2, ShiftedWire DEF AskInv
    <3>2. i \in Nat /\ j \in Nat
      BY <1>1, ShiftedWire
    <3> QED BY <3>1, <3>2
  <2>2. CASE asking' = asking /\ uplink' = uplink /\ store'.syncing = store.syncing
    <3>1. \A i \in DOMAIN uplink, j \in DOMAIN downlink' : ~(IsQuery(i) /\ IsAnswer(j)')
      BY <1>1, <1>2, ShiftedWire DEF AskInv
    <3>2. asking = 0 => \A j \in DOMAIN downlink' : ~IsAnswer(j)'
      BY <1>1, <1>2, ShiftedWire DEF AskInv
    <3> QED BY <1>1, <1>2, <1>3, <2>1, <2>2, <3>1, <3>2 DEF AskInv, IsQuery
  <2>3. CASE ~store.syncing /\ store'.syncing /\ asking' = 1 /\ uplink' = Append(uplink, "query")
    <3>1. /\ uplink \in Seq({"subscribe", "query"}) /\ DOMAIN uplink = {} /\ "query" \in {"subscribe", "query"}
      BY <1>1, <1>2, <2>3 DEF AskInv
    <3>2. PICK k : k = Len(uplink) + 1
      OBVIOUS
    <3>3. /\ uplink' \in Seq({"subscribe", "query"}) /\ uplink'[k] = "query"
          /\ \A i \in DOMAIN uplink' : i \in DOMAIN uplink \/ i = k
      BY <2>3, <3>1, <3>2, LongerQueue
    <3>4. \A i \in DOMAIN uplink' : i = k /\ IsQuery(i)'
      BY <3>1, <3>3 DEF IsQuery
    <3> QED BY <1>1, <1>3, <1>12, <2>1, <2>3, <3>3, <3>4 DEF AskInv
  <2> QED BY <1>1, <1>4, <2>2, <2>3 DEF Taking
<1>14. ASSUME NEW j \in DOMAIN downlink', IsAnswer(j)'
       PROVE  /\ store.syncing /\ store'.rows = store.rows /\ Numbers(store'.pending, id) = P \cup {n}
              /\ j + 1 \in DOMAIN downlink /\ downlink'[j] = downlink[j + 1] /\ IsAnswer(j + 1)
              /\ j \in Nat /\ j >= 1 /\ 1 \in 1..(j + 1 - 1)
              /\ \A i \in 1..(j - 1) : i \in DOMAIN downlink' /\ i + 1 \in 1..(j + 1 - 1)
  <2>1. store.syncing
    BY <1>12, <1>14
  <2>2. store'.rows = store.rows /\ store'.pending = Append(store.pending, r)
    BY <1>1, <2>1 DEF Taking
  <2>3. Numbers(store'.pending, id) = P \cup {n}
    BY <1>4, <2>2, NumbersGrow
  <2> QED BY <1>1, <1>14, <2>1, <2>2, <2>3, ShiftedWire
<1>15. Tells'
  <2> SUFFICES ASSUME NEW j \in DOMAIN downlink', IsAnswer(j)', NEW i \in Ids,
                      meta[i] # 0 \/ downlink'[j].rows[i] # NoRow
               PROVE  Tell(downlink[j].rows[i].eventSeq, i, j)'
    BY <1>3 DEF Tells
  <2>1. PICK told : told = downlink'[j].rows[i].eventSeq
    OBVIOUS
  <2>2. Tell(told, i, j + 1) /\ told \in Nat
    BY <1>2, <1>14, <2>1, Messages DEF Tells
  <2>3. \A k \in 1..(j - 1) : IsReportOf(k, i)' => downlink'[k].report.eventSeq <= told
    <3>1. \A k \in 1..(j - 1) : /\ k + 1 \in 1..(j + 1 - 1) /\ downlink'[k] = downlink[k + 1]
                                /\ IsReportOf(k, i)' <=> IsReportOf(k + 1, i)
      BY <1>1, ShiftedWire
    <3> QED BY <1>14, <2>2, <3>1, TellMoves
  <2>4. CASE i = id
    <3>1. n <= told
      BY <1>1, <1>14, <2>2, <2>4 DEF Tell
    <3>2. seen'[id] <= told
      BY <1>4, <1>9, <2>2, <2>4, <3>1 DEF Tell
    <3>3. store'.rows[id].eventSeq <= told /\ \A k \in P \cup {n} : k <= told
      BY <1>14, <2>2, <2>4, <3>1 DEF Tell
    <3> QED BY <1>14, <2>1, <2>3, <2>4, <3>2, <3>3 DEF Tell
  <2>5. CASE i # id
    BY <1>8, <2>1, <2>2, <2>3, <2>5 DEF Tell
  <2> QED BY <2>4, <2>5
<1>16. Split'
  <2> SUFFICES ASSUME NEW j \in DOMAIN downlink', IsAnswer(j)', NEW i \in Ids,
                      downlink'[j].rows[i] = NoRow
               PROVE  \/ /\ Numbers(store'.pending, i) = {}
                         /\ \A k \in 1..(j - 1) : ~IsReportOf(k, i)'
                      \/ \A k \in DOMAIN downlink' : k > j => ~IsReportOf(k, i)'
    BY DEF Split
  <2>1. CASE /\ Numbers(store.pending, i) = {}
             /\ \A k \in 1..(j + 1 - 1) : ~IsReportOf(k, i)
    <3>1. i # id
      BY <1>1, <1>14, <2>1
    <3>2. \A k \in 1..(j - 1) : ~IsReportOf(k, i)'
      BY <1>1, <1>14, <2>1, ShiftedWire
    <3> QED BY <1>8, <2>1, <3>1, <3>2
  <2>2. CASE \A k \in DOMAIN downlink : k > j + 1 => ~IsReportOf(k, i)
    <3>1. \A k \in DOMAIN downlink' : /\ k + 1 \in DOMAIN downlink /\ k \in Nat
                                      /\ IsReportOf(k, i)' <=> IsReportOf(k + 1, i)
      BY <1>1, ShiftedWire
    <3>2. \A k \in DOMAIN downlink' : k > j => k + 1 > j + 1
      BY <1>14, <3>1
    <3> QED BY <2>2, <3>1, <3>2
  <2> QED BY <1>2, <1>14, <2>1, <2>2 DEF Split
<1>17. Level'
  <2> SUFFICES ASSUME ~store'.syncing, NEW i \in Ids, store'.rows[i] # NoRow,
                      seen'[i] > store'.rows[i].eventSeq
               PROVE  \/ \E m \in Coming(i)' : m <= store'.rows[i].eventSeq + 1
                      \/ Coming(i)' = {} /\ (meta[i] = 0 \/ ~subscribed)
    BY <1>3 DEF Level, LevelOf
  <2>1. CASE i # id
    <3>1. ~store.syncing
      BY <1>1 DEF Taking
    <3>2. LevelOf(i)
      BY <1>2, <3>1 DEF Level
    <3>3. Coming(i)' = Coming(i)
      BY <1>3, <1>5, <2>1 DEF Coming
    <3> QED BY <1>1, <1>8, <2>1, <3>2, <3>3 DEF LevelOf
  <2>2. CASE i = id
    <3>1. PICK k \in Nat : k = store'.rows[id].eventSeq /\ n <= k
      <4>1. CASE store'.rows = store.rows /\ n <= known
        BY <1>4, <4>1
      <4>2. CASE \E next \in Progress :
                   store'.rows = [store.rows EXCEPT ![r.id] = [progress |-> next, eventSeq |-> r.eventSeq]]
        BY <1>4, <4>2
      <4> QED BY <1>1, <4>1, <4>2 DEF Taking
    <3>2. seen'[id] = seen[id] /\ seen[id] > n /\ seen[id] \in Nat
      BY <1>4, <1>9, <2>2, <3>1
    <3>3. /\ T # {} => n + 1 \in T
          /\ T \cup B # {} => n + 1 \in T \cup B
          /\ meta[id] # 0 /\ subscribed /\ T \cup B = {} => Len(days[Today][id]) = n
      <4> HIDE DEF P, T, B, n, id
      <4>1. PICK PP \in SUBSET Nat, TT \in SUBSET Nat, BB \in SUBSET Nat, nn \in Nat, ll \in Nat :
              PP = P /\ TT = T /\ BB = B /\ nn = n /\ ll = Len(days[Today][id])
        BY <1>4
      <4>2. OneFlow(PP, TT \cup {nn}, BB, ll, meta[id] # 0, subscribed) /\ \A m \in TT : nn < m
        BY <1>5, <1>6, <4>1
      <4>3. /\ TT = {} \/ nn + 1 \in TT
            /\ TT \cup BB = {} \/ nn + 1 \in TT \cup BB
        BY <4>2, GoesOn
      <4>4. meta[id] # 0 /\ subscribed /\ TT \cup BB = {} => ll = nn
        BY <4>2 DEF OneFlow
      <4> QED BY <4>1, <4>3, <4>4
    <3>4. n + 1 <= k + 1
      BY <1>4, <3>1
    <3>5. CASE meta[id] = 0
      <4>1. Coming(id)' = T
        BY <1>3, <3>5 DEF Coming
      <4> QED BY <2>2, <3>1, <3>3, <3>4, <3>5, <4>1
    <3>6. CASE meta[id] # 0
      <4>1. Coming(id)' = T \cup B
        BY <1>3, <3>6 DEF Coming
      <4>2. seen[id] <= Len(days[Today][id])
        BY <1>2, <1>4, <3>6, NothingBeyondToday
      <4>3. ~subscribed \/ T \cup B # {}
        BY <1>4, <3>2, <3>3, <3>6, <4>2
      <4> QED BY <2>2, <3>1, <3>3, <3>4, <4>1, <4>3
    <3> QED BY <3>5, <3>6
  <2> QED BY <2>1, <2>2
<1>18. Whole'
  <2>1. CASE Blocked
    <3>1. store.syncing /\ store.pending # << >>
      BY <1>1, <2>1 DEF Blocked
    <3>2. store'.pending = Append(store.pending, r)
      BY <1>1, <3>1 DEF Taking
    <3>3. store'.pending # << >> /\ store'.pending[1] = store.pending[1]
      BY <1>4, <3>1, <3>2
    <3>4. \A j \in DOMAIN downlink' : IsAnswer(j)' => downlink'[j].rows[store.pending[1].id] = NoRow
      BY <1>1, <2>1, ShiftedWire DEF Blocked
    <3> QED BY <1>3, <2>1, <3>3, <3>4 DEF Whole, Blocked
  <2>2. CASE ~Blocked
    <3>1. ASSUME NEW i \in Ids, meta[i] = 0
          PROVE  NoLoss(Numbers(store'.pending, i), Sent(downlink', i), seen'[i])
      <4>1. NoLoss(Numbers(store.pending, i), Sent(downlink, i), seen[i])
        BY <1>2, <2>2, <3>1 DEF Whole
      <4>2. CASE i # id
        BY <1>5, <1>8, <4>1, <4>2
      <4>3. CASE i = id
        <5>1. CASE Numbers(store'.pending, id) = P \cup {n}
          <6>1. NoLoss(P, T \cup {n}, seen[id])
            BY <1>5, <4>1, <4>3
          <6>2. seen[id] \in Nat
            BY <1>4
          <6>3. NoLoss(P \cup {n}, T, seen'[id])
            <7> HIDE DEF P, T, B, n, id
            <7> QED BY <1>4, <1>5, <1>6, <1>9, <6>1, <6>2, LossArrives
          <6> QED BY <4>3, <5>1, <6>3
        <5>2. CASE store'.pending = store.pending
          <6>1. ~store.syncing \/ store'.pending = Append(store.pending, r)
            BY <1>1 DEF Taking
          <6>2. ~store.syncing
            BY <1>4, <5>2, <6>1
          <6>3. store'.pending = << >>
            BY <1>1, <5>2, <6>2
          <6> QED BY <4>3, <6>3, NothingSent DEF NoLoss
        <5> QED BY <1>7, <5>1, <5>2
      <4> QED BY <4>2, <4>3
    <3> QED BY <1>3, <3>1 DEF Whole
  <2> QED BY <2>1, <2>2
<1>19. ~falseHole'
  <2> SUFFICES ASSUME ~store.syncing, n > known + 1, store.rows[id] # NoRow, n <= seen[id] + 1
               PROVE  FALSE
    BY <1>1 DEF Taking
  <2>1. seen[id] > known
    BY <1>4
  <2>2. LevelOf(id)
    BY <1>2, <1>4 DEF Level
  <2>3. S \subseteq Coming(id) /\ Coming(id) \subseteq S \cup B
    BY DEF Coming
  <2>4. n \in Coming(id)
    BY <1>5, <2>3
  <2>5. PICK m \in Coming(id) : m <= known + 1
    BY <1>1, <2>1, <2>2, <2>4 DEF LevelOf
  <2>6. m >= n
    <3>1. CASE m \in S
      BY <1>4, <1>5, <3>1
    <3>2. CASE m \in B
      <4>1. Above(T \cup {n}, B)
        BY <1>6 DEF OneFlow
      <4>2. n < m
        BY <3>2, <4>1 DEF Above
      <4> QED BY <1>4, <3>2, <4>2
    <3> QED BY <2>3, <3>1, <3>2
  <2>7. m \in Nat
    BY <1>4, <2>3
  <2> QED BY <1>4, <2>5, <2>6, <2>7
<1> QED BY <1>10, <1>11, <1>13, <1>15, <1>16, <1>17, <1>18, <1>19 DEF LossInv

-----------------------------------------------------------------------------
(* The answer arrives *)

LEMMA LargerOf ==
  ASSUME NEW a \in Nat, NEW b \in Nat
  PROVE  Max({a, b}) = IF a > b THEN a ELSE b
<1> DEFINE c == IF a > b THEN a ELSE b
<1>1. c \in {a, b} /\ \A y \in {a, b} : c >= y
  OBVIOUS
<1>2. \E x \in {a, b} : \A y \in {a, b} : x >= y
  BY <1>1
<1>3. Max({a, b}) \in {a, b} /\ \A y \in {a, b} : Max({a, b}) >= y
  <2> HIDE DEF c
  <2> QED BY <1>2 DEF Max
<1>4. Max({a, b}) \in Nat /\ Max({a, b}) >= c /\ c >= Max({a, b})
  BY <1>1, <1>3
<1>5. c \in Nat
  OBVIOUS
<1> HIDE DEF c
<1>6. Max({a, b}) = c
  BY <1>4, <1>5
<1> QED BY <1>6 DEF c

\* The end of a rising queue rises, and numbers nothing new.
LEMMA WaitingFlows ==
  ASSUME NEW q \in Seq(WireReport), NEW p \in Seq(WireReport), Rising(q),
         NEW k \in 1..Len(q), Waiting(p, q, k, Len(q))
  PROVE  /\ Rising(p) /\ p # << >> /\ p[1] = q[k]
         /\ \A id : Numbers(p, id) \subseteq Numbers(q, id)
<1>1. /\ Len(q) \in Nat /\ DOMAIN q = 1..Len(q) /\ k \in Nat /\ k >= 1 /\ k <= Len(q)
      /\ DOMAIN p = 1..Len(p) /\ Len(p) \in Nat
  OBVIOUS
<1>2. /\ Len(p) = Len(q) - k + 1
      /\ \A j \in DOMAIN p : /\ p[j] = q[k + j - 1] /\ k + j - 1 \in DOMAIN q /\ j \in Nat
  <2>1. Len(p) = Len(q) - k + 1 /\ \A j \in 1..(Len(q) - k + 1) : p[j] = q[k + j - 1]
    BY DEF Waiting
  <2>2. ASSUME NEW j \in 1..(Len(q) - k + 1)
        PROVE  k + j - 1 \in 1..Len(q) /\ j \in Nat
    BY <1>1
  <2>3. DOMAIN p = 1..(Len(q) - k + 1)
    BY <1>1, <2>1
  <2> QED BY <1>1, <2>1, <2>2, <2>3
<1>3. Len(p) >= 1 /\ 1 \in DOMAIN p /\ k + 1 - 1 = k
  BY <1>1, <1>2
<1>4. p # << >> /\ p[1] = q[k]
  BY <1>2, <1>3
<1>5. Rising(p)
  <2> SUFFICES ASSUME NEW i \in DOMAIN p, NEW j \in DOMAIN p, i < j, p[i].id = p[j].id
               PROVE  p[i].eventSeq < p[j].eventSeq
    BY DEF Rising
  <2>1. k + i - 1 < k + j - 1
    BY <1>1, <1>2
  <2>2. q[k + i - 1].eventSeq < q[k + j - 1].eventSeq
    BY <1>2, <2>1 DEF Rising
  <2> QED BY <1>2, <2>2
<1>6. ASSUME NEW id, NEW n \in Numbers(p, id)
      PROVE  n \in Numbers(q, id)
  <2>1. PICK i \in DOMAIN p : p[i].id = id /\ p[i].eventSeq = n
    BY <1>6, NumbersAre
  <2>2. PICK j \in DOMAIN q : q[j] = p[i]
    BY <1>2
  <2> QED BY <2>1, <2>2, NumbersAre
<1> QED BY <1>4, <1>5, <1>6

\* What the page knows when it takes the answer.
LEMMA AnswerKnows ==
  ASSUME Inv, Inv', LossInv, ReceiveOrders
  PROVE  \E y \in [Ids -> Row], x \in Store :
           /\ y = downlink[1].rows /\ IsAnswer(1) /\ 1 \in DOMAIN downlink /\ downlink # << >>
           /\ downlink' = Tail(downlink) /\ link = "open" /\ asking >= 1
           /\ UNCHANGED <<link, greeted, subscribed, buffer, meta, days>>
           /\ Answered(x, asking, store.pending, y)
           /\ store'.rows = x.rows /\ store'.pending = x.pending /\ store'.syncing = x.syncing
           /\ x.rows \in [Ids -> Row] /\ x.pending \in Seq(WireReport) /\ x.syncing \in BOOLEAN
           /\ x.holes \in Nat /\ asking' = x.holes
           /\ uplink' = IF x.holes > 0 THEN Append(uplink, "query") ELSE uplink
           /\ falseHole' => FalseAlarm(x, seen')
           /\ DOMAIN uplink = {}
           /\ \A j \in DOMAIN downlink' : ~IsAnswer(j)'
           /\ RisingSent(downlink')
           /\ \A id \in Ids :
                /\ y[id].eventSeq \in Nat /\ x.rows[id].eventSeq \in Nat
                /\ seen[id] \in Nat /\ seen'[id] \in Nat
                /\ TrueRow(y[id], id)
                /\ seen'[id] = IF seen[id] > y[id].eventSeq THEN seen[id] ELSE y[id].eventSeq
                /\ Sent(downlink', id) = Sent(downlink, id)
                /\ meta[id] # 0 \/ y[id] # NoRow =>
                     /\ seen[id] <= y[id].eventSeq
                     /\ \A n \in Numbers(store.pending, id) : n <= y[id].eventSeq
                /\ y[id] # NoRow \/ Numbers(store.pending, id) = {} \/ Sent(downlink, id) = {}
<1>1. PICK y : y = downlink[1].rows
  OBVIOUS
<1>2. /\ ~falseHole /\ FlowInv /\ SeenInv /\ AskInv /\ Tells /\ Split /\ Level /\ Whole
  BY DEF LossInv
<1>3. /\ downlink # << >> /\ downlink' = Tail(downlink) /\ 1 \in DOMAIN downlink
      /\ IsAnswer(1) /\ y \in [Ids -> Row] /\ asking >= 1 /\ link = "open"
      /\ seen' = SeenRows(y)
      /\ UNCHANGED <<link, greeted, subscribed, buffer, meta, days>>
      /\ \E x \in Store :
           /\ Answered(x, asking, store.pending, y)
           /\ store' = Settled(x) /\ asking' = x.holes
           /\ uplink' = IF x.holes > 0 THEN Append(uplink, "query") ELSE uplink
           /\ falseHole' = (falseHole \/ FalseAlarm(x, SeenRows(y)))
  BY <1>1, <1>2, AnswerTells
<1>4. PICK x \in Store :
           /\ Answered(x, asking, store.pending, y)
           /\ store' = Settled(x) /\ asking' = x.holes
           /\ uplink' = IF x.holes > 0 THEN Append(uplink, "query") ELSE uplink
           /\ falseHole' = (falseHole \/ FalseAlarm(x, SeenRows(y)))
  BY <1>3
<1>5. /\ store'.rows = x.rows /\ store'.pending = x.pending /\ store'.syncing = x.syncing
  BY <1>4, SettledFields
<1>6. /\ x.rows \in [Ids -> Row] /\ x.pending \in Seq(WireReport) /\ x.syncing \in BOOLEAN
      /\ x.holes \in Nat
  BY <1>4 DEF Store
<1>7. falseHole' => FalseAlarm(x, seen')
  BY <1>2, <1>3, <1>4
<1>8. DOMAIN uplink = {}
  <2>1. \A i \in DOMAIN uplink : ~IsQuery(i)
    BY <1>2, <1>3 DEF AskInv
  <2> QED BY <1>2, <1>3, <2>1 DEF AskInv
<1>9. \A j \in DOMAIN downlink' : ~IsAnswer(j)'
  <2> TAKE j \in DOMAIN downlink'
  <2>1. j + 1 \in DOMAIN downlink /\ j \in Nat /\ j >= 1 /\ (IsAnswer(j)' <=> IsAnswer(j + 1))
    BY <1>3, ShiftedWire
  <2>2. IsAnswer(j + 1) => j + 1 = 1
    BY <1>2, <1>3, <2>1 DEF AskInv
  <2> QED BY <2>1, <2>2
<1>10. RisingSent(downlink') /\ \A id : Sent(downlink', id) = Sent(downlink, id)
  <2>1. downlink[1].kind # "report"
    BY <1>3 DEF IsAnswer
  <2>2. RisingSent(downlink) /\ downlink \in Seq(Message)
    BY <1>2, Shapes DEF FlowInv
  <2> QED BY <1>3, <2>1, <2>2, SentShrink
<1>11. ASSUME NEW id \in Ids
       PROVE  /\ y[id].eventSeq \in Nat /\ x.rows[id].eventSeq \in Nat
              /\ seen[id] \in Nat /\ seen'[id] \in Nat
              /\ TrueRow(y[id], id)
              /\ seen'[id] = IF seen[id] > y[id].eventSeq THEN seen[id] ELSE y[id].eventSeq
              /\ meta[id] # 0 \/ y[id] # NoRow =>
                   /\ seen[id] <= y[id].eventSeq
                   /\ \A n \in Numbers(store.pending, id) : n <= y[id].eventSeq
              /\ y[id] # NoRow \/ Numbers(store.pending, id) = {} \/ Sent(downlink, id) = {}
  <2>1. y[id].eventSeq \in Nat /\ TrueRow(y[id], id)
    BY <1>1, <1>3, Messages
  <2>2. x.rows[id].eventSeq \in Nat /\ seen[id] \in Nat
    BY <1>2, <1>6 DEF Row, SeenInv
  <2>3. seen'[id] = IF seen[id] > y[id].eventSeq THEN seen[id] ELSE y[id].eventSeq
    BY <1>3, <2>1, <2>2, LargerOf DEF SeenRows
  <2>4. meta[id] # 0 \/ y[id] # NoRow => Tell(y[id].eventSeq, id, 1)
    BY <1>1, <1>2, <1>3 DEF Tells
  <2>5. meta[id] # 0 \/ y[id] # NoRow =>
                   /\ seen[id] <= y[id].eventSeq
                   /\ \A n \in Numbers(store.pending, id) : n <= y[id].eventSeq
    BY <2>4 DEF Tell
  <2>6. ASSUME y[id] = NoRow, Numbers(store.pending, id) # {}
        PROVE  Sent(downlink, id) = {}
    <3>1. \A i \in DOMAIN downlink : i > 1 => ~IsReportOf(i, id)
      BY <1>1, <1>2, <1>3, <2>6 DEF Split
    <3>2. ~IsReportOf(1, id)
      BY <1>3 DEF IsAnswer, IsReportOf
    <3>3. \A i \in DOMAIN downlink : i = 1 \/ i > 1
      BY Shapes
    <3>4. \A i \in DOMAIN downlink : ~IsReportOf(i, id)
      BY <3>1, <3>2, <3>3
    <3> QED BY <3>4 DEF Sent, IsReportOf
  <2> QED BY <2>1, <2>2, <2>3, <2>5, <2>6
<1> QED BY <1>1, <1>3, <1>4, <1>5, <1>6, <1>7, <1>8, <1>9, <1>10, <1>11
LEMMA ReceiveOrdersKeepsLoss ==
  ASSUME Inv, Inv', LossInv, ReceiveOrders
  PROVE  LossInv'
<1>1. PICK y \in [Ids -> Row], x \in Store :
           /\ y = downlink[1].rows /\ IsAnswer(1) /\ 1 \in DOMAIN downlink /\ downlink # << >>
           /\ downlink' = Tail(downlink) /\ link = "open" /\ asking >= 1
           /\ UNCHANGED <<link, greeted, subscribed, buffer, meta, days>>
           /\ Answered(x, asking, store.pending, y)
           /\ store'.rows = x.rows /\ store'.pending = x.pending /\ store'.syncing = x.syncing
           /\ x.rows \in [Ids -> Row] /\ x.pending \in Seq(WireReport) /\ x.syncing \in BOOLEAN
           /\ x.holes \in Nat /\ asking' = x.holes
           /\ uplink' = IF x.holes > 0 THEN Append(uplink, "query") ELSE uplink
           /\ falseHole' => FalseAlarm(x, seen')
           /\ DOMAIN uplink = {}
           /\ \A j \in DOMAIN downlink' : ~IsAnswer(j)'
           /\ RisingSent(downlink')
           /\ \A id \in Ids :
                /\ y[id].eventSeq \in Nat /\ x.rows[id].eventSeq \in Nat
                /\ seen[id] \in Nat /\ seen'[id] \in Nat
                /\ TrueRow(y[id], id)
                /\ seen'[id] = IF seen[id] > y[id].eventSeq THEN seen[id] ELSE y[id].eventSeq
                /\ Sent(downlink', id) = Sent(downlink, id)
                /\ meta[id] # 0 \/ y[id] # NoRow =>
                     /\ seen[id] <= y[id].eventSeq
                     /\ \A n \in Numbers(store.pending, id) : n <= y[id].eventSeq
                /\ y[id] # NoRow \/ Numbers(store.pending, id) = {} \/ Sent(downlink, id) = {}
  BY AnswerKnows
<1>2. /\ ~falseHole /\ FlowInv /\ SeenInv /\ AskInv /\ Tells /\ Split /\ Level /\ Whole
  BY DEF LossInv
<1>3. /\ link' = link /\ greeted' = greeted /\ subscribed' = subscribed /\ buffer' = buffer
      /\ meta' = meta /\ days' = days /\ Today' = Today /\ Days' = Days
  BY <1>1 DEF Today, Days
<1>4. PICK q \in Seq(WireReport) : q = store.pending
  BY Shapes
<1>5. /\ \A i \in DOMAIN q : q[i].id \in Ids /\ q[i].eventSeq \in Nat
      /\ \A i \in DOMAIN q : q[i].eventSeq \in Numbers(q, q[i].id)
      /\ DOMAIN q = 1..Len(q) /\ Len(q) \in Nat /\ Rising(q)
  <2>1. \A i \in DOMAIN q : q[i] \in WireReport /\ q[i].eventSeq \in Numbers(q, q[i].id)
    BY NumbersAre
  <2> QED BY <1>2, <1>4, <2>1 DEF WireReport, FlowInv
<1>6. /\ \A id \in Ids : /\ x.rows[id].eventSeq >= y[id].eventSeq
                         /\ x.rows[id] = y[id] \/ x.rows[id].eventSeq \in Numbers(q, id)
      /\ ~x.syncing => x.holes = 0 /\ x.pending = << >>
      /\ x.syncing => x.holes >= 1
      /\ HeadHole(q, y) => x.syncing /\ x.rows = y
  BY <1>1, <1>4 DEF Answered, Brought
\* What is left starts with a hole, of an order of a day before.
<1>7. ASSUME x.syncing
      PROVE  \E k \in 1..Len(q) :
               /\ Waiting(x.pending, q, k, Len(q))
               /\ q[k].eventSeq > x.rows[q[k].id].eventSeq + 1
               /\ x.rows = y \/ HoleAt(x.rows, q, k)
               /\ meta[q[k].id] = 0 /\ y[q[k].id] = NoRow
  <2>1. PICK k \in 1..Len(q) :
               /\ Waiting(x.pending, q, k, Len(q))
               /\ q[k].eventSeq > x.rows[q[k].id].eventSeq + 1
               /\ x.rows = y \/ HoleAt(x.rows, q, k)
    BY <1>1, <1>4, <1>7 DEF Answered
  <2>2. q[k].id \in Ids /\ q[k].eventSeq \in Nat /\ q[k].eventSeq \in Numbers(q, q[k].id)
    BY <1>5
  <2>3. ~(q[k].eventSeq <= y[q[k].id].eventSeq)
    BY <1>1, <1>6, <2>1, <2>2
  <2>4. meta[q[k].id] = 0 /\ y[q[k].id] = NoRow
    BY <1>1, <1>4, <2>2, <2>3
  <2> QED BY <2>1, <2>4
<1>8. /\ Rising(x.pending) /\ \A id : Numbers(x.pending, id) \subseteq Numbers(q, id)
  <2>1. CASE x.syncing
    BY <1>1, <1>5, <1>7, <2>1, WaitingFlows
  <2>2. CASE ~x.syncing
    BY <1>6, <2>2, NothingSent
  <2> QED BY <1>1, <2>1, <2>2
<1>9. FlowInv'
  <2>1. ASSUME NEW id \in Ids
        PROVE  OneFlow(Numbers(x.pending, id), Sent(downlink, id), Numbers(buffer, id),
                       Len(days[Today][id]), meta[id] # 0, subscribed)
    <3>1. OneFlow(Numbers(q, id), Sent(downlink, id), Numbers(buffer, id),
                       Len(days[Today][id]), meta[id] # 0, subscribed)
      BY <1>2, <1>4 DEF FlowInv
    <3> QED BY <1>8, <3>1, FlowForgets
  <2> QED BY <1>1, <1>2, <1>3, <1>8, <2>1 DEF FlowInv
<1>10. SeenInv'
  <2>1. ASSUME NEW id \in Ids
        PROVE  \E d \in Days : seen'[id] <= Len(days[d][id])
    <3>1. CASE seen'[id] = seen[id]
      BY <1>2, <3>1 DEF SeenInv
    <3>2. CASE seen'[id] # seen[id]
      <4>1. seen'[id] = y[id].eventSeq /\ y[id].eventSeq > seen[id]
        BY <1>1, <3>2
      <4>2. y[id] # NoRow
        BY <1>1, <4>1 DEF NoRow
      <4>3. PICK d \in Days : y[id].eventSeq \in 1..Len(days[d][id])
        BY <1>1, <4>2 DEF TrueRow, RowAt
      <4>4. Len(days[d][id]) \in Nat
        BY Shapes
      <4> QED BY <1>1, <4>1, <4>3, <4>4
    <3> QED BY <3>1, <3>2
  <2>2. seen' \in [Ids -> Nat]
    <3>1. seen' = SeenRows(y)
      BY <1>1, <1>2, AnswerTells
    <3>2. \A id \in Ids : seen'[id] \in Nat
      BY <1>1
    <3> QED BY <3>1, <3>2 DEF SeenRows
  <2> QED BY <1>3, <2>1, <2>2 DEF SeenInv

<1>11. AskInv'
  <2>1. CASE x.holes > 0
    <3>1. x.syncing /\ asking' >= 1 /\ uplink' = Append(uplink, "query")
      BY <1>1, <1>6, <2>1
    <3>2. /\ uplink \in Seq({"subscribe", "query"}) /\ "query" \in {"subscribe", "query"}
      BY <1>2 DEF AskInv
    <3>3. PICK k : k = Len(uplink) + 1
      OBVIOUS
    <3>4. /\ uplink' \in Seq({"subscribe", "query"}) /\ uplink'[k] = "query"
          /\ \A i \in DOMAIN uplink' : i \in DOMAIN uplink \/ i = k
      BY <3>1, <3>2, <3>3, LongerQueue
    <3>5. \A i \in DOMAIN uplink' : i = k /\ IsQuery(i)'
      BY <1>1, <3>4 DEF IsQuery
    <3>6. greeted
      BY <1>1, <1>2 DEF AskInv
    <3> QED BY <1>1, <1>3, <3>1, <3>4, <3>5, <3>6 DEF AskInv
  <2>2. CASE ~(x.holes > 0)
    <3>1. ~x.syncing /\ asking' = 0 /\ uplink' = uplink
      BY <1>1, <1>6, <2>2
    <3>2. greeted
      BY <1>1, <1>2 DEF AskInv
    <3> QED BY <1>1, <1>2, <1>3, <3>1, <3>2 DEF AskInv
  <2> QED BY <2>1, <2>2
<1>12. Tells' /\ Split'
  BY <1>1 DEF Tells, Split
\* A row that the answer brings is level; one without it has nothing to come.
<1>13. Level'
  <2> SUFFICES ASSUME ~x.syncing, NEW id \in Ids, x.rows[id] # NoRow,
                      seen'[id] > x.rows[id].eventSeq
               PROVE  Coming(id)' = {} /\ meta[id] = 0
    BY <1>1, <1>3 DEF Level, LevelOf
  <2>1. ~(seen'[id] <= y[id].eventSeq) /\ x.rows[id].eventSeq >= y[id].eventSeq
    BY <1>1, <1>6
  <2>2. meta[id] = 0 /\ y[id] = NoRow
    BY <1>1, <2>1
  <2>3. Numbers(q, id) # {}
    BY <1>6, <2>2
  <2>4. Sent(downlink', id) = {}
    BY <1>1, <1>4, <2>2, <2>3
  <2> QED BY <1>3, <2>2, <2>4 DEF Coming
<1>14. Whole'
  <2>1. CASE x.syncing
    <3>1. PICK k \in 1..Len(q) :
               /\ Waiting(x.pending, q, k, Len(q))
               /\ q[k].eventSeq > x.rows[q[k].id].eventSeq + 1
               /\ meta[q[k].id] = 0
      BY <1>7, <2>1
    <3>2. x.pending # << >> /\ x.pending[1] = q[k]
      BY <1>1, <1>5, <3>1, WaitingFlows
    <3>3. q[k].id \in Ids /\ q[k].eventSeq \in Nat
      BY <1>5
    <3>4. x.rows[q[k].id].eventSeq \in Nat
      BY <1>1, <3>3
    <3>5. q[k].eventSeq >= 2
      BY <3>1, <3>3, <3>4
    <3> QED BY <1>1, <1>3, <3>1, <3>2, <3>5 DEF Whole, Blocked
  <2>2. CASE ~x.syncing
    <3>1. store'.pending = << >>
      BY <1>1, <1>6, <2>2
    <3>2. \A id : Numbers(store'.pending, id) = {}
      BY <3>1, NothingSent
    <3> QED BY <3>2 DEF Whole, NoLoss
  <2> QED BY <1>1, <2>1, <2>2
<1>15. ~falseHole'
  <2> SUFFICES ASSUME FalseAlarm(x, seen')
               PROVE  FALSE
    BY <1>1
  <2>1. x.syncing
    BY <1>6 DEF FalseAlarm
  <2>2. PICK k \in 1..Len(q) :
               /\ Waiting(x.pending, q, k, Len(q))
               /\ q[k].eventSeq > x.rows[q[k].id].eventSeq + 1
               /\ x.rows = y \/ HoleAt(x.rows, q, k)
               /\ meta[q[k].id] = 0 /\ y[q[k].id] = NoRow
    BY <1>7, <2>1
  <2>3. PICK id \in Ids : id = q[k].id
    BY <1>5
  <2>4. PICK n \in Nat : n = q[k].eventSeq
    BY <1>5
  <2>5. n \in Numbers(q, id)
    BY <1>5, <2>3, <2>4
  <2>6. x.rows[id] # NoRow /\ n <= seen'[id] + 1
    <3>1. x.pending # << >> /\ x.pending[1] = q[k]
      BY <1>1, <1>5, <2>2, WaitingFlows
    <3>2. Head(x.pending) = q[k]
      BY <1>1, <3>1
    <3> QED BY <2>3, <2>4, <3>2 DEF FalseAlarm
  <2>7. y[id].eventSeq = 0
    BY <2>2, <2>3 DEF NoRow
  <2>8. seen'[id] = seen[id]
    BY <1>1, <2>7
  <2>9. x.rows # y
    BY <2>2, <2>3, <2>6
  <2>10. PICK m \in Nat : m = x.rows[id].eventSeq
    BY <1>1
  <2>11. m \in Numbers(q, id) /\ m + 1 < n /\ n <= seen[id] + 1
    BY <1>1, <1>6, <2>2, <2>3, <2>4, <2>6, <2>8, <2>10
  <2>12. Sent(downlink, id) = {}
    BY <1>1, <1>4, <2>2, <2>3, <2>5
  <2>13. ~Blocked
    <3> SUFFICES ASSUME Blocked
                 PROVE  FALSE
      OBVIOUS
    <3>1. q # << >> /\ q[1].eventSeq >= 2 /\ y[q[1].id] = NoRow
      BY <1>1, <1>4 DEF Blocked
    <3>2. HeadHole(q, y)
      <4>1. 1 \in DOMAIN q
        BY <1>5, <3>1
      <4>2. q[1].eventSeq \in Nat /\ y[q[1].id].eventSeq = 0
        BY <1>5, <3>1, <4>1 DEF NoRow
      <4> QED BY <3>1, <4>2 DEF HeadHole
    <3> QED BY <1>6, <2>9, <3>2
  <2>14. NoLoss(Numbers(q, id), {}, seen[id])
    BY <1>2, <1>4, <2>2, <2>3, <2>12, <2>13 DEF Whole
  <2>15. m + 1 \in Numbers(q, id)
    BY <2>5, <2>11, <2>14 DEF NoLoss
  <2>16. PICK j \in DOMAIN q : q[j].id = id /\ q[j].eventSeq = m + 1
    BY <2>15, NumbersAre
  <2>17. j \in 1..(k - 1)
    <3>1. j < k \/ j = k \/ k < j
      BY <1>5
    <3>2. k < j => n < m + 1
      BY <1>5, <2>3, <2>4, <2>16 DEF Rising
    <3>3. j = k => n = m + 1
      BY <2>4, <2>16
    <3>4. j < k
      BY <2>11, <3>1, <3>2, <3>3
    <3> QED BY <1>5, <3>4
  <2>18. q[j].eventSeq <= x.rows[q[j].id].eventSeq
    BY <2>2, <2>9, <2>17 DEF HoleAt
  <2> QED BY <2>10, <2>16, <2>18
<1> QED BY <1>9, <1>10, <1>11, <1>12, <1>13, <1>14, <1>15 DEF LossInv

-----------------------------------------------------------------------------
(* A hole proves loss *)

LEMMA LossInit ==
  ASSUME Init
  PROVE  LossInv
<1>1. /\ link = "down" /\ greeted = FALSE /\ uplink = << >> /\ subscribed = FALSE
      /\ buffer = << >> /\ downlink = << >> /\ asking = 0 /\ store = EmptyStore
      /\ seen = [id \in Ids |-> 0] /\ falseHole = FALSE
      /\ days = <<[id \in Ids |-> << >>]>> /\ meta = [id \in Ids |-> 0]
  BY DEF Init
<1>2. store.rows = NoRows /\ store.pending = << >> /\ ~store.syncing
  BY <1>1 DEF EmptyStore
<1>3. Inv
  BY InitOK
<1>4. Today \in Days /\ \A id \in Ids : Len(days[Today][id]) \in Nat
  BY <1>3, Shapes
<1>5. FlowInv
  <2>1. \A id \in Ids : OneFlow({}, {}, {}, Len(days[Today][id]), meta[id] # 0, FALSE)
    BY DEF OneFlow, Above, NoGap
  <2> QED BY <1>1, <1>2, <2>1, NothingSent DEF FlowInv
<1>6. SeenInv
  BY <1>1, <1>4 DEF SeenInv
<1>7. AskInv
  <2>1. << >> \in Seq({"subscribe", "query"}) /\ DOMAIN uplink = {} /\ DOMAIN downlink = {}
    BY <1>1
  <2> QED BY <1>1, <1>2, <2>1 DEF AskInv
<1>8. Tells /\ Split
  BY <1>1 DEF Tells, Split
<1>9. Level
  BY <1>1 DEF Level, LevelOf
<1>10. Whole
  BY <1>2, NothingSent DEF Whole, NoLoss
<1> QED BY <1>1, <1>5, <1>6, <1>7, <1>8, <1>9, <1>10 DEF LossInv

LEMMA LossKeeps ==
  ASSUME Inv, LossInv, mixes = 0, mixes' = 0, [Next]_vars
  PROVE  LossInv'
<1>0. Inv'
  BY NextKeeps
<1>1. CASE \E id \in Ids, qty \in OrderQtys : Submit(id, qty)
  BY <1>0, <1>1, Unmixed, SubmitKeepsLoss
<1>2. CASE PublishDeferred
  BY <1>0, <1>2, PublishDeferredKeepsLoss
<1>3. CASE TickSome
  BY <1>0, <1>3, TickKeepsLoss DEF TickSome
<1>4. CASE Reseed
  BY <1>0, <1>4, ReseedKeepsLoss
<1>5. CASE Drop
  BY <1>0, <1>5, DropKeepsLoss
<1>6. CASE Restart
  BY <1>0, <1>6, RestartKeepsLoss
<1>7. CASE Connect
  BY <1>0, <1>7, ConnectKeepsLoss
<1>8. CASE Served
  BY <1>0, <1>8, ServeSubscriptionKeepsLoss, ServeQueryKeepsLoss, SendReportKeepsLoss DEF Served
<1>9. CASE Received
  BY <1>0, <1>9, ReceiveReportKeepsLoss, ReceiveOrdersKeepsLoss, ReceiveErrorKeepsLoss DEF Received
<1>10. CASE RetryFires
  BY <1>10 DEF RetryFires, Inv, PageInv
<1>11. CASE Flush
  BY <1>0, <1>11, FlushKeepsLoss
<1>12. CASE UNCHANGED vars
  BY <1>12, NothingMovesLoss
<1> QED BY <1>1, <1>2, <1>3, <1>4, <1>5, <1>6, <1>7, <1>8, <1>9, <1>10, <1>11, <1>12 DEF Next

LossUnlessMixed == mixes \in Nat /\ (mixes = 0 => Inv /\ LossInv)

\* For any of them: a hole that an order on the page declares is one.  As long as no
\* id was used again while something of its last use was left, no row asks for a
\* resync over a report when all events of its order before that one have reached
\* the page, whatever was lost, reseeded or restarted before (orders.ts: "a hole
\* proves loss").
THEOREM HolesProveLosses == Spec => []HolesAreLosses
<1>1. Init => LossUnlessMixed
  <2> SUFFICES ASSUME Init PROVE LossUnlessMixed
    OBVIOUS
  <2>1. mixes \in Nat
    BY DEF Init
  <2> QED BY <2>1, InitOK, LossInit DEF LossUnlessMixed
<1>2. LossUnlessMixed /\ [Next]_vars => LossUnlessMixed'
  BY NextKeeps, LossKeeps, MixesGrow DEF LossUnlessMixed
<1>3. LossUnlessMixed => HolesAreLosses
  BY DEF LossUnlessMixed, LossInv, HolesAreLosses
<1> QED BY <1>1, <1>2, <1>3, PTL DEF Spec
=============================================================================
