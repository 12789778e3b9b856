----------------------------- MODULE BookProofs -----------------------------
(***************************************************************************)
(* The two books: of orders and of money.                                  *)
(*                                                                         *)
(* What the order grammar guarantees for orders of any size and reports    *)
(* with any quantities: the fold of applyReport implements OrderLife as    *)
(* long as no report carries a negative leavesQty, and what OrderLife      *)
(* promises of one step it promises of any number of them.  What the       *)
(* blotter's grid shows of that book, for any book and any queue.          *)
(*                                                                         *)
(* That the ledger's average-cost accounting, for any trades at any        *)
(* prices, loses and invents no money, and that a page to which nothing is *)
(* on its way shows it, for as long as its subscription lives.             *)
(***************************************************************************)
EXTENDS BlotterGrid, PositionsPage, FiniteSetTheorems, WellFoundedInduction, TLAPS

USE DEF Terminal, Live, OrdStatus, NoOrder, Refused, Progress,
        Life!Terminal, Life!Live, Life!OrdStatus, Life!NoOrder, Life!Progress

\* An accepted report as the fold keeps it.
LEMMA AcceptedIsKept ==
  ASSUME NEW p, NEW n, NEW r \in Report, Accepts(p, r, n)
  PROVE  ApplyReport(p, r, n) =
           [status |-> r.ordStatus, cumQty |-> r.cumQty, leavesQty |-> r.leavesQty]
  BY DEF ApplyReport

\* One accepted report moves a sound order to a sound order that comes later.
LEMMA AcceptedIsLater ==
  ASSUME NEW p, NEW n \in Nat \ {0}, NEW r \in Report,
         Life!Sound(p, n), Accepts(p, r, n), r.leavesQty >= 0
  PROVE  /\ Life!Later(p, ApplyReport(p, r, n), n)
         /\ Life!Sound(ApplyReport(p, r, n), n)
         /\ ApplyReport(p, r, n) # NoOrder
<1> DEFINE q == [status |-> r.ordStatus, cumQty |-> r.cumQty, leavesQty |-> r.leavesQty]
<1>1. ApplyReport(p, r, n) = q  BY AcceptedIsKept
<1>2. /\ r.execType \in ExecType
      /\ r.ordStatus \in OrdStatus
      /\ r.lastQty \in Int /\ r.cumQty \in Int /\ r.leavesQty \in Int
  BY DEF Report
<1>3. q \in Progress /\ q # NoOrder  BY <1>2
<1>4. CASE r.execType = "NEW"
  BY <1>2, <1>3, <1>4, <1>1 DEF Accepts, NextOrdStatus, NewAdds, Life!Later, Life!Sound
<1>5. CASE r.execType = "REJECTED"
  BY <1>2, <1>3, <1>5, <1>1 DEF Accepts, NextOrdStatus, RejectAdds, Life!Later, Life!Sound
<1>6. CASE r.execType = "TRADE"
  BY <1>2, <1>3, <1>6, <1>1 DEF Accepts, NextOrdStatus, TradeAdds, Life!Later, Life!Sound
<1>7. CASE r.execType \in {"CANCELED", "EXPIRED"}
  BY <1>2, <1>3, <1>7, <1>1 DEF Accepts, NextOrdStatus, CloseAdds, Life!Later, Life!Sound
<1> QED  BY <1>2, <1>4, <1>5, <1>6, <1>7 DEF ExecType

\* Later is transitive: several events at once are one step of OrderLife.
LEMMA LaterTransitive ==
  ASSUME NEW p, NEW q, NEW s, NEW n \in Nat,
         Life!Sound(p, n), Life!Later(p, q, n), Life!Later(q, s, n)
  PROVE  Life!Later(p, s, n)
  BY DEF Life!Later, Life!Sound

-----------------------------------------------------------------------------
(* The fold of a whole book *)

\* Every order of the book is sound.
FoldInv ==
  /\ size \in [Ids -> Nat \ {0}]
  /\ progress \in [Ids -> Progress \cup {NoOrder}]
  /\ \A id \in Ids : Life!Sound(progress[id], size[id])

LEMMA FoldInitOK == FoldInit => FoldInv /\ Life!LifeInit
  BY FoldAssumption DEF FoldInit, FoldInv, Life!LifeInit, Life!Sound

LEMMA FoldStep ==
  ASSUME LeavesValues \subseteq Nat, FoldInv, [FoldNext]_foldVars
  PROVE  FoldInv' /\ [Life!LifeNext]_(Life!lifeVars)
<1>1. CASE UNCHANGED foldVars
  BY <1>1 DEF foldVars, FoldInv, Life!lifeVars
<1>2. ASSUME NEW id \in Ids, NEW r \in AnyReport, Fold(id, r)
      PROVE  FoldInv' /\ Life!LifeNext
  <2> DEFINE q == ApplyReport(progress[id], r, size[id])
  <2>1. /\ q # Refused
        /\ progress' = [progress EXCEPT ![id] = q]
        /\ size' = size
    BY <1>2 DEF Fold
  <2>2. r \in Report /\ r.leavesQty >= 0
    <3>1. /\ NoQty..MaxQty \subseteq Int
          /\ 0..(2 * MaxQty) \subseteq Int
          /\ LeavesValues \subseteq Int
          /\ \A n \in LeavesValues : n >= 0
      OBVIOUS
    <3> HIDE DEF OrdStatus
    <3>2. r \in Report  BY <3>1 DEF AnyReport, Report
    <3>3. r.leavesQty \in LeavesValues  BY DEF AnyReport
    <3> QED  BY <3>1, <3>2, <3>3
  <2>3. Accepts(progress[id], r, size[id])
    BY <2>1 DEF ApplyReport
  <2>4. size[id] \in Nat \ {0} /\ Life!Sound(progress[id], size[id])
    BY DEF FoldInv
  <2>5. /\ Life!Later(progress[id], q, size[id])
        /\ Life!Sound(q, size[id])
        /\ q \in Progress
    <3>1. /\ Life!Later(progress[id], q, size[id])
          /\ Life!Sound(q, size[id])
          /\ q # NoOrder
      BY <2>2, <2>3, <2>4, AcceptedIsLater
    <3> QED  BY <3>1 DEF Life!Sound
  <2>6. FoldInv'
    BY <2>1, <2>5 DEF FoldInv
  <2>7. Life!Progresses
    BY <2>1, <2>5 DEF FoldInv, Life!Progresses, Life!Later
  <2> QED  BY <2>6, <2>7 DEF Life!LifeNext
<1> QED  BY <1>1, <1>2 DEF FoldNext

\* Folding any reports with leavesQty >= 0 keeps the promise of OrderLife: the
\* validator of packages/domain/src/orders.ts is complete but for that sign.
THEOREM GrammarKeepsOrderLife ==
  ASSUME LeavesValues \subseteq Nat
  PROVE  FoldSpec => FoldKeepsOrderLife
<1>1. FoldInit => FoldInv /\ Life!LifeInit  BY FoldInitOK
<1>2. FoldInv /\ [FoldNext]_foldVars => FoldInv' /\ [Life!LifeNext]_(Life!lifeVars)
  BY FoldStep
<1> QED  BY <1>1, <1>2, PTL DEF FoldSpec, FoldKeepsOrderLife, Life!LifeSpec

-----------------------------------------------------------------------------
(* The blotter's grid: what the transactions in its queue add up to *)

HIDE DEF Terminal, Live, OrdStatus, NoOrder, Refused, Progress,
         Life!Terminal, Life!Live, Life!OrdStatus, Life!NoOrder, Life!Progress

LEMMA NoOrderIsNone == NoOrder \notin Progress
BY DEF NoOrder, Progress, OrdStatus, Terminal, Live

\* A set of numbers has a least one.
LEMMA LeastNumber ==
  ASSUME NEW S \in SUBSET Nat, S # {}
  PROVE  \E n \in S : \A k \in S : n <= k
<1> DEFINE R == {p \in Nat \X Nat : p[1] < p[2]}
<1>1. IsWellFoundedOn(R, Nat)
  BY NatLessThanWellFounded DEF OpToRel
<1>2. PICK n \in S : \A k \in S : <<k, n>> \notin R
  <2> HIDE DEF R
  <2> QED BY <1>1, WFMin
<1>3. \A k \in S : ~(k < n)
  BY <1>2
<1> QED BY <1>3

\* Positions in the queue have a last one.
LEMMA LastPosition ==
  ASSUME NEW n \in Nat, NEW t \in SUBSET (1..n), t # {}
  PROVE  Max(t) \in t /\ \A i \in t : i <= Max(t)
<1> DEFINE D == {n - i : i \in t}
<1>1. PICK d \in D : \A k \in D : d <= k
  <2>1. D \in SUBSET Nat /\ D # {}
    <3>1. \A i \in t : n - i \in Nat
      OBVIOUS
    <3>2. D # {}
      OBVIOUS
    <3> QED BY <3>1, <3>2
  <2> HIDE DEF D
  <2> QED BY <2>1, LeastNumber
<1>2. PICK i \in t : d = n - i
  OBVIOUS
<1>3. \A j \in t : i >= j
  <2> TAKE j \in t
  <2>1. d <= n - j
    BY <1>1
  <2> QED BY <1>2, <2>1
<1>4. \A x \in t : (\A j \in t : x >= j) => x = i
  BY <1>3
<1> QED BY <1>3 DEF Max

\* Sets of positions are finite.
LEMMA PositionsAreFinite ==
  ASSUME NEW n \in Nat, NEW t \in SUBSET (1..n)
  PROVE  IsFiniteSet(t)
<1>1. IsFiniteSet(1..n)
  BY FS_Interval
<1> QED BY <1>1, FS_Subset

\* What a fold has drawn, set of positions by set of positions.
IsDrawing(f, rows, q, Sets) ==
  f = [t \in Sets |-> IF t = {} THEN rows ELSE Applied(f[t \ {Max(t)}], q[Max(t)])]

\* Sets of positions with no more than k elements.
UpTo(n, k) == {t \in SUBSET (1..n) : Cardinality(t) <= k}

\* One position less is a smaller set.
LEMMA SmallerByOne ==
  ASSUME NEW n \in Nat, NEW t \in SUBSET (1..n), t # {}
  PROVE  /\ t \ {Max(t)} \in SUBSET (1..n)
         /\ Cardinality(t) \in Nat
         /\ Cardinality(t \ {Max(t)}) = Cardinality(t) - 1
<1>1. IsFiniteSet(t)
  BY PositionsAreFinite
<1>2. Cardinality(t) \in Nat
  BY <1>1, FS_CardinalityType
<1>3. Cardinality(t \ {Max(t)}) = Cardinality(t) - 1
  BY <1>1, LastPosition, FS_RemoveElement
<1> QED BY <1>2, <1>3

\* The drawings exist.
LEMMA DrawingsExist ==
  ASSUME NEW n \in Nat, NEW rows, NEW q
  PROVE  \E f : IsDrawing(f, rows, q, SUBSET (1..n))
<1> DEFINE Bad == {k \in Nat : ~ \E f : IsDrawing(f, rows, q, UpTo(n, k))}
<1>1. Bad = {}
  <2>1. SUFFICES ASSUME Bad # {} PROVE FALSE
    OBVIOUS
  <2>2. PICK m \in Bad : \A k \in Bad : m <= k
    <3>1. Bad \subseteq Nat
      OBVIOUS
    <3> HIDE DEF Bad
    <3> QED BY <2>1, <3>1, LeastNumber
  <2>3. m \in Nat /\ ~ \E f : IsDrawing(f, rows, q, UpTo(n, m))
    OBVIOUS
  <2>4. CASE m = 0
    <3>1. \A t \in UpTo(n, 0) : t = {}
      <4>1. SUFFICES ASSUME NEW t \in UpTo(n, 0), t # {} PROVE FALSE
        OBVIOUS
      <4>2. IsFiniteSet(t)
        BY PositionsAreFinite DEF UpTo
      <4> QED BY <4>1, <4>2, FS_EmptySet, FS_CardinalityType DEF UpTo
    <3>2. PICK f : f = [t \in UpTo(n, 0) |-> rows]
      OBVIOUS
    <3>3. IsDrawing(f, rows, q, UpTo(n, 0))
      BY <3>1, <3>2 DEF IsDrawing
    <3> QED BY <2>3, <2>4, <3>3
  <2>5. CASE m # 0
    <3>1. m - 1 \in Nat /\ m - 1 \notin Bad
      <4> HIDE DEF Bad
      <4> QED BY <2>2, <2>3, <2>5
    <3>2. PICK f : IsDrawing(f, rows, q, UpTo(n, m - 1))
      BY <3>1
    <3>3. PICK g : g = [t \in UpTo(n, m) |->
                          IF t = {} THEN rows ELSE Applied(f[t \ {Max(t)}], q[Max(t)])]
      OBVIOUS
    <3>4. ASSUME NEW t \in UpTo(n, m - 1)
          PROVE  t \in UpTo(n, m) /\ g[t] = f[t]
      <4>1. t \in SUBSET (1..n) /\ Cardinality(t) <= m - 1
        BY DEF UpTo
      <4>2. Cardinality(t) \in Nat
        BY <4>1, PositionsAreFinite, FS_CardinalityType
      <4>3. t \in UpTo(n, m)
        BY <2>3, <4>1, <4>2 DEF UpTo
      <4> QED BY <3>2, <3>3, <4>3 DEF IsDrawing
    <3>5. ASSUME NEW t \in UpTo(n, m), t # {}
          PROVE  g[t \ {Max(t)}] = f[t \ {Max(t)}]
      <4>1. t \in SUBSET (1..n) /\ Cardinality(t) <= m
        BY DEF UpTo
      <4>2. t \ {Max(t)} \in UpTo(n, m - 1)
        BY <2>3, <3>5, <4>1, SmallerByOne DEF UpTo
      <4> QED BY <3>4, <4>2
    <3>6. IsDrawing(g, rows, q, UpTo(n, m))
      BY <3>3, <3>5 DEF IsDrawing
    <3> QED BY <2>3, <3>6
  <2> QED BY <2>4, <2>5
<1>2. UpTo(n, n) = SUBSET (1..n)
  <2>1. IsFiniteSet(1..n) /\ Cardinality(1..n) = n
    BY FS_Interval
  <2>2. \A t \in SUBSET (1..n) : Cardinality(t) <= n
    BY <2>1, FS_Subset
  <2> QED BY <2>2 DEF UpTo
<1>3. \E f : IsDrawing(f, rows, q, UpTo(n, n))
  BY <1>1
<1> QED BY <1>2, <1>3

\* A fold from the left is the drawing of all positions.
LEMMA FoldIsDrawing ==
  ASSUME NEW S, NEW q \in Seq(S), NEW rows
  PROVE  \E f : /\ IsDrawing(f, rows, q, SUBSET (1..Len(q)))
               /\ FoldLeft(Applied, rows, q) = f[1..Len(q)]
<1> DEFINE n == Len(q)
           f == CHOOSE f : f = [t \in SUBSET (1..n) |->
                  IF t = {} THEN rows ELSE Applied(f[t \ {Max(t)}], q[Max(t)])]
<1>1. n \in Nat /\ DOMAIN q = 1..n
  OBVIOUS
<1>2. FoldLeft(Applied, rows, q) = f[1..n]
  <2> HIDE DEF n
  <2> QED BY <1>1 DEF FoldLeft, MapThenFoldSet
<1>3. f = [t \in SUBSET (1..n) |->
             IF t = {} THEN rows ELSE Applied(f[t \ {Max(t)}], q[Max(t)])]
  <2>1. PICK g : IsDrawing(g, rows, q, SUBSET (1..n))
    BY <1>1, DrawingsExist
  <2> HIDE DEF n
  <2> QED BY <2>1 DEF IsDrawing
<1>4. IsDrawing(f, rows, q, SUBSET (1..n))
  <2> HIDE DEF f, n
  <2> QED BY <1>3 DEF IsDrawing
<1> HIDE DEF f
<1> QED BY <1>2, <1>4

\* An empty queue draws nothing.
LEMMA NothingDrawn ==
  ASSUME NEW rows
  PROVE  FoldLeft(Applied, rows, << >>) = rows
<1>1. << >> \in Seq({}) /\ Len(<< >>) = 0 /\ 1..0 = {}
  OBVIOUS
<1>2. PICK f : /\ IsDrawing(f, rows, << >>, SUBSET (1..0))
               /\ FoldLeft(Applied, rows, << >>) = f[1..0]
  BY <1>1, FoldIsDrawing
<1> QED BY <1>1, <1>2 DEF IsDrawing

\* One transaction more is applied to what the others have drawn.
LEMMA OneMoreDrawn ==
  ASSUME NEW S, NEW q \in Seq(S), NEW t \in S, NEW rows
  PROVE  FoldLeft(Applied, rows, Append(q, t)) = Applied(FoldLeft(Applied, rows, q), t)
<1> DEFINE n == Len(q)
           longer == Append(q, t)
<1>1. /\ n \in Nat /\ longer \in Seq(S) /\ Len(longer) = n + 1
      /\ longer[n + 1] = t
      /\ \A i \in 1..n : longer[i] = q[i]
  OBVIOUS
<1>2. PICK f : /\ IsDrawing(f, rows, q, SUBSET (1..n))
               /\ FoldLeft(Applied, rows, q) = f[1..n]
  BY FoldIsDrawing
<1>3. PICK g : /\ IsDrawing(g, rows, longer, SUBSET (1..(n + 1)))
               /\ FoldLeft(Applied, rows, longer) = g[1..(n + 1)]
  <2> HIDE DEF longer
  <2> QED BY <1>1, FoldIsDrawing
<1> HIDE DEF n, longer
<1>4. ASSUME NEW k \in 1..(n + 1)
      PROVE  Max(1..k) = k /\ (1..k) \ {k} = 1..(k - 1) /\ 1..k # {}
  <2>1. k \in 1..k /\ k \in Nat
    BY <1>1
  <2>2. Max(1..k) \in 1..k /\ k <= Max(1..k)
    BY <2>1, LastPosition
  <2> QED BY <2>1, <2>2
<1> DEFINE Bad == {k \in Nat : k <= n /\ g[1..k] # f[1..k]}
<1>5. Bad = {}
  <2>1. SUFFICES ASSUME Bad # {} PROVE FALSE
    OBVIOUS
  <2>2. PICK k \in Bad : \A j \in Bad : k <= j
    <3>1. Bad \subseteq Nat
      OBVIOUS
    <3> HIDE DEF Bad
    <3> QED BY <2>1, <3>1, LeastNumber
  <2>3. k \in Nat /\ k <= n /\ g[1..k] # f[1..k]
    OBVIOUS
  <2>4. CASE k = 0
    <3>1. 1..k = {}
      BY <2>4
    <3> QED BY <1>1, <1>2, <1>3, <2>3, <3>1 DEF IsDrawing
  <2>5. CASE k # 0
    <3>1. k - 1 \in Nat /\ k - 1 \notin Bad
      <4> HIDE DEF Bad
      <4> QED BY <2>2, <2>3, <2>5
    <3>2. g[1..(k - 1)] = f[1..(k - 1)]
      BY <1>1, <2>3, <3>1
    <3>3. k \in 1..(n + 1) /\ longer[k] = q[k]
      BY <1>1, <2>3, <2>5
    <3>4. 1..k \in SUBSET (1..n) /\ 1..k \in SUBSET (1..(n + 1))
      BY <1>1, <2>3
    <3>5. Max(1..k) = k /\ (1..k) \ {k} = 1..(k - 1) /\ 1..k # {}
      BY <1>4, <3>3
    <3>6. f[1..k] = Applied(f[1..(k - 1)], q[k])
      BY <1>2, <3>4, <3>5 DEF IsDrawing
    <3>7. g[1..k] = Applied(g[1..(k - 1)], longer[k])
      BY <1>3, <3>4, <3>5 DEF IsDrawing
    <3> QED BY <2>3, <3>2, <3>3, <3>6, <3>7
  <2> QED BY <2>4, <2>5
<1>6. g[1..n] = f[1..n]
  BY <1>1, <1>5
<1>7. g[1..(n + 1)] = Applied(g[1..n], longer[n + 1])
  <2>1. n + 1 \in 1..(n + 1) /\ n + 1 - 1 = n /\ 1..(n + 1) \in SUBSET (1..(n + 1))
    BY <1>1
  <2>2. Max(1..(n + 1)) = n + 1 /\ (1..(n + 1)) \ {n + 1} = 1..n /\ 1..(n + 1) # {}
    <3>1. PICK k \in 1..(n + 1) : k = n + 1
      BY <2>1
    <3>2. Max(1..k) = k /\ (1..k) \ {k} = 1..(k - 1) /\ 1..k # {}
      BY <1>4
    <3>3. k - 1 = n
      BY <1>1, <2>1, <3>1
    <3> QED BY <3>1, <3>2, <3>3
  <2> QED BY <1>3, <2>1, <2>2 DEF IsDrawing
<1> QED BY <1>1, <1>2, <1>3, <1>6, <1>7 DEF longer

-----------------------------------------------------------------------------
(* The grid is the book, later *)

\* What a transaction of the blotter looks like; its rows are orders'.
Transactions ==
  [add : SUBSET Ids, update : SUBSET Ids, remove : SUBSET Ids,
   rows : UNION {[changed -> Progress] : changed \in SUBSET Ids}]

Drawn == FoldLeft(Applied, grid, queue)

\* The store's sets describe its rows: every row is an order's, a row that was
\* touched is there, and one that left had ended.
StoreInv ==
  /\ progress \in [Ids -> Progress \cup {NoOrder}]
  /\ held \subseteq {id \in Ids : progress[id] # NoOrder}
  /\ dirty \subseteq held
  /\ removed \subseteq Ids \ held
  /\ \A id \in removed : progress[id].status \in Terminal

\* A row the queue neither adds nor removes is in the grid if and only if it will
\* be when the queue is drawn: the split that getRowNode() decides stays right.
QueueInv ==
  /\ queue \in Seq(Transactions)
  /\ ~seeded => queue = << >>
  /\ \A id \in Ids \ (Queued("add") \cup Queued("remove")) :
       Drawn[id] = NoOrder <=> grid[id] = NoOrder

GridInv == StoreInv /\ QueueInv /\ GridIsTheBookLate

\* Rows a prune may take.
Retiring == {id \in held : progress[id].status \in Terminal}

LEMMA GridInitOK ==
  ASSUME GridInit
  PROVE  GridInv
<1>1. /\ progress = [id \in Ids |-> NoOrder]
      /\ held = {} /\ dirty = {} /\ removed = {}
      /\ seeded = FALSE /\ queue = << >>
  BY DEF GridInit, FoldInit
<1>2. StoreInv
  BY <1>1 DEF StoreInv
<1>3. Drawn = grid
  BY <1>1, NothingDrawn DEF Drawn
<1>4. QueueInv
  BY <1>1, <1>3 DEF QueueInv
<1> QED BY <1>1, <1>2, <1>4 DEF GridInv, GridIsTheBookLate

\* A report that is folded leaves an order, and the other orders as they were.
LEMMA FoldLeavesAnOrder ==
  ASSUME StoreInv, NEW id \in Ids, NEW r \in AnyReport, Fold(id, r)
  PROVE  /\ progress' \in [Ids -> Progress \cup {NoOrder}]
         /\ progress'[id] \in Progress
         /\ \A other \in Ids \ {id} : progress'[other] = progress[other]
<1> DEFINE next == ApplyReport(progress[id], r, size[id])
<1>1. next # Refused /\ progress' = [progress EXCEPT ![id] = next]
  BY DEF Fold
<1>2. next = [status |-> r.ordStatus, cumQty |-> r.cumQty, leavesQty |-> r.leavesQty]
  BY <1>1 DEF ApplyReport
<1>3. r.ordStatus \in OrdStatus /\ r.cumQty \in Int /\ r.leavesQty \in Int
  <2>1. 0..(2 * MaxQty) \subseteq Int /\ LeavesValues \subseteq Int
    BY FoldAssumption
  <2> QED BY <2>1 DEF AnyReport
<1>4. next \in Progress
  BY <1>2, <1>3 DEF Progress
<1> HIDE DEF next
<1> QED BY <1>1, <1>4 DEF StoreInv

\* A step of the store alone keeps what the grid owes it: rows it touches are
\* dirty, rows it takes are removed.
LEMMA StoreStepKeepsGrid ==
  ASSUME GridInv, StoreInv', UNCHANGED drawnVars,
         \A id \in Ids \ (dirty' \cup removed') :
           Shown(id)' = Shown(id) /\ id \notin dirty \cup removed
  PROVE  GridInv'
<1>1. /\ seeded' = seeded /\ queue' = queue /\ grid' = grid /\ hurried' = hurried
  BY DEF drawnVars
<1>2. Drawn' = Drawn
  BY <1>1 DEF Drawn
<1>3. QueueInv'
  BY <1>1, <1>2 DEF GridInv, QueueInv, Queued
<1>4. GridIsTheBookLate'
  <2>1. SUFFICES ASSUME seeded, NEW id \in Ids \ (dirty' \cup removed' \cup hurried)
                 PROVE  Drawn'[id] = Shown(id)'
    BY <1>1 DEF GridIsTheBookLate, Drawn
  <2>2. Drawn[id] = Shown(id)
    BY <2>1 DEF GridInv, GridIsTheBookLate, Drawn
  <2> QED BY <1>2, <2>1, <2>2
<1> QED BY <1>3, <1>4 DEF GridInv

\* An order that ended accepts no report.
LEMMA EndedTakesNothing ==
  ASSUME NEW id \in Ids, progress[id].status \in Terminal, NEW r \in AnyReport
  PROVE  ~Fold(id, r)
<1> DEFINE prev == progress[id]
<1>1. prev.status # "NONE" /\ prev.status \notin Live
  BY DEF Terminal, Live
<1> HIDE DEF prev
<1>2. NextOrdStatus(prev.status, r.execType, r.leavesQty) = "REFUSED"
  BY <1>1 DEF NextOrdStatus
<1>3. r.ordStatus # "REFUSED"
  BY DEF AnyReport, OrdStatus, Terminal, Live
<1>4. ~Accepts(prev, r, size[id])
  BY <1>2, <1>3 DEF Accepts
<1> QED BY <1>4 DEF Fold, ApplyReport, prev

LEMMA IngestKeepsGrid ==
  ASSUME GridInv, NEW id \in Ids, Ingest(id)
  PROVE  GridInv'
<1>1. /\ held' = held \cup {id} /\ dirty' = dirty \cup {id} /\ removed' = removed
      /\ UNCHANGED drawnVars
  BY DEF Ingest
<1>2. PICK r \in AnyReport : Fold(id, r)
  BY GridAssumption DEF Ingest
<1>3. /\ progress' \in [Ids -> Progress \cup {NoOrder}]
      /\ progress'[id] \in Progress
      /\ \A other \in Ids \ {id} : progress'[other] = progress[other]
  BY <1>2, FoldLeavesAnOrder DEF GridInv
<1>4. StoreInv'
  <2>1. id \notin removed
    BY <1>2, EndedTakesNothing DEF GridInv, StoreInv
  <2> QED BY <1>1, <1>3, <2>1, NoOrderIsNone DEF GridInv, StoreInv
<1>5. \A other \in Ids \ (dirty' \cup removed') :
         Shown(other)' = Shown(other) /\ other \notin dirty \cup removed
  BY <1>1, <1>3 DEF Shown
<1> QED BY <1>1, <1>4, <1>5, StoreStepKeepsGrid

LEMMA SnapshotKeepsGrid ==
  ASSUME GridInv, Snapshot
  PROVE  GridInv'
<1> DEFINE known == {id \in Ids : progress[id] # NoOrder}
<1>1. /\ held' = known /\ dirty' = dirty \cup known /\ removed' = removed \ known
      /\ UNCHANGED <<progress, drawnVars>>
  BY DEF Snapshot
<1>2. StoreInv'
  BY <1>1 DEF GridInv, StoreInv
<1>3. \A id \in Ids \ (dirty' \cup removed') :
         Shown(id)' = Shown(id) /\ id \notin dirty \cup removed
  BY <1>1 DEF GridInv, StoreInv, Shown
<1> QED BY <1>1, <1>2, <1>3, StoreStepKeepsGrid

\* The blotter's mount takes over the whole book, with nothing in the queue.
LEMMA SeedKeepsGrid ==
  ASSUME GridInv, Seed
  PROVE  GridInv'
<1>1. /\ ~seeded /\ seeded' = TRUE
      /\ grid' = [id \in Ids |-> Shown(id)]
      /\ dirty' = {} /\ removed' = {}
      /\ UNCHANGED <<progress, held, queue, hurried>>
  BY DEF Seed
<1>2. queue' = << >>
  BY <1>1 DEF GridInv, QueueInv
<1>3. Drawn' = grid'
  BY <1>2, NothingDrawn DEF Drawn
<1>4. \A id \in Ids : Shown(id)' = Shown(id)
  BY <1>1 DEF Shown
<1>5. StoreInv'
  BY <1>1, <1>4 DEF GridInv, StoreInv
<1>6. QueueInv'
  BY <1>1, <1>2, <1>3 DEF GridInv, QueueInv
<1>7. GridIsTheBookLate'
  BY <1>1, <1>3, <1>4 DEF GridIsTheBookLate, Drawn
<1> QED BY <1>5, <1>6, <1>7 DEF GridInv

\* The grid draws its queue: what it shows is what it was going to show.
LEMMA DrawingKeepsGrid ==
  ASSUME GridInv, GridDraws
  PROVE  GridInv'
<1>1. /\ grid' = Drawn /\ queue' = << >>
      /\ UNCHANGED <<progress, held, dirty, removed, seeded, hurried>>
  BY DEF GridDraws, Drawn, storeVars
<1>2. Drawn' = Drawn
  BY <1>1, NothingDrawn DEF Drawn
<1>3. \A id \in Ids : Shown(id)' = Shown(id)
  BY <1>1 DEF Shown
<1>4. StoreInv'
  BY <1>1 DEF GridInv, StoreInv
<1>5. QueueInv'
  BY <1>1, <1>2 DEF GridInv, QueueInv
<1>6. GridIsTheBookLate'
  BY <1>1, <1>2, <1>3 DEF GridInv, GridIsTheBookLate, Drawn
<1> QED BY <1>4, <1>5, <1>6 DEF GridInv

\* A frame before the blotter has subscribed only prunes.
LEMMA PruningKeepsGrid ==
  ASSUME GridInv, NEW gone \in SUBSET Retiring, ~seeded,
         held' = held \ gone, dirty' = dirty \ gone, removed' = removed \cup gone,
         UNCHANGED <<queue, hurried, progress, size, seeded, grid>>
  PROVE  GridInv'
<1>1. StoreInv'
  BY DEF GridInv, StoreInv, Retiring
<1>2. \A id \in Ids \ (dirty' \cup removed') :
         Shown(id)' = Shown(id) /\ id \notin dirty \cup removed
  BY DEF Shown
<1> QED BY <1>1, <1>2, StoreStepKeepsGrid DEF drawnVars

\* A frame hands over the delta.  A row that changed is new to the grid or it is
\* not, and will be no other when the transaction is drawn unless it was hurried.
LEMMA HandingOverKeepsGrid ==
  ASSUME GridInv, NEW gone \in SUBSET Retiring, seeded,
         held' = held \ gone, dirty' = {}, removed' = {},
         queue' = IF (dirty \ gone) \cup (removed \cup gone) = {} THEN queue
                  ELSE Append(queue, Transaction(dirty \ gone, removed \cup gone)),
         hurried' = hurried \cup ((dirty \ gone) \cap (Queued("add") \cup Queued("remove"))),
         UNCHANGED <<progress, size, seeded, grid>>
  PROVE  GridInv'
<1> DEFINE changed == dirty \ gone
           left == removed \cup gone
           t == Transaction(changed, left)
           waiting == Queued("add") \cup Queued("remove")
<1>1. /\ StoreInv /\ QueueInv
      /\ \A id \in Ids \ (dirty \cup removed \cup hurried) : Drawn[id] = Shown(id)
  BY DEF GridInv, GridIsTheBookLate, Drawn
<1>2. StoreInv'
  BY <1>1 DEF StoreInv, Retiring
<1>3. CASE changed \cup left = {}
  <2>1. queue' = queue /\ dirty = {} /\ removed = {} /\ held' = held
    BY <1>3
  <2>2. hurried' = hurried
    BY <2>1
  <2>3. Drawn' = Drawn /\ Queued("add")' = Queued("add") /\ Queued("remove")' = Queued("remove")
    BY <2>1 DEF Drawn, Queued
  <2>4. \A id \in Ids : Shown(id)' = Shown(id)
    BY <2>1 DEF Shown
  <2>5. QueueInv'
    BY <1>1, <2>1, <2>3 DEF QueueInv
  <2>6. GridIsTheBookLate'
    BY <1>1, <2>1, <2>2, <2>3, <2>4 DEF GridIsTheBookLate, Drawn
  <2> QED BY <1>2, <2>5, <2>6 DEF GridInv
<1>4. CASE changed \cup left # {}
  <2>1. queue' = Append(queue, t)
    BY <1>4
  <2>2. /\ t.add = {id \in changed : grid[id] = NoOrder}
        /\ t.update = changed \ t.add
        /\ t.remove = left
        /\ t.rows = [id \in changed |-> progress[id]]
    BY DEF Transaction
  <2>3. changed \subseteq Ids /\ left \subseteq Ids /\ \A id \in changed : progress[id] \in Progress
    BY <1>1 DEF StoreInv, Retiring
  <2>4. t \in Transactions
    <3>1. t.rows \in [changed -> Progress]
      BY <2>2, <2>3
    <3>2. [changed -> Progress] \in {[c -> Progress] : c \in SUBSET Ids}
      BY <2>3
    <3>3. t.rows \in UNION {[c -> Progress] : c \in SUBSET Ids}
      BY <3>1, <3>2
    <3>4. t.add \in SUBSET Ids /\ t.update \in SUBSET Ids /\ t.remove \in SUBSET Ids
      BY <2>2, <2>3
    <3>5. t = [add |-> t.add, update |-> t.update, remove |-> t.remove, rows |-> t.rows]
      BY DEF Transaction
    <3> HIDE DEF t
    <3> QED BY <3>3, <3>4, <3>5 DEF Transactions
  <2> HIDE DEF t
  <2>5. queue \in Seq(Transactions) /\ queue' \in Seq(Transactions)
    BY <1>1, <2>1, <2>4 DEF QueueInv
  <2>6. Drawn' = Applied(Drawn, t)
    BY <2>1, <2>4, <2>5, OneMoreDrawn DEF Drawn
  <2>7. \A id \in Ids :
          Drawn'[id] = IF id \in t.remove THEN NoOrder
                       ELSE IF id \in t.add \/ (id \in t.update /\ Drawn[id] # NoOrder) THEN t.rows[id]
                       ELSE Drawn[id]
    BY <2>6 DEF Applied
  <2>8. waiting' = waiting \cup t.add \cup t.remove
    <3>1. /\ DOMAIN queue = 1..Len(queue) /\ DOMAIN queue' = 1..(Len(queue) + 1)
          /\ \A i \in 1..Len(queue) : queue'[i] = queue[i]
          /\ queue'[Len(queue) + 1] = t
          /\ Len(queue) \in Nat
      BY <2>1, <2>4, <2>5
    <3> DEFINE n == Len(queue)
    <3>2. 1..(n + 1) = 1..n \cup {n + 1}
      BY <3>1
    <3> HIDE DEF n
    <3>3. Queued("add")' = Queued("add") \cup t.add
      BY <3>1, <3>2 DEF Queued, n
    <3>4. Queued("remove")' = Queued("remove") \cup t.remove
      BY <3>1, <3>2 DEF Queued, n
    <3> QED BY <3>3, <3>4
  <2>9. QueueInv'
    <3>1. ASSUME NEW id \in Ids \ waiting'
          PROVE  Drawn'[id] = NoOrder <=> grid'[id] = NoOrder
      <4>1. id \notin waiting /\ id \notin t.add /\ id \notin t.remove
        BY <2>8
      <4>2. Drawn[id] = NoOrder <=> grid[id] = NoOrder
        BY <1>1, <4>1 DEF QueueInv
      <4>3. CASE id \in t.update /\ Drawn[id] # NoOrder
        <5>1. t.rows[id] # NoOrder
          BY <2>2, <2>3, <4>3, NoOrderIsNone
        <5> QED BY <2>7, <4>1, <4>2, <4>3, <5>1
      <4>4. CASE ~(id \in t.update /\ Drawn[id] # NoOrder)
        BY <2>7, <4>1, <4>2, <4>4
      <4> QED BY <4>3, <4>4
    <3> QED BY <2>5, <3>1 DEF QueueInv
  <2>10. GridIsTheBookLate'
    <3>1. SUFFICES ASSUME NEW id \in Ids \ hurried'
                   PROVE  Drawn'[id] = Shown(id)'
      BY DEF GridIsTheBookLate, Drawn
    <3>2. CASE id \in changed
      <4>1. id \notin waiting /\ id \in held'
        BY <1>1, <3>1, <3>2 DEF StoreInv
      <4>2. id \in t.add \/ (id \in t.update /\ Drawn[id] # NoOrder)
        BY <1>1, <2>2, <3>2, <4>1 DEF QueueInv
      <4>3. id \notin t.remove
        BY <1>1, <2>2, <3>2 DEF StoreInv
      <4>4. Drawn'[id] = progress[id]
        BY <2>2, <2>7, <3>2, <4>2, <4>3
      <4> QED BY <4>1, <4>4 DEF Shown
    <3>3. CASE id \notin changed /\ id \in left
      <4>1. Drawn'[id] = NoOrder
        BY <2>2, <2>7, <3>3
      <4>2. id \notin held'
        BY <1>1, <3>3 DEF StoreInv, Retiring
      <4> QED BY <4>1, <4>2 DEF Shown
    <3>4. CASE id \notin changed /\ id \notin left
      <4>1. Drawn'[id] = Drawn[id]
        BY <2>2, <2>7, <3>4
      <4>2. id \notin dirty \cup removed \cup hurried
        BY <3>1, <3>4
      <4>3. Shown(id)' = Shown(id)
        BY <3>4 DEF Shown
      <4> QED BY <1>1, <4>1, <4>2, <4>3
    <3> QED BY <3>2, <3>3, <3>4
  <2> QED BY <1>2, <2>9, <2>10 DEF GridInv
<1> QED BY <1>3, <1>4

LEMMA FlushKeepsGrid ==
  ASSUME GridInv, Flush
  PROVE  GridInv'
<1>1. PICK gone \in Prunable :
        LET changed == dirty \ gone
            left == removed \cup gone
        IN /\ held' = held \ gone
           /\ IF seeded
              THEN /\ dirty' = {}
                   /\ removed' = {}
                   /\ queue' = IF changed \cup left = {} THEN queue
                               ELSE Append(queue, Transaction(changed, left))
                   /\ hurried' = hurried \cup (changed \cap (Queued("add") \cup Queued("remove")))
              ELSE /\ dirty' = changed
                   /\ removed' = left
                   /\ UNCHANGED <<queue, hurried>>
  BY DEF Flush
<1>2. gone \in SUBSET Retiring
  BY DEF Prunable, kSubset, Retiring
<1>3. UNCHANGED <<progress, size, seeded, grid>>
  BY DEF Flush
<1>4. CASE seeded
  BY <1>1, <1>2, <1>3, <1>4, HandingOverKeepsGrid
<1>5. CASE ~seeded
  BY <1>1, <1>2, <1>3, <1>5, PruningKeepsGrid
<1> QED BY <1>4, <1>5

LEMMA GridStep ==
  ASSUME GridInv, [GridNext]_gridVars
  PROVE  GridInv'
<1>1. CASE UNCHANGED gridVars
  <2>1. UNCHANGED <<progress, held, dirty, removed, seeded, queue, grid, hurried>>
    BY <1>1 DEF gridVars, storeVars, drawnVars
  <2>2. StoreInv'
    BY <2>1 DEF GridInv, StoreInv
  <2>3. \A id \in Ids : Shown(id)' = Shown(id)
    BY <2>1 DEF Shown
  <2> QED BY <2>1, <2>2, <2>3, StoreStepKeepsGrid DEF drawnVars
<1> QED
  BY <1>1, IngestKeepsGrid, SnapshotKeepsGrid, FlushKeepsGrid, SeedKeepsGrid, DrawingKeepsGrid
  DEF GridNext

\* The grid's rows are the book's, late: for any orders, reports, capacity of the
\* book and length of the grid's queue, but for the rows of the next delta and
\* those that moved while their add or removal was waiting (Blotter.tsx 120-130).
THEOREM TheGridIsTheBook == GridSpec => []GridIsTheBookLate
<1>1. GridInit => GridInv
  BY GridInitOK
<1>2. GridInv /\ [GridNext]_gridVars => GridInv'
  BY GridStep
<1>3. GridInv => GridIsTheBookLate
  BY DEF GridInv
<1> QED BY <1>1, <1>2, <1>3, PTL DEF GridSpec

\* The page's rows are those of the grammar's book: the blotter adds no step that
\* changes an order, so what the book promises holds behind the grid too.
THEOREM BlotterFoldsOnly == GridSpec => FoldSpec
<1>1. GridInit => FoldInit
  BY DEF GridInit
<1>2. [GridNext]_gridVars => [FoldNext]_foldVars
  <2>1. \A id \in Ids : Ingest(id) => FoldNext
    BY GridAssumption DEF Ingest, FoldNext
  <2>2. Snapshot \/ Flush \/ Seed \/ GridDraws \/ UNCHANGED gridVars => UNCHANGED foldVars
    BY DEF Snapshot, Flush, Seed, GridDraws, gridVars, foldVars
  <2> QED BY <2>1, <2>2 DEF GridNext
<1> QED BY <1>1, <1>2, PTL DEF GridSpec, FoldSpec

-----------------------------------------------------------------------------
(* The ledger: what fills add up to *)

\* What numbers add up to, set of positions by set of positions.
IsAdding(f, base, q, Sets) ==
  f = [t \in Sets |-> IF t = {} THEN base ELSE Added(f[t \ {Max(t)}], q[Max(t)])]

\* The additions exist.
LEMMA AddingsExist ==
  ASSUME NEW n \in Nat, NEW base, NEW q
  PROVE  \E f : IsAdding(f, base, q, SUBSET (1..n))
<1> DEFINE Bad == {k \in Nat : ~ \E f : IsAdding(f, base, q, UpTo(n, k))}
<1>1. Bad = {}
  <2>1. SUFFICES ASSUME Bad # {} PROVE FALSE
    OBVIOUS
  <2>2. PICK m \in Bad : \A k \in Bad : m <= k
    <3>1. Bad \subseteq Nat
      OBVIOUS
    <3> HIDE DEF Bad
    <3> QED BY <2>1, <3>1, LeastNumber
  <2>3. m \in Nat /\ ~ \E f : IsAdding(f, base, q, UpTo(n, m))
    OBVIOUS
  <2>4. CASE m = 0
    <3>1. \A t \in UpTo(n, 0) : t = {}
      <4>1. SUFFICES ASSUME NEW t \in UpTo(n, 0), t # {} PROVE FALSE
        OBVIOUS
      <4>2. IsFiniteSet(t)
        BY PositionsAreFinite DEF UpTo
      <4> QED BY <4>1, <4>2, FS_EmptySet, FS_CardinalityType DEF UpTo
    <3>2. PICK f : f = [t \in UpTo(n, 0) |-> base]
      OBVIOUS
    <3>3. IsAdding(f, base, q, UpTo(n, 0))
      BY <3>1, <3>2 DEF IsAdding
    <3> QED BY <2>3, <2>4, <3>3
  <2>5. CASE m # 0
    <3>1. m - 1 \in Nat /\ m - 1 \notin Bad
      <4> HIDE DEF Bad
      <4> QED BY <2>2, <2>3, <2>5
    <3>2. PICK f : IsAdding(f, base, q, UpTo(n, m - 1))
      BY <3>1
    <3>3. PICK g : g = [t \in UpTo(n, m) |->
                          IF t = {} THEN base ELSE Added(f[t \ {Max(t)}], q[Max(t)])]
      OBVIOUS
    <3>4. ASSUME NEW t \in UpTo(n, m - 1)
          PROVE  t \in UpTo(n, m) /\ g[t] = f[t]
      <4>1. t \in SUBSET (1..n) /\ Cardinality(t) <= m - 1
        BY DEF UpTo
      <4>2. Cardinality(t) \in Nat
        BY <4>1, PositionsAreFinite, FS_CardinalityType
      <4>3. t \in UpTo(n, m)
        BY <2>3, <4>1, <4>2 DEF UpTo
      <4> QED BY <3>2, <3>3, <4>3 DEF IsAdding
    <3>5. ASSUME NEW t \in UpTo(n, m), t # {}
          PROVE  g[t \ {Max(t)}] = f[t \ {Max(t)}]
      <4>1. t \in SUBSET (1..n) /\ Cardinality(t) <= m
        BY DEF UpTo
      <4>2. t \ {Max(t)} \in UpTo(n, m - 1)
        BY <2>3, <3>5, <4>1, SmallerByOne DEF UpTo
      <4> QED BY <3>4, <4>2
    <3>6. IsAdding(g, base, q, UpTo(n, m))
      BY <3>3, <3>5 DEF IsAdding
    <3> QED BY <2>3, <3>6
  <2> QED BY <2>4, <2>5
<1>2. UpTo(n, n) = SUBSET (1..n)
  <2>1. IsFiniteSet(1..n) /\ Cardinality(1..n) = n
    BY FS_Interval
  <2>2. \A t \in SUBSET (1..n) : Cardinality(t) <= n
    BY <2>1, FS_Subset
  <2> QED BY <2>2 DEF UpTo
<1>3. \E f : IsAdding(f, base, q, UpTo(n, n))
  BY <1>1
<1> QED BY <1>2, <1>3

\* A fold from the left is the addition of all positions.
LEMMA FoldIsAdding ==
  ASSUME NEW S, NEW q \in Seq(S), NEW base
  PROVE  \E f : /\ IsAdding(f, base, q, SUBSET (1..Len(q)))
               /\ FoldLeft(Added, base, q) = f[1..Len(q)]
<1> DEFINE n == Len(q)
           f == CHOOSE f : f = [t \in SUBSET (1..n) |->
                  IF t = {} THEN base ELSE Added(f[t \ {Max(t)}], q[Max(t)])]
<1>1. n \in Nat /\ DOMAIN q = 1..n
  OBVIOUS
<1>2. FoldLeft(Added, base, q) = f[1..n]
  <2> HIDE DEF n
  <2> QED BY <1>1 DEF FoldLeft, MapThenFoldSet
<1>3. f = [t \in SUBSET (1..n) |->
             IF t = {} THEN base ELSE Added(f[t \ {Max(t)}], q[Max(t)])]
  <2>1. PICK g : IsAdding(g, base, q, SUBSET (1..n))
    BY <1>1, AddingsExist
  <2> HIDE DEF n
  <2> QED BY <2>1 DEF IsAdding
<1>4. IsAdding(f, base, q, SUBSET (1..n))
  <2> HIDE DEF f, n
  <2> QED BY <1>3 DEF IsAdding
<1> HIDE DEF f
<1> QED BY <1>2, <1>4

\* Nothing added is where one starts.
LEMMA NothingAdded ==
  ASSUME NEW base
  PROVE  FoldLeft(Added, base, << >>) = base
<1>1. << >> \in Seq({}) /\ Len(<< >>) = 0 /\ 1..0 = {}
  OBVIOUS
<1>2. PICK f : /\ IsAdding(f, base, << >>, SUBSET (1..0))
               /\ FoldLeft(Added, base, << >>) = f[1..0]
  BY <1>1, FoldIsAdding
<1> QED BY <1>1, <1>2 DEF IsAdding

\* One number more is added to what the others add up to.
LEMMA OneMoreAdded ==
  ASSUME NEW S, NEW q \in Seq(S), NEW t \in S, NEW base
  PROVE  FoldLeft(Added, base, Append(q, t)) = Added(FoldLeft(Added, base, q), t)
<1> DEFINE n == Len(q)
           longer == Append(q, t)
<1>1. /\ n \in Nat /\ longer \in Seq(S) /\ Len(longer) = n + 1
      /\ longer[n + 1] = t
      /\ \A i \in 1..n : longer[i] = q[i]
  OBVIOUS
<1>2. PICK f : /\ IsAdding(f, base, q, SUBSET (1..n))
               /\ FoldLeft(Added, base, q) = f[1..n]
  BY FoldIsAdding
<1>3. PICK g : /\ IsAdding(g, base, longer, SUBSET (1..(n + 1)))
               /\ FoldLeft(Added, base, longer) = g[1..(n + 1)]
  <2> HIDE DEF longer
  <2> QED BY <1>1, FoldIsAdding
<1> HIDE DEF n, longer
<1>4. ASSUME NEW k \in 1..(n + 1)
      PROVE  Max(1..k) = k /\ (1..k) \ {k} = 1..(k - 1) /\ 1..k # {}
  <2>1. k \in 1..k /\ k \in Nat
    BY <1>1
  <2>2. Max(1..k) \in 1..k /\ k <= Max(1..k)
    BY <2>1, LastPosition
  <2> QED BY <2>1, <2>2
<1> DEFINE Bad == {k \in Nat : k <= n /\ g[1..k] # f[1..k]}
<1>5. Bad = {}
  <2>1. SUFFICES ASSUME Bad # {} PROVE FALSE
    OBVIOUS
  <2>2. PICK k \in Bad : \A j \in Bad : k <= j
    <3>1. Bad \subseteq Nat
      OBVIOUS
    <3> HIDE DEF Bad
    <3> QED BY <2>1, <3>1, LeastNumber
  <2>3. k \in Nat /\ k <= n /\ g[1..k] # f[1..k]
    OBVIOUS
  <2>4. CASE k = 0
    <3>1. 1..k = {}
      BY <2>4
    <3> QED BY <1>1, <1>2, <1>3, <2>3, <3>1 DEF IsAdding
  <2>5. CASE k # 0
    <3>1. k - 1 \in Nat /\ k - 1 \notin Bad
      <4> HIDE DEF Bad
      <4> QED BY <2>2, <2>3, <2>5
    <3>2. g[1..(k - 1)] = f[1..(k - 1)]
      BY <1>1, <2>3, <3>1
    <3>3. k \in 1..(n + 1) /\ longer[k] = q[k]
      BY <1>1, <2>3, <2>5
    <3>4. 1..k \in SUBSET (1..n) /\ 1..k \in SUBSET (1..(n + 1))
      BY <1>1, <2>3
    <3>5. Max(1..k) = k /\ (1..k) \ {k} = 1..(k - 1) /\ 1..k # {}
      BY <1>4, <3>3
    <3>6. f[1..k] = Added(f[1..(k - 1)], q[k])
      BY <1>2, <3>4, <3>5 DEF IsAdding
    <3>7. g[1..k] = Added(g[1..(k - 1)], longer[k])
      BY <1>3, <3>4, <3>5 DEF IsAdding
    <3> QED BY <2>3, <3>2, <3>3, <3>6, <3>7
  <2> QED BY <2>4, <2>5
<1>6. g[1..n] = f[1..n]
  BY <1>1, <1>5
<1>7. g[1..(n + 1)] = Added(g[1..n], longer[n + 1])
  <2>1. n + 1 \in 1..(n + 1) /\ n + 1 - 1 = n /\ 1..(n + 1) \in SUBSET (1..(n + 1))
    BY <1>1
  <2>2. Max(1..(n + 1)) = n + 1 /\ (1..(n + 1)) \ {n + 1} = 1..n /\ 1..(n + 1) # {}
    <3>1. PICK k \in 1..(n + 1) : k = n + 1
      BY <2>1
    <3>2. Max(1..k) = k /\ (1..k) \ {k} = 1..(k - 1) /\ 1..k # {}
      BY <1>4
    <3>3. k - 1 = n
      BY <1>1, <2>1, <3>1
    <3> QED BY <3>1, <3>2, <3>3
  <2> QED BY <1>3, <2>1, <2>2 DEF IsAdding
<1> QED BY <1>1, <1>2, <1>3, <1>6, <1>7 DEF longer


Fraction == [num : Int, den : Nat \ {0}]

\* A position accounts for what it has taken in: net its trades' quantities, and its
\* realised gains their cash once what is open is put at its entry price.
Accounts(p, net, cash) ==
  /\ p.net = net
  /\ p.realised.num * p.avg.den = (cash * p.avg.den + p.net * p.avg.num) * p.realised.den

\* The entry price is one between two prices of a set.
Between(p, prices) ==
  IF p.net = 0 THEN p.avg.num = 0
  ELSE /\ \E low \in prices : low * p.avg.den <= p.avg.num
       /\ \E high \in prices : p.avg.num <= high * p.avg.den

LEMMA SignsAndSizes ==
  ASSUME NEW n \in Int
  PROVE  /\ Size(n) \in Nat /\ Sign(n) \in Int /\ n = Sign(n) * Size(n)
         /\ Sign(n) = 1 \/ Sign(n) = 0 \/ Sign(n) = -1
         /\ Sign(n) = 1 <=> n > 0
         /\ Sign(n) = -1 <=> n < 0
         /\ Sign(n) = 0 <=> n = 0
         /\ n > 0 => Size(n) = n
         /\ n < 0 => Size(n) = -n
         /\ n # 0 => Size(n) > 0
  BY DEF Size, Sign

\* The fields of an extended position.
LEMMA ExtendFields ==
  ASSUME NEW p \in Position, NEW s \in Int, NEW price \in Int, NEW q \in Nat \ {0}, Size(s) = q,
         NEW m \in Nat, Size(p.net) = m
  PROVE  /\ Extend(p, s, price).net = p.net + s
         /\ Extend(p, s, price).realised = p.realised
         /\ Extend(p, s, price).avg.num = m * p.avg.num + price * q * p.avg.den
         /\ Extend(p, s, price).avg.den = p.avg.den * (m + q)
         /\ Extend(p, s, price) \in Position
<1>1. /\ p.net \in Int /\ p.avg.num \in Int /\ p.avg.den \in Nat \ {0}
      /\ p.realised \in Fraction /\ p.avg \in Fraction
  BY DEF Position, Fraction
<1>2. Extend(p, s, price) =
        [net |-> p.net + s, realised |-> p.realised,
         avg |-> Over(Plus(Times(m, p.avg), Whole(price * q)), m + q)]
  BY DEF Extend
<1>3. PICK a : a = Over(Plus(Times(m, p.avg), Whole(price * q)), m + q)
  OBVIOUS
<1>4. /\ a.num = m * p.avg.num * 1 + price * q * p.avg.den
      /\ a.den = p.avg.den * 1 * (m + q)
  BY <1>3 DEF Over, Plus, Times, Whole, Frac
<1>5. a.num = m * p.avg.num + price * q * p.avg.den /\ a.den = p.avg.den * (m + q)
  BY <1>1, <1>4
<1>6. a.num \in Int /\ a.den \in Nat \ {0}
  BY <1>1, <1>5
<1>7. a \in Fraction
  BY <1>3, <1>6 DEF Fraction, Over, Plus, Times, Whole, Frac
<1>8. Extend(p, s, price) = [net |-> p.net + s, realised |-> p.realised, avg |-> a]
  BY <1>2, <1>3
<1> QED
  BY <1>1, <1>5, <1>7, <1>8 DEF Position, Fraction

\* Averaging a fill in loses no money and leaves a price that was dealt.
LEMMA ExtendAccounts ==
  ASSUME NEW p \in Position, NEW s \in Int, NEW price \in Int, NEW net \in Int, NEW cash \in Int,
         s # 0, p.net = 0 \/ Sign(p.net) = Sign(s),
         Accounts(p, net, cash)
  PROVE  Accounts(Extend(p, s, price), net + s, cash - s * price)
<1> DEFINE e == Extend(p, s, price)
<1>1. PICK q \in Nat \ {0} : Size(s) = q
  BY SignsAndSizes
<1>2. PICK m \in Nat : Size(p.net) = m
  BY SignsAndSizes DEF Position
<1>3. /\ e.net = p.net + s /\ e.realised = p.realised
      /\ e.avg.num = m * p.avg.num + price * q * p.avg.den
      /\ e.avg.den = p.avg.den * (m + q)
  BY <1>1, <1>2, ExtendFields
<1>4. PICK n \in Int, an \in Int, ad \in Int, rn \in Int, rd \in Int :
        n = p.net /\ an = p.avg.num /\ ad = p.avg.den /\ rn = p.realised.num /\ rd = p.realised.den
  BY DEF Position
<1>5. PICK g \in Int : s = g * q /\ n = g * m
  <2>1. s = Sign(s) * q /\ n = Sign(n) * m /\ Sign(s) \in Int /\ Sign(n) \in Int
    BY <1>1, <1>2, <1>4, SignsAndSizes
  <2>2. CASE n = 0
    <3>1. m = 0
      BY <1>2, <1>4, <2>2 DEF Size
    <3> QED
      BY <2>1, <2>2, <3>1
  <2>3. CASE n # 0
    BY <1>4, <2>1, <2>3
  <2> QED
    BY <2>2, <2>3
<1>6. n = net /\ rn * ad = (cash * ad + n * an) * rd
  BY <1>4 DEF Accounts
<1> HIDE DEF e
<1>7. rn * (ad * (m + q)) = ((cash - s * price) * (ad * (m + q)) + (n + s) * (m * an + price * q * ad)) * rd
  <2>1. n + s = g * (m + q)
    BY <1>5
  <2>2. (n + s) * (m * an + price * q * ad) = (m + q) * (n * an + s * price * ad)
    BY <1>5, <2>1
  <2>3. ((cash - s * price) * (ad * (m + q)) + (m + q) * (n * an + s * price * ad)) * rd
          = (m + q) * ((cash * ad + n * an) * rd)
    OBVIOUS
  <2>4. rn * (ad * (m + q)) = (m + q) * (rn * ad)
    OBVIOUS
  <2> QED
    BY <1>6, <2>2, <2>3, <2>4
<1>8. e.avg.den = ad * (m + q) /\ e.avg.num = m * an + price * q * ad /\ e.net = n + s
      /\ e.realised.num = rn /\ e.realised.den = rd
  BY <1>3, <1>4
<1>9. e.realised.num * e.avg.den =
        ((cash - s * price) * e.avg.den + e.net * e.avg.num) * e.realised.den
  BY <1>7, <1>8
<1>10. e.net = net + s
  BY <1>6, <1>8
<1> QED
  BY <1>9, <1>10 DEF e, Accounts

\* The fields of a reduced position, c of which closes in direction d.
LEMMA ReduceFields ==
  ASSUME NEW p \in Position, NEW s \in Int, NEW price \in Int, NEW c \in Int, NEW d \in Int,
         d = Sign(p.net),
         c = IF Size(s) <= Size(p.net) THEN Size(s) ELSE Size(p.net)
  PROVE  /\ Reduce(p, s, price).net = p.net + s
         /\ Reduce(p, s, price).realised.num =
              p.realised.num * p.avg.den + c * d * (price * p.avg.den - p.avg.num) * p.realised.den
         /\ Reduce(p, s, price).realised.den = p.realised.den * p.avg.den
         /\ Reduce(p, s, price).avg = IF p.net + s = 0 THEN Whole(0)
                                      ELSE IF Sign(p.net + s) # d THEN Whole(price) ELSE p.avg
         /\ Reduce(p, s, price) \in Position
<1>1. /\ p.net \in Int /\ p.avg.num \in Int /\ p.avg.den \in Nat \ {0}
      /\ p.realised.num \in Int /\ p.realised.den \in Nat \ {0} /\ p.avg \in Fraction
  BY DEF Position, Fraction
<1>2. PICK r : r = Plus(p.realised, Times(c * d, Plus(Whole(price), Times(-1, p.avg))))
  OBVIOUS
<1>3. PICK a : a = IF p.net + s = 0 THEN Whole(0)
                   ELSE IF Sign(p.net + s) # d THEN Whole(price) ELSE p.avg
  OBVIOUS
<1>4. Reduce(p, s, price) = [net |-> p.net + s, realised |-> r, avg |-> a]
  BY <1>2, <1>3 DEF Reduce
<1>5. /\ r.num = p.realised.num * (1 * p.avg.den)
                   + (c * d) * (price * p.avg.den + (-1) * p.avg.num * 1) * p.realised.den
      /\ r.den = p.realised.den * (1 * p.avg.den)
      /\ r = Frac(r.num, r.den)
  <2>1. PICK i : i = Plus(Whole(price), Times(-1, p.avg))
    OBVIOUS
  <2>2. i.num = price * p.avg.den + (-1) * p.avg.num * 1 /\ i.den = 1 * p.avg.den
    BY <2>1 DEF Plus, Times, Whole, Frac
  <2>3. PICK g : g = Times(c * d, i)
    OBVIOUS
  <2>4. g.num = (c * d) * i.num /\ g.den = i.den
    BY <2>3 DEF Times, Frac
  <2>5. r = Plus(p.realised, g)
    BY <1>2, <2>1, <2>3
  <2>6. r = Frac(r.num, r.den) /\ r.num = p.realised.num * g.den + g.num * p.realised.den
        /\ r.den = p.realised.den * g.den
    BY <2>5 DEF Plus, Frac
  <2> QED
    BY <2>2, <2>4, <2>6
<1>6. PICK rn \in Int, rd \in Int, an \in Int, ad \in Int :
        rn = p.realised.num /\ rd = p.realised.den /\ an = p.avg.num /\ ad = p.avg.den
        /\ rd > 0 /\ ad > 0
  BY <1>1
<1>7. /\ r.num = rn * ad + c * d * (price * ad - an) * rd /\ r.den = rd * ad
  <2>1. r.num = rn * (1 * ad) + (c * d) * (price * ad + (-1) * an * 1) * rd
        /\ r.den = rd * (1 * ad)
    BY <1>5, <1>6
  <2> QED
    BY <2>1
<1>8. r.num \in Int /\ r.den \in Nat \ {0}
  <2>1. rd * ad > 0 /\ rd * ad \in Int
    BY <1>6
  <2> QED
    BY <1>6, <1>7, <2>1
<1>9. r \in Fraction
  BY <1>5, <1>8 DEF Fraction, Frac
<1>10. a \in Fraction
  BY <1>1, <1>3 DEF Fraction, Whole, Frac
<1> QED
  BY <1>1, <1>3, <1>4, <1>6, <1>7, <1>9, <1>10 DEF Position, Fraction

\* Closing realises what the closed part gained and leaves the rest at its price.
LEMMA ReduceAccounts ==
  ASSUME NEW p \in Position, NEW s \in Int, NEW price \in Int, NEW net \in Int, NEW cash \in Int,
         s # 0, p.net # 0, Sign(p.net) # Sign(s),
         Accounts(p, net, cash)
  PROVE  Accounts(Reduce(p, s, price), net + s, cash - s * price)
<1> DEFINE e == Reduce(p, s, price)
<1>1. PICK d \in Int : d = Sign(p.net) /\ (d = 1 \/ d = -1)
  BY SignsAndSizes DEF Position
<1>2. PICK c \in Int : c = IF Size(s) <= Size(p.net) THEN Size(s) ELSE Size(p.net)
  BY SignsAndSizes DEF Position
<1>3. /\ e.net = p.net + s
      /\ e.realised.num =
           p.realised.num * p.avg.den + c * d * (price * p.avg.den - p.avg.num) * p.realised.den
      /\ e.realised.den = p.realised.den * p.avg.den
      /\ e.avg = IF p.net + s = 0 THEN Whole(0)
                 ELSE IF Sign(p.net + s) # d THEN Whole(price) ELSE p.avg
  BY <1>1, <1>2, ReduceFields
<1> HIDE DEF e
<1>4. PICK n \in Int, an \in Int, ad \in Int, rn \in Int, rd \in Int :
        n = p.net /\ an = p.avg.num /\ ad = p.avg.den /\ rn = p.realised.num /\ rd = p.realised.den
  BY DEF Position
<1>5. n = net /\ rn * ad = (cash * ad + n * an) * rd
  BY <1>4 DEF Accounts
<1>6. /\ e.net = n + s /\ e.realised.den = rd * ad
      /\ e.realised.num = rn * ad + c * d * (price * ad - an) * rd
      /\ Whole(0).num = 0 /\ Whole(0).den = 1 /\ Whole(price).num = price /\ Whole(price).den = 1
  BY <1>3, <1>4 DEF Whole, Frac
<1>7. CASE n + s # 0 /\ Sign(n + s) = d
  <2>1. c * d = -s
    BY <1>1, <1>2, <1>4, <1>7 DEF Size, Sign
  <2>2. e.avg.num = an /\ e.avg.den = ad
    BY <1>3, <1>4, <1>7
  <2>3. e.realised.num = rn * ad - s * (price * ad - an) * rd
    BY <1>6, <2>1
  <2>4. e.realised.num = ((cash - s * price) * ad + (n + s) * an) * rd
    BY <1>5, <2>3
  <2>5. e.realised.num * e.avg.den =
          ((cash - s * price) * e.avg.den + e.net * e.avg.num) * e.realised.den
    BY <1>6, <2>2, <2>4
  <2> QED
    BY <1>5, <1>6, <2>5 DEF Accounts, e
<1>8. CASE n + s = 0 \/ Sign(n + s) # d
  <2>1. c * d = n
    BY <1>1, <1>2, <1>4, <1>8 DEF Size, Sign
  <2>2. e.avg.den = 1 /\ e.net * e.avg.num = (n + s) * price
    <3>1. CASE n + s = 0
      BY <1>3, <1>4, <1>6, <3>1
    <3>2. CASE n + s # 0
      BY <1>3, <1>4, <1>6, <1>8, <3>2
    <3> QED
      BY <3>1, <3>2
  <2>3. e.realised.num = rn * ad + n * (price * ad - an) * rd
    BY <1>6, <2>1
  <2>4. e.realised.num = (cash + n * price) * (rd * ad)
    BY <1>5, <2>3
  <2>5. (cash - s * price) * 1 + (n + s) * price = cash + n * price
    OBVIOUS
  <2>6. e.realised.num * e.avg.den =
          ((cash - s * price) * e.avg.den + e.net * e.avg.num) * e.realised.den
    BY <1>6, <2>2, <2>4, <2>5
  <2> QED
    BY <1>5, <1>6, <2>6 DEF Accounts, e
<1> QED
  BY <1>7, <1>8

\* Averaging a fill in leaves an entry price that was dealt.
LEMMA ExtendBetween ==
  ASSUME NEW p \in Position, NEW s \in Int, NEW price \in Int, NEW prices \in SUBSET Int,
         s # 0, p.net = 0 \/ Sign(p.net) = Sign(s),
         Between(p, prices)
  PROVE  Between(Extend(p, s, price), prices \cup {price})
<1> DEFINE e == Extend(p, s, price)
<1>1. PICK q \in Nat \ {0} : Size(s) = q
  BY SignsAndSizes
<1>2. PICK m \in Nat : Size(p.net) = m
  BY SignsAndSizes DEF Position
<1>3. /\ e.net = p.net + s
      /\ e.avg.num = m * p.avg.num + price * q * p.avg.den
      /\ e.avg.den = p.avg.den * (m + q)
  BY <1>1, <1>2, ExtendFields
<1>4. PICK n \in Int, an \in Int, ad \in Nat \ {0} :
        n = p.net /\ an = p.avg.num /\ ad = p.avg.den
  BY DEF Position
<1> HIDE DEF e
<1>5. n + s # 0
  BY <1>4 DEF Sign
<1>6. e.net = n + s /\ e.avg.num = m * an + price * q * ad /\ e.avg.den = ad * (m + q)
  BY <1>3, <1>4
<1>7. CASE n = 0
  <2>1. m = 0
    BY <1>2, <1>4, <1>7 DEF Size
  <2>2. e.avg.num = price * (ad * (m + q)) /\ e.avg.num \in Int
    BY <1>6, <2>1
  <2>3. price * e.avg.den <= e.avg.num /\ e.avg.num <= price * e.avg.den
    BY <1>6, <2>2
  <2> QED
    BY <1>5, <1>6, <2>3 DEF Between, e
<1>8. CASE n # 0
  <2>1. PICK low \in prices : low * ad <= an
    BY <1>4, <1>8 DEF Between
  <2>2. PICK high \in prices : an <= high * ad
    BY <1>4, <1>8 DEF Between
  <2>3. m * (low * ad) <= m * an /\ m * an <= m * (high * ad)
    BY <2>1, <2>2
  <2>4. PICK low2 \in prices \cup {price} : low2 <= low /\ low2 <= price
    BY <2>1
  <2>5. PICK high2 \in prices \cup {price} : high <= high2 /\ price <= high2
    BY <2>2
  <2>6. low2 \in Int /\ high2 \in Int
    OBVIOUS
  <2>7. /\ (m * ad) * low2 <= (m * ad) * low /\ (q * ad) * low2 <= (q * ad) * price
        /\ (m * ad) * high <= (m * ad) * high2 /\ (q * ad) * price <= (q * ad) * high2
    <3>1. m * ad \in Nat /\ q * ad \in Nat
      OBVIOUS
    <3> QED
      BY <2>4, <2>5, <2>6, <3>1
  <2>8. low2 * (ad * (m + q)) <= m * an + price * q * ad
    BY <2>3, <2>6, <2>7
  <2>9. m * an + price * q * ad <= high2 * (ad * (m + q))
    BY <2>3, <2>6, <2>7
  <2> QED
    BY <1>5, <1>6, <2>8, <2>9 DEF Between, e
<1> QED
  BY <1>7, <1>8

\* What is left of a reduced position was dealt at the old entry or at the fill's price.
LEMMA ReduceBetween ==
  ASSUME NEW p \in Position, NEW s \in Int, NEW price \in Int, NEW prices \in SUBSET Int,
         s # 0, p.net # 0, Sign(p.net) # Sign(s),
         Between(p, prices)
  PROVE  Between(Reduce(p, s, price), prices \cup {price})
<1> DEFINE e == Reduce(p, s, price)
<1>1. PICK d \in Int : d = Sign(p.net)
  BY SignsAndSizes DEF Position
<1>2. PICK c \in Int : c = IF Size(s) <= Size(p.net) THEN Size(s) ELSE Size(p.net)
  BY SignsAndSizes DEF Position
<1>3. /\ e.net = p.net + s
      /\ e.avg = IF p.net + s = 0 THEN Whole(0)
                 ELSE IF Sign(p.net + s) # d THEN Whole(price) ELSE p.avg
  BY <1>1, <1>2, ReduceFields
<1> HIDE DEF e
<1>4. /\ Whole(0).num = 0 /\ Whole(price).num = price /\ Whole(price).den = 1
      /\ price * 1 <= price
  BY DEF Whole, Frac
<1>5. CASE e.net = 0
  BY <1>3, <1>4, <1>5 DEF Between, e
<1>6. CASE e.net # 0 /\ Sign(p.net + s) # d
  <2>1. e.avg.num = price /\ e.avg.den = 1
    BY <1>3, <1>4, <1>6
  <2> QED
    BY <1>4, <1>6, <2>1 DEF Between, e
<1>7. CASE e.net # 0 /\ Sign(p.net + s) = d
  <2>1. e.avg = p.avg
    BY <1>3, <1>7
  <2> QED
    BY <1>7, <2>1 DEF Between, e
<1> QED
  BY <1>5, <1>6, <1>7

\* A fill, whatever it does to a position, accounts for itself.
LEMMA FillAccounts ==
  ASSUME NEW p \in Position, NEW s \in Int, s # 0, NEW price \in Int,
         NEW net \in Int, NEW cash \in Int, Accounts(p, net, cash),
         NEW prices \in SUBSET Int, Between(p, prices)
  PROVE  /\ ApplyFill(p, s, price) \in Position
         /\ Accounts(ApplyFill(p, s, price), net + s, cash - s * price)
         /\ Between(ApplyFill(p, s, price), prices \cup {price})
<1>1. CASE p.net = 0 \/ Sign(p.net) = Sign(s)
  <2>1. ApplyFill(p, s, price) = Extend(p, s, price)
    BY <1>1 DEF ApplyFill
  <2>2. PICK q \in Nat \ {0} : Size(s) = q
    BY SignsAndSizes
  <2>3. PICK m \in Nat : Size(p.net) = m
    BY SignsAndSizes DEF Position
  <2>4. Extend(p, s, price) \in Position
    BY <2>2, <2>3, ExtendFields
  <2> QED
    BY <1>1, <2>1, <2>4, ExtendAccounts, ExtendBetween
<1>2. CASE p.net # 0 /\ Sign(p.net) # Sign(s)
  <2>1. ApplyFill(p, s, price) = Reduce(p, s, price)
    BY <1>2 DEF ApplyFill
  <2>2. PICK d \in Int : d = Sign(p.net)
    BY SignsAndSizes DEF Position
  <2>3. PICK c \in Int : c = IF Size(s) <= Size(p.net) THEN Size(s) ELSE Size(p.net)
    BY SignsAndSizes DEF Position
  <2>4. Reduce(p, s, price) \in Position
    BY <2>2, <2>3, ReduceFields
  <2> QED
    BY <1>2, <2>1, <2>4, ReduceAccounts, ReduceBetween
<1> QED
  BY <1>1, <1>2

\* A sequence of numbers that grows by one adds that one to its total.
LEMMA TotalGrows ==
  ASSUME NEW old \in Seq(Int), NEW new \in Seq(Int), Len(new) = Len(old) + 1,
         \A i \in 1..Len(old) : new[i] = old[i]
  PROVE  Total(new) = Total(old) + new[Len(new)]
<1>1. new[Len(new)] \in Int
  OBVIOUS
<1>2. new = Append(old, new[Len(new)])
  OBVIOUS
<1>3. FoldLeft(Added, 0, Append(old, new[Len(new)])) = Added(FoldLeft(Added, 0, old), new[Len(new)])
  BY <1>1, OneMoreAdded
<1>4. FoldLeft(Added, 0, new) = Added(FoldLeft(Added, 0, old), new[Len(new)])
  BY <1>2, <1>3
<1> QED
  BY <1>4 DEF Total, Added

LEMMA TotalOfNone == Total(<< >>) = 0
  BY NothingAdded DEF Total

-----------------------------------------------------------------------------
(* The ledger keeps its accounts *)

Sides == {"buy", "sell"}
OrderRow == [pair : Pairs, side : Sides, qty : Nat]
TradeRow == [clOrdId : Orders, pair : Pairs, side : Sides, qty : Nat \ {0}, price : Nat \ {0}]

LedgerIInv ==
  /\ meta \in [Orders -> OrderRow \cup {Unregistered}]
  /\ trades \in Seq(TradeRow)
  /\ positions \in [Pairs -> Position]
  /\ \A pair \in Pairs :
       /\ NetOf(pair) \in Int /\ Cash(pair) \in Int
       /\ Accounts(positions[pair], NetOf(pair), Cash(pair))
       /\ Between(positions[pair], Dealt(pair))

\* What one trade moves.
LEMMA TradeMoves ==
  ASSUME NEW t \in TradeRow, NEW pair \in Pairs
  PROVE  /\ NetFrom(t, pair) \in Int /\ CashFrom(t, pair) \in Int
         /\ t.pair = pair => NetFrom(t, pair) = Signed(t.side, t.qty)
                             /\ CashFrom(t, pair) = -(Signed(t.side, t.qty) * t.price)
         /\ t.pair # pair => NetFrom(t, pair) = 0 /\ CashFrom(t, pair) = 0
<1>1. PICK q \in Int, price \in Int : q = t.qty /\ price = t.price
  BY DEF TradeRow
<1>2. Signed(t.side, t.qty) = q \/ Signed(t.side, t.qty) = -q
  BY <1>1 DEF Signed
<1>3. PICK x \in Int : x = NetFrom(t, pair)
  BY <1>1, <1>2 DEF NetFrom
<1>4. CashFrom(t, pair) = -(x * price)
  BY <1>1, <1>3 DEF CashFrom
<1>5. t.pair # pair => x = 0
  BY <1>3 DEF NetFrom
<1>6. t.pair = pair => x = Signed(t.side, t.qty)
  BY <1>3 DEF NetFrom
<1> QED
  BY <1>1, <1>3, <1>4, <1>5, <1>6

\* A recorded trade adds what it moved to what had moved before.
LEMMA TradesAddUp ==
  ASSUME trades \in Seq(TradeRow), NEW t \in TradeRow, trades' = Append(trades, t),
         NEW pair \in Pairs
  PROVE  /\ NetOf(pair)' = NetOf(pair) + NetFrom(t, pair)
         /\ Cash(pair)' = Cash(pair) + CashFrom(t, pair)
         /\ Dealt(pair)' = IF t.pair = pair THEN Dealt(pair) \cup {t.price} ELSE Dealt(pair)
<1> DEFINE n == Len(trades)
           nets == [i \in DOMAIN trades |-> NetFrom(trades[i], pair)]
           cashes == [i \in DOMAIN trades |-> CashFrom(trades[i], pair)]
<1>1. PICK later : later = trades'
  OBVIOUS
<1> DEFINE laterNets == [i \in DOMAIN later |-> NetFrom(later[i], pair)]
           laterCashes == [i \in DOMAIN later |-> CashFrom(later[i], pair)]
<1>2. /\ n \in Nat /\ DOMAIN trades = 1..n /\ DOMAIN later = 1..(n + 1)
      /\ later[n + 1] = t
      /\ \A i \in 1..n : later[i] = trades[i] /\ trades[i] \in TradeRow
  BY <1>1
<1>3. \A i \in 1..(n + 1) : later[i] \in TradeRow
  BY <1>2
<1> HIDE DEF n
<1>4. /\ nets \in Seq(Int) /\ Len(nets) = n
      /\ laterNets \in Seq(Int) /\ Len(laterNets) = n + 1
  BY <1>2, <1>3, TradeMoves
<1>5. /\ cashes \in Seq(Int) /\ Len(cashes) = n
      /\ laterCashes \in Seq(Int) /\ Len(laterCashes) = n + 1
  BY <1>2, <1>3, TradeMoves
<1>6. /\ \A i \in 1..n : laterNets[i] = nets[i] /\ laterCashes[i] = cashes[i]
      /\ laterNets[n + 1] = NetFrom(t, pair) /\ laterCashes[n + 1] = CashFrom(t, pair)
  BY <1>2
<1>7. NetOf(pair) = Total(nets) /\ Cash(pair) = Total(cashes)
  BY DEF NetOf, Cash
<1>8. NetOf(pair)' = Total(laterNets) /\ Cash(pair)' = Total(laterCashes)
  BY <1>1 DEF NetOf, Cash
<1> HIDE DEF nets, cashes, laterNets, laterCashes
<1>9. Total(laterNets) = Total(nets) + NetFrom(t, pair)
  BY <1>4, <1>6, TotalGrows
<1>10. Total(laterCashes) = Total(cashes) + CashFrom(t, pair)
  BY <1>5, <1>6, TotalGrows
<1>11. Dealt(pair)' = {later[i].price : i \in {j \in 1..(n + 1) : later[j].pair = pair}}
  BY <1>1, <1>2 DEF Dealt
<1>12. Dealt(pair) = {trades[i].price : i \in {j \in 1..n : trades[j].pair = pair}}
  BY <1>2 DEF Dealt
<1>13. Dealt(pair)' = IF t.pair = pair THEN Dealt(pair) \cup {t.price} ELSE Dealt(pair)
  <2>1. \A i \in 1..(n + 1) : i \in 1..n \/ i = n + 1
    BY <1>2
  <2>2. \A i \in 1..n : i \in 1..(n + 1)
    BY <1>2
  <2>3. n + 1 \in 1..(n + 1)
    BY <1>2
  <2> QED
    BY <1>2, <1>11, <1>12, <2>1, <2>2, <2>3
<1> QED
  BY <1>7, <1>8, <1>9, <1>10, <1>13

LEMMA TradesAreTrades ==
  ASSUME trades \in Seq(TradeRow)
  PROVE  /\ \A i \in DOMAIN trades : trades[i].pair \in Pairs /\ trades[i].qty > 0
         /\ \A pair \in Pairs : Dealt(pair) \in SUBSET Int
<1>1. ASSUME NEW i \in DOMAIN trades
      PROVE  trades[i].pair \in Pairs /\ trades[i].qty > 0 /\ trades[i].price \in Int
  <2>1. trades[i] \in TradeRow
    OBVIOUS
  <2>2. PICK t \in TradeRow : t = trades[i]
    BY <2>1
  <2> QED
    BY <2>2 DEF TradeRow
<1> QED
  BY <1>1 DEF Dealt

LEMMA LedgerStarts == LedgerInit => LedgerIInv
<1> SUFFICES ASSUME LedgerInit PROVE LedgerIInv
  OBVIOUS
<1>1. meta \in [Orders -> OrderRow \cup {Unregistered}] /\ trades \in Seq(TradeRow)
  BY DEF LedgerInit
<1>2. Flat \in Position
  BY DEF Flat, Position, Whole, Frac
<1>3. positions \in [Pairs -> Position] /\ \A pair \in Pairs : positions[pair] = Flat
  BY <1>2 DEF LedgerInit
<1>4. ASSUME NEW pair \in Pairs
      PROVE  NetOf(pair) = 0 /\ Cash(pair) = 0
  <2>1. trades = << >> /\ DOMAIN trades = {}
    BY DEF LedgerInit
  <2>2. [i \in DOMAIN trades |-> NetFrom(trades[i], pair)] = << >>
    BY <2>1
  <2>3. [i \in DOMAIN trades |-> CashFrom(trades[i], pair)] = << >>
    BY <2>1
  <2> QED
    BY <2>2, <2>3, TotalOfNone DEF NetOf, Cash
<1>5. Flat.net = 0 /\ Flat.avg.num = 0 /\ Flat.avg.den = 1 /\ Flat.realised.num = 0 /\ Flat.realised.den = 1
  BY DEF Flat, Whole, Frac
<1>6. ASSUME NEW pair \in Pairs
      PROVE  Accounts(positions[pair], NetOf(pair), Cash(pair)) /\ Between(positions[pair], Dealt(pair))
  BY <1>3, <1>4, <1>5 DEF Accounts, Between
<1> QED
  BY <1>1, <1>3, <1>4, <1>6 DEF LedgerIInv

\* An order opened moves no money.
LEMMA OpenKeepsBooks ==
  ASSUME LedgerIInv, NEW id \in Orders, NEW pair \in Pairs, NEW side \in Sides,
         NEW qty \in Quantities, Open(id, pair, side, qty)
  PROVE  LedgerIInv'
<1>1. qty \in Nat
  BY LedgerAssumption DEF Open
<1>2. [pair |-> pair, side |-> side, qty |-> qty] \in OrderRow
  BY <1>1 DEF OrderRow
<1>3. meta' \in [Orders -> OrderRow \cup {Unregistered}] /\ trades' = trades /\ positions' = positions
  BY <1>2 DEF Open, LedgerIInv
<1> QED
  BY <1>3 DEF LedgerIInv, NetOf, Cash, Dealt

\* A trade recorded moves its own pair's net and cash, and its position with them.
LEMMA RecordKeepsBooks ==
  ASSUME LedgerIInv, NEW id \in Orders, NEW qty \in Int, qty > 0, NEW price \in Prices,
         Record(id, qty, price)
  PROVE  LedgerIInv'
<1> DEFINE order == meta[id]
           t == [clOrdId |-> id, pair |-> order.pair, side |-> order.side, qty |-> qty, price |-> price]
           s == Signed(order.side, qty)
<1>1. /\ order \in OrderRow
      /\ trades' = Append(trades, t)
      /\ positions' = [positions EXCEPT ![order.pair] = ApplyFill(@, s, price)]
      /\ meta' = meta
  BY DEF Record, LedgerIInv
<1>2. price \in Nat \ {0}
  BY LedgerAssumption
<1>3. order.pair \in Pairs /\ order.side \in Sides
  BY <1>1 DEF OrderRow
<1>4. t \in TradeRow /\ t.pair = order.pair /\ t.price = price /\ t.side = order.side /\ t.qty = qty
  BY <1>2, <1>3 DEF TradeRow
<1>5. s \in Int /\ s # 0
  BY DEF Signed
<1> HIDE DEF t, s, order
<1>6. trades' \in Seq(TradeRow)
  BY <1>1, <1>4 DEF LedgerIInv
<1>7. ASSUME NEW pair \in Pairs
      PROVE  /\ positions'[pair] \in Position
             /\ NetOf(pair)' \in Int /\ Cash(pair)' \in Int
             /\ Accounts(positions'[pair], NetOf(pair)', Cash(pair)')
             /\ Between(positions'[pair], Dealt(pair)')
  <2>1. PICK p \in Position : p = positions[pair]
    BY DEF LedgerIInv
  <2>2. PICK net \in Int, cash \in Int : net = NetOf(pair) /\ cash = Cash(pair)
    BY DEF LedgerIInv
  <2>3. PICK prices : prices = Dealt(pair)
    OBVIOUS
  <2>4. Accounts(p, net, cash) /\ Between(p, prices)
    BY <2>1, <2>2, <2>3 DEF LedgerIInv
  <2>5. prices \in SUBSET Int
    BY <2>3, TradesAreTrades DEF LedgerIInv
  <2>6. trades \in Seq(TradeRow)
    BY DEF LedgerIInv
  <2>7. /\ NetOf(pair)' = net + NetFrom(t, pair) /\ Cash(pair)' = cash + CashFrom(t, pair)
        /\ Dealt(pair)' = IF t.pair = pair THEN prices \cup {t.price} ELSE prices
    BY <1>1, <1>4, <2>2, <2>3, <2>6, TradesAddUp
  <2>8. CASE pair = order.pair
    <3>1. NetFrom(t, pair) = s /\ CashFrom(t, pair) = -(s * price)
      BY <1>4, <2>8, TradeMoves DEF s
    <3>2. positions'[pair] = ApplyFill(p, s, price)
      BY <1>1, <2>1, <2>8 DEF LedgerIInv
    <3>3. NetOf(pair)' = net + s /\ Cash(pair)' = cash - s * price
      BY <1>2, <1>5, <2>7, <3>1
    <3>4. Dealt(pair)' = prices \cup {price}
      BY <1>4, <2>7, <2>8
    <3>5. /\ ApplyFill(p, s, price) \in Position
          /\ Accounts(ApplyFill(p, s, price), net + s, cash - s * price)
          /\ Between(ApplyFill(p, s, price), prices \cup {price})
      BY <1>2, <1>5, <2>4, <2>5, FillAccounts
    <3>6. net + s \in Int /\ cash - s * price \in Int
      BY <1>2, <1>5
    <3> QED
      BY <3>2, <3>3, <3>4, <3>5, <3>6
  <2>9. CASE pair # order.pair
    <3>1. NetFrom(t, pair) = 0 /\ CashFrom(t, pair) = 0
      BY <1>4, <2>9, TradeMoves
    <3>2. positions'[pair] = p
      BY <1>1, <2>1, <2>9 DEF LedgerIInv
    <3>3. NetOf(pair)' = net /\ Cash(pair)' = cash /\ Dealt(pair)' = prices
      BY <1>4, <2>7, <2>9, <3>1
    <3> QED
      BY <2>4, <3>2, <3>3
  <2> QED
    BY <2>8, <2>9
<1>8. positions' \in [Pairs -> Position]
  BY <1>1, <1>7 DEF LedgerIInv
<1> QED
  BY <1>1, <1>6, <1>7, <1>8 DEF LedgerIInv

LEMMA LedgerKeeps == LedgerIInv /\ [LedgerNext]_ledgerVars => LedgerIInv'
<1> SUFFICES ASSUME LedgerIInv, [LedgerNext]_ledgerVars PROVE LedgerIInv'
  OBVIOUS
<1>1. ASSUME NEW id \in Orders, NEW pair \in Pairs, NEW side \in {"buy", "sell"}, NEW qty \in Quantities,
             Open(id, pair, side, qty)
      PROVE  LedgerIInv'
  BY <1>1, OpenKeepsBooks DEF Sides
<1>2. ASSUME NEW id \in Orders, NEW price \in Prices,
             NEW lastQty \in 1..(meta[id].qty - Filled(id)), Record(id, lastQty, price)
      PROVE  LedgerIInv'
  <2>1. lastQty \in Int /\ lastQty > 0
    OBVIOUS
  <2> QED
    BY <1>2, <2>1, RecordKeepsBooks
<1>3. CASE UNCHANGED ledgerVars
  BY <1>3 DEF ledgerVars, LedgerIInv, NetOf, Cash, Dealt
<1> QED
  BY <1>1, <1>2, <1>3 DEF LedgerNext

LEMMA BooksBalance == LedgerIInv => LedgerInv
<1> SUFFICES ASSUME LedgerIInv PROVE LedgerInv
  OBVIOUS
<1>1. LedgerTypeOK
  <2>1. \A id \in Orders : meta[id] = Unregistered \/ meta[id].qty \in Nat
    BY DEF LedgerIInv, OrderRow
  <2>2. \A i \in DOMAIN trades : trades[i].pair \in Pairs /\ trades[i].qty > 0
    BY TradesAreTrades DEF LedgerIInv
  <2> QED
    BY <2>1, <2>2 DEF LedgerTypeOK, LedgerIInv
<1>2. ASSUME NEW pair \in Pairs
      PROVE  /\ positions[pair].net = NetOf(pair)
             /\ Same(positions[pair].realised,
                     Plus(Whole(Cash(pair)), Times(positions[pair].net, positions[pair].avg)))
             /\ IF positions[pair].net = 0 THEN Same(positions[pair].avg, Whole(0))
                ELSE /\ \E low \in Dealt(pair) : AtMost(Whole(low), positions[pair].avg)
                     /\ \E high \in Dealt(pair) : AtMost(positions[pair].avg, Whole(high))
  <2>1. PICK p \in Position : p = positions[pair]
    BY DEF LedgerIInv
  <2>2. PICK net \in Int, cash \in Int : net = NetOf(pair) /\ cash = Cash(pair)
    BY DEF LedgerIInv
  <2>3. PICK prices : prices = Dealt(pair)
    OBVIOUS
  <2>4. Accounts(p, net, cash) /\ Between(p, prices)
    BY <2>1, <2>2, <2>3 DEF LedgerIInv
  <2>5. prices \in SUBSET Int
    BY <2>3, TradesAreTrades DEF LedgerIInv
  <2>6. PICK n \in Int, an \in Int, ad \in Int, rn \in Int, rd \in Int :
          n = p.net /\ an = p.avg.num /\ ad = p.avg.den /\ rn = p.realised.num /\ rd = p.realised.den
    BY DEF Position
  <2>7. n = net /\ rn * ad = (cash * ad + n * an) * rd
    BY <2>4, <2>6 DEF Accounts
  <2>8. PICK total : total = Plus(Whole(cash), Times(n, p.avg))
    OBVIOUS
  <2>9. total.num = cash * ad + n * an * 1 /\ total.den = 1 * ad
    BY <2>6, <2>8 DEF Plus, Whole, Times, Frac
  <2>10. rn * total.den = total.num * rd
    BY <2>7, <2>9
  <2>11. Same(p.realised, Plus(Whole(cash), Times(n, p.avg)))
    BY <2>6, <2>8, <2>10 DEF Same
  <2>12. n = 0 => Same(p.avg, Whole(0))
    <3>1. n = 0 => an * 1 = 0 * ad
      BY <2>4, <2>6 DEF Between
    <3> QED
      BY <2>6, <3>1 DEF Same, Whole, Frac
  <2>13. ASSUME NEW low \in prices
         PROVE  /\ low * ad <= an => AtMost(Whole(low), p.avg)
                /\ an <= low * ad => AtMost(p.avg, Whole(low))
    <3>1. low \in Int
      BY <2>5
    <3>2. an * 1 = an
      OBVIOUS
    <3> QED
      BY <2>6, <3>1, <3>2 DEF AtMost, Whole, Frac
  <2>14. n # 0 => /\ \E low \in prices : AtMost(Whole(low), p.avg)
                  /\ \E high \in prices : AtMost(p.avg, Whole(high))
    BY <2>4, <2>6, <2>13 DEF Between
  <2> QED
    BY <2>1, <2>2, <2>3, <2>6, <2>7, <2>11, <2>12, <2>14
<1>3. NoMoneyInvented
  BY <1>2 DEF NoMoneyInvented
<1>4. EntryWasDealt
  BY <1>2 DEF EntryWasDealt
<1> QED
  BY <1>1, <1>3, <1>4 DEF LedgerInv

LEMMA LedgerAlways == LedgerSpec => []LedgerIInv
BY LedgerStarts, LedgerKeeps, PTL DEF LedgerSpec

\* Whatever trades are recorded, in whatever order, sizes and prices: a pair's
\* realised P&L and the entry value of what it still holds are the cash its
\* trades moved, and the entry price lies between prices it was dealt at
\* (applyFill and record() of packages/sim-core/src/ledger.ts).
THEOREM TheLedgerInventsNoMoney == LedgerSpec => []LedgerInv
<1>1. LedgerIInv => LedgerInv
  BY BooksBalance
<1> QED
  BY <1>1, LedgerAlways, PTL

-----------------------------------------------------------------------------
(* The page shows the ledger *)

Event ==
  [kind : {"trade"}, number : Nat] \cup [kind : {"orders"}, number : Nat, day : Nat]
    \cup [kind : {"positions"}, rows : [Pairs -> Position], day : Nat]
    \cup [kind : {"error"}]

BusReport == [id : Orders, number : Nat]

\* The places of the events of a kind, of the trades on the bus, and of the
\* requests for positions.
Signals(kind) == {i \in 1..Len(downlink) : downlink[i].kind = kind}
Unsent == {i \in 1..Len(bus) : bus[i].number # 0}
Requests == {i \in 1..Len(uplink) : uplink[i] = "positions"}

\* The subscription lives as far as the page and the socket know.
Heard == subAlive /\ Signals("error") = {}

\* Positions as they are, or of an earlier day before the first trade of this one.
IsFresh(rows, d) == (d = day /\ rows = positions) \/ (d # day /\ trades = << >>)

PageTypeOK ==
  /\ day \in Nat /\ dealt \in Nat /\ book \in Nat
  /\ link \in {"new", "open", "lost"}
  /\ {subscribed, asked, syncing, tradesPending, subAlive} \subseteq BOOLEAN
  /\ uplink \in Seq({"subscribe", "positions", "orders"})
  /\ bus \in Seq(BusReport)
  /\ downlink \in Seq(Event)
  /\ queued \subseteq Nat
  /\ shown \in [Pairs -> Position] /\ shownDay \in Nat

\* A socket that is not open carries nothing, and one that is not subscribed
\* says so first and has something to ask for, unless it was refused.
LinkOK ==
  /\ link # "open" => ~subscribed /\ uplink = << >> /\ downlink = << >>
  /\ ~subscribed => bus = << >>
  /\ link = "new" => asked
  /\ link = "open" /\ ~subscribed /\ Heard =>
       /\ downlink = << >>
       /\ uplink # << >> /\ uplink[1] = "subscribe"
       /\ syncing \/ Requests # {}

\* Trades come down in their order, from the bus behind those on the socket, and
\* the orders answered contain what came down before them.
NumbersOK ==
  /\ book <= dealt
  /\ \A n \in queued : n <= dealt
  /\ \A i \in Signals("trade") :
       /\ downlink[i].number <= dealt
       /\ \A j \in Signals("trade") : j < i => downlink[j].number < downlink[i].number
  /\ \A i \in Signals("orders") :
       /\ downlink[i].number <= dealt
       /\ \A n \in queued : n <= downlink[i].number
       /\ \A j \in Signals("trade") : j < i => downlink[j].number <= downlink[i].number

BusOK ==
  \A i \in Unsent :
    /\ bus[i].number <= dealt
    /\ \A j \in Unsent : j < i => bus[j].number < bus[i].number
    /\ \A j \in Signals("trade") : downlink[j].number < bus[i].number

\* One request for positions or its answer is on its way when one is asked for.
OneRequest ==
  link = "open" =>
    /\ asked <=> Requests # {} \/ Signals("positions") # {}
    /\ Requests = {} \/ Signals("positions") = {}
    /\ \A i, j \in Requests : i = j
    /\ \A i, j \in Signals("positions") : i = j

\* The last trade comes down behind a place, and the book will take it in.
LastFlies(i) ==
  /\ book < dealt
  /\ \/ \E j \in Signals("trade") : i < j /\ downlink[j].number = dealt
     \/ \E j \in Unsent : bus[j].number = dealt

\* An answer that is out of date has orders behind it that will make the page
\* ask again, or the last trade, which no answer on its way contains.
AnswersOK ==
  \A i \in Signals("positions") :
    /\ downlink[i].day <= day
    /\ \/ ~Heard
       \/ IsFresh(downlink[i].rows, downlink[i].day)
       \/ \E j \in Signals("orders") : i < j
       \/ LastFlies(i) /\ \A j \in Signals("orders") : downlink[j].number < dealt

\* Something will make the page ask, or has.
Coming ==
  \/ tradesPending \/ syncing
  \/ Requests # {} \/ Signals("positions") # {} \/ Signals("orders") # {}
  \/ LastFlies(0)

ShownOK ==
  /\ shownDay <= day
  /\ link = "open" /\ Heard => Coming \/ IsFresh(shown, shownDay)

PageIInv ==
  /\ LedgerIInv /\ PageTypeOK
  /\ LinkOK /\ NumbersOK /\ BusOK /\ OneRequest /\ AnswersOK /\ ShownOK

LEMMA Events ==
  ASSUME NEW e \in Event
  PROVE  /\ e.kind \in {"trade", "orders", "positions", "error"}
         /\ e.kind \in {"trade", "orders"} => e.number \in Nat
         /\ e.kind \in {"positions", "orders"} => e.day \in Nat
         /\ e.kind = "positions" => e.rows \in [Pairs -> Position]
BY DEF Event

LEMMA SignalPlaces ==
  ASSUME downlink \in Seq(Event), NEW kind, NEW i \in Signals(kind)
  PROVE  i \in Nat /\ 1 <= i /\ i <= Len(downlink) /\ downlink[i].kind = kind /\ downlink[i] \in Event
BY DEF Signals

\* An event sent down the socket comes behind the others.
LEMMA OneMoreSignal ==
  ASSUME downlink \in Seq(Event), NEW e \in Event, downlink' = Append(downlink, e)
  PROVE  /\ downlink' \in Seq(Event)
         /\ Len(downlink) + 1 \in Nat
         /\ downlink'[Len(downlink) + 1] = e
         /\ \A kind : \A i \in Signals(kind) : i <= Len(downlink) /\ downlink'[i] = downlink[i]
         /\ \A kind : Signals(kind)' =
              Signals(kind) \cup IF e.kind = kind THEN {Len(downlink) + 1} ELSE {}
<1>1. PICK later : later = downlink'
  OBVIOUS
<1>2. PICK n \in Nat : n = Len(downlink)
  OBVIOUS
<1>3. later \in Seq(Event) /\ Len(later) = n + 1 /\ later[n + 1] = e
  BY <1>1, <1>2
<1>4. \A i \in 1..n : later[i] = downlink[i]
  BY <1>1, <1>2
<1>5. ASSUME NEW kind
      PROVE  Signals(kind)' = Signals(kind) \cup IF e.kind = kind THEN {n + 1} ELSE {}
  <2>1. Signals(kind)' = {i \in 1..(n + 1) : later[i].kind = kind}
    BY <1>1, <1>3 DEF Signals
  <2>2. Signals(kind) = {i \in 1..n : downlink[i].kind = kind}
    BY <1>2 DEF Signals
  <2> QED
    BY <1>3, <1>4, <2>1, <2>2
<1>6. \A kind : \A i \in Signals(kind) : i \in 1..n
  BY <1>2 DEF Signals
<1> QED
  BY <1>1, <1>2, <1>3, <1>4, <1>5, <1>6

\* An event received leaves the others a place nearer.
LEMMA OneSignalLess ==
  ASSUME downlink \in Seq(Event), downlink # << >>, downlink' = Tail(downlink)
  PROVE  /\ downlink' \in Seq(Event)
         /\ downlink[1] \in Event /\ 1 \in Signals(downlink[1].kind)
         /\ Head(downlink) = downlink[1]
         /\ \A kind : \A i \in Signals(kind)' :
              i \in Nat /\ i + 1 \in Signals(kind) /\ downlink'[i] = downlink[i + 1]
         /\ \A kind : \A i \in Signals(kind) : i = 1 \/ i - 1 \in Signals(kind)'
<1>1. PICK later : later = downlink'
  OBVIOUS
<1>2. PICK n \in Nat : n = Len(downlink)
  OBVIOUS
<1>3. n > 0 /\ later \in Seq(Event) /\ Len(later) = n - 1 /\ downlink[1] \in Event /\ Head(downlink) = downlink[1]
  BY <1>1, <1>2
<1>4. \A i \in 1..(n - 1) : later[i] = downlink[i + 1]
  BY <1>1, <1>2, <1>3
<1>5. ASSUME NEW kind
      PROVE  /\ Signals(kind)' = {i \in 1..(n - 1) : later[i].kind = kind}
             /\ Signals(kind) = {i \in 1..n : downlink[i].kind = kind}
  BY <1>1, <1>2, <1>3 DEF Signals
<1>6. ASSUME NEW kind, NEW i \in Signals(kind)'
      PROVE  i \in Nat /\ i + 1 \in Signals(kind) /\ later[i] = downlink[i + 1]
  <2>1. i \in 1..(n - 1) /\ later[i].kind = kind
    BY <1>5
  <2>2. i + 1 \in 1..n /\ later[i] = downlink[i + 1]
    BY <1>4, <2>1
  <2> QED
    BY <1>5, <2>1, <2>2
<1>7. ASSUME NEW kind, NEW i \in Signals(kind), i # 1
      PROVE  i - 1 \in Signals(kind)'
  <2>1. i \in 1..n /\ downlink[i].kind = kind
    BY <1>5
  <2>2. i - 1 \in 1..(n - 1) /\ later[i - 1] = downlink[i - 1 + 1] /\ i - 1 + 1 = i
    BY <1>4, <1>7, <2>1
  <2> QED
    BY <1>5, <2>1, <2>2
<1>8. 1 \in Signals(downlink[1].kind)
  BY <1>3, <1>5
<1> QED
  BY <1>1, <1>3, <1>6, <1>7, <1>8

Operations == {"subscribe", "positions", "orders"}

LEMMA OneMoreRequest ==
  ASSUME uplink \in Seq(Operations), uplink' = Append(uplink, "positions")
  PROVE  /\ uplink' \in Seq(Operations) /\ Requests' = Requests \cup {Len(uplink) + 1}
         /\ uplink # << >> => uplink' # << >> /\ uplink'[1] = uplink[1]
<1>1. PICK later : later = uplink'
  OBVIOUS
<1>2. PICK n \in Nat : n = Len(uplink)
  OBVIOUS
<1>3. later \in Seq(Operations) /\ Len(later) = n + 1 /\ later[n + 1] = "positions" /\ later # << >>
  BY <1>1, <1>2 DEF Operations
<1>4. \A i \in 1..n : later[i] = uplink[i]
  BY <1>1, <1>2
<1>5. Requests' = {i \in 1..(n + 1) : later[i] = "positions"}
  BY <1>1, <1>3 DEF Requests
<1>6. Requests = {i \in 1..n : uplink[i] = "positions"}
  BY <1>2 DEF Requests
<1>7. Requests' = Requests \cup {n + 1}
  BY <1>3, <1>4, <1>5, <1>6
<1>8. uplink # << >> => 1 \in 1..n
  BY <1>2
<1> QED
  BY <1>1, <1>2, <1>3, <1>4, <1>7, <1>8

LEMMA OneRequestLess ==
  ASSUME uplink \in Seq(Operations), uplink # << >>, uplink' = Tail(uplink)
  PROVE  /\ uplink' \in Seq(Operations)
         /\ Head(uplink) = uplink[1] /\ uplink[1] \in Operations
         /\ 1 \in Requests <=> uplink[1] = "positions"
         /\ \A i \in Requests' : i \in Nat /\ 1 <= i /\ i + 1 \in Requests
         /\ \A i \in Requests : i = 1 \/ i - 1 \in Requests'
<1>1. PICK later : later = uplink'
  OBVIOUS
<1>2. PICK n \in Nat : n = Len(uplink)
  OBVIOUS
<1>3. n > 0 /\ later \in Seq(Operations) /\ Len(later) = n - 1 /\ Head(uplink) = uplink[1]
      /\ uplink[1] \in Operations
  BY <1>1, <1>2
<1>4. \A i \in 1..(n - 1) : later[i] = uplink[i + 1]
  BY <1>1, <1>2, <1>3
<1>5. /\ Requests' = {i \in 1..(n - 1) : later[i] = "positions"}
      /\ Requests = {i \in 1..n : uplink[i] = "positions"}
  BY <1>1, <1>2, <1>3 DEF Requests
<1>6. ASSUME NEW i \in Requests'
      PROVE  i \in Nat /\ 1 <= i /\ i + 1 \in Requests
  <2>1. i \in 1..(n - 1) /\ later[i] = "positions"
    BY <1>5
  <2>2. i + 1 \in 1..n /\ later[i] = uplink[i + 1]
    BY <1>4, <2>1
  <2> QED
    BY <1>5, <2>1, <2>2
<1>7. ASSUME NEW i \in Requests, i # 1
      PROVE  i - 1 \in Requests'
  <2>1. i \in 1..n /\ uplink[i] = "positions"
    BY <1>5
  <2>2. i - 1 \in 1..(n - 1) /\ later[i - 1] = uplink[i - 1 + 1] /\ i - 1 + 1 = i
    BY <1>4, <1>7, <2>1
  <2> QED
    BY <1>5, <2>1, <2>2
<1>8. 1 \in Requests <=> uplink[1] = "positions"
  BY <1>3, <1>5
<1> QED
  BY <1>1, <1>3, <1>6, <1>7, <1>8

\* The same of a report that goes on the bus, and of one that leaves it.
LEMMA OneMoreReport ==
  ASSUME bus \in Seq(BusReport), NEW r \in BusReport, bus' = Append(bus, r)
  PROVE  /\ bus' \in Seq(BusReport)
         /\ Len(bus) + 1 \in Nat
         /\ bus'[Len(bus) + 1] = r
         /\ \A i \in Unsent : i \in Nat /\ i <= Len(bus) /\ bus'[i] = bus[i]
         /\ Unsent' = Unsent \cup IF r.number # 0 THEN {Len(bus) + 1} ELSE {}
<1>1. PICK later : later = bus'
  OBVIOUS
<1>2. PICK n \in Nat : n = Len(bus)
  OBVIOUS
<1>3. later \in Seq(BusReport) /\ Len(later) = n + 1 /\ later[n + 1] = r
  BY <1>1, <1>2
<1>4. \A i \in 1..n : later[i] = bus[i]
  BY <1>1, <1>2
<1>5. Unsent' = {i \in 1..(n + 1) : later[i].number # 0}
  BY <1>1, <1>3 DEF Unsent
<1>6. Unsent = {i \in 1..n : bus[i].number # 0}
  BY <1>2 DEF Unsent
<1>7. Unsent' = Unsent \cup IF r.number # 0 THEN {n + 1} ELSE {}
  BY <1>3, <1>4, <1>5, <1>6
<1>8. \A i \in Unsent : i \in Nat /\ i <= n
  BY <1>6
<1> QED
  BY <1>1, <1>2, <1>3, <1>4, <1>6, <1>7, <1>8

LEMMA OneReportLess ==
  ASSUME bus \in Seq(BusReport), bus # << >>, bus' = Tail(bus)
  PROVE  /\ bus' \in Seq(BusReport)
         /\ bus[1] \in BusReport /\ Head(bus) = bus[1]
         /\ 1 \in Unsent <=> bus[1].number # 0
         /\ \A i \in Unsent' : i \in Nat /\ 1 <= i /\ i + 1 \in Unsent /\ bus'[i] = bus[i + 1]
         /\ \A i \in Unsent : i \in Nat /\ (i = 1 \/ (i - 1 \in Unsent' /\ bus'[i - 1] = bus[i]))
<1>1. PICK later : later = bus'
  OBVIOUS
<1>2. PICK n \in Nat : n = Len(bus)
  OBVIOUS
<1>3. n > 0 /\ later \in Seq(BusReport) /\ Len(later) = n - 1 /\ Head(bus) = bus[1] /\ bus[1] \in BusReport
  BY <1>1, <1>2
<1>4. \A i \in 1..(n - 1) : later[i] = bus[i + 1]
  BY <1>1, <1>2, <1>3
<1>5. /\ Unsent' = {i \in 1..(n - 1) : later[i].number # 0}
      /\ Unsent = {i \in 1..n : bus[i].number # 0}
  BY <1>1, <1>2, <1>3 DEF Unsent
<1>6. ASSUME NEW i \in Unsent'
      PROVE  i \in Nat /\ 1 <= i /\ i + 1 \in Unsent /\ later[i] = bus[i + 1]
  <2>1. i \in 1..(n - 1) /\ later[i].number # 0
    BY <1>5
  <2>2. i + 1 \in 1..n /\ later[i] = bus[i + 1]
    BY <1>4, <2>1
  <2> QED
    BY <1>5, <2>1, <2>2
<1>7. ASSUME NEW i \in Unsent
      PROVE  i \in Nat /\ (i = 1 \/ (i - 1 \in Unsent' /\ later[i - 1] = bus[i]))
  <2>1. i \in 1..n /\ bus[i].number # 0
    BY <1>5
  <2>2. CASE i # 1
    <3>1. i - 1 \in 1..(n - 1) /\ later[i - 1] = bus[i - 1 + 1] /\ i - 1 + 1 = i
      BY <1>4, <2>1, <2>2
    <3> QED
      BY <1>5, <2>1, <3>1
  <2> QED
    BY <2>1, <2>2
<1>8. 1 \in Unsent <=> bus[1].number # 0
  BY <1>3, <1>5
<1> QED
  BY <1>1, <1>3, <1>6, <1>7, <1>8

LEMMA NothingSent ==
  /\ downlink = << >> => \A kind : Signals(kind) = {}
  /\ bus = << >> => Unsent = {}
<1>1. ASSUME downlink = << >>
      PROVE  \A kind : Signals(kind) = {}
  <2>1. Len(downlink) = 0
    BY <1>1
  <2> QED
    BY <2>1 DEF Signals
<1>2. ASSUME bus = << >>
      PROVE  Unsent = {}
  <2>1. Len(bus) = 0
    BY <1>2
  <2> QED
    BY <2>1 DEF Unsent
<1> QED
  BY <1>1, <1>2

LEMMA QuietKeepsPage ==
  ASSUME PageIInv, LedgerIInv',
         UNCHANGED <<trades, positions, day, dealt, linkVars, bookVars, viewVars>>
  PROVE  PageIInv'
<1>1. /\ trades' = trades /\ positions' = positions /\ day' = day /\ dealt' = dealt
      /\ link' = link /\ subscribed' = subscribed /\ uplink' = uplink /\ downlink' = downlink
      /\ bus' = bus /\ subAlive' = subAlive
      /\ book' = book /\ syncing' = syncing /\ queued' = queued /\ tradesPending' = tradesPending
      /\ asked' = asked /\ shown' = shown /\ shownDay' = shownDay
  BY DEF linkVars, bookVars, viewVars
<1>2. Requests' = Requests /\ Unsent' = Unsent /\ (\A kind : Signals(kind)' = Signals(kind)) /\ Heard' = Heard
  BY <1>1 DEF Requests, Unsent, Signals, Heard
<1>3. PageTypeOK' /\ LinkOK'
  BY <1>1, <1>2 DEF PageIInv, PageTypeOK, LinkOK
<1>4. NumbersOK' /\ BusOK' /\ OneRequest'
  BY <1>1, <1>2 DEF PageIInv, NumbersOK, BusOK, OneRequest
<1>5. AnswersOK' /\ ShownOK'
  BY <1>1, <1>2 DEF PageIInv, AnswersOK, ShownOK, Coming, IsFresh, LastFlies
<1> QED
  BY <1>3, <1>4, <1>5 DEF PageIInv

\* A new ledger makes everything read before it old, and has no trades.
LEMMA NewLedgerIsEmpty ==
  ASSUME PageIInv, NewLedger
  PROVE  /\ LedgerIInv' /\ day' = day + 1 /\ day \in Nat /\ dealt' = dealt
         /\ \A rows : \A d \in Nat : d <= day => IsFresh(rows, d)' /\ d <= day'
<1>1. LedgerInit'
  BY DEF NewLedger, LedgerInit
<1>2. LedgerInit' => LedgerIInv'
  BY LedgerStarts, PTL
<1>3. day' = day + 1 /\ day \in Nat /\ trades' = << >> /\ dealt' = dealt
  BY DEF NewLedger, PageIInv, PageTypeOK
<1>4. ASSUME NEW rows, NEW d \in Nat, d <= day
      PROVE  IsFresh(rows, d)' /\ d <= day'
  BY <1>3, <1>4 DEF IsFresh
<1> QED
  BY <1>1, <1>2, <1>3, <1>4

LEMMA ReseedKeepsPage ==
  ASSUME PageIInv, Reseed
  PROVE  PageIInv'
<1>1. /\ link' = link /\ subscribed' = subscribed /\ uplink' = uplink /\ downlink' = downlink
      /\ bus' = bus /\ subAlive' = subAlive
      /\ book' = book /\ syncing' = syncing /\ queued' = queued /\ tradesPending' = tradesPending
      /\ asked' = asked /\ shown' = shown /\ shownDay' = shownDay
  BY DEF Reseed, bookVars, viewVars
<1>2. /\ LedgerIInv' /\ day' = day + 1 /\ day \in Nat /\ dealt' = dealt
      /\ \A rows : \A d \in Nat : d <= day => IsFresh(rows, d)' /\ d <= day'
  BY NewLedgerIsEmpty DEF Reseed
<1>3. Requests' = Requests /\ Unsent' = Unsent /\ (\A kind : Signals(kind)' = Signals(kind)) /\ Heard' = Heard
  BY <1>1 DEF Requests, Unsent, Signals, Heard
<1>4. PageTypeOK' /\ LinkOK'
  BY <1>1, <1>2, <1>3 DEF PageIInv, PageTypeOK, LinkOK
<1>5. NumbersOK' /\ BusOK' /\ OneRequest'
  BY <1>1, <1>2, <1>3 DEF PageIInv, NumbersOK, BusOK, OneRequest
<1>6. AnswersOK'
  <2>1. ASSUME NEW i \in Signals("positions")
        PROVE  (downlink[i].day)' <= day' /\ IsFresh(downlink[i].rows, downlink[i].day)'
    <3>1. downlink[i] \in Event /\ downlink[i].kind = "positions"
      BY SignalPlaces DEF PageIInv, PageTypeOK
    <3>2. PICK rows \in [Pairs -> Position], d \in Nat : rows = downlink[i].rows /\ d = downlink[i].day
      BY <3>1, Events
    <3>3. d <= day
      BY <3>2 DEF PageIInv, AnswersOK
    <3>4. IsFresh(rows, d)' /\ d <= day'
      BY <1>2, <3>3
    <3> QED
      BY <1>1, <3>2, <3>4
  <2> QED
    BY <1>3, <2>1 DEF AnswersOK
<1>7. ShownOK'
  <2>1. PICK rows \in [Pairs -> Position], d \in Nat : rows = shown /\ d = shownDay
    BY DEF PageIInv, PageTypeOK
  <2>2. IsFresh(rows, d)' /\ d <= day'
    BY <1>2, <2>1 DEF PageIInv, ShownOK
  <2> QED
    BY <1>1, <2>1, <2>2 DEF ShownOK
<1> QED
  BY <1>2, <1>4, <1>5, <1>6, <1>7 DEF PageIInv

\* Without a socket only what is on the page matters.
LEMMA LostKeepsPage ==
  ASSUME PageIInv, LedgerIInv', day' \in Nat, day <= day', dealt' = dealt,
         subAlive' = subAlive, UNCHANGED <<bookVars, viewVars>>,
         link' # "open", link' \in {"new", "open", "lost"}, link' = "new" => link = "new",
         ~subscribed', subscribed' \in BOOLEAN, uplink' = << >>, downlink' = << >>, bus' = << >>
  PROVE  PageIInv'
<1>1. /\ book' = book /\ syncing' = syncing /\ queued' = queued /\ tradesPending' = tradesPending
      /\ asked' = asked /\ shown' = shown /\ shownDay' = shownDay
  BY DEF bookVars, viewVars
<1>2. (\A kind : Signals(kind)' = {}) /\ Unsent' = {}
  <2>1. Len(downlink') = 0 /\ Len(bus') = 0
    OBVIOUS
  <2> QED
    BY <2>1 DEF Signals, Unsent
<1>3. PageTypeOK'
  BY <1>1 DEF PageIInv, PageTypeOK
<1>4. LinkOK'
  BY <1>1 DEF PageIInv, LinkOK
<1>5. NumbersOK' /\ BusOK'
  BY <1>1, <1>2 DEF PageIInv, NumbersOK, BusOK
<1>6. OneRequest' /\ AnswersOK'
  BY <1>2 DEF OneRequest, AnswersOK
<1>7. ShownOK'
  BY <1>1 DEF PageIInv, PageTypeOK, ShownOK
<1> QED
  BY <1>3, <1>4, <1>5, <1>6, <1>7 DEF PageIInv

LEMMA DropKeepsPage ==
  ASSUME PageIInv, Drop
  PROVE  PageIInv'
<1>1. LedgerIInv'
  BY DEF PageIInv, Drop, ledgerVars, LedgerIInv, NetOf, Cash, Dealt
<1> QED
  <2>1. /\ day' \in Nat /\ day <= day' /\ dealt' = dealt /\ subAlive' = subAlive
        /\ UNCHANGED <<bookVars, viewVars>>
    BY DEF Drop, PageIInv, PageTypeOK
  <2>2. /\ link' = "lost" /\ ~subscribed' /\ subscribed' \in BOOLEAN
        /\ uplink' = << >> /\ downlink' = << >> /\ bus' = << >>
    BY DEF Drop, LoseSocket
  <2> QED
    BY <1>1, <2>1, <2>2, LostKeepsPage

LEMMA RestartKeepsPage ==
  ASSUME PageIInv, Restart
  PROVE  PageIInv'
<1>1. LedgerIInv' /\ day' = day + 1 /\ day \in Nat /\ dealt' = dealt
  BY NewLedgerIsEmpty DEF Restart
<1>2. link = "new" => ~subscribed /\ uplink = << >> /\ downlink = << >> /\ bus = << >>
  BY DEF PageIInv, LinkOK
<1>3. /\ link' # "open" /\ link' \in {"new", "open", "lost"} /\ (link' = "new" => link = "new")
      /\ ~subscribed' /\ subscribed' \in BOOLEAN
      /\ uplink' = << >> /\ downlink' = << >> /\ bus' = << >>
  <2>1. CASE link = "new"
    BY <1>2, <2>1 DEF Restart, PageIInv, PageTypeOK
  <2>2. CASE link # "new"
    BY <2>2 DEF Restart, LoseSocket
  <2> QED
    BY <2>1, <2>2
<1> QED
  <2>1. day' \in Nat /\ day <= day' /\ subAlive' = subAlive /\ UNCHANGED <<bookVars, viewVars>>
    BY <1>1 DEF Restart
  <2> QED
    BY <1>1, <1>3, <2>1, LostKeepsPage

LEMMA JoinedOperations ==
  ASSUME NEW a \in Seq(Operations), NEW b \in Seq(Operations)
  PROVE  /\ a \o b \in Seq(Operations) /\ Len(a) \in Nat /\ Len(b) \in Nat
         /\ Len(a \o b) = Len(a) + Len(b)
         /\ \A i \in 1..(Len(a) + Len(b)) : (a \o b)[i] = IF i <= Len(a) THEN a[i] ELSE b[i - Len(a)]
OBVIOUS

LEMMA OneMoreOperation ==
  ASSUME NEW s \in Seq(Operations), NEW x \in Operations
  PROVE  /\ Append(s, x) \in Seq(Operations) /\ Len(Append(s, x)) = Len(s) + 1
         /\ Append(s, x)[Len(s) + 1] = x
         /\ \A i \in 1..Len(s) : Append(s, x)[i] = s[i]
OBVIOUS

LEMMA Alone ==
  ASSUME NEW x \in Operations, NEW b \in BOOLEAN
  PROVE  \E s \in Seq(Operations) :
           /\ s = IF b THEN << x >> ELSE << >>
           /\ Len(s) = IF b THEN 1 ELSE 0
           /\ b => s[1] = x
<1>1. << x >> \in Seq(Operations) /\ << >> \in Seq(Operations)
  OBVIOUS
<1>2. Len(<< x >>) = 1 /\ << x >>[1] = x /\ Len(<< >>) = 0
  OBVIOUS
<1> DEFINE r == IF b THEN << x >> ELSE << >>
<1>3. (b => r = << x >>) /\ (~b => r = << >>)
  OBVIOUS
<1> HIDE DEF r
<1>4. r \in Seq(Operations) /\ (b => Len(r) = 1 /\ r[1] = x) /\ (~b => Len(r) = 0)
  BY <1>1, <1>2, <1>3, Zenon
<1>5. Len(r) = IF b THEN 1 ELSE 0
  BY <1>4
<1>6. r = IF b THEN << x >> ELSE << >>
  BY DEF r
<1> QED
  BY <1>4, <1>5, <1>6, Zenon

\* Operations without an answer go up again.
LEMMA ConnectKeepsPage ==
  ASSUME PageIInv, Connect
  PROVE  PageIInv'
<1>1. /\ ledgerVars' = ledgerVars /\ day' = day /\ dealt' = dealt
      /\ link # "open" /\ link' = "open" /\ subscribed' = subscribed /\ downlink' = downlink
      /\ bus' = bus /\ subAlive' = subAlive
      /\ book' = book /\ queued' = queued /\ tradesPending' = tradesPending
      /\ asked' = asked /\ shown' = shown /\ shownDay' = shownDay
      /\ syncing' = (syncing \/ link = "lost")
  BY DEF Connect, viewVars
<1>2. /\ ~subscribed /\ downlink = << >> /\ bus = << >>
      /\ (link = "new" => asked) /\ link \in {"new", "lost"}
      /\ asked \in BOOLEAN /\ subAlive \in BOOLEAN
  BY <1>1 DEF PageIInv, LinkOK, PageTypeOK
<1>3. /\ uplink' \in Seq(Operations)
      /\ subAlive => uplink' # << >> /\ uplink'[1] = "subscribe"
      /\ \A i, j \in Requests' : i = j
      /\ asked <=> Requests' # {}
  <2>1. PICK later : later = uplink'
    OBVIOUS
  <2>2. "subscribe" \in Operations /\ "positions" \in Operations
    BY DEF Operations
  <2>3. PICK first \in Seq(Operations) :
          /\ first = IF subAlive THEN << "subscribe" >> ELSE << >>
          /\ Len(first) = IF subAlive THEN 1 ELSE 0
          /\ subAlive => first[1] = "subscribe"
    BY <1>2, <2>2, Alone, Zenon
  <2>4. PICK rest \in Seq(Operations) :
          /\ rest = IF asked THEN << "positions" >> ELSE << >>
          /\ Len(rest) = IF asked THEN 1 ELSE 0
          /\ asked => rest[1] = "positions"
    BY <1>2, <2>2, Alone, Zenon
  <2>5. later = IF link = "lost" THEN Append(first \o rest, "orders") ELSE first \o rest
    BY <2>1, <2>3, <2>4 DEF Connect
  <2>6. /\ later \in Seq(Operations)
        /\ subAlive => later # << >> /\ later[1] = "subscribe"
        /\ \A i, j \in {k \in 1..Len(later) : later[k] = "positions"} : i = j
        /\ asked <=> {k \in 1..Len(later) : later[k] = "positions"} # {}
    <3> /\ subAlive \in BOOLEAN /\ asked \in BOOLEAN
        /\ Len(first) = (IF subAlive THEN 1 ELSE 0) /\ (subAlive => first[1] = "subscribe")
        /\ Len(rest) = (IF asked THEN 1 ELSE 0) /\ (asked => rest[1] = "positions")
        /\ later = IF link = "lost" THEN Append(first \o rest, "orders") ELSE first \o rest
      BY <1>2, <2>3, <2>4, <2>5, Zenon
    <3>1. PICK again : again = first \o rest
      OBVIOUS
    <3>2. PICK a : a = Len(first)
      OBVIOUS
    <3>3. PICK n : n = Len(again)
      OBVIOUS
    <3>4. /\ again \in Seq(Operations) /\ a \in Nat /\ n \in Nat /\ n = a + Len(rest)
          /\ \A i \in 1..n : again[i] = IF i <= a THEN first[i] ELSE rest[i - a]
      BY <3>1, <3>2, <3>3, JoinedOperations
    <3>5. /\ later \in Seq(Operations)
          /\ Len(later) = IF link = "lost" THEN n + 1 ELSE n
          /\ \A i \in 1..n : later[i] = again[i]
          /\ link = "lost" => later[n + 1] = "orders"
      <4>1. "orders" \in Operations
        BY DEF Operations
      <4>2. CASE link = "lost"
        <5>1. later = Append(again, "orders")
          BY <3>1, <4>2
        <5>2. /\ Append(again, "orders") \in Seq(Operations)
              /\ Len(Append(again, "orders")) = Len(again) + 1
              /\ Append(again, "orders")[Len(again) + 1] = "orders"
              /\ \A i \in 1..Len(again) : Append(again, "orders")[i] = again[i]
          BY <3>4, <4>1, OneMoreOperation, Zenon
        <5> QED
          BY <3>3, <4>2, <5>1, <5>2
      <4>3. CASE link # "lost"
        <5>1. later = again
          BY <3>1, <4>3
        <5> QED
          BY <3>3, <3>4, <4>3, <5>1
      <4> QED
        BY <4>2, <4>3
    <3>6. a = (IF subAlive THEN 1 ELSE 0) /\ Len(rest) = IF asked THEN 1 ELSE 0
      BY <3>2
    <3>7. \A i \in 1..a : i = 1 /\ subAlive /\ later[i] = "subscribe"
      BY <3>4, <3>5, <3>6
    <3>8. ASSUME NEW i \in 1..Len(later), later[i] = "positions"
          PROVE  asked /\ i = a + 1
      <4>1. i <= n
        BY <3>4, <3>5, <3>8
      <4>2. i > a
        BY <3>4, <3>7, <3>8
      <4> QED
        BY <3>4, <3>6, <4>1, <4>2
    <3>9. asked => a + 1 \in 1..Len(later) /\ later[a + 1] = "positions"
      <4>1. ASSUME asked
            PROVE  a + 1 \in 1..n /\ again[a + 1] = rest[1]
        BY <3>4, <3>6, <4>1
      <4> QED
        BY <3>4, <3>5, <4>1
    <3>10. subAlive => later # << >> /\ later[1] = "subscribe"
      BY <3>4, <3>5, <3>6
    <3> QED
      BY <3>5, <3>8, <3>9, <3>10
  <2>7. Requests' = {k \in 1..Len(later) : later[k] = "positions"}
    BY <2>1 DEF Requests
  <2> QED
    BY <2>1, <2>6, <2>7
<1>4. (\A kind : Signals(kind)' = {}) /\ Unsent' = {}
  <2>1. Len(downlink') = 0 /\ Len(bus') = 0
    BY <1>1, <1>2
  <2> QED
    BY <2>1 DEF Signals, Unsent
<1>5. LedgerIInv'
  BY <1>1 DEF PageIInv, ledgerVars, LedgerIInv, NetOf, Cash, Dealt
<1>6. PageTypeOK'
  BY <1>1, <1>3 DEF PageIInv, PageTypeOK, Operations
<1>7. syncing' \/ Requests' # {}
  BY <1>1, <1>2, <1>3
<1>8. LinkOK'
  <2>1. Heard' => subAlive
    BY <1>1 DEF Heard
  <2> QED
    BY <1>1, <1>2, <1>3, <1>7, <2>1 DEF LinkOK
<1>9. NumbersOK' /\ BusOK'
  BY <1>1, <1>4 DEF PageIInv, NumbersOK, BusOK
<1>10. OneRequest' /\ AnswersOK'
  BY <1>1, <1>3, <1>4 DEF OneRequest, AnswersOK
<1>11. ShownOK'
  BY <1>1, <1>7 DEF PageIInv, ShownOK, Coming
<1> QED
  BY <1>5, <1>6, <1>8, <1>9, <1>10, <1>11 DEF PageIInv

\* A trade goes on the bus behind everything that does not know it.
LEMMA TradeKeepsPage ==
  ASSUME PageIInv, NEW id \in Orders, NEW qty \in Int, qty > 0, NEW price \in Prices,
         Trade(id, qty, price)
  PROVE  PageIInv'
<1>1. /\ day' = day /\ dealt' = dealt + 1
      /\ link' = link /\ subscribed' = subscribed /\ uplink' = uplink
      /\ downlink' = downlink /\ subAlive' = subAlive
      /\ book' = book /\ syncing' = syncing /\ queued' = queued /\ tradesPending' = tradesPending
      /\ asked' = asked /\ shown' = shown /\ shownDay' = shownDay
  BY DEF Trade, bookVars, viewVars
<1>2. LedgerIInv'
  BY RecordKeepsBooks DEF PageIInv, Trade
<1>3. Requests' = Requests /\ (\A kind : Signals(kind)' = Signals(kind)) /\ Heard' = Heard
  BY <1>1 DEF Requests, Signals, Heard
<1>4. /\ day \in Nat /\ dealt \in Nat /\ book \in Nat /\ downlink \in Seq(Event) /\ bus \in Seq(BusReport)
      /\ subscribed \in BOOLEAN /\ book <= dealt
      /\ \A i \in Signals("trade") \cup Signals("orders") : downlink[i].number \in Nat /\ downlink[i].number <= dealt
  <2>1. downlink \in Seq(Event)
    BY DEF PageIInv, PageTypeOK
  <2>2. \A i \in Signals("trade") \cup Signals("orders") : downlink[i].number \in Nat
    BY <2>1, SignalPlaces, Events
  <2> QED
    BY <2>2 DEF PageIInv, PageTypeOK, NumbersOK
<1>5. NumbersOK'
  <2>1. book' <= dealt' /\ (\A n \in queued' : n <= dealt')
    BY <1>1, <1>4 DEF PageIInv, PageTypeOK, NumbersOK
  <2>2. \A i \in Signals("trade") \cup Signals("orders") : downlink[i].number <= dealt + 1
    BY <1>4
  <2> QED
    BY <1>1, <1>3, <2>1, <2>2 DEF PageIInv, NumbersOK
<1>6. OneRequest'
  BY <1>1, <1>3 DEF PageIInv, OneRequest
<1>7. CASE ~subscribed
  <2>1. bus' = bus /\ bus = << >> /\ Unsent = {} /\ Unsent' = Unsent
    BY <1>7, NothingSent DEF Trade, Published, PageIInv, LinkOK, Unsent
  <2>2. PageTypeOK'
    BY <1>1, <2>1 DEF PageIInv, PageTypeOK
  <2>3. LinkOK'
    BY <1>1, <1>3, <2>1 DEF PageIInv, LinkOK
  <2>4. BusOK'
    BY <2>1 DEF BusOK
  <2>5. link = "open" /\ Heard => downlink = << >> /\ (syncing \/ Requests # {})
    BY <1>7 DEF PageIInv, LinkOK
  <2>6. AnswersOK'
    <3>1. CASE downlink = << >>
      BY <1>3, <3>1, NothingSent DEF AnswersOK
    <3>2. CASE downlink # << >>
      <4>1. ~Heard
        BY <2>5, <3>2 DEF PageIInv, LinkOK
      <4> QED
        BY <1>1, <1>3, <4>1 DEF PageIInv, AnswersOK
    <3> QED
      BY <3>1, <3>2
  <2>7. ShownOK'
    BY <1>1, <1>3, <2>5 DEF PageIInv, ShownOK, Coming
  <2> QED
    BY <1>2, <1>5, <1>6, <2>2, <2>3, <2>4, <2>6, <2>7 DEF PageIInv
<1>8. CASE subscribed
  <2> DEFINE r == [id |-> id, number |-> dealt + 1]
  <2>1. r \in BusReport /\ r.number = dealt + 1 /\ r.number # 0
    BY <1>4 DEF BusReport
  <2>2. bus' = Append(bus, r)
    BY <1>1, <1>8 DEF Trade, Published
  <2> HIDE DEF r
  <2>3. PICK n \in Nat : n = Len(bus)
    BY <1>4
  <2>4. /\ bus' \in Seq(BusReport) /\ bus'[n + 1] = r
        /\ \A i \in Unsent : i \in Nat /\ i <= n /\ bus'[i] = bus[i]
        /\ Unsent' = Unsent \cup {n + 1}
    BY <1>4, <2>1, <2>2, <2>3, OneMoreReport
  <2>5. PageTypeOK'
    BY <1>1, <2>4 DEF PageIInv, PageTypeOK
  <2>6. LinkOK'
    BY <1>1, <1>3, <1>8 DEF PageIInv, LinkOK
  <2>7. BusOK'
    <3>1. ASSUME NEW i \in Unsent
          PROVE  bus[i].number <= dealt /\ bus[i].number \in Nat
      <4>1. bus[i] \in BusReport
        BY <1>4 DEF Unsent
      <4> QED
        BY <4>1 DEF PageIInv, BusOK, BusReport
    <3>2. ASSUME NEW i \in Unsent'
          PROVE  /\ bus'[i].number <= dealt'
                 /\ \A j \in Unsent' : j < i => bus'[j].number < bus'[i].number
                 /\ \A j \in Signals("trade") : downlink[j].number < bus'[i].number
      <4>1. CASE i = n + 1
        <5>1. bus'[i].number = dealt + 1
          BY <2>1, <2>4, <4>1
        <5>2. \A j \in Unsent' : j < i => j \in Unsent
          BY <2>3, <2>4, <4>1
        <5>3. \A j \in Unsent : bus'[j].number < dealt + 1
          BY <1>4, <2>4, <3>1
        <5>4. \A j \in Signals("trade") : downlink[j].number < dealt + 1
          BY <1>4
        <5> QED
          BY <1>1, <1>4, <5>1, <5>2, <5>3, <5>4
      <4>2. CASE i \in Unsent
        <5>1. \A j \in Unsent' : j < i => j \in Unsent
          BY <2>3, <2>4, <4>2
        <5>2. bus'[i].number <= dealt'
          BY <1>1, <1>4, <2>4, <3>1, <4>2
        <5> QED
          BY <2>4, <4>2, <5>1, <5>2 DEF PageIInv, BusOK
      <4> QED
        BY <2>4, <4>1, <4>2
    <3> QED
      BY <1>1, <1>3, <3>2 DEF BusOK
  <2>8. \A i : LastFlies(i)'
    <3>1. n + 1 \in Unsent' /\ bus'[n + 1].number = dealt'
      BY <1>1, <2>1, <2>4
    <3>2. book' < dealt'
      BY <1>1, <1>4
    <3> QED
      BY <3>1, <3>2 DEF LastFlies
  <2>9. AnswersOK'
    <3>1. \A i \in Signals("positions") : downlink[i].day <= day
      BY DEF PageIInv, AnswersOK
    <3>2. \A j \in Signals("orders") : downlink[j].number < dealt + 1
      BY <1>4
    <3>3. \A j \in Signals("orders")' : downlink'[j].number < dealt'
      BY <1>1, <1>3, <3>2
    <3>4. \A i \in Signals("positions")' : downlink'[i].day <= day'
      BY <1>1, <1>3, <3>1
    <3> QED
      BY <2>8, <3>3, <3>4 DEF AnswersOK
  <2>10. ShownOK'
    BY <1>1, <2>8 DEF PageIInv, ShownOK, Coming
  <2> QED
    BY <1>2, <1>5, <1>6, <2>5, <2>6, <2>7, <2>9, <2>10 DEF PageIInv
<1> QED
  BY <1>4, <1>7, <1>8

\* What is no trade takes a place on the bus and says nothing of money.
LEMMA OpenKeepsPage ==
  ASSUME PageIInv, NEW id \in Orders, NEW pair \in Pairs, NEW side \in Sides, NEW qty \in Quantities,
         OpenOrder(id, pair, side, qty)
  PROVE  PageIInv'
<1>1. /\ day' = day /\ dealt' = dealt /\ trades' = trades /\ positions' = positions
      /\ link' = link /\ subscribed' = subscribed /\ uplink' = uplink
      /\ downlink' = downlink /\ subAlive' = subAlive
      /\ book' = book /\ syncing' = syncing /\ queued' = queued /\ tradesPending' = tradesPending
      /\ asked' = asked /\ shown' = shown /\ shownDay' = shownDay
  BY DEF OpenOrder, Open, bookVars, viewVars
<1>2. LedgerIInv'
  BY OpenKeepsBooks DEF PageIInv, OpenOrder
<1>3. Requests' = Requests /\ (\A kind : Signals(kind)' = Signals(kind)) /\ Heard' = Heard
  BY <1>1 DEF Requests, Signals, Heard
<1>4. bus \in Seq(BusReport)
  BY DEF PageIInv, PageTypeOK
<1>5. /\ bus' \in Seq(BusReport) /\ Unsent' = Unsent /\ (\A i \in Unsent : bus'[i] = bus[i])
      /\ ~subscribed => bus' = bus
  <2>1. CASE ~subscribed
    BY <1>4, <2>1 DEF OpenOrder, Published, Unsent
  <2>2. CASE subscribed
    <3> DEFINE r == [id |-> id, number |-> 0]
    <3>1. r \in BusReport /\ r.number = 0
      BY DEF BusReport
    <3>2. bus' = Append(bus, r)
      BY <2>2 DEF OpenOrder, Published
    <3> HIDE DEF r
    <3> QED
      BY <1>4, <2>2, <3>1, <3>2, OneMoreReport
  <2> QED
    BY <2>1, <2>2
<1>6. PageTypeOK' /\ LinkOK'
  BY <1>1, <1>3, <1>5 DEF PageIInv, PageTypeOK, LinkOK
<1>7. NumbersOK' /\ BusOK' /\ OneRequest'
  BY <1>1, <1>3, <1>5 DEF PageIInv, NumbersOK, BusOK, OneRequest
<1>8. \A i : LastFlies(i)' <=> LastFlies(i)
  BY <1>1, <1>3, <1>5 DEF LastFlies
<1>9. AnswersOK' /\ ShownOK'
  BY <1>1, <1>3, <1>8 DEF PageIInv, AnswersOK, ShownOK, Coming, IsFresh
<1> QED
  BY <1>2, <1>6, <1>7, <1>9 DEF PageIInv

\* A report leaves the bus: for the page behind all that is on the socket, or
\* as the error that ends the subscription.
LEMMA SendKeepsPage ==
  ASSUME PageIInv, Send
  PROVE  PageIInv'
<1>1. /\ ledgerVars' = ledgerVars /\ day' = day /\ dealt' = dealt /\ bus # << >>
      /\ link' = link /\ uplink' = uplink /\ subAlive' = subAlive
      /\ book' = book /\ syncing' = syncing /\ queued' = queued /\ tradesPending' = tradesPending
      /\ asked' = asked /\ shown' = shown /\ shownDay' = shownDay
  BY DEF Send, bookVars, viewVars
<1>2. LedgerIInv' /\ trades' = trades /\ positions' = positions
  BY <1>1 DEF PageIInv, ledgerVars, LedgerIInv, NetOf, Cash, Dealt
<1>3. Requests' = Requests
  BY <1>1 DEF Requests
<1>4. /\ day \in Nat /\ dealt \in Nat /\ book \in Nat /\ downlink \in Seq(Event) /\ bus \in Seq(BusReport)
      /\ subscribed \in BOOLEAN /\ subscribed /\ link = "open"
  BY <1>1 DEF PageIInv, PageTypeOK, LinkOK
<1>5. PICK n \in Nat : n = Len(downlink)
  BY <1>4
<1>6. /\ Head(bus) = bus[1] /\ bus[1] \in BusReport /\ bus[1].number \in Nat
      /\ 1 \in Unsent <=> bus[1].number # 0
  <2>1. Len(bus) > 0 /\ bus[1] \in BusReport /\ Head(bus) = bus[1]
    BY <1>1, <1>4
  <2> QED
    BY <2>1 DEF BusReport, Unsent
<1>7. CASE meta[bus[1].id] = Unregistered
  <2> DEFINE e == [kind |-> "error"]
  <2>1. e \in Event /\ e.kind = "error"
    BY DEF Event
  <2>2. downlink' = Append(downlink, e) /\ bus' = << >> /\ subscribed' = FALSE
    BY <1>6, <1>7 DEF Send
  <2> HIDE DEF e
  <2>3. /\ downlink' \in Seq(Event)
        /\ \A kind : \A i \in Signals(kind) : downlink'[i] = downlink[i]
        /\ \A kind : Signals(kind)' = Signals(kind) \cup IF e.kind = kind THEN {n + 1} ELSE {}
    BY <1>4, <1>5, <2>1, <2>2, OneMoreSignal
  <2>4. /\ Signals("trade")' = Signals("trade") /\ Signals("orders")' = Signals("orders")
        /\ Signals("positions")' = Signals("positions") /\ ~Heard' /\ Unsent' = {}
    <3>1. Len(bus') = 0
      BY <2>2
    <3>2. Unsent' = {}
      BY <3>1 DEF Unsent
    <3>3. n + 1 \in Signals("error")'
      BY <2>1, <2>3
    <3>4. /\ Signals("trade")' = Signals("trade") /\ Signals("orders")' = Signals("orders")
          /\ Signals("positions")' = Signals("positions")
      BY <2>1, <2>3
    <3> QED
      BY <3>2, <3>3, <3>4 DEF Heard
  <2>5. PageTypeOK'
    <3>1. << >> \in Seq(BusReport)
      OBVIOUS
    <3>2. bus' \in Seq(BusReport) /\ subscribed' \in BOOLEAN
      BY <2>2, <3>1
    <3> QED
      BY <1>1, <2>3, <3>2 DEF PageIInv, PageTypeOK
  <2>6. LinkOK'
    BY <1>1, <1>4, <2>2, <2>4 DEF LinkOK
  <2>7. NumbersOK' /\ BusOK'
    BY <1>1, <2>3, <2>4 DEF PageIInv, NumbersOK, BusOK
  <2>8. OneRequest'
    BY <1>1, <1>3, <2>4 DEF PageIInv, OneRequest
  <2>9. AnswersOK' /\ ShownOK'
    BY <1>1, <2>3, <2>4 DEF PageIInv, AnswersOK, ShownOK
  <2> QED
    BY <1>2, <2>5, <2>6, <2>7, <2>8, <2>9 DEF PageIInv
<1>8. CASE meta[bus[1].id] # Unregistered
  <2>1. /\ bus' = Tail(bus) /\ subscribed' = subscribed
        /\ downlink' = IF bus[1].number = 0 THEN downlink
                       ELSE Append(downlink, [kind |-> "trade", number |-> bus[1].number])
    BY <1>6, <1>8 DEF Send
  <2>2. /\ bus' \in Seq(BusReport)
        /\ \A i \in Unsent' : i \in Nat /\ 1 <= i /\ i + 1 \in Unsent /\ bus'[i] = bus[i + 1]
        /\ \A i \in Unsent : i \in Nat /\ (i = 1 \/ (i - 1 \in Unsent' /\ bus'[i - 1] = bus[i]))
    BY <1>1, <1>4, <2>1, OneReportLess
  <2>3. CASE bus[1].number = 0
    <3>1. downlink' = downlink /\ 1 \notin Unsent
      BY <1>6, <2>1, <2>3
    <3>2. (\A kind : Signals(kind)' = Signals(kind)) /\ Heard' = Heard
      BY <1>1, <3>1 DEF Signals, Heard
    <3>3. PageTypeOK' /\ LinkOK'
      BY <1>1, <1>3, <1>4, <2>1, <2>2, <3>1, <3>2 DEF PageIInv, PageTypeOK, LinkOK
    <3>4. NumbersOK' /\ OneRequest'
      BY <1>1, <1>3, <3>1, <3>2 DEF PageIInv, NumbersOK, OneRequest
    <3>5. BusOK'
      <4>1. ASSUME NEW i \in Unsent', NEW j \in Unsent', j < i
            PROVE  bus'[j].number < bus'[i].number
        <5>1. i + 1 \in Unsent /\ j + 1 \in Unsent /\ j + 1 < i + 1
          BY <2>2, <4>1
        <5> QED
          BY <2>2, <5>1 DEF PageIInv, BusOK
      <4> QED
        BY <1>1, <2>2, <3>1, <3>2, <4>1 DEF PageIInv, BusOK
    <3>6. \A i : LastFlies(i) => LastFlies(i)'
      <4>1. \A k \in Unsent : k - 1 \in Unsent' /\ bus'[k - 1] = bus[k]
        BY <2>2, <3>1
      <4> QED
        BY <1>1, <3>1, <3>2, <4>1 DEF LastFlies
    <3>7. AnswersOK' /\ ShownOK'
      BY <1>1, <1>2, <1>3, <3>1, <3>2, <3>6 DEF PageIInv, AnswersOK, ShownOK, Coming, IsFresh
    <3> QED
      BY <1>2, <3>3, <3>4, <3>5, <3>7 DEF PageIInv
  <2>4. CASE bus[1].number # 0
    <3> DEFINE e == [kind |-> "trade", number |-> bus[1].number]
    <3>1. e \in Event /\ e.kind = "trade" /\ e.number = bus[1].number
      BY <1>6 DEF Event
    <3>2. downlink' = Append(downlink, e)
      BY <2>1, <2>4
    <3> HIDE DEF e
    <3>3. /\ downlink' \in Seq(Event) /\ downlink'[n + 1] = e
          /\ \A kind : \A i \in Signals(kind) : i \in Nat /\ i <= n /\ downlink'[i] = downlink[i]
          /\ Signals("trade")' = Signals("trade") \cup {n + 1}
          /\ Signals("orders")' = Signals("orders")
          /\ Signals("positions")' = Signals("positions")
          /\ Signals("error")' = Signals("error")
      <4>1. /\ downlink' \in Seq(Event) /\ downlink'[n + 1] = e
            /\ \A kind : \A i \in Signals(kind) : i <= n /\ downlink'[i] = downlink[i]
            /\ \A kind : Signals(kind)' = Signals(kind) \cup IF e.kind = kind THEN {n + 1} ELSE {}
        BY <1>4, <1>5, <3>1, <3>2, OneMoreSignal
      <4>2. \A kind : \A i \in Signals(kind) : i \in Nat
        BY DEF Signals
      <4>3. /\ Signals("trade")' = Signals("trade") \cup {n + 1}
            /\ Signals("orders")' = Signals("orders")
            /\ Signals("positions")' = Signals("positions")
            /\ Signals("error")' = Signals("error")
        BY <3>1, <4>1
      <4> QED
        BY <4>1, <4>2, <4>3
    <3>4. Heard' = Heard
      BY <1>1, <3>3 DEF Heard
    <3>5. /\ 1 \in Unsent /\ bus[1].number <= dealt
          /\ \A j \in Signals("trade") : downlink[j].number < bus[1].number
      BY <1>6, <2>4 DEF PageIInv, BusOK
    <3>6. PageTypeOK' /\ LinkOK'
      BY <1>1, <1>3, <1>4, <2>1, <2>2, <3>3, <3>4 DEF PageIInv, PageTypeOK, LinkOK
    <3>7. NumbersOK'
      <4>1. ASSUME NEW i \in Signals("trade")'
            PROVE  /\ downlink'[i].number <= dealt
                   /\ \A j \in Signals("trade")' : j < i => downlink'[j].number < downlink'[i].number
        <5>1. CASE i = n + 1
          <6>1. \A j \in Signals("trade")' : j < i => j \in Signals("trade")
            BY <1>5, <3>3, <5>1
          <6> QED
            BY <3>1, <3>3, <3>5, <5>1, <6>1
        <5>2. CASE i \in Signals("trade")
          <6>1. \A j \in Signals("trade")' : j < i => j \in Signals("trade")
            BY <1>5, <3>3, <5>2
          <6> QED
            BY <3>3, <5>2, <6>1 DEF PageIInv, NumbersOK
        <5> QED
          BY <3>3, <5>1, <5>2
      <4>2. ASSUME NEW i \in Signals("orders")
            PROVE  \A j \in Signals("trade")' : j < i => downlink'[j].number <= downlink'[i].number
        <5>1. \A j \in Signals("trade")' : j < i => j \in Signals("trade")
          BY <1>5, <3>3
        <5> QED
          BY <3>3, <5>1 DEF PageIInv, NumbersOK
      <4> QED
        BY <1>1, <3>3, <4>1, <4>2 DEF PageIInv, NumbersOK
    <3>8. BusOK'
      <4>1. ASSUME NEW i \in Unsent', NEW j \in Unsent', j < i
            PROVE  bus'[j].number < bus'[i].number
        <5>1. i + 1 \in Unsent /\ j + 1 \in Unsent /\ j + 1 < i + 1
          BY <2>2, <4>1
        <5> QED
          BY <2>2, <5>1 DEF PageIInv, BusOK
      <4>2. ASSUME NEW i \in Unsent', NEW j \in Signals("trade")'
            PROVE  downlink'[j].number < bus'[i].number
        <5>1. i + 1 \in Unsent /\ 1 < i + 1 /\ bus'[i] = bus[i + 1]
          BY <2>2
        <5>2. CASE j = n + 1
          BY <3>1, <3>3, <3>5, <5>1, <5>2 DEF PageIInv, BusOK
        <5>3. CASE j \in Signals("trade")
          BY <3>3, <5>1, <5>3 DEF PageIInv, BusOK
        <5> QED
          BY <3>3, <5>2, <5>3
      <4>3. \A i \in Unsent' : bus'[i].number <= dealt'
        BY <1>1, <2>2 DEF PageIInv, BusOK
      <4> QED
        BY <4>1, <4>2, <4>3 DEF BusOK
    <3>9. OneRequest'
      BY <1>1, <1>3, <3>3 DEF PageIInv, OneRequest
    <3>10. \A i \in Nat : i <= n /\ LastFlies(i) => LastFlies(i)'
      <4>1. SUFFICES ASSUME NEW i \in Nat, i <= n, LastFlies(i)
                     PROVE  LastFlies(i)'
        OBVIOUS
      <4>2. ASSUME NEW j \in Signals("trade"), i < j, downlink[j].number = dealt
            PROVE  LastFlies(i)'
        BY <1>1, <3>3, <4>1, <4>2 DEF LastFlies
      <4>3. ASSUME NEW j \in Unsent, bus[j].number = dealt
            PROVE  LastFlies(i)'
        <5>1. CASE j = 1
          <6>1. n + 1 \in Signals("trade")' /\ i < n + 1 /\ downlink'[n + 1].number = dealt'
            BY <1>1, <1>5, <3>1, <3>3, <4>1, <4>3, <5>1
          <6> QED
            BY <1>1, <4>1, <6>1 DEF LastFlies
        <5>2. CASE j # 1
          BY <1>1, <2>2, <4>1, <4>3, <5>2 DEF LastFlies
        <5> QED
          BY <5>1, <5>2
      <4> QED
        BY <4>1, <4>2, <4>3 DEF LastFlies
    <3>11. AnswersOK' /\ ShownOK'
      <4>1. 0 <= n
        OBVIOUS
      <4>2. \A i \in Signals("positions") : i \in Nat /\ i <= n
        BY <3>3
      <4>3. AnswersOK'
        BY <1>1, <1>2, <3>3, <3>4, <3>10, <4>2 DEF PageIInv, AnswersOK, IsFresh
      <4>4. ShownOK'
        BY <1>1, <1>2, <1>3, <3>3, <3>4, <3>10, <4>1 DEF PageIInv, ShownOK, Coming, IsFresh
      <4> QED
        BY <4>3, <4>4
    <3> QED
      BY <1>2, <3>6, <3>7, <3>8, <3>9, <3>11 DEF PageIInv
  <2> QED
    BY <2>3, <2>4
<1> QED
  BY <1>7, <1>8

\* What the flush does: a query is on its way, shared or sent.
LEMMA FlushKeepsPage ==
  ASSUME PageIInv, FlushTrades
  PROVE  PageIInv'
<1>1. /\ ledgerVars' = ledgerVars /\ day' = day /\ dealt' = dealt
      /\ link' = link /\ subscribed' = subscribed /\ downlink' = downlink
      /\ bus' = bus /\ subAlive' = subAlive
      /\ book' = book /\ syncing' = syncing /\ queued' = queued /\ ~tradesPending'
      /\ tradesPending' \in BOOLEAN
      /\ asked' = TRUE /\ shown' = shown /\ shownDay' = shownDay
      /\ uplink' = IF asked \/ link # "open" THEN uplink ELSE Append(uplink, "positions")
  BY DEF FlushTrades, Refetch
<1>2. LedgerIInv'
  BY <1>1 DEF PageIInv, ledgerVars, LedgerIInv, NetOf, Cash, Dealt
<1>3. (\A kind : Signals(kind)' = Signals(kind)) /\ Unsent' = Unsent /\ Heard' = Heard
  BY <1>1 DEF Signals, Unsent, Heard
<1>4. uplink \in Seq(Operations)
  BY DEF PageIInv, PageTypeOK, Operations
<1>5. /\ uplink' \in Seq(Operations)
      /\ uplink # << >> => uplink' # << >> /\ uplink'[1] = uplink[1]
      /\ link # "open" => uplink' = uplink
      /\ Requests' = IF asked \/ link # "open" THEN Requests ELSE Requests \cup {Len(uplink) + 1}
  <2>1. CASE asked \/ link # "open"
    BY <1>1, <1>4, <2>1 DEF Requests
  <2>2. CASE ~(asked \/ link # "open")
    BY <1>1, <1>4, <2>2, OneMoreRequest
  <2> QED
    BY <2>1, <2>2
<1>6. PageTypeOK'
  BY <1>1, <1>5 DEF PageIInv, PageTypeOK, Operations
<1>7. LinkOK'
  BY <1>1, <1>3, <1>5 DEF PageIInv, LinkOK
<1>8. NumbersOK' /\ BusOK'
  BY <1>1, <1>3 DEF PageIInv, NumbersOK, BusOK
<1>9. OneRequest'
  BY <1>1, <1>3, <1>5 DEF PageIInv, OneRequest
<1>10. AnswersOK'
  BY <1>1, <1>3 DEF PageIInv, AnswersOK, LastFlies, IsFresh, ledgerVars
<1>11. ShownOK'
  BY <1>1, <1>3, <1>9 DEF PageIInv, ShownOK, Coming, OneRequest
<1> QED
  BY <1>2, <1>6, <1>7, <1>8, <1>9, <1>10, <1>11 DEF PageIInv

\* The server takes the next operation up and answers it as things stand.
LEMMA ServeKeepsPage ==
  ASSUME PageIInv, Serve
  PROVE  PageIInv'
<1>1. /\ ledgerVars' = ledgerVars /\ day' = day /\ dealt' = dealt
      /\ link = "open" /\ link' = "open" /\ uplink # << >> /\ uplink' = Tail(uplink)
      /\ book' = book /\ syncing' = syncing /\ queued' = queued /\ tradesPending' = tradesPending
      /\ asked' = asked /\ shown' = shown /\ shownDay' = shownDay
      /\ bus' = bus /\ subAlive' = subAlive
  BY DEF Serve, bookVars, viewVars
<1>2. trades' = trades /\ positions' = positions
  BY <1>1 DEF ledgerVars
<1>3. LedgerIInv'
  BY <1>1 DEF PageIInv, ledgerVars, LedgerIInv, NetOf, Cash, Dealt
<1>4. /\ uplink \in Seq(Operations) /\ downlink \in Seq(Event)
      /\ day \in Nat /\ dealt \in Nat /\ positions \in [Pairs -> Position]
  BY DEF PageIInv, PageTypeOK, Operations, LedgerIInv
<1>5. /\ uplink' \in Seq(Operations)
      /\ Head(uplink) = uplink[1] /\ uplink[1] \in Operations
      /\ 1 \in Requests <=> uplink[1] = "positions"
      /\ \A i \in Requests' : i \in Nat /\ 1 <= i /\ i + 1 \in Requests
      /\ \A i \in Requests : i = 1 \/ i - 1 \in Requests'
  BY <1>1, <1>4, OneRequestLess
<1>6. subscribed' = (subscribed \/ uplink[1] = "subscribe") /\ subscribed \in BOOLEAN
  BY <1>5 DEF Serve, PageIInv, PageTypeOK
<1>7. Heard /\ uplink[1] # "subscribe" => subscribed
  BY <1>1 DEF PageIInv, LinkOK
<1>8. Unsent' = Unsent
  BY <1>1 DEF Unsent
<1>9. Heard' = Heard => LinkOK'
  <2>1. ~subscribed' => bus' = << >>
    BY <1>1, <1>6 DEF PageIInv, LinkOK
  <2>2. Heard => subscribed'
    BY <1>6, <1>7
  <2> QED
    BY <1>1, <2>1, <2>2 DEF LinkOK
<1>10. uplink[1] # "positions" => (Requests' # {} <=> Requests # {})
                                  /\ ((\A i, j \in Requests : i = j) => \A i, j \in Requests' : i = j)
  <2>1. ASSUME uplink[1] # "positions"
        PROVE  Requests' # {} <=> Requests # {}
    BY <1>5, <2>1
  <2>2. ASSUME \A i, j \in Requests : i = j, NEW i \in Requests', NEW j \in Requests'
        PROVE  i = j
    <3>1. i + 1 = j + 1 /\ i \in Nat /\ j \in Nat
      BY <1>5, <2>2
    <3> QED
      BY <3>1
  <2> QED
    BY <2>1, <2>2
<1>11. CASE uplink[1] = "subscribe"
  <2>1. downlink' = downlink
    BY <1>5, <1>11 DEF Serve
  <2>2. (\A kind : Signals(kind)' = Signals(kind)) /\ Heard' = Heard
    BY <1>1, <2>1 DEF Signals, Heard
  <2>3. PageTypeOK'
    BY <1>1, <1>5, <1>6, <2>1 DEF PageIInv, PageTypeOK, Operations
  <2>4. NumbersOK' /\ BusOK'
    BY <1>1, <1>8, <2>1, <2>2 DEF PageIInv, NumbersOK, BusOK
  <2>5. OneRequest'
    BY <1>1, <1>10, <1>11, <2>2 DEF PageIInv, OneRequest
  <2>6. \A i : LastFlies(i)' <=> LastFlies(i)
    BY <1>1, <1>8, <2>1, <2>2 DEF LastFlies
  <2>7. AnswersOK'
    BY <1>1, <1>2, <2>1, <2>2, <2>6 DEF PageIInv, AnswersOK, IsFresh
  <2>8. ShownOK'
    BY <1>1, <1>2, <1>10, <1>11, <2>2, <2>6 DEF PageIInv, ShownOK, Coming, IsFresh
  <2> QED
    BY <1>3, <1>9, <2>2, <2>3, <2>4, <2>5, <2>7, <2>8 DEF PageIInv
<1>12. CASE uplink[1] = "orders"
  <2> DEFINE e == [kind |-> "orders", number |-> dealt, day |-> day]
  <2>1. e \in Event /\ e.kind = "orders" /\ e.number = dealt
    BY <1>4 DEF Event
  <2>2. downlink' = Append(downlink, e)
    BY <1>5, <1>12 DEF Serve
  <2> HIDE DEF e
  <2>3. PICK n \in Nat : n = Len(downlink)
    BY <1>4
  <2>4. /\ downlink' \in Seq(Event) /\ downlink'[n + 1] = e
        /\ \A kind : \A i \in Signals(kind) : i <= n /\ downlink'[i] = downlink[i]
        /\ \A kind : Signals(kind)' = Signals(kind) \cup IF e.kind = kind THEN {n + 1} ELSE {}
    BY <1>4, <2>1, <2>2, <2>3, OneMoreSignal
  <2>5. \A kind : \A i \in Signals(kind) : i \in Nat
    BY DEF Signals
  <2>6. /\ Signals("trade")' = Signals("trade")
        /\ Signals("orders")' = Signals("orders") \cup {n + 1}
        /\ Signals("positions")' = Signals("positions")
        /\ Signals("error")' = Signals("error")
    BY <2>1, <2>4
  <2>7. Heard' = Heard
    BY <1>1, <2>6 DEF Heard
  <2>8. PageTypeOK'
    BY <1>1, <1>5, <1>6, <2>4 DEF PageIInv, PageTypeOK, Operations
  <2>9. NumbersOK' /\ BusOK'
    <3>1. \A i \in Signals("trade") : i <= n /\ downlink'[i] = downlink[i] /\ downlink[i].number <= dealt
      BY <2>4 DEF PageIInv, NumbersOK
    <3>2. ASSUME NEW i \in Signals("orders")'
          PROVE  /\ downlink'[i].number <= dealt
                 /\ \A k \in queued : k <= downlink'[i].number
                 /\ \A j \in Signals("trade") : j < i => downlink'[j].number <= downlink'[i].number
      <4>1. CASE i = n + 1
        <5>1. downlink'[i].number = dealt
          BY <2>1, <2>4, <4>1
        <5> QED
          BY <1>4, <3>1, <5>1 DEF PageIInv, NumbersOK
      <4>2. CASE i \in Signals("orders")
        BY <2>4, <3>1, <4>2 DEF PageIInv, NumbersOK
      <4> QED
        BY <2>6, <4>1, <4>2
    <3> QED
      BY <1>1, <1>8, <2>6, <3>1, <3>2 DEF PageIInv, NumbersOK, BusOK
  <2>10. OneRequest'
    BY <1>1, <1>10, <1>12, <2>6 DEF PageIInv, OneRequest
  <2>11. AnswersOK'
    <3>1. \A i \in Signals("positions") : i < n + 1 /\ n + 1 \in Signals("orders")'
      BY <2>3, <2>4, <2>5, <2>6
    <3>2. \A i \in Signals("positions") : downlink'[i].day <= day'
      BY <1>1, <2>4 DEF PageIInv, AnswersOK
    <3> QED
      BY <2>6, <3>1, <3>2 DEF AnswersOK
  <2>12. ShownOK'
    BY <1>1, <2>6 DEF PageIInv, ShownOK, Coming
  <2> QED
    BY <1>3, <1>9, <2>7, <2>8, <2>9, <2>10, <2>11, <2>12 DEF PageIInv
<1>13. CASE uplink[1] = "positions"
  <2> DEFINE e == [kind |-> "positions", rows |-> positions, day |-> day]
  <2>1. e \in Event /\ e.kind = "positions" /\ e.rows = positions /\ e.day = day
    BY <1>4 DEF Event
  <2>2. downlink' = Append(downlink, e)
    BY <1>5, <1>13 DEF Serve
  <2> HIDE DEF e
  <2>3. PICK n \in Nat : n = Len(downlink)
    BY <1>4
  <2>4. /\ downlink' \in Seq(Event) /\ downlink'[n + 1] = e
        /\ \A kind : \A i \in Signals(kind) : i <= n /\ downlink'[i] = downlink[i]
        /\ \A kind : Signals(kind)' = Signals(kind) \cup IF e.kind = kind THEN {n + 1} ELSE {}
    BY <1>4, <2>1, <2>2, <2>3, OneMoreSignal
  <2>5. 1 \in Requests /\ (\A i, j \in Requests : i = j) /\ Signals("positions") = {} /\ asked
    BY <1>1, <1>5, <1>13 DEF PageIInv, OneRequest
  <2>6. Requests' = {}
    BY <1>5, <2>5
  <2>7. /\ Signals("trade")' = Signals("trade")
        /\ Signals("orders")' = Signals("orders")
        /\ Signals("positions")' = {n + 1}
        /\ Signals("error")' = Signals("error")
    BY <2>1, <2>4, <2>5
  <2>8. Heard' = Heard
    BY <1>1, <2>7 DEF Heard
  <2>9. PageTypeOK'
    BY <1>1, <1>5, <1>6, <2>4 DEF PageIInv, PageTypeOK, Operations
  <2>10. NumbersOK' /\ BusOK'
    BY <1>1, <1>8, <2>4, <2>7 DEF PageIInv, NumbersOK, BusOK
  <2>11. OneRequest'
    BY <1>1, <2>5, <2>6, <2>7 DEF OneRequest
  <2>12. AnswersOK'
    BY <1>1, <1>2, <1>4, <2>1, <2>4, <2>7 DEF AnswersOK, IsFresh
  <2>13. ShownOK'
    BY <1>1, <2>7 DEF PageIInv, ShownOK, Coming
  <2> QED
    BY <1>3, <1>9, <2>8, <2>9, <2>10, <2>11, <2>12, <2>13 DEF PageIInv
<1> QED
  BY <1>5, <1>11, <1>12, <1>13 DEF Operations

\* What every event received leaves as it was, and how the others move up.
LEMMA ReceivedLeaves ==
  ASSUME PageIInv, Received
  PROVE  /\ trades' = trades /\ positions' = positions /\ day' = day /\ dealt' = dealt
         /\ link = "open" /\ link' = "open" /\ subscribed' = subscribed /\ bus' = bus
         /\ Heard => subscribed
         /\ LedgerIInv' /\ Unsent' = Unsent
         /\ day \in Nat /\ dealt \in Nat /\ downlink' \in Seq(Event)
         /\ downlink[1] \in Event /\ Head(downlink) = downlink[1] /\ 1 \in Signals(downlink[1].kind)
         /\ \A kind : \A i \in Signals(kind)' :
              i \in Nat /\ 1 <= i /\ i + 1 \in Signals(kind) /\ downlink'[i] = downlink[i + 1]
         /\ \A kind : \A i \in Signals(kind) : i = 1 \/ i - 1 \in Signals(kind)'
         /\ \A kind : \A i \in Signals(kind) : i \in Nat /\ 1 <= i
<1>1. /\ ledgerVars' = ledgerVars /\ day' = day /\ dealt' = dealt
      /\ link = "open" /\ link' = "open" /\ subscribed' = subscribed /\ bus' = bus
      /\ downlink # << >> /\ downlink' = Tail(downlink)
  BY DEF Received
<1>2. Heard => subscribed
  BY <1>1 DEF PageIInv, LinkOK
<1>3. LedgerIInv' /\ trades' = trades /\ positions' = positions
  BY <1>1 DEF PageIInv, ledgerVars, LedgerIInv, NetOf, Cash, Dealt
<1>4. Unsent' = Unsent
  BY <1>1 DEF Unsent
<1>5. day \in Nat /\ dealt \in Nat /\ downlink \in Seq(Event)
  BY DEF PageIInv, PageTypeOK
<1>6. /\ downlink' \in Seq(Event)
      /\ downlink[1] \in Event /\ Head(downlink) = downlink[1] /\ 1 \in Signals(downlink[1].kind)
      /\ \A kind : \A i \in Signals(kind)' :
           i \in Nat /\ i + 1 \in Signals(kind) /\ downlink'[i] = downlink[i + 1]
      /\ \A kind : \A i \in Signals(kind) : i = 1 \/ i - 1 \in Signals(kind)'
  BY <1>1, <1>5, OneSignalLess
<1>7. /\ \A kind : \A i \in Signals(kind) : i \in Nat /\ 1 <= i
      /\ \A kind : \A i \in Signals(kind)' : 1 <= i
  BY DEF Signals
<1> QED
  BY <1>1, <1>2, <1>3, <1>4, <1>5, <1>6, <1>7

\* Only the subscription's own error changes whether it is heard.
LEMMA ErrorsStay ==
  ASSUME PageIInv, Received
  PROVE  /\ downlink[1].kind # "error" /\ subAlive' = subAlive => (Heard' <=> Heard) /\ LinkOK'
         /\ ~subAlive' => ~Heard' /\ LinkOK'
<1>1. ASSUME downlink[1].kind # "error"
      PROVE  Signals("error")' = {} <=> Signals("error") = {}
  <2>1. 1 \notin Signals("error")
    BY <1>1 DEF Signals
  <2> QED
    BY <2>1, ReceivedLeaves
<1>2. ~subscribed' => bus' = << >>
  BY ReceivedLeaves DEF PageIInv, LinkOK
<1>3. ASSUME downlink[1].kind # "error", subAlive' = subAlive
      PROVE  (Heard' <=> Heard) /\ LinkOK'
  <2>1. Heard' <=> Heard
    BY <1>1, <1>3 DEF Heard
  <2> QED
    BY <1>2, <2>1, ReceivedLeaves DEF LinkOK
<1>4. ASSUME ~subAlive'
      PROVE  ~Heard' /\ LinkOK'
  <2>1. ~Heard'
    BY <1>4 DEF Heard
  <2> QED
    BY <1>2, <2>1, ReceivedLeaves DEF LinkOK
<1> QED
  BY <1>3, <1>4

\* An event nearer, the answers still have behind them what they had, as long as
\* the book does not take the last trade in.
LEMMA AnswersMoveUp ==
  ASSUME PageIInv, Received, Heard' => Heard,
         \A i \in Signals("positions") :
           /\ i > 1 /\ LastFlies(i)
           /\ \A j \in Signals("orders") : downlink[j].number < dealt
           => book' < dealt
  PROVE  AnswersOK'
<1>1. ASSUME NEW i \in Signals("positions")'
      PROVE  /\ downlink'[i].day <= day'
             /\ \/ ~Heard'
                \/ IsFresh(downlink[i].rows, downlink[i].day)'
                \/ \E j \in Signals("orders")' : i < j
                \/ LastFlies(i)' /\ \A j \in Signals("orders")' : downlink'[j].number < dealt'
  <2>1. /\ i \in Nat /\ 1 <= i /\ i + 1 \in Signals("positions") /\ downlink'[i] = downlink[i + 1]
        /\ i + 1 > 1
    BY ReceivedLeaves
  <2>2. /\ downlink[i + 1].day <= day
        /\ \/ ~Heard
           \/ IsFresh(downlink[i + 1].rows, downlink[i + 1].day)
           \/ \E j \in Signals("orders") : i + 1 < j
           \/ LastFlies(i + 1) /\ \A j \in Signals("orders") : downlink[j].number < dealt
    BY <2>1 DEF PageIInv, AnswersOK
  <2>3. trades' = trades /\ positions' = positions /\ day' = day /\ dealt' = dealt /\ bus' = bus
        /\ Unsent' = Unsent
    BY ReceivedLeaves
  <2>4. CASE ~Heard \/ IsFresh(downlink[i + 1].rows, downlink[i + 1].day)
    BY <2>1, <2>2, <2>3, <2>4 DEF IsFresh
  <2>5. ASSUME NEW kind, NEW j \in Signals(kind), i + 1 < j
        PROVE  j - 1 \in Signals(kind)' /\ i < j - 1 /\ downlink'[j - 1] = downlink[j]
    <3>1. j - 1 \in Signals(kind)' /\ j \in Nat /\ j - 1 + 1 = j
      BY <2>1, <2>5, ReceivedLeaves
    <3> QED
      BY <2>1, <2>5, <3>1, ReceivedLeaves
  <2>6. CASE \E j \in Signals("orders") : i + 1 < j
    BY <2>1, <2>2, <2>3, <2>5, <2>6
  <2>7. CASE LastFlies(i + 1) /\ \A j \in Signals("orders") : downlink[j].number < dealt
    <3>1. book' < dealt'
      BY <2>1, <2>3, <2>7
    <3>2. \A j \in Signals("orders")' : downlink'[j].number < dealt'
      BY <2>3, <2>7, ReceivedLeaves
    <3>3. LastFlies(i)'
      <4>1. ASSUME NEW j \in Signals("trade"), i + 1 < j, downlink[j].number = dealt
            PROVE  LastFlies(i)'
        BY <2>3, <2>5, <3>1, <4>1 DEF LastFlies
      <4>2. ASSUME NEW j \in Unsent, bus[j].number = dealt
            PROVE  LastFlies(i)'
        BY <2>3, <3>1, <4>2 DEF LastFlies
      <4> QED
        BY <2>7, <4>1, <4>2 DEF LastFlies
    <3> QED
      BY <2>1, <2>2, <2>3, <3>2, <3>3
  <2> QED
    BY <2>2, <2>4, <2>6, <2>7
<1> QED
  BY <1>1 DEF AnswersOK

\* And are no more than they were.
LEMMA AnswersStayOne ==
  ASSUME PageIInv, Received
  PROVE  /\ \A i, j \in Signals("positions")' : i = j
         /\ downlink[1].kind # "positions" => (Signals("positions")' = {} <=> Signals("positions") = {})
         /\ downlink[1].kind = "positions" => Signals("positions")' = {} /\ Requests = {} /\ asked
<1>1. \A i, j \in Signals("positions") : i = j
  BY ReceivedLeaves DEF PageIInv, OneRequest
<1>2. ASSUME NEW i \in Signals("positions")', NEW j \in Signals("positions")'
      PROVE  i = j
  <2>1. i \in Nat /\ j \in Nat /\ i + 1 = j + 1
    BY <1>1, ReceivedLeaves
  <2> QED
    BY <2>1
<1>3. ASSUME downlink[1].kind # "positions"
      PROVE  Signals("positions")' = {} <=> Signals("positions") = {}
  <2>1. 1 \notin Signals("positions")
    BY <1>3 DEF Signals
  <2> QED
    BY <2>1, ReceivedLeaves
<1>4. ASSUME downlink[1].kind = "positions"
      PROVE  Signals("positions")' = {} /\ Requests = {} /\ asked
  <2>1. 1 \in Signals("positions")
    BY <1>4, ReceivedLeaves
  <2>2. Requests = {} /\ asked
    BY <2>1, ReceivedLeaves DEF PageIInv, OneRequest
  <2>3. ASSUME NEW i \in Signals("positions")'
        PROVE  FALSE
    <3>1. i + 1 \in Signals("positions") /\ i \in Nat /\ 1 <= i /\ i + 1 = 1
      BY <1>1, <2>1, ReceivedLeaves
    <3> QED
      BY <3>1
  <2> QED
    BY <2>2, <2>3
<1> QED
  BY <1>2, <1>3, <1>4

\* Numbers that move up keep their order, as long as the queue keeps below the
\* orders that are behind the event received.
LEMMA NumbersMoveUp ==
  ASSUME PageIInv, Received, book' <= dealt, \A n \in queued' : n <= dealt,
         \A i \in Signals("orders") : i > 1 => \A n \in queued' : n <= downlink[i].number
  PROVE  NumbersOK' /\ BusOK'
<1>1. ASSUME NEW i \in Signals("trade")'
      PROVE  /\ downlink'[i].number <= dealt'
             /\ \A j \in Signals("trade")' : j < i => downlink'[j].number < downlink'[i].number
  <2>1. i \in Nat /\ i + 1 \in Signals("trade") /\ downlink'[i] = downlink[i + 1] /\ dealt' = dealt
    BY ReceivedLeaves
  <2>2. ASSUME NEW j \in Signals("trade")', j < i
        PROVE  downlink'[j].number < downlink'[i].number
    <3>1. j \in Nat /\ j + 1 \in Signals("trade") /\ downlink'[j] = downlink[j + 1]
      BY ReceivedLeaves
    <3>2. j + 1 < i + 1
      BY <2>1, <2>2, <3>1
    <3> QED
      BY <2>1, <3>1, <3>2 DEF PageIInv, NumbersOK
  <2> QED
    BY <2>1, <2>2 DEF PageIInv, NumbersOK
<1>2. ASSUME NEW i \in Signals("orders")'
      PROVE  /\ downlink'[i].number <= dealt'
             /\ \A n \in queued' : n <= downlink'[i].number
             /\ \A j \in Signals("trade")' : j < i => downlink'[j].number <= downlink'[i].number
  <2>1. /\ i \in Nat /\ i + 1 \in Signals("orders") /\ downlink'[i] = downlink[i + 1] /\ dealt' = dealt
        /\ i + 1 > 1
    BY ReceivedLeaves
  <2>2. ASSUME NEW j \in Signals("trade")', j < i
        PROVE  downlink'[j].number <= downlink'[i].number
    <3>1. j \in Nat /\ j + 1 \in Signals("trade") /\ downlink'[j] = downlink[j + 1]
      BY ReceivedLeaves
    <3>2. j + 1 < i + 1
      BY <2>1, <2>2, <3>1
    <3> QED
      BY <2>1, <3>1, <3>2 DEF PageIInv, NumbersOK
  <2> QED
    BY <2>1, <2>2 DEF PageIInv, NumbersOK
<1>3. dealt' = dealt /\ bus' = bus /\ Unsent' = Unsent
  BY ReceivedLeaves
<1>4. BusOK'
  BY <1>3, ReceivedLeaves DEF PageIInv, BusOK
<1> QED
  BY <1>1, <1>2, <1>3, <1>4 DEF NumbersOK

LEMMA TradeReceivedKeepsPage ==
  ASSUME PageIInv, ReceiveTrade
  PROVE  PageIInv'
<1>1. Received /\ downlink[1].kind = "trade" /\ Head(downlink) = downlink[1]
  BY ReceivedLeaves DEF ReceiveTrade
<1>2. PICK number \in Nat : number = downlink[1].number
  BY <1>1, ReceivedLeaves, Events
<1>3. /\ uplink' = uplink /\ syncing' = syncing /\ asked' = asked /\ subAlive' = subAlive
      /\ shown' = shown /\ shownDay' = shownDay
  BY DEF ReceiveTrade, viewVars
<1>4. /\ book \in Nat /\ queued \subseteq Nat /\ dealt \in Nat
      /\ syncing \in BOOLEAN /\ tradesPending \in BOOLEAN /\ 1 \in Signals("trade")
      /\ number <= dealt /\ book <= dealt /\ \A n \in queued : n <= dealt
  BY <1>1, <1>2, ReceivedLeaves DEF PageIInv, PageTypeOK, NumbersOK
<1>5. /\ syncing => queued' = queued \cup {number} /\ book' = book /\ tradesPending' = tradesPending
      /\ ~syncing => /\ book' = IF number > book THEN number ELSE book
                     /\ tradesPending' = (tradesPending \/ number > book)
                     /\ queued' = queued
  BY <1>1, <1>2 DEF ReceiveTrade
<1>6. /\ book' \in Nat /\ queued' \subseteq Nat /\ tradesPending' \in BOOLEAN
      /\ book' <= dealt /\ (\A n \in queued' : n <= dealt)
      /\ book < dealt /\ number < dealt => book' < dealt
  <2>1. CASE syncing
    <3>1. book' = book /\ queued' = queued \cup {number} /\ tradesPending' = tradesPending
      BY <1>5, <2>1
    <3> QED
      BY <1>4, <3>1
  <2>2. CASE ~syncing
    <3>1. /\ book' = IF number > book THEN number ELSE book
          /\ tradesPending' = (tradesPending \/ number > book) /\ queued' = queued
      BY <1>5, <2>2
    <3> QED
      BY <1>4, <3>1
  <2> QED
    BY <1>4, <2>1, <2>2
<1>7. PageTypeOK'
  BY <1>1, <1>3, <1>6, ReceivedLeaves DEF PageIInv, PageTypeOK
<1>8. NumbersOK' /\ BusOK'
  <2>1. ASSUME NEW i \in Signals("orders"), i > 1
        PROVE  \A n \in queued' : n <= downlink[i].number
    <3>1. number <= downlink[i].number /\ \A n \in queued : n <= downlink[i].number
      BY <1>2, <1>4, <2>1 DEF PageIInv, NumbersOK
    <3> QED
      BY <1>4, <1>5, <3>1
  <2> QED
    BY <1>1, <1>6, <2>1, NumbersMoveUp
<1>9. Requests' = Requests
  BY <1>3 DEF Requests
<1>10. OneRequest'
  BY <1>1, <1>3, <1>9, AnswersStayOne, ReceivedLeaves DEF PageIInv, OneRequest
<1>11. (Heard' <=> Heard) /\ LinkOK'
  BY <1>1, <1>3, ErrorsStay
<1>12. AnswersOK'
  <2>1. ASSUME NEW i \in Signals("positions"), i > 1, LastFlies(i)
        PROVE  book' < dealt
    <3>1. book < dealt
      BY <2>1 DEF LastFlies
    <3>2. number < dealt
      <4>1. ASSUME NEW j \in Signals("trade"), i < j, downlink[j].number = dealt
            PROVE  number < dealt
        <5>1. 1 < j
          BY <2>1, <4>1, ReceivedLeaves, <1>1
        <5> QED
          BY <1>2, <1>4, <4>1, <5>1 DEF PageIInv, NumbersOK
      <4>2. ASSUME NEW j \in Unsent, bus[j].number = dealt
            PROVE  number < dealt
        BY <1>2, <1>4, <4>2 DEF PageIInv, BusOK
      <4> QED
        BY <2>1, <4>1, <4>2 DEF LastFlies
    <3> QED
      BY <1>6, <3>1, <3>2
  <2> QED
    BY <1>1, <1>11, <2>1, AnswersMoveUp
<1>13. ShownOK'
  <2>1. SUFFICES ASSUME Heard', ~Coming'
                 PROVE  IsFresh(shown, shownDay)'
    BY <1>1, <1>3, ReceivedLeaves DEF PageIInv, ShownOK
  <2>2. /\ ~tradesPending' /\ ~syncing /\ Requests = {} /\ Signals("positions")' = {}
        /\ Signals("orders")' = {} /\ ~LastFlies(0)'
    BY <1>3, <1>9, <2>1 DEF Coming
  <2>3. number <= book /\ book' = book /\ ~tradesPending
    <3>1. /\ book' = IF number > book THEN number ELSE book
          /\ tradesPending' = (tradesPending \/ number > book)
      BY <1>5, <2>2
    <3>2. ~(number > book) /\ ~tradesPending
      BY <2>2, <3>1
    <3> QED
      BY <1>4, <3>1, <3>2
  <2>4. 1 \notin Signals("orders") /\ 1 \notin Signals("positions")
    BY <1>1 DEF Signals
  <2>5. Signals("orders") = {} /\ Signals("positions") = {}
    BY <1>1, <2>2, <2>4, ReceivedLeaves
  <2>6. ~LastFlies(0)
    <3>1. ASSUME LastFlies(0)
          PROVE  FALSE
      <4>1. book < dealt
        BY <3>1 DEF LastFlies
      <4>2. ASSUME NEW j \in Signals("trade"), downlink[j].number = dealt
            PROVE  LastFlies(0)'
        <5>1. j # 1
          BY <1>2, <1>4, <2>3, <4>1, <4>2
        <5>2. j - 1 \in Signals("trade")' /\ j \in Nat /\ j - 1 + 1 = j
          BY <1>1, <5>1, ReceivedLeaves
        <5>3. 0 < j - 1 /\ downlink'[j - 1].number = dealt
          BY <1>1, <4>2, <5>2, ReceivedLeaves
        <5> QED
          BY <1>1, <2>3, <4>1, <5>2, <5>3, ReceivedLeaves DEF LastFlies
      <4>3. ASSUME NEW j \in Unsent, bus[j].number = dealt
            PROVE  LastFlies(0)'
        BY <1>1, <2>3, <4>1, <4>3, ReceivedLeaves DEF LastFlies
      <4> QED
        BY <2>2, <3>1, <4>2, <4>3 DEF LastFlies
    <3> QED
      BY <3>1
  <2>7. ~Coming /\ Heard /\ link = "open"
    BY <1>1, <1>11, <2>1, <2>2, <2>3, <2>5, <2>6, ReceivedLeaves, <1>4 DEF Coming
  <2>8. IsFresh(shown, shownDay)
    BY <2>7 DEF PageIInv, ShownOK
  <2> QED
    BY <1>1, <1>3, <2>8, ReceivedLeaves DEF IsFresh
<1> QED
  BY <1>1, <1>7, <1>8, <1>10, <1>11, <1>12, <1>13, ReceivedLeaves DEF PageIInv

\* After the error nothing more is promised.
LEMMA ErrorReceivedKeepsPage ==
  ASSUME PageIInv, ReceiveError
  PROVE  PageIInv'
<1>1. Received /\ downlink[1].kind = "error" /\ Head(downlink) = downlink[1] /\ subAlive' = FALSE
  BY ReceivedLeaves DEF ReceiveError
<1>2. /\ uplink' = uplink /\ asked' = asked /\ shown' = shown /\ shownDay' = shownDay
      /\ book' = book /\ syncing' = syncing /\ queued' = queued /\ tradesPending' = tradesPending
  BY DEF ReceiveError, viewVars, bookVars
<1>3. ~Heard' /\ LinkOK'
  BY <1>1, ErrorsStay
<1>4. PageTypeOK'
  BY <1>1, <1>2, ReceivedLeaves DEF PageIInv, PageTypeOK
<1>5. NumbersOK' /\ BusOK'
  <2>1. /\ book <= dealt /\ \A n \in queued : n <= dealt
        /\ \A i \in Signals("orders") : \A n \in queued : n <= downlink[i].number
    BY DEF PageIInv, NumbersOK
  <2> QED
    BY <1>1, <1>2, <2>1, NumbersMoveUp
<1>6. Requests' = Requests
  BY <1>2 DEF Requests
<1>7. OneRequest'
  BY <1>1, <1>2, <1>6, AnswersStayOne, ReceivedLeaves DEF PageIInv, OneRequest
<1>8. AnswersOK'
  <2>1. \A i : LastFlies(i) => book' < dealt
    BY <1>2 DEF LastFlies
  <2> QED
    BY <1>1, <1>3, <2>1, AnswersMoveUp
<1>9. ShownOK'
  BY <1>1, <1>2, <1>3, ReceivedLeaves DEF PageIInv, ShownOK
<1> QED
  BY <1>1, <1>3, <1>4, <1>5, <1>7, <1>8, <1>9, ReceivedLeaves DEF PageIInv

LEMMA OrdersReceivedKeepPage ==
  ASSUME PageIInv, ReceiveOrders
  PROVE  PageIInv'
<1>1. Received /\ downlink[1].kind = "orders" /\ Head(downlink) = downlink[1]
  BY ReceivedLeaves DEF ReceiveOrders
<1>2. PICK number \in Nat : number = downlink[1].number
  BY <1>1, ReceivedLeaves, Events
<1>3. \A n \in queued : n <= number /\ n \in Nat
  BY <1>1, <1>2, ReceivedLeaves DEF PageIInv, NumbersOK, PageTypeOK
<1>4. {n \in queued : n > number} = {}
  BY <1>3
<1>5. Max({number}) = number
  BY DEF Max
<1>6. /\ book' = number /\ syncing' = FALSE /\ queued' = {} /\ tradesPending' \in BOOLEAN
      /\ shown' = shown /\ shownDay' = shownDay /\ subAlive' = subAlive
  <2>1. book' = Max({n \in queued : n > number} \cup {number})
    BY <1>1, <1>2 DEF ReceiveOrders
  <2>2. {n \in queued : n > number} \cup {number} = {number}
    BY <1>4
  <2>3. tradesPending' = (tradesPending \/ {n \in queued : n > number} # {})
    BY <1>1, <1>2 DEF ReceiveOrders
  <2>4. /\ syncing' = FALSE /\ queued' = {} /\ shown' = shown /\ shownDay' = shownDay
        /\ subAlive' = subAlive
    BY DEF ReceiveOrders
  <2> QED
    BY <1>4, <1>5, <2>1, <2>2, <2>3, <2>4 DEF PageIInv, PageTypeOK
<1>7. asked' = TRUE /\ uplink' = IF asked THEN uplink ELSE Append(uplink, "positions")
  BY <1>1, ReceivedLeaves DEF ReceiveOrders, Refetch
<1>8. uplink \in Seq(Operations)
  BY DEF PageIInv, PageTypeOK, Operations
<1>9. /\ uplink' \in Seq(Operations)
      /\ Requests' = IF asked THEN Requests ELSE Requests \cup {Len(uplink) + 1}
  <2>1. CASE asked
    BY <1>7, <1>8, <2>1 DEF Requests
  <2>2. CASE ~asked
    BY <1>7, <1>8, <2>2, OneMoreRequest
  <2> QED
    BY <2>1, <2>2
<1>10. PageTypeOK'
  BY <1>1, <1>2, <1>6, <1>7, <1>9, ReceivedLeaves DEF PageIInv, PageTypeOK, Operations
<1>11. 1 \in Signals("orders") /\ number <= dealt
  BY <1>1, <1>2, ReceivedLeaves DEF PageIInv, NumbersOK
<1>12. NumbersOK' /\ BusOK'
  BY <1>1, <1>6, <1>11, NumbersMoveUp
<1>13. OneRequest'
  <2>1. /\ asked <=> Requests # {} \/ Signals("positions") # {}
        /\ Requests = {} \/ Signals("positions") = {}
        /\ \A i, j \in Requests : i = j
    BY <1>1, ReceivedLeaves DEF PageIInv, OneRequest
  <2>2. /\ \A i, j \in Signals("positions")' : i = j
        /\ Signals("positions")' = {} <=> Signals("positions") = {}
    BY <1>1, AnswersStayOne
  <2> QED
    BY <1>7, <1>9, <2>1, <2>2 DEF OneRequest
<1>14. (Heard' <=> Heard) /\ LinkOK'
  BY <1>1, <1>6, ErrorsStay
<1>15. AnswersOK'
  BY <1>1, <1>2, <1>6, <1>11, <1>14, AnswersMoveUp
<1>16. ShownOK'
  <2>1. Requests' # {} \/ Signals("positions")' # {}
    BY <1>1, <1>7, <1>13, ReceivedLeaves DEF OneRequest
  <2> QED
    BY <1>1, <1>6, <2>1, ReceivedLeaves DEF PageIInv, ShownOK, Coming
<1> QED
  BY <1>1, <1>10, <1>12, <1>13, <1>14, <1>15, <1>16, ReceivedLeaves DEF PageIInv

LEMMA PositionsReceivedKeepPage ==
  ASSUME PageIInv, ReceivePositions
  PROVE  PageIInv'
<1>1. Received /\ downlink[1].kind = "positions" /\ Head(downlink) = downlink[1]
  BY ReceivedLeaves DEF ReceivePositions
<1>2. PICK rows \in [Pairs -> Position], d \in Nat : rows = downlink[1].rows /\ d = downlink[1].day
  BY <1>1, ReceivedLeaves, Events
<1>3. /\ uplink' = uplink /\ asked' = FALSE /\ shown' = rows /\ shownDay' = d /\ subAlive' = subAlive
      /\ book' = book /\ syncing' = syncing /\ queued' = queued /\ tradesPending' = tradesPending
  BY <1>1, <1>2 DEF ReceivePositions, bookVars
<1>4. PageTypeOK'
  BY <1>1, <1>3, ReceivedLeaves DEF PageIInv, PageTypeOK
<1>5. NumbersOK' /\ BusOK'
  <2>1. book <= dealt /\ \A n \in queued : n <= dealt
    BY DEF PageIInv, NumbersOK
  <2>2. \A i \in Signals("orders") : \A n \in queued : n <= downlink[i].number
    BY DEF PageIInv, NumbersOK
  <2> QED
    BY <1>1, <1>3, <2>1, <2>2, NumbersMoveUp
<1>6. OneRequest'
  <2>1. Signals("positions")' = {} /\ Requests = {}
    BY <1>1, AnswersStayOne
  <2>2. Requests' = Requests
    BY <1>3 DEF Requests
  <2> QED
    BY <1>3, <2>1, <2>2 DEF OneRequest
<1>7. (Heard' <=> Heard) /\ LinkOK'
  BY <1>1, <1>3, ErrorsStay
<1>8. AnswersOK'
  <2>1. \A i : LastFlies(i) => book' < dealt
    BY <1>3 DEF LastFlies
  <2> QED
    BY <1>1, <1>7, <2>1, AnswersMoveUp
<1>9. ShownOK'
  <2>1. 1 \in Signals("positions")
    BY <1>1, ReceivedLeaves
  <2>2. d <= day /\ (~Heard \/ IsFresh(rows, d) \/ (\E j \in Signals("orders") : 1 < j) \/ LastFlies(1))
    BY <1>2, <2>1 DEF PageIInv, AnswersOK
  <2>3. (\E j \in Signals("orders") : 1 < j) => Signals("orders")' # {}
    BY <1>1, ReceivedLeaves
  <2>4. IsFresh(rows, d) => IsFresh(shown, shownDay)'
    BY <1>1, <1>3, ReceivedLeaves DEF IsFresh
  <2>5. shownDay' <= day'
    BY <1>1, <1>3, <2>2, ReceivedLeaves
  <2>6. LastFlies(1) => LastFlies(0)'
    <3>1. ASSUME NEW j \in Signals("trade"), 1 < j, downlink[j].number = dealt, book < dealt
          PROVE  LastFlies(0)'
      <4>1. j - 1 \in Signals("trade")' /\ j \in Nat /\ j - 1 + 1 = j
        BY <1>1, <3>1, ReceivedLeaves
      <4>2. 0 < j - 1 /\ downlink'[j - 1].number = dealt
        BY <1>1, <3>1, <4>1, ReceivedLeaves
      <4> QED
        BY <1>1, <1>3, <3>1, <4>1, <4>2, ReceivedLeaves DEF LastFlies
    <3>2. ASSUME NEW j \in Unsent, bus[j].number = dealt, book < dealt
          PROVE  LastFlies(0)'
      BY <1>1, <1>3, <3>2, ReceivedLeaves DEF LastFlies
    <3> QED
      BY <3>1, <3>2 DEF LastFlies
  <2> QED
    BY <1>7, <2>2, <2>3, <2>4, <2>5, <2>6 DEF ShownOK, Coming
<1> QED
  BY <1>1, <1>4, <1>5, <1>6, <1>7, <1>8, <1>9, ReceivedLeaves DEF PageIInv

LEMMA PageStarts == Init => PageIInv
<1> SUFFICES ASSUME Init PROVE PageIInv
  OBVIOUS
<1>1. LedgerIInv
  BY LedgerStarts DEF Init
<1>2. /\ day = 1 /\ dealt = 0 /\ link = "new" /\ subscribed = FALSE
      /\ bus = << >> /\ uplink = << >> /\ downlink = << >> /\ subAlive = TRUE
      /\ asked = TRUE /\ book = 0 /\ syncing = FALSE /\ queued = {} /\ tradesPending = FALSE
      /\ shown = positions /\ shownDay = 1
  BY DEF Init
<1>3. (\A kind : Signals(kind) = {}) /\ Unsent = {}
  BY <1>2, NothingSent
<1>4. PageTypeOK
  <2>1. << >> \in Seq({"subscribe", "positions", "orders"}) /\ << >> \in Seq(Event) /\ << >> \in Seq(BusReport)
    OBVIOUS
  <2>2. {subscribed, asked, syncing, tradesPending, subAlive} \subseteq BOOLEAN
    BY <1>2
  <2>3. shown \in [Pairs -> Position]
    BY <1>1, <1>2 DEF LedgerIInv
  <2> QED
    BY <1>2, <2>1, <2>2, <2>3 DEF PageTypeOK
<1>5. LinkOK /\ NumbersOK /\ BusOK /\ OneRequest /\ AnswersOK /\ ShownOK
  BY <1>2, <1>3 DEF LinkOK, NumbersOK, BusOK, OneRequest, AnswersOK, ShownOK
<1> QED
  BY <1>1, <1>4, <1>5 DEF PageIInv

LEMMA PageKeeps == PageIInv /\ [Next]_vars => PageIInv'
<1> SUFFICES ASSUME PageIInv, [Next]_vars PROVE PageIInv'
  OBVIOUS
<1>1. ASSUME NEW id \in Orders, NEW pair \in Pairs, NEW side \in {"buy", "sell"}, NEW qty \in Quantities,
             OpenOrder(id, pair, side, qty)
      PROVE  PageIInv'
  BY <1>1, OpenKeepsPage DEF Sides
<1>2. ASSUME NEW id \in Orders, NEW price \in Prices,
             NEW lastQty \in 1..(meta[id].qty - Filled(id)), Trade(id, lastQty, price)
      PROVE  PageIInv'
  <2>1. lastQty \in Int /\ lastQty > 0
    OBVIOUS
  <2> QED
    BY <1>2, <2>1, TradeKeepsPage
<1>3. CASE Send \/ Serve \/ Reseed \/ Drop \/ Restart \/ Connect
  BY <1>3, SendKeepsPage, ServeKeepsPage, ReseedKeepsPage, DropKeepsPage, RestartKeepsPage,
     ConnectKeepsPage
<1>4. CASE ReceiveTrade \/ ReceiveError \/ ReceiveOrders \/ ReceivePositions \/ FlushTrades
  BY <1>4, TradeReceivedKeepsPage, ErrorReceivedKeepsPage, OrdersReceivedKeepPage,
     PositionsReceivedKeepPage, FlushKeepsPage
<1>5. CASE UNCHANGED vars
  <2>1. UNCHANGED ledgerVars
    BY <1>5 DEF vars
  <2>2. LedgerIInv'
    BY <2>1 DEF PageIInv, ledgerVars, LedgerIInv, NetOf, Cash, Dealt
  <2> QED
    BY <1>5, <2>2, QuietKeepsPage DEF vars, ledgerVars
<1> QED
  BY <1>1, <1>2, <1>3, <1>4, <1>5 DEF Next

\* A page to which nothing is on its way, its subscription alive, is current.
LEMMA QuietPageIsCurrent ==
  ASSUME PageIInv, Quiet, subAlive
  PROVE  IsFresh(shown, shownDay)
<1>1. link = "open" /\ ~asked /\ ~syncing /\ ~tradesPending /\ downlink = << >> /\ bus = << >>
  BY DEF Quiet
<1>2. (\A kind : Signals(kind) = {}) /\ Unsent = {}
  BY <1>1, NothingSent
<1>3. Requests = {}
  BY <1>1 DEF PageIInv, OneRequest
<1>4. ~Coming
  BY <1>1, <1>2, <1>3 DEF Coming, LastFlies
<1> QED
  BY <1>1, <1>2, <1>4 DEF PageIInv, ShownOK, Heard

\* An accounted position, marked at any mid, is worth the cash that moved and
\* what closing at that mid would bring.
LEMMA MarkedMoney ==
  ASSUME NEW p \in Position, NEW net \in Int, NEW cash \in Int, Accounts(p, net, cash),
         NEW bid \in Int, NEW ask \in Int
  PROVE  Same(Plus(p.realised, Unrealised(p, MidOf(bid, ask))),
              Plus(Whole(cash), Times(net, MidOf(bid, ask))))
<1>1. PICK an \in Int, ad \in Int, rn \in Int, rd \in Int, m \in Int :
        an = p.avg.num /\ ad = p.avg.den /\ rn = p.realised.num /\ rd = p.realised.den /\ m = bid + ask
  BY DEF Position
<1>2. p.net = net /\ rn * ad = (cash * ad + net * an) * rd
  BY <1>1 DEF Accounts
<1>3. PICK left, right :
        /\ left = Plus(p.realised, Unrealised(p, MidOf(bid, ask)))
        /\ right = Plus(Whole(cash), Times(net, MidOf(bid, ask)))
  OBVIOUS
<1>4. /\ left.num = rn * (2 * ad) + net * (m * ad + (-1) * an * 2) * rd
      /\ left.den = rd * (2 * ad)
  BY <1>1, <1>2, <1>3 DEF Plus, Unrealised, Times, MidOf, Frac
<1>5. right.num = cash * 2 + net * m * 1 /\ right.den = 1 * 2
  BY <1>1, <1>3 DEF Plus, Whole, Times, MidOf, Frac
<1>6. left.num = (2 * cash + net * m) * (rd * ad)
  <2>1. rn * (2 * ad) = 2 * ((cash * ad + net * an) * rd)
    BY <1>2
  <2>2. net * (m * ad + (-1) * an * 2) * rd = net * m * ad * rd - 2 * (net * an * rd)
    OBVIOUS
  <2>3. 2 * ((cash * ad + net * an) * rd) = 2 * cash * (rd * ad) + 2 * (net * an * rd)
    OBVIOUS
  <2>4. net * m * ad * rd = net * m * (rd * ad)
    OBVIOUS
  <2>5. (2 * cash + net * m) * (rd * ad) = 2 * cash * (rd * ad) + net * m * (rd * ad)
    OBVIOUS
  <2> QED
    BY <1>4, <2>1, <2>2, <2>3, <2>4, <2>5
<1>7. right.num = 2 * cash + net * m /\ right.den = 2
  BY <1>5
<1>8. left.num * right.den = right.num * left.den
  <2>1. PICK x \in Int, y \in Int : x = 2 * cash + net * m /\ y = rd * ad
    OBVIOUS
  <2>2. left.num = x * y /\ left.den = 2 * y /\ right.num = x /\ right.den = 2
    BY <1>4, <1>6, <1>7, <2>1
  <2> QED
    BY <2>2
<1> QED
  BY <1>3, <1>8 DEF Same

\* Once nothing is on its way a page whose subscription lives shows the money:
\* realised and unrealised P&L add up to the day's cash and what closing at the
\* mid would bring, or it shows an old day's figures and the new day has had no
\* trade (TradingPanel.tsx:326-360, warm.ts:83-105 and 176-193).
THEOREM ThePageShowsTheMoney == Spec => []PageShowsTheMoney
<1>1. PageIInv => PageShowsTheMoney
  <2> SUFFICES ASSUME PageIInv, Quiet, subAlive
               PROVE  ShowsTheMoney
    BY DEF PageShowsTheMoney
  <2>1. IsFresh(shown, shownDay)
    BY QuietPageIsCurrent
  <2>2. CASE shownDay = day /\ shown = positions
    <3>1. ASSUME NEW pair \in Pairs, NEW bid \in Prices, NEW ask \in Prices
          PROVE  Same(Plus(shown[pair].realised, Unrealised(shown[pair], MidOf(bid, ask))),
                      Plus(Whole(Cash(pair)), Times(NetOf(pair), MidOf(bid, ask))))
      <4>1. bid \in Int /\ ask \in Int
        BY LedgerAssumption
      <4>2. /\ positions[pair] \in Position /\ NetOf(pair) \in Int /\ Cash(pair) \in Int
            /\ Accounts(positions[pair], NetOf(pair), Cash(pair))
        BY DEF PageIInv, LedgerIInv
      <4> QED
        BY <2>2, <4>1, <4>2, MarkedMoney
    <3> QED
      BY <2>2, <3>1 DEF ShowsTheMoney
  <2>3. CASE shownDay # day /\ trades = << >>
    BY <2>3 DEF ShowsTheMoney
  <2> QED
    BY <2>1, <2>2, <2>3 DEF IsFresh
<1>2. Spec => []PageIInv
  BY PageStarts, PageKeeps, PTL DEF Spec
<1> QED
  BY <1>1, <1>2, PTL
=============================================================================
