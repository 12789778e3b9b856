------------------------------- MODULE Market -------------------------------
(***************************************************************************)
(* The market model (packages/sim-core/src/market.ts): a tethered walk of  *)
(* each pair's mid, a ladder of levels around it, news that jumps the mid  *)
(* and widens the spread for a while, freezes that silence a pair, and the *)
(* credit that turns elapsed time into actions.  mirror is the book of a   *)
(* client that receives every record: a snapshot, then upserts of levels.  *)
(*                                                                         *)
(* Prices are distances from the pair's anchor; the PRNG is a free choice  *)
(* among the outcomes it can draw; sizes are left out.  Moments of the     *)
(* advance clock are kept as distances from its last reading.              *)
(***************************************************************************)
EXTENDS Integers, FiniteSets

CONSTANTS
  Pairs,
  BookLevels,     \* BOOK_LEVELS
  Step,           \* walk increment
  SpreadBase,     \* the gap of bid and ask outside news
  LevelGap,       \* between levels of a side
  MaxDeviation,   \* step * MAX_DEVIATION_STEPS
  NewsDecay,      \* NEWS_DECAY_MS
  Unit,           \* carry is kept in units of 1 / Unit action
  Rates,          \* rates: units of credit a millisecond earns
  Elapses,        \* milliseconds between two calls of advance
  Jumps,          \* news: pips * 10
  SpreadXs,       \* news: spread multipliers
  FreezeMs,       \* freeze: windows
  MaxCommands     \* bound: news, freeze and setRate calls

ASSUME MarketAssumption ==
  /\ {BookLevels, Step, LevelGap, NewsDecay, Unit} \subseteq Nat \ {0}
  /\ SpreadBase \in Nat /\ SpreadBase >= 2
  /\ MaxDeviation \in Nat /\ MaxDeviation >= Step
  /\ Rates \subseteq Nat \ {0}
  /\ Elapses \subseteq Nat \ {0}
  /\ Jumps \subseteq Int \ {0}
  /\ SpreadXs \subseteq Nat \ {0}
  /\ FreezeMs \subseteq Nat \ {0}
  /\ MaxCommands \in Nat

\* There are finitely many pairs, a longest wait, a fastest rate and a widest spread.
ASSUME PaceAssumption ==
  /\ IsFiniteSet(Pairs)
  /\ \E ms \in Elapses : \A other \in Elapses : ms >= other
  /\ \E r \in Rates : \A other \in Rates : r >= other
  /\ \E x \in SpreadXs : \A other \in SpreadXs : x >= other

VARIABLES
  pairs,      \* [Pairs -> PairState]
  rate,
  anchored,   \* lastNow is set
  carry,      \* credit left over, negative when overdrawn
  mirror,     \* [Pairs -> quotes of a client that misses nothing]
  spoke,      \* pairs with a record in the last advance
  said,       \* records of the last advance
  jumped,     \* for the properties: how far news has pushed each pair so far
  commands

vars == <<pairs, rate, anchored, carry, mirror, spoke, said, jumped, commands>>

-----------------------------------------------------------------------------
(* A pair *)

Sides == {"bid", "ask"}
Depths == 0..(BookLevels - 1)
None == -1

PairState ==
  [mid : Int,
   spread : Nat,
   jump : Int,            \* pendingJumpPipettes
   newsX : Nat,           \* newsSpreadX
   newsArmed : BOOLEAN,
   newsAge : {None} \cup Nat,   \* now - newsAt; None: newsAt is null
   refresh : BOOLEAN,     \* refreshPending
   freezeArmed : Nat,     \* freezeArmedMs; 0: null
   frozenFor : Nat]       \* frozenUntil - now; 0: frozenUntil is null

FreshPair ==
  [mid |-> 0, spread |-> SpreadBase, jump |-> 0, newsX |-> 1, newsArmed |-> FALSE,
   newsAge |-> None, refresh |-> FALSE, freezeArmed |-> 0, frozenFor |-> 0]

BidTop(pair) == pair.mid - (pair.spread + 1) \div 2

Quote(pair, side, depth) ==
  IF side = "bid" THEN BidTop(pair) - depth * LevelGap
                  ELSE BidTop(pair) + pair.spread + depth * LevelGap

\* pairRecords(): both sides, every level.
Quotes(pair) == [at \in Sides \X Depths |-> Quote(pair, at[1], at[2])]

AbsInt(n) == IF n < 0 THEN -n ELSE n
MaxInt(a, b) == IF a > b THEN a ELSE b

-----------------------------------------------------------------------------
(* advance(): command effects on one pair *)

\* spreadBase * multiplier at an age of the news, rounded.
NewsSpread(x, age) ==
  LET scaled == SpreadBase * (NewsDecay + (x - 1) * (NewsDecay - age))
  IN MaxInt(2, (2 * scaled + NewsDecay) \div (2 * NewsDecay))

\* The window armed is stamped, or the one stamped runs on.
Froze(pair, ms) ==
  IF pair.freezeArmed > 0
  THEN [pair EXCEPT !.frozenFor = pair.freezeArmed, !.freezeArmed = 0]
  ELSE [pair EXCEPT !.frozenFor = MaxInt(0, @ - ms)]

\* A freeze starts or runs on; at its end the pair owes a refresh.
Thawed(pair, ms) ==
  LET later == Froze(pair, ms)
  IN IF pair.frozenFor > 0 /\ later.frozenFor = 0
     THEN [later EXCEPT !.refresh = TRUE]
     ELSE later

\* Mutant: the spread returns to its base without a refresh.
DecayedQuietly(pair, ms) ==
  LET age == IF pair.newsArmed THEN 0 ELSE IF pair.newsAge = None THEN None ELSE pair.newsAge + ms
  IN IF age = None THEN pair
     ELSE IF age >= NewsDecay
     THEN [pair EXCEPT !.spread = SpreadBase, !.newsAge = None, !.newsX = 1, !.newsArmed = FALSE]
     ELSE [pair EXCEPT !.spread = NewsSpread(pair.newsX, age), !.newsAge = age,
                       !.newsArmed = FALSE]

\* News is stamped or ages; the spread follows, and returns to its base.
Decayed(pair, ms) ==
  LET age == IF pair.newsArmed THEN 0 ELSE IF pair.newsAge = None THEN None ELSE pair.newsAge + ms
  IN IF age = None THEN pair
     ELSE IF age >= NewsDecay
     THEN [pair EXCEPT !.spread = SpreadBase, !.newsAge = None, !.newsX = 1,
                       !.newsArmed = FALSE, !.refresh = TRUE]
     ELSE [pair EXCEPT !.spread = NewsSpread(pair.newsX, age), !.newsAge = age,
                       !.newsArmed = FALSE]

Jumped(pair) == [pair EXCEPT !.mid = @ + pair.jump, !.jump = 0]

Affected(pair, ms) == Jumped(Decayed(Thawed(pair, ms), ms))

-----------------------------------------------------------------------------
(* advance(): the actions the credit pays for *)

\* The step that leads back to the anchor.
Toward(pair) == IF pair.mid > 0 THEN -1 ELSE 1

\* The pull is certain at the end of the tether.
Directions(pair) ==
  IF AbsInt(pair.mid) >= MaxDeviation THEN {Toward(pair)} ELSE {1, -1}

\* m is a market under way: pairs, carry, mirror, spoke and said as the loop leaves
\* them.
MidMoveCost == 2 * BookLevels

Say(m, p, quotes, records) ==
  [m EXCEPT !.mirror[p] = quotes, !.spoke = @ \cup {p}, !.said = @ + records]

MovedMid(m, p, direction) ==
  LET pair == [m.pairs[p] EXCEPT !.mid = @ + direction * Step]
  IN Say([m EXCEPT !.pairs[p] = pair], p, Quotes(pair), MidMoveCost)

\* jiggleSize(): one level is sent, at today's price.
Jiggled(m, p, side, depth) ==
  Say(m, p, [m.mirror[p] EXCEPT ![<<side, depth>>] = Quote(m.pairs[p], side, depth)], 1)

\* Mutant: a mid move costs what a jiggle costs.
PayFlat(m, cost) == [m EXCEPT !.carry = @ - Unit]

Pay(m, cost) == [m EXCEPT !.carry = @ - cost * Unit]

\* Mutant: the draw does not ask isFrozen.
AfterOneAnyPair(m) ==
  UNION {{Pay(MovedMid(m, p, d), MidMoveCost) : d \in Directions(m.pairs[p])}
           \cup {Pay(Jiggled(m, p, side, depth), 1) : side \in Sides, depth \in Depths} :
           p \in Pairs}

\* One action: a pair is drawn, a mid move or a jiggle; a frozen pair pays too.
AfterOne(m) ==
  UNION {IF m.pairs[p].frozenFor > 0
         THEN {Pay(m, MidMoveCost), Pay(m, 1)}
         ELSE {Pay(MovedMid(m, p, d), MidMoveCost) : d \in Directions(m.pairs[p])}
              \cup {Pay(Jiggled(m, p, side, depth), 1) : side \in Sides, depth \in Depths} :
           p \in Pairs}

CanPay(m) == m.carry >= Unit

\* What the loop can end in.
Outcomes(m) ==
  LET most == MaxInt(0, m.carry \div Unit)
      front[n \in 0..most] ==
        IF n = 0 THEN {m} ELSE UNION {AfterOne(o) : o \in {x \in front[n - 1] : CanPay(x)}}
  IN {o \in UNION {front[n] : n \in 0..most} : ~CanPay(o)}

-----------------------------------------------------------------------------
(* Operations *)

\* The first call only anchors the clock.
Anchor ==
  /\ ~anchored
  /\ anchored' = TRUE
  /\ UNCHANGED <<pairs, rate, carry, mirror, spoke, said, jumped, commands>>

Advance(ms) ==
  /\ anchored
  /\ LET affected == [p \in Pairs |-> Affected(pairs[p], ms)]
         start ==
           [pairs |-> [p \in Pairs |-> [affected[p] EXCEPT !.refresh = FALSE]],
            carry |-> carry + ms * rate,
            mirror |-> [p \in Pairs |-> IF affected[p].refresh THEN Quotes(affected[p])
                                        ELSE mirror[p]],
            spoke |-> {p \in Pairs : affected[p].refresh},
            said |-> MidMoveCost * Cardinality({p \in Pairs : affected[p].refresh})]
     IN \E end \in Outcomes(start) :
          /\ pairs' = end.pairs
          /\ carry' = end.carry
          /\ mirror' = end.mirror
          /\ spoke' = end.spoke
          /\ said' = end.said
  /\ jumped' = [p \in Pairs |-> jumped[p] + AbsInt(pairs[p].jump)]
  /\ UNCHANGED <<rate, anchored, commands>>

Commanded ==
  /\ commands < MaxCommands
  /\ commands' = commands + 1
  /\ UNCHANGED <<anchored, carry, mirror, spoke, said, jumped>>

\* Mutant: the jump lands, the refresh is not owed.
NewsQuietly(p, jump, x) ==
  /\ Commanded
  /\ pairs' = [pairs EXCEPT ![p] = [@ EXCEPT !.jump = pairs[p].jump + jump, !.newsX = x,
                                             !.newsArmed = TRUE, !.newsAge = None]]
  /\ UNCHANGED rate

News(p, jump, x) ==
  /\ Commanded
  /\ pairs' = [pairs EXCEPT ![p] = [@ EXCEPT !.jump = pairs[p].jump + jump, !.newsX = x,
                                             !.newsArmed = TRUE, !.newsAge = None,
                                             !.refresh = TRUE]]
  /\ UNCHANGED rate

Freeze(p, ms) ==
  /\ Commanded
  /\ pairs' = [pairs EXCEPT ![p].freezeArmed = ms]
  /\ UNCHANGED rate

SetRate(next) ==
  /\ Commanded
  /\ rate' = next
  /\ UNCHANGED pairs

\* snapshot(): a client that connects or resyncs starts from the book as it is.
Snapshot ==
  /\ mirror' = [p \in Pairs |-> Quotes(pairs[p])]
  /\ UNCHANGED <<pairs, rate, anchored, carry, spoke, said, jumped, commands>>

-----------------------------------------------------------------------------
(* Specification *)

Init ==
  /\ pairs = [p \in Pairs |-> FreshPair]
  /\ rate \in Rates
  /\ anchored = FALSE
  /\ carry = 0
  /\ mirror = [p \in Pairs |-> Quotes(FreshPair)]
  /\ spoke = {}
  /\ said = 0
  /\ jumped = [p \in Pairs |-> 0]
  /\ commands = 0

Next ==
  \/ Anchor
  \/ \E ms \in Elapses : Advance(ms)
  \/ \E p \in Pairs, jump \in Jumps, x \in SpreadXs : News(p, jump, x)
  \/ \E p \in Pairs, ms \in FreezeMs : Freeze(p, ms)
  \/ \E next \in Rates : SetRate(next)
  \/ Snapshot

Spec == Init /\ [][Next]_vars

-----------------------------------------------------------------------------
(* Properties *)

MarketTypeOK ==
  /\ pairs \in [Pairs -> PairState]
  /\ rate \in Rates
  /\ carry \in Int
  /\ mirror \in [Pairs -> [Sides \X Depths -> Int]]
  /\ spoke \subseteq Pairs
  /\ said \in Nat
  /\ jumped \in [Pairs -> Nat]

\* The loop of advance() stops neither early nor late: no whole action is left
\* unpaid, and at most one mid move is overdrawn, whatever the rate commands.
PaceIsKept == carry < Unit /\ carry > -(MidMoveCost * Unit)

Longest == CHOOSE ms \in Elapses : \A other \in Elapses : ms >= other
Fastest == CHOOSE r \in Rates : \A other \in Rates : r >= other

\* A tick says no more than the time it waited has paid for, besides one overdrawn mid
\* move and a refresh of every pair; a stalled loop may have waited long.
TickIsPaidFor ==
  (said - MidMoveCost * (1 + Cardinality(Pairs))) * Unit < Unit + Longest * Fastest

\* "A bounded random walk of each pair's mid around its anchor" (market.ts): the
\* tether holds whatever news has pushed the pair, and freezes in between.
WalkIsBounded ==
  \A p \in Pairs : AbsInt(pairs[p].mid) < MaxDeviation + Step + jumped[p]

\* The market's invariant.
MarketInv == MarketTypeOK /\ PaceIsKept /\ TickIsPaidFor /\ WalkIsBounded

\* What a client shows is never crossed, at any pair of levels, although jiggles
\* send single levels while the spread shrinks under the others.
WireNeverCrossed ==
  \A p \in Pairs : \A i, j \in Depths : mirror[p][<<"bid", i>>] < mirror[p][<<"ask", j>>]

\* A client that misses nothing shows the market's own book, except while news
\* decays: the spread follows the clock and only its end is sent.
WireLagsInNewsOnly ==
  \A p \in Pairs : mirror[p] # Quotes(pairs[p]) =>
    pairs[p].newsAge # None \/ pairs[p].newsArmed

\* What news makes a pair say whether it is frozen or not.
Owed(p) == pairs[p].refresh \/ (pairs[p].newsAge # None /\ pairs'[p].newsAge = None)

\* Inside its window a pair's mid moves by a jump only, and it speaks when and only
\* when news owes its book: the whole of it, and never a level of its own accord.  The
\* advance that ends the window leaves a client with the whole book.
FrozenStands ==
  \A p \in Pairs :
    /\ pairs'[p].frozenFor > 0 =>
         /\ pairs'[p].mid = pairs[p].mid + pairs[p].jump
         /\ p \in spoke' <=> Owed(p)
         /\ mirror'[p] = IF Owed(p) THEN Quotes(pairs'[p]) ELSE mirror[p]
    /\ pairs[p].frozenFor > 0 /\ pairs'[p].frozenFor = 0 =>
         p \in spoke' /\ mirror'[p] = Quotes(pairs'[p])

\* "One pair goes silent for ms" (domain/src/schemas.ts) in every advance, but for what
\* news owes.
FreezeIsKept == [][\A ms \in Elapses : FrozenStands \/ ~Advance(ms)]_vars
=============================================================================
