---------------------------- MODULE MarketProofs ----------------------------
(***************************************************************************)
(* The market's invariants for any pairs, ladder, rates and news.          *)
(* StandingInv is inductive: a pair's quotes surround its mid, which moves *)
(* only with a refresh or a full record set, and a book that is not the    *)
(* pair's own is one that news is decaying under.                          *)
(***************************************************************************)
EXTENDS MarketWire, FiniteSetTheorems, WellFoundedInduction, TLAPS

-----------------------------------------------------------------------------
(* The inductive invariant *)

\* The pair's own state between two operations.
PairSound(pair) ==
  /\ pair \in PairState
  /\ pair.spread >= 2
  /\ pair.newsX >= 1
  /\ pair.jump # 0 => pair.refresh

\* Every bid of a client is below the mid, every ask above it.
Surrounds(quotes, mid) ==
  \A depth \in Depths : quotes[<<"bid", depth>>] < mid /\ quotes[<<"ask", depth>>] > mid

\* A book that is not the pair's own.
Lags(pair) == pair.newsAge # None \/ pair.newsArmed

StandingInv ==
  /\ MarketTypeOK
  /\ \A p \in Pairs :
       /\ PairSound(pairs[p])
       /\ Surrounds(mirror[p], pairs[p].mid)
       /\ mirror[p] # Quotes(pairs[p]) => Lags(pairs[p])
       /\ AbsInt(pairs[p].mid) < MaxDeviation + Step + jumped[p]
  /\ PaceIsKept
  /\ TickIsPaidFor

-----------------------------------------------------------------------------
(* Quotes *)

QuotesType == [Sides \X Depths -> Int]

LEMMA QuotesAreQuotes ==
  ASSUME NEW pair \in PairState
  PROVE  /\ Quotes(pair) \in QuotesType
         /\ \A side \in Sides, depth \in Depths :
              Quotes(pair)[<<side, depth>>] = Quote(pair, side, depth)
<1>1. pair.mid \in Int /\ pair.spread \in Nat
  BY DEF PairState
<1>2. LevelGap \in Nat /\ Depths \subseteq Int
  BY MarketAssumption DEF Depths
<1>3. \A depth \in Depths : depth * LevelGap \in Int
  BY <1>2
<1>4. BidTop(pair) \in Int
  BY <1>1 DEF BidTop
<1>5. \A side \in Sides, depth \in Depths : Quote(pair, side, depth) \in Int
  BY <1>1, <1>3, <1>4 DEF Quote
<1>6. Quotes(pair) \in QuotesType
  BY <1>5 DEF Quotes, QuotesType
<1>7. \A side \in Sides, depth \in Depths :
        Quotes(pair)[<<side, depth>>] = Quote(pair, side, depth)
  BY DEF Quotes
<1> QED BY <1>6, <1>7

\* A ladder of a spread of two or more has the mid strictly inside.
LEMMA QuotesSurround ==
  ASSUME NEW pair \in PairState, pair.spread >= 2
  PROVE  Surrounds(Quotes(pair), pair.mid)
<1> SUFFICES ASSUME NEW depth \in Depths
             PROVE  /\ Quotes(pair)[<<"bid", depth>>] < pair.mid
                    /\ Quotes(pair)[<<"ask", depth>>] > pair.mid
  BY DEF Surrounds
<1>1. /\ LevelGap \in Nat /\ depth \in Nat
      /\ pair.mid \in Int /\ pair.spread \in Nat
      /\ {"bid", "ask"} = Sides
  BY MarketAssumption DEF Depths, PairState, Sides
<1>2. PICK below \in Int : below = depth * LevelGap
  BY <1>1
<1>3. below >= 0
  BY <1>1, <1>2
<1>4. PICK half \in Int : half = (pair.spread + 1) \div 2
  BY <1>1
<1>5. half >= 1 /\ half < pair.spread
  BY <1>1, <1>4
<1>6. BidTop(pair) = pair.mid - half
  BY <1>4 DEF BidTop
<1>7. /\ Quote(pair, "bid", depth) = pair.mid - half - below
      /\ Quote(pair, "ask", depth) = pair.mid - half + pair.spread + below
  BY <1>2, <1>6 DEF Quote
<1>8. /\ Quotes(pair)[<<"bid", depth>>] = pair.mid - half - below
      /\ Quotes(pair)[<<"ask", depth>>] = pair.mid - half + pair.spread + below
  BY <1>1, <1>7, QuotesAreQuotes
<1>9. \A m, b, h, sp \in Int : b >= 0 /\ h >= 1 /\ h < sp =>
        m - h - b < m /\ m - h + sp + b > m
  OBVIOUS
<1>10. pair.mid - half - below < pair.mid /\ pair.mid - half + pair.spread + below > pair.mid
  BY <1>1, <1>3, <1>5, <1>9
<1> QED BY <1>8, <1>10

\* How far from the anchor a level can be, when the mid and the spread are bounded.
Span(tether, widest) == tether + (widest + 1) \div 2 + (BookLevels - 1) * LevelGap
Within(quotes, span) ==
  \A side \in Sides, depth \in Depths :
    -span <= quotes[<<side, depth>>] /\ quotes[<<side, depth>>] <= span

LEMMA QuoteIsWithin ==
  ASSUME NEW pair \in PairState, NEW tether \in Int, NEW widest \in Int,
         AbsInt(pair.mid) < tether, pair.spread >= 2, pair.spread <= widest,
         NEW side \in Sides, NEW depth \in Depths
  PROVE  /\ -Span(tether, widest) <= Quote(pair, side, depth)
         /\ Quote(pair, side, depth) <= Span(tether, widest)
<1>1. /\ LevelGap \in Nat /\ depth \in Nat /\ depth <= BookLevels - 1 /\ BookLevels \in Nat
      /\ pair.mid \in Int /\ pair.spread \in Nat
      /\ side \in {"bid", "ask"}
  BY MarketAssumption DEF Depths, PairState, Sides
<1>2. \A a, b, k \in Nat : a <= b => a * k \in Nat /\ a * k <= b * k
  OBVIOUS
<1>3. PICK below \in Nat : below = depth * LevelGap
  BY <1>1
<1>4. PICK lowest \in Nat : lowest = (BookLevels - 1) * LevelGap
  BY <1>1
<1>5. BookLevels - 1 \in Nat
  BY <1>1
<1>6. below <= lowest
  BY <1>1, <1>2, <1>3, <1>4, <1>5
<1>7. PICK half \in Int : half = (pair.spread + 1) \div 2
  BY <1>1
<1>8. PICK wide \in Int : wide = (widest + 1) \div 2
  OBVIOUS
<1>9. half >= 1 /\ half <= wide /\ pair.spread - half <= half
  BY <1>1, <1>7, <1>8
<1>10. BidTop(pair) = pair.mid - half
  BY <1>7 DEF BidTop
<1>11. Quote(pair, side, depth) = IF side = "bid" THEN pair.mid - half - below
                                  ELSE pair.mid - half + pair.spread + below
  BY <1>3, <1>10 DEF Quote
<1>12. Span(tether, widest) = tether + wide + lowest
  BY <1>4, <1>8 DEF Span
<1>13. -tether < pair.mid /\ pair.mid < tether
  BY <1>1 DEF AbsInt
<1>14. CASE side = "bid"
  <2>1. PICK q \in Int : q = pair.mid - half - below
    BY <1>1
  <2>2. -(tether + wide + lowest) <= q /\ q <= tether + wide + lowest
    BY <1>1, <1>6, <1>9, <1>13, <2>1
  <2> QED BY <1>11, <1>12, <1>14, <2>1, <2>2
<1>15. CASE side # "bid"
  <2>1. PICK q \in Int : q = pair.mid - half + pair.spread + below
    BY <1>1
  <2>2. -(tether + wide + lowest) <= q /\ q <= tether + wide + lowest
    BY <1>1, <1>6, <1>9, <1>13, <2>1
  <2> QED BY <1>11, <1>12, <1>15, <2>1, <2>2
<1> QED BY <1>14, <1>15

LEMMA QuotesAreWithin ==
  ASSUME NEW pair \in PairState, NEW tether \in Int, NEW widest \in Int,
         AbsInt(pair.mid) < tether, pair.spread >= 2, pair.spread <= widest
  PROVE  Within(Quotes(pair), Span(tether, widest))
  BY QuotesAreQuotes, QuoteIsWithin DEF Within

\* The quotes are those of the mid and the spread.
LEMMA SameQuotes ==
  ASSUME NEW a, NEW b, a.mid = b.mid, a.spread = b.spread
  PROVE  Quotes(a) = Quotes(b)
  BY DEF Quotes, Quote, BidTop

LEMMA OneQuoteSent ==
  ASSUME NEW quotes \in QuotesType, NEW mid \in Int, NEW side \in Sides,
         NEW depth \in Depths, NEW pair \in PairState, pair.spread >= 2, pair.mid = mid,
         Surrounds(quotes, mid),
         NEW sent, sent = [quotes EXCEPT ![<<side, depth>>] = Quote(pair, side, depth)]
  PROVE  /\ sent \in QuotesType
         /\ Surrounds(sent, mid)
         /\ quotes = Quotes(pair) => sent = Quotes(pair)
         /\ \A span : Within(quotes, span) /\ Within(Quotes(pair), span) => Within(sent, span)
<1>1. /\ Quotes(pair) \in QuotesType
      /\ Quote(pair, side, depth) = Quotes(pair)[<<side, depth>>]
      /\ Surrounds(Quotes(pair), mid)
  BY QuotesAreQuotes, QuotesSurround
<1>2. Quotes(pair)[<<side, depth>>] \in Int /\ <<side, depth>> \in Sides \X Depths
  BY <1>1 DEF QuotesType
<1>3. sent \in QuotesType
  BY <1>1, <1>2 DEF QuotesType
<1>4. \A s \in Sides, d \in Depths :
        sent[<<s, d>>] = IF s = side /\ d = depth THEN Quotes(pair)[<<side, depth>>] ELSE quotes[<<s, d>>]
  BY <1>1, <1>2 DEF QuotesType
<1>5. Surrounds(sent, mid)
  BY <1>1, <1>4 DEF Surrounds, Sides
<1>6. quotes = Quotes(pair) => sent = Quotes(pair)
  BY <1>1, <1>2 DEF QuotesType
<1>7. ASSUME NEW span, Within(quotes, span), Within(Quotes(pair), span)
      PROVE  Within(sent, span)
  <2>1. ASSUME NEW s \in Sides, NEW d \in Depths
        PROVE  -span <= sent[<<s, d>>] /\ sent[<<s, d>>] <= span
    <3>1. /\ -span <= Quotes(pair)[<<side, depth>>] /\ Quotes(pair)[<<side, depth>>] <= span
          /\ -span <= quotes[<<s, d>>] /\ quotes[<<s, d>>] <= span
      BY <1>7 DEF Within
    <3> QED BY <1>4, <3>1
  <2> QED BY <2>1 DEF Within
<1> QED BY <1>3, <1>5, <1>6, <1>7

-----------------------------------------------------------------------------
(* What an advance does to one pair before the loop *)

LEMMA SpreadOfNews ==
  ASSUME NEW x \in Nat, NEW age \in Nat
  PROVE  NewsSpread(x, age) \in Nat /\ NewsSpread(x, age) >= 2
<1>1. SpreadBase \in Nat /\ NewsDecay \in Nat /\ NewsDecay > 0
  BY MarketAssumption
<1>2. PICK over \in Int : over = (x - 1) * (NewsDecay - age)
  BY <1>1
<1>3. PICK scaled \in Int : scaled = SpreadBase * (NewsDecay + over)
  BY <1>1
<1>4. PICK rounded \in Int : rounded = (2 * scaled + NewsDecay) \div (2 * NewsDecay)
  BY <1>1
<1>5. NewsSpread(x, age) = MaxInt(2, rounded)
  BY <1>2, <1>3, <1>4 DEF NewsSpread
<1> QED BY <1>5 DEF MaxInt

LEMMA ThawedPair ==
  ASSUME NEW pair, PairSound(pair), NEW ms \in Nat
  PROVE  LET later == Thawed(pair, ms)
         IN  /\ PairSound(later)
             /\ later.mid = pair.mid /\ later.spread = pair.spread
             /\ later.jump = pair.jump /\ later.newsX = pair.newsX
             /\ later.newsAge = pair.newsAge /\ later.newsArmed = pair.newsArmed
             /\ pair.refresh => later.refresh
             /\ later.refresh /\ later.frozenFor > 0 => pair.refresh
             /\ pair.frozenFor > 0 /\ later.frozenFor = 0 => later.refresh
<1> DEFINE froze == Froze(pair, ms)
           later == Thawed(pair, ms)
<1>1. /\ froze \in PairState /\ froze.mid = pair.mid /\ froze.spread = pair.spread
      /\ froze.jump = pair.jump /\ froze.newsX = pair.newsX /\ froze.refresh = pair.refresh
      /\ froze.newsAge = pair.newsAge /\ froze.newsArmed = pair.newsArmed
  <2>1. pair \in PairState /\ pair.freezeArmed \in Nat
    BY DEF PairSound, PairState
  <2>2. PICK left \in Nat : left = MaxInt(0, pair.frozenFor - ms)
    BY <2>1 DEF MaxInt, PairState
  <2>3. CASE pair.freezeArmed > 0
    <3>1. froze = [pair EXCEPT !.frozenFor = pair.freezeArmed, !.freezeArmed = 0]
      BY <2>3 DEF Froze
    <3> HIDE DEF froze
    <3>2. PICK held : held = [pair EXCEPT !.frozenFor = pair.freezeArmed]
      OBVIOUS
    <3>3. held \in PairState /\ froze = [held EXCEPT !.freezeArmed = 0]
      BY <2>1, <3>1, <3>2 DEF PairState
    <3> QED BY <2>1, <3>1, <3>3 DEF PairState
  <2>4. CASE ~(pair.freezeArmed > 0)
    <3>1. froze = [pair EXCEPT !.frozenFor = left]
      BY <2>2, <2>4 DEF Froze
    <3> HIDE DEF froze
    <3> QED BY <2>1, <3>1 DEF PairState
  <2> QED BY <2>3, <2>4
<1>2. CASE pair.frozenFor > 0 /\ froze.frozenFor = 0
  <2>1. later = [froze EXCEPT !.refresh = TRUE]
    BY <1>2 DEF Thawed
  <2> HIDE DEF froze, later
  <2>2. /\ later \in PairState /\ later.refresh
        /\ later.mid = froze.mid /\ later.spread = froze.spread
        /\ later.jump = froze.jump /\ later.newsX = froze.newsX
        /\ later.newsAge = froze.newsAge /\ later.newsArmed = froze.newsArmed
        /\ later.frozenFor = 0
    BY <1>1, <1>2, <2>1 DEF PairState
  <2> QED BY <1>1, <2>2 DEF PairSound, later
<1>3. CASE ~ (pair.frozenFor > 0 /\ froze.frozenFor = 0)
  <2>1. later = froze
    BY <1>3 DEF Thawed
  <2> HIDE DEF froze, later
  <2> QED BY <1>1, <1>3, <2>1 DEF PairSound, later
<1> QED BY <1>2, <1>3

NewsEnds(pair, later) == pair.newsAge # None /\ later.newsAge = None

LEMMA DecayedPair ==
  ASSUME NEW pair, PairSound(pair), NEW ms \in Nat
  PROVE  LET later == Decayed(pair, ms)
         IN  /\ PairSound(later)
             /\ later.mid = pair.mid /\ later.jump = pair.jump
             /\ later.frozenFor = pair.frozenFor
             /\ pair.refresh => later.refresh
             /\ later.refresh <=> pair.refresh \/ NewsEnds(pair, later)
             /\ ~later.refresh =>
                  Lags(later) \/ (later.spread = pair.spread /\ ~Lags(pair))
<1> DEFINE later == Decayed(pair, ms)
           age == IF pair.newsArmed THEN 0
                  ELSE IF pair.newsAge = None THEN None ELSE pair.newsAge + ms
<1>1. /\ pair \in PairState /\ pair.newsX \in Nat /\ pair.newsAge \in {None} \cup Nat
      /\ pair.newsArmed \in BOOLEAN
      /\ SpreadBase \in Nat /\ SpreadBase >= 2 /\ NewsDecay \in Nat /\ NewsDecay > 0
  BY MarketAssumption DEF PairSound, PairState
<1>2. age \in {None} \cup Nat
  BY <1>1 DEF None
<1>3. CASE age = None
  <2>1. later = pair
    BY <1>3 DEF Decayed
  <2>2. ~pair.newsArmed /\ pair.newsAge = None
    BY <1>1, <1>3 DEF None
  <2> QED BY <2>1, <2>2 DEF PairSound, Lags, NewsEnds
<1>4. CASE age # None /\ age >= NewsDecay
  <2>1. later = [pair EXCEPT !.spread = SpreadBase, !.newsAge = None, !.newsX = 1,
                             !.newsArmed = FALSE, !.refresh = TRUE]
    BY <1>4 DEF Decayed
  <2>2. pair.newsAge # None
    BY <1>1, <1>4
  <2> HIDE DEF later
  <2>3. /\ later \in PairState /\ later.refresh
        /\ later.spread = SpreadBase /\ later.newsX = 1
        /\ later.mid = pair.mid /\ later.jump = pair.jump
        /\ later.frozenFor = pair.frozenFor /\ later.newsAge = None
    BY <1>1, <2>1 DEF PairState, None
  <2> QED BY <1>1, <2>2, <2>3 DEF PairSound, NewsEnds, later
<1>5. CASE age # None /\ age < NewsDecay
  <2>1. age \in Nat
    BY <1>2, <1>5
  <2>2. /\ NewsSpread(pair.newsX, age) \in Nat
        /\ NewsSpread(pair.newsX, age) >= 2
    <3> HIDE DEF age
    <3> QED BY <1>1, <2>1, SpreadOfNews
  <2>3. PICK wide : wide = NewsSpread(pair.newsX, age)
    OBVIOUS
  <2>4. later = [pair EXCEPT !.spread = wide, !.newsAge = age, !.newsArmed = FALSE]
    BY <1>1, <1>5, <2>1, <2>3 DEF Decayed
  <2> HIDE DEF later, age
  <2>5. /\ later \in PairState /\ later.refresh = pair.refresh
        /\ later.spread = wide /\ later.newsX = pair.newsX
        /\ later.mid = pair.mid /\ later.jump = pair.jump
        /\ later.frozenFor = pair.frozenFor /\ later.newsAge # None
    BY <1>1, <1>5, <2>1, <2>2, <2>3, <2>4 DEF PairState
  <2> QED BY <1>1, <2>2, <2>3, <2>5 DEF PairSound, Lags, NewsEnds, later
<1> QED BY <1>1, <1>2, <1>3, <1>4, <1>5

\* The pair as the loop finds it: refreshed, or standing where it stood.
LEMMA AffectedPair ==
  ASSUME NEW pair, PairSound(pair), NEW ms \in Nat
  PROVE  LET later == Affected(pair, ms)
         IN  /\ PairSound(later) /\ later.jump = 0
             /\ later.mid = pair.mid + pair.jump
             /\ pair.refresh => later.refresh
             /\ ~later.refresh =>
                  /\ later.mid = pair.mid
                  /\ Lags(later) \/ (later.spread = pair.spread /\ ~Lags(pair))
             /\ later.frozenFor > 0 =>
                  (later.refresh <=> pair.refresh \/ NewsEnds(pair, later))
             /\ pair.frozenFor > 0 /\ later.frozenFor = 0 => later.refresh
<1> DEFINE thawed == Thawed(pair, ms)
           decayed == Decayed(thawed, ms)
           later == Affected(pair, ms)
<1>1. /\ PairSound(thawed)
      /\ thawed.mid = pair.mid /\ thawed.spread = pair.spread
      /\ thawed.jump = pair.jump
      /\ thawed.newsAge = pair.newsAge /\ thawed.newsArmed = pair.newsArmed
      /\ pair.refresh => thawed.refresh
      /\ thawed.refresh /\ thawed.frozenFor > 0 => pair.refresh
      /\ pair.frozenFor > 0 /\ thawed.frozenFor = 0 => thawed.refresh
  BY ThawedPair
<1> HIDE DEF thawed
<1>2. /\ PairSound(decayed)
      /\ decayed.mid = thawed.mid /\ decayed.jump = thawed.jump
      /\ decayed.frozenFor = thawed.frozenFor
      /\ thawed.refresh => decayed.refresh
      /\ decayed.refresh <=> thawed.refresh \/ NewsEnds(thawed, decayed)
      /\ ~decayed.refresh =>
           Lags(decayed) \/ (decayed.spread = thawed.spread /\ ~Lags(thawed))
  BY <1>1, DecayedPair
<1>3. later = [decayed EXCEPT !.mid = decayed.mid + decayed.jump, !.jump = 0]
  BY DEF Affected, Jumped, thawed
<1> HIDE DEF decayed, later
<1>4. decayed \in PairState
  BY <1>2 DEF PairSound
<1>5. /\ later \in PairState /\ later.jump = 0
      /\ later.mid = decayed.mid + decayed.jump
      /\ later.spread = decayed.spread /\ later.newsX = decayed.newsX
      /\ later.newsAge = decayed.newsAge /\ later.newsArmed = decayed.newsArmed
      /\ later.refresh = decayed.refresh /\ later.frozenFor = decayed.frozenFor
  <2>1. PICK there \in Int : there = decayed.mid + decayed.jump
    BY <1>4 DEF PairState
  <2>2. later = [decayed EXCEPT !.mid = there, !.jump = 0]
    BY <1>3, <2>1
  <2>3. PICK moved : moved = [decayed EXCEPT !.mid = there]
    OBVIOUS
  <2>4. moved \in PairState /\ later = [moved EXCEPT !.jump = 0]
    BY <1>4, <2>1, <2>2, <2>3 DEF PairState
  <2> QED BY <1>4, <2>1, <2>2, <2>4 DEF PairState
<1>6. PairSound(later)
  BY <1>2, <1>5 DEF PairSound
<1>7. ~later.refresh => pair.jump = 0
  BY <1>1, <1>2, <1>5 DEF PairSound
<1>8. pair.mid \in Int /\ pair.jump \in Int
  BY DEF PairSound, PairState
<1>9. Lags(thawed) = Lags(pair) /\ Lags(later) = Lags(decayed)
  BY <1>1, <1>5 DEF Lags
<1>10. ~later.refresh =>
          /\ later.mid = pair.mid
          /\ Lags(later) \/ (later.spread = pair.spread /\ ~Lags(pair))
  BY <1>1, <1>2, <1>5, <1>7, <1>8, <1>9
<1>11. /\ pair.refresh => later.refresh
       /\ later.frozenFor > 0 =>
            (later.refresh <=> pair.refresh \/ NewsEnds(pair, later))
       /\ pair.frozenFor > 0 /\ later.frozenFor = 0 => later.refresh
  BY <1>1, <1>2, <1>5 DEF NewsEnds
<1> QED BY <1>1, <1>2, <1>5, <1>6, <1>10, <1>11 DEF later

-----------------------------------------------------------------------------
(* One action of the loop *)

UnderWay ==
  [pairs : [Pairs -> PairState], carry : Int, mirror : [Pairs -> QuotesType],
   spoke : SUBSET Pairs, said : Nat]

\* Pair p speaks: it becomes pair, its client shows quotes, as many records as it cost.
Speaks(m, after, p, pair, quotes, cost) ==
  /\ after \in UnderWay
  /\ after.pairs = [m.pairs EXCEPT ![p] = pair]
  /\ after.mirror = [m.mirror EXCEPT ![p] = quotes]
  /\ after.spoke = m.spoke \cup {p}
  /\ after.said = m.said + cost
  /\ after.carry = m.carry - cost * Unit

\* Only credit goes.
PaysOnly(m, after, cost) ==
  /\ after \in UnderWay
  /\ after.pairs = m.pairs /\ after.mirror = m.mirror
  /\ after.spoke = m.spoke /\ after.said = m.said
  /\ after.carry = m.carry - cost * Unit

LEMMA CostsAreNumbers ==
  /\ Unit \in Nat /\ Unit > 0 /\ Step \in Nat /\ Step > 0
  /\ MidMoveCost \in Nat /\ MidMoveCost >= 2
  /\ MidMoveCost * Unit \in Nat /\ Unit <= MidMoveCost * Unit
<1>1. /\ BookLevels \in Nat /\ BookLevels > 0 /\ Unit \in Nat /\ Unit > 0
      /\ Step \in Nat /\ Step > 0
  BY MarketAssumption
<1>2. MidMoveCost \in Nat /\ MidMoveCost >= 2
  BY <1>1 DEF MidMoveCost
<1>3. \A a, b \in Nat : a >= 2 => b <= a * b
  OBVIOUS
<1> QED BY <1>1, <1>2, <1>3

LEMMA SaidAndPaid ==
  ASSUME NEW m \in UnderWay, NEW p \in Pairs, NEW pair \in PairState,
         NEW quotes \in QuotesType, NEW cost \in Nat, NEW after,
         after = Pay(Say([m EXCEPT !.pairs[p] = pair], p, quotes, cost), cost)
  PROVE  Speaks(m, after, p, pair, quotes, cost)
<1>1. PICK price \in Int : price = cost * Unit
  BY CostsAreNumbers
<1>2. PICK turned : turned = [m EXCEPT !.pairs[p] = pair]
  OBVIOUS
<1>3. /\ turned \in UnderWay
      /\ turned.pairs = [m.pairs EXCEPT ![p] = pair] /\ turned.mirror = m.mirror
      /\ turned.spoke = m.spoke /\ turned.said = m.said /\ turned.carry = m.carry
  BY <1>2 DEF UnderWay
<1>4. PICK told : told = [turned EXCEPT !.mirror[p] = quotes]
  OBVIOUS
<1>5. /\ told \in UnderWay
      /\ told.mirror = [turned.mirror EXCEPT ![p] = quotes] /\ told.pairs = turned.pairs
      /\ told.spoke = turned.spoke /\ told.said = turned.said /\ told.carry = turned.carry
  BY <1>3, <1>4 DEF UnderWay
<1>6. PICK heard : heard = [told EXCEPT !.spoke = told.spoke \cup {p}]
  OBVIOUS
<1>7. /\ heard \in UnderWay
      /\ heard.spoke = told.spoke \cup {p} /\ heard.pairs = told.pairs
      /\ heard.mirror = told.mirror /\ heard.said = told.said /\ heard.carry = told.carry
  BY <1>5, <1>6 DEF UnderWay
<1>8. PICK spoken : spoken = [heard EXCEPT !.said = heard.said + cost]
  OBVIOUS
<1>9. /\ spoken \in UnderWay
      /\ spoken.said = heard.said + cost /\ spoken.pairs = heard.pairs
      /\ spoken.mirror = heard.mirror /\ spoken.spoke = heard.spoke
      /\ spoken.carry = heard.carry
  BY <1>7, <1>8 DEF UnderWay
<1>10. spoken = Say(turned, p, quotes, cost)
  BY <1>3, <1>4, <1>5, <1>6, <1>7, <1>8 DEF Say, UnderWay
<1>11. after = [spoken EXCEPT !.carry = spoken.carry - price]
  BY <1>1, <1>2, <1>10 DEF Pay
<1>12. /\ after \in UnderWay
       /\ after.carry = spoken.carry - price /\ after.pairs = spoken.pairs
       /\ after.mirror = spoken.mirror /\ after.spoke = spoken.spoke
       /\ after.said = spoken.said
  BY <1>9, <1>11 DEF UnderWay
<1> QED BY <1>1, <1>3, <1>5, <1>7, <1>9, <1>12 DEF Speaks

LEMMA OnlyPaid ==
  ASSUME NEW m \in UnderWay, NEW cost \in Nat, NEW after, after = Pay(m, cost)
  PROVE  PaysOnly(m, after, cost)
<1>1. PICK price \in Int : price = cost * Unit
  BY CostsAreNumbers
<1>2. after = [m EXCEPT !.carry = m.carry - price]
  BY <1>1 DEF Pay
<1>3. /\ after \in UnderWay
      /\ after.carry = m.carry - price /\ after.pairs = m.pairs
      /\ after.mirror = m.mirror /\ after.spoke = m.spoke /\ after.said = m.said
  BY <1>2 DEF UnderWay
<1> QED BY <1>1, <1>3 DEF PaysOnly

Moved(pair, direction) == [pair EXCEPT !.mid = @ + direction * Step]
Sent(m, p, side, depth) ==
  [m.mirror[p] EXCEPT ![<<side, depth>>] = Quote(m.pairs[p], side, depth)]

LEMMA OneAction ==
  ASSUME NEW m \in UnderWay, NEW after \in AfterOne(m)
  PROVE  \E p \in Pairs :
           \/ /\ m.pairs[p].frozenFor > 0
              /\ PaysOnly(m, after, MidMoveCost) \/ PaysOnly(m, after, 1)
           \/ /\ ~(m.pairs[p].frozenFor > 0)
              /\ \E direction \in Directions(m.pairs[p]) :
                   Speaks(m, after, p, Moved(m.pairs[p], direction),
                          Quotes(Moved(m.pairs[p], direction)), MidMoveCost)
           \/ /\ ~(m.pairs[p].frozenFor > 0)
              /\ \E side \in Sides, depth \in Depths :
                   Speaks(m, after, p, m.pairs[p], Sent(m, p, side, depth), 1)
<1>1. PICK p \in Pairs :
        after \in (IF m.pairs[p].frozenFor > 0
                   THEN {Pay(m, MidMoveCost), Pay(m, 1)}
                   ELSE {Pay(MovedMid(m, p, d), MidMoveCost) : d \in Directions(m.pairs[p])}
                        \cup {Pay(Jiggled(m, p, side, depth), 1) : side \in Sides, depth \in Depths})
  BY DEF AfterOne
<1>2. MidMoveCost \in Nat /\ 1 \in Nat /\ m.pairs[p] \in PairState
      /\ m.mirror[p] \in QuotesType /\ Step \in Int
  BY CostsAreNumbers DEF UnderWay
<1>3. CASE m.pairs[p].frozenFor > 0
  BY <1>1, <1>2, <1>3, OnlyPaid
<1>4. ASSUME NEW d \in Directions(m.pairs[p]), after = Pay(MovedMid(m, p, d), MidMoveCost)
      PROVE  Speaks(m, after, p, Moved(m.pairs[p], d), Quotes(Moved(m.pairs[p], d)), MidMoveCost)
  <2>1. d \in Int
    BY <1>4 DEF Directions, Toward
  <2>2. PICK there \in Int : there = m.pairs[p].mid + d * Step
    BY <1>2, <2>1 DEF PairState
  <2>3. PICK pair : pair = Moved(m.pairs[p], d)
    OBVIOUS
  <2>4. pair = [m.pairs[p] EXCEPT !.mid = there]
    BY <2>2, <2>3 DEF Moved
  <2>5. pair \in PairState
    BY <1>2, <2>4 DEF PairState
  <2>6. Quotes(pair) \in QuotesType
    BY <2>5, QuotesAreQuotes
  <2>7. after = Pay(Say([m EXCEPT !.pairs[p] = pair], p, Quotes(pair), MidMoveCost), MidMoveCost)
    BY <1>4, <2>3 DEF MovedMid, Moved
  <2>8. Speaks(m, after, p, pair, Quotes(pair), MidMoveCost)
    BY <1>2, <2>5, <2>6, <2>7, SaidAndPaid
  <2> QED BY <2>3, <2>8
<1>5. ASSUME NEW side \in Sides, NEW depth \in Depths,
             after = Pay(Jiggled(m, p, side, depth), 1)
      PROVE  Speaks(m, after, p, m.pairs[p], Sent(m, p, side, depth), 1)
  <2>1. PICK quotes : quotes = Sent(m, p, side, depth)
    OBVIOUS
  <2>2. quotes \in QuotesType
    <3>1. Quote(m.pairs[p], side, depth) \in Int
      <4>1. PICK pair \in PairState : pair = m.pairs[p]
        BY <1>2
      <4>2. /\ Quotes(pair) \in QuotesType
            /\ Quote(pair, side, depth) = Quotes(pair)[<<side, depth>>]
        BY QuotesAreQuotes
      <4>3. Quote(pair, side, depth) \in Int
        BY <4>2 DEF QuotesType
      <4> QED BY <4>1, <4>3
    <3> QED BY <1>2, <2>1, <3>1 DEF Sent, QuotesType
  <2>3. m = [m EXCEPT !.pairs[p] = m.pairs[p]]
    BY DEF UnderWay
  <2>4. after = Pay(Say(m, p, quotes, 1), 1)
    BY <1>5, <2>1 DEF Jiggled, Sent
  <2>5. Speaks(m, after, p, m.pairs[p], quotes, 1)
    BY <1>2, <2>2, <2>3, <2>4, SaidAndPaid
  <2> QED BY <2>1, <2>5
<1> QED BY <1>1, <1>3, <1>4, <1>5

-----------------------------------------------------------------------------
(* The loop *)

\* What no action changes of pair p, and what every action keeps true of it.
PairStands(m, start, p) ==
  /\ PairSound(m.pairs[p])
  /\ m.pairs[p].jump = start.pairs[p].jump
  /\ m.pairs[p].frozenFor = start.pairs[p].frozenFor
  /\ m.pairs[p].newsAge = start.pairs[p].newsAge
  /\ m.pairs[p].newsArmed = start.pairs[p].newsArmed
  /\ m.pairs[p].spread = start.pairs[p].spread
  /\ m.pairs[p].newsX = start.pairs[p].newsX
  /\ start.pairs[p].frozenFor > 0 =>
       /\ m.pairs[p] = start.pairs[p] /\ m.mirror[p] = start.mirror[p]
       /\ p \in m.spoke => p \in start.spoke
  /\ Surrounds(m.mirror[p], m.pairs[p].mid)
  /\ start.mirror[p] = Quotes(start.pairs[p]) => m.mirror[p] = Quotes(m.pairs[p])
  /\ \A tether \in Int :
       tether >= MaxDeviation + Step /\ AbsInt(start.pairs[p].mid) < tether
         => AbsInt(m.pairs[p].mid) < tether
  /\ \A tether \in Int, widest \in Int :
       /\ tether >= MaxDeviation + Step /\ AbsInt(start.pairs[p].mid) < tether
       /\ start.pairs[p].spread <= widest
       /\ Within(start.mirror[p], Span(tether, widest))
       => Within(m.mirror[p], Span(tether, widest))

\* What was said and what credit is left never exceed what the loop started with.
LoopInv(m, start) ==
  /\ m \in UnderWay
  /\ m.carry > -(MidMoveCost * Unit)
  /\ m.said * Unit + m.carry <= start.said * Unit + start.carry
  /\ start.spoke \subseteq m.spoke
  /\ \A p \in Pairs : PairStands(m, start, p)

\* A step of the walk keeps every tether of at least MaxDeviation + Step.
LEMMA StepIsTethered ==
  ASSUME NEW pair \in PairState, NEW direction \in Directions(pair),
         NEW tether \in Int, tether >= MaxDeviation + Step, AbsInt(pair.mid) < tether
  PROVE  AbsInt(pair.mid + direction * Step) < tether
<1>1. /\ pair.mid \in Int /\ Step \in Nat /\ Step > 0
      /\ MaxDeviation \in Nat /\ MaxDeviation >= Step
  BY MarketAssumption DEF PairState
<1>2. PICK there \in Int : there = pair.mid + direction * Step
  BY <1>1 DEF Directions, Toward
<1>3. CASE AbsInt(pair.mid) >= MaxDeviation
  <2>1. direction = IF pair.mid > 0 THEN -1 ELSE 1
    BY <1>3 DEF Directions, Toward
  <2>2. there = IF pair.mid > 0 THEN pair.mid - Step ELSE pair.mid + Step
    BY <1>1, <1>2, <2>1
  <2>3. AbsInt(there) < tether
    BY <1>1, <1>2, <1>3, <2>2 DEF AbsInt
  <2> QED BY <1>2, <2>3
<1>4. CASE AbsInt(pair.mid) < MaxDeviation
  <2>1. direction \in {1, -1}
    BY <1>4, <1>1 DEF Directions, AbsInt
  <2>2. there = pair.mid + Step \/ there = pair.mid - Step
    BY <1>1, <1>2, <2>1
  <2>3. AbsInt(there) < tether
    BY <1>1, <1>2, <1>4, <2>2 DEF AbsInt
  <2> QED BY <1>2, <2>3
<1> QED BY <1>1, <1>3, <1>4 DEF AbsInt

\* The arithmetic of one payment.
LEMMA PaymentIsCovered ==
  ASSUME NEW m \in UnderWay, NEW start \in UnderWay, NEW after \in UnderWay,
         NEW cost \in 1..MidMoveCost, NEW records \in 0..cost,
         CanPay(m), after.carry = m.carry - cost * Unit, after.said = m.said + records,
         m.said * Unit + m.carry <= start.said * Unit + start.carry
  PROVE  /\ after.carry > -(MidMoveCost * Unit)
         /\ after.said * Unit + after.carry <= start.said * Unit + start.carry
<1>1. /\ m.carry \in Int /\ m.said \in Nat /\ start.carry \in Int /\ start.said \in Nat
      /\ after.carry \in Int /\ after.said \in Nat
      /\ cost \in Nat /\ records \in Nat /\ records <= cost /\ cost <= MidMoveCost
      /\ m.carry >= Unit /\ Unit \in Nat /\ Unit > 0 /\ MidMoveCost \in Nat
  BY CostsAreNumbers DEF UnderWay, CanPay
<1>2. \A a, b, u \in Nat : a <= b => a * u <= b * u
  OBVIOUS
<1>3. \A a, b, u \in Nat : (a + b) * u = a * u + b * u /\ a * u \in Nat
  OBVIOUS
<1>4. PICK price \in Nat : price = cost * Unit
  BY <1>1
<1>5. PICK whole \in Nat : whole = MidMoveCost * Unit
  BY <1>1
<1>6. PICK spoken \in Nat : spoken = records * Unit
  BY <1>1, <1>3
<1>7. PICK before \in Nat : before = m.said * Unit
  BY <1>1, <1>3
<1>8. PICK first \in Nat : first = start.said * Unit
  BY <1>1, <1>3
<1>9. price <= whole /\ spoken <= price
  BY <1>1, <1>2, <1>4, <1>5, <1>6
<1>10. after.said * Unit = before + spoken
  BY <1>1, <1>3, <1>6, <1>7
<1> QED BY <1>1, <1>4, <1>5, <1>7, <1>8, <1>9, <1>10

LEMMA LoopStep ==
  ASSUME NEW start \in UnderWay, NEW m, LoopInv(m, start), CanPay(m),
         NEW after \in AfterOne(m)
  PROVE  LoopInv(after, start)
<1>1. m \in UnderWay /\ \A p \in Pairs : PairStands(m, start, p)
  BY DEF LoopInv
<1>2. PICK p \in Pairs :
           \/ /\ m.pairs[p].frozenFor > 0
              /\ PaysOnly(m, after, MidMoveCost) \/ PaysOnly(m, after, 1)
           \/ /\ ~(m.pairs[p].frozenFor > 0)
              /\ \E direction \in Directions(m.pairs[p]) :
                   Speaks(m, after, p, Moved(m.pairs[p], direction),
                          Quotes(Moved(m.pairs[p], direction)), MidMoveCost)
           \/ /\ ~(m.pairs[p].frozenFor > 0)
              /\ \E side \in Sides, depth \in Depths :
                   Speaks(m, after, p, m.pairs[p], Sent(m, p, side, depth), 1)
  BY <1>1, OneAction
<1>3. 1 \in 1..MidMoveCost /\ MidMoveCost \in 1..MidMoveCost
  BY CostsAreNumbers
<1>4. ASSUME NEW cost \in 1..MidMoveCost, PaysOnly(m, after, cost)
      PROVE  LoopInv(after, start)
  <2>1. after \in UnderWay /\ 0 \in 0..cost /\ after.said = m.said + 0
    BY <1>1, <1>4 DEF PaysOnly, UnderWay
  <2>2. /\ after.carry > -(MidMoveCost * Unit)
        /\ after.said * Unit + after.carry <= start.said * Unit + start.carry
    BY <1>1, <1>4, <2>1, PaymentIsCovered DEF LoopInv, PaysOnly
  <2>3. \A q \in Pairs : PairStands(after, start, q)
    BY <1>1, <1>4 DEF PaysOnly, PairStands
  <2>4. start.spoke \subseteq after.spoke
    BY <1>4 DEF LoopInv, PaysOnly
  <2> QED BY <2>1, <2>2, <2>3, <2>4 DEF LoopInv
<1>5. ASSUME NEW pair, NEW quotes, NEW cost \in 1..MidMoveCost,
             Speaks(m, after, p, pair, quotes, cost),
             ~(m.pairs[p].frozenFor > 0),
             PairSound(pair), pair.jump = m.pairs[p].jump,
             pair.frozenFor = m.pairs[p].frozenFor,
             pair.newsAge = m.pairs[p].newsAge, pair.newsArmed = m.pairs[p].newsArmed,
             pair.spread = m.pairs[p].spread, pair.newsX = m.pairs[p].newsX,
             Surrounds(quotes, pair.mid),
             m.mirror[p] = Quotes(m.pairs[p]) => quotes = Quotes(pair),
             \A tether \in Int :
               tether >= MaxDeviation + Step /\ AbsInt(m.pairs[p].mid) < tether
                 => AbsInt(pair.mid) < tether,
             \A span : Within(m.mirror[p], span) /\ Within(Quotes(pair), span)
                 => Within(quotes, span)
      PROVE  LoopInv(after, start)
  <2>1. after \in UnderWay /\ cost \in 0..cost /\ after.said = m.said + cost
    BY <1>5, CostsAreNumbers DEF Speaks
  <2>2. /\ after.carry > -(MidMoveCost * Unit)
        /\ after.said * Unit + after.carry <= start.said * Unit + start.carry
    BY <1>1, <1>5, <2>1, PaymentIsCovered DEF LoopInv, Speaks
  <2>3. start.spoke \subseteq after.spoke
    BY <1>5 DEF LoopInv, Speaks
  <2>4. /\ DOMAIN m.pairs = Pairs /\ DOMAIN m.mirror = Pairs
    BY <1>1 DEF UnderWay
  <2>5. /\ after.pairs[p] = pair /\ after.mirror[p] = quotes
        /\ \A q \in Pairs \ {p} : after.pairs[q] = m.pairs[q] /\ after.mirror[q] = m.mirror[q]
        /\ after.spoke = m.spoke \cup {p}
    BY <1>5, <2>4 DEF Speaks
  <2>6. ASSUME NEW q \in Pairs, q # p PROVE PairStands(after, start, q)
    <3>1. after.pairs[q] = m.pairs[q] /\ after.mirror[q] = m.mirror[q]
      BY <2>5, <2>6
    <3>2. q \in after.spoke => q \in m.spoke
      BY <2>5, <2>6
    <3> QED BY <1>1, <3>1, <3>2 DEF PairStands
  <2>7. PairStands(after, start, p)
    <3>1. PairStands(m, start, p)
      BY <1>1
    <3>2. ASSUME NEW tether \in Int, NEW widest \in Int,
                 tether >= MaxDeviation + Step, AbsInt(start.pairs[p].mid) < tether,
                 start.pairs[p].spread <= widest,
                 Within(start.mirror[p], Span(tether, widest))
          PROVE  Within(quotes, Span(tether, widest))
      <4>1. /\ AbsInt(m.pairs[p].mid) < tether
            /\ m.pairs[p].spread = start.pairs[p].spread
            /\ Within(m.mirror[p], Span(tether, widest))
        BY <3>1, <3>2 DEF PairStands
      <4>2. /\ AbsInt(pair.mid) < tether /\ pair.spread <= widest
            /\ pair \in PairState /\ pair.spread >= 2
        BY <1>5, <3>2, <4>1 DEF PairSound
      <4>3. Within(Quotes(pair), Span(tether, widest))
        BY <4>2, QuotesAreWithin
      <4> QED BY <1>5, <4>1, <4>3
    <3> QED BY <1>5, <2>5, <3>1, <3>2 DEF PairStands
  <2> QED BY <2>1, <2>2, <2>3, <2>6, <2>7 DEF LoopInv
<1>6. PairSound(m.pairs[p]) /\ m.pairs[p] \in PairState /\ m.mirror[p] \in QuotesType
      /\ Surrounds(m.mirror[p], m.pairs[p].mid) /\ m.pairs[p].mid \in Int
      /\ m.pairs[p].spread >= 2
  BY <1>1 DEF UnderWay, PairStands, PairSound, PairState
<1>7. ASSUME ~(m.pairs[p].frozenFor > 0), NEW direction \in Directions(m.pairs[p]),
             Speaks(m, after, p, Moved(m.pairs[p], direction),
                    Quotes(Moved(m.pairs[p], direction)), MidMoveCost)
      PROVE  LoopInv(after, start)
  <2>1. PICK pair : pair = Moved(m.pairs[p], direction)
    OBVIOUS
  <2>2. PICK there \in Int : there = m.pairs[p].mid + direction * Step
    BY <1>6, CostsAreNumbers DEF Directions, Toward
  <2>3. /\ pair \in PairState /\ pair.mid = there
        /\ pair.spread = m.pairs[p].spread /\ pair.newsX = m.pairs[p].newsX
        /\ pair.jump = m.pairs[p].jump /\ pair.frozenFor = m.pairs[p].frozenFor
        /\ pair.newsAge = m.pairs[p].newsAge /\ pair.newsArmed = m.pairs[p].newsArmed
        /\ pair.refresh = m.pairs[p].refresh
    <3>1. pair = [m.pairs[p] EXCEPT !.mid = there]
      BY <2>1, <2>2 DEF Moved
    <3> QED BY <1>6, <3>1 DEF PairState
  <2>4. PairSound(pair)
    BY <1>6, <2>3 DEF PairSound
  <2>5. Surrounds(Quotes(pair), pair.mid)
    BY <2>4, QuotesSurround DEF PairSound
  <2>6. ASSUME NEW tether \in Int, tether >= MaxDeviation + Step,
               AbsInt(m.pairs[p].mid) < tether
        PROVE  AbsInt(pair.mid) < tether
    BY <1>6, <1>7, <2>2, <2>3, <2>6, StepIsTethered
  <2> QED BY <1>3, <1>5, <1>7, <2>1, <2>3, <2>4, <2>5, <2>6
<1>8. ASSUME ~(m.pairs[p].frozenFor > 0), NEW side \in Sides, NEW depth \in Depths,
             Speaks(m, after, p, m.pairs[p], Sent(m, p, side, depth), 1)
      PROVE  LoopInv(after, start)
  <2>1. PICK quotes : quotes = Sent(m, p, side, depth)
    OBVIOUS
  <2>2. /\ Surrounds(quotes, m.pairs[p].mid)
        /\ m.mirror[p] = Quotes(m.pairs[p]) => quotes = Quotes(m.pairs[p])
        /\ \A span : Within(m.mirror[p], span) /\ Within(Quotes(m.pairs[p]), span)
             => Within(quotes, span)
    BY <1>6, <2>1, OneQuoteSent DEF Sent
  <2> QED BY <1>3, <1>5, <1>6, <1>8, <2>1, <2>2
<1> QED BY <1>2, <1>3, <1>4, <1>7, <1>8

\* A set of numbers has a least one.
LEMMA LeastNumber ==
  ASSUME NEW S \in SUBSET Nat, S # {}
  PROVE  \E n \in S : \A k \in S : n <= k
<1> DEFINE R == {p \in Nat \X Nat : p[1] < p[2]}
<1>1. IsWellFoundedOn(R, Nat)
  BY NatLessThanWellFounded DEF OpToRel
<1>2. PICK n \in S : \A k \in S : <<k, n>> \notin R
  <2> HIDE DEF R
  <2> QED BY <1>1, WFMin
<1>3. \A k \in S : ~(k < n)
  BY <1>2
<1> QED BY <1>3

\* What the loop can be at after one more action.
Onward(ms) == UNION {AfterOne(o) : o \in {x \in ms : CanPay(x)}}

\* The markets after each number of actions are what the recursion says they are.
LEMMA FrontsExist ==
  ASSUME NEW m, NEW most \in Nat
  PROVE  \E f : f = [n \in 0..most |-> IF n = 0 THEN {m} ELSE Onward(f[n - 1])]
<1> DEFINE Good(n) == \E f : f = [k \in 0..n |-> IF k = 0 THEN {m} ELSE Onward(f[k - 1])]
           Bad == {n \in Nat : ~Good(n)}
<1> HIDE DEF Onward
<1>1. SUFFICES ASSUME Bad # {} PROVE FALSE
  <2>1. most \in Nat /\ most \notin Bad
    BY <1>1
  <2> QED BY <2>1
<1>2. PICK n \in Bad : \A k \in Bad : n <= k
  BY <1>1, LeastNumber
<1>3. CASE n = 0
  <2>1. PICK f : f = [k \in 0..0 |-> {m}]
    OBVIOUS
  <2>2. f = [k \in 0..0 |-> IF k = 0 THEN {m} ELSE Onward(f[k - 1])]
    BY <2>1
  <2> QED BY <1>3, <2>2
<1>4. CASE n # 0
  <2>1. n - 1 \in Nat /\ n \in Nat /\ n - 1 \notin Bad
    <3>1. n \in Nat
      OBVIOUS
    <3> HIDE DEF Bad
    <3> QED BY <1>2, <1>4, <3>1
  <2>2. PICK f : f = [k \in 0..(n - 1) |-> IF k = 0 THEN {m} ELSE Onward(f[k - 1])]
    BY <2>1
  <2>3. PICK g : g = [k \in 0..n |-> IF k = n THEN Onward(f[n - 1]) ELSE f[k]]
    OBVIOUS
  <2>4. ASSUME NEW k \in 0..n
        PROVE  g[k] = IF k = 0 THEN {m} ELSE Onward(g[k - 1])
    <3>1. CASE k = n
      BY <1>4, <2>1, <2>3, <3>1
    <3>2. CASE k # n
      <4>1. k \in 0..(n - 1) /\ (k # 0 => k - 1 \in 0..(n - 1) /\ k - 1 # n)
        BY <2>1, <3>2
      <4>2. g[k] = f[k] /\ (k # 0 => g[k - 1] = f[k - 1])
        BY <2>1, <2>3, <3>2, <4>1
      <4> QED BY <2>2, <4>1, <4>2
    <3> QED BY <3>1, <3>2
  <2>5. g = [k \in 0..n |-> IF k = 0 THEN {m} ELSE Onward(g[k - 1])]
    BY <2>3, <2>4
  <2> QED BY <2>5
<1> QED BY <1>3, <1>4

LEMMA LoopOutcomes ==
  ASSUME NEW start \in UnderWay, LoopInv(start, start), NEW end \in Outcomes(start)
  PROVE  LoopInv(end, start) /\ end.carry < Unit
<1> DEFINE most == MaxInt(0, start.carry \div Unit)
           front == CHOOSE f : f = [n \in 0..most |-> IF n = 0 THEN {start}
                                                      ELSE Onward(f[n - 1])]
           Strays == {n \in 0..most : \E o \in front[n] : ~LoopInv(o, start)}
<1>1. start.carry \in Int /\ Unit \in Nat /\ Unit > 0
  BY CostsAreNumbers DEF UnderWay
<1>2. most \in Nat
  BY <1>1 DEF MaxInt
<1>3. \E n \in 0..most : end \in front[n] /\ ~CanPay(end)
  BY DEF Outcomes, Onward
<1> HIDE DEF most
<1>4. front = [n \in 0..most |-> IF n = 0 THEN {start} ELSE Onward(front[n - 1])]
  <2> HIDE DEF Onward
  <2>1. \E f : f = [n \in 0..most |-> IF n = 0 THEN {start} ELSE Onward(f[n - 1])]
    BY <1>2, FrontsExist
  <2> QED BY <2>1
<1> HIDE DEF front
<1>5. Strays = {}
  <2>1. SUFFICES ASSUME Strays # {} PROVE FALSE
    OBVIOUS
  <2>2. Strays \subseteq Nat
    OBVIOUS
  <2>3. PICK n \in Strays : \A k \in Strays : n <= k
    <3> HIDE DEF Strays
    <3> QED BY <2>1, <2>2, LeastNumber
  <2>4. PICK o \in front[n] : ~LoopInv(o, start)
    BY <2>3
  <2>5. n \in 0..most /\ n \in Nat
    BY <1>2
  <2>6. n # 0
    <3>1. n = 0 => front[n] = {start}
      BY <1>4, <2>5
    <3> QED BY <2>4, <3>1
  <2>7. n - 1 \in 0..most /\ n - 1 \notin Strays
    BY <1>2, <2>3, <2>5, <2>6
  <2>8. o \in Onward(front[n - 1])
    BY <1>4, <2>4, <2>5, <2>6
  <2>9. PICK x \in front[n - 1] : CanPay(x) /\ o \in AfterOne(x)
    BY <2>8 DEF Onward
  <2>10. LoopInv(x, start)
    BY <2>7, <2>9
  <2> QED BY <2>4, <2>9, <2>10, LoopStep
<1>6. PICK n \in 0..most : end \in front[n] /\ ~CanPay(end)
  BY <1>3
<1>7. LoopInv(end, start)
  BY <1>5, <1>6
<1>8. end.carry \in Int
  BY <1>7 DEF LoopInv, UnderWay
<1> QED BY <1>1, <1>6, <1>7, <1>8 DEF CanPay

-----------------------------------------------------------------------------
(* The operations *)

LEMMA PaceBounds ==
  /\ Longest \in Elapses /\ \A ms \in Elapses : Longest >= ms
  /\ Fastest \in Rates /\ \A r \in Rates : Fastest >= r
  /\ Longest \in Nat /\ Fastest \in Nat
  /\ Cardinality(Pairs) \in Nat
<1>1. Longest \in Elapses /\ \A ms \in Elapses : Longest >= ms
  BY PaceAssumption DEF Longest
<1>2. Fastest \in Rates /\ \A r \in Rates : Fastest >= r
  BY PaceAssumption DEF Fastest
<1>3. Cardinality(Pairs) \in Nat
  BY PaceAssumption, FS_CardinalityType
<1> QED BY <1>1, <1>2, <1>3, MarketAssumption

\* The market an advance hands to the loop.
Affecteds(ms) == [p \in Pairs |-> Affected(pairs[p], ms)]
StartOf(ms) ==
  [pairs |-> [p \in Pairs |-> [Affecteds(ms)[p] EXCEPT !.refresh = FALSE]],
   carry |-> carry + ms * rate,
   mirror |-> [p \in Pairs |-> IF Affecteds(ms)[p].refresh THEN Quotes(Affecteds(ms)[p])
                               ELSE mirror[p]],
   spoke |-> {p \in Pairs : Affecteds(ms)[p].refresh},
   said |-> MidMoveCost * Cardinality({p \in Pairs : Affecteds(ms)[p].refresh})]

\* What the loop finds of one pair, and of the pair before the advance.
StartFacts(start, p, ms) ==
  LET later == Affected(pairs[p], ms)
  IN /\ PairSound(start.pairs[p])
     /\ start.pairs[p].jump = 0
     /\ start.pairs[p].mid = later.mid /\ later.mid = pairs[p].mid + pairs[p].jump
     /\ start.pairs[p].frozenFor = later.frozenFor
     /\ start.pairs[p].newsAge = later.newsAge
     /\ start.mirror[p] = IF later.refresh THEN Quotes(start.pairs[p]) ELSE mirror[p]
     /\ start.mirror[p] \in QuotesType
     /\ Surrounds(start.mirror[p], start.pairs[p].mid)
     /\ start.mirror[p] # Quotes(start.pairs[p]) => Lags(start.pairs[p])
     /\ p \in start.spoke <=> later.refresh
     /\ later.frozenFor > 0 =>
          (later.refresh <=> pairs[p].refresh \/ NewsEnds(pairs[p], later))
     /\ pairs[p].frozenFor > 0 /\ later.frozenFor = 0 => later.refresh

LEMMA StartOfPair ==
  ASSUME StandingInv, NEW ms \in Elapses, NEW p \in Pairs
  PROVE  StartFacts(StartOf(ms), p, ms)
<1> DEFINE later == Affected(pairs[p], ms)
           start == StartOf(ms)
<1>1. /\ PairSound(pairs[p]) /\ Surrounds(mirror[p], pairs[p].mid)
      /\ mirror[p] # Quotes(pairs[p]) => Lags(pairs[p])
      /\ mirror[p] \in QuotesType /\ ms \in Nat
  BY MarketAssumption DEF StandingInv, MarketTypeOK, QuotesType
<1>2. /\ PairSound(later) /\ later.jump = 0
      /\ later.mid = pairs[p].mid + pairs[p].jump
      /\ ~later.refresh =>
           /\ later.mid = pairs[p].mid
           /\ Lags(later) \/ (later.spread = pairs[p].spread /\ ~Lags(pairs[p]))
      /\ later.frozenFor > 0 =>
           (later.refresh <=> pairs[p].refresh \/ NewsEnds(pairs[p], later))
      /\ pairs[p].frozenFor > 0 /\ later.frozenFor = 0 => later.refresh
  BY <1>1, AffectedPair
<1>3. /\ start.pairs[p] = [later EXCEPT !.refresh = FALSE]
      /\ start.mirror[p] = IF later.refresh THEN Quotes(later) ELSE mirror[p]
      /\ p \in start.spoke <=> later.refresh
  BY DEF StartOf, Affecteds
<1> HIDE DEF later, start
<1>4. later \in PairState
  BY <1>2 DEF PairSound
<1>5. PICK pair : pair = start.pairs[p]
  OBVIOUS
<1>6. /\ pair \in PairState /\ pair.mid = later.mid /\ pair.spread = later.spread
      /\ pair.jump = later.jump /\ pair.newsX = later.newsX
      /\ pair.newsArmed = later.newsArmed /\ pair.newsAge = later.newsAge
      /\ pair.frozenFor = later.frozenFor
  BY <1>3, <1>4, <1>5 DEF PairState
<1>7. PairSound(pair) /\ pair.jump = 0 /\ (Lags(pair) <=> Lags(later))
  BY <1>2, <1>6 DEF PairSound, Lags
<1>8. Quotes(pair) = Quotes(later)
  BY <1>6, SameQuotes
<1>9. /\ start.mirror[p] \in QuotesType
      /\ Surrounds(start.mirror[p], pair.mid)
      /\ start.mirror[p] # Quotes(pair) => Lags(pair)
  <2>1. CASE later.refresh
    <3>1. start.mirror[p] = Quotes(later)
      BY <1>3, <2>1
    <3>2. Surrounds(Quotes(later), later.mid) /\ Quotes(later) \in QuotesType
      BY <1>2, <1>4, QuotesSurround, QuotesAreQuotes DEF PairSound
    <3> QED BY <1>6, <1>8, <3>1, <3>2
  <2>2. CASE ~later.refresh
    <3>1. start.mirror[p] = mirror[p] /\ pair.mid = pairs[p].mid
      BY <1>2, <1>3, <1>6, <2>2
    <3>2. ~Lags(later) => Quotes(later) = Quotes(pairs[p])
      BY <1>2, <2>2, SameQuotes
    <3>3. ~Lags(later) => mirror[p] = Quotes(pairs[p])
      BY <1>1, <1>2, <2>2
    <3> QED BY <1>1, <1>7, <1>8, <3>1, <3>2, <3>3
  <2> QED BY <2>1, <2>2
<1> QED BY <1>2, <1>3, <1>5, <1>6, <1>7, <1>8, <1>9 DEF StartFacts, later, start

LEMMA RefreshesAreCounted ==
  ASSUME NEW S \in SUBSET Pairs
  PROVE  /\ MidMoveCost * Cardinality(S) \in Nat
         /\ MidMoveCost * Cardinality(S) <= MidMoveCost * Cardinality(Pairs)
<1>1. Cardinality(S) \in Nat /\ Cardinality(S) <= Cardinality(Pairs)
  BY PaceAssumption, FS_Subset, FS_CardinalityType
<1>2. \A a, b, k \in Nat : a <= b => k * a \in Nat /\ k * a <= k * b
  OBVIOUS
<1> QED BY <1>1, <1>2, PaceBounds, CostsAreNumbers

LEMMA StartStands ==
  ASSUME StandingInv, NEW ms \in Elapses
  PROVE  StartOf(ms) \in UnderWay /\ LoopInv(StartOf(ms), StartOf(ms))
<1> DEFINE start == StartOf(ms)
<1>1. /\ carry \in Int /\ rate \in Nat /\ ms \in Nat
      /\ carry > -(MidMoveCost * Unit)
  BY MarketAssumption DEF StandingInv, MarketTypeOK, PaceIsKept
<1>2. PICK earned \in Nat : earned = ms * rate
  BY <1>1
<1>3. \A p \in Pairs : StartFacts(start, p, ms)
  BY StartOfPair
<1>4. /\ start.carry = carry + earned
      /\ start.said = MidMoveCost * Cardinality(start.spoke)
      /\ start.spoke \in SUBSET Pairs
      /\ start.pairs = [p \in Pairs |-> start.pairs[p]]
      /\ start.mirror = [p \in Pairs |-> start.mirror[p]]
      /\ start = [pairs |-> start.pairs, carry |-> start.carry, mirror |-> start.mirror,
                  spoke |-> start.spoke, said |-> start.said]
  BY <1>2 DEF StartOf
<1> HIDE DEF start
<1>5. start.said \in Nat /\ start.carry \in Int
  BY <1>1, <1>4, RefreshesAreCounted
<1>6. start.pairs \in [Pairs -> PairState] /\ start.mirror \in [Pairs -> QuotesType]
  BY <1>3, <1>4 DEF StartFacts, PairSound
<1>7. start \in UnderWay
  BY <1>4, <1>5, <1>6 DEF UnderWay
<1>8. ASSUME NEW p \in Pairs PROVE PairStands(start, start, p)
  <2>1. /\ PairSound(start.pairs[p])
        /\ Surrounds(start.mirror[p], start.pairs[p].mid)
    BY <1>3 DEF StartFacts
  <2> QED BY <2>1 DEF PairStands
<1>9. start.carry > -(MidMoveCost * Unit)
  BY <1>1, <1>4, CostsAreNumbers
<1>10. start.said * Unit + start.carry <= start.said * Unit + start.carry
  <2>1. PICK sum \in Int : sum = start.said * Unit + start.carry
    BY <1>5, CostsAreNumbers
  <2> QED BY <2>1
<1> QED BY <1>7, <1>8, <1>9, <1>10 DEF LoopInv, start

\* An advance ends where the loop ends.
LEMMA AdvanceEnds ==
  ASSUME StandingInv, NEW ms \in Elapses, Advance(ms)
  PROVE  \E end : /\ LoopInv(end, StartOf(ms)) /\ end.carry < Unit
                  /\ pairs' = end.pairs /\ carry' = end.carry /\ mirror' = end.mirror
                  /\ spoke' = end.spoke /\ said' = end.said
<1>1. PICK end \in Outcomes(StartOf(ms)) :
        /\ pairs' = end.pairs /\ carry' = end.carry /\ mirror' = end.mirror
        /\ spoke' = end.spoke /\ said' = end.said
  BY DEF Advance, StartOf, Affecteds
<1> QED BY <1>1, StartStands, LoopOutcomes

LEMMA AdvancePaid ==
  ASSUME StandingInv, NEW ms \in Elapses, Advance(ms)
  PROVE  TickIsPaidFor'
<1>1. PICK end :
        /\ LoopInv(end, StartOf(ms)) /\ end.carry < Unit
        /\ said' = end.said
  BY AdvanceEnds
<1>2. PICK start : start = StartOf(ms)
  OBVIOUS
<1>3. /\ carry \in Int /\ carry < Unit /\ rate \in Rates /\ rate \in Nat /\ ms \in Nat
      /\ Unit \in Nat /\ MidMoveCost \in Nat /\ Cardinality(Pairs) \in Nat
  BY CostsAreNumbers, PaceBounds, MarketAssumption
     DEF StandingInv, MarketTypeOK, PaceIsKept
<1>4. /\ end.said \in Nat /\ end.carry \in Int
      /\ end.carry > -(MidMoveCost * Unit)
      /\ end.said * Unit + end.carry <= start.said * Unit + start.carry
  BY <1>1, <1>2 DEF LoopInv, UnderWay
<1>5. PICK earned \in Nat : earned = ms * rate
  BY <1>3
<1>6. start.carry = carry + earned
  BY <1>2, <1>5 DEF StartOf
<1>7. /\ start.said \in Nat
      /\ start.said <= MidMoveCost * Cardinality(Pairs)
  BY <1>2, RefreshesAreCounted DEF StartOf
<1>8. PICK most \in Nat : most = Longest * Fastest
  BY PaceBounds
<1>9. earned <= most
  <2>1. \A a, b, c, d \in Nat : a <= b /\ c <= d => a * c <= b * d
    <3> SUFFICES ASSUME NEW a \in Nat, NEW b \in Nat, NEW c \in Nat, NEW d \in Nat,
                        a <= b, c <= d
                 PROVE  a * c <= b * d
      OBVIOUS
    <3>1. \A x, y, k \in Nat : x <= y => x * k <= y * k /\ k * x <= k * y
      OBVIOUS
    <3>2. a * c <= b * c /\ b * c <= b * d
      BY <3>1
    <3>3. a * c \in Nat /\ b * c \in Nat /\ b * d \in Nat
      OBVIOUS
    <3> QED BY <3>2, <3>3
  <2> QED BY <1>3, <1>5, <1>8, <2>1, PaceBounds
<1>10. PICK all \in Nat : all = MidMoveCost * Cardinality(Pairs)
  BY <1>3
<1>11. PICK allPaid \in Nat : allPaid = all * Unit
  BY <1>3
<1>12. PICK onePaid \in Nat : onePaid = MidMoveCost * Unit
  BY <1>3
<1>13. PICK refreshed \in Nat : refreshed = start.said * Unit
  BY <1>3, <1>7
<1>14. PICK spoken \in Nat : spoken = end.said * Unit
  BY <1>3, <1>4
<1>15. refreshed <= allPaid
  <2>1. \A x, y, k \in Nat : x <= y => x * k <= y * k
    OBVIOUS
  <2> QED BY <1>3, <1>7, <1>10, <1>11, <1>13, <2>1
<1>16. spoken - onePaid - allPaid < Unit + most
  BY <1>3, <1>4, <1>6, <1>9, <1>12, <1>13, <1>14, <1>15
<1>17. (end.said - MidMoveCost * (1 + Cardinality(Pairs))) * Unit
          = spoken - onePaid - allPaid
  <2>1. \A k, n \in Nat : k * (1 + n) = k + k * n
    OBVIOUS
  <2>2. MidMoveCost * (1 + Cardinality(Pairs)) = MidMoveCost + all
    BY <1>3, <1>10, <2>1
  <2>3. \A s, k, n, u \in Nat : (s - (k + n)) * u = s * u - k * u - n * u
    OBVIOUS
  <2> QED BY <1>3, <1>4, <1>11, <1>12, <1>14, <2>2, <2>3
<1>18. (end.said - MidMoveCost * (1 + Cardinality(Pairs))) * Unit < Unit + Longest * Fastest
  BY <1>8, <1>16, <1>17
<1> QED BY <1>1, <1>18 DEF TickIsPaidFor

LEMMA AdvanceKeeps ==
  ASSUME StandingInv, NEW ms \in Elapses, Advance(ms)
  PROVE  StandingInv'
<1>1. PICK end :
        /\ LoopInv(end, StartOf(ms)) /\ end.carry < Unit
        /\ pairs' = end.pairs /\ carry' = end.carry /\ mirror' = end.mirror
        /\ spoke' = end.spoke /\ said' = end.said
  BY AdvanceEnds
<1>2. PICK start : start = StartOf(ms)
  OBVIOUS
<1>3. \A p \in Pairs : StartFacts(start, p, ms) /\ PairStands(end, start, p)
  BY <1>1, <1>2, StartOfPair DEF LoopInv
<1>4. end \in UnderWay /\ end.carry > -(MidMoveCost * Unit)
  BY <1>1 DEF LoopInv
<1>5. /\ jumped' = [p \in Pairs |-> jumped[p] + AbsInt(pairs[p].jump)]
      /\ rate' = rate /\ rate \in Rates /\ jumped \in [Pairs -> Nat]
      /\ \A p \in Pairs : PairSound(pairs[p])
  BY DEF Advance, StandingInv, MarketTypeOK
<1>6. \A p \in Pairs : pairs[p].mid \in Int /\ pairs[p].jump \in Int /\ jumped[p] \in Nat
  BY <1>5 DEF PairSound, PairState
<1>7. jumped' \in [Pairs -> Nat]
  BY <1>5, <1>6 DEF AbsInt
<1>8. MarketTypeOK'
  BY <1>1, <1>4, <1>5, <1>7 DEF MarketTypeOK, UnderWay, QuotesType
<1>9. PaceIsKept'
  BY <1>1, <1>4 DEF PaceIsKept
<1>10. TickIsPaidFor'
  BY AdvancePaid
<1>11. ASSUME NEW p \in Pairs
       PROVE  /\ PairSound(pairs'[p])
              /\ Surrounds(mirror'[p], pairs'[p].mid)
              /\ mirror'[p] # Quotes(pairs'[p]) => Lags(pairs'[p])
  <2>1. StartFacts(start, p, ms) /\ PairStands(end, start, p)
    BY <1>3
  <2>2. /\ PairSound(end.pairs[p])
        /\ Surrounds(end.mirror[p], end.pairs[p].mid)
        /\ Lags(start.pairs[p]) => Lags(end.pairs[p])
        /\ start.mirror[p] = Quotes(start.pairs[p]) => end.mirror[p] = Quotes(end.pairs[p])
        /\ start.mirror[p] # Quotes(start.pairs[p]) => Lags(start.pairs[p])
    BY <2>1 DEF PairStands, StartFacts, Lags
  <2> QED BY <1>1, <2>2
<1>12. ASSUME NEW p \in Pairs
       PROVE  AbsInt(pairs'[p].mid) < MaxDeviation + Step + jumped'[p]
  <2>1. PICK tether : tether = MaxDeviation + Step + jumped'[p]
    OBVIOUS
  <2>2. /\ jumped'[p] = jumped[p] + AbsInt(pairs[p].jump)
        /\ pairs[p].mid \in Int /\ pairs[p].jump \in Int /\ jumped[p] \in Nat
        /\ MaxDeviation \in Nat /\ Step \in Nat
    BY <1>5, <1>6, MarketAssumption
  <2>3. tether \in Int /\ tether >= MaxDeviation + Step
    BY <2>1, <2>2 DEF AbsInt
  <2>4. AbsInt(pairs[p].mid) < MaxDeviation + Step + jumped[p]
    BY DEF StandingInv
  <2>5. AbsInt(pairs[p].mid + pairs[p].jump) < tether
    BY <2>1, <2>2, <2>4 DEF AbsInt
  <2>6. AbsInt(start.pairs[p].mid) < tether
    BY <1>3, <2>5 DEF StartFacts
  <2>7. AbsInt(end.pairs[p].mid) < tether
    BY <1>3, <2>3, <2>6 DEF PairStands
  <2> QED BY <1>1, <2>1, <2>7
<1> QED BY <1>8, <1>9, <1>10, <1>11, <1>12 DEF StandingInv

\* A command leaves the pair's mid, spread, clients and account of jumps alone.
LEMMA CommandKeeps ==
  ASSUME StandingInv, NEW p \in Pairs, NEW pair, Commanded, rate' \in Rates,
         pairs' = [pairs EXCEPT ![p] = pair],
         PairSound(pair), pair.mid = pairs[p].mid, pair.spread = pairs[p].spread,
         Lags(pairs[p]) => Lags(pair)
  PROVE  StandingInv'
<1>1. /\ pairs \in [Pairs -> PairState] /\ pair \in PairState
      /\ UNCHANGED <<anchored, carry, mirror, spoke, said, jumped>>
  BY DEF Commanded, StandingInv, MarketTypeOK, PairSound
<1>2. pairs' \in [Pairs -> PairState]
  BY <1>1
<1>3. MarketTypeOK'
  BY <1>1, <1>2 DEF StandingInv, MarketTypeOK
<1>4. PaceIsKept' /\ TickIsPaidFor'
  BY <1>1 DEF StandingInv, PaceIsKept, TickIsPaidFor
<1>5. ASSUME NEW q \in Pairs
      PROVE  /\ PairSound(pairs'[q])
             /\ Surrounds(mirror'[q], pairs'[q].mid)
             /\ mirror'[q] # Quotes(pairs'[q]) => Lags(pairs'[q])
             /\ AbsInt(pairs'[q].mid) < MaxDeviation + Step + jumped'[q]
  <2>1. /\ PairSound(pairs[q]) /\ Surrounds(mirror[q], pairs[q].mid)
        /\ mirror[q] # Quotes(pairs[q]) => Lags(pairs[q])
        /\ AbsInt(pairs[q].mid) < MaxDeviation + Step + jumped[q]
    BY DEF StandingInv
  <2>2. CASE q = p
    <3>1. pairs'[q] = pair
      BY <1>1, <2>2
    <3>2. Quotes(pair) = Quotes(pairs[p])
      BY SameQuotes
    <3> QED BY <1>1, <2>1, <2>2, <3>1, <3>2
  <2>3. CASE q # p
    <3>1. pairs'[q] = pairs[q]
      BY <1>1, <2>3
    <3> QED BY <1>1, <2>1, <3>1
  <2> QED BY <2>2, <2>3
<1> QED BY <1>3, <1>4, <1>5 DEF StandingInv

LEMMA NewsKeeps ==
  ASSUME StandingInv, NEW p \in Pairs, NEW jump \in Jumps, NEW x \in SpreadXs,
         News(p, jump, x)
  PROVE  StandingInv'
<1>1. /\ pairs[p] \in PairState /\ PairSound(pairs[p]) /\ rate' \in Rates
      /\ jump \in Int /\ x \in Nat /\ x >= 1
  BY MarketAssumption DEF StandingInv, MarketTypeOK, News
<1>2. PICK far \in Int : far = pairs[p].jump + jump
  BY <1>1 DEF PairState
<1>3. PICK pair : pair = [pairs[p] EXCEPT !.jump = far, !.newsX = x, !.newsArmed = TRUE,
                                          !.newsAge = None, !.refresh = TRUE]
  OBVIOUS
<1>4. /\ pair \in PairState /\ pair.mid = pairs[p].mid /\ pair.spread = pairs[p].spread
      /\ pair.newsX = x /\ pair.refresh /\ pair.newsArmed
  BY <1>1, <1>2, <1>3 DEF PairState, None
<1>5. PairSound(pair) /\ Lags(pair)
  BY <1>1, <1>4 DEF PairSound, Lags
<1>6. pairs' = [pairs EXCEPT ![p] = pair] /\ Commanded
  <2>1. /\ pairs' = [pairs EXCEPT ![p] =
             [pairs[p] EXCEPT !.jump = pairs[p].jump + jump, !.newsX = x, !.newsArmed = TRUE,
                              !.newsAge = None, !.refresh = TRUE]]
        /\ Commanded
    BY DEF News
  <2> QED BY <1>2, <1>3, <2>1
<1> QED BY <1>1, <1>4, <1>5, <1>6, CommandKeeps

LEMMA FreezeKeeps ==
  ASSUME StandingInv, NEW p \in Pairs, NEW ms \in FreezeMs, Freeze(p, ms)
  PROVE  StandingInv'
<1>1. /\ pairs \in [Pairs -> PairState] /\ PairSound(pairs[p]) /\ rate' \in Rates
      /\ ms \in Nat /\ pairs[p] \in PairState
  BY MarketAssumption DEF StandingInv, MarketTypeOK, Freeze
<1>2. PICK pair : pair = [pairs[p] EXCEPT !.freezeArmed = ms]
  OBVIOUS
<1>3. /\ pair \in PairState /\ pair.mid = pairs[p].mid /\ pair.spread = pairs[p].spread
      /\ pair.newsX = pairs[p].newsX /\ pair.jump = pairs[p].jump
      /\ pair.refresh = pairs[p].refresh
      /\ pair.newsAge = pairs[p].newsAge /\ pair.newsArmed = pairs[p].newsArmed
  BY <1>1, <1>2 DEF PairState
<1>4. PairSound(pair) /\ (Lags(pairs[p]) => Lags(pair))
  BY <1>1, <1>3 DEF PairSound, Lags
<1>5. pairs' = [pairs EXCEPT ![p] = pair] /\ Commanded
  <2>1. pairs' = [pairs EXCEPT ![p].freezeArmed = ms] /\ Commanded
    BY DEF Freeze
  <2>2. [pairs EXCEPT ![p].freezeArmed = ms] = [pairs EXCEPT ![p] = pair]
    BY <1>1, <1>2
  <2> QED BY <2>1, <2>2
<1> QED BY <1>1, <1>3, <1>4, <1>5, CommandKeeps

\* The steps that touch no pair.
LEMMA QuietKeeps ==
  ASSUME StandingInv, pairs' = pairs, rate' \in Rates,
         UNCHANGED <<carry, spoke, said, jumped>>,
         mirror' = mirror \/ mirror' = [p \in Pairs |-> Quotes(pairs[p])]
  PROVE  StandingInv'
<1>1. \A p \in Pairs : PairSound(pairs[p]) /\ pairs[p] \in PairState
  BY DEF StandingInv, PairSound
<1>2. \A p \in Pairs :
        Quotes(pairs[p]) \in QuotesType /\ Surrounds(Quotes(pairs[p]), pairs[p].mid)
  <2> SUFFICES ASSUME NEW p \in Pairs
               PROVE  Quotes(pairs[p]) \in QuotesType
                      /\ Surrounds(Quotes(pairs[p]), pairs[p].mid)
    OBVIOUS
  <2>1. PICK pair \in PairState : pair = pairs[p] /\ pair.spread >= 2
    BY <1>1 DEF PairSound
  <2> QED BY <2>1, QuotesAreQuotes, QuotesSurround
<1>3. MarketTypeOK'
  BY <1>2 DEF StandingInv, MarketTypeOK, QuotesType
<1>4. PaceIsKept' /\ TickIsPaidFor'
  BY DEF StandingInv, PaceIsKept, TickIsPaidFor
<1>5. ASSUME NEW p \in Pairs
      PROVE  /\ PairSound(pairs'[p])
             /\ Surrounds(mirror'[p], pairs'[p].mid)
             /\ mirror'[p] # Quotes(pairs'[p]) => Lags(pairs'[p])
             /\ AbsInt(pairs'[p].mid) < MaxDeviation + Step + jumped'[p]
  BY <1>2 DEF StandingInv
<1> QED BY <1>3, <1>4, <1>5 DEF StandingInv

LEMMA MarketInit == Init => StandingInv
<1> SUFFICES ASSUME Init PROVE StandingInv
  OBVIOUS
<1>1. /\ SpreadBase \in Nat /\ SpreadBase >= 2
      /\ MaxDeviation \in Nat /\ Step \in Nat /\ Step > 0
  BY MarketAssumption
<1>2. /\ FreshPair \in PairState /\ PairSound(FreshPair) /\ FreshPair.mid = 0
      /\ FreshPair.spread >= 2
  BY <1>1 DEF FreshPair, PairState, PairSound, None
<1>3. /\ Quotes(FreshPair) \in QuotesType
      /\ Surrounds(Quotes(FreshPair), FreshPair.mid)
  BY <1>2, QuotesAreQuotes, QuotesSurround
<1>4. MarketTypeOK
  <2>1. pairs \in [Pairs -> PairState] /\ mirror \in [Pairs -> QuotesType]
    BY <1>2, <1>3 DEF Init
  <2>2. jumped \in [Pairs -> Nat] /\ spoke \subseteq Pairs /\ said \in Nat
        /\ carry \in Int /\ rate \in Rates
    BY DEF Init
  <2> QED BY <2>1, <2>2 DEF MarketTypeOK, QuotesType
<1>5. ASSUME NEW p \in Pairs
      PROVE  /\ PairSound(pairs[p])
             /\ Surrounds(mirror[p], pairs[p].mid)
             /\ mirror[p] # Quotes(pairs[p]) => Lags(pairs[p])
             /\ AbsInt(pairs[p].mid) < MaxDeviation + Step + jumped[p]
  <2>1. pairs[p] = FreshPair /\ mirror[p] = Quotes(FreshPair) /\ jumped[p] = 0
    BY DEF Init
  <2> QED BY <1>1, <1>2, <1>3, <2>1 DEF AbsInt
<1>6. PaceIsKept
  BY CostsAreNumbers DEF Init, PaceIsKept
<1>7. TickIsPaidFor
  <2>1. PICK most \in Nat : most = Longest * Fastest
    BY PaceBounds
  <2>2. PICK all \in Nat : all = MidMoveCost * (1 + Cardinality(Pairs))
    BY PaceBounds, CostsAreNumbers
  <2>3. PICK paid \in Nat : paid = all * Unit
    BY CostsAreNumbers
  <2>4. (0 - all) * Unit = -paid
    BY <2>3, CostsAreNumbers
  <2>5. (0 - all) * Unit < Unit + most
    BY <2>4, CostsAreNumbers
  <2> QED BY <2>1, <2>2, <2>5 DEF Init, TickIsPaidFor
<1> QED BY <1>4, <1>5, <1>6, <1>7 DEF StandingInv

LEMMA MarketStep == StandingInv /\ [Next]_vars => StandingInv'
<1> SUFFICES ASSUME StandingInv, [Next]_vars PROVE StandingInv'
  OBVIOUS
<1>1. rate \in Rates
  BY DEF StandingInv, MarketTypeOK
<1>2. CASE Anchor
  BY <1>1, <1>2, QuietKeeps DEF Anchor
<1>3. ASSUME NEW ms \in Elapses, Advance(ms) PROVE StandingInv'
  BY <1>3, AdvanceKeeps
<1>4. ASSUME NEW p \in Pairs, NEW jump \in Jumps, NEW x \in SpreadXs, News(p, jump, x)
      PROVE  StandingInv'
  BY <1>4, NewsKeeps
<1>5. ASSUME NEW p \in Pairs, NEW ms \in FreezeMs, Freeze(p, ms) PROVE StandingInv'
  BY <1>5, FreezeKeeps
<1>6. ASSUME NEW next \in Rates, SetRate(next) PROVE StandingInv'
  BY <1>6, QuietKeeps DEF SetRate, Commanded
<1>7. CASE Snapshot
  BY <1>1, <1>7, QuietKeeps DEF Snapshot
<1>8. CASE UNCHANGED vars
  BY <1>1, <1>8, QuietKeeps DEF vars
<1> QED BY <1>2, <1>3, <1>4, <1>5, <1>6, <1>7, <1>8 DEF Next

LEMMA StandingAlways == Spec => []StandingInv
  BY MarketInit, MarketStep, PTL DEF Spec

-----------------------------------------------------------------------------
(* Theorems *)

\* The types hold; the loop of advance() stops when it should; a tick says no more
\* than its wait paid for; and the walk of every pair keeps its tether but for what
\* news has pushed: for any rates, waits, news and freezes.
THEOREM TheMarketIsBounded == Spec => []MarketInv
<1>1. StandingInv => MarketInv
  BY DEF StandingInv, MarketInv, WalkIsBounded
<1> QED BY <1>1, StandingAlways, PTL

\* No bid a client shows is at or above an ask it shows, however far apart in time the
\* two levels were sent.
THEOREM ClientsNeverCross == Spec => []WireNeverCrossed
<1>1. StandingInv => WireNeverCrossed
  <2> SUFFICES ASSUME StandingInv, NEW p \in Pairs, NEW i \in Depths, NEW j \in Depths
               PROVE  mirror[p][<<"bid", i>>] < mirror[p][<<"ask", j>>]
    BY DEF WireNeverCrossed
  <2>1. PICK quotes \in QuotesType, mid \in Int :
          quotes = mirror[p] /\ mid = pairs[p].mid
    BY DEF StandingInv, MarketTypeOK, QuotesType, PairState
  <2>2. quotes[<<"bid", i>>] < mid /\ quotes[<<"ask", j>>] > mid
    BY <2>1 DEF StandingInv, Surrounds
  <2>3. quotes[<<"bid", i>>] \in Int /\ quotes[<<"ask", j>>] \in Int
    <3>1. <<"bid", i>> \in Sides \X Depths /\ <<"ask", j>> \in Sides \X Depths
      BY DEF Sides
    <3> QED BY <3>1 DEF QuotesType
  <2>4. \A a, b, c \in Int : a < b /\ c > b => a < c
    OBVIOUS
  <2>5. quotes[<<"bid", i>>] < quotes[<<"ask", j>>]
    BY <2>2, <2>3, <2>4
  <2> QED BY <2>1, <2>5
<1> QED BY <1>1, StandingAlways, PTL

\* A client that misses no record shows the market's book unless news decays.
THEOREM ClientsLagInNewsOnly == Spec => []WireLagsInNewsOnly
<1>1. StandingInv => WireLagsInNewsOnly
  BY DEF StandingInv, WireLagsInNewsOnly, Lags
<1> QED BY <1>1, StandingAlways, PTL

\* The loop leaves a frozen pair as it found it; a thawed one is sent whole, and what the
\* loop sends of it afterwards is the book.
LEMMA FrozenInAdvance ==
  ASSUME StandingInv, NEW ms \in Elapses, Advance(ms), NEW p \in Pairs
  PROVE  /\ pairs'[p].frozenFor > 0 =>
              /\ pairs'[p].mid = pairs[p].mid + pairs[p].jump
              /\ p \in spoke' <=> Owed(p)
              /\ mirror'[p] = IF Owed(p) THEN Quotes(pairs'[p]) ELSE mirror[p]
         /\ pairs[p].frozenFor > 0 /\ pairs'[p].frozenFor = 0 =>
              p \in spoke' /\ mirror'[p] = Quotes(pairs'[p])
<1>1. PICK end :
        /\ LoopInv(end, StartOf(ms))
        /\ pairs' = end.pairs /\ mirror' = end.mirror /\ spoke' = end.spoke
  BY AdvanceEnds
<1>2. PICK start : start = StartOf(ms)
  OBVIOUS
<1>3. PICK later : later = Affected(pairs[p], ms)
  OBVIOUS
<1>4. /\ StartFacts(start, p, ms) /\ PairStands(end, start, p)
      /\ start.spoke \subseteq end.spoke
  BY <1>1, <1>2, StartOfPair DEF LoopInv
<1>5. /\ end.pairs[p].frozenFor = later.frozenFor
      /\ end.pairs[p].newsAge = later.newsAge
      /\ p \in start.spoke <=> later.refresh
      /\ start.mirror[p] = IF later.refresh THEN Quotes(start.pairs[p]) ELSE mirror[p]
      /\ start.pairs[p].mid = pairs[p].mid + pairs[p].jump
  BY <1>3, <1>4 DEF StartFacts, PairStands
<1>6. ASSUME end.pairs[p].frozenFor > 0
      PROVE  /\ end.pairs[p].mid = pairs[p].mid + pairs[p].jump
             /\ p \in end.spoke <=> Owed(p)
             /\ end.mirror[p] = IF Owed(p) THEN Quotes(end.pairs[p]) ELSE mirror[p]
  <2>1. /\ end.pairs[p] = start.pairs[p] /\ end.mirror[p] = start.mirror[p]
        /\ p \in end.spoke <=> p \in start.spoke
    BY <1>4, <1>5, <1>6 DEF StartFacts, PairStands
  <2>2. later.refresh <=> Owed(p)
    <3>1. later.refresh <=> pairs[p].refresh \/ NewsEnds(pairs[p], later)
      BY <1>3, <1>4, <1>5, <1>6 DEF StartFacts
    <3> QED
      BY <1>1, <1>5, <3>1 DEF Owed, NewsEnds
  <2> QED
    BY <1>5, <2>1, <2>2
<1>7. ASSUME pairs[p].frozenFor > 0, end.pairs[p].frozenFor = 0
      PROVE  p \in end.spoke /\ end.mirror[p] = Quotes(end.pairs[p])
  <2>1. later.refresh
    BY <1>3, <1>4, <1>5, <1>7 DEF StartFacts
  <2> QED
    BY <1>4, <1>5, <2>1 DEF PairStands
<1> QED
  BY <1>1, <1>6, <1>7

\* In every advance a pair inside its window keeps its mid, but for a jump, and what a
\* client shows of it, but for the whole book when news owes it; the advance that ends
\* the window leaves the client with the book (market.ts:233-279).
THEOREM FreezesAreKept == Spec => FreezeIsKept
<1>1. StandingInv /\ [Next]_vars =>
        [\A ms \in Elapses : FrozenStands \/ ~Advance(ms)]_vars
  BY FrozenInAdvance DEF FrozenStands
<1> QED BY <1>1, StandingAlways, PTL DEF Spec, FreezeIsKept

-----------------------------------------------------------------------------
(* The prices a wire is asked to carry *)

Widest == CHOOSE x \in SpreadXs : \A y \in SpreadXs : x >= y

LEMMA WidestIsWidest ==
  /\ Widest \in SpreadXs /\ \A x \in SpreadXs : x <= Widest
  /\ Widest \in Nat /\ Widest >= 1
  /\ WidestSpread = SpreadBase * Widest
  /\ WidestSpread \in Nat /\ SpreadBase <= WidestSpread
<1>1. Widest \in SpreadXs /\ \A x \in SpreadXs : Widest >= x
  BY PaceAssumption DEF Widest
<1>2. Widest \in Nat /\ Widest >= 1 /\ \A x \in SpreadXs : x \in Nat
  BY <1>1, MarketAssumption
<1>3. WidestSpread = SpreadBase * Widest
  BY DEF WidestSpread, Widest
<1>4. \A a, b \in Nat : b >= 1 => a <= a * b /\ a * b \in Nat
  OBVIOUS
<1>5. SpreadBase \in Nat
  BY MarketAssumption
<1> QED BY <1>1, <1>2, <1>3, <1>4, <1>5

\* A quotient rounded down is at most k when the dividend is below k + 1 divisors.
LEMMA QuotientBelow ==
  ASSUME NEW n \in Int, NEW d \in Nat, d > 0, NEW k \in Int, n < d * (k + 1)
  PROVE  n \div d <= k
<1>1. PICK q \in Int : q = n \div d
  OBVIOUS
<1>2. d * q <= n
  BY <1>1
<1>3. CASE q <= k
  BY <1>1, <1>3
<1>4. CASE q >= k + 1
  <2>1. \A a, b \in Int : a >= b => d * a >= d * b
    OBVIOUS
  <2>2. d * q >= d * (k + 1)
    BY <1>4, <2>1
  <2>3. d * q \in Int /\ d * (k + 1) \in Int
    OBVIOUS
  <2> QED BY <1>2, <2>2, <2>3
<1> QED BY <1>1, <1>3, <1>4

LEMMA SpreadIsNarrower ==
  ASSUME NEW x \in 1..Widest, NEW age \in 0..NewsDecay
  PROVE  NewsSpread(x, age) <= WidestSpread
<1>1. /\ SpreadBase \in Nat /\ SpreadBase >= 2 /\ NewsDecay \in Nat /\ NewsDecay > 0
      /\ Widest \in Nat /\ x \in Nat /\ x >= 1 /\ age \in Nat /\ x <= Widest
      /\ age <= NewsDecay /\ 2 * NewsDecay > 0 /\ 2 * NewsDecay \in Nat
  BY MarketAssumption, WidestIsWidest
<1>2. PICK over \in Int : over = (x - 1) * (NewsDecay - age)
  BY <1>1
<1>3. \A a, b, k \in Nat : a <= b => k * a <= k * b /\ a * k <= b * k /\ k * a \in Nat
  OBVIOUS
<1>4. over <= (x - 1) * NewsDecay
  <2>1. x - 1 \in Nat /\ NewsDecay - age \in Nat /\ NewsDecay - age <= NewsDecay
    BY <1>1
  <2> QED BY <1>1, <1>2, <1>3, <2>1
<1>5. PICK stretched \in Nat : stretched = x * NewsDecay
  BY <1>1, <1>3
<1>6. NewsDecay + over <= stretched
  <2>1. (x - 1) * NewsDecay = stretched - NewsDecay
    BY <1>1, <1>5
  <2> QED BY <1>1, <1>4, <2>1
<1>7. PICK scaled \in Int : scaled = SpreadBase * (NewsDecay + over)
  BY <1>1
<1>8. PICK full \in Int : full = SpreadBase * stretched
  BY <1>1
<1>9. scaled <= full
  <2>1. \A a, b \in Int, k \in Nat : a <= b => k * a <= k * b
    OBVIOUS
  <2> QED BY <1>1, <1>6, <1>7, <1>8, <2>1
<1>10. PICK top \in Nat : top = SpreadBase * x
  BY <1>1, <1>3
<1>11. full = top * NewsDecay
  BY <1>1, <1>5, <1>8, <1>10
<1>12. 2 * scaled + NewsDecay < (2 * NewsDecay) * (top + 1)
  <2>1. (2 * NewsDecay) * (top + 1) = 2 * full + 2 * NewsDecay
    BY <1>1, <1>11
  <2> QED BY <1>1, <1>9, <2>1
<1>13. (2 * scaled + NewsDecay) \div (2 * NewsDecay) <= top
  BY <1>1, <1>12, QuotientBelow
<1>14. PICK rounded \in Int : rounded = (2 * scaled + NewsDecay) \div (2 * NewsDecay)
  BY <1>1
<1>15. NewsSpread(x, age) = MaxInt(2, rounded)
  BY <1>2, <1>7, <1>14 DEF NewsSpread
<1>16. top <= WidestSpread /\ 2 <= WidestSpread
  BY <1>1, <1>3, <1>10, WidestIsWidest
<1> QED BY <1>13, <1>14, <1>15, <1>16, WidestIsWidest DEF MaxInt

\* News never spreads a pair beyond the widest spread.
Narrow(pair) == pair.spread <= WidestSpread /\ pair.newsX <= Widest

LEMMA AffectedIsNarrow ==
  ASSUME NEW pair, PairSound(pair), Narrow(pair), NEW ms \in Nat
  PROVE  Narrow(Affected(pair, ms))
<1> DEFINE thawed == Thawed(pair, ms)
           decayed == Decayed(thawed, ms)
           age == IF thawed.newsArmed THEN 0
                  ELSE IF thawed.newsAge = None THEN None ELSE thawed.newsAge + ms
<1>1. /\ PairSound(thawed) /\ Narrow(thawed)
  BY ThawedPair DEF Narrow
<1> HIDE DEF thawed
<1>2. /\ thawed \in PairState /\ thawed.newsX \in 1..Widest
      /\ thawed.newsAge \in {None} \cup Nat /\ thawed.newsArmed \in BOOLEAN
      /\ NewsDecay \in Nat /\ NewsDecay > 0
  BY <1>1, MarketAssumption, WidestIsWidest DEF PairSound, PairState, Narrow
<1>3. Narrow(decayed)
  <2>1. CASE age = None
    <3>1. decayed = thawed
      BY <2>1 DEF Decayed
    <3> QED BY <1>1, <3>1
  <2>2. CASE age # None /\ age >= NewsDecay
    <3>1. decayed = [thawed EXCEPT !.spread = SpreadBase, !.newsAge = None, !.newsX = 1,
                                   !.newsArmed = FALSE, !.refresh = TRUE]
      BY <2>2 DEF Decayed
    <3>2. decayed.spread = SpreadBase /\ decayed.newsX = 1
      BY <1>2, <3>1 DEF PairState
    <3> QED BY <3>2, WidestIsWidest DEF Narrow
  <2>3. CASE age # None /\ age < NewsDecay
    <3>1. PICK wide : wide = NewsSpread(thawed.newsX, age)
      OBVIOUS
    <3>2. decayed = [thawed EXCEPT !.spread = wide, !.newsAge = age, !.newsArmed = FALSE]
      BY <1>2, <2>3, <3>1 DEF Decayed
    <3>3. age \in 0..NewsDecay
      BY <1>2, <2>3 DEF None
    <3> HIDE DEF age, decayed
    <3>4. wide <= WidestSpread
      BY <1>2, <3>1, <3>3, SpreadIsNarrower
    <3>5. decayed.spread = wide /\ decayed.newsX = thawed.newsX
      BY <1>2, <3>2 DEF PairState
    <3> QED BY <1>1, <3>4, <3>5 DEF Narrow
  <2>4. age = None \/ age >= NewsDecay \/ age < NewsDecay
    BY <1>2 DEF None
  <2> QED BY <2>1, <2>2, <2>3, <2>4
<1>4. decayed \in PairState
  BY <1>1, DecayedPair DEF PairSound
<1>5. Affected(pair, ms) = [decayed EXCEPT !.mid = decayed.mid + decayed.jump, !.jump = 0]
  BY DEF Affected, Jumped, thawed
<1> HIDE DEF decayed
<1>6. /\ Affected(pair, ms).spread = decayed.spread
      /\ Affected(pair, ms).newsX = decayed.newsX
  BY <1>4, <1>5 DEF PairState
<1> QED BY <1>3, <1>6 DEF Narrow

\* The tether of pair p, news included.
Tether(p) == MaxDeviation + Step + jumped[p]

\* far: the longest jump.  Every level stays within reach of the anchor, and the reach
\* grows with the commands given.
PriceInv(far) ==
  /\ commands \in 0..MaxCommands
  /\ \A p \in Pairs :
       /\ Narrow(pairs[p])
       /\ jumped[p] + AbsInt(pairs[p].jump) <= commands * far
       /\ Within(mirror[p], Span(Tether(p), WidestSpread))

LEMMA SpanGrows ==
  ASSUME NEW s \in Int, NEW t \in Int, s <= t, NEW widest \in Int, NEW quotes \in QuotesType,
         Within(quotes, Span(s, widest))
  PROVE  Within(quotes, Span(t, widest))
<1>1. BookLevels - 1 \in Nat /\ LevelGap \in Nat
  BY MarketAssumption
<1>2. PICK rest \in Int : rest = (widest + 1) \div 2 + (BookLevels - 1) * LevelGap
  BY <1>1
<1>3. Span(s, widest) = s + rest /\ Span(t, widest) = t + rest
  <2>1. PICK a, b \in Int : a = (widest + 1) \div 2 /\ b = (BookLevels - 1) * LevelGap
    BY <1>1
  <2> QED BY <1>2, <2>1 DEF Span
<1>4. \A side \in Sides, depth \in Depths : quotes[<<side, depth>>] \in Int
  BY DEF QuotesType
<1>5. PICK near \in Int, wide \in Int :
        near = Span(s, widest) /\ wide = Span(t, widest) /\ near <= wide
  BY <1>2, <1>3
<1>6. ASSUME NEW side \in Sides, NEW depth \in Depths
      PROVE  -wide <= quotes[<<side, depth>>] /\ quotes[<<side, depth>>] <= wide
  <2>1. PICK q \in Int : q = quotes[<<side, depth>>]
    BY <1>4
  <2>2. -near <= q /\ q <= near
    BY <1>5, <2>1 DEF Within
  <2> QED BY <1>5, <2>1, <2>2
<1> QED BY <1>5, <1>6 DEF Within

LEMMA PriceInit ==
  ASSUME Init, NEW far \in Nat
  PROVE  PriceInv(far)
<1>1. /\ SpreadBase \in Nat /\ SpreadBase >= 2 /\ MaxDeviation \in Nat
      /\ Step \in Nat /\ Step > 0 /\ MaxCommands \in Nat
  BY MarketAssumption
<1>2. /\ FreshPair \in PairState /\ Narrow(FreshPair) /\ FreshPair.mid = 0
      /\ FreshPair.spread = SpreadBase /\ FreshPair.jump = 0
  BY <1>1, WidestIsWidest DEF FreshPair, PairState, Narrow, None
<1>3. ASSUME NEW p \in Pairs
      PROVE  Within(mirror[p], Span(Tether(p), WidestSpread))
  <2>1. mirror[p] = Quotes(FreshPair) /\ jumped[p] = 0
    BY DEF Init
  <2>2. Tether(p) \in Int /\ AbsInt(FreshPair.mid) < Tether(p)
    BY <1>1, <1>2, <2>1 DEF Tether, AbsInt
  <2> QED BY <1>1, <1>2, <2>1, <2>2, QuotesAreWithin, WidestIsWidest DEF Narrow
<1>4. \A p \in Pairs : jumped[p] + AbsInt(pairs[p].jump) <= commands * far
  BY <1>2 DEF Init, AbsInt
<1> QED BY <1>1, <1>2, <1>3, <1>4 DEF Init, PriceInv

LEMMA PriceAdvance ==
  ASSUME NEW far \in Nat, StandingInv, PriceInv(far), NEW ms \in Elapses, Advance(ms)
  PROVE  PriceInv(far)'
<1>1. PICK end :
        /\ LoopInv(end, StartOf(ms)) /\ pairs' = end.pairs /\ mirror' = end.mirror
  BY AdvanceEnds
<1>2. PICK start : start = StartOf(ms)
  OBVIOUS
<1>3. /\ jumped' = [p \in Pairs |-> jumped[p] + AbsInt(pairs[p].jump)]
      /\ commands' = commands /\ jumped \in [Pairs -> Nat] /\ ms \in Nat
  BY MarketAssumption DEF Advance, StandingInv, MarketTypeOK
<1>4. ASSUME NEW p \in Pairs
      PROVE  /\ Narrow(pairs'[p])
             /\ jumped'[p] + AbsInt(pairs'[p].jump) <= commands' * far
             /\ Within(mirror'[p], Span(Tether(p)', WidestSpread))
  <2>1. PICK later : later = Affected(pairs[p], ms)
    OBVIOUS
  <2>2. /\ StartFacts(start, p, ms) /\ PairStands(end, start, p)
        /\ PairSound(pairs[p]) /\ Narrow(pairs[p])
    BY <1>1, <1>2, StartOfPair DEF LoopInv, StandingInv, PriceInv
  <2>3. /\ PairSound(later) /\ later.mid = pairs[p].mid + pairs[p].jump /\ Narrow(later)
    BY <1>3, <2>1, <2>2, AffectedPair, AffectedIsNarrow
  <2>4. /\ start.pairs[p] = [later EXCEPT !.refresh = FALSE]
        /\ start.mirror[p] = IF later.refresh THEN Quotes(later) ELSE mirror[p]
    BY <1>2, <2>1 DEF StartOf, Affecteds
  <2>5. later \in PairState /\ later.spread >= 2
    BY <2>3 DEF PairSound
  <2>6. /\ start.pairs[p].spread = later.spread /\ start.pairs[p].newsX = later.newsX
        /\ start.pairs[p].mid = later.mid /\ start.pairs[p].jump = 0
    BY <2>2, <2>4, <2>5 DEF PairState, StartFacts
  <2>7. /\ end.pairs[p].spread = later.spread /\ end.pairs[p].newsX = later.newsX
        /\ end.pairs[p].jump = 0
    BY <2>2, <2>6 DEF PairStands
  <2>8. Narrow(end.pairs[p])
    BY <2>3, <2>7 DEF Narrow
  <2>9. jumped'[p] + AbsInt(pairs'[p].jump) <= commands' * far
    <3>1. /\ jumped'[p] = jumped[p] + AbsInt(pairs[p].jump)
          /\ pairs'[p].jump = 0
          /\ jumped[p] + AbsInt(pairs[p].jump) <= commands * far
      BY <1>1, <1>3, <2>7 DEF PriceInv
    <3>2. jumped[p] + AbsInt(pairs[p].jump) \in Int
      BY <1>3, <2>2 DEF PairSound, PairState, AbsInt
    <3> QED BY <1>3, <3>1, <3>2 DEF AbsInt
  <2>10. PICK tether : tether = MaxDeviation + Step + jumped'[p]
    OBVIOUS
  <2>11. /\ tether \in Int /\ tether >= MaxDeviation + Step
         /\ AbsInt(later.mid) < tether
         /\ MaxDeviation + Step + jumped[p] \in Int
         /\ MaxDeviation + Step + jumped[p] <= tether
    <3>1. /\ jumped'[p] = jumped[p] + AbsInt(pairs[p].jump) /\ jumped[p] \in Nat
          /\ pairs[p].mid \in Int /\ pairs[p].jump \in Int
          /\ MaxDeviation \in Nat /\ Step \in Nat
          /\ AbsInt(pairs[p].mid) < MaxDeviation + Step + jumped[p]
      BY <1>3, <2>2, MarketAssumption DEF PairSound, PairState, StandingInv
    <3> QED BY <2>3, <2>10, <3>1 DEF AbsInt
  <2>12. Within(start.mirror[p], Span(tether, WidestSpread))
    <3>1. CASE later.refresh
      <4>1. Within(Quotes(later), Span(tether, WidestSpread))
        BY <2>3, <2>5, <2>11, QuotesAreWithin, WidestIsWidest DEF Narrow
      <4> QED BY <2>4, <3>1, <4>1
    <3>2. CASE ~later.refresh
      <4>1. mirror[p] \in QuotesType
        BY DEF StandingInv, MarketTypeOK, QuotesType
      <4>2. Within(mirror[p], Span(MaxDeviation + Step + jumped[p], WidestSpread))
        BY DEF PriceInv, Tether
      <4>3. Within(mirror[p], Span(tether, WidestSpread))
        BY <2>11, <4>1, <4>2, SpanGrows, WidestIsWidest
      <4> QED BY <2>4, <3>2, <4>3
    <3> QED BY <3>1, <3>2
  <2>13. Within(end.mirror[p], Span(tether, WidestSpread))
    <3>1. AbsInt(start.pairs[p].mid) < tether /\ start.pairs[p].spread <= WidestSpread
      BY <2>3, <2>6, <2>11 DEF Narrow
    <3> QED BY <2>2, <2>11, <2>12, <3>1, WidestIsWidest DEF PairStands
  <2> QED BY <1>1, <2>8, <2>9, <2>10, <2>13 DEF Tether
<1> QED BY <1>3, <1>4 DEF PriceInv

LEMMA PriceStep ==
  ASSUME NEW far \in Nat, \A jump \in Jumps : AbsInt(jump) <= far,
         StandingInv, PriceInv(far), [Next]_vars
  PROVE  PriceInv(far)'
<1>1. /\ pairs \in [Pairs -> PairState] /\ jumped \in [Pairs -> Nat]
      /\ commands \in Nat /\ commands <= MaxCommands /\ MaxCommands \in Nat
      /\ \A p \in Pairs : PairSound(pairs[p])
  BY MarketAssumption DEF StandingInv, MarketTypeOK, PriceInv
<1>2. ASSUME NEW ms \in Elapses, Advance(ms) PROVE PriceInv(far)'
  BY <1>2, PriceAdvance
<1>3. (commands + 1) * far = commands * far + far /\ commands * far \in Nat
  <2>1. \A a, b \in Nat : (a + 1) * b = a * b + b /\ a * b \in Nat
    OBVIOUS
  <2> QED BY <1>1, <2>1
<1>4. ASSUME NEW p \in Pairs, NEW pair, Commanded, pairs' = [pairs EXCEPT ![p] = pair],
             Narrow(pair), AbsInt(pair.jump) <= AbsInt(pairs[p].jump) + far,
             pair.jump \in Int
      PROVE  PriceInv(far)'
  <2>1. /\ commands' = commands + 1 /\ commands' \in 0..MaxCommands
        /\ jumped' = jumped /\ mirror' = mirror
    BY <1>1, <1>4 DEF Commanded
  <2>2. ASSUME NEW q \in Pairs
        PROVE  /\ Narrow(pairs'[q])
               /\ jumped'[q] + AbsInt(pairs'[q].jump) <= commands' * far
               /\ Within(mirror'[q], Span(Tether(q)', WidestSpread))
    <3>1. /\ jumped[q] + AbsInt(pairs[q].jump) <= commands * far
          /\ Narrow(pairs[q]) /\ Within(mirror[q], Span(Tether(q), WidestSpread))
          /\ jumped[q] \in Nat /\ pairs[q].jump \in Int
      BY <1>1 DEF PriceInv, PairSound, PairState
    <3>2. pairs'[q] = IF q = p THEN pair ELSE pairs[q]
      BY <1>1, <1>4
    <3>3. jumped[q] + AbsInt(pairs'[q].jump) <= commands * far + far
      BY <1>3, <1>4, <3>1, <3>2 DEF AbsInt
    <3> QED BY <1>3, <1>4, <2>1, <3>1, <3>2, <3>3 DEF Tether
  <2> QED BY <2>1, <2>2 DEF PriceInv
<1>5. ASSUME NEW p \in Pairs, NEW jump \in Jumps, NEW x \in SpreadXs, News(p, jump, x)
      PROVE  PriceInv(far)'
  <2>1. /\ pairs[p] \in PairState /\ jump \in Int /\ AbsInt(jump) <= far
        /\ pairs[p].jump \in Int /\ x <= Widest
    BY <1>1, MarketAssumption, WidestIsWidest DEF PairState
  <2>2. PICK reach \in Int : reach = pairs[p].jump + jump
    BY <2>1
  <2>3. PICK pair : pair = [pairs[p] EXCEPT !.jump = reach, !.newsX = x, !.newsArmed = TRUE,
                                            !.newsAge = None, !.refresh = TRUE]
    OBVIOUS
  <2>4. pairs' = [pairs EXCEPT ![p] = pair] /\ Commanded
    BY <2>2, <2>3, <1>5 DEF News
  <2>5. pair.jump = reach /\ pair.newsX = x /\ pair.spread = pairs[p].spread
    BY <2>1, <2>3 DEF PairState
  <2>6. Narrow(pair)
    BY <2>1, <2>5 DEF PriceInv, Narrow
  <2>7. AbsInt(pair.jump) <= AbsInt(pairs[p].jump) + far
    BY <2>1, <2>2, <2>5 DEF AbsInt
  <2> QED BY <1>4, <2>4, <2>5, <2>6, <2>7
<1>6. ASSUME NEW p \in Pairs, NEW ms \in FreezeMs, Freeze(p, ms)
      PROVE  PriceInv(far)'
  <2>1. pairs[p] \in PairState /\ pairs[p].jump \in Int
    BY <1>1 DEF PairState
  <2>2. PICK pair : pair = [pairs[p] EXCEPT !.freezeArmed = ms]
    OBVIOUS
  <2>3. pair.jump = pairs[p].jump /\ pair.newsX = pairs[p].newsX
        /\ pair.spread = pairs[p].spread
    BY <2>1, <2>2 DEF PairState
  <2>4. pairs' = [pairs EXCEPT ![p] = pair] /\ Commanded
    <3>1. pairs' = [pairs EXCEPT ![p].freezeArmed = ms] /\ Commanded
      BY <1>6 DEF Freeze
    <3>2. [pairs EXCEPT ![p].freezeArmed = ms] = [pairs EXCEPT ![p] = pair]
      BY <1>1, <2>2
    <3> QED BY <3>1, <3>2
  <2>5. Narrow(pair)
    BY <2>3 DEF PriceInv, Narrow
  <2>6. AbsInt(pair.jump) <= AbsInt(pairs[p].jump) + far
    BY <2>1, <2>3 DEF AbsInt
  <2> QED BY <1>4, <2>1, <2>3, <2>4, <2>5, <2>6
<1>7. ASSUME NEW next \in Rates, SetRate(next) PROVE PriceInv(far)'
  <2>1. /\ commands' = commands + 1 /\ commands' \in 0..MaxCommands
        /\ UNCHANGED <<pairs, jumped, mirror>>
    BY <1>1, <1>7 DEF SetRate, Commanded
  <2>2. ASSUME NEW q \in Pairs
        PROVE  jumped[q] + AbsInt(pairs[q].jump) <= commands' * far
    <3>1. jumped[q] + AbsInt(pairs[q].jump) <= commands * far
      BY DEF PriceInv
    <3>2. jumped[q] \in Nat /\ pairs[q].jump \in Int
      BY <1>1 DEF PairSound, PairState
    <3> QED BY <1>3, <2>1, <3>1, <3>2 DEF AbsInt
  <2> QED BY <2>1, <2>2 DEF PriceInv, Tether
<1>8. CASE Anchor \/ UNCHANGED vars
  <2>1. UNCHANGED <<pairs, jumped, mirror, commands>>
    BY <1>8 DEF Anchor, vars
  <2> QED BY <2>1 DEF PriceInv, Tether
<1>9. CASE Snapshot
  <2>1. /\ UNCHANGED <<pairs, jumped, commands>>
        /\ mirror' = [p \in Pairs |-> Quotes(pairs[p])]
    BY <1>9 DEF Snapshot
  <2>2. ASSUME NEW p \in Pairs PROVE Within(mirror'[p], Span(Tether(p)', WidestSpread))
    <3>1. /\ pairs[p] \in PairState /\ pairs[p].spread >= 2
          /\ pairs[p].spread <= WidestSpread
      BY <1>1 DEF PairSound, PriceInv, Narrow
    <3>2. Tether(p) \in Int /\ AbsInt(pairs[p].mid) < Tether(p)
      BY <1>1, MarketAssumption DEF Tether, StandingInv
    <3>3. Within(Quotes(pairs[p]), Span(Tether(p), WidestSpread))
      BY <3>1, <3>2, QuotesAreWithin, WidestIsWidest
    <3> QED BY <2>1, <3>3 DEF Tether
  <2> QED BY <2>1, <2>2 DEF PriceInv
<1> QED BY <1>2, <1>5, <1>6, <1>7, <1>8, <1>9 DEF Next

-----------------------------------------------------------------------------
(* The codecs *)

\* An update every field of which has room on the wire.
FittingUpdate ==
  [pairId : 0..ByteMax, side : {"bid", "ask"}, level : 0..ByteMax, size : 0..SizeMax,
   price : (-PriceMax - 1)..PriceMax]

RecordOf(update, seq) ==
  [pairId |-> update.pairId, side |-> update.side, level |-> update.level,
   price |-> update.price, size |-> update.size, seq |-> seq]

LEMMA WidthsAreNumbers ==
  /\ CountMax \in Nat /\ SeqMax \in Nat /\ ByteMax \in Nat
  /\ PriceMax \in Nat /\ SizeMax \in Nat
  BY WidthAssumption

\* What the frame of a snapshot is.
LEMMA SnapshotIs ==
  ASSUME NEW n \in Nat, NEW updates \in [1..n -> FittingUpdate], NEW firstSeq \in Nat,
         NEW frame, frame = AssembleFrame("SNAPSHOT", updates, firstSeq)
  PROVE  /\ frame = [frameType |-> "SNAPSHOT", count |-> n, firstSeq |-> firstSeq,
                     records |-> [i \in 1..n |-> RecordOf(updates[i], firstSeq + i - 1)]]
         /\ Len(frame.records) = n
<1>1. DOMAIN updates = 1..n /\ Len(updates) = n
  BY DEF FittingUpdate
<1>2. PICK records : records = [i \in 1..n |-> RecordOf(updates[i], firstSeq + i - 1)]
  OBVIOUS
<1>3. frame = [frameType |-> "SNAPSHOT", count |-> n, firstSeq |-> firstSeq,
               records |-> records]
  BY <1>1, <1>2 DEF AssembleFrame, RecordOf
<1>4. DOMAIN records = 1..n /\ records = [i \in 1..n |-> records[i]]
  BY <1>2
<1>5. Len(records) = n
  BY <1>4
<1> QED BY <1>2, <1>3, <1>5

\* The bytes of a snapshot that fits.
LEMMA BytesAre ==
  ASSUME NEW n \in 0..CountMax, NEW updates \in [1..n -> FittingUpdate],
         NEW firstSeq \in 0..SeqMax,
         NEW bytes, bytes = EncodeFrameBinary(AssembleFrame("SNAPSHOT", updates, firstSeq))
  PROVE  bytes = [version |-> BinaryVersion, typeCode |-> 0, count |-> n,
                  firstSeq |-> firstSeq, length |-> HeaderBytes + RecordBytes * n,
                  records |-> [i \in 1..n |->
                                 [pairId |-> updates[i].pairId,
                                  sideByte |-> IF updates[i].side = "bid" THEN 0 ELSE 1,
                                  level |-> updates[i].level, price |-> updates[i].price,
                                  size |-> updates[i].size]]]
<1>1. n \in Nat /\ firstSeq \in Nat
  BY WidthsAreNumbers
<1>2. PICK frame : frame = AssembleFrame("SNAPSHOT", updates, firstSeq)
  OBVIOUS
<1>3. /\ frame.frameType = "SNAPSHOT" /\ frame.count = n /\ frame.firstSeq = firstSeq
      /\ frame.records = [i \in 1..n |-> RecordOf(updates[i], firstSeq + i - 1)]
      /\ Len(frame.records) = n
  BY <1>1, <1>2, SnapshotIs
<1>4. DOMAIN frame.records = 1..n
  BY <1>3
<1>5. \A i \in 1..n :
        /\ frame.records[i].pairId = updates[i].pairId
        /\ frame.records[i].side = updates[i].side
        /\ frame.records[i].level = updates[i].level
        /\ frame.records[i].price = updates[i].price
        /\ frame.records[i].size = updates[i].size
  BY <1>3 DEF RecordOf
<1>6. \A i \in 1..n : Fits(frame.records[i])
  BY <1>5 DEF Fits, FittingUpdate
<1>7. /\ Contains(FRAME_TYPE_CODES, frame.frameType)
      /\ (CHOOSE i \in DOMAIN FRAME_TYPE_CODES :
            FRAME_TYPE_CODES[i] = frame.frameType) = 1
  BY <1>3 DEF Contains, FRAME_TYPE_CODES
<1>8. ~(\/ ~Contains(FRAME_TYPE_CODES, frame.frameType)
        \/ frame.count \notin 0..CountMax
        \/ frame.firstSeq \notin 0..SeqMax
        \/ \E i \in DOMAIN frame.records : ~Fits(frame.records[i]))
  BY <1>3, <1>4, <1>6, <1>7
<1>9. bytes = [version |-> BinaryVersion,
               typeCode |-> (CHOOSE i \in DOMAIN FRAME_TYPE_CODES :
                               FRAME_TYPE_CODES[i] = frame.frameType) - 1,
               count |-> frame.count, firstSeq |-> frame.firstSeq,
               length |-> HeaderBytes + RecordBytes * Len(frame.records),
               records |-> [i \in DOMAIN frame.records |->
                              [pairId |-> frame.records[i].pairId,
                               sideByte |-> IF frame.records[i].side = "bid" THEN 0 ELSE 1,
                               level |-> frame.records[i].level,
                               price |-> frame.records[i].price,
                               size |-> frame.records[i].size]]]
  BY <1>2, <1>8 DEF EncodeFrameBinary
<1>10. PICK records : records = [i \in 1..n |->
                                 [pairId |-> updates[i].pairId,
                                  sideByte |-> IF updates[i].side = "bid" THEN 0 ELSE 1,
                                  level |-> updates[i].level, price |-> updates[i].price,
                                  size |-> updates[i].size]]
  OBVIOUS
<1>11. records = [i \in DOMAIN frame.records |->
                              [pairId |-> frame.records[i].pairId,
                               sideByte |-> IF frame.records[i].side = "bid" THEN 0 ELSE 1,
                               level |-> frame.records[i].level,
                               price |-> frame.records[i].price,
                               size |-> frame.records[i].size]]
  BY <1>4, <1>5, <1>10
<1>12. PICK code, size : /\ size = HeaderBytes + RecordBytes * Len(frame.records)
                         /\ code = (CHOOSE i \in DOMAIN FRAME_TYPE_CODES :
                                       FRAME_TYPE_CODES[i] = frame.frameType) - 1
  OBVIOUS
<1>13. code = 0 /\ size = HeaderBytes + RecordBytes * n
  BY <1>3, <1>7, <1>12
<1>14. bytes = [version |-> BinaryVersion, typeCode |-> code, count |-> frame.count,
                firstSeq |-> frame.firstSeq, length |-> size, records |-> records]
  BY <1>9, <1>11, <1>12
<1>15. bytes = [version |-> BinaryVersion, typeCode |-> 0, count |-> n,
                firstSeq |-> firstSeq, length |-> HeaderBytes + RecordBytes * n,
                records |-> records]
  BY <1>3, <1>13, <1>14
<1> QED BY <1>10, <1>15

\* What was encoded is what is decoded: the seqs left off the wire are counted up again.
LEMMA BinaryRoundTrip ==
  ASSUME NEW n \in 0..CountMax, NEW updates \in [1..n -> FittingUpdate],
         NEW firstSeq \in 0..SeqMax,
         NEW frame, frame = AssembleFrame("SNAPSHOT", updates, firstSeq)
  PROVE  DecodeFrameBinary(EncodeFrameBinary(frame)) = frame
<1>1. PICK bytes : bytes = EncodeFrameBinary(frame)
  OBVIOUS
<1>2. bytes = [version |-> BinaryVersion, typeCode |-> 0, count |-> n,
               firstSeq |-> firstSeq, length |-> HeaderBytes + RecordBytes * n,
               records |-> [i \in 1..n |->
                              [pairId |-> updates[i].pairId,
                               sideByte |-> IF updates[i].side = "bid" THEN 0 ELSE 1,
                               level |-> updates[i].level, price |-> updates[i].price,
                               size |-> updates[i].size]]]
  BY <1>1, BytesAre
<1>3. /\ bytes.version = BinaryVersion /\ bytes.typeCode = 0 /\ bytes.count = n
      /\ bytes.length = HeaderBytes + RecordBytes * n /\ bytes.firstSeq = firstSeq
      /\ DOMAIN bytes.records = 1..n
      /\ \A i \in 1..n :
           /\ bytes.records[i].pairId = updates[i].pairId
           /\ bytes.records[i].sideByte = IF updates[i].side = "bid" THEN 0 ELSE 1
           /\ bytes.records[i].level = updates[i].level
           /\ bytes.records[i].price = updates[i].price
           /\ bytes.records[i].size = updates[i].size
  BY <1>2
<1>4. n \in Nat
  BY WidthsAreNumbers
<1>5. /\ ~Damaged(bytes)
      /\ ~(bytes.typeCode >= Len(FRAME_TYPE_CODES))
      /\ FRAME_TYPE_CODES[bytes.typeCode + 1] = "SNAPSHOT"
  BY <1>3, <1>4 DEF Damaged, HeaderBytes, RecordBytes, FRAME_TYPE_CODES
<1>6. ~\E i \in DOMAIN bytes.records : bytes.records[i].sideByte > 1
  BY <1>3
<1>7. DecodeFrameBinary(bytes) =
        AssembleFrame("SNAPSHOT",
                      [i \in DOMAIN bytes.records |->
                        [pairId |-> bytes.records[i].pairId,
                         side |-> IF bytes.records[i].sideByte = 0 THEN "bid" ELSE "ask",
                         level |-> bytes.records[i].level,
                         price |-> bytes.records[i].price,
                         size |-> bytes.records[i].size]],
                      firstSeq)
  BY <1>3, <1>5, <1>6 DEF DecodeFrameBinary
<1>8. PICK decoded : decoded = [i \in DOMAIN bytes.records |->
                        [pairId |-> bytes.records[i].pairId,
                         side |-> IF bytes.records[i].sideByte = 0 THEN "bid" ELSE "ask",
                         level |-> bytes.records[i].level,
                         price |-> bytes.records[i].price,
                         size |-> bytes.records[i].size]]
  OBVIOUS
<1>9. ASSUME NEW i \in 1..n PROVE decoded[i] = updates[i]
  <2>1. updates[i] \in FittingUpdate /\ updates[i].side \in {"bid", "ask"}
    BY DEF FittingUpdate
  <2>2. (IF bytes.records[i].sideByte = 0 THEN "bid" ELSE "ask") = updates[i].side
    BY <1>3, <2>1
  <2>3. decoded[i] = [pairId |-> updates[i].pairId, side |-> updates[i].side,
                      level |-> updates[i].level, price |-> updates[i].price,
                      size |-> updates[i].size]
    BY <1>3, <1>8, <2>2
  <2> QED BY <2>1, <2>3 DEF FittingUpdate
<1>10. decoded = updates
  BY <1>3, <1>8, <1>9
<1> QED BY <1>1, <1>7, <1>8, <1>10

\* A payload damaged in its structure is thrown away or skipped.
LEMMA DamageIsSeen ==
  ASSUME NEW n \in 1..CountMax, NEW updates \in [1..n -> FittingUpdate],
         NEW firstSeq \in 0..SeqMax,
         NEW torn \in Torn(EncodeFrameBinary(AssembleFrame("SNAPSHOT", updates, firstSeq)))
  PROVE  DecodeFrameBinary(torn) \in {Throws, Skipped}
<1>1. PICK bytes : bytes = EncodeFrameBinary(AssembleFrame("SNAPSHOT", updates, firstSeq))
  OBVIOUS
<1>2. PICK records : records = [i \in 1..n |->
                              [pairId |-> updates[i].pairId,
                               sideByte |-> IF updates[i].side = "bid" THEN 0 ELSE 1,
                               level |-> updates[i].level, price |-> updates[i].price,
                               size |-> updates[i].size]]
  OBVIOUS
<1>3. n \in 0..CountMax /\ n \in Nat /\ n >= 1
  BY WidthsAreNumbers
<1>4. bytes = [version |-> BinaryVersion, typeCode |-> 0, count |-> n,
               firstSeq |-> firstSeq, length |-> HeaderBytes + RecordBytes * n,
               records |-> records]
  BY <1>1, <1>2, <1>3, BytesAre
<1>5. \/ torn = [bytes EXCEPT !.version = bytes.version - 1]
      \/ torn = [bytes EXCEPT !.count = bytes.count + 1]
      \/ torn = [bytes EXCEPT !.count = bytes.count - 1]
      \/ torn = [bytes EXCEPT !.length = bytes.length - 1]
      \/ torn = [bytes EXCEPT !.length = HeaderBytes - 1]
      \/ torn = [bytes EXCEPT !.typeCode = Len(FRAME_TYPE_CODES)]
      \/ torn = [bytes EXCEPT !.records[1].sideByte = 2]
  BY <1>1 DEF Torn
<1>6. CASE Damaged(torn)
  BY <1>6 DEF DecodeFrameBinary
<1>7. CASE torn.typeCode >= Len(FRAME_TYPE_CODES)
  BY <1>7 DEF DecodeFrameBinary
<1>8. CASE \E i \in DOMAIN torn.records : torn.records[i].sideByte > 1
  BY <1>8 DEF DecodeFrameBinary
<1>9. CASE torn = [bytes EXCEPT !.version = bytes.version - 1]
  <2>1. torn.version = BinaryVersion - 1
    BY <1>4, <1>9
  <2> QED BY <1>6, <2>1 DEF Damaged, BinaryVersion
<1>10. CASE \/ torn = [bytes EXCEPT !.count = bytes.count + 1]
            \/ torn = [bytes EXCEPT !.count = bytes.count - 1]
  <2>1. /\ torn.count \in {n + 1, n - 1}
        /\ torn.length = HeaderBytes + RecordBytes * n
    BY <1>4, <1>10
  <2>2. torn.length # HeaderBytes + RecordBytes * torn.count
    BY <1>3, <2>1 DEF HeaderBytes, RecordBytes
  <2> QED BY <1>6, <2>2 DEF Damaged
<1>11. CASE \/ torn = [bytes EXCEPT !.length = bytes.length - 1]
            \/ torn = [bytes EXCEPT !.length = HeaderBytes - 1]
  <2>1. /\ torn.count = n
        /\ torn.length = bytes.length - 1 \/ torn.length = HeaderBytes - 1
        /\ bytes.length = HeaderBytes + RecordBytes * n
    BY <1>4, <1>11
  <2>2. torn.length # HeaderBytes + RecordBytes * torn.count
    BY <1>3, <2>1 DEF HeaderBytes, RecordBytes
  <2> QED BY <1>6, <2>2 DEF Damaged
<1>12. CASE torn = [bytes EXCEPT !.typeCode = Len(FRAME_TYPE_CODES)]
  <2>1. torn.typeCode = Len(FRAME_TYPE_CODES)
    BY <1>4, <1>12
  <2> QED BY <1>7, <2>1 DEF FRAME_TYPE_CODES
<1>13. CASE torn = [bytes EXCEPT !.records[1].sideByte = 2]
  <2>1. torn.records = [records EXCEPT ![1].sideByte = 2]
    BY <1>4, <1>13
  <2>2. 1 \in DOMAIN torn.records /\ torn.records[1].sideByte = 2
    BY <1>2, <1>3, <2>1
  <2> QED BY <1>8, <2>2
<1> QED BY <1>5, <1>9, <1>10, <1>11, <1>12, <1>13

\* fx.v1 carries the updates whose prices are above zero.
LEMMA JsonRoundTrip ==
  ASSUME NEW n \in Nat, NEW updates \in [1..n -> FittingUpdate], NEW firstSeq \in Nat,
         \A i \in 1..n : updates[i].price > 0,
         NEW frame, frame = AssembleFrame("SNAPSHOT", updates, firstSeq)
  PROVE  DecodeFrame(EncodeFrame(frame)) = frame
<1>1. /\ frame.frameType = "SNAPSHOT" /\ frame.count = n /\ frame.firstSeq = firstSeq
      /\ frame.records = [i \in 1..n |-> RecordOf(updates[i], firstSeq + i - 1)]
      /\ Len(frame.records) = n
  BY SnapshotIs
<1>2. ASSUME NEW i \in 1..n
      PROVE  /\ Sensible(frame.records[i])
             /\ frame.records[i].seq = frame.firstSeq + i - 1
  <2>1. /\ updates[i] \in FittingUpdate /\ updates[i].price > 0
        /\ firstSeq + i - 1 \in Nat
    OBVIOUS
  <2>2. /\ updates[i].pairId \in Nat /\ updates[i].level \in Nat /\ updates[i].size \in Nat
        /\ updates[i].side \in {"bid", "ask"}
    BY <2>1, WidthsAreNumbers DEF FittingUpdate
  <2>3. /\ frame.records[i].pairId = updates[i].pairId
        /\ frame.records[i].side = updates[i].side
        /\ frame.records[i].level = updates[i].level
        /\ frame.records[i].price = updates[i].price
        /\ frame.records[i].size = updates[i].size
        /\ frame.records[i].seq = firstSeq + i - 1
    BY <1>1 DEF RecordOf
  <2> QED BY <1>1, <2>1, <2>2, <2>3 DEF Sensible
<1>3. DOMAIN frame.records = 1..n
  BY <1>1
<1>4. Contains(FRAME_TYPE_CODES, frame.frameType)
  BY <1>1 DEF Contains, FRAME_TYPE_CODES
<1>5. {frame.count, frame.firstSeq} \subseteq Nat
  BY <1>1
<1> QED BY <1>1, <1>2, <1>3, <1>4, <1>5 DEF DecodeFrame, EncodeFrame

-----------------------------------------------------------------------------
(* Both wires *)

\* far: the longest jump, and room for the prices such jumps can lead to.
RoomFor(far) ==
  /\ \A jump \in Jumps : AbsInt(jump) <= far
  /\ AnchorPrice + Span(MaxDeviation + Step + MaxCommands * far, WidestSpread) <= PriceMax

LEMMA RoomForSome == WidthsSuffice => \E far \in Nat : RoomFor(far)
<1> SUFFICES ASSUME WidthsSuffice PROVE \E far \in Nat : RoomFor(far)
  OBVIOUS
<1>1. PICK far \in 0..PriceMax :
        /\ \A jump \in Jumps : AbsInt(jump) <= far
        /\ AnchorPrice + FarthestQuote(MaxDeviation + Step + MaxCommands * far) <= PriceMax
  BY DEF WidthsSuffice
<1>2. far \in Nat
  BY WidthsAreNumbers
<1>3. FarthestQuote(MaxDeviation + Step + MaxCommands * far)
        = Span(MaxDeviation + Step + MaxCommands * far, WidestSpread)
  BY DEF FarthestQuote, Span
<1> QED BY <1>1, <1>2, <1>3 DEF RoomFor

\* What a pair's book says on the wire.
LEMMA BookFits ==
  ASSUME NEW far \in Nat, WidthsSuffice, RoomFor(far), StandingInv, PriceInv(far),
         NEW p \in Pairs
  PROVE  /\ BookUpdates(p) \in [1..MidMoveCost -> FittingUpdate]
         /\ AnchorPrice > Reach(p) => \A i \in 1..MidMoveCost : BookUpdates(p)[i].price > 0
<1>1. /\ BookLevels \in Nat /\ BookLevels > 0 /\ MidMoveCost = 2 * BookLevels
      /\ MidMoveCost \in Nat /\ AnchorPrice \in Nat /\ PriceMax \in Nat /\ ByteMax \in Nat
      /\ SizeMax \in Nat /\ SizeMax >= 1 /\ BookLevels - 1 <= ByteMax
      /\ MaxDeviation \in Nat /\ Step \in Nat /\ LevelGap \in Nat /\ MaxCommands \in Nat
  BY MarketAssumption, MarketWireAssumption, WidthsAreNumbers, CostsAreNumbers
     DEF MidMoveCost, WidthsSuffice
<1>2. /\ mirror[p] \in QuotesType /\ jumped[p] \in Nat
      /\ pairs[p].jump \in Int /\ commands \in Nat /\ commands <= MaxCommands
      /\ jumped[p] + AbsInt(pairs[p].jump) <= commands * far
      /\ Within(mirror[p], Span(Tether(p), WidestSpread))
  <2>1. mirror[p] \in QuotesType /\ jumped[p] \in Nat /\ pairs[p] \in PairState
    BY DEF StandingInv, MarketTypeOK, QuotesType
  <2>2. pairs[p].jump \in Int
    BY <2>1 DEF PairState
  <2>3. commands \in 0..MaxCommands
    BY DEF PriceInv
  <2> QED BY <1>1, <2>1, <2>2, <2>3 DEF PriceInv
<1>3. PICK rest \in Int : rest = (WidestSpread + 1) \div 2 + (BookLevels - 1) * LevelGap
  BY <1>1, WidestIsWidest
<1>4. PICK half \in Int, gaps \in Int :
        half = (WidestSpread + 1) \div 2 /\ gaps = (BookLevels - 1) * LevelGap
  BY <1>1, WidestIsWidest
<1>5. PICK pushed \in Nat : pushed = MaxCommands * far
  BY <1>1
<1>6. jumped[p] <= pushed
  <2>1. \A a, b, k \in Nat : a <= b => a * k \in Nat /\ a * k <= b * k
    OBVIOUS
  <2>2. commands * far <= pushed /\ commands * far \in Nat
    BY <1>1, <1>2, <1>5, <2>1
  <2> QED BY <1>2, <1>5, <2>2 DEF AbsInt
<1>7. PICK reach \in Int : reach = MaxDeviation + Step + jumped[p] + half + gaps
  BY <1>1, <1>2
<1>8. /\ Reach(p) = reach /\ Span(Tether(p), WidestSpread) = reach
  BY <1>4, <1>7 DEF Reach, FarthestQuote, Span, Tether
<1>9. Span(MaxDeviation + Step + MaxCommands * far, WidestSpread)
         = MaxDeviation + Step + pushed + half + gaps
  BY <1>4, <1>5 DEF Span
<1>10. AnchorPrice + reach <= PriceMax
  BY <1>1, <1>2, <1>6, <1>7, <1>9 DEF RoomFor
<1>11. ASSUME NEW i \in 1..MidMoveCost
       PROVE  /\ BookUpdates(p)[i] \in FittingUpdate
              /\ AnchorPrice > reach => BookUpdates(p)[i].price > 0
  <2>1. PICK depth \in Int : depth = (i - 1) \div 2
    BY <1>1
  <2>2. PICK side : side = IF i % 2 = 1 THEN "bid" ELSE "ask"
    OBVIOUS
  <2>3. depth \in Depths /\ depth \in 0..ByteMax
    BY <1>1, <2>1 DEF Depths
  <2>4. side \in Sides /\ side \in {"bid", "ask"}
    BY <2>2 DEF Sides
  <2>5. PICK quote : quote = mirror[p][<<side, depth>>]
    OBVIOUS
  <2>6. quote \in Int
    BY <1>2, <2>3, <2>4, <2>5 DEF QuotesType
  <2>7. -reach <= quote /\ quote <= reach
    BY <1>2, <1>8, <2>3, <2>4, <2>5 DEF Within
  <2>8. BookUpdates(p)[i] = [pairId |-> 0, side |-> side, level |-> depth, size |-> 1,
                             price |-> AnchorPrice + quote]
    BY <2>1, <2>2, <2>5 DEF BookUpdates
  <2>9. /\ AnchorPrice + quote \in (-PriceMax - 1)..PriceMax
        /\ AnchorPrice > reach => AnchorPrice + quote > 0
    BY <1>1, <1>10, <2>6, <2>7
  <2>10. 0 \in 0..ByteMax /\ 1 \in 0..SizeMax
    BY <1>1
  <2> QED BY <2>3, <2>4, <2>8, <2>9, <2>10 DEF FittingUpdate
<1>12. BookUpdates(p) = [i \in 1..MidMoveCost |-> BookUpdates(p)[i]]
  BY DEF BookUpdates
<1> QED BY <1>8, <1>11, <1>12

\* Whatever happens to the market, a frame of its book survives fx.v2, and fx.v1 while
\* its prices are positive; and no damaged payload is taken for a frame.
THEOREM BothWiresAreFaithful ==
  ASSUME WidthsSuffice
  PROVE  Spec => []BothWiresCarryTheBook
<1>1. PICK far \in Nat : RoomFor(far)
  BY RoomForSome
<1>2. ASSUME StandingInv, PriceInv(far) PROVE BothWiresCarryTheBook
  <2> SUFFICES ASSUME NEW p \in Pairs, NEW firstSeq \in FirstSeqs,
                      NEW frame, frame = AssembleFrame("SNAPSHOT", BookUpdates(p), firstSeq)
               PROVE  /\ DecodeFrameBinary(EncodeFrameBinary(frame)) = frame
                      /\ AnchorPrice > Reach(p) => DecodeFrame(EncodeFrame(frame)) = frame
                      /\ \A torn \in Torn(EncodeFrameBinary(frame)) :
                           DecodeFrameBinary(torn) \in {Throws, Skipped}
    BY DEF BothWiresCarryTheBook
  <2>1. PICK updates : updates = BookUpdates(p)
    OBVIOUS
  <2>2. /\ updates \in [1..MidMoveCost -> FittingUpdate]
        /\ AnchorPrice > Reach(p) => \A i \in 1..MidMoveCost : updates[i].price > 0
    BY <1>2, <1>1, <2>1, BookFits
  <2>3. /\ MidMoveCost \in Nat /\ MidMoveCost \in 0..CountMax /\ MidMoveCost \in 1..CountMax
        /\ firstSeq \in 0..SeqMax /\ firstSeq \in Nat
    BY CostsAreNumbers, WidthsAreNumbers, MarketWireAssumption DEF WidthsSuffice
  <2>4. frame = AssembleFrame("SNAPSHOT", updates, firstSeq)
    BY <2>1
  <2>5. DecodeFrameBinary(EncodeFrameBinary(frame)) = frame
    BY <2>2, <2>3, <2>4, BinaryRoundTrip
  <2>6. AnchorPrice > Reach(p) => DecodeFrame(EncodeFrame(frame)) = frame
    BY <2>2, <2>3, <2>4, JsonRoundTrip
  <2>7. \A torn \in Torn(EncodeFrameBinary(frame)) :
          DecodeFrameBinary(torn) \in {Throws, Skipped}
    BY <2>2, <2>3, <2>4, DamageIsSeen
  <2> QED BY <2>5, <2>6, <2>7
<1>3. \A jump \in Jumps : AbsInt(jump) <= far
  BY <1>1 DEF RoomFor
<1>4. Init => StandingInv /\ PriceInv(far)
  BY MarketInit, PriceInit
<1>5. StandingInv /\ PriceInv(far) /\ [Next]_vars => StandingInv' /\ PriceInv(far)'
  BY <1>3, MarketStep, PriceStep
<1> QED BY <1>2, <1>4, <1>5, PTL DEF Spec
=============================================================================
