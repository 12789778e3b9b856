---------------------------- MODULE ServerProofs ----------------------------
(***************************************************************************)
(* What three parts of the server guarantee, whatever the constants.       *)
(*                                                                         *)
(* The scripted execution engine, for any ids, sizes, hold times, splits   *)
(* and clocks: emit() never throws, every script is a life that ends, the  *)
(* counters agree with the orders, and every call is a step of OrderLife.  *)
(*                                                                         *)
(* The feed server's door, for any pages, sources and limits: the sockets  *)
(* never exceed the client limit whatever dies or restarts, and the rates  *)
(* the load chart plots are those the server really had.                   *)
(*                                                                         *)
(* The scenario director, for any speeds, commands by hand and restarts:   *)
(* one play at a time, its steps in order and once, and nothing of an      *)
(* earlier play but its disconnects.                                       *)
(***************************************************************************)
EXTENDS Execution, FeedDoor, Director,
        FiniteSetTheorems, FunctionTheorems, WellFoundedInduction, TLAPS


-----------------------------------------------------------------------------
(* Sums over finite sets *)

\* Among the subsets of a finite set with a property there is one that has it
\* while it has it with no element less.
LEMMA SmallestSet ==
  ASSUME NEW S, IsFiniteSet(S), NEW C \in SUBSET SUBSET S, C # {}
  PROVE  \E s \in C : IsFiniteSet(s) /\ \A x \in s : s \ {x} \notin C
<1> DEFINE R == StrictSubsetOrdering(S)
<1>1. IsWellFoundedOn(R, SUBSET S)
  BY FS_StrictSubsetOrderingWellFounded, FS_FiniteSubsetsOfFinite
<1>2. PICK s \in C : \A t \in C : <<t, s>> \notin R
  <2> HIDE DEF R
  <2> QED BY <1>1, WFMin
<1>3. ASSUME NEW x \in s, s \ {x} \in C PROVE FALSE
  <2>1. <<s \ {x}, s>> \in R
    BY <1>3 DEF StrictSubsetOrdering
  <2> QED BY <1>2, <1>3, <2>1
<1>4. IsFiniteSet(s)
  BY FS_Subset
<1> QED BY <1>3, <1>4

Some(s) == CHOOSE x \in s : TRUE

\* A chosen element is an element.
LEMMA SomeIsIn ==
  ASSUME NEW s, s # {}
  PROVE  Some(s) \in s
BY DEF Some

\* f is the sum of the weights w over each of the sets.
Sums(f, w, Sets) ==
  f = [s \in Sets |-> IF s = {} THEN 0 ELSE w[Some(s)] + f[s \ {Some(s)}]]

SumsOver(f, w, S) == Sums(f, w, SUBSET S)
SameOn(f, g, S) == \A s \in SUBSET S : f[s] = g[s]
Peels(f, w, s) == \A x \in s : f[s] = w[x] + f[s \ {x}]

\* The subsets of S with at most k elements.
UpTo(S, k) == {s \in SUBSET S : Cardinality(s) <= k}

\* A finite set without one of its elements is smaller by one.
LEMMA OneLess ==
  ASSUME NEW S, IsFiniteSet(S), NEW s \in SUBSET S, NEW x \in s
  PROVE  /\ s \ {x} \in SUBSET S
         /\ Cardinality(s) \in Nat
         /\ Cardinality(s \ {x}) = Cardinality(s) - 1
<1>1. IsFiniteSet(s)
  BY FS_Subset
<1> QED BY <1>1, FS_CardinalityType, FS_RemoveElement

\* A set of numbers has a least one.
LEMMA LeastNumber ==
  ASSUME NEW S \in SUBSET Nat, S # {}
  PROVE  \E n \in S : \A k \in S : n <= k
<1> DEFINE R == {p \in Nat \X Nat : p[1] < p[2]}
<1>1. IsWellFoundedOn(R, Nat)
  BY NatLessThanWellFounded DEF OpToRel
<1>2. PICK n \in S : \A k \in S : <<k, n>> \notin R
  <2> HIDE DEF R
  <2> QED BY <1>1, WFMin
<1>3. \A k \in S : ~(k < n)
  BY <1>2
<1> QED BY <1>3

\* The sums over the subsets of a finite set exist.
LEMMA SumsExist ==
  ASSUME NEW S, IsFiniteSet(S), NEW w
  PROVE  \E f : SumsOver(f, w, S)
<1> DEFINE Bad == {k \in Nat : ~ \E f : Sums(f, w, UpTo(S, k))}
<1>1. Bad = {}
  <2>1. SUFFICES ASSUME Bad # {} PROVE FALSE
    OBVIOUS
  <2>2. PICK m \in Bad : \A k \in Bad : m <= k
    <3>1. Bad \subseteq Nat
      OBVIOUS
    <3> HIDE DEF Bad
    <3> QED BY <2>1, <3>1, LeastNumber
  <2>3. m \in Nat /\ ~ \E f : Sums(f, w, UpTo(S, m))
    OBVIOUS
  <2>4. CASE m = 0
    <3>1. ASSUME NEW s \in UpTo(S, 0) PROVE s = {}
      <4>1. IsFiniteSet(s)
        BY FS_Subset DEF UpTo
      <4>2. Cardinality(s) = 0
        BY <4>1, FS_CardinalityType DEF UpTo
      <4> QED BY <4>1, <4>2, FS_EmptySet
    <3>2. PICK f : f = [s \in UpTo(S, 0) |-> 0]
      OBVIOUS
    <3>3. Sums(f, w, UpTo(S, 0))
      BY <3>1, <3>2 DEF Sums
    <3> QED BY <2>3, <2>4, <3>3
  <2>5. CASE m # 0
    <3>1. m - 1 \in Nat /\ m - 1 \notin Bad
      <4> HIDE DEF Bad
      <4> QED BY <2>2, <2>3, <2>5
    <3>2. PICK f : Sums(f, w, UpTo(S, m - 1))
      BY <3>1
    <3>3. PICK g : g = [s \in UpTo(S, m) |->
                          IF s = {} THEN 0 ELSE w[Some(s)] + f[s \ {Some(s)}]]
      OBVIOUS
    <3>4. ASSUME NEW s \in UpTo(S, m - 1)
          PROVE  s \in UpTo(S, m) /\ g[s] = f[s]
      <4>1. s \in SUBSET S /\ Cardinality(s) <= m - 1
        BY DEF UpTo
      <4>2. Cardinality(s) \in Nat
        BY <4>1, FS_Subset, FS_CardinalityType
      <4>3. s \in UpTo(S, m)
        BY <2>3, <4>1, <4>2 DEF UpTo
      <4> QED BY <3>2, <3>3, <4>3 DEF Sums
    <3>5. ASSUME NEW s \in UpTo(S, m), s # {}
          PROVE  g[s \ {Some(s)}] = f[s \ {Some(s)}]
      <4>1. s \in SUBSET S /\ Cardinality(s) <= m
        BY DEF UpTo
      <4>2. s \ {Some(s)} \in UpTo(S, m - 1)
        BY <2>3, <3>5, <4>1, OneLess, SomeIsIn DEF UpTo
      <4> QED BY <3>4, <4>2
    <3>6. Sums(g, w, UpTo(S, m))
      BY <3>3, <3>5 DEF Sums
    <3> QED BY <2>3, <3>6
  <2> QED BY <2>4, <2>5
<1>2. Cardinality(S) \in Nat /\ UpTo(S, Cardinality(S)) = SUBSET S
  BY FS_CardinalityType, FS_Subset DEF UpTo
<1>3. \E f : Sums(f, w, UpTo(S, Cardinality(S)))
  BY <1>1, <1>2
<1> QED BY <1>2, <1>3 DEF SumsOver

\* A sum does not depend on the set it was built for.
LEMMA SumsAgree ==
  ASSUME NEW S, IsFiniteSet(S), NEW T, T \subseteq S, NEW w, NEW f, NEW g,
         SumsOver(f, w, S), SumsOver(g, w, T)
  PROVE  SameOn(f, g, T)
<1> DEFINE C == {s \in SUBSET T : f[s] # g[s]}
<1>1. SUFFICES ASSUME C # {} PROVE FALSE
  BY DEF SameOn
<1>2. IsFiniteSet(T)
  <2>1. T \in SUBSET S
    OBVIOUS
  <2> QED BY <2>1, FS_Subset
<1>3. PICK s \in C : \A x \in s : s \ {x} \notin C
  <2> HIDE DEF C
  <2>1. C \in SUBSET SUBSET T
    BY DEF C
  <2> QED BY <1>1, <1>2, <2>1, SmallestSet
<1>4. s \in SUBSET T /\ s \in SUBSET S /\ f[s] # g[s]
  OBVIOUS
<1>5. CASE s = {}
  BY <1>4, <1>5 DEF Sums, SumsOver
<1>6. CASE s # {}
  <2>1. f[s \ {Some(s)}] = g[s \ {Some(s)}]
    BY <1>3, <1>6, SomeIsIn
  <2>2. f[s] = w[Some(s)] + f[s \ {Some(s)}]
    BY <1>4, <1>6 DEF Sums, SumsOver
  <2>3. g[s] = w[Some(s)] + g[s \ {Some(s)}]
    BY <1>4, <1>6 DEF Sums, SumsOver
  <2> QED BY <1>4, <2>1, <2>2, <2>3
<1> QED BY <1>5, <1>6

\* Sums of numbers are numbers.
LEMMA SumsAreNumbers ==
  ASSUME NEW S, IsFiniteSet(S), NEW w, \A x \in S : w[x] \in Int,
         NEW f, SumsOver(f, w, S)
  PROVE  \A s \in SUBSET S : f[s] \in Int
<1> DEFINE C == {s \in SUBSET S : f[s] \notin Int}
<1>1. SUFFICES ASSUME C # {} PROVE FALSE
  OBVIOUS
<1>2. PICK s \in C : \A x \in s : s \ {x} \notin C
  <2> HIDE DEF C
  <2>1. C \in SUBSET SUBSET S
    BY DEF C
  <2> QED BY <1>1, <2>1, SmallestSet
<1>3. s \in SUBSET S /\ f[s] \notin Int
  OBVIOUS
<1>4. CASE s = {}
  BY <1>3, <1>4 DEF Sums, SumsOver
<1>5. CASE s # {}
  <2>1. Some(s) \in s
    BY <1>5, SomeIsIn
  <2>2. f[s \ {Some(s)}] \in Int /\ w[Some(s)] \in Int
    BY <1>2, <1>3, <2>1
  <2>3. f[s] = w[Some(s)] + f[s \ {Some(s)}]
    BY <1>3, <1>5 DEF Sums, SumsOver
  <2> QED BY <1>3, <2>2, <2>3
<1> QED BY <1>4, <1>5

\* A sum does not depend on the order of its summands.
LEMMA AnyOrder ==
  ASSUME NEW S, IsFiniteSet(S), NEW w, \A x \in S : w[x] \in Int,
         NEW f, SumsOver(f, w, S), NEW s, s \subseteq S
  PROVE  Peels(f, w, s)
<1> DEFINE C == {t \in SUBSET S : \E y \in t : f[t] # w[y] + f[t \ {y}]}
<1>1. SUFFICES ASSUME C # {} PROVE FALSE
  BY DEF Peels
<1>2. PICK t \in C : \A y \in t : t \ {y} \notin C
  <2> HIDE DEF C
  <2>1. C \in SUBSET SUBSET S
    BY DEF C
  <2> QED BY <1>1, <2>1, SmallestSet
<1>3. PICK y \in t : f[t] # w[y] + f[t \ {y}]
  OBVIOUS
<1>4. t \in SUBSET S
  OBVIOUS
<1>5. PICK c \in t : c = Some(t)
  BY <1>3, SomeIsIn
<1>6. f[t] = w[c] + f[t \ {c}]
  BY <1>4, <1>5 DEF Sums, SumsOver
<1>7. c # y
  BY <1>3, <1>6
<1>8. y \in t \ {c} /\ c \in t \ {y} /\ (t \ {c}) \ {y} = (t \ {y}) \ {c}
  BY <1>3, <1>5, <1>7
<1>9. f[t \ {c}] = w[y] + f[(t \ {c}) \ {y}]
  BY <1>2, <1>4, <1>5, <1>8
<1>10. f[t \ {y}] = w[c] + f[(t \ {y}) \ {c}]
  BY <1>2, <1>3, <1>4, <1>8
<1>11. f[(t \ {c}) \ {y}] \in Int /\ w[c] \in Int /\ w[y] \in Int
  <2>1. (t \ {c}) \ {y} \in SUBSET S
    BY <1>4
  <2> QED BY <1>3, <1>4, <1>5, <2>1, SumsAreNumbers
<1>12. f[(t \ {c}) \ {y}] = f[(t \ {y}) \ {c}]
  BY <1>8
<1>13. PICK rest \in Int : rest = f[(t \ {c}) \ {y}]
  BY <1>11
<1>14. f[t] = w[c] + (w[y] + rest)
  BY <1>6, <1>9, <1>13
<1>15. f[t \ {y}] = w[c] + rest
  BY <1>10, <1>12, <1>13
<1>16. w[c] + (w[y] + rest) = w[y] + (w[c] + rest)
  BY <1>11
<1> QED BY <1>3, <1>14, <1>15, <1>16

\* What the events of a set fill together.
Fills(S) == MapThenSumSet(LAMBDA e : e.lastQty, S)

\* What MapThenSumSet makes of the fills is such a sum.
LEMMA FillsAreSums ==
  ASSUME NEW S, IsFiniteSet(S), NEW w, w = [e \in S |-> e.lastQty]
  PROVE  \E f : SumsOver(f, w, S) /\ Fills(S) = f[S]
<1> DEFINE f == CHOOSE f : f = [s \in SUBSET S |->
                  IF s = {} THEN 0
                  ELSE (CHOOSE x \in s : TRUE).lastQty
                         + f[s \ {CHOOSE x \in s : TRUE}]]
<1>1. Fills(S) = f[S]
  BY DEF Fills, MapThenSumSet, MapThenFoldSet
<1>2. f = [s \in SUBSET S |->
             IF s = {} THEN 0
             ELSE (CHOOSE x \in s : TRUE).lastQty + f[s \ {CHOOSE x \in s : TRUE}]]
  <2>1. PICK g : SumsOver(g, w, S)
    BY SumsExist
  <2>2. \A s \in SUBSET S : s # {} => w[Some(s)] = (CHOOSE x \in s : TRUE).lastQty
    BY SomeIsIn DEF Some
  <2>3. g = [s \in SUBSET S |->
             IF s = {} THEN 0
             ELSE (CHOOSE x \in s : TRUE).lastQty + g[s \ {CHOOSE x \in s : TRUE}]]
    BY <2>1, <2>2 DEF Sums, SumsOver, Some
  <2> QED BY <2>3
<1>3. SumsOver(f, w, S)
  <2>1. \A s \in SUBSET S : s # {} => w[Some(s)] = (CHOOSE x \in s : TRUE).lastQty
    BY SomeIsIn DEF Some
  <2> HIDE DEF f
  <2> QED BY <1>2, <2>1 DEF Sums, SumsOver, Some
<1> HIDE DEF f
<1> QED BY <1>1, <1>3

\* The first of the fills and the rest.
LEMMA OneFill ==
  ASSUME NEW S, IsFiniteSet(S), \A e \in S : e.lastQty \in Int, NEW e \in S
  PROVE  Fills(S) = e.lastQty + Fills(S \ {e})
<1>1. PICK w : w = [d \in S |-> d.lastQty]
  OBVIOUS
<1>2. PICK f : SumsOver(f, w, S) /\ Fills(S) = f[S]
  BY <1>1, FillsAreSums
<1>3. PICK v : v = [d \in S \ {e} |-> d.lastQty]
  OBVIOUS
<1>4. IsFiniteSet(S \ {e})
  BY FS_Subset
<1>5. PICK g : SumsOver(g, v, S \ {e}) /\ Fills(S \ {e}) = g[S \ {e}]
  BY <1>3, <1>4, FillsAreSums
<1>6. SumsOver(g, w, S \ {e})
  <2>1. \A s \in SUBSET (S \ {e}) : s # {} => v[Some(s)] = w[Some(s)]
    BY <1>1, <1>3, SomeIsIn
  <2> QED BY <1>5, <2>1 DEF Sums, SumsOver
<1>7. f[S \ {e}] = g[S \ {e}]
  <2>1. S \ {e} \subseteq S
    OBVIOUS
  <2>2. SameOn(f, g, S \ {e})
    BY <1>2, <1>6, <2>1, SumsAgree
  <2> QED BY <2>2 DEF SameOn
<1>8. f[S] = w[e] + f[S \ {e}]
  BY <1>1, <1>2, AnyOrder DEF Peels
<1> QED BY <1>1, <1>2, <1>5, <1>7, <1>8

\* No events fill nothing.
LEMMA NoFills == Fills({}) = 0
<1>1. IsFiniteSet({})
  BY FS_EmptySet
<1>2. PICK w : w = [e \in {} |-> e.lastQty]
  OBVIOUS
<1>3. PICK f : SumsOver(f, w, {}) /\ Fills({}) = f[{}]
  BY <1>1, <1>2, FillsAreSums
<1> QED BY <1>3 DEF Sums, SumsOver

\* Fills of at least one add up to at least one, unless there are none.
LEMMA FillsAddUp ==
  ASSUME NEW S, IsFiniteSet(S), \A e \in S : e.lastQty \in Nat \ {0}
  PROVE  Fills(S) \in Nat /\ (S # {} => Fills(S) > 0)
<1> DEFINE C == {s \in SUBSET S : ~(Fills(s) \in Nat /\ (s # {} => Fills(s) > 0))}
<1>1. SUFFICES ASSUME C # {} PROVE FALSE
  <2>1. S \in SUBSET S /\ S \notin C
    BY <1>1
  <2> QED BY <2>1
<1>2. PICK s \in C : IsFiniteSet(s) /\ \A x \in s : s \ {x} \notin C
  <2> HIDE DEF C
  <2>1. C \in SUBSET SUBSET S
    BY DEF C
  <2> QED BY <1>1, <2>1, SmallestSet
<1>3. s \in SUBSET S /\ ~(Fills(s) \in Nat /\ (s # {} => Fills(s) > 0))
  OBVIOUS
<1>4. CASE s = {}
  BY <1>3, <1>4, NoFills
<1>5. CASE s # {}
  <2>1. PICK e \in s : TRUE
    BY <1>5
  <2>2. Fills(s \ {e}) \in Nat
    BY <1>2, <1>3, <2>1
  <2>3. Fills(s) = e.lastQty + Fills(s \ {e})
    BY <1>2, <1>3, <2>1, OneFill
  <2>4. e.lastQty \in Nat \ {0}
    BY <1>3, <2>1
  <2> QED BY <1>3, <2>2, <2>3, <2>4
<1> QED BY <1>4, <1>5

PartsSum(split) == FoldFunction(+, 0, split)

\* The sum of a split.
LEMMA SplitIsSum ==
  ASSUME NEW k \in Nat, NEW split, DOMAIN split = 1..k
  PROVE  \E f : /\ SumsOver(f, split, 1..k)
               /\ PartsSum(split) = f[1..k]
<1> DEFINE f == CHOOSE f : f = [s \in SUBSET (1..k) |->
                  IF s = {} THEN 0
                  ELSE split[CHOOSE x \in s : TRUE] + f[s \ {CHOOSE x \in s : TRUE}]]
<1>1. PartsSum(split) = f[1..k]
  BY DEF PartsSum, FoldFunction, FoldFunctionOnSet, MapThenFoldSet
<1>2. SumsOver(f, split, 1..k)
  <2>1. IsFiniteSet(1..k)
    BY FS_Interval
  <2>2. PICK g : SumsOver(g, split, 1..k)
    BY <2>1, SumsExist
  <2> QED BY <2>2 DEF Sums, SumsOver, Some
<1> HIDE DEF f
<1> QED BY <1>1, <1>2

\* The k events are different and carry the parts of the split.
Carries(ev, split, k) ==
  /\ DOMAIN ev = 1..k
  /\ \A i \in 1..k : ev[i].lastQty = split[i]
  /\ \A i, j \in 1..k : ev[i] = ev[j] => i = j

Carried(ev, k) == {ev[i] : i \in 1..k}

\* Events that carry the parts of a split fill what the split adds up to.
LEMMA FillsOfSplit ==
  ASSUME NEW k \in Nat, NEW split \in [1..k -> Int],
         NEW ev, Carries(ev, split, k)
  PROVE  Fills(Carried(ev, k)) = PartsSum(split)
<1>0. /\ DOMAIN ev = 1..k
      /\ \A i \in 1..k : ev[i].lastQty = split[i]
      /\ \A i, j \in 1..k : ev[i] = ev[j] => i = j
  BY DEF Carries
<1> DEFINE Of(t) == {ev[i] : i \in t}
<1>1. IsFiniteSet(1..k)
  BY FS_Interval
<1>2. PICK f : SumsOver(f, split, 1..k) /\ PartsSum(split) = f[1..k]
  BY SplitIsSum
<1>8. ASSUME NEW t, t \subseteq 1..k
      PROVE  Peels(f, split, t)
  BY <1>1, <1>2, <1>8, AnyOrder
<1> DEFINE C == {t \in SUBSET (1..k) : ~(IsFiniteSet(Of(t)) /\ Fills(Of(t)) = f[t])}
<1>3. SUFFICES ASSUME C # {} PROVE FALSE
  <2>1. 1..k \in SUBSET (1..k) /\ 1..k \notin C
    BY <1>3
  <2> QED BY <1>2, <2>1 DEF Carried
<1>4. PICK t \in C : \A x \in t : t \ {x} \notin C
  <2> HIDE DEF C
  <2>1. C \in SUBSET SUBSET (1..k)
    BY DEF C
  <2> QED BY <1>1, <1>3, <2>1, SmallestSet
<1>5. t \in SUBSET (1..k) /\ ~(IsFiniteSet(Of(t)) /\ Fills(Of(t)) = f[t])
  OBVIOUS
<1>6. CASE t = {}
  <2>0. Of(t) = {}
    BY <1>6
  <2>1. Of(t) = {} /\ f[t] = 0
    <3> HIDE DEF Of
    <3> QED BY <1>2, <1>5, <1>6, <2>0 DEF Sums, SumsOver
  <2> QED BY <1>5, <2>1, NoFills, FS_EmptySet
<1>7. CASE t # {}
  <2>1. PICK i \in t : TRUE
    BY <1>7
  <2>2. t \ {i} \in SUBSET (1..k) /\ t \ {i} \notin C
    BY <1>4, <1>5
  <2>3. IsFiniteSet(Of(t \ {i})) /\ Fills(Of(t \ {i})) = f[t \ {i}]
    BY <2>2
  <2>4. f[t] = split[i] + f[t \ {i}]
    BY <1>8, <1>5, <2>1 DEF Peels
  <2>5. Of(t) = Of(t \ {i}) \cup {ev[i]} /\ Of(t \ {i}) = Of(t) \ {ev[i]}
    BY <1>0, <1>5, <2>1
  <2>6. IsFiniteSet(Of(t)) /\ ev[i] \in Of(t)
    <3>1. ev[i] \in Of(t)
      OBVIOUS
    <3> HIDE DEF Of
    <3>2. IsFiniteSet(Of(t \ {i}) \cup {ev[i]})
      BY <2>3, FS_AddElement
    <3> QED BY <2>5, <3>1, <3>2
  <2>7. \A e \in Of(t) : e.lastQty \in Int
    <3>1. \A j \in t : j \in 1..k /\ ev[j].lastQty = split[j] /\ split[j] \in Int
      BY <1>0, <1>5
    <3> HIDE DEF C
    <3> QED BY <3>1
  <2>8. ev[i].lastQty = split[i]
    BY <1>0, <1>5, <2>1
  <2>9. Fills(Of(t)) = ev[i].lastQty + Fills(Of(t) \ {ev[i]})
    <3> HIDE DEF Of
    <3> QED BY <2>6, <2>7, OneFill
  <2> HIDE DEF Of
  <2> QED BY <1>5, <2>3, <2>4, <2>5, <2>6, <2>8, <2>9
<1> QED BY <1>6, <1>7

-----------------------------------------------------------------------------
(* Due order *)

\* Times and submission indices are numbers, and tell the events apart.
Timed(E) ==
  /\ IsFiniteSet(E)
  /\ \A e \in E : e.dueAt \in Int /\ e.order \in Int
  /\ \A d, e \in E : d = e \/ Before(d, e) \/ Before(e, d)

Earlier(E, e) == {d \in E : Before(d, e)}

\* There are fewer events before an earlier one.
LEMMA EarlierIsLess ==
  ASSUME NEW E, Timed(E), NEW d \in E, NEW e \in E, Before(d, e)
  PROVE  /\ Cardinality(Earlier(E, d)) \in Nat
         /\ Cardinality(Earlier(E, e)) \in Nat
         /\ Cardinality(Earlier(E, d)) < Cardinality(Earlier(E, e))
<1>1. IsFiniteSet(Earlier(E, d)) /\ IsFiniteSet(Earlier(E, e))
  BY FS_Subset DEF Earlier, Timed
<1>2. d \notin Earlier(E, d)
  BY DEF Earlier, Timed, Before
<1>3. Earlier(E, d) \cup {d} \subseteq Earlier(E, e)
  <2>1. ASSUME NEW c \in Earlier(E, d) PROVE c \in Earlier(E, e)
    BY <2>1 DEF Earlier, Timed, Before
  <2>2. d \in Earlier(E, e)
    BY DEF Earlier
  <2> QED BY <2>1, <2>2
<1>4. IsFiniteSet(Earlier(E, d) \cup {d})
      /\ Cardinality(Earlier(E, d) \cup {d}) = Cardinality(Earlier(E, d)) + 1
  BY <1>1, <1>2, FS_AddElement
<1>5. Cardinality(Earlier(E, d) \cup {d}) <= Cardinality(Earlier(E, e))
  BY <1>1, <1>3, FS_Subset
<1> QED BY <1>1, <1>4, <1>5, FS_CardinalityType

\* InDueOrder has every event once, earlier ones first.
LEMMA DueOrder ==
  ASSUME NEW E, Timed(E)
  PROVE  /\ Cardinality(E) \in Nat
         /\ InDueOrder(E) \in [1..Cardinality(E) -> E]
         /\ \A e \in E : \E i \in 1..Cardinality(E) : InDueOrder(E)[i] = e
         /\ \A i, j \in 1..Cardinality(E) :
              i < j => Before(InDueOrder(E)[i], InDueOrder(E)[j])
<1>1. PICK n \in Nat : n = Cardinality(E)
  BY FS_CardinalityType DEF Timed
<1>2. IsFiniteSet(E)
  BY DEF Timed
<1> DEFINE r == [e \in E |-> Cardinality(Earlier(E, e)) + 1]
<1>3. ASSUME NEW e \in E PROVE r[e] \in 1..n
  <2>1. e \notin Earlier(E, e) /\ Earlier(E, e) \subseteq E
    BY DEF Earlier, Timed, Before
  <2>2. IsFiniteSet(Earlier(E, e))
    BY <1>2, <2>1, FS_Subset
  <2>3. Cardinality(Earlier(E, e)) \in Nat /\ Cardinality(Earlier(E, e)) <= n
    BY <1>1, <1>2, <2>1, FS_Subset, FS_CardinalityType
  <2>4. Cardinality(Earlier(E, e)) # n
    BY <1>1, <1>2, <2>1, FS_Subset
  <2> QED BY <1>1, <2>3, <2>4
<1>4. r \in Injection(E, 1..n)
  <2>1. ASSUME NEW d \in E, NEW e \in E, d # e PROVE r[d] # r[e]
    <3>1. CASE Before(d, e)
      BY <3>1, EarlierIsLess
    <3>2. CASE Before(e, d)
      BY <3>2, EarlierIsLess
    <3> QED BY <2>1, <3>1, <3>2 DEF Timed
  <2>2. r \in [E -> 1..n]
    BY <1>3
  <2> HIDE DEF r
  <2> QED BY <2>1, <2>2 DEF Injection, IsInjective
<1>5. r \in Surjection(E, 1..n)
  <2>1. IsFiniteSet(1..n) /\ Cardinality(1..n) = n
    BY <1>1, FS_Interval
  <2> HIDE DEF r
  <2> QED BY <1>1, <1>4, <2>1, FS_Injection
<1>6. ASSUME NEW i \in 1..n PROVE \E e \in E : r[e] = i
  <2> HIDE DEF r
  <2> QED BY <1>5 DEF Surjection
<1>7. ASSUME NEW i \in 1..n
      PROVE  /\ InDueOrder(E)[i] \in E
             /\ r[InDueOrder(E)[i]] = i
  <2>1. InDueOrder(E)[i] = CHOOSE e \in E : Cardinality(Earlier(E, e)) = i - 1
    BY <1>1 DEF InDueOrder, Earlier
  <2>2. PICK e \in E : r[e] = i
    BY <1>6
  <2>3. Cardinality(Earlier(E, e)) = i - 1
    <3>1. Cardinality(Earlier(E, e)) \in Nat
      BY <1>2, FS_Subset, FS_CardinalityType DEF Earlier
    <3> QED BY <2>2, <3>1
  <2> QED BY <2>1, <2>3
<1>8. InDueOrder(E) \in [1..n -> E]
  BY <1>1, <1>7 DEF InDueOrder
<1>9. ASSUME NEW e \in E PROVE \E i \in 1..n : InDueOrder(E)[i] = e
  <2>1. r[e] \in 1..n /\ r[InDueOrder(E)[r[e]]] = r[e] /\ InDueOrder(E)[r[e]] \in E
    BY <1>3, <1>7
  <2>2. InDueOrder(E)[r[e]] = e
    <3> HIDE DEF r
    <3> QED BY <1>4, <2>1 DEF Injection, IsInjective
  <2> QED BY <2>1, <2>2
<1>10. ASSUME NEW i \in 1..n, NEW j \in 1..n, i < j
       PROVE  Before(InDueOrder(E)[i], InDueOrder(E)[j])
  <2>1. PICK d \in E : d = InDueOrder(E)[i] /\ r[d] = i
    BY <1>7
  <2>2. PICK e \in E : e = InDueOrder(E)[j] /\ r[e] = j
    BY <1>7
  <2>3. ~Before(e, d)
    <3>1. SUFFICES ASSUME Before(e, d) PROVE FALSE
      OBVIOUS
    <3>2. r[e] < r[d]
      BY <3>1, EarlierIsLess
    <3> QED BY <1>10, <2>1, <2>2, <3>2
  <2>4. d # e
    BY <1>10, <2>1, <2>2
  <2> QED BY <2>1, <2>2, <2>3, <2>4 DEF Timed
<1> HIDE DEF r
<1> QED BY <1>1, <1>8, <1>9, <1>10

-----------------------------------------------------------------------------
(* One order *)

OfKind(left, k) == {e \in left : e.kind = k}

\* What an order at p still owes of what it has not: the rest of its script.
Owes(p, left, order) ==
  /\ OfKind(left, "REJECTED") = {}
  /\ Cardinality(OfKind(left, "NEW")) = IF p = NoOrder THEN 1 ELSE 0
  /\ \A e \in OfKind(left, "NEW") : \A d \in left \ {e} : e.dueAt < d.dueAt
  /\ \A e \in OfKind(left, "TRADE") : \A d \in OfKind(left, "TRADE") \ {e} : e.dueAt # d.dueAt
  /\ \/ /\ OfKind(left, "CANCELED") = {}
        /\ p.cumQty + Fills(OfKind(left, "TRADE")) = order.qty
     \/ /\ Cardinality(OfKind(left, "CANCELED")) = 1
        /\ order.tif = "IOC"
        /\ p.cumQty + Fills(OfKind(left, "TRADE")) < order.qty
        /\ \A e \in OfKind(left, "CANCELED") : \A d \in left \ {e} : d.dueAt < e.dueAt

\* It will be bounced.
Bounces(p, left) == p = NoOrder /\ \E e \in left : left = {e} /\ e.kind = "REJECTED"

Alive(order, p) == order # Unknown /\ p.status \notin Terminal

\* What is left of an order is what its life needs.
Finishes(p, left, order) ==
  IF Alive(order, p)
  THEN Bounces(p, left) \/ (order.qty > 0 /\ Owes(p, left, order))
  ELSE left = {}

\* The events of an order are well formed.
Sane(left) ==
  /\ IsFiniteSet(left)
  /\ left \subseteq Events
  /\ \A e \in left : /\ e.kind = "TRADE" => e.lastQty > 0
                     /\ e.kind = "REJECTED" => e.rejectReason # NoReason

OrderOK(p, order) ==
  /\ p \in Progress \cup {NoOrder}
  /\ order \in [qty : Int, tif : TimeInForce]
  /\ Life!Sound(p, order.qty)
  /\ order = Unknown => p = NoOrder

USE DEF Terminal, Live, OrdStatus, NoOrder, Refused, Progress,
        Life!Terminal, Life!Live, Life!OrdStatus, Life!NoOrder, Life!Progress

\* Nothing an order owes is due at the same time.
LEMMA TimesDiffer ==
  ASSUME NEW p, NEW left, NEW order, Sane(left), Finishes(p, left, order),
         NEW d \in left, NEW e \in left, d # e
  PROVE  d.dueAt # e.dueAt
<1>1. /\ d.kind \in {"NEW", "TRADE", "CANCELED", "REJECTED"} /\ d.dueAt \in Nat
      /\ e.kind \in {"NEW", "TRADE", "CANCELED", "REJECTED"} /\ e.dueAt \in Nat
  BY DEF Sane, Events
<1>2. Owes(p, left, order)
  BY DEF Finishes, Bounces
<1>3. d.kind # "REJECTED" /\ e.kind # "REJECTED"
  BY <1>2 DEF Owes, OfKind
<1>4. CASE d.kind = "NEW"
  BY <1>1, <1>2, <1>4 DEF Owes, OfKind
<1>5. CASE e.kind = "NEW"
  BY <1>1, <1>2, <1>5 DEF Owes, OfKind
<1>6. CASE d.kind = "CANCELED"
  BY <1>1, <1>2, <1>6 DEF Owes, OfKind
<1>7. CASE e.kind = "CANCELED"
  BY <1>1, <1>2, <1>7 DEF Owes, OfKind
<1>8. CASE d.kind = "TRADE" /\ e.kind = "TRADE"
  BY <1>1, <1>2, <1>8 DEF Owes, OfKind
<1> QED BY <1>1, <1>3, <1>4, <1>5, <1>6, <1>7, <1>8

\* A set of exactly one is empty without it.
LEMMA OnlyOne ==
  ASSUME NEW S, IsFiniteSet(S), Cardinality(S) = 1, NEW x \in S
  PROVE  S \ {x} = {}
<1>1. PICK y : S = {y}
  BY FS_Singleton
<1> QED BY <1>1

\* The rest of a set of events.
LEMMA KindLess ==
  ASSUME NEW left, NEW e \in left, NEW k
  PROVE  OfKind(left \ {e}, k) = IF e.kind = k THEN OfKind(left, k) \ {e}
                                 ELSE OfKind(left, k)
BY DEF OfKind

\* The events of one kind are finitely many.
LEMMA KindsAreFinite ==
  ASSUME NEW left, Sane(left), NEW k
  PROVE  /\ IsFiniteSet(OfKind(left, k))
         /\ Cardinality(OfKind(left, k)) \in Nat
         /\ Cardinality(OfKind(left, k)) = 0 => OfKind(left, k) = {}
         /\ OfKind(left, k) = {} => Cardinality(OfKind(left, k)) = 0
<1>1. OfKind(left, k) \in SUBSET left /\ IsFiniteSet(left)
  BY DEF OfKind, Sane
<1>2. IsFiniteSet(OfKind(left, k))
  BY <1>1, FS_Subset
<1> QED BY <1>2, FS_CardinalityType, FS_EmptySet

\* What an event says of the order it moves.
Moves(p, q, order) ==
  /\ q \in Progress
  /\ q # NoOrder
  /\ Life!Sound(q, order.qty)
  /\ Life!Later(p, q, order.qty)

\* The event is accepted and leaves the order with the rest.
Emits(e, p, left, order) ==
  LET r == Materialise(e, p, order.qty)
      q == ApplyReport(p, r, order.qty)
  IN /\ Accepts(p, r, order.qty)
     /\ q = [status |-> r.ordStatus, cumQty |-> r.cumQty, leavesQty |-> r.leavesQty]
     /\ Moves(p, q, order)
     /\ Finishes(q, left \ {e}, order)
     /\ (q.status = "FILLED") = (r.execType = "TRADE" /\ r.leavesQty <= 0)
     /\ (q.status = "CANCELED") = (r.execType = "CANCELED")
     /\ (q.status = "REJECTED") = (r.execType = "REJECTED")
     /\ q.status # "EXPIRED"

\* The first event of a life: NEW.
LEMMA EmitsNew ==
  ASSUME NEW p, NEW left, NEW order, OrderOK(p, order), Sane(left),
         Alive(order, p), Finishes(p, left, order),
         NEW e \in left, e.kind = "NEW"
  PROVE  Emits(e, p, left, order)
<1> DEFINE r == [id |-> e.id, execType |-> e.kind, ordStatus |-> "NEW",
                 priced |-> FALSE, lastQty |-> NoQty, cumQty |-> 0,
                 leavesQty |-> order.qty, rejectReason |-> NoReason,
                 transactTime |-> e.dueAt]
           q == [status |-> "NEW", cumQty |-> 0, leavesQty |-> order.qty]
<1>1. Materialise(e, p, order.qty) = r
  BY DEF Materialise
<1>2. Owes(p, left, order) /\ order.qty > 0
  BY DEF Finishes, Bounces
<1>3. order.qty \in Int
  BY DEF OrderOK
<1>4. p = NoOrder /\ Cardinality(OfKind(left, "NEW")) = 1
  <2>1. e \in OfKind(left, "NEW")
    BY DEF OfKind
  <2> QED BY <1>2, <2>1, KindsAreFinite DEF Owes
<1>5. Accepts(p, r, order.qty)
  BY <1>4 DEF Accepts, NextOrdStatus, NewAdds
<1>6. ApplyReport(p, r, order.qty) = q
  BY <1>5 DEF ApplyReport
<1>7. Moves(p, q, order)
  BY <1>2, <1>3, <1>4 DEF Moves, Life!Sound, Life!Later
<1>8. Owes(q, left \ {e}, order)
  <2>1. OfKind(left \ {e}, "NEW") = {}
    <3>1. e \in OfKind(left, "NEW")
      BY DEF OfKind
    <3>2. OfKind(left, "NEW") \ {e} = {}
      BY <1>4, <3>1, KindsAreFinite, OnlyOne
    <3> QED BY <3>2 DEF OfKind
  <2>2. /\ OfKind(left \ {e}, "TRADE") = OfKind(left, "TRADE")
        /\ OfKind(left \ {e}, "CANCELED") = OfKind(left, "CANCELED")
        /\ OfKind(left \ {e}, "REJECTED") = OfKind(left, "REJECTED")
    BY KindLess
  <2>3. Cardinality(OfKind(left \ {e}, "NEW")) = 0
    BY <2>1, FS_EmptySet
  <2>4. q # NoOrder /\ q.cumQty = p.cumQty
    BY <1>4
  <2> HIDE DEF q
  <2> QED BY <1>2, <2>1, <2>2, <2>3, <2>4 DEF Owes
<1>9. Finishes(q, left \ {e}, order)
  BY <1>2, <1>8 DEF Finishes, Alive
<1> QED BY <1>1, <1>5, <1>6, <1>7, <1>9 DEF Emits

\* The one event of an order that is bounced.
LEMMA EmitsRejected ==
  ASSUME NEW p, NEW left, NEW order, OrderOK(p, order), Sane(left),
         Alive(order, p), Finishes(p, left, order),
         NEW e \in left, e.kind = "REJECTED"
  PROVE  Emits(e, p, left, order)
<1> DEFINE r == [id |-> e.id, execType |-> e.kind, ordStatus |-> "REJECTED",
                 priced |-> FALSE, lastQty |-> NoQty, cumQty |-> 0,
                 leavesQty |-> 0, rejectReason |-> e.rejectReason,
                 transactTime |-> e.dueAt]
           q == [status |-> "REJECTED", cumQty |-> 0, leavesQty |-> 0]
<1>1. Materialise(e, p, order.qty) = r
  BY DEF Materialise
<1>2. Bounces(p, left)
  BY DEF Finishes, Owes, OfKind
<1>3. e.rejectReason # NoReason
  BY DEF Sane
<1>4. Accepts(p, r, order.qty)
  BY <1>2, <1>3 DEF Bounces, Accepts, NextOrdStatus, RejectAdds
<1>5. ApplyReport(p, r, order.qty) = q
  BY <1>4 DEF ApplyReport
<1>6. Moves(p, q, order)
  BY <1>2 DEF Moves, Bounces, Life!Sound, Life!Later
<1>7. Finishes(q, left \ {e}, order)
  BY <1>2 DEF Finishes, Bounces, Alive
<1> QED BY <1>1, <1>4, <1>5, <1>6, <1>7 DEF Emits

\* A part of the order is filled.
LEMMA EmitsTrade ==
  ASSUME NEW p, NEW left, NEW order, OrderOK(p, order), Sane(left),
         Alive(order, p), Finishes(p, left, order),
         NEW e \in left, e.kind = "TRADE", \A d \in left : e.dueAt <= d.dueAt
  PROVE  Emits(e, p, left, order)
<1> DEFINE cum == p.cumQty + e.lastQty
           status == IF cum = order.qty THEN "FILLED" ELSE "PARTIALLY_FILLED"
           trades == OfKind(left, "TRADE")
           r == [id |-> e.id, execType |-> e.kind, ordStatus |-> status,
                 priced |-> TRUE, lastQty |-> e.lastQty, cumQty |-> cum,
                 leavesQty |-> order.qty - cum, rejectReason |-> NoReason,
                 transactTime |-> e.dueAt]
           q == [status |-> status, cumQty |-> cum, leavesQty |-> order.qty - cum]
<1>1. Materialise(e, p, order.qty) = r
  BY DEF Materialise
<1>2. Owes(p, left, order) /\ order.qty > 0
  BY DEF Finishes, Bounces
<1>3. /\ order.qty \in Int /\ p.cumQty \in Int
      /\ e.lastQty \in Int /\ e.lastQty > 0 /\ e.dueAt \in Nat
  BY DEF OrderOK, Sane, Events
<1>4. OfKind(left, "NEW") = {}
  <2>1. \A d \in OfKind(left, "NEW") : d.dueAt < e.dueAt /\ d \in left
    BY <1>2 DEF Owes, OfKind
  <2>2. \A d \in left : d.dueAt \in Nat
    BY DEF Sane, Events
  <2> QED BY <1>3, <2>1, <2>2
<1>5. p # NoOrder
  BY <1>2, <1>4, FS_EmptySet DEF Owes
<1>6. p \in Progress /\ p.status \in Live /\ p.cumQty + p.leavesQty = order.qty
      /\ p.leavesQty > 0 /\ p.leavesQty \in Int
  BY <1>5 DEF OrderOK, Alive, Life!Sound
<1>7. /\ e \in trades /\ IsFiniteSet(trades)
      /\ \A d \in trades : d.lastQty \in Nat \ {0}
  <2>1. \A d \in left : d.kind = "TRADE" => d.lastQty \in Nat \ {0}
    BY DEF Sane, Events
  <2> QED BY <2>1, KindsAreFinite DEF OfKind
<1>8. Fills(trades) = e.lastQty + Fills(trades \ {e})
  <2> HIDE DEF trades
  <2> QED BY <1>7, OneFill
<1>9. /\ Fills(trades \ {e}) \in Nat
      /\ trades \ {e} # {} => Fills(trades \ {e}) > 0
  <2>1. IsFiniteSet(trades \ {e})
    BY <1>7, FS_Subset
  <2> HIDE DEF trades
  <2> QED BY <1>7, <2>1, FillsAddUp
<1>10. cum + Fills(trades \ {e}) = p.cumQty + Fills(trades)
  BY <1>3, <1>8, <1>9
<1>11. cum <= order.qty
  <2>1. p.cumQty + Fills(trades) <= order.qty
    <3>1. p.cumQty + Fills(trades) \in Int
      BY <1>3, <1>8, <1>9
    <3> QED BY <1>2, <1>3, <3>1 DEF Owes
  <2> HIDE DEF trades
  <2> QED BY <1>3, <1>9, <1>10, <2>1
<1>12. p.cumQty >= 0
  BY <1>6 DEF OrderOK, Life!Sound
<1>13. Accepts(p, r, order.qty)
  <2>1. order.qty - cum = 0 <=> cum = order.qty
    BY <1>3
  <2> QED BY <1>3, <1>6, <2>1 DEF Accepts, NextOrdStatus, TradeAdds
<1>14. ApplyReport(p, r, order.qty) = q
  BY <1>13 DEF ApplyReport
<1>15. Moves(p, q, order)
  BY <1>2, <1>3, <1>5, <1>6, <1>11, <1>12 DEF Moves, Life!Sound, Life!Later
<1>16. /\ OfKind(left \ {e}, "TRADE") = trades \ {e}
       /\ OfKind(left \ {e}, "NEW") = {}
       /\ OfKind(left \ {e}, "CANCELED") = OfKind(left, "CANCELED")
       /\ OfKind(left \ {e}, "REJECTED") = {}
  <2>1. OfKind(left, "REJECTED") = {}
    BY <1>2 DEF Owes
  <2> QED BY <1>4, <2>1 DEF OfKind
<1>17. CASE cum = order.qty
  <2>1. trades \ {e} = {}
    <3> HIDE DEF trades
    <3>1. p.cumQty + Fills(trades) = order.qty
      BY <1>2, <1>3, <1>9, <1>10, <1>11, <1>17 DEF Owes, trades
    <3>2. Fills(trades \ {e}) = 0
      BY <1>3, <1>9, <1>10, <1>17, <3>1
    <3> QED BY <1>9, <3>2
  <2>2. OfKind(left, "CANCELED") = {}
    <3>1. p.cumQty + Fills(trades) >= order.qty
      BY <1>3, <1>9, <1>10, <1>17
    <3>2. p.cumQty + Fills(trades) \in Int
      BY <1>3, <1>8, <1>9
    <3> QED BY <1>2, <1>3, <3>1, <3>2 DEF Owes
  <2>3. left \ {e} = {}
    <3>1. \A d \in left \ {e} : d.kind \in {"NEW", "TRADE", "CANCELED", "REJECTED"}
      BY DEF Sane, Events
    <3> QED BY <1>16, <2>1, <2>2, <3>1 DEF OfKind
  <2>4. Finishes(q, left \ {e}, order)
    BY <1>17, <2>3 DEF Finishes, Alive
  <2>5. r.leavesQty <= 0
    BY <1>3, <1>17
  <2> QED BY <1>1, <1>13, <1>14, <1>15, <1>17, <2>4, <2>5 DEF Emits
<1>18. CASE cum # order.qty
  <2>1. Owes(q, left \ {e}, order)
    <3>1. Cardinality(OfKind(left \ {e}, "NEW")) = 0
      BY <1>16, FS_EmptySet
    <3>2. q # NoOrder /\ q.cumQty = cum
      BY <1>18
    <3> HIDE DEF q, cum
    <3> QED BY <1>2, <1>10, <1>16, <3>1, <3>2 DEF Owes
  <2>2. Finishes(q, left \ {e}, order)
    BY <1>2, <1>18, <2>1 DEF Finishes, Alive
  <2>3. ~(r.leavesQty <= 0)
    BY <1>3, <1>11, <1>18
  <2> QED BY <1>1, <1>13, <1>14, <1>15, <1>18, <2>2, <2>3 DEF Emits
<1> QED BY <1>17, <1>18

\* The rest of an IOC order is closed.
LEMMA EmitsCanceled ==
  ASSUME NEW p, NEW left, NEW order, OrderOK(p, order), Sane(left),
         Alive(order, p), Finishes(p, left, order),
         NEW e \in left, e.kind = "CANCELED", \A d \in left : e.dueAt <= d.dueAt
  PROVE  Emits(e, p, left, order)
<1> DEFINE r == [id |-> e.id, execType |-> e.kind, ordStatus |-> "CANCELED",
                 priced |-> FALSE, lastQty |-> NoQty, cumQty |-> p.cumQty,
                 leavesQty |-> 0, rejectReason |-> NoReason,
                 transactTime |-> e.dueAt]
           q == [status |-> "CANCELED", cumQty |-> p.cumQty, leavesQty |-> 0]
<1>1. Materialise(e, p, order.qty) = r
  BY DEF Materialise
<1>2. Owes(p, left, order) /\ order.qty > 0
  BY DEF Finishes, Bounces
<1>3. order.qty \in Int /\ p.cumQty \in Int /\ e.dueAt \in Nat
  BY DEF OrderOK, Sane, Events
<1>4. left \ {e} = {}
  <2>1. e \in OfKind(left, "CANCELED")
    BY DEF OfKind
  <2>2. \A d \in left \ {e} : d.dueAt < e.dueAt
    BY <1>2, <2>1 DEF Owes
  <2>3. \A d \in left : d.dueAt \in Nat
    BY DEF Sane, Events
  <2> QED BY <1>3, <2>2, <2>3
<1>5. OfKind(left, "NEW") = {}
  BY <1>4 DEF OfKind
<1>6. p # NoOrder
  <2>1. Cardinality(OfKind(left, "NEW")) = 0
    BY <1>5, KindsAreFinite
  <2> QED BY <1>2, <2>1 DEF Owes
<1>7. p \in Progress /\ p.status \in Live /\ p.cumQty + p.leavesQty = order.qty
      /\ p.leavesQty > 0 /\ p.leavesQty \in Int /\ p.cumQty >= 0
  BY <1>6 DEF OrderOK, Alive, Life!Sound
<1>8. Accepts(p, r, order.qty)
  BY <1>3, <1>7 DEF Accepts, NextOrdStatus, CloseAdds
<1>9. ApplyReport(p, r, order.qty) = q
  BY <1>8 DEF ApplyReport
<1>10. Moves(p, q, order)
  BY <1>3, <1>7 DEF Moves, Life!Sound, Life!Later
<1>11. Finishes(q, left \ {e}, order)
  BY <1>4 DEF Finishes, Alive
<1> QED BY <1>1, <1>8, <1>9, <1>10, <1>11 DEF Emits

\* The first of what is left of an order is accepted, and the rest still ends it.
LEMMA EmitsFirst ==
  ASSUME NEW p, NEW left, NEW order, OrderOK(p, order), Sane(left),
         Alive(order, p), Finishes(p, left, order),
         NEW e \in left, \A d \in left : e.dueAt <= d.dueAt
  PROVE  Emits(e, p, left, order)
<1>1. e.kind \in {"NEW", "TRADE", "CANCELED", "REJECTED"}
  BY DEF Sane, Events
<1> QED BY <1>1, EmitsNew, EmitsRejected, EmitsTrade, EmitsCanceled

-----------------------------------------------------------------------------
(* The whole engine *)

OfId(P, id) == {e \in P : e.id = id}
KnownIn(o) == {id \in Ids : o[id] # Unknown}
LiveIn(g, o) == {id \in Ids : Alive(o[id], g[id])}

\* The scheduled events are well formed, and an order has its own index.
EventsFit(P, n) ==
  /\ IsFiniteSet(P)
  /\ P \subseteq Events
  /\ \A e \in P : /\ e.order \in 1..n
                  /\ e.kind = "TRADE" => e.lastQty > 0
                  /\ e.kind = "REJECTED" => e.rejectReason # NoReason
  /\ \A d, e \in P : (d.order = e.order) <=> (d.id = e.id)

\* Every order is sound and owes what its life needs.
LivesFit(g, P, o) ==
  /\ g \in [Ids -> Progress \cup {NoOrder}]
  /\ o \in [Ids -> [qty : Int, tif : TimeInForce]]
  /\ \A id \in Ids : OrderOK(g[id], o[id]) /\ Finishes(g[id], OfId(P, id), o[id])

\* The counters agree with the orders.
CountsFit(s, g, o) ==
  /\ s \in [DOMAIN NoStats -> Nat]
  /\ IsFiniteSet(LiveIn(g, o))
  /\ s.submitted - s.filled - s.canceled - s.rejected = Cardinality(LiveIn(g, o))

Fits(g, s, P, o, n) == EventsFit(P, n) /\ LivesFit(g, P, o) /\ CountsFit(s, g, o)

AllLater(g, h, o) == \A id \in Ids : Life!Later(g[id], h[id], o[id].qty)

Reports(K) ==
  [id : K, execType : ExecType, ordStatus : OrdStatus, priced : BOOLEAN,
   lastQty : Int, cumQty : Int, leavesQty : Int,
   rejectReason : RejectReason \cup {NoReason}, transactTime : Nat]

\* What emitting works on, as long as nothing throws.
Accs(K) ==
  [progress : [Ids -> Progress \cup {NoOrder}], stats : [DOMAIN NoStats -> Nat],
   out : Seq(Reports(K)), threw : {FALSE}]

\* What emit() makes of an event is a report.
LEMMA ReportsAreReports ==
  ASSUME NEW e \in Events, NEW p \in Progress \cup {NoOrder}, NEW qty \in Int,
         NEW K, e.id \in K
  PROVE  Materialise(e, p, qty) \in Reports(K)
<1>1. /\ e.kind \in {"NEW", "TRADE", "CANCELED", "REJECTED"} /\ e.dueAt \in Nat
      /\ e.lastQty \in Int /\ e.rejectReason \in RejectReason \cup {NoReason}
      /\ p.cumQty \in Int
  BY DEF Events
<1>2. CASE e.kind = "NEW"
  BY <1>1, <1>2 DEF Materialise, Reports, ExecType, NoQty
<1>3. CASE e.kind = "TRADE"
  BY <1>1, <1>3 DEF Materialise, Reports, ExecType, NoQty
<1>4. CASE e.kind = "CANCELED"
  BY <1>1, <1>4 DEF Materialise, Reports, ExecType, NoQty
<1>5. CASE e.kind = "REJECTED"
  BY <1>1, <1>5 DEF Materialise, Reports, ExecType, NoQty
<1> QED BY <1>1, <1>2, <1>3, <1>4, <1>5

\* Which counters a report moves.
LEMMA Counted ==
  ASSUME NEW s \in [DOMAIN NoStats -> Nat], NEW r
  PROVE  /\ Count(s, r) \in [DOMAIN NoStats -> Nat]
         /\ Count(s, r).submitted = s.submitted
         /\ Count(s, r).filled =
              s.filled + IF r.execType = "TRADE" /\ r.leavesQty <= 0 THEN 1 ELSE 0
         /\ Count(s, r).canceled = s.canceled + IF r.execType = "CANCELED" THEN 1 ELSE 0
         /\ Count(s, r).rejected = s.rejected + IF r.execType = "REJECTED" THEN 1 ELSE 0
<1> DEFINE one(cond) == IF cond THEN 1 ELSE 0
<1>1. PICK t \in Nat : t = s.trades + one(r.execType = "TRADE")
  BY DEF NoStats
<1>2. PICK p \in Nat : p = s.partials + one(r.execType = "TRADE" /\ r.leavesQty > 0)
  BY DEF NoStats
<1>3. PICK f \in Nat : f = s.filled + one(r.execType = "TRADE" /\ r.leavesQty <= 0)
  BY DEF NoStats
<1>4. PICK c \in Nat : c = s.canceled + one(r.execType = "CANCELED")
  BY DEF NoStats
<1>5. PICK x \in Nat : x = s.rejected + one(r.execType = "REJECTED")
  BY DEF NoStats
<1>6. Count(s, r) = [s EXCEPT !.trades = t, !.partials = p, !.filled = f,
                              !.canceled = c, !.rejected = x]
  <2> HIDE DEF one
  <2>1. PICK u : u = [s EXCEPT !.trades = t, !.partials = p, !.filled = f,
                              !.canceled = c, !.rejected = x]
    OBVIOUS
  <2> QED BY <1>1, <1>2, <1>3, <1>4, <1>5 DEF Count, one
<1>7. PICK z : z = [s EXCEPT !.trades = t, !.partials = p, !.filled = f,
                              !.canceled = c, !.rejected = x]
  OBVIOUS
<1>8. DOMAIN NoStats = {"submitted", "trades", "partials", "filled", "canceled", "rejected"}
  BY DEF NoStats
<1>9. z \in [DOMAIN NoStats -> Nat]
  BY <1>7, <1>8
<1>10. z.submitted = s.submitted /\ z.filled = f /\ z.canceled = c /\ z.rejected = x
  BY <1>7, <1>8
<1> QED BY <1>3, <1>4, <1>5, <1>6, <1>7, <1>9, <1>10

\* An accepted event moves its order, is counted and sent.
LEMMA OneEmit ==
  ASSUME NEW K, NEW a \in Accs(K), NEW e, NEW qtys, NEW r \in Reports(K), NEW q \in Progress,
         e.id \in Ids,
         r = Materialise(e, a.progress[e.id], qtys[e.id]),
         q = ApplyReport(a.progress[e.id], r, qtys[e.id])
  PROVE  /\ Emit(a, e, qtys) \in Accs(K)
         /\ Emit(a, e, qtys).progress = [a.progress EXCEPT ![e.id] = q]
         /\ Emit(a, e, qtys).stats = Count(a.stats, r)
<1> DEFINE G == [Ids -> Progress \cup {NoOrder}]
           S == [DOMAIN NoStats -> Nat]
           Q == Seq(Reports(K))
<1>1. q # Refused
  BY DEF Refused, Progress
<1>2. a \in [progress : G, stats : S, out : Q, threw : {FALSE}]
  BY DEF Accs
<1>3. PICK h : h = [a.progress EXCEPT ![e.id] = q]
  OBVIOUS
<1>4. PICK c : c = Count(a.stats, r)
  OBVIOUS
<1>5. PICK u : u = Append(a.out, r)
  OBVIOUS
<1>6. h \in G
  BY <1>2, <1>3
<1>7. c \in S
  BY <1>2, <1>4, Counted
<1>8. u \in Q
  <2>1. a.out \in Seq(Reports(K))
    BY <1>2
  <2> QED BY <1>5, <2>1
<1>9. Emit(a, e, qtys) = [a EXCEPT !.progress = h, !.out = u, !.stats = c]
  <2>1. Emit(a, e, qtys) = [a EXCEPT !.progress[e.id] = q, !.out = Append(@, r),
                                     !.stats = Count(@, r)]
    <3>1. a.threw = FALSE
      BY <1>2
    <3> HIDE DEF G, S, Q
    <3> QED BY <1>1, <3>1 DEF Emit
  <2> HIDE DEF G, S, Q
  <2> QED BY <1>3, <1>4, <1>5, <2>1
<1>10. PICK z : z = [a EXCEPT !.progress = h, !.out = u, !.stats = c]
  OBVIOUS
<1>11. z \in [progress : G, stats : S, out : Q, threw : {FALSE}]
       /\ z.progress = h /\ z.stats = c
  <2> HIDE DEF G, S, Q
  <2> QED BY <1>2, <1>6, <1>7, <1>8, <1>10
<1> QED BY <1>3, <1>4, <1>9, <1>10, <1>11 DEF Accs

\* Part of what fits fits.
LEMMA LessFits ==
  ASSUME NEW P, NEW n, EventsFit(P, n), NEW T, T \subseteq P
  PROVE  EventsFit(T, n)
<1>1. IsFiniteSet(T)
  BY FS_Subset DEF EventsFit
<1> QED BY <1>1 DEF EventsFit

\* What fits is well formed order by order.
LEMMA OrdersAreSane ==
  ASSUME NEW P, NEW n, EventsFit(P, n), NEW id
  PROVE  Sane(OfId(P, id))
<1>1. IsFiniteSet(OfId(P, id))
  BY FS_Subset DEF EventsFit, OfId
<1> QED BY <1>1 DEF EventsFit, OfId, Sane

\* The first event left is emitted, and what is left still fits.
LEMMA EmitKeeps ==
  ASSUME NEW o, NEW n, NEW P, NEW a \in Accs(KnownIn(o)),
         Fits(a.progress, a.stats, P, o, n),
         NEW e \in P, \A d \in P : d.id = e.id => e.dueAt <= d.dueAt,
         NEW qtys, \A id \in Ids : qtys[id] = o[id].qty
  PROVE  /\ Emit(a, e, qtys) \in Accs(KnownIn(o))
         /\ Fits(Emit(a, e, qtys).progress, Emit(a, e, qtys).stats, P \ {e}, o, n)
         /\ AllLater(a.progress, Emit(a, e, qtys).progress, o)
<1> DEFINE g == a.progress
           id == e.id
           r == Materialise(e, g[id], qtys[id])
           q == ApplyReport(g[id], r, qtys[id])
           h == [g EXCEPT ![id] = q]
<1>1. /\ EventsFit(P, n) /\ LivesFit(g, P, o) /\ CountsFit(a.stats, g, o)
      /\ e \in Events /\ id \in Ids
  BY DEF Fits, EventsFit, Events
<1>2. /\ g \in [Ids -> Progress \cup {NoOrder}]
      /\ o \in [Ids -> [qty : Int, tif : TimeInForce]]
      /\ OrderOK(g[id], o[id]) /\ Finishes(g[id], OfId(P, id), o[id])
      /\ qtys[id] = o[id].qty
  BY <1>1 DEF LivesFit
<1>3. e \in OfId(P, id) /\ \A d \in OfId(P, id) : e.dueAt <= d.dueAt
  BY DEF OfId
<1>4. Alive(o[id], g[id])
  BY <1>2, <1>3 DEF Finishes
<1>5. Emits(e, g[id], OfId(P, id), o[id])
  BY <1>1, <1>2, <1>3, <1>4, OrdersAreSane, EmitsFirst
<1>6. /\ q = [status |-> r.ordStatus, cumQty |-> r.cumQty, leavesQty |-> r.leavesQty]
      /\ Moves(g[id], q, o[id])
      /\ Finishes(q, OfId(P, id) \ {e}, o[id])
      /\ (q.status = "FILLED") = (r.execType = "TRADE" /\ r.leavesQty <= 0)
      /\ (q.status = "CANCELED") = (r.execType = "CANCELED")
      /\ (q.status = "REJECTED") = (r.execType = "REJECTED")
      /\ q.status # "EXPIRED"
  BY <1>2, <1>5 DEF Emits
<1>7. /\ q \in Progress /\ q # NoOrder
      /\ Life!Sound(q, o[id].qty) /\ Life!Later(g[id], q, o[id].qty)
  BY <1>6 DEF Moves
<1>8. id \in KnownIn(o)
  BY <1>1, <1>4 DEF Alive, KnownIn
<1>9. r \in Reports(KnownIn(o))
  BY <1>1, <1>2, <1>8, ReportsAreReports
<1>10. /\ Emit(a, e, qtys) \in Accs(KnownIn(o))
       /\ Emit(a, e, qtys).progress = h
       /\ Emit(a, e, qtys).stats = Count(a.stats, r)
  <2> HIDE DEF r, q
  <2> QED BY <1>1, <1>7, <1>9, OneEmit DEF r, q
<1>11. h[id] = q /\ h \in [Ids -> Progress \cup {NoOrder}]
       /\ \A x \in Ids : x # id => h[x] = g[x]
  <2> HIDE DEF q, g, id
  <2> QED BY <1>1, <1>2, <1>7
<1>12. AllLater(g, h, o)
  <2> HIDE DEF h, q, r
  <2> QED BY <1>7, <1>11 DEF AllLater, Life!Later
<1>13. EventsFit(P \ {e}, n)
  BY <1>1, LessFits
<1>14. LivesFit(h, P \ {e}, o)
  <2>1. ASSUME NEW x \in Ids
        PROVE  OrderOK(h[x], o[x]) /\ Finishes(h[x], OfId(P \ {e}, x), o[x])
    <3>1. CASE x = id
      <4>1. OfId(P \ {e}, x) = OfId(P, id) \ {e}
        BY <3>1 DEF OfId
      <4>2. OrderOK(q, o[id])
        <5> HIDE DEF q, r, g, id
        <5> QED BY <1>1, <1>2, <1>4, <1>7 DEF OrderOK, Alive
      <4> HIDE DEF h, q, r
      <4> QED BY <1>6, <1>11, <3>1, <4>1, <4>2
    <3>2. CASE x # id
      <4>1. OfId(P \ {e}, x) = OfId(P, x)
        BY <3>2 DEF OfId
      <4> HIDE DEF h, q, r
      <4> QED BY <1>1, <1>11, <3>2, <4>1 DEF LivesFit
    <3> QED BY <3>1, <3>2
  <2> HIDE DEF h
  <2> QED BY <1>2, <1>11, <2>1 DEF LivesFit
<1>15. CountsFit(Count(a.stats, r), h, o)
  <2> HIDE DEF r, q, h, g, id
  <2>1. a.stats \in [DOMAIN NoStats -> Nat] /\ IsFiniteSet(LiveIn(g, o))
    BY <1>1 DEF CountsFit, g
  <2>2. id \in LiveIn(g, o)
    BY <1>1, <1>4 DEF LiveIn
  <2>3. /\ a.stats.submitted \in Nat /\ a.stats.filled \in Nat
        /\ a.stats.canceled \in Nat /\ a.stats.rejected \in Nat
    BY <2>1 DEF NoStats
  <2>4. a.stats.submitted - a.stats.filled - a.stats.canceled - a.stats.rejected
          = Cardinality(LiveIn(g, o))
    BY <1>1 DEF CountsFit, g
  <2>5. /\ Count(a.stats, r) \in [DOMAIN NoStats -> Nat]
        /\ Count(a.stats, r).submitted = a.stats.submitted
        /\ Count(a.stats, r).filled =
             a.stats.filled + IF q.status = "FILLED" THEN 1 ELSE 0
        /\ Count(a.stats, r).canceled =
             a.stats.canceled + IF q.status = "CANCELED" THEN 1 ELSE 0
        /\ Count(a.stats, r).rejected =
             a.stats.rejected + IF q.status = "REJECTED" THEN 1 ELSE 0
    BY <1>6, <2>1, Counted
  <2>6. CASE q.status \in Terminal
    <3>1. LiveIn(h, o) = LiveIn(g, o) \ {id}
      BY <1>11, <2>2, <2>6 DEF LiveIn, Alive
    <3>2. IsFiniteSet(LiveIn(h, o)) /\ Cardinality(LiveIn(h, o)) = Cardinality(LiveIn(g, o)) - 1
      BY <2>1, <2>2, <3>1, FS_RemoveElement
    <3>3. \/ q.status = "FILLED" \/ q.status = "CANCELED" \/ q.status = "REJECTED"
      BY <1>6, <2>6
    <3>4. Count(a.stats, r).submitted - Count(a.stats, r).filled
            - Count(a.stats, r).canceled - Count(a.stats, r).rejected
            = a.stats.submitted - a.stats.filled - a.stats.canceled
                - a.stats.rejected - 1
      <4>1. CASE q.status = "FILLED"
        BY <2>3, <2>5, <4>1
      <4>2. CASE q.status = "CANCELED"
        BY <2>3, <2>5, <4>2
      <4>3. CASE q.status = "REJECTED"
        BY <2>3, <2>5, <4>3
      <4> QED BY <3>3, <4>1, <4>2, <4>3
    <3> QED BY <2>4, <2>5, <3>2, <3>4 DEF CountsFit
  <2>7. CASE q.status \notin Terminal
    <3>1. LiveIn(h, o) = LiveIn(g, o)
      BY <1>4, <1>11, <2>2, <2>7 DEF LiveIn, Alive
    <3>2. q.status # "FILLED" /\ q.status # "CANCELED" /\ q.status # "REJECTED"
      BY <2>7
    <3> QED BY <2>1, <2>3, <2>4, <2>5, <3>1, <3>2 DEF CountsFit
  <2> QED BY <2>6, <2>7
<1> HIDE DEF h, r, q
<1> QED BY <1>10, <1>12, <1>13, <1>14, <1>15 DEF Fits

-----------------------------------------------------------------------------
(* A call's emits *)

\* Later is transitive: several events at once are one step of OrderLife.
LEMMA LaterTransitive ==
  ASSUME NEW g, NEW h, NEW k, NEW o, AllLater(g, h, o), AllLater(h, k, o),
         {g, h, k} \subseteq [Ids -> Progress \cup {NoOrder}]
  PROVE  AllLater(g, k, o)
<1> SUFFICES ASSUME NEW id \in Ids
             PROVE  Life!Later(g[id], k[id], o[id].qty)
  BY DEF AllLater
<1>1. Life!Later(g[id], h[id], o[id].qty) /\ Life!Later(h[id], k[id], o[id].qty)
  BY DEF AllLater
<1>2. /\ g[id] \in Progress \cup {NoOrder}
      /\ h[id] \in Progress \cup {NoOrder}
      /\ k[id] \in Progress \cup {NoOrder}
  OBVIOUS
<1>3. g[id].cumQty \in Int /\ h[id].cumQty \in Int /\ k[id].cumQty \in Int
  BY <1>2
<1> QED BY <1>1, <1>3 DEF Life!Later

\* What is left of P after the first i of the events.
After(P, events, i) == P \ {events[j] : j \in 1..i}

\* Each of the n events is, in its turn, the first one left of its order.
InTurn(events, n, P) ==
  /\ events \in [1..n -> P]
  /\ \A i, j \in 1..n : events[i] = events[j] => i = j
  /\ \A i \in 1..n : \A d \in After(P, events, i - 1) :
       d.id = events[i].id => events[i].dueAt <= d.dueAt

\* The states between the emits.
Run(f, start, events, n, qtys) ==
  f = [i \in 0..n |-> IF i = 0 THEN start ELSE Emit(f[i - 1], events[i], qtys)]

\* The recursion over the emits has a value.
LEMMA RunExists ==
  ASSUME NEW start, NEW events, NEW most \in Nat, NEW qtys
  PROVE  \E f : Run(f, start, events, most, qtys)
<1> DEFINE Good(n) == \E f : Run(f, start, events, n, qtys)
           Bad == {n \in Nat : ~Good(n)}
<1>1. SUFFICES ASSUME Bad # {} PROVE FALSE
  <2>1. most \in Nat /\ most \notin Bad
    BY <1>1
  <2> QED BY <2>1
<1>2. PICK n \in Bad : \A k \in Bad : n <= k
  BY <1>1, LeastNumber
<1>3. CASE n = 0
  <2>1. PICK f : f = [k \in 0..0 |-> start]
    OBVIOUS
  <2>2. Run(f, start, events, 0, qtys)
    BY <2>1 DEF Run
  <2> QED BY <1>3, <2>2
<1>4. CASE n # 0
  <2>1. n - 1 \in Nat /\ n \in Nat /\ n - 1 \notin Bad
    <3>1. n \in Nat
      OBVIOUS
    <3> HIDE DEF Bad
    <3> QED BY <1>2, <1>4, <3>1
  <2>2. PICK f : Run(f, start, events, n - 1, qtys)
    BY <2>1
  <2>3. PICK g : g = [k \in 0..n |-> IF k = n THEN Emit(f[n - 1], events[n], qtys)
                                      ELSE f[k]]
    OBVIOUS
  <2>4. ASSUME NEW k \in 0..n
        PROVE  g[k] = IF k = 0 THEN start ELSE Emit(g[k - 1], events[k], qtys)
    <3>1. CASE k = n
      BY <1>4, <2>1, <2>3, <3>1
    <3>2. CASE k # n
      <4>1. k \in 0..(n - 1) /\ (k # 0 => k - 1 \in 0..(n - 1) /\ k - 1 # n)
        BY <2>1, <3>2
      <4>2. g[k] = f[k] /\ (k # 0 => g[k - 1] = f[k - 1])
        BY <2>1, <2>3, <3>2, <4>1
      <4> QED BY <2>2, <4>1, <4>2 DEF Run
    <3> QED BY <3>1, <3>2
  <2>5. Run(g, start, events, n, qtys)
    BY <2>3, <2>4 DEF Run
  <2> QED BY <2>5
<1> QED BY <1>3, <1>4

\* EmitFrom is the end of such a run.
LEMMA EmitFromRuns ==
  ASSUME NEW start, NEW events, NEW n \in Nat, Len(events) = n, NEW qtys
  PROVE  \E f : Run(f, start, events, n, qtys) /\ EmitFrom(start, events, qtys) = f[n]
<1> DEFINE f == CHOOSE f : f = [i \in 0..n |->
                  IF i = 0 THEN start ELSE Emit(f[i - 1], events[i], qtys)]
<1>1. EmitFrom(start, events, qtys) = f[n]
  BY DEF EmitFrom
<1>2. Run(f, start, events, n, qtys)
  <2>1. PICK g : Run(g, start, events, n, qtys)
    BY RunExists
  <2> QED BY <2>1 DEF Run
<1> HIDE DEF f
<1> QED BY <1>1, <1>2

\* Emitting events in turn keeps what is left in order.
LEMMA EmitFromKeeps ==
  ASSUME NEW o, NEW n, NEW P, NEW start \in Accs(KnownIn(o)),
         Fits(start.progress, start.stats, P, o, n),
         NEW events, NEW m \in Nat, Len(events) = m, InTurn(events, m, P),
         NEW qtys, \A id \in Ids : qtys[id] = o[id].qty
  PROVE  LET end == EmitFrom(start, events, qtys)
         IN /\ end \in Accs(KnownIn(o))
            /\ Fits(end.progress, end.stats, After(P, events, m), o, n)
            /\ AllLater(start.progress, end.progress, o)
<1>1. PICK f : Run(f, start, events, m, qtys) /\ EmitFrom(start, events, qtys) = f[m]
  BY EmitFromRuns
<1> DEFINE Good(i) == /\ f[i] \in Accs(KnownIn(o))
                      /\ Fits(f[i].progress, f[i].stats, After(P, events, i), o, n)
                      /\ AllLater(start.progress, f[i].progress, o)
           Bad == {i \in 0..m : ~Good(i)}
<1>2. Good(0)
  <2>1. f[0] = start
    BY <1>1 DEF Run
  <2>2. After(P, events, 0) = P
    BY DEF After
  <2>3. AllLater(start.progress, start.progress, o)
    BY DEF AllLater, Life!Later
  <2> QED BY <2>1, <2>2, <2>3
<1>3. ASSUME NEW i \in 0..(m - 1), Good(i)
      PROVE  Good(i + 1)
  <2>1. i + 1 \in 1..m /\ (i + 1) - 1 = i /\ i + 1 \in 0..m /\ i + 1 # 0
    OBVIOUS
  <2>2. f[i + 1] = Emit(f[i], events[i + 1], qtys)
    <3> HIDE DEF Good
    <3> QED BY <1>1, <2>1 DEF Run
  <2>3. events[i + 1] \in After(P, events, i)
    BY <2>1 DEF InTurn, After
  <2>4. \A d \in After(P, events, i) :
          d.id = events[i + 1].id => events[i + 1].dueAt <= d.dueAt
    BY <2>1 DEF InTurn
  <2>5. After(P, events, i) \ {events[i + 1]} = After(P, events, i + 1)
    <3>1. 1..(i + 1) = (1..i) \cup {i + 1}
      OBVIOUS
    <3> QED BY <3>1 DEF After
  <2>6. PICK a : a = f[i]
    OBVIOUS
  <2>7. PICK Q : Q = After(P, events, i)
    OBVIOUS
  <2>8. PICK e : e = events[i + 1]
    OBVIOUS
  <2>9. /\ a \in Accs(KnownIn(o)) /\ Fits(a.progress, a.stats, Q, o, n)
        /\ AllLater(start.progress, a.progress, o)
    BY <1>3, <2>6, <2>7
  <2>10. e \in Q /\ \A d \in Q : d.id = e.id => e.dueAt <= d.dueAt
    BY <2>3, <2>4, <2>7, <2>8
  <2>11. /\ Emit(a, e, qtys) \in Accs(KnownIn(o))
         /\ Fits(Emit(a, e, qtys).progress, Emit(a, e, qtys).stats, Q \ {e}, o, n)
         /\ AllLater(a.progress, Emit(a, e, qtys).progress, o)
    BY <2>9, <2>10, EmitKeeps
  <2>12. AllLater(start.progress, Emit(a, e, qtys).progress, o)
    <3>1. {start.progress, a.progress, Emit(a, e, qtys).progress}
            \subseteq [Ids -> Progress \cup {NoOrder}]
      BY <2>9, <2>11 DEF Accs
    <3> QED BY <2>9, <2>11, <3>1, LaterTransitive
  <2> QED BY <2>2, <2>5, <2>6, <2>7, <2>8, <2>11, <2>12
<1>4. Good(m)
  <2>1. SUFFICES ASSUME ~Good(m) PROVE FALSE
    OBVIOUS
  <2>2. Bad \in SUBSET Nat /\ m \in Bad
    BY <2>1
  <2>3. PICK k \in Bad : \A i \in Bad : k <= i
    <3> HIDE DEF Bad
    <3> QED BY <2>2, LeastNumber
  <2>4. k \in 0..m /\ ~Good(k)
    OBVIOUS
  <2>5. k # 0
    BY <1>2, <2>4
  <2>6. k - 1 \in 0..(m - 1) /\ k - 1 \in 0..m /\ k - 1 \notin Bad /\ (k - 1) + 1 = k
    <3>1. k - 1 \in 0..(m - 1) /\ k - 1 \in 0..m /\ (k - 1) + 1 = k /\ ~(k <= k - 1)
      BY <2>4, <2>5
    <3> HIDE DEF Bad
    <3> QED BY <2>3, <3>1
  <2>7. Good(k - 1)
    BY <2>6
  <2>8. Good((k - 1) + 1)
    <3> HIDE DEF Good, Bad
    <3> QED BY <1>3, <2>6, <2>7
  <2> HIDE DEF Good
  <2> QED BY <2>4, <2>6, <2>8
<1> QED BY <1>1, <1>4

\* What is scheduled is told apart by its time and its order's index.
LEMMA ScheduledIsTimed ==
  ASSUME NEW o, NEW n \in Nat, NEW P, NEW g, EventsFit(P, n), LivesFit(g, P, o),
         NEW due, due \subseteq P
  PROVE  Timed(due)
<1>1. IsFiniteSet(due)
  BY FS_Subset DEF EventsFit
<1>2. \A e \in due : e.dueAt \in Int /\ e.order \in Int /\ e \in P /\ e.id \in Ids
  BY DEF EventsFit, Events
<1>3. ASSUME NEW d \in due, NEW e \in due, d # e
      PROVE  Before(d, e) \/ Before(e, d)
  <2>1. CASE d.id = e.id
    <3>1. d \in OfId(P, d.id) /\ e \in OfId(P, d.id) /\ Sane(OfId(P, d.id))
      BY <1>2, <2>1, OrdersAreSane DEF OfId
    <3>2. Finishes(g[d.id], OfId(P, d.id), o[d.id])
      BY <1>2 DEF LivesFit
    <3>3. d.dueAt # e.dueAt
      BY <1>3, <3>1, <3>2, TimesDiffer
    <3> QED BY <1>2, <3>3 DEF Before
  <2>2. CASE d.id # e.id
    <3>1. d.order # e.order
      BY <1>2, <2>2 DEF EventsFit
    <3> QED BY <1>2, <3>1 DEF Before
  <2> QED BY <2>1, <2>2
<1> QED BY <1>1, <1>2, <1>3 DEF Timed

DueBy(P, now) == {e \in P : e.dueAt <= now}

\* What came due is emitted in turn.
LEMMA DueInTurn ==
  ASSUME NEW o, NEW n \in Nat, NEW P, NEW g, EventsFit(P, n), LivesFit(g, P, o),
         NEW now \in Nat, NEW due, due = DueBy(P, now)
  PROVE  /\ Cardinality(due) \in Nat
         /\ Len(InDueOrder(due)) = Cardinality(due)
         /\ InTurn(InDueOrder(due), Cardinality(due), P)
         /\ After(P, InDueOrder(due), Cardinality(due)) = P \ due
<1>0. due = {e \in P : e.dueAt <= now}
  BY DEF DueBy
<1>1. due \subseteq P /\ Timed(due)
  <2>1. due \subseteq P
    BY <1>0
  <2> QED BY <2>1, ScheduledIsTimed
<1>2. PICK m : m = Cardinality(due)
  OBVIOUS
<1>3. PICK s : s = InDueOrder(due)
  OBVIOUS
<1>4. /\ m \in Nat /\ s \in [1..m -> due]
      /\ \A e \in due : \E i \in 1..m : s[i] = e
      /\ \A i, j \in 1..m : i < j => Before(s[i], s[j])
  BY <1>1, <1>2, <1>3, DueOrder
<1>5. Len(s) = m
  BY <1>4
<1>6. \A e \in due : e.dueAt \in Int /\ e.order \in Int
  BY <1>1 DEF Timed
<1>7. ASSUME NEW i \in 1..m, NEW j \in 1..m, s[i] = s[j]
      PROVE  i = j
  <2>1. ~Before(s[i], s[j]) /\ ~Before(s[j], s[i])
    BY <1>4, <1>6, <1>7 DEF Before
  <2> QED BY <1>4, <2>1
<1>8. ASSUME NEW i \in 1..m, NEW d \in After(P, s, i - 1)
      PROVE  s[i].dueAt <= d.dueAt
  <2>1. s[i] \in due /\ s[i].dueAt \in Int /\ s[i].dueAt <= now /\ d \in P
    BY <1>0, <1>4, <1>6 DEF After
  <2>2. d.dueAt \in Int
    BY <2>1 DEF EventsFit, Events
  <2>3. CASE d \in due
    <3>1. PICK j \in 1..m : s[j] = d
      BY <1>4, <2>3
    <3>2. ~(j < i)
      BY <1>4, <3>1 DEF After
    <3> QED BY <1>4, <2>1, <2>2, <3>1, <3>2 DEF Before
  <2>4. CASE d \notin due
    BY <1>0, <2>1, <2>2, <2>4
  <2> QED BY <2>3, <2>4
<1>9. InTurn(s, m, P)
  BY <1>1, <1>4, <1>7, <1>8 DEF InTurn
<1>10. After(P, s, m) = P \ due
  BY <1>4 DEF After
<1> QED BY <1>2, <1>3, <1>4, <1>5, <1>9, <1>10

-----------------------------------------------------------------------------
(* What is scheduled for a new order *)

\* What the market has of an order is at least one and at most all of it.
LEMMA FillableIsPart ==
  ASSUME NEW qty \in Nat \ {0}, NEW tif, NEW part \in Fillable(qty, tif)
  PROVE  /\ part \in Nat \ {0}
         /\ part <= qty
         /\ part < qty => tif = "IOC"
<1>1. CASE part = qty
  BY <1>1
<1>2. CASE part # qty
  <2>1. tif = "IOC"
    BY <1>2 DEF Fillable
  <2>2. PICK x \in (3 * qty) \div 10 .. (9 * qty - 1) \div 10 : part = Max({1, x})
    BY <1>2, <2>1 DEF Fillable
  <2>3. x \in Int /\ x <= qty
    <3>1. (3 * qty) \div 10 \in Int /\ (9 * qty - 1) \div 10 \in Int
          /\ (9 * qty - 1) \div 10 <= qty
      OBVIOUS
    <3> QED BY <3>1
  <2>4. part = IF x >= 1 THEN x ELSE 1
    <3>1. CASE x >= 1
      <4>1. \A y \in {1, x} : (\A z \in {1, x} : y >= z) <=> y = x
        BY <2>3, <3>1
      <4> QED BY <2>2, <3>1, <4>1 DEF Max
    <3>2. CASE ~(x >= 1)
      <4>1. \A y \in {1, x} : (\A z \in {1, x} : y >= z) <=> y = 1
        BY <2>3, <3>2
      <4> QED BY <2>2, <3>2, <4>1 DEF Max
    <3> QED BY <3>1, <3>2
  <2> QED BY <2>1, <2>3, <2>4
<1> QED BY <1>1, <1>2

\* A split has parts of at least one that add up.
LEMMA SplitsAddUp ==
  ASSUME NEW n \in Nat \ {0}, NEW split \in Splits(n)
  PROVE  \E k \in Nat \ {0} : /\ split \in [1..k -> 1..n]
                              /\ Len(split) = k
                              /\ PartsSum(split) = n
<1>1. CASE split = <<n>>
  <2>1. split \in [1..1 -> 1..n] /\ Len(split) = 1 /\ split[1] = n /\ DOMAIN split = 1..1
    BY <1>1
  <2>2. PICK f : SumsOver(f, split, 1..1) /\ PartsSum(split) = f[1..1]
    BY <2>1, SplitIsSum
  <2>3. f[1..1] = n
    <3>1. 1..1 = {1} /\ {1} # {} /\ {1} \ {1} = {} /\ Some({1}) = 1
      BY DEF Some
    <3>2. f[{1}] = split[1] + f[{}] /\ f[{}] = 0
      BY <2>2, <3>1 DEF SumsOver, Sums
    <3> QED BY <2>1, <3>1, <3>2
  <2> QED BY <2>1, <2>2, <2>3
<1>2. CASE split # <<n>>
  <2>1. PICK k \in 2..MaxPartials : split \in [1..k -> 1..n] /\ PartsSum(split) = n
    BY <1>2 DEF Splits, PartsSum
  <2>2. k \in Nat \ {0}
    BY <2>1, ExecutionAssumption
  <2>3. Len(split) = k
    BY <2>1, <2>2
  <2> QED BY <2>1, <2>2, <2>3
<1> QED BY <1>1, <1>2

\* Event gaps add up.
LEMMA Multiples ==
  ASSUME NEW i \in Int, NEW j \in Int, i < j
  PROVE  /\ i * EventGap \in Int
         /\ j * EventGap \in Int
         /\ i * EventGap < j * EventGap
<1>1. PICK g \in Int : g = EventGap /\ g > 0
  BY ExecutionAssumption
<1>2. j * g = i * g + (j - i) * g
  BY <1>1
<1>3. (j - i) * g > 0
  BY <1>1
<1>4. i * g \in Int /\ j * g \in Int
  BY <1>1
<1>5. i * g < j * g
  BY <1>2, <1>3, <1>4
<1> QED BY <1>1, <1>4, <1>5

\* A number of event gaps is a number.
LEMMA Multiple ==
  ASSUME NEW i \in Nat
  PROVE  i * EventGap \in Nat
<1>1. PICK g \in Nat : g = EventGap
  BY ExecutionAssumption
<1>2. i * g \in Nat
  BY <1>1
<1> QED BY <1>1, <1>2

\* An order's own events.
Own(S, id, order) == \A e \in S : e.id = id /\ e.order = order

\* The script of an accepted order is the life it has before it.
LEMMA ScriptOwes ==
  ASSUME NEW id \in Ids, NEW index \in Nat, NEW order \in [qty : Nat \ {0}, tif : TimeInForce],
         NEW part \in Fillable(order.qty, order.tif), NEW split \in Splits(part),
         NEW t0 \in Nat
  PROVE  LET S == Script(id, index, split, part < order.qty, t0)
         IN Sane(S) /\ Own(S, id, index) /\ Owes(NoOrder, S, order)
<1>1. /\ order.qty \in Nat \ {0} /\ part \in Nat \ {0} /\ part <= order.qty
      /\ part < order.qty => order.tif = "IOC"
  BY FillableIsPart
<1>2. PICK k \in Nat \ {0} : /\ split \in [1..k -> 1..part]
                             /\ Len(split) = k
                             /\ PartsSum(split) = part
  BY <1>1, SplitsAddUp
<1>3. PICK head : head = Event(id, index, "NEW", t0, NoQty, NoReason)
  OBVIOUS
<1>4. PICK ev : ev = [i \in 1..k |-> Event(id, index, "TRADE", t0 + i * EventGap,
                                           split[i], NoReason)]
  OBVIOUS
<1>5. PICK tail : tail = Event(id, index, "CANCELED", t0 + (k + 1) * EventGap, NoQty, NoReason)
  OBVIOUS
<1>6. PICK trades : trades = {ev[i] : i \in 1..k}
  OBVIOUS
<1>7. PICK S : S = Script(id, index, split, part < order.qty, t0)
  OBVIOUS
<1>8. S = {head} \cup trades \cup (IF part < order.qty THEN {tail} ELSE {})
  <2>1. trades = {Event(id, index, "TRADE", t0 + i * EventGap, split[i], NoReason) :
                    i \in DOMAIN split}
    BY <1>2, <1>4, <1>6
  <2> QED BY <1>2, <1>3, <1>5, <1>7, <2>1 DEF Script
<1>30. split \in [1..k -> Nat \ {0}] /\ DOMAIN split = 1..k
  BY <1>1, <1>2
<1>9. ASSUME NEW i \in 1..k
      PROVE  /\ ev[i] = Event(id, index, "TRADE", t0 + i * EventGap, split[i], NoReason)
             /\ i * EventGap \in Nat
             /\ 0 < i * EventGap /\ i * EventGap < (k + 1) * EventGap
             /\ split[i] \in Nat \ {0}
  <2>1. 0 * EventGap = 0
    BY ExecutionAssumption
  <2>2. 0 * EventGap < i * EventGap /\ i * EventGap < (k + 1) * EventGap
    <3>1. 0 \in Int /\ i \in Int /\ k + 1 \in Int /\ 0 < i /\ i < k + 1
      BY <1>2
    <3> QED BY <3>1, Multiples
  <2>3. i * EventGap \in Nat
    BY Multiple
  <2>4. ev[i] = Event(id, index, "TRADE", t0 + i * EventGap, split[i], NoReason)
    BY <1>4
  <2>5. split[i] \in Nat \ {0}
    BY <1>30
  <2>6. (k + 1) * EventGap \in Nat
    BY Multiple
  <2> QED BY <2>1, <2>2, <2>3, <2>4, <2>5
<1>10. (k + 1) * EventGap \in Nat
  BY Multiple
<1>11. /\ head.kind = "NEW" /\ head.dueAt = t0 /\ head.id = id /\ head.order = index
       /\ head \in Events
  BY <1>3 DEF Event, Events, NoQty
<1>12. /\ tail.kind = "CANCELED" /\ tail.dueAt = t0 + (k + 1) * EventGap
       /\ tail.id = id /\ tail.order = index /\ tail \in Events
  BY <1>5, <1>10 DEF Event, Events, NoQty
<1>13. ASSUME NEW i \in 1..k
       PROVE  /\ ev[i].kind = "TRADE" /\ ev[i].dueAt = t0 + i * EventGap
              /\ ev[i].id = id /\ ev[i].order = index
              /\ ev[i].lastQty = split[i] /\ ev[i] \in Events
  <2>1. PICK t \in Nat : t = t0 + i * EventGap
    BY <1>9
  <2>2. PICK lot \in Nat : lot = split[i]
    BY <1>9
  <2>3. ev[i] = [id |-> id, order |-> index, kind |-> "TRADE", dueAt |-> t,
                 lastQty |-> lot, rejectReason |-> NoReason]
    BY <1>9, <2>1, <2>2 DEF Event
  <2> QED BY <2>1, <2>2, <2>3 DEF Events
<1>14. ASSUME NEW i \in 1..k, NEW j \in 1..k, i # j
       PROVE  ev[i].dueAt # ev[j].dueAt
  <2>1. CASE i < j
    <3>1. i * EventGap < j * EventGap
      BY <2>1, Multiples
    <3>2. PICK x \in Int : x = i * EventGap
      BY Multiples, <2>1
    <3>3. PICK y \in Int : y = j * EventGap
      BY Multiples, <2>1
    <3>4. ev[i].dueAt = t0 + x /\ ev[j].dueAt = t0 + y
      BY <1>13, <3>2, <3>3
    <3> QED BY <3>1, <3>2, <3>3, <3>4
  <2>2. CASE j < i
    <3>1. j * EventGap < i * EventGap
      BY <2>2, Multiples
    <3>2. PICK x \in Int : x = j * EventGap
      BY Multiples, <2>2
    <3>3. PICK y \in Int : y = i * EventGap
      BY Multiples, <2>2
    <3>4. ev[j].dueAt = t0 + x /\ ev[i].dueAt = t0 + y
      BY <1>13, <3>2, <3>3
    <3> QED BY <3>1, <3>2, <3>3, <3>4
  <2>3. i < j \/ j < i
    BY <1>14
  <2> QED BY <2>1, <2>2, <2>3
<1>15. IsFiniteSet(trades)
  <2>1. IsFiniteSet(1..k)
    BY FS_Interval
  <2>2. PICK f : f = [i \in 1..k |-> ev[i]]
    OBVIOUS
  <2>3. f \in Surjection(1..k, trades)
    BY <1>6, <2>2 DEF Surjection
  <2> QED BY <2>1, <2>3, FS_Surjection
<1>16. IsFiniteSet(S)
  <2>1. IsFiniteSet({head}) /\ IsFiniteSet({tail}) /\ IsFiniteSet({})
    BY FS_Singleton, FS_EmptySet
  <2> QED BY <1>8, <1>15, <2>1, FS_Union
<1>17. Sane(S)
  BY <1>6, <1>8, <1>9, <1>11, <1>12, <1>13, <1>16 DEF Sane
<1>18. Own(S, id, index)
  BY <1>6, <1>8, <1>11, <1>12, <1>13 DEF Own
<1>19. OfKind(S, "NEW") = {head}
  BY <1>6, <1>8, <1>11, <1>12, <1>13 DEF OfKind
<1>20. OfKind(S, "TRADE") = trades
  BY <1>6, <1>8, <1>11, <1>12, <1>13 DEF OfKind
<1>21. OfKind(S, "REJECTED") = {}
  BY <1>6, <1>8, <1>11, <1>12, <1>13 DEF OfKind
<1>22. OfKind(S, "CANCELED") = IF part < order.qty THEN {tail} ELSE {}
  BY <1>6, <1>8, <1>11, <1>12, <1>13 DEF OfKind
<1>23. Fills(trades) = part
  <2>1. split \in [1..k -> Int] /\ DOMAIN ev = 1..k
    BY <1>30, <1>4
  <2>2. \A i \in 1..k : ev[i].lastQty = split[i]
    BY <1>13
  <2>3. \A i, j \in 1..k : ev[i] = ev[j] => i = j
    BY <1>14
  <2>4. k \in Nat /\ split \in [1..k -> Int] /\ Carries(ev, split, k)
    BY <2>1, <2>2, <2>3 DEF Carries
  <2>5. Fills(Carried(ev, k)) = PartsSum(split)
    BY <2>4, FillsOfSplit
  <2> QED BY <1>2, <1>6, <2>5 DEF Carried
<1>24. \A d \in S \ {head} : head.dueAt < d.dueAt
  <2>1. \A i \in 1..k : t0 < ev[i].dueAt
    BY <1>9, <1>13
  <2>2. t0 < tail.dueAt
    <3>1. 0 < (k + 1) * EventGap
      BY <1>9, <1>10
    <3> QED BY <1>10, <1>12, <3>1
  <2> QED BY <1>6, <1>8, <1>11, <2>1, <2>2
<1>25. \A d \in S \ {tail} : d.dueAt < tail.dueAt
  <2>1. \A i \in 1..k : ev[i].dueAt < tail.dueAt
    BY <1>9, <1>10, <1>12, <1>13
  <2>2. head.dueAt < tail.dueAt
    <3>1. 0 < (k + 1) * EventGap
      BY <1>9, <1>10
    <3> QED BY <1>10, <1>11, <1>12, <3>1
  <2> QED BY <1>6, <1>8, <2>1, <2>2
<1>26. \A e \in trades : \A d \in trades \ {e} : e.dueAt # d.dueAt
  BY <1>6, <1>14
<1>27. Cardinality({head}) = 1 /\ Cardinality({tail}) = 1
  BY FS_Singleton
<1>28. NoOrder.cumQty + Fills(OfKind(S, "TRADE")) = part
  BY <1>1, <1>20, <1>23
<1>29. Owes(NoOrder, S, order)
  <2>1. CASE part < order.qty
    <3>1. OfKind(S, "CANCELED") = {tail} /\ order.tif = "IOC"
      BY <1>1, <1>22, <2>1
    <3> HIDE DEF NoOrder
    <3> QED BY <1>19, <1>20, <1>21, <1>24, <1>25, <1>26, <1>27, <1>28, <2>1, <3>1 DEF Owes
  <2>2. CASE ~(part < order.qty)
    <3>1. OfKind(S, "CANCELED") = {} /\ part = order.qty
      BY <1>1, <1>22, <2>2
    <3> HIDE DEF NoOrder
    <3> QED BY <1>19, <1>20, <1>21, <1>24, <1>26, <1>27, <1>28, <3>1 DEF Owes
  <2> QED BY <2>1, <2>2
<1> QED BY <1>7, <1>17, <1>18, <1>29

\* An order that nobody knew enters with what is scheduled for it.
LEMMA Enters ==
  ASSUME NEW g, NEW s, NEW P, NEW o, NEW n \in Nat, Fits(g, s, P, o, n),
         NEW id \in Ids, o[id] = Unknown,
         NEW order \in [qty : Int, tif : TimeInForce], order # Unknown,
         NEW S, Sane(S), Own(S, id, n + 1), Finishes(NoOrder, S, order)
  PROVE  LET o2 == [o EXCEPT ![id] = order]
             s2 == [s EXCEPT !.submitted = @ + 1]
         IN /\ Fits(g, s2, P \cup S, o2, n + 1)
            /\ s2 \in [DOMAIN NoStats -> Nat]
            /\ S \cap P = {}
<1>1. PICK o2 : o2 = [o EXCEPT ![id] = order]
  OBVIOUS
<1>2. PICK s2 : s2 = [s EXCEPT !.submitted = @ + 1]
  OBVIOUS
<1>3. /\ EventsFit(P, n) /\ LivesFit(g, P, o) /\ CountsFit(s, g, o)
      /\ g \in [Ids -> Progress \cup {NoOrder}]
      /\ o \in [Ids -> [qty : Int, tif : TimeInForce]]
  BY DEF Fits, LivesFit
<1>4. g[id] = NoOrder /\ OfId(P, id) = {}
  BY <1>3 DEF LivesFit, OrderOK, Finishes, Alive
<1>5. o2 \in [Ids -> [qty : Int, tif : TimeInForce]] /\ o2[id] = order
      /\ \A x \in Ids : x # id => o2[x] = o[x]
  BY <1>1, <1>3
<1>6. \A e \in S : e.id = id /\ e.order = n + 1
  BY DEF Own
<1>7. \A e \in P : e.id # id /\ e.order \in 1..n
  BY <1>3, <1>4 DEF OfId, EventsFit
<1>8. S \cap P = {}
  BY <1>6, <1>7
<1>9. EventsFit(P \cup S, n + 1)
  <2>1. IsFiniteSet(P \cup S)
    BY <1>3, FS_Union DEF EventsFit, Sane
  <2>2. P \cup S \subseteq Events
    BY <1>3 DEF EventsFit, Sane
  <2>3. ASSUME NEW e \in P \cup S
        PROVE  /\ e.order \in 1..(n + 1)
               /\ e.kind = "TRADE" => e.lastQty > 0
               /\ e.kind = "REJECTED" => e.rejectReason # NoReason
    <3>1. CASE e \in P
      BY <1>3, <1>7, <3>1 DEF EventsFit
    <3>2. CASE e \in S
      BY <1>6, <3>2 DEF Sane
    <3> QED BY <3>1, <3>2
  <2>4. ASSUME NEW d \in P \cup S, NEW e \in P \cup S
        PROVE  (d.order = e.order) <=> (d.id = e.id)
    <3>1. CASE d \in P /\ e \in P
      BY <1>3, <3>1 DEF EventsFit
    <3>2. CASE d \in S /\ e \in S
      BY <1>6, <3>2
    <3>3. CASE d \in P /\ e \in S
      BY <1>6, <1>7, <3>3
    <3>4. CASE d \in S /\ e \in P
      BY <1>6, <1>7, <3>4
    <3> QED BY <3>1, <3>2, <3>3, <3>4
  <2> QED BY <2>1, <2>2, <2>3, <2>4 DEF EventsFit
<1>10. LivesFit(g, P \cup S, o2)
  <2>1. ASSUME NEW x \in Ids
        PROVE  OrderOK(g[x], o2[x]) /\ Finishes(g[x], OfId(P \cup S, x), o2[x])
    <3>1. CASE x = id
      <4>1. OfId(P \cup S, x) = S
        BY <1>6, <1>7, <3>1 DEF OfId
      <4>2. OrderOK(NoOrder, order)
        BY DEF OrderOK, Life!Sound
      <4> QED BY <1>4, <1>5, <3>1, <4>1, <4>2
    <3>2. CASE x # id
      <4>1. OfId(P \cup S, x) = OfId(P, x)
        BY <1>6, <3>2 DEF OfId
      <4> QED BY <1>3, <1>5, <3>2, <4>1 DEF LivesFit
    <3> QED BY <3>1, <3>2
  <2> QED BY <1>3, <1>5, <2>1 DEF LivesFit
<1>11. CountsFit(s2, g, o2)
  <2>1. s \in [DOMAIN NoStats -> Nat] /\ IsFiniteSet(LiveIn(g, o))
    BY <1>3 DEF CountsFit
  <2>2. DOMAIN NoStats = {"submitted", "trades", "partials", "filled", "canceled", "rejected"}
    BY DEF NoStats
  <2>3. /\ s2 \in [DOMAIN NoStats -> Nat] /\ s2.submitted = s.submitted + 1
        /\ s2.filled = s.filled /\ s2.canceled = s.canceled /\ s2.rejected = s.rejected
    BY <1>2, <2>1, <2>2
  <2>4. s.submitted \in Nat /\ s.filled \in Nat /\ s.canceled \in Nat /\ s.rejected \in Nat
    BY <2>1, <2>2
  <2>5. LiveIn(g, o2) = LiveIn(g, o) \cup {id} /\ id \notin LiveIn(g, o)
    <3>1. Alive(order, NoOrder)
      BY DEF Alive
    <3> QED BY <1>4, <1>5, <3>1 DEF LiveIn, Alive
  <2>6. IsFiniteSet(LiveIn(g, o2))
        /\ Cardinality(LiveIn(g, o2)) = Cardinality(LiveIn(g, o)) + 1
    BY <2>1, <2>5, FS_AddElement
  <2>7. s.submitted - s.filled - s.canceled - s.rejected = Cardinality(LiveIn(g, o))
    BY <1>3 DEF CountsFit
  <2>8. s2.submitted - s2.filled - s2.canceled - s2.rejected = Cardinality(LiveIn(g, o2))
    BY <2>3, <2>4, <2>6, <2>7
  <2> QED BY <2>3, <2>6, <2>8 DEF CountsFit
<1>12. s2 \in [DOMAIN NoStats -> Nat]
  BY <1>11 DEF CountsFit
<1> QED BY <1>1, <1>2, <1>8, <1>9, <1>10, <1>11, <1>12 DEF Fits

-----------------------------------------------------------------------------
(* The invariant and the calls *)

EngineIInv ==
  /\ Fits(progress, stats, pending, orders, submissions)
  /\ submissions \in Nat
  /\ holdMs \in Nat
  /\ bounces \in {"never", "sometimes", "always"}
  /\ lastNow \in Nat
  /\ out \in Seq(Reports(KnownIn(orders)))
  /\ threw = FALSE

\* The empty engine satisfies the invariant and OrderLife.
LEMMA EngineInitOK == EngineInit => EngineIInv /\ Life!LifeInit
<1> SUFFICES ASSUME EngineInit PROVE EngineIInv /\ Life!LifeInit
  OBVIOUS
<1>1. /\ orders = [id \in Ids |-> Unknown] /\ submissions = 0 /\ pending = {}
      /\ progress = [id \in Ids |-> NoOrder] /\ stats = NoStats /\ holdMs \in Holds
      /\ bounces = "never" /\ lastNow = 0 /\ out = << >> /\ threw = FALSE
  BY DEF EngineInit
<1>2. EventsFit(pending, submissions)
  BY <1>1, FS_EmptySet DEF EventsFit
<1>3. Unknown \in [qty : Int, tif : TimeInForce]
  BY DEF Unknown, NoQty, TimeInForce
<1>4. LivesFit(progress, pending, orders)
  <2>1. ASSUME NEW id \in Ids
        PROVE  /\ OrderOK(progress[id], orders[id])
               /\ Finishes(progress[id], OfId(pending, id), orders[id])
    <3>1. progress[id] = NoOrder /\ orders[id] = Unknown /\ OfId(pending, id) = {}
      BY <1>1 DEF OfId
    <3> QED BY <1>3, <3>1 DEF OrderOK, Life!Sound, Finishes, Alive
  <2> QED BY <1>1, <1>3, <2>1 DEF LivesFit
<1>5. CountsFit(stats, progress, orders)
  <2>1. LiveIn(progress, orders) = {}
    BY <1>1 DEF LiveIn, Alive
  <2>2. stats \in [DOMAIN NoStats -> Nat]
    BY <1>1 DEF NoStats
  <2>3. stats.submitted - stats.filled - stats.canceled - stats.rejected = 0
    BY <1>1 DEF NoStats
  <2> QED BY <2>1, <2>2, <2>3, FS_EmptySet DEF CountsFit
<1>6. EngineIInv
  <2>1. holdMs \in Nat
    BY <1>1, ExecutionAssumption
  <2>2. out \in Seq(Reports(KnownIn(orders)))
    BY <1>1
  <2> HIDE DEF NoOrder
  <2> QED BY <1>1, <1>2, <1>4, <1>5, <2>1, <2>2 DEF EngineIInv, Fits
<1>7. Life!LifeInit
  <2>1. \A id \in Ids : orders[id].qty \in Int
    BY <1>1, <1>3
  <2> QED BY <1>1, <2>1 DEF Life!LifeInit, Qtys
<1> QED BY <1>6, <1>7

\* Registering makes an unknown order known.
LEMMA Registers ==
  ASSUME EngineIInv, NEW id \in Ids, NEW qty \in Nat, NEW tif \in TimeInForce,
         Register(id, qty, tif)
  PROVE  LET order == [qty |-> qty, tif |-> tif]
         IN /\ orders[id] = Unknown
            /\ order \in [qty : Int, tif : TimeInForce] /\ order # Unknown
            /\ orders' = [orders EXCEPT ![id] = order]
            /\ submissions' = submissions + 1 /\ submissions' \in Nat
            /\ progress[id] = NoOrder
            /\ \A x \in Ids : x # id => Qtys'[x] = Qtys[x]
            /\ KnownIn(orders) \subseteq KnownIn(orders')
<1>1. orders \in [Ids -> [qty : Int, tif : TimeInForce]]
  BY DEF EngineIInv, Fits, LivesFit
<1>2. PICK order : order = [qty |-> qty, tif |-> tif]
  OBVIOUS
<1>3. order \in [qty : Int, tif : TimeInForce] /\ order # Unknown
  <2>1. order.qty # Unknown.qty
    BY <1>2 DEF Unknown, NoQty
  <2> QED BY <1>2, <2>1
<1>4. orders[id] = Unknown /\ orders' = [orders EXCEPT ![id] = order]
      /\ submissions' = submissions + 1
  BY <1>2 DEF Register
<1>5. progress[id] = NoOrder
  BY <1>4 DEF EngineIInv, Fits, LivesFit, OrderOK
<1>6. \A x \in Ids : x # id => orders'[x] = orders[x]
  BY <1>1, <1>4
<1>7. orders'[id] = order
  BY <1>1, <1>4
<1>8. \A x \in Ids : x # id => Qtys'[x] = Qtys[x]
  BY <1>6 DEF Qtys
<1>9. KnownIn(orders) \subseteq KnownIn(orders')
  BY <1>3, <1>6, <1>7 DEF KnownIn
<1>10. submissions' \in Nat
  BY <1>4 DEF EngineIInv
<1> QED BY <1>2, <1>3, <1>4, <1>5, <1>8, <1>9, <1>10

\* What is scheduled for a known order is what its life needs.
LEMMA ScheduleKeeps ==
  ASSUME EngineIInv, NEW id \in Ids, NEW qty \in Nat, NEW tif \in TimeInForce,
         Register(id, qty, tif),
         NEW S, Schedule(S), Sane(S), Own(S, id, submissions + 1),
         Finishes(NoOrder, S, [qty |-> qty, tif |-> tif])
  PROVE  EngineIInv' /\ Life!Progresses
<1>1. PICK order : order = [qty |-> qty, tif |-> tif]
  OBVIOUS
<1>2. /\ orders[id] = Unknown
      /\ order \in [qty : Int, tif : TimeInForce] /\ order # Unknown
      /\ orders' = [orders EXCEPT ![id] = order]
      /\ submissions' = submissions + 1 /\ submissions' \in Nat
      /\ progress[id] = NoOrder
      /\ \A x \in Ids : x # id => Qtys'[x] = Qtys[x]
  BY <1>1, Registers
<1>3. /\ pending' = pending \cup S /\ stats' = [stats EXCEPT !.submitted = @ + 1]
      /\ out' = << >> /\ progress' = progress /\ holdMs' = holdMs /\ bounces' = bounces
      /\ lastNow' = lastNow /\ threw' = threw
  BY DEF Schedule, Submitted
<1>4. Fits(progress, stats, pending, orders, submissions) /\ submissions \in Nat
  BY DEF EngineIInv
<1>5. Fits(progress, [stats EXCEPT !.submitted = @ + 1], pending \cup S,
           [orders EXCEPT ![id] = order], submissions + 1)
  <2>1. PICK n \in Nat : n = submissions
    BY <1>4
  <2>2. PICK s : s = stats
    OBVIOUS
  <2>3. PICK o : o = orders
    OBVIOUS
  <2>4. Fits(progress, s, pending, o, n) /\ o[id] = Unknown /\ Own(S, id, n + 1)
        /\ Finishes(NoOrder, S, order)
    BY <1>1, <1>2, <1>4, <2>1, <2>2, <2>3
  <2>5. Fits(progress, [s EXCEPT !.submitted = @ + 1], pending \cup S,
             [o EXCEPT ![id] = order], n + 1)
    <3> HIDE DEF NoOrder
    <3> QED BY <1>2, <2>4, Enters
  <2> QED BY <2>1, <2>2, <2>3, <2>5
<1>6. Fits(progress, stats, pending, orders, submissions)'
  BY <1>2, <1>3, <1>5
<1>7. EngineIInv'
  <2>1. out' \in Seq(Reports(KnownIn(orders')))
    BY <1>3
  <2> QED BY <1>2, <1>3, <1>6, <2>1 DEF EngineIInv
<1>8. Life!Progresses
  BY <1>2, <1>3 DEF Life!Progresses, Life!Later
<1> QED BY <1>7, <1>8

\* A rejected order ends in the call that submits it.
LEMMA RejectKeeps ==
  ASSUME EngineIInv, NEW id \in Ids, NEW qty \in Nat, NEW tif \in TimeInForce,
         Register(id, qty, tif),
         NEW reason \in RejectReason, NEW at \in Nat, Reject(id, reason, at)
  PROVE  EngineIInv' /\ Life!Progresses
<1>1. PICK order : order = [qty |-> qty, tif |-> tif]
  OBVIOUS
<1>2. PICK o : o = orders'
  OBVIOUS
<1>3. PICK n \in Nat : n = submissions
  BY DEF EngineIInv
<1>4. /\ orders[id] = Unknown
      /\ order \in [qty : Int, tif : TimeInForce] /\ order # Unknown
      /\ o = [orders EXCEPT ![id] = order]
      /\ submissions' = n + 1 /\ submissions' \in Nat
      /\ progress[id] = NoOrder
      /\ \A x \in Ids : x # id => Qtys'[x] = Qtys[x]
  BY <1>1, <1>2, <1>3, Registers
<1>5. PICK e : e = Event(id, n + 1, "REJECTED", at, NoQty, reason)
  OBVIOUS
<1>6. /\ e.id = id /\ e.order = n + 1 /\ e.kind = "REJECTED" /\ e.rejectReason = reason
      /\ e \in Events /\ reason # NoReason
  BY <1>3, <1>5 DEF Event, Events, NoQty, RejectReason, NoReason
<1>7. Sane({e}) /\ Own({e}, id, n + 1) /\ Finishes(NoOrder, {e}, order)
  <2>1. IsFiniteSet({e})
    BY FS_Singleton
  <2> QED BY <1>4, <1>6, <2>1 DEF Sane, Own, Finishes, Alive, Bounces
<1>8. Fits(progress, stats, pending, orders, n)
  BY <1>3 DEF EngineIInv
<1>9. PICK s : s = Submitted
  OBVIOUS
<1>10. PICK P : P = pending \cup {e}
  OBVIOUS
<1>11. Fits(progress, s, P, o, n + 1) /\ s \in [DOMAIN NoStats -> Nat] /\ {e} \cap pending = {}
  BY <1>4, <1>7, <1>8, <1>9, <1>10, Enters DEF Submitted
<1>12. PICK start : start = [progress |-> progress, stats |-> s, out |-> << >>,
                             threw |-> FALSE]
  OBVIOUS
<1>13. start.progress = progress /\ start.stats = s
  BY <1>12
<1>14. start \in Accs(KnownIn(o))
  <2>1. progress \in [Ids -> Progress \cup {NoOrder}]
    BY <1>8 DEF Fits, LivesFit
  <2>2. << >> \in Seq(Reports(KnownIn(o)))
    OBVIOUS
  <2> HIDE DEF NoOrder, Progress
  <2> QED BY <1>11, <1>12, <2>1, <2>2 DEF Accs
<1>15. InTurn(<<e>>, 1, P) /\ Len(<<e>>) = 1 /\ 1 \in Nat
  <2>1. <<e>> \in [1..1 -> P]
    BY <1>10
  <2>2. \A i, j \in 1..1 : <<e>>[i] = <<e>>[j] => i = j
    OBVIOUS
  <2>3. ASSUME NEW d \in P, d.id = e.id PROVE d = e
    <3>1. CASE d \in pending
      <4>1. d.order \in 1..n
        BY <1>8, <3>1 DEF Fits, EventsFit
      <4>2. d.order = n + 1
        BY <1>6, <1>10, <1>11, <2>3 DEF Fits, EventsFit
      <4> QED BY <4>1, <4>2
    <3> QED BY <1>10, <3>1
  <2>4. e.dueAt \in Int
    BY <1>6 DEF Events
  <2>5. \A i \in 1..1 : \A d \in After(P, <<e>>, i - 1) :
          d.id = <<e>>[i].id => <<e>>[i].dueAt <= d.dueAt
    <3>1. TAKE i \in 1..1
    <3>2. TAKE d \in After(P, <<e>>, i - 1)
    <3>3. <<e>>[i] = e /\ d \in P
      BY DEF After
    <3> QED BY <2>3, <2>4, <3>3
  <2> QED BY <2>1, <2>2, <2>5 DEF InTurn
<1>16. After(P, <<e>>, 1) = pending
  <2>1. {<<e>>[j] : j \in 1..1} = {e}
    OBVIOUS
  <2> QED BY <1>10, <1>11, <2>1 DEF After
<1>17. PICK qtys : qtys = [x \in Ids |-> o[x].qty]
  OBVIOUS
<1>18. PICK end : end = EmitFrom(start, <<e>>, qtys)
  OBVIOUS
<1>19. /\ end \in Accs(KnownIn(o))
       /\ Fits(end.progress, end.stats, pending, o, n + 1)
       /\ AllLater(progress, end.progress, o)
  <2>1. \A x \in Ids : qtys[x] = o[x].qty
    BY <1>17
  <2>2. PICK seq : seq = <<e>>
    OBVIOUS
  <2>3. InTurn(seq, 1, P) /\ Len(seq) = 1 /\ After(P, seq, 1) = pending
    BY <1>15, <1>16, <2>2
  <2> QED BY <1>11, <1>13, <1>14, <1>18, <2>1, <2>2, <2>3, EmitFromKeeps
<1>20. /\ progress' = end.progress /\ stats' = end.stats /\ out' = end.out
       /\ threw' = end.threw
  <2>1. threw = FALSE
    BY DEF EngineIInv
  <2>2. EmitAll(<<e>>, s, qtys)
    BY <1>2, <1>4, <1>5, <1>9, <1>17 DEF Reject
  <2> QED BY <1>12, <1>18, <2>1, <2>2 DEF EmitAll
<1>21. /\ pending' = pending /\ holdMs' = holdMs /\ bounces' = bounces /\ lastNow' = lastNow
  BY DEF Reject
<1>22. EngineIInv'
  <2>1. end.out \in Seq(Reports(KnownIn(o))) /\ end.threw = FALSE
    BY <1>19 DEF Accs
  <2>2. Fits(progress', stats', pending', orders', submissions')
    BY <1>2, <1>4, <1>19, <1>20, <1>21
  <2> QED BY <1>2, <1>4, <1>20, <1>21, <2>1, <2>2 DEF EngineIInv
<1>23. Life!Progresses
  <2>1. \A x \in Ids : Qtys'[x] = o[x].qty
    BY <1>2 DEF Qtys
  <2> QED BY <1>4, <1>19, <1>20, <2>1 DEF AllLater, Life!Progresses
<1> QED BY <1>22, <1>23

\* submit() keeps the invariant.
LEMMA SubmitKeeps ==
  ASSUME EngineIInv, NEW id \in Ids, NEW qty \in Quantities, NEW tif \in TimeInForce,
         NEW stale \in BOOLEAN, NEW at \in Nat, Submit(id, qty, tif, stale, at)
  PROVE  EngineIInv' /\ Life!Progresses
<1>1. qty \in Nat
  BY ExecutionAssumption
<1>2. Register(id, qty, tif)
  BY DEF Submit
<1>3. CASE Reject(id, "INVALID_QTY", at)
  BY <1>1, <1>2, <1>3, RejectKeeps DEF RejectReason
<1>4. CASE Reject(id, "STALE_PRICE", at)
  BY <1>1, <1>2, <1>4, RejectKeeps DEF RejectReason
<1>5. PICK n \in Nat : n = submissions /\ submissions' = n + 1
  BY <1>2 DEF EngineIInv, Register
<1>6. at + holdMs \in Nat
  BY DEF EngineIInv
<1>7. CASE Schedule({Event(id, submissions', "REJECTED", at + holdMs, NoQty, "LAST_LOOK")})
  <2>1. PICK e : e = Event(id, n + 1, "REJECTED", at + holdMs, NoQty, "LAST_LOOK")
    OBVIOUS
  <2>2. /\ e.id = id /\ e.order = n + 1 /\ e.kind = "REJECTED"
        /\ e.rejectReason = "LAST_LOOK" /\ e \in Events
    BY <1>6, <2>1 DEF Event, Events, NoQty, RejectReason, NoReason
  <2>3. IsFiniteSet({e})
    BY FS_Singleton
  <2>4. Sane({e}) /\ Own({e}, id, n + 1)
    BY <2>2, <2>3 DEF Sane, Own, NoReason
  <2>5. Finishes(NoOrder, {e}, [qty |-> qty, tif |-> tif])
    <3>1. [qty |-> qty, tif |-> tif] # Unknown
      BY <1>1, <1>2, Registers
    <3> QED BY <2>2, <3>1 DEF Finishes, Alive, Bounces
  <2> QED BY <1>1, <1>2, <1>5, <1>7, <2>1, <2>4, <2>5, ScheduleKeeps
<1>8. CASE /\ Legal(qty)
           /\ \E fillable \in Fillable(qty, tif) : \E split \in Splits(fillable) :
                Schedule(Script(id, submissions', split, fillable < qty, at + holdMs))
  <2>1. PICK part \in Fillable(qty, tif) : \E split \in Splits(part) :
                Schedule(Script(id, submissions', split, part < qty, at + holdMs))
    BY <1>8
  <2>2. PICK split \in Splits(part) :
                Schedule(Script(id, submissions', split, part < qty, at + holdMs))
    BY <2>1
  <2>3. PICK order : order = [qty |-> qty, tif |-> tif]
    OBVIOUS
  <2>4. order \in [qty : Nat \ {0}, tif : TimeInForce] /\ order.qty = qty /\ order.tif = tif
    BY <1>1, <1>8, <2>3 DEF Legal
  <2>5. PICK S : S = Script(id, n + 1, split, part < order.qty, at + holdMs)
    OBVIOUS
  <2>6. Sane(S) /\ Own(S, id, n + 1) /\ Owes(NoOrder, S, order)
    <3>1. n + 1 \in Nat
      OBVIOUS
    <3> QED BY <1>6, <2>4, <2>5, <3>1, ScriptOwes
  <2>7. Finishes(NoOrder, S, order)
    <3>1. order # Unknown
      BY <1>1, <1>2, <2>3, Registers
    <3> QED BY <2>4, <2>6, <3>1 DEF Finishes, Alive
  <2>8. Schedule(S)
    BY <1>5, <2>2, <2>4, <2>5
  <2> QED BY <1>1, <1>2, <1>5, <2>3, <2>6, <2>7, <2>8, ScheduleKeeps
<1> QED BY <1>3, <1>4, <1>7, <1>8 DEF Submit

\* advance() keeps the invariant.
LEMMA AdvanceKeeps ==
  ASSUME EngineIInv, NEW now \in Nat, Advance(now)
  PROVE  EngineIInv' /\ Life!Progresses
<1>1. PICK due : due = {e \in pending : e.dueAt <= now}
  OBVIOUS
<1>2. /\ pending' = pending \ due /\ lastNow' = now /\ orders' = orders
      /\ submissions' = submissions /\ holdMs' = holdMs /\ bounces' = bounces
      /\ EmitAll(InDueOrder(due), stats, Qtys)
  BY <1>1 DEF Advance
<1>3. /\ Fits(progress, stats, pending, orders, submissions) /\ submissions \in Nat
      /\ threw = FALSE
  BY DEF EngineIInv
<1>4. PICK seq : seq = InDueOrder(due)
  OBVIOUS
<1>5. PICK m : m = Cardinality(due)
  OBVIOUS
<1>6. /\ m \in Nat /\ Len(seq) = m /\ InTurn(seq, m, pending)
      /\ After(pending, seq, m) = pending \ due
  <2>1. PICK P : P = pending
    OBVIOUS
  <2>2. PICK n \in Nat : n = submissions
    BY <1>3
  <2>3. EventsFit(P, n) /\ LivesFit(progress, P, orders) /\ due = DueBy(P, now)
    BY <1>1, <1>3, <2>1, <2>2 DEF Fits, DueBy
  <2>4. /\ Cardinality(due) \in Nat
        /\ Len(InDueOrder(due)) = Cardinality(due)
        /\ InTurn(InDueOrder(due), Cardinality(due), P)
        /\ After(P, InDueOrder(due), Cardinality(due)) = P \ due
    BY <2>3, DueInTurn
  <2> QED BY <1>4, <1>5, <2>1, <2>4
<1>7. PICK start : start = [progress |-> progress, stats |-> stats, out |-> << >>,
                            threw |-> FALSE]
  OBVIOUS
<1>8. start.progress = progress /\ start.stats = stats
  BY <1>7
<1>9. start \in Accs(KnownIn(orders))
  <2>1. progress \in [Ids -> Progress \cup {NoOrder}] /\ stats \in [DOMAIN NoStats -> Nat]
    BY <1>3 DEF Fits, LivesFit, CountsFit
  <2>2. << >> \in Seq(Reports(KnownIn(orders)))
    OBVIOUS
  <2> HIDE DEF NoOrder, Progress
  <2> QED BY <1>7, <2>1, <2>2 DEF Accs
<1>10. PICK end : end = EmitFrom(start, seq, Qtys)
  OBVIOUS
<1>11. /\ end \in Accs(KnownIn(orders))
       /\ Fits(end.progress, end.stats, pending \ due, orders, submissions)
       /\ AllLater(progress, end.progress, orders)
  <2>1. \A x \in Ids : Qtys[x] = orders[x].qty
    BY DEF Qtys
  <2>2. PICK q : q = Qtys
    OBVIOUS
  <2>3. PICK o : o = orders
    OBVIOUS
  <2>4. PICK P : P = pending
    OBVIOUS
  <2>5. \A x \in Ids : q[x] = o[x].qty
    BY <2>1, <2>2, <2>3
  <2>9. PICK n : n = submissions
    OBVIOUS
  <2>6. /\ start \in Accs(KnownIn(o))
        /\ Fits(start.progress, start.stats, P, o, n)
        /\ m \in Nat /\ Len(seq) = m /\ InTurn(seq, m, P)
    BY <1>3, <1>6, <1>8, <1>9, <2>3, <2>4, <2>9
  <2>7. end = EmitFrom(start, seq, q)
    BY <1>10, <2>2
  <2>8. /\ end \in Accs(KnownIn(o))
        /\ Fits(end.progress, end.stats, After(P, seq, m), o, n)
        /\ AllLater(start.progress, end.progress, o)
    BY <2>5, <2>6, <2>7, EmitFromKeeps
  <2> QED BY <1>6, <1>8, <2>3, <2>4, <2>8, <2>9
<1>12. /\ progress' = end.progress /\ stats' = end.stats /\ out' = end.out
       /\ threw' = end.threw
  BY <1>2, <1>3, <1>4, <1>7, <1>10 DEF EmitAll
<1>13. EngineIInv'
  <2>1. end.out \in Seq(Reports(KnownIn(orders))) /\ end.threw = FALSE
    BY <1>11 DEF Accs
  <2>2. Fits(progress', stats', pending', orders', submissions')
    BY <1>2, <1>11, <1>12
  <2>3. holdMs \in Nat /\ bounces \in {"never", "sometimes", "always"}
    BY DEF EngineIInv
  <2> QED BY <1>2, <1>3, <1>12, <2>1, <2>2, <2>3 DEF EngineIInv
<1>14. Life!Progresses
  <2>1. \A x \in Ids : Qtys'[x] = orders[x].qty /\ Qtys[x] = orders[x].qty
    BY <1>2 DEF Qtys
  <2> QED BY <1>11, <1>12, <2>1 DEF AllLater, Life!Progresses
<1> QED BY <1>13, <1>14

\* Nothing moves: the stutter of every life.
LEMMA QuietKeeps ==
  ASSUME EngineIInv, UNCHANGED <<orders, submissions, pending, progress, stats, threw>>,
         out' \in Seq(Reports(KnownIn(orders))), holdMs' \in Nat,
         bounces' \in {"never", "sometimes", "always"}, lastNow' \in Nat
  PROVE  EngineIInv' /\ Life!Progresses
<1>1. EngineIInv'
  BY DEF EngineIInv
<1>2. Life!Progresses
  <2>1. \A x \in Ids : Qtys'[x] = Qtys[x]
    BY DEF Qtys
  <2> QED BY <2>1 DEF Life!Progresses, Life!Later
<1> QED BY <1>1, <1>2

\* Every call keeps the invariant and is a step of OrderLife.
LEMMA EngineStep ==
  ASSUME EngineIInv, [EngineNext]_engineVars
  PROVE  EngineIInv' /\ Life!Progresses
<1>1. lastNow \in Nat /\ SubmitUntil \in Nat /\ MaxTime \in Nat
  BY ExecutionAssumption DEF EngineIInv
<1>2. ASSUME NEW id \in Ids, NEW qty \in Quantities, NEW tif \in TimeInForce,
             NEW stale \in BOOLEAN, NEW at \in lastNow..SubmitUntil,
             Submit(id, qty, tif, stale, at)
      PROVE  EngineIInv' /\ Life!Progresses
  <2>1. at \in Nat
    BY <1>1
  <2> QED BY <1>2, <2>1, SubmitKeeps
<1>3. ASSUME NEW now \in lastNow..MaxTime, Advance(now)
      PROVE  EngineIInv' /\ Life!Progresses
  <2>1. now \in Nat
    BY <1>1
  <2> QED BY <1>3, <2>1, AdvanceKeeps
<1>4. ASSUME NEW hold \in Holds, NEW rate \in {"never", "sometimes", "always"},
             SetLastLook(hold, rate)
      PROVE  EngineIInv' /\ Life!Progresses
  <2>1. hold \in Nat
    BY ExecutionAssumption
  <2> QED BY <1>1, <1>4, <2>1, QuietKeeps DEF SetLastLook
<1>5. CASE UNCHANGED engineVars
  BY <1>5, QuietKeeps DEF engineVars, EngineIInv
<1> QED BY <1>2, <1>3, <1>4, <1>5 DEF EngineNext

\* The invariant is what the runs check.
LEMMA EngineInvHolds == EngineIInv => EngineInv
<1> SUFFICES ASSUME EngineIInv PROVE EngineInv
  OBVIOUS
<1>1. /\ EventsFit(pending, submissions) /\ LivesFit(progress, pending, orders)
      /\ CountsFit(stats, progress, orders)
  BY DEF EngineIInv, Fits
<1>2. EngineTypeOK
  <2>1. Known = KnownIn(orders)
    BY DEF Known, KnownIn
  <2>2. \A i \in DOMAIN out : out[i].id \in Known
    <3>1. PICK K : K = KnownIn(orders)
      OBVIOUS
    <3>2. out \in Seq(Reports(K))
      BY <3>1 DEF EngineIInv
    <3>3. \A i \in DOMAIN out : out[i] \in Reports(K)
      BY <3>2
    <3> QED BY <2>1, <3>1, <3>3 DEF Reports
  <2> QED BY <1>1, <2>2 DEF EngineTypeOK, EngineIInv, EventsFit, LivesFit, CountsFit
<1>3. NeverThrows
  BY DEF EngineIInv, NeverThrows
<1>4. ASSUME NEW id \in Ids PROVE ScriptFinishes(id)
  <2>1. Finishes(progress[id], OfId(pending, id), orders[id])
    BY <1>1 DEF LivesFit
  <2>2. id \in Known <=> orders[id] # Unknown
    BY DEF Known
  <2> QED BY <2>1, <2>2
          DEF ScriptFinishes, Finishes, Alive, Bounces, Owes, OfKind, OfId, Fills
<1>5. LiveCountIsExact
  <2>1. LiveIn(progress, orders) = {id \in Known : progress[id].status \notin Terminal}
    BY DEF LiveIn, Alive, Known
  <2> QED BY <1>1, <2>1 DEF CountsFit, LiveCountIsExact
<1> QED BY <1>2, <1>3, <1>4, <1>5 DEF EngineInv, ScriptsFinish

\* No split, hold change, late tick or tie makes emit() throw; every script
\* left pending ends its order; the live count is the number of orders that
\* may still emit (execution.ts emit, expand; server.ts blotter).
THEOREM TheEngineNeverThrows == EngineSpec => []EngineInv
<1>1. EngineInit => EngineIInv
  BY EngineInitOK
<1>2. EngineIInv /\ [EngineNext]_engineVars => EngineIInv'
  BY EngineStep
<1>3. EngineIInv => EngineInv
  BY EngineInvHolds
<1> QED BY <1>1, <1>2, <1>3, PTL DEF EngineSpec

\* Whatever is emitted, an order is accepted or rejected once, its fills only
\* grow, and nothing follows its end (execution.ts submit, advance).
THEOREM TheEngineKeepsOrderLife == EngineSpec => KeepsOrderLife
<1>1. EngineInit => EngineIInv /\ Life!LifeInit
  BY EngineInitOK
<1>2. EngineIInv /\ [EngineNext]_engineVars
        => EngineIInv' /\ [Life!LifeNext]_(Life!lifeVars)
  BY EngineStep DEF Life!LifeNext
<1> QED BY <1>1, <1>2, PTL DEF EngineSpec, KeepsOrderLife, Life!LifeSpec

-----------------------------------------------------------------------------
(* The door: sockets and their seats, readings and their pace *)


\* The pages whose socket has a slot.
Seated == At(Open \cup Leaving)

\* What a page's sockets and the server's counters of the others are.
DoorTypeOK ==
  /\ server \in {"up", "closing", "draining", Down}
  /\ page \in [Pages -> PageState]
  /\ ghosts \in Nat /\ dying \in Nat /\ orphans \in Nat
  /\ vanished \in Nat /\ life \in Nat /\ uptime \in Nat /\ sent \in Nat /\ reseeds \in Nat

LEMMA DoorTypes == FeedDoorInv => DoorTypeOK
  BY DEF FeedDoorInv, DoorTypeOK

LEMMA SeatedIsFinite ==
  ASSUME NEW states
  PROVE  IsFiniteSet(At(states)) /\ Cardinality(At(states)) \in Nat
<1>1. At(states) \subseteq Pages /\ IsFiniteSet(Pages)
  BY DoorAssumption DEF At
<1> QED
  BY <1>1, FS_Subset, FS_CardinalityType

\* Pages that move on to a state with a slot keep it.
LEMMA KeepTheirSeats ==
  ASSUME DoorTypeOK, NEW ps, ps \subseteq Seated, NEW s \in Open \cup Leaving, page' = Becoming(ps, s)
  PROVE  /\ page' \in [Pages -> PageState]
         /\ Seated' = Seated
         /\ s # "in" => At({"in"})' = At({"in"}) \ ps
<1>1. ps \subseteq Pages
  BY DEF Seated, At
<1>2. page' \in [Pages -> PageState] /\ \A p \in Pages : page'[p] = IF p \in ps THEN s ELSE page[p]
  BY <1>1 DEF DoorTypeOK, Becoming, PageState
<1>3. Seated' = Seated
  BY <1>1, <1>2 DEF Seated, At, DoorTypeOK
<1>4. s # "in" => At({"in"})' = At({"in"}) \ ps
  BY <1>1, <1>2 DEF At, DoorTypeOK
<1> QED
  BY <1>2, <1>3, <1>4

\* A page that moves to a state without a slot frees the one it had.
LEMMA FreesItsSeat ==
  ASSUME DoorTypeOK, NEW p \in Pages, NEW s \in {"away", "stopped"}, page' = Becoming({p}, s)
  PROVE  /\ page' \in [Pages -> PageState]
         /\ Seated' = Seated \ {p}
         /\ At({"in"})' = At({"in"}) \ {p}
         /\ p \in Seated => Cardinality(Seated') = Cardinality(Seated) - 1
         /\ Cardinality(Seated') <= Cardinality(Seated)
<1>1. page' \in [Pages -> PageState] /\ \A q \in Pages : page'[q] = IF q = p THEN s ELSE page[q]
  BY DEF DoorTypeOK, Becoming, PageState
<1>2. Seated' = Seated \ {p} /\ At({"in"})' = At({"in"}) \ {p}
  BY <1>1 DEF Seated, At, DoorTypeOK, Open, Leaving
<1>3. IsFiniteSet(Seated) /\ Cardinality(Seated) \in Nat
  BY SeatedIsFinite DEF Seated
<1>4. p \in Seated => Cardinality(Seated \ {p}) = Cardinality(Seated) - 1
  BY <1>3, FS_RemoveElement
<1>5. p \notin Seated => Seated \ {p} = Seated
  OBVIOUS
<1>6. p \notin Seated => Cardinality(Seated') = Cardinality(Seated)
  BY <1>2, <1>5
<1>7. p \in Seated => Cardinality(Seated') = Cardinality(Seated) - 1
  BY <1>2, <1>4
<1>8. Cardinality(Seated') <= Cardinality(Seated)
  BY <1>3, <1>6, <1>7
<1> QED
  BY <1>1, <1>2, <1>7, <1>8

\* What a step of the door keeps, from what it does to seats and counters.
LEMMA DoorKeeps ==
  ASSUME FeedDoorInv,
         server' \in {"up", "closing", "draining", Down},
         page' \in [Pages -> PageState],
         ghosts' \in Nat, dying' \in Nat, orphans' \in Nat,
         vanished' \in Nat, life' \in Nat, uptime' \in Nat, sent' \in Nat, reseeds' \in Nat,
         Cardinality(Seated') + ghosts' + dying' + orphans' <= MaxClients,
         server' # "up" => ghosts' = 0 /\ At({"in"})' = {},
         server' = Down => Cardinality(Seated') + ghosts' + dying' + orphans' = 0
  PROVE  FeedDoorInv'
  BY DEF FeedDoorInv, Slots, Seated

\* The most one process sends in a millisecond of its clock, and in a reseed.
Pace == MaxBatch * MaxClients
Push == SnapshotSize * MaxClients

\* Readings of one process stand in an order, and what was sent between two of them
\* its ticks and reseeds account for.
PollsOK ==
  /\ readings \subseteq LoadSnapshot
  /\ Reading \in readings
  /\ \A r \in readings :
       r.life <= life /\ (r.life = life => r.uptime <= uptime /\ r.reseeds <= reseeds)
  /\ \A r, s \in readings :
       r.life = s.life /\ r.uptime < s.uptime => r.reseeds <= s.reseeds
  /\ \A r, s \in readings :
       r.life = s.life /\ r.uptime <= s.uptime /\ r.reseeds <= s.reseeds =>
         /\ r.sent <= s.sent
         /\ s.sent - r.sent <= (s.uptime - r.uptime) * Pace + (s.reseeds - r.reseeds) * Push

FeedIInv == FeedDoorInv /\ PollsOK

LEMMA FeedStarts == Init => FeedIInv
<1> SUFFICES ASSUME Init PROVE FeedIInv
  OBVIOUS
<1> USE DoorAssumption
<1>1. Seated = {} /\ At({"in"}) = {}
  BY DEF Init, Seated, At, Open, Leaving
<1>2. Cardinality(Seated) = 0
  BY <1>1, FS_EmptySet
<1>3. FeedDoorInv
  BY <1>1, <1>2 DEF Init, FeedDoorInv, Slots, Seated, PageState, Down, Open, Leaving
<1>4. PollsOK
  <2>1. (0 - 0) * Pace + (0 - 0) * Push = 0
    BY DEF Pace, Push
  <2>2. /\ readings = {Reading} /\ life = 1 /\ uptime = 0 /\ reseeds = 0
        /\ Reading.uptime = 0 /\ Reading.sent = 0 /\ Reading.life = 1 /\ Reading.reseeds = 0
        /\ Reading \in LoadSnapshot
    BY DEF Init, Reading, LoadSnapshot
  <2> QED
    BY <2>1, <2>2 DEF PollsOK
<1> QED
  BY <1>3, <1>4 DEF FeedIInv

LEMMA EnterKeeps ==
  ASSUME FeedDoorInv, NEW p \in Pages, Enter(p)
  PROVE  FeedDoorInv'
<1> USE DoorAssumption
<1>1. DoorTypeOK /\ page[p] = "away" /\ server \in {"up", "closing"} /\ server' = server
      /\ page' = Becoming({p}, IF server = "up" THEN "in" ELSE "late")
      /\ UNCHANGED <<ghosts, dying, orphans, vanished, life, uptime, sent, reseeds>>
  BY DoorTypes DEF Enter, countVars
<1>2. HasRoom
  BY DEF Enter, UpgradeStatus
<1> DEFINE s == IF server = "up" THEN "in" ELSE "late"
<1>3. page' \in [Pages -> PageState] /\ \A q \in Pages : page'[q] = IF q = p THEN s ELSE page[q]
  BY <1>1 DEF DoorTypeOK, Becoming, PageState, Open
<1>4. Seated' = Seated \cup {p} /\ p \notin Seated
  BY <1>1, <1>3 DEF Seated, At, Open, Leaving
<1>5. Cardinality(Seated') = Cardinality(Seated) + 1
  BY <1>4, SeatedIsFinite, FS_AddElement DEF Seated
<1>6. server' # "up" => At({"in"})' = {}
  BY <1>1, <1>3 DEF FeedDoorInv, At
<1>7. Cardinality(Seated) + ghosts + dying + orphans < MaxClients
  BY <1>2 DEF HasRoom, Slots, Seated
<1>8. Cardinality(Seated) \in Nat
  BY SeatedIsFinite DEF Seated
<1>9. server' # Down
  BY <1>1 DEF Down
<1>10. Cardinality(Seated') + ghosts' + dying' + orphans' <= MaxClients
  BY <1>1, <1>5, <1>7, <1>8 DEF DoorTypeOK
<1>11. server' # "up" => ghosts' = 0
  BY <1>1 DEF FeedDoorInv
<1> QED
  BY <1>1, <1>3, <1>6, <1>9, <1>10, <1>11, DoorKeeps DEF DoorTypeOK

LEMMA LeaveKeeps ==
  ASSUME FeedDoorInv, NEW p \in Pages, Leave(p) \/ Hear(p) \/ Resume(p)
  PROVE  FeedDoorInv'
<1> USE DoorAssumption
<1>1. DoorTypeOK
  BY DoorTypes
<1>2. /\ server' = server
      /\ UNCHANGED <<ghosts, dying, orphans, vanished, life, uptime, sent, reseeds>>
      /\ \E s \in {"away", "stopped"} : page' = Becoming({p}, s)
  BY DEF Leave, Hear, Resume, countVars
<1>3. PICK s \in {"away", "stopped"} : page' = Becoming({p}, s)
  BY <1>2
<1>4. /\ page' \in [Pages -> PageState]
      /\ At({"in"})' = At({"in"}) \ {p}
      /\ Cardinality(Seated') <= Cardinality(Seated)
  BY <1>1, <1>3, FreesItsSeat
<1>5. Cardinality(Seated) \in Nat /\ Cardinality(Seated') \in Nat
  <2>1. IsFiniteSet(Seated')
    BY <1>1, <1>3, SeatedIsFinite, FS_Subset, FreesItsSeat DEF Seated
  <2> QED
    BY <2>1, SeatedIsFinite, FS_CardinalityType DEF Seated
<1>6. /\ Cardinality(Seated) + ghosts + dying + orphans <= MaxClients
      /\ server = Down => Cardinality(Seated) + ghosts + dying + orphans = 0
      /\ server # "up" => ghosts = 0 /\ At({"in"}) = {}
  BY DEF FeedDoorInv, Slots, Seated
<1>7. /\ Cardinality(Seated') + ghosts' + dying' + orphans' <= MaxClients
      /\ server' = Down => Cardinality(Seated') + ghosts' + dying' + orphans' = 0
  <2>1. server' = server /\ ghosts' = ghosts /\ dying' = dying /\ orphans' = orphans
    BY <1>2
  <2>2. ghosts \in Nat /\ dying \in Nat /\ orphans \in Nat
    BY <1>1 DEF DoorTypeOK
  <2>3. PICK seats \in Nat, now \in Nat : seats = Cardinality(Seated') /\ now = Cardinality(Seated)
    BY <1>5
  <2>4. seats <= now
    BY <1>4, <2>3
  <2>5. seats + ghosts + dying + orphans <= now + ghosts + dying + orphans
    BY <2>2, <2>4
  <2>6. /\ seats + ghosts + dying + orphans <= MaxClients
        /\ server = Down => seats + ghosts + dying + orphans = 0
    BY <1>6, <2>2, <2>3, <2>5
  <2> QED
    BY <2>1, <2>3, <2>6
<1>8. server' # "up" => ghosts' = 0 /\ At({"in"})' = {}
  BY <1>2, <1>4, <1>6
<1> QED
  BY <1>1, <1>2, <1>4, <1>7, <1>8, DoorKeeps DEF DoorTypeOK

LEMMA VanishKeeps ==
  ASSUME FeedDoorInv, NEW p \in Pages, Vanish(p)
  PROVE  FeedDoorInv'
<1> USE DoorAssumption
<1>1. DoorTypeOK
  BY DoorTypes
<1>2. /\ server' = server /\ UNCHANGED <<life, uptime, sent, reseeds>> /\ vanished' = vanished + 1
      /\ page' = Becoming({p}, "away") /\ p \in Seated
      /\ ghosts' = IF page[p] = "in" THEN ghosts + 1 ELSE ghosts
      /\ orphans' = IF page[p] = "late" THEN orphans + 1 ELSE orphans
      /\ dying' = IF page[p] \in Leaving THEN dying + 1 ELSE dying
  BY DEF Vanish, countVars, Seated, At
<1>3. /\ page' \in [Pages -> PageState]
      /\ At({"in"})' = At({"in"}) \ {p}
      /\ Cardinality(Seated') = Cardinality(Seated) - 1
  BY <1>1, <1>2, FreesItsSeat
<1>4. /\ Cardinality(Seated) + ghosts + dying + orphans <= MaxClients
      /\ server = Down => Cardinality(Seated) + ghosts + dying + orphans = 0
      /\ server # "up" => ghosts = 0 /\ At({"in"}) = {}
  BY DEF FeedDoorInv, Slots, Seated
<1>5. ghosts' + dying' + orphans' = ghosts + dying + orphans + 1
  BY <1>1, <1>2 DEF DoorTypeOK, Seated, At, Open, Leaving
<1>6. Cardinality(Seated) \in Nat
  BY SeatedIsFinite DEF Seated
<1>7. /\ ghosts' \in Nat /\ dying' \in Nat /\ orphans' \in Nat
  BY <1>1, <1>2 DEF DoorTypeOK
<1>8. /\ Cardinality(Seated') + ghosts' + dying' + orphans' <= MaxClients
      /\ server' = Down => Cardinality(Seated') + ghosts' + dying' + orphans' = 0
  BY <1>1, <1>2, <1>3, <1>4, <1>5, <1>6, <1>7 DEF DoorTypeOK
<1>9. server' # "up" => ghosts' = 0 /\ At({"in"})' = {}
  BY <1>2, <1>3, <1>4 DEF At
<1>10. server' \in {"up", "closing", "draining", Down}
       /\ vanished' \in Nat /\ life' \in Nat /\ uptime' \in Nat /\ sent' \in Nat /\ reseeds' \in Nat
  BY <1>1, <1>2 DEF DoorTypeOK
<1> QED
  BY <1>3, <1>7, <1>8, <1>9, <1>10, DoorKeeps

LEMMA SpeakKeeps ==
  ASSUME FeedDoorInv, NEW p \in Pages, Speak(p)
  PROVE  FeedDoorInv'
<1>1. DoorTypeOK
  BY DoorTypes
<1>2. /\ server' = server /\ UNCHANGED <<ghosts, dying, orphans, vanished, life, uptime, sent, reseeds>>
      /\ page' = Becoming({p}, "dismissed") /\ {p} \subseteq Seated
  BY DEF Speak, countVars, Seated, At
<1>3. page' \in [Pages -> PageState] /\ Seated' = Seated /\ At({"in"})' = At({"in"}) \ {p}
  <2>1. "dismissed" \in Open \cup Leaving /\ "dismissed" # "in"
    BY DEF Leaving
  <2> QED
    BY <1>1, <1>2, <2>1, KeepTheirSeats
<1> QED
  BY <1>1, <1>2, <1>3 DEF FeedDoorInv, Slots, Seated

LEMMA GiveUpKeeps ==
  ASSUME FeedDoorInv, GiveUp
  PROVE  FeedDoorInv'
<1>1. DoorTypeOK /\ Cardinality(Seated) \in Nat
  BY DoorTypes, SeatedIsFinite DEF Seated
<1>2. /\ server' = server /\ UNCHANGED <<page, ghosts, orphans, vanished, life, uptime, sent, reseeds>>
      /\ dying > 0 /\ dying' = dying - 1
  BY DEF GiveUp, countVars
<1>3. Seated' = Seated /\ At({"in"})' = At({"in"})
  BY <1>2 DEF Seated, At
<1>4. /\ Cardinality(Seated) + ghosts + dying + orphans <= MaxClients
      /\ server = Down => Cardinality(Seated) + ghosts + dying + orphans = 0
      /\ server # "up" => ghosts = 0 /\ At({"in"}) = {}
  BY DEF FeedDoorInv, Slots, Seated
<1>5. /\ Cardinality(Seated') + ghosts' + dying' + orphans' <= MaxClients
      /\ server' # Down
  BY <1>1, <1>2, <1>3, <1>4, DoorAssumption DEF DoorTypeOK
<1> QED
  BY <1>1, <1>2, <1>3, <1>4, <1>5, DoorKeeps DEF DoorTypeOK

\* Sockets whose page moves or is gone change their state, not their number.
LEMMA MovingKeeps ==
  ASSUME FeedDoorInv, NEW ps, ps \subseteq Seated, NEW s \in Leaving, page' = Becoming(ps, s),
         NEW k \in 0..ghosts, NEW j \in 0..orphans,
         ghosts' = ghosts - k, orphans' = orphans - j, dying' = dying + k + j,
         server' = server \/ (server = "up" /\ server' = "closing" /\ k = ghosts /\ At({"in"}) \subseteq ps),
         vanished' = vanished, life' = life, uptime' \in Nat, sent' \in Nat, reseeds' \in Nat
  PROVE  FeedDoorInv'
<1>1. DoorTypeOK /\ Cardinality(Seated) \in Nat
  BY DoorTypes, SeatedIsFinite DEF Seated
<1>2. page' \in [Pages -> PageState] /\ Seated' = Seated /\ At({"in"})' = At({"in"}) \ ps
  BY <1>1, KeepTheirSeats DEF Leaving
<1>3. /\ Cardinality(Seated) + ghosts + dying + orphans <= MaxClients
      /\ server = Down => Cardinality(Seated) + ghosts + dying + orphans = 0
      /\ server # "up" => ghosts = 0 /\ At({"in"}) = {}
  BY DEF FeedDoorInv, Slots, Seated
<1>4. ghosts' \in Nat /\ orphans' \in Nat /\ dying' \in Nat
      /\ ghosts' + dying' + orphans' = ghosts + dying + orphans
  BY <1>1 DEF DoorTypeOK
<1>5. server' \in {"up", "closing", "draining", Down} /\ (server' = Down => server = Down)
  BY <1>1 DEF DoorTypeOK, Down
<1>6. /\ Cardinality(Seated') + ghosts' + dying' + orphans' <= MaxClients
      /\ server' = Down => Cardinality(Seated') + ghosts' + dying' + orphans' = 0
  BY <1>1, <1>2, <1>3, <1>4, <1>5, DoorAssumption DEF DoorTypeOK
<1>7. server' # "up" => ghosts' = 0 /\ At({"in"})' = {}
  BY <1>1, <1>2, <1>3 DEF DoorTypeOK
<1> QED
  BY <1>1, <1>2, <1>4, <1>5, <1>6, <1>7, DoorKeeps DEF DoorTypeOK

LEMMA TickKeeps ==
  ASSUME FeedDoorInv, NEW n \in 1..MaxBatch, NEW slow \in SUBSET At({"in"}), NEW k \in 0..ghosts,
         Tick(n, slow, k)
  PROVE  /\ FeedDoorInv'
         /\ sent' \in Nat /\ sent <= sent' /\ sent' - sent <= MaxBatch * MaxClients
         /\ uptime' = uptime + 1
<1> USE DoorAssumption
<1>1. DoorTypeOK /\ Cardinality(Seated) \in Nat
  BY DoorTypes, SeatedIsFinite DEF Seated
<1>2. /\ server' = server /\ server = "up" /\ page' = Becoming(slow, "bounced")
      /\ ghosts' = ghosts - k /\ dying' = dying + k /\ uptime' = uptime + 1
      /\ sent' = sent + n * (Cardinality(At({"in"}) \ slow) + ghosts - k)
      /\ UNCHANGED <<orphans, vanished, life, reseeds>>
  BY DEF Tick
<1> DEFINE told == Cardinality(At({"in"}) \ slow)
<1>3. told \in Nat /\ told <= Cardinality(Seated)
  <2>1. At({"in"}) \ slow \subseteq Seated
    BY DEF At, Seated, Open
  <2> QED
    BY <2>1, SeatedIsFinite, FS_Subset, FS_CardinalityType DEF Seated
<1>4. Cardinality(Seated) + ghosts + dying + orphans <= MaxClients
  BY DEF FeedDoorInv, Slots, Seated
<1> HIDE DEF told
<1>5. PICK c \in Nat : c = told + ghosts - k
  BY <1>1, <1>3 DEF DoorTypeOK
<1>6. c <= MaxClients
  BY <1>1, <1>3, <1>4, <1>5 DEF DoorTypeOK
<1>7. sent' = sent + n * c
  BY <1>2, <1>5 DEF told
<1>8. n * c \in Nat /\ n * c <= MaxBatch * c /\ MaxBatch * c <= MaxBatch * MaxClients
  BY <1>6
<1>9. sent' \in Nat /\ sent <= sent' /\ sent' - sent <= MaxBatch * MaxClients
  BY <1>1, <1>7, <1>8 DEF DoorTypeOK
<1>10. FeedDoorInv'
  <2>1. slow \subseteq Seated /\ "bounced" \in Leaving
    BY DEF At, Seated, Open, Leaving
  <2>2. 0 \in 0..orphans /\ orphans' = orphans - 0 /\ dying' = dying + k + 0 /\ uptime' \in Nat
      /\ reseeds' \in Nat
    BY <1>1, <1>2 DEF DoorTypeOK
  <2> QED
    BY <1>2, <1>9, <2>1, <2>2, MovingKeeps
<1> QED
  BY <1>2, <1>9, <1>10

LEMMA SweepKeeps ==
  ASSUME FeedDoorInv, NEW old \in SUBSET At({"in"}), NEW k \in 0..ghosts, Sweep(old, k)
  PROVE  FeedDoorInv'
<1>1. DoorTypeOK
  BY DoorTypes
<1>2. /\ server' = server /\ page' = Becoming(old, "dismissed")
      /\ ghosts' = ghosts - k /\ dying' = dying + k
      /\ UNCHANGED <<orphans, vanished, life, uptime, sent, reseeds>>
  BY DEF Sweep, countVars
<1>3. old \subseteq Seated /\ "dismissed" \in Leaving
  BY DEF At, Seated, Open, Leaving
<1>4. 0 \in 0..orphans /\ orphans' = orphans - 0 /\ dying' = dying + k + 0
      /\ uptime' \in Nat /\ sent' \in Nat /\ reseeds' \in Nat
  BY <1>1, <1>2 DEF DoorTypeOK
<1> QED
  BY <1>2, <1>3, <1>4, MovingKeeps

LEMMA DisconnectAllKeeps ==
  ASSUME FeedDoorInv, NEW graceful \in BOOLEAN, Disconnect(graceful)
  PROVE  FeedDoorInv'
<1>1. DoorTypeOK
  BY DoorTypes
<1> DEFINE s == IF graceful THEN "dismissed" ELSE "bounced"
<1>2. /\ server' = server /\ page' = Becoming(At(Open), s)
      /\ ghosts' = 0 /\ orphans' = 0 /\ dying' = dying + ghosts + orphans
      /\ UNCHANGED <<vanished, life, uptime, sent, reseeds>>
  BY DEF Disconnect, countVars
<1>3. At(Open) \subseteq Seated /\ s \in Leaving
  BY DEF At, Seated, Leaving
<1>4. /\ ghosts \in 0..ghosts /\ orphans \in 0..orphans
      /\ ghosts' = ghosts - ghosts /\ orphans' = orphans - orphans
      /\ uptime' \in Nat /\ sent' \in Nat /\ reseeds' \in Nat
  BY <1>1, <1>2 DEF DoorTypeOK
<1> HIDE DEF s
<1> QED
  BY <1>2, <1>3, <1>4, MovingKeeps

LEMMA CloseKeeps ==
  ASSUME FeedDoorInv, Close
  PROVE  FeedDoorInv'
<1>1. DoorTypeOK
  BY DoorTypes
<1>2. /\ server = "up" /\ server' = "closing" /\ page' = Becoming(At({"in"}), "dismissed")
      /\ ghosts' = 0 /\ dying' = dying + ghosts
      /\ UNCHANGED <<orphans, vanished, life, uptime, sent, reseeds>>
  BY DEF Close, countVars
<1>3. At({"in"}) \subseteq Seated /\ "dismissed" \in Leaving
  BY DEF At, Seated, Open, Leaving
<1>4. /\ ghosts \in 0..ghosts /\ 0 \in 0..orphans
      /\ ghosts' = ghosts - ghosts /\ orphans' = orphans - 0 /\ dying' = dying + ghosts + 0
      /\ uptime' \in Nat /\ sent' \in Nat /\ reseeds' \in Nat
  BY <1>1, <1>2 DEF DoorTypeOK
<1> QED
  BY <1>2, <1>3, <1>4, MovingKeeps

LEMMA ProcessKeeps ==
  ASSUME FeedDoorInv, WarmClosed \/ Exit \/ Restart
  PROVE  FeedDoorInv'
<1>1. CASE WarmClosed
  BY <1>1 DEF WarmClosed, FeedDoorInv, doorVars, countVars, Slots, At, Down
<1>2. CASE Exit
  BY <1>2 DEF Exit, FeedDoorInv, doorVars, countVars, Slots, At, Down
<1>3. CASE Restart
  BY <1>3 DEF Restart, FeedDoorInv, doorVars, countVars, Slots, At, Down
<1> QED
  BY <1>1, <1>2, <1>3

LEMMA CrashKeeps ==
  ASSUME FeedDoorInv, Crash
  PROVE  FeedDoorInv'
<1> USE DoorAssumption
<1>1. DoorTypeOK
  BY DoorTypes
<1>2. /\ server' = Down /\ ghosts' = 0 /\ dying' = 0 /\ orphans' = 0
      /\ UNCHANGED <<vanished, life, uptime, sent, reseeds>>
  BY DEF Crash, countVars
<1>3. page' \in [Pages -> PageState] /\ \A p \in Pages : page'[p] \in {"stopped", "away"}
  BY DEF Crash, PageState
<1>4. Seated' = {} /\ At({"in"})' = {}
  BY <1>3 DEF Seated, At, Open, Leaving
<1>5. Cardinality(Seated') = 0
  BY <1>4, FS_EmptySet
<1>6. Cardinality(Seated') + ghosts' + dying' + orphans' = 0
  BY <1>2, <1>5
<1>7. server' \in {"up", "closing", "draining", Down} /\ ghosts' \in Nat /\ dying' \in Nat /\ orphans' \in Nat
       /\ vanished' \in Nat /\ life' \in Nat /\ uptime' \in Nat /\ sent' \in Nat /\ reseeds' \in Nat
  BY <1>1, <1>2 DEF DoorTypeOK
<1> QED
  BY <1>2, <1>3, <1>4, <1>6, <1>7, DoorKeeps

\* A reseed counts a whole book for each open socket, of which there are no more
\* than slots.
LEMMA NewBookKeeps ==
  ASSUME FeedDoorInv, Reseed
  PROVE  /\ FeedDoorInv'
         /\ sent' \in Nat /\ sent <= sent' /\ sent' - sent <= SnapshotSize * MaxClients
<1> USE DoorAssumption
<1>1. DoorTypeOK /\ Cardinality(Seated) \in Nat
  BY DoorTypes, SeatedIsFinite DEF Seated
<1>2. /\ sent' = sent + SnapshotSize * (Cardinality(At(Open)) + ghosts + orphans)
      /\ reseeds' = reseeds + 1
      /\ UNCHANGED <<server, page, ghosts, dying, orphans, vanished, life, uptime>>
  BY DEF Reseed, doorVars
<1>3. Cardinality(At(Open)) \in Nat /\ Cardinality(At(Open)) <= Cardinality(Seated)
  <2>1. At(Open) \subseteq Seated
    BY DEF At, Seated
  <2> QED
    BY <2>1, SeatedIsFinite, FS_Subset, FS_CardinalityType DEF Seated
<1>4. Cardinality(Seated) + ghosts + dying + orphans <= MaxClients
  BY DEF FeedDoorInv, Slots, Seated
<1>5. PICK c \in Nat : c = Cardinality(At(Open)) + ghosts + orphans
  BY <1>1, <1>3 DEF DoorTypeOK
<1>6. c <= MaxClients
  BY <1>1, <1>3, <1>4, <1>5 DEF DoorTypeOK
<1>7. SnapshotSize * c \in Nat /\ SnapshotSize * c <= SnapshotSize * MaxClients
  BY <1>6
<1>8. sent' \in Nat /\ sent <= sent' /\ sent' - sent <= SnapshotSize * MaxClients
  BY <1>1, <1>2, <1>5, <1>7 DEF DoorTypeOK
<1>9. reseeds' \in Nat
  BY <1>1, <1>2 DEF DoorTypeOK
<1>10. FeedDoorInv'
  BY <1>2, <1>8, <1>9 DEF FeedDoorInv, Slots, At
<1> QED
  BY <1>8, <1>10

LEMMA FeedDoorKeeps ==
  ASSUME FeedDoorInv, [Next]_vars
  PROVE  FeedDoorInv'
<1>1. CASE UNCHANGED vars
  BY <1>1 DEF vars, FeedDoorInv, doorVars, countVars, Slots, At
<1>2. CASE Crash \/ Close \/ GiveUp
  BY <1>2, CrashKeeps, CloseKeeps, GiveUpKeeps
<1>3. CASE WarmClosed \/ Exit \/ Restart
  BY <1>3, ProcessKeeps
<1>4. CASE \E p \in Pages : Enter(p) \/ Leave(p) \/ Vanish(p) \/ Hear(p) \/ Resume(p) \/ Speak(p)
  BY <1>4, EnterKeeps, LeaveKeeps, VanishKeeps, SpeakKeeps
<1>5. CASE \E n \in 1..MaxBatch, slow \in SUBSET At({"in"}), k \in 0..ghosts : Tick(n, slow, k)
  BY <1>5, TickKeeps
<1>6. CASE \E old \in SUBSET At({"in"}), k \in 0..ghosts : Sweep(old, k)
  BY <1>6, SweepKeeps
<1>7. CASE \E graceful \in BOOLEAN : Disconnect(graceful)
  BY <1>7, DisconnectAllKeeps
<1>8. CASE Reseed
  BY <1>8, NewBookKeeps
<1> QED
  BY <1>1, <1>2, <1>3, <1>4, <1>5, <1>6, <1>7, <1>8 DEF Next

\* A reading after those of its process, with no more sent than its tick or its
\* reseed accounts for, continues them.
LEMMA NewPolls ==
  ASSUME FeedIInv, NEW du \in Nat, NEW dr \in Nat,
         uptime' = uptime + du, reseeds' = reseeds + dr, life' = life,
         sent' \in Nat, sent <= sent', sent' - sent <= du * Pace + dr * Push,
         readings' = readings \cup {Reading'}
  PROVE  PollsOK'
<1>1. DoorTypeOK /\ PollsOK
  BY DoorTypes DEF FeedIInv
<1> DEFINE new == Reading'
<1>2. PICK more \in Nat, push \in Nat : more = Pace /\ push = Push
  BY DoorAssumption DEF Pace, Push
<1>3. /\ uptime \in Nat /\ sent \in Nat /\ reseeds \in Nat /\ life \in Nat
      /\ sent' - sent <= du * more + dr * push
  BY <1>1, <1>2 DEF DoorTypeOK
<1>4. /\ Reading \in readings /\ \A r \in readings : r \in LoadSnapshot
      /\ Reading.uptime = uptime /\ Reading.sent = sent /\ Reading.life = life
      /\ Reading.reseeds = reseeds
  BY <1>1 DEF PollsOK, Reading
<1>5. /\ new \in LoadSnapshot /\ new.uptime = uptime + du /\ new.sent = sent' /\ new.life = life
      /\ new.reseeds = reseeds + dr
  BY <1>3 DEF LoadSnapshot, Reading
<1>6. readings' = readings \cup {new}
  OBVIOUS
<1> HIDE DEF new
<1>7. \A r \in readings :
        /\ r.uptime \in Nat /\ r.sent \in Nat /\ r.reseeds \in Nat
        /\ r.life <= life
        /\ r.life = life => r.uptime <= uptime /\ r.reseeds <= reseeds
  BY <1>1, <1>4 DEF PollsOK, LoadSnapshot
<1>8. \A r \in readings' :
        r.life <= life' /\ (r.life = life' => r.uptime <= uptime' /\ r.reseeds <= reseeds')
  BY <1>3, <1>5, <1>6, <1>7
<1>9. ASSUME NEW r \in readings', NEW s \in readings', r.life = s.life, r.uptime < s.uptime
      PROVE  r.reseeds <= s.reseeds
  <2>1. CASE r \in readings /\ s \in readings
    BY <1>1, <1>9, <2>1 DEF PollsOK
  <2>2. CASE s = new
    BY <1>3, <1>5, <1>6, <1>7, <1>9, <2>2
  <2>3. CASE r = new /\ s \in readings
    BY <1>3, <1>5, <1>7, <1>9, <2>3
  <2> QED
    BY <1>6, <2>1, <2>2, <2>3
<1>10. ASSUME NEW r \in readings', NEW s \in readings',
              r.life = s.life, r.uptime <= s.uptime, r.reseeds <= s.reseeds
       PROVE  /\ r.sent <= s.sent
              /\ s.sent - r.sent <= (s.uptime - r.uptime) * more + (s.reseeds - r.reseeds) * push
  <2>1. CASE r \in readings /\ s \in readings
    BY <1>1, <1>2, <1>10, <2>1 DEF PollsOK
  <2>2. CASE r = new /\ s = new
    <3>1. (s.uptime - r.uptime) * more = 0 /\ (s.reseeds - r.reseeds) * push = 0
      BY <1>3, <1>5, <2>2
    <3> QED
      BY <1>5, <2>2, <3>1
  <2>3. CASE r = new /\ s \in readings
    <3>1. s.life = life /\ s.uptime = uptime /\ s.reseeds = reseeds /\ du = 0 /\ dr = 0
      BY <1>3, <1>5, <1>7, <1>10, <2>3
    <3>2. s.sent >= sent
      BY <1>1, <1>3, <1>4, <2>3, <3>1 DEF PollsOK
    <3>3. s.sent <= sent
      BY <1>1, <1>3, <1>4, <2>3, <3>1 DEF PollsOK
    <3>4. 0 * more + 0 * push = 0
      OBVIOUS
    <3>5. sent' - sent <= 0
      BY <1>2, <3>1, <3>4
    <3>6. sent' = sent /\ s.sent = sent
      <4>1. PICK z \in Nat, y \in Nat : z = sent' /\ y = s.sent
        BY <1>7, <2>3
      <4>2. sent <= z /\ z - sent <= 0 /\ y >= sent /\ y <= sent
        BY <3>2, <3>3, <3>5, <4>1
      <4>3. sent \in Nat
        BY <1>3
      <4>4. z = sent /\ y = sent
        BY <4>2, <4>3
      <4> QED
        BY <4>1, <4>4
    <3>7. s.sent = r.sent /\ s.uptime = r.uptime /\ s.reseeds = r.reseeds
      BY <1>3, <1>5, <2>3, <3>1, <3>6
    <3>8. s.sent - r.sent = 0 /\ s.uptime - r.uptime = 0 /\ s.reseeds - r.reseeds = 0
      BY <1>7, <2>3, <3>7
    <3>9. r.sent = sent /\ s.sent = sent
      BY <3>6, <3>7
    <3>10. (s.uptime - r.uptime) * more + (s.reseeds - r.reseeds) * push = 0
      BY <3>4, <3>8
    <3>11. sent <= sent /\ sent - sent <= 0
      BY <1>3
    <3> QED
      BY <3>9, <3>10, <3>11
  <2>4. CASE r \in readings /\ s = new
    <3>1. r.life = life /\ r.uptime <= uptime /\ r.reseeds <= reseeds
      BY <1>5, <1>7, <1>10, <2>4
    <3>2. /\ r.sent <= sent
          /\ sent - r.sent <= (uptime - r.uptime) * more + (reseeds - r.reseeds) * push
      BY <1>1, <1>2, <1>4, <2>4, <3>1 DEF PollsOK
    <3>3. PICK d \in Int, e \in Int : d = uptime - r.uptime /\ e = reseeds - r.reseeds
      BY <1>3, <1>7, <2>4
    <3>4. PICK dm \in Int, em \in Int : dm = d * more /\ em = e * push
      BY <1>2
    <3>5. PICK am \in Int, bm \in Int : am = du * more /\ bm = dr * push
      BY <1>2
    <3>6. (d + du) * more = dm + am /\ (e + dr) * push = em + bm
      BY <1>2, <3>4, <3>5
    <3>7. s.uptime - r.uptime = d + du /\ s.reseeds - r.reseeds = e + dr
      BY <1>3, <1>5, <1>7, <2>4, <3>3
    <3>8. sent' - r.sent <= (dm + am) + (em + bm)
      <4>1. sent - r.sent <= dm + em
        BY <3>2, <3>3, <3>4
      <4>2. sent' - sent <= am + bm
        BY <1>3, <3>5
      <4>3. PICK y \in Nat : y = r.sent
        BY <1>7, <2>4
      <4>4. PICK z \in Nat : z = sent'
        OBVIOUS
      <4>5. sent - y <= dm + em /\ z - sent <= am + bm
        BY <4>1, <4>2, <4>3, <4>4
      <4>6. z - y <= (dm + am) + (em + bm)
        BY <1>3, <4>5
      <4> QED
        BY <4>3, <4>4, <4>6
    <3> QED
      BY <1>3, <1>5, <1>7, <2>4, <3>2, <3>6, <3>7, <3>8
  <2> QED
    BY <1>6, <2>1, <2>2, <2>3, <2>4
<1>11. readings' \subseteq LoadSnapshot
  BY <1>1, <1>5, <1>6 DEF PollsOK
<1>12. Pace' = more /\ Push' = push
  BY <1>2 DEF Pace, Push
<1> QED
  BY <1>8, <1>9, <1>10, <1>11, <1>12 DEF PollsOK

\* A tick's reading continues those of its process.
LEMMA TickPolls ==
  ASSUME FeedIInv, NEW n \in 1..MaxBatch, NEW slow \in SUBSET At({"in"}), NEW k \in 0..ghosts,
         Tick(n, slow, k)
  PROVE  PollsOK'
<1>1. /\ sent' \in Nat /\ sent <= sent' /\ sent' - sent <= Pace /\ uptime' = uptime + 1
  BY TickKeeps DEF FeedIInv, Pace
<1>2. /\ life' = life /\ reseeds' = reseeds
      /\ readings' = readings \cup {Reading'}
  BY DEF Tick
<1>3. reseeds' = reseeds + 0
  BY <1>2, DoorTypes DEF FeedIInv, DoorTypeOK
<1>4. 1 * Pace + 0 * Push = Pace
  BY DoorAssumption DEF Pace, Push
<1> QED
  BY <1>1, <1>2, <1>3, <1>4, NewPolls

\* A reseed's reading continues those of its process.
LEMMA ReseedPolls ==
  ASSUME FeedIInv, Reseed
  PROVE  PollsOK'
<1>1. sent' \in Nat /\ sent <= sent' /\ sent' - sent <= Push
  BY NewBookKeeps DEF FeedIInv, Push
<1>2. /\ life' = life /\ uptime' = uptime /\ reseeds' = reseeds + 1
      /\ readings' = readings \cup {Reading'}
  BY DEF Reseed
<1>3. uptime' = uptime + 0
  BY <1>2, DoorTypes DEF FeedIInv, DoorTypeOK
<1>4. 0 * Pace + 1 * Push = Push
  BY DoorAssumption DEF Pace, Push
<1> QED
  BY <1>1, <1>2, <1>3, <1>4, NewPolls

\* The first reading of a new process is the only one of its life.
LEMMA RestartPolls ==
  ASSUME FeedIInv, Restart
  PROVE  PollsOK'
<1>1. DoorTypeOK /\ PollsOK
  BY DoorTypes DEF FeedIInv
<1> DEFINE new == Reading'
<1>2. /\ life' = life + 1 /\ uptime' = 0 /\ sent' = 0 /\ reseeds' = 0
      /\ readings' = readings \cup {new}
  BY DEF Restart
<1>3. /\ new \in LoadSnapshot /\ new.uptime = 0 /\ new.sent = 0 /\ new.life = life + 1
      /\ new.reseeds = 0
  BY <1>1, <1>2 DEF LoadSnapshot, DoorTypeOK, Reading
<1>4. Reading' \in readings'
  BY <1>2
<1> HIDE DEF new
<1>5. \A r \in readings : r \in LoadSnapshot /\ r.life <= life /\ r.life # life + 1
  BY <1>1 DEF PollsOK, LoadSnapshot, DoorTypeOK
<1>6. \A r \in readings' :
        r.life <= life' /\ (r.life = life' => r.uptime <= uptime' /\ r.reseeds <= reseeds')
  BY <1>1, <1>2, <1>3, <1>5 DEF LoadSnapshot, DoorTypeOK
<1>7. 0 * Pace + 0 * Push = 0 /\ Pace' = Pace /\ Push' = Push
  BY DoorAssumption DEF Pace, Push
<1>8. ASSUME NEW r \in readings', NEW s \in readings', r.life = s.life
      PROVE  \/ r \in readings /\ s \in readings
             \/ r = new /\ s = new
  BY <1>2, <1>3, <1>5, <1>8
<1>9. ASSUME NEW r \in readings', NEW s \in readings', r.life = s.life, r.uptime < s.uptime
      PROVE  r.reseeds <= s.reseeds
  BY <1>1, <1>3, <1>8, <1>9 DEF PollsOK
<1>10. ASSUME NEW r \in readings', NEW s \in readings',
              r.life = s.life, r.uptime <= s.uptime, r.reseeds <= s.reseeds
       PROVE  /\ r.sent <= s.sent
              /\ s.sent - r.sent <= (s.uptime - r.uptime) * Pace + (s.reseeds - r.reseeds) * Push
  <2>1. CASE r \in readings /\ s \in readings
    BY <1>1, <1>10, <2>1 DEF PollsOK
  <2>2. CASE r = new /\ s = new
    <3>1. s.uptime - r.uptime = 0 /\ s.reseeds - r.reseeds = 0 /\ s.sent = 0 /\ r.sent = 0
      BY <1>3, <2>2
    <3> QED
      BY <1>7, <3>1
  <2> QED
    BY <1>8, <1>10, <2>1, <2>2
<1>11. readings' \subseteq LoadSnapshot
  BY <1>1, <1>2, <1>3 DEF PollsOK
<1> QED
  BY <1>4, <1>6, <1>7, <1>9, <1>10, <1>11 DEF PollsOK

LEMMA FeedSteps ==
  ASSUME FeedIInv, [Next]_vars
  PROVE  FeedIInv'
<1>1. UNCHANGED <<life, uptime, sent, reseeds, readings>> => PollsOK'
  BY DEF FeedIInv, PollsOK, Reading, Pace, Push
<1>2. FeedDoorInv'
  BY FeedDoorKeeps DEF FeedIInv
<1>3. CASE \E n \in 1..MaxBatch, slow \in SUBSET At({"in"}), k \in 0..ghosts : Tick(n, slow, k)
  BY <1>2, <1>3, TickPolls DEF FeedIInv
<1>4. CASE Restart
  BY <1>2, <1>4, RestartPolls DEF FeedIInv
<1>5. CASE \E p \in Pages : Enter(p) \/ Leave(p) \/ Vanish(p) \/ Hear(p) \/ Resume(p) \/ Speak(p)
  BY <1>1, <1>2, <1>5 DEF FeedIInv, Enter, Leave, Vanish, Hear, Resume, Speak, countVars
<1>6. CASE \/ \E old \in SUBSET At({"in"}), k \in 0..ghosts : Sweep(old, k)
           \/ \E graceful \in BOOLEAN : Disconnect(graceful)
           \/ GiveUp \/ Close \/ WarmClosed \/ Exit \/ Crash
  BY <1>1, <1>2, <1>6 DEF FeedIInv, Sweep, Disconnect, GiveUp, Close, WarmClosed, Exit, Crash,
                          countVars
<1>7. CASE UNCHANGED vars
  BY <1>1, <1>2, <1>7 DEF FeedIInv, vars, countVars
<1>8. CASE Reseed
  BY <1>2, <1>8, ReseedPolls DEF FeedIInv
<1> QED
  BY <1>3, <1>4, <1>5, <1>6, <1>7, <1>8 DEF Next

LEMMA FeedAlways == Spec => []FeedIInv
<1>1. FeedIInv /\ [Next]_vars => FeedIInv'
  BY FeedSteps
<1> QED
  BY <1>1, FeedStarts, PTL DEF Spec

\* Any two readings folded after each other make a rate the server can have had.
LEMMA AnswersAreHonest ==
  ASSUME FeedIInv
  PROVE  RatesAreHonest
<1> SUFFICES ASSUME NEW last \in readings \cup {NoSnapshot}, NEW new \in readings, ~Reseeds(last, new)
             PROVE  /\ Sample(last, new).dt > 0
                    /\ Sample(last, new).records >= 0
                    /\ Sample(last, new).oneLife =>
                         /\ Sample(last, new).reseeds >= 0
                         /\ Sample(last, new).records <= Sample(last, new).dt * MaxBatch * MaxClients
                                                + Sample(last, new).reseeds * SnapshotSize * MaxClients
  BY DEF RatesAreHonest
<1>1. last \in readings
  BY DEF Reseeds
<1>2. /\ last \in LoadSnapshot /\ new \in LoadSnapshot
      /\ last.uptime < new.uptime /\ last.sent <= new.sent
  BY <1>1 DEF FeedIInv, PollsOK, Reseeds, LoadSnapshot
<1>3. new.life = last.life => last.reseeds <= new.reseeds
  BY <1>1, <1>2 DEF FeedIInv, PollsOK, LoadSnapshot
<1>4. new.life = last.life =>
        new.sent - last.sent
          <= (new.uptime - last.uptime) * Pace + (new.reseeds - last.reseeds) * Push
  BY <1>1, <1>2, <1>3 DEF FeedIInv, PollsOK, LoadSnapshot
<1>5. PICK d \in Int, e \in Int : d = new.uptime - last.uptime /\ e = new.reseeds - last.reseeds
  BY <1>2 DEF LoadSnapshot
<1>6. d * MaxBatch * MaxClients = d * Pace /\ e * SnapshotSize * MaxClients = e * Push
  BY DoorAssumption DEF Pace, Push
<1>7. /\ d > 0 /\ new.sent - last.sent >= 0
      /\ new.life = last.life => e >= 0
  BY <1>2, <1>3, <1>5 DEF LoadSnapshot
<1>8. /\ Sample(last, new).dt = d
      /\ Sample(last, new).records = new.sent - last.sent
      /\ Sample(last, new).oneLife = (new.life = last.life)
      /\ Sample(last, new).reseeds = e
  BY <1>5 DEF Sample
<1> QED
  BY <1>4, <1>5, <1>6, <1>7, <1>8

\* The limit holds of every socket, and what is open when the server drains came late.
THEOREM TheLimitHolds == Spec => []FeedDoorInv
<1>1. FeedIInv => FeedDoorInv
  BY DEF FeedIInv
<1> QED
  BY <1>1, FeedAlways, PTL

\* What the load chart plots is a rate the server can have had: no more records
\* than its ticks and reseeds send to its sockets.
THEOREM PlottedRatesAreHonest == Spec => []RatesAreHonest
<1>1. FeedIInv => RatesAreHonest
  BY AnswersAreHonest
<1> QED
  BY <1>1, FeedAlways, PTL

-----------------------------------------------------------------------------
(* The scenario director *)

LEMMA TheSteps ==
  /\ Steps = 1..11
  /\ Len(DEMO_5MIN) = 11
  BY DEF Steps, DEMO_5MIN, Step

LEMMA TheTimes ==
  /\ \A i \in 1..11 : DEMO_5MIN[i].atMs \in Nat
  /\ \A i \in 1..10 : DEMO_5MIN[i].atMs <= DEMO_5MIN[i + 1].atMs
  BY DEF DEMO_5MIN, Step

LEMMA TheActions ==
  /\ DEMO_5MIN[1].action = "rate" /\ DEMO_5MIN[2].action = "mode"
  /\ DEMO_5MIN[3].action = "lastlook" /\ DEMO_5MIN[4].action = "rate"
  /\ DEMO_5MIN[5].action = "mode" /\ DEMO_5MIN[6].action = "mode"
  /\ DEMO_5MIN[7].action = "disconnect" /\ DEMO_5MIN[8].action = "rate"
  /\ DEMO_5MIN[9].action = "freeze" /\ DEMO_5MIN[10].action = "news"
  /\ DEMO_5MIN[11].action = "lastlook"
  BY DEF DEMO_5MIN, Step

LEMMA TheValues ==
  /\ DEMO_5MIN[1].value = 300 /\ DEMO_5MIN[2].value = TRUE
  /\ DEMO_5MIN[3].value = <<40, 0>> /\ DEMO_5MIN[4].value = 50000
  /\ DEMO_5MIN[5].value = FALSE /\ DEMO_5MIN[6].value = TRUE
  /\ DEMO_5MIN[8].value = 2000
  /\ DEMO_5MIN[11].value = <<80, 30>>
  BY DEF DEMO_5MIN, Step

LEMMA DelayGrows ==
  ASSUME NEW a \in Nat, NEW b \in Nat, a <= b, NEW speed \in Nat \ {0}
  PROVE  Delay(a, speed) \in Nat /\ Delay(b, speed) \in Nat /\ Delay(a, speed) <= Delay(b, speed)
  BY DEF Delay

TypedKnobs == [rate : Nat, mode : BOOLEAN, lastlook : Nat \X Nat]

Suits(action, value) ==
  /\ action = "rate" => value \in Nat
  /\ action = "mode" => value \in BOOLEAN
  /\ action = "lastlook" => value \in Nat \X Nat

InOrder ==
  /\ play.id = 0 => ScenarioTimers = {}
  /\ \A t \in ScenarioTimers : t.of = play.id /\ t.step > play.applied
  /\ play.id > 0 => \A i \in play.applied + 1..11 : \E t \in ScenarioTimers : t.step = i
  /\ \A s, t \in ScenarioTimers : s.step = t.step => s = t
  /\ \A s, t \in ScenarioTimers : s.step <= t.step => s.left <= t.left

AsWritten ==
  byHand.since = 0 =>
    \A j \in 1..play.applied :
      /\ DEMO_5MIN[j].action \in Knobs
      /\ \A k \in j + 1..play.applied : DEMO_5MIN[k].action # DEMO_5MIN[j].action
      => posture[DEMO_5MIN[j].action] = DEMO_5MIN[j].value

DirectorIInv == DirectorTypeOK /\ byHand.since <= byHand.all /\ InOrder /\ AsWritten

LEMMA StepsSuit == \A i \in 1..11 : Suits(DEMO_5MIN[i].action, DEMO_5MIN[i].value)
<1> SUFFICES ASSUME NEW i \in 1..11 PROVE Suits(DEMO_5MIN[i].action, DEMO_5MIN[i].value)
  OBVIOUS
<1>1. \/ i = 1 \/ i = 2 \/ i = 3 \/ i = 4 \/ i = 5 \/ i = 6 \/ i = 7 \/ i = 8 \/ i = 9
      \/ i = 10 \/ i = 11
  OBVIOUS
<1>2. DEMO_5MIN[i].action = "rate" => DEMO_5MIN[i].value \in Nat
  BY <1>1, TheActions, TheValues
<1>3. DEMO_5MIN[i].action = "lastlook" => DEMO_5MIN[i].value \in Nat \X Nat
  <2>1. DEMO_5MIN[i].action = "lastlook" => i = 3 \/ i = 11
    BY <1>1, TheActions
  <2>2. <<40, 0>> \in Nat \X Nat /\ <<80, 30>> \in Nat \X Nat
    OBVIOUS
  <2>3. DEMO_5MIN[3].value \in Nat \X Nat /\ DEMO_5MIN[11].value \in Nat \X Nat
    <3>1. /\ DEMO_5MIN[3] = Step(0, "lastlook", <<40, 0>>)
          /\ DEMO_5MIN[11] = Step(240000, "lastlook", <<80, 30>>)
      BY DEF DEMO_5MIN
    <3> QED
      BY <2>2, <3>1 DEF Step
  <2> QED
    BY <2>1, <2>3
<1>4. DEMO_5MIN[i].action = "mode" => i = 2 \/ i = 5 \/ i = 6
  BY <1>1, TheActions
<1>5. i = 2 \/ i = 5 \/ i = 6 => DEMO_5MIN[i].value \in BOOLEAN
  <2>1. TRUE \in BOOLEAN /\ FALSE \in BOOLEAN
    OBVIOUS
  <2>2. /\ DEMO_5MIN[2].value \in BOOLEAN /\ DEMO_5MIN[5].value \in BOOLEAN
        /\ DEMO_5MIN[6].value \in BOOLEAN
    <3>1. /\ DEMO_5MIN[2] = Step(0, "mode", TRUE) /\ DEMO_5MIN[5] = Step(90000, "mode", FALSE)
          /\ DEMO_5MIN[6] = Step(110000, "mode", TRUE)
      BY DEF DEMO_5MIN
    <3> QED
      BY <3>1 DEF Step
  <2> QED
    BY <2>2
<1> QED
  BY <1>2, <1>3, <1>4, <1>5 DEF Suits

LEMMA TimesGrow ==
  \A i, j \in 1..11 : i <= j => DEMO_5MIN[i].atMs <= DEMO_5MIN[j].atMs
<1> SUFFICES ASSUME NEW i \in 1..11, NEW j \in 1..11, i <= j
             PROVE  DEMO_5MIN[i].atMs <= DEMO_5MIN[j].atMs
  OBVIOUS
<1>1. /\ DEMO_5MIN[1].atMs <= DEMO_5MIN[2].atMs /\ DEMO_5MIN[2].atMs <= DEMO_5MIN[3].atMs
      /\ DEMO_5MIN[3].atMs <= DEMO_5MIN[4].atMs /\ DEMO_5MIN[4].atMs <= DEMO_5MIN[5].atMs
      /\ DEMO_5MIN[5].atMs <= DEMO_5MIN[6].atMs /\ DEMO_5MIN[6].atMs <= DEMO_5MIN[7].atMs
      /\ DEMO_5MIN[7].atMs <= DEMO_5MIN[8].atMs /\ DEMO_5MIN[8].atMs <= DEMO_5MIN[9].atMs
      /\ DEMO_5MIN[9].atMs <= DEMO_5MIN[10].atMs /\ DEMO_5MIN[10].atMs <= DEMO_5MIN[11].atMs
  BY TheTimes
<1> DEFINE at(k) == DEMO_5MIN[k].atMs
<1>2. \A k \in 1..11 : at(k) \in Nat
  BY TheTimes
<1>3. /\ i = 1 \/ i = 2 \/ i = 3 \/ i = 4 \/ i = 5 \/ i = 6 \/ i = 7 \/ i = 8 \/ i = 9
         \/ i = 10 \/ i = 11
      /\ j = 1 \/ j = 2 \/ j = 3 \/ j = 4 \/ j = 5 \/ j = 6 \/ j = 7 \/ j = 8 \/ j = 9
         \/ j = 10 \/ j = 11
  OBVIOUS
<1> HIDE DEF at
<1>4. /\ at(1) <= at(2) /\ at(2) <= at(3) /\ at(3) <= at(4) /\ at(4) <= at(5)
      /\ at(5) <= at(6) /\ at(6) <= at(7) /\ at(7) <= at(8) /\ at(8) <= at(9)
      /\ at(9) <= at(10) /\ at(10) <= at(11)
  BY <1>1 DEF at
<1>5. at(i) <= at(j)
  BY <1>2, <1>3, <1>4
<1> QED
  BY <1>5 DEF at

LEMMA CommandSets ==
  ASSUME posture \in TypedKnobs, NEW action, NEW value, NEW of, Suits(action, value),
         Command(action, value, of)
  PROVE  /\ posture' \in TypedKnobs
         /\ issued'.of = of /\ issued'.action = action
         /\ action \in Knobs => posture'[action] = value
         /\ \A knob \in Knobs : knob # action => posture'[knob] = posture[knob]
<1>1. CASE action = "rate"
  BY <1>1 DEF TypedKnobs, Suits, Command, Knobs
<1>2. CASE action = "mode"
  BY <1>2 DEF TypedKnobs, Suits, Command, Knobs
<1>3. CASE action = "lastlook"
  BY <1>3 DEF TypedKnobs, Suits, Command, Knobs
<1>4. CASE action \notin Knobs
  BY <1>4 DEF Command, Knobs
<1> QED
  BY <1>1, <1>2, <1>3, <1>4 DEF Knobs

LEMMA TimerFields ==
  ASSUME NEW left, NEW step, NEW of
  PROVE  /\ Timer(left, step, of).left = left
         /\ Timer(left, step, of).step = step
         /\ Timer(left, step, of).of = of
  BY DEF Timer

TimerSet == [left : Nat, step : 0..11, of : 0..MaxPlays]

LEMMA DirectorStarts ==
  ASSUME DirectorInit
  PROVE  DirectorIInv
<1>1. DirectorTypeOK
  BY TheSteps, DirectorAssumption DEF DirectorInit, DirectorTypeOK
<1>2. InOrder
  BY DEF DirectorInit, InOrder, ScenarioTimers
<1>3. AsWritten
  BY DEF DirectorInit, AsWritten
<1> QED
  BY <1>1, <1>2, <1>3 DEF DirectorIInv, DirectorInit

LEMMA ScenarioKeeps ==
  ASSUME DirectorIInv, NEW speed \in Speeds, play.id < MaxPlays, Scenario(speed)
  PROVE  DirectorIInv'
<1> USE DirectorAssumption
<1> DEFINE id == play.id + 1
<1>0. /\ speed \in Nat \ {0} /\ id \in 0..MaxPlays /\ id > 0 /\ play' = [id |-> id, applied |-> 0]
      /\ byHand' = [byHand EXCEPT !.since = 0]
      /\ timers \subseteq TimerSet
      /\ posture' = posture /\ issued' = issued
  BY TheSteps DEF DirectorIInv, DirectorTypeOK, Scenario, TimerSet, TheDisconnect
<1> HIDE DEF id
<1>1. \A i \in 1..11 : Delay(DEMO_5MIN[i].atMs, speed) \in Nat
  BY <1>0, TheTimes, DelayGrows
<1>2. StepTimers(speed, id) \subseteq TimerSet
  BY <1>0, <1>1, TheSteps DEF StepTimers, TimerSet, Timer
<1>3. timers' \subseteq TimerSet
  BY <1>0, <1>2 DEF Scenario, id
<1>4. ScenarioTimers' = StepTimers(speed, id)
  <2>1. \A t \in StepTimers(speed, id) : t.step # TheDisconnect
    BY TheSteps, TimerFields DEF StepTimers, TheDisconnect
  <2> QED
    BY <2>1 DEF ScenarioTimers, Scenario, id
<1>5. DirectorTypeOK'
  BY <1>0, <1>3, TheSteps DEF DirectorIInv, DirectorTypeOK, TimerSet, TheDisconnect
<1>6. InOrder'
  <2>1. \A t \in StepTimers(speed, id) : t.of = id /\ t.step \in 1..11
    BY TheSteps, TimerFields DEF StepTimers
  <2>2. \A i \in 1..11 : \E t \in StepTimers(speed, id) : t.step = i
    BY TheSteps, TimerFields DEF StepTimers
  <2>3. \A t \in StepTimers(speed, id) : t = Timer(Delay(DEMO_5MIN[t.step].atMs, speed), t.step, id)
    BY TheSteps, TimerFields DEF StepTimers
  <2>4. \A s, t \in StepTimers(speed, id) : s.step <= t.step => s.left <= t.left
    <3> SUFFICES ASSUME NEW s \in StepTimers(speed, id), NEW t \in StepTimers(speed, id),
                        s.step <= t.step
                 PROVE  s.left <= t.left
      OBVIOUS
    <3>1. DEMO_5MIN[s.step].atMs <= DEMO_5MIN[t.step].atMs
      BY <2>1, TimesGrow
    <3>2. Delay(DEMO_5MIN[s.step].atMs, speed) <= Delay(DEMO_5MIN[t.step].atMs, speed)
      BY <3>1, <2>1, <1>0, TheTimes, DelayGrows
    <3> QED
      BY <3>2, <2>3, TimerFields
  <2>5. \A s, t \in StepTimers(speed, id) : s.step = t.step => s = t
    BY <2>3
  <2> QED
    BY <1>0, <1>4, <2>1, <2>2, <2>4, <2>5 DEF InOrder
<1>7. AsWritten'
  BY <1>0 DEF AsWritten
<1>8. byHand'.since <= byHand'.all
  BY <1>0 DEF DirectorIInv, DirectorTypeOK
<1> QED
  BY <1>5, <1>6, <1>7, <1>8 DEF DirectorIInv

LEMMA ByHandKeeps ==
  ASSUME DirectorIInv, ByHand
  PROVE  DirectorIInv'
<1> USE DirectorAssumption
<1>0. /\ play' = play /\ play \in [id : 0..MaxPlays, applied : 0..11]
      /\ timers \subseteq TimerSet /\ posture \in TypedKnobs
      /\ byHand \in [all : 0..MaxByHand, since : 0..MaxByHand] /\ byHand.all < MaxByHand
      /\ byHand.since <= byHand.all
      /\ byHand' = [all |-> byHand.all + 1, since |-> byHand.since + 1]
      /\ issued.of \in 0..MaxPlays
  BY TheSteps DEF DirectorIInv, DirectorTypeOK, ByHand, TimerSet, TypedKnobs, TheDisconnect
<1>1. byHand' \in [all : 0..MaxByHand, since : 0..MaxByHand] /\ byHand'.since > 0
     /\ byHand'.since <= byHand'.all
  BY <1>0
<1>2. AsWritten'
  BY <1>1 DEF AsWritten
<1>3. CASE \E c \in HandCommands : Command(c[1], c[2], 0) /\ UNCHANGED timers
  <2>1. PICK c \in HandCommands : Command(c[1], c[2], 0) /\ UNCHANGED timers
    BY <1>3
  <2>2. Suits(c[1], c[2])
    BY DEF Suits
  <2>3. posture' \in TypedKnobs /\ issued'.of = 0
    BY <2>1, <2>2, <1>0, CommandSets
  <2>4. DirectorTypeOK'
    BY <1>0, <1>1, <2>1, <2>3, TheSteps DEF DirectorTypeOK, TimerSet, TypedKnobs, TheDisconnect
  <2>5. InOrder'
    BY <1>0, <2>1 DEF DirectorIInv, InOrder, ScenarioTimers
  <2> QED
    BY <1>1, <1>2, <2>4, <2>5 DEF DirectorIInv
<1>4. CASE \E afterMs \in AfterMs :
             /\ timers' = timers \cup {Timer(Delay(afterMs, 1), TheDisconnect, 0)}
             /\ UNCHANGED <<posture, issued>>
  <2>1. PICK afterMs \in AfterMs :
             /\ timers' = timers \cup {Timer(Delay(afterMs, 1), TheDisconnect, 0)}
             /\ UNCHANGED <<posture, issued>>
    BY <1>4
  <2>2. Delay(afterMs, 1) \in Nat
    BY DelayGrows
  <2>3. Timer(Delay(afterMs, 1), TheDisconnect, 0) \in TimerSet
    BY <2>2 DEF Timer, TimerSet, TheDisconnect
  <2>4. ScenarioTimers' = ScenarioTimers
    BY <2>1, TimerFields DEF ScenarioTimers
  <2>5. DirectorTypeOK'
    BY <1>0, <1>1, <2>1, <2>3, TheSteps DEF DirectorTypeOK, TimerSet, TypedKnobs, TheDisconnect
  <2>6. InOrder'
    BY <1>0, <2>4 DEF DirectorIInv, InOrder
  <2> QED
    BY <1>1, <1>2, <2>5, <2>6 DEF DirectorIInv
<1> QED
  BY <1>3, <1>4 DEF ByHand

LEMMA StepIsNext ==
  ASSUME DirectorIInv, NEW t \in timers, StepFires(t)
  PROVE  /\ t.step = play.applied + 1 /\ t.step \in 1..11
         /\ t.of = play.id /\ play.id > 0
         /\ t \in ScenarioTimers
<1>1. t \in ScenarioTimers /\ t.left = 0 /\ t.step \in 1..11
  BY TheSteps DEF StepFires, ScenarioTimers, DirectorIInv, DirectorTypeOK, TheDisconnect
<1>2. play.id \in Nat /\ play.applied \in Nat /\ play.id > 0
  BY <1>1, TheSteps DEF DirectorIInv, DirectorTypeOK, InOrder
<1>3. t.of = play.id /\ t.step > play.applied
  BY <1>1 DEF DirectorIInv, InOrder
<1>4. PICK s \in ScenarioTimers : s.step = play.applied + 1
  BY <1>1, <1>2, <1>3 DEF DirectorIInv, InOrder
<1>5. s.step <= t.step
  BY <1>1, <1>2, <1>3, <1>4
<1>6. s.left <= 0 /\ s.left \in Nat
  BY <1>1, <1>4, <1>5 DEF DirectorIInv, InOrder, DirectorTypeOK, ScenarioTimers
<1>7. s \in Overdue
  BY <1>4, <1>6 DEF Overdue, ScenarioTimers
<1>8. t.step <= s.step
  BY <1>4, <1>7 DEF StepFires
<1> QED
  BY <1>1, <1>2, <1>3, <1>4, <1>5, <1>8

LEMMA StepKeeps ==
  ASSUME DirectorIInv, NEW t \in timers, StepFires(t)
  PROVE  /\ DirectorIInv'
         /\ issued' = issued \/ issued'.of = play'.id
<1> USE DirectorAssumption
<1> DEFINE i == t.step
<1>0. /\ play \in [id : 0..MaxPlays, applied : 0..11]
      /\ timers \subseteq TimerSet /\ posture \in TypedKnobs
      /\ issued.of \in 0..MaxPlays /\ byHand' = byHand
  BY TheSteps DEF DirectorIInv, DirectorTypeOK, StepFires, TimerSet, TypedKnobs, TheDisconnect
<1>1. /\ i = play.applied + 1 /\ i \in 1..11 /\ t.of = play.id /\ play.id > 0 /\ t \in ScenarioTimers
  BY StepIsNext
<1>2. play'.id = play.id /\ play'.applied = i /\ play' \in [id : 0..MaxPlays, applied : 0..11]
  <2>1. play' = [play EXCEPT !.applied = @ + 1]
    BY <1>1 DEF StepFires
  <2> QED
    BY <2>1, <1>0, <1>1
<1>3. /\ timers' \subseteq TimerSet
      /\ ScenarioTimers' = ScenarioTimers \ {t}
      /\ posture' \in TypedKnobs
      /\ issued'.of \in 0..MaxPlays
      /\ issued' = issued \/ issued'.of = play.id
      /\ DEMO_5MIN[i].action \in Knobs => posture'[DEMO_5MIN[i].action] = DEMO_5MIN[i].value
      /\ \A knob \in Knobs : knob # DEMO_5MIN[i].action => posture'[knob] = posture[knob]
  <2>1. CASE DEMO_5MIN[i].action = "disconnect"
    <3>1. timers' = (timers \ {t}) \cup {Timer(Delay(0, 1), TheDisconnect, t.of)}
          /\ UNCHANGED <<posture, issued>>
      BY <2>1 DEF StepFires
    <3>2. Delay(0, 1) \in Nat
      BY DelayGrows
    <3>3. Timer(Delay(0, 1), TheDisconnect, t.of) \in TimerSet
      BY <3>2, <1>0, <1>1 DEF Timer, TimerSet, TheDisconnect
    <3>4. ScenarioTimers' = ScenarioTimers \ {t}
      BY <3>1, TimerFields DEF ScenarioTimers
    <3> QED
      BY <3>1, <3>3, <3>4, <1>0, <2>1 DEF Knobs
  <2>2. CASE DEMO_5MIN[i].action # "disconnect"
    <3>1. timers' = timers \ {t} /\ Command(DEMO_5MIN[i].action, DEMO_5MIN[i].value, t.of)
      BY <2>2 DEF StepFires
    <3>2. Suits(DEMO_5MIN[i].action, DEMO_5MIN[i].value)
      BY <1>1, StepsSuit
    <3>3. ScenarioTimers' = ScenarioTimers \ {t}
      BY <3>1 DEF ScenarioTimers
    <3>4. /\ posture' \in TypedKnobs
          /\ issued'.of = t.of
          /\ DEMO_5MIN[i].action \in Knobs => posture'[DEMO_5MIN[i].action] = DEMO_5MIN[i].value
          /\ \A knob \in Knobs : knob # DEMO_5MIN[i].action => posture'[knob] = posture[knob]
      BY <3>1, <3>2, <1>0, CommandSets
    <3> QED
      BY <3>1, <3>3, <3>4, <1>0, <1>1
  <2> QED
    BY <2>1, <2>2
<1> HIDE DEF i
<1>4. DirectorTypeOK'
  BY <1>0, <1>2, <1>3, TheSteps DEF DirectorIInv, DirectorTypeOK, TimerSet, TypedKnobs, TheDisconnect
<1>5. InOrder'
  <2>1. \A s \in ScenarioTimers' : s \in ScenarioTimers /\ s.of = play.id /\ s.step > i
    <3> SUFFICES ASSUME NEW s \in ScenarioTimers, s # t
                 PROVE  s.of = play.id /\ s.step > i
      BY <1>3
    <3>1. s.of = play.id /\ s.step > play.applied /\ s.step # t.step /\ s.step \in Nat
      BY <1>0, <1>1 DEF DirectorIInv, InOrder, ScenarioTimers, TimerSet
    <3> QED
      BY <3>1, <1>0, <1>1 DEF i
  <2>2. \A k \in i + 1..11 : \E s \in ScenarioTimers' : s.step = k
    <3> SUFFICES ASSUME NEW k \in i + 1..11
                 PROVE  \E s \in ScenarioTimers \ {t} : s.step = k
      BY <1>3
    <3>1. PICK s \in ScenarioTimers : s.step = k
      BY <1>0, <1>1 DEF DirectorIInv, InOrder
    <3>2. s # t
      BY <3>1, <1>1 DEF i
    <3> QED
      BY <3>1, <3>2
  <2>3. \A s, u \in ScenarioTimers' : (s.step = u.step => s = u) /\ (s.step <= u.step => s.left <= u.left)
    BY <2>1 DEF DirectorIInv, InOrder
  <2> QED
    BY <1>0, <1>1, <1>2, <2>1, <2>2, <2>3 DEF InOrder
<1>6. AsWritten'
  <2> SUFFICES ASSUME byHand.since = 0, NEW j \in 1..i, DEMO_5MIN[j].action \in Knobs,
                      \A k \in j + 1..i : DEMO_5MIN[k].action # DEMO_5MIN[j].action
               PROVE  posture'[DEMO_5MIN[j].action] = DEMO_5MIN[j].value
    BY <1>0, <1>2 DEF AsWritten
  <2>1. CASE j = i
    BY <2>1, <1>3
  <2>2. CASE j # i
    <3>1. j \in 1..play.applied /\ i \in j + 1..i
      BY <2>2, <1>0, <1>1
    <3>2. DEMO_5MIN[i].action # DEMO_5MIN[j].action
      BY <3>1
    <3>3. \A k \in j + 1..play.applied : DEMO_5MIN[k].action # DEMO_5MIN[j].action
      BY <1>0, <1>1
    <3>4. posture[DEMO_5MIN[j].action] = DEMO_5MIN[j].value
      BY <3>1, <3>3 DEF DirectorIInv, AsWritten
    <3> QED
      BY <3>2, <3>4, <1>3
  <2> QED
    BY <2>1, <2>2
<1>7. byHand'.since <= byHand'.all
  BY <1>0 DEF DirectorIInv
<1> QED
  BY <1>2, <1>3, <1>4, <1>5, <1>6, <1>7 DEF DirectorIInv

LEMMA DisconnectKeeps ==
  ASSUME DirectorIInv, NEW t \in timers, DisconnectFires(t)
  PROVE  DirectorIInv' /\ issued'.action = "disconnect"
<1> USE DirectorAssumption
<1>0. /\ play' = play /\ byHand' = byHand /\ timers' = timers \ {t} /\ t.step = TheDisconnect
      /\ Command("disconnect", "crash", t.of) /\ t.of \in 0..MaxPlays
      /\ posture \in TypedKnobs
  BY DEF DirectorIInv, DirectorTypeOK, DisconnectFires, TypedKnobs
<1>1. posture' = posture /\ issued'.of = t.of /\ issued'.action = "disconnect"
  BY <1>0 DEF Command, Knobs
<1>2. ScenarioTimers' = ScenarioTimers
  BY <1>0 DEF ScenarioTimers
<1>3. DirectorTypeOK'
  BY <1>0, <1>1 DEF DirectorIInv, DirectorTypeOK
<1>4. InOrder' /\ AsWritten'
  BY <1>0, <1>1, <1>2 DEF DirectorIInv, InOrder, AsWritten
<1> QED
  BY <1>0, <1>1, <1>3, <1>4 DEF DirectorIInv

LEMMA WaitKeeps ==
  ASSUME DirectorIInv, Wait
  PROVE  DirectorIInv' /\ issued' = issued
<1> USE DirectorAssumption
<1>0. /\ UNCHANGED <<play, posture, issued, byHand>> /\ timers \subseteq TimerSet
  BY TheSteps DEF DirectorIInv, DirectorTypeOK, Wait, TimerSet, TheDisconnect
<1>1. PICK d \in timers : timers' = {[s EXCEPT !.left = IF s.left < d.left THEN 0 ELSE s.left - d.left] :
                                       s \in timers}
  BY DEF Wait
<1> DEFINE later(s) == [s EXCEPT !.left = IF s.left < d.left THEN 0 ELSE s.left - d.left]
<1>2. \A s \in timers : /\ later(s) \in TimerSet
                        /\ later(s).step = s.step /\ later(s).of = s.of
                        /\ later(s).left = IF s.left < d.left THEN 0 ELSE s.left - d.left
  BY <1>0 DEF TimerSet
<1>3. \A u \in timers' : \E s \in timers : u = later(s)
  BY <1>1
<1>4. \A s \in timers : later(s) \in timers'
  BY <1>1
<1> HIDE DEF later
<1>5. \A u \in ScenarioTimers' : \E s \in ScenarioTimers : u = later(s)
  BY <1>2, <1>3 DEF ScenarioTimers
<1>6. \A s \in ScenarioTimers : later(s) \in ScenarioTimers' /\ s \in timers
  BY <1>2, <1>4 DEF ScenarioTimers
<1>7. DirectorTypeOK'
  <2>1. timers' \subseteq TimerSet
    BY <1>2, <1>3
  <2> QED
    BY <2>1, <1>0, TheSteps DEF DirectorIInv, DirectorTypeOK, TimerSet, TheDisconnect
<1>8. InOrder'
  <2>1. play.id = 0 => ScenarioTimers' = {}
    BY <1>5 DEF DirectorIInv, InOrder
  <2>2. \A u \in ScenarioTimers' : u.of = play.id /\ u.step > play.applied
    BY <1>2, <1>5, <1>6 DEF DirectorIInv, InOrder
  <2>3. play.id > 0 => \A i \in play.applied + 1..11 : \E u \in ScenarioTimers' : u.step = i
    BY <1>2, <1>6 DEF DirectorIInv, InOrder
  <2>4. \A u, v \in ScenarioTimers' : u.step = v.step => u = v
    BY <1>2, <1>5, <1>6 DEF DirectorIInv, InOrder
  <2>5. \A u, v \in ScenarioTimers' : u.step <= v.step => u.left <= v.left
    <3> SUFFICES ASSUME NEW u \in ScenarioTimers', NEW v \in ScenarioTimers', u.step <= v.step
                 PROVE  u.left <= v.left
      OBVIOUS
    <3>1. PICK s \in ScenarioTimers : u = later(s)
      BY <1>5
    <3>2. PICK r \in ScenarioTimers : v = later(r)
      BY <1>5
    <3>3. s.step <= r.step
      BY <1>2, <1>6, <3>1, <3>2
    <3>4. s.left <= r.left
      BY <3>3 DEF DirectorIInv, InOrder
    <3>5. s.left \in Nat /\ r.left \in Nat /\ d.left \in Nat
      BY <1>0, <1>6 DEF TimerSet
    <3>6. /\ u.left = IF s.left < d.left THEN 0 ELSE s.left - d.left
          /\ v.left = IF r.left < d.left THEN 0 ELSE r.left - d.left
      BY <1>2, <1>6, <3>1, <3>2
    <3> QED
      BY <3>4, <3>5, <3>6
  <2> QED
    BY <1>0, <2>1, <2>2, <2>3, <2>4, <2>5 DEF InOrder
<1>9. AsWritten' /\ byHand'.since <= byHand'.all
  BY <1>0 DEF DirectorIInv, AsWritten
<1> QED
  BY <1>0, <1>7, <1>8, <1>9 DEF DirectorIInv

LEMMA DirectorSteps ==
  ASSUME DirectorIInv, [DirectorNext]_directorVars
  PROVE  /\ DirectorIInv'
         /\ issued' # issued =>
              issued'.of \in {0, play'.id} \/ issued'.action = "disconnect"
<1>1. CASE StartScenario
  <2>1. PICK speed \in Speeds : play.id < MaxPlays /\ Scenario(speed)
    BY <1>1 DEF StartScenario
  <2> QED
    BY <2>1, ScenarioKeeps DEF Scenario
<1>2. CASE ByHand
  <2>1. issued' = issued \/ issued'.of = 0
    BY <1>2 DEF ByHand, Command
  <2> QED
    BY <1>2, <2>1, ByHandKeeps
<1>3. ASSUME NEW t \in timers, StepFires(t)
      PROVE  /\ DirectorIInv'
             /\ issued' # issued =>
                  issued'.of \in {0, play'.id} \/ issued'.action = "disconnect"
  BY <1>3, StepKeeps
<1>4. ASSUME NEW t \in timers, DisconnectFires(t)
      PROVE  DirectorIInv' /\ issued'.action = "disconnect"
  BY <1>4, DisconnectKeeps
<1>5. CASE Wait
  BY <1>5, WaitKeeps
<1>6. CASE UNCHANGED directorVars
  <2>1. ScenarioTimers' = ScenarioTimers
    BY <1>6 DEF directorVars, ScenarioTimers
  <2> QED
    BY <1>6, <2>1 DEF directorVars, DirectorIInv, DirectorTypeOK, InOrder, AsWritten
<1> QED
  BY <1>1, <1>2, <1>3, <1>4, <1>5, <1>6 DEF DirectorNext

LEMMA DirectorAlways == DirectorSpec => []DirectorIInv
<1>1. DirectorIInv /\ [DirectorNext]_directorVars => DirectorIInv'
  BY DirectorSteps
<1> QED
  BY <1>1, DirectorStarts, PTL DEF DirectorSpec

\* The steps to come are as many as their timers.
LEMMA TimersAreCounted ==
  ASSUME DirectorIInv, play.id > 0
  PROVE  play.applied + Cardinality(ScenarioTimers) = 11
<1> DEFINE rest == play.applied + 1..11
           of == [t \in ScenarioTimers |-> t.step]
<1>1. play.applied \in 0..11
  BY TheSteps DEF DirectorIInv, DirectorTypeOK
<1>2. \A t \in ScenarioTimers : t.step \in rest
  BY <1>1, TheSteps DEF DirectorIInv, DirectorTypeOK, InOrder, ScenarioTimers, TheDisconnect
<1>3. of \in Bijection(ScenarioTimers, rest)
  <2>1. of \in [ScenarioTimers -> rest]
    BY <1>2
  <2>2. \A s, t \in ScenarioTimers : of[s] = of[t] => s = t
    BY DEF DirectorIInv, InOrder
  <2>3. \A i \in rest : \E t \in ScenarioTimers : of[t] = i
    BY DEF DirectorIInv, InOrder
  <2> HIDE DEF of, rest
  <2> QED
    BY <2>1, <2>2, <2>3, Fun_IsBij
<1> HIDE DEF of
<1>4. IsFiniteSet(rest) /\ Cardinality(rest) = 11 - play.applied
  BY <1>1, FS_Interval
<1>5. ExistsBijection(ScenarioTimers, rest)
  BY <1>3 DEF ExistsBijection
<1>6. ExistsBijection(rest, ScenarioTimers)
  BY <1>5, Fun_ExistsBijSymmetric
<1>7. Cardinality(ScenarioTimers) = Cardinality(rest)
  BY <1>4, <1>6, FS_Bijection
<1> QED
  BY <1>1, <1>4, <1>7

LEMMA LastStepIsLast ==
  ASSUME play.applied \in 0..11, NEW action, NEW k \in 1..play.applied, DEMO_5MIN[k].action = action
  PROVE  /\ LastStep(action) \in 1..play.applied
         /\ DEMO_5MIN[LastStep(action)].action = action
         /\ \A j \in LastStep(action) + 1..play.applied : DEMO_5MIN[j].action # action
<1> DEFINE done == {i \in 1..play.applied : DEMO_5MIN[i].action = action}
           gaps == {play.applied - i : i \in done}
<1>1. gaps \subseteq Nat /\ gaps # {}
  BY DEF done
<1>2. PICK g \in gaps : \A h \in gaps : g <= h
  <2> HIDE DEF gaps
  <2> QED
    BY <1>1, LeastNumber
<1>3. PICK last \in done : g = play.applied - last
  OBVIOUS
<1>4. \A j \in done : j <= last
  <2> SUFFICES ASSUME NEW j \in done PROVE j <= last
    OBVIOUS
  <2>1. play.applied - j \in gaps
    OBVIOUS
  <2>2. g <= play.applied - j /\ j \in Int /\ last \in Int /\ play.applied \in Int
    BY <1>2, <1>3, <2>1
  <2> HIDE DEF gaps, done
  <2> QED
    BY <1>3, <2>2
<1>5. LastStep(action) \in done /\ \A j \in done : j <= LastStep(action)
  BY <1>3, <1>4 DEF LastStep
<1>6. ASSUME NEW j \in LastStep(action) + 1..play.applied PROVE DEMO_5MIN[j].action # action
  BY <1>5
<1> QED
  BY <1>5, <1>6

\* One director at a time, at any speeds, however late the loop runs.
THEOREM OneDirectorAtATime == DirectorSpec => []DirectorInv
<1>1. DirectorIInv => DirectorInv
  <2> SUFFICES ASSUME DirectorIInv PROVE OneDirector
    BY DEF DirectorIInv, DirectorInv
  <2> QED
    BY TimersAreCounted, TheSteps DEF DirectorIInv, InOrder, OneDirector
<1> QED
  BY <1>1, DirectorAlways, PTL

\* A play nobody interferes with stands where the timeline puts it.
THEOREM PlaysGoByTheScript == DirectorSpec => []PlayedAsWritten
<1>1. DirectorIInv => PlayedAsWritten
  <2> SUFFICES ASSUME DirectorIInv, play.applied >= 3, byHand.since = 0, NEW knob \in Knobs
               PROVE  posture[knob] = DEMO_5MIN[LastStep(knob)].value
    BY DEF PlayedAsWritten
  <2>1. play.applied \in 0..11
    BY TheSteps DEF DirectorIInv, DirectorTypeOK
  <2>2. PICK k \in 1..play.applied : DEMO_5MIN[k].action = knob
    <3>1. 1 \in 1..play.applied /\ 2 \in 1..play.applied /\ 3 \in 1..play.applied
      BY <2>1
    <3>2. knob = "rate" \/ knob = "mode" \/ knob = "lastlook"
      BY DEF Knobs
    <3> QED
      BY <3>1, <3>2, TheActions
  <2>3. /\ LastStep(knob) \in 1..play.applied
        /\ DEMO_5MIN[LastStep(knob)].action = knob
        /\ \A j \in LastStep(knob) + 1..play.applied : DEMO_5MIN[j].action # knob
    BY <2>1, <2>2, LastStepIsLast
  <2> QED
    BY <2>3 DEF DirectorIInv, AsWritten
<1> QED
  BY <1>1, DirectorAlways, PTL

\* What is done is done by hand or by the current play, but for a disconnect.
THEOREM OnlyEndingsStray == DirectorSpec => OnlyDisconnectsStray
<1>1. DirectorIInv /\ [DirectorNext]_directorVars =>
        [issued' # issued =>
           issued'.of \in {0, play'.id} \/ issued'.action = "disconnect"]_directorVars
  BY DirectorSteps
<1> QED
  BY <1>1, DirectorAlways, PTL DEF DirectorSpec, OnlyDisconnectsStray
=============================================================================
