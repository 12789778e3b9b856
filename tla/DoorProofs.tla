----------------------------- MODULE DoorProofs ------------------------------
(***************************************************************************)
(* What the order door keeps for any number of connections, ids, rows and  *)
(* processes: ledger and engine hold the same ids, answers are true, and   *)
(* an id the server gave never returns as long as clients do not choose    *)
(* ids of the server's form; and a click on the ticket enters one order,   *)
(* whatever sockets it takes.                                              *)
(***************************************************************************)
EXTENDS Ticket, FiniteSetTheorems, SequenceTheorems, WellFoundedInduction, TLAPS

\* What every operation of the desk keeps: the ids given so far are those that
\* were counted.
DeskInv ==
  /\ DeskTypeOK
  /\ BooksAgree
  /\ spent \subseteq 1..orderCounter
  /\ IsFiniteSet(meta)

\* The action property, of one step.
GivesFreshIds == up' => ((meta' \ meta) \cap 1..MaxOrders) \cap spent = {}

\* Clients do not choose ids of the form srv-n.
OwnIdsAreOther == ClientIds \cap (1..MaxOrders) = {}

\* A step of the desk is sound, whatever it does.
Sound == DeskInv' /\ (OwnIdsAreOther => GivesFreshIds)

\* A step that leaves the desk alone.
LEMMA NothingHappens ==
  ASSUME DeskInv, UNCHANGED deskVars
  PROVE  Sound /\ meta' \ meta = {}
<1>1. DeskInv'  BY DEF DeskInv, DeskTypeOK, BooksAgree, deskVars, books
<1>2. live' = live /\ meta' = meta  BY DEF deskVars, books
<1> QED  BY <1>1, <1>2 DEF Sound, GivesFreshIds

\* A step that enters at most one order, under an id the server has not given.
LEMMA OneEnters ==
  ASSUME DeskInv, NEW id \in 1..MaxOrders \cup ClientIds, NEW running \in SUBSET {id},
         id \notin meta, Enter({id}, running),
         orderCounter' \in orderCounter..MaxOrders,
         spent' \subseteq spent \cup ({id} \cap (1..orderCounter')),
         OwnIdsAreOther => id \notin spent,
         UNCHANGED up
  PROVE  Sound /\ meta' \ meta = {id}
<1>1. /\ meta' = meta \cup {id}
      /\ known' = known \cup {id}
      /\ live' = live \cup running
  BY DEF Enter
<1>2. IsFiniteSet(meta')  BY <1>1, FS_AddElement DEF DeskInv
<1>3. orderCounter \in Nat /\ orderCounter' \in 0..MaxOrders
  BY DoorAssumption DEF DeskInv, DeskTypeOK
<1>4. spent' \subseteq 1..orderCounter'
  BY <1>3, DoorAssumption DEF DeskInv
<1>5. DeskTypeOK'
  <2>1. meta' \subseteq 1..MaxOrders \cup ClientIds  BY <1>1 DEF DeskInv, DeskTypeOK
  <2>2. known' \subseteq 1..MaxOrders \cup ClientIds  BY <1>1 DEF DeskInv, DeskTypeOK
  <2>3. live' \subseteq known'  BY <1>1 DEF DeskInv, DeskTypeOK
  <2>4. spent' \subseteq 1..MaxOrders  BY <1>3, <1>4, DoorAssumption
  <2> QED  BY <1>3, <2>1, <2>2, <2>3, <2>4 DEF DeskInv, DeskTypeOK
<1>6. DeskInv'  BY <1>1, <1>2, <1>4, <1>5 DEF DeskInv, BooksAgree
<1>7. meta' \ meta = {id}  BY <1>1
<1> QED  BY <1>6, <1>7 DEF Sound, GivesFreshIds

\* A client's own id.
LEMMA OwnIdIsSound ==
  ASSUME DeskInv, NEW id \in ClientIds, SubmitOwnId(id)
  PROVE  Sound /\ meta' \ meta = (IF id \in meta THEN {} ELSE {id})
<1>1. CASE id \in meta
  <2>1. UNCHANGED deskVars  BY <1>1 DEF SubmitOwnId, EnterNone, deskVars
  <2> QED  BY <1>1, <2>1, NothingHappens
<1>2. CASE id \notin meta
  <2>1. Enter({id}, {id}) /\ UNCHANGED <<orderCounter, spent, up>>
    BY <1>2 DEF SubmitOwnId
  <2>2. orderCounter' \in orderCounter..MaxOrders
    BY <2>1, DoorAssumption DEF DeskInv, DeskTypeOK
  <2>3. OwnIdsAreOther => id \notin spent  BY DEF OwnIdsAreOther, DeskInv, DeskTypeOK
  <2> QED  BY <1>2, <2>1, <2>2, <2>3, OneEnters
<1> QED  BY <1>1, <1>2

\* An id of the server's, taken by a client, refused by the ledger, or entered.
LEMMA FreshIdIsSound ==
  ASSUME DeskInv, NEW registered \in BOOLEAN, NEW running \in BOOLEAN,
         SubmitFresh(registered, running)
  PROVE  /\ Sound
         /\ meta' \ meta = (IF ~registered \/ NextId \in meta THEN {} ELSE {NextId})
<1>1. /\ orderCounter \in Nat
      /\ NextId = orderCounter + 1
      /\ orderCounter' = NextId
      /\ NextId \in 1..MaxOrders
      /\ orderCounter' \in orderCounter..MaxOrders
      /\ UNCHANGED up
  BY DoorAssumption DEF SubmitFresh, NextId, DeskInv, DeskTypeOK
<1>2. CASE ~registered \/ NextId \in meta
  <2>1. UNCHANGED <<books, spent, up>>  BY <1>1, <1>2 DEF SubmitFresh, EnterNone
  <2>2. DeskTypeOK'
    BY <1>1, <2>1, DoorAssumption DEF DeskInv, DeskTypeOK, books
  <2>3. DeskInv'
    BY <1>1, <2>1, <2>2 DEF DeskInv, BooksAgree, books
  <2> QED  BY <1>2, <2>1, <2>3 DEF Sound, GivesFreshIds, books
<1>3. CASE ~(~registered \/ NextId \in meta)
  <2>1. /\ Enter({NextId}, IF running THEN {NextId} ELSE {})
        /\ spent' = spent \cup {NextId}
    BY <1>3 DEF SubmitFresh
  <2>2. NextId \notin spent  BY <1>1 DEF DeskInv
  <2>3. NextId \in 1..orderCounter'  BY <1>1
  <2> DEFINE r == IF running THEN {NextId} ELSE {}
  <2>4. r \in SUBSET {NextId}  OBVIOUS
  <2>5. Sound /\ meta' \ meta = {NextId}
    BY <1>1, <1>3, <2>1, <2>2, <2>3, <2>4, OneEnters
  <2> QED  BY <1>3, <2>5
<1> QED  BY <1>2, <1>3

-----------------------------------------------------------------------------
(* Bursts, new days, and the end of the process *)

\* A burst has as many ids as rows.
LEMMA BurstHasItsRows ==
  ASSUME NEW rows \in BurstRows, orderCounter \in Nat
  PROVE  /\ rows \in Nat \ {0}
         /\ BurstIds(rows) = (orderCounter + 1)..(orderCounter + rows)
         /\ IsFiniteSet(BurstIds(rows))
         /\ Cardinality(BurstIds(rows)) = rows
<1>1. rows \in Nat \ {0}  BY DoorAssumption
<1>2. BurstIds(rows) = (orderCounter + 1)..(orderCounter + rows)
  <2>1. ASSUME NEW id \in (orderCounter + 1)..(orderCounter + rows)
        PROVE  id \in BurstIds(rows)
    <3>1. id - (orderCounter + 1) \in 0..(rows - 1)  BY <1>1
    <3>2. id = NextId + (id - (orderCounter + 1))  BY DEF NextId
    <3> QED  BY <3>1, <3>2 DEF BurstIds
  <2>2. ASSUME NEW i \in 0..(rows - 1)
        PROVE  NextId + i \in (orderCounter + 1)..(orderCounter + rows)
    BY <1>1 DEF NextId
  <2> QED  BY <2>1, <2>2 DEF BurstIds
<1>3. /\ IsFiniteSet((orderCounter + 1)..(orderCounter + rows))
      /\ Cardinality((orderCounter + 1)..(orderCounter + rows)) = rows
  BY <1>1, FS_Interval
<1> QED  BY <1>1, <1>2, <1>3

\* The end of the process leaves nothing on the books.
LEMMA DyingIsSound ==
  ASSUME DeskInv, DeskDies
  PROVE  Sound /\ ~up'
<1>1. /\ meta' = {} /\ known' = {} /\ live' = {}
      /\ orderCounter' = 0 /\ spent' = {} /\ up' = FALSE
  BY DEF DeskDies, EmptyBooks
<1>2. DeskInv'
  <2>1. orderCounter' \in 0..MaxOrders  BY <1>1, DoorAssumption
  <2>2. DeskTypeOK'  BY <1>1, <2>1 DEF DeskTypeOK
  <2>3. IsFiniteSet(meta')  BY <1>1, FS_EmptySet
  <2> QED  BY <1>1, <2>2, <2>3 DEF DeskInv, BooksAgree
<1> QED  BY <1>1, <1>2 DEF Sound, GivesFreshIds

\* A new day keeps the counter and the ids it has given.
LEMMA NewDayIsSound ==
  ASSUME DeskInv, Reseed
  PROVE  Sound /\ meta' \ meta = {}
<1>1. /\ meta' = {} /\ known' = {} /\ live' = {}
      /\ UNCHANGED <<orderCounter, spent, up>>
  BY DEF Reseed, EmptyBooks
<1>2. DeskInv'
  <2>1. DeskTypeOK'  BY <1>1 DEF DeskInv, DeskTypeOK
  <2>2. IsFiniteSet(meta')  BY <1>1, FS_EmptySet
  <2> QED  BY <1>1, <2>1, <2>2 DEF DeskInv, BooksAgree
<1> QED  BY <1>1, <1>2 DEF Sound, GivesFreshIds

\* An order that ends stays on the books.
LEMMA EndingIsSound ==
  ASSUME DeskInv, OrderEnds
  PROVE  Sound
<1>1. PICK id \in live : live' = live \ {id}  BY DEF OrderEnds
<1>2. UNCHANGED <<orderCounter, meta, known, spent, up>>  BY DEF OrderEnds
<1>3. DeskInv'  BY <1>1, <1>2 DEF DeskInv, DeskTypeOK, BooksAgree
<1> QED  BY <1>2, <1>3 DEF Sound, GivesFreshIds

\* A burst enters whole, or ends the process.
LEMMA BurstIsSound ==
  ASSUME DeskInv, NEW rows \in BurstRows, Blotter(rows)
  PROVE  Sound /\ (up' => meta' \ meta = BurstIds(rows))
<1>1. CASE BurstIds(rows) \cap meta # {}
  <2>1. DeskDies  BY <1>1 DEF Blotter
  <2> QED  BY <2>1, DyingIsSound
<1>2. CASE BurstIds(rows) \cap meta = {}
  <2>1. /\ meta' = meta \cup BurstIds(rows)
        /\ known' = known \cup BurstIds(rows)
        /\ live' = live \cup BurstIds(rows)
        /\ spent' = spent \cup BurstIds(rows)
        /\ orderCounter' = orderCounter + rows
        /\ up' = up
        /\ orderCounter + rows <= MaxOrders
    BY <1>2 DEF Blotter, Enter
  <2>2. orderCounter \in Nat  BY DEF DeskInv, DeskTypeOK
  <2>3. /\ rows \in Nat \ {0}
        /\ BurstIds(rows) = (orderCounter + 1)..(orderCounter + rows)
        /\ IsFiniteSet(BurstIds(rows))
        /\ Cardinality(BurstIds(rows)) = rows
    BY <2>2, BurstHasItsRows
  <2>4. IsFiniteSet(meta')  BY <2>1, <2>3, FS_Union DEF DeskInv
  <2>5. BurstIds(rows) \subseteq 1..orderCounter' /\ orderCounter' \in 0..MaxOrders
    BY <2>1, <2>2, <2>3, DoorAssumption
  <2>6. spent' \subseteq 1..orderCounter'
    BY <2>1, <2>2, <2>3, <2>5 DEF DeskInv
  <2>7. 1..orderCounter' \subseteq 1..MaxOrders  BY <2>5, DoorAssumption
  <2>8. DeskTypeOK'
    BY <2>1, <2>5, <2>6, <2>7 DEF DeskInv, DeskTypeOK
  <2>9. DeskInv'  BY <2>1, <2>4, <2>6, <2>8 DEF DeskInv, BooksAgree
  <2>10. BurstIds(rows) \cap spent = {}  BY <2>2, <2>3 DEF DeskInv
  <2>11. meta' \ meta = BurstIds(rows)  BY <1>2, <2>1
  <2> QED  BY <2>9, <2>10, <2>11 DEF Sound, GivesFreshIds
<1> QED  BY <1>1, <1>2

-----------------------------------------------------------------------------
(* The control plane *)

Inv == DoorInv /\ DeskInv

\* The requests whose bodies the server reads.
LEMMA RequestsAreCommands ==
  ASSUME NEW r \in Requests, r.path \in {"/sim/order", "/sim/blotter"}, r.body = "fine"
  PROVE  /\ r.path = "/sim/order" => r.id \in ClientIds \cup {NoId}
         /\ r.path = "/sim/blotter" => r.rows \in BurstRows
<1> DEFINE Paths == {"/sim/order", "/sim/blotter", "/sim/seed"}
           Bodies == {"fine", "not JSON", "unknown pair"}
           Shape == [method : {"POST"}, path : Paths, key : {TRUE}, body : Bodies,
                     id : ClientIds \cup {NoId}, rows : BurstRows \cup {0}]
<1>1. ASSUME NEW c \in Commands
      PROVE  c \in Shape /\ (c.path = "/sim/blotter" => c.rows \in BurstRows)
  <2>1. CASE \E id \in ClientIds \cup {NoId} : c = Request("/sim/order", "fine", id, 0)
    BY <2>1 DEF Request
  <2>2. CASE \E rows \in BurstRows : c = Request("/sim/blotter", "fine", NoId, rows)
    BY <2>2 DEF Request
  <2>3. CASE c = Request("/sim/seed", "fine", NoId, 0)  BY <2>3 DEF Request
  <2>4. CASE c = Request("/sim/seed", "not JSON", NoId, 0)  BY <2>4 DEF Request
  <2>5. CASE c = Request("/sim/order", "unknown pair", NoId, 0)  BY <2>5 DEF Request
  <2> QED  BY <2>1, <2>2, <2>3, <2>4, <2>5 DEF Commands
<1>2. PICK c \in Commands :
        \/ r = c
        \/ r = [c EXCEPT !.key = FALSE]
        \/ \E m \in {"GET", "OPTIONS"} : r = [c EXCEPT !.method = m]
        \/ \E p \in {"/sim/reset", "/healthz"} : r = [c EXCEPT !.path = p]
  BY DEF Requests
<1>3. CASE r = c  BY <1>1, <1>3
<1>4. CASE r = [c EXCEPT !.key = FALSE]  BY <1>1, <1>4
<1>5. CASE \E m \in {"GET", "OPTIONS"} : r = [c EXCEPT !.method = m]  BY <1>1, <1>5
<1>6. CASE \E p \in {"/sim/reset", "/healthz"} : r = [c EXCEPT !.path = p]  BY <1>1, <1>6
<1> QED  BY <1>2, <1>3, <1>4, <1>5, <1>6

\* What a request does to the desk is sound, and what its answer says.
LEMMA PerformIsSound ==
  ASSUME DeskInv, NEW r \in Requests, Perform(r)
  PROVE  /\ Sound
         /\ up' => Cardinality(meta' \ meta) = (IF Refuses(r) THEN 0 ELSE Owed(r))
<1>1. orderCounter \in Nat  BY DEF DeskInv, DeskTypeOK
<1>2. CASE /\ r.body # "fine" \/ (r.path = "/sim/blotter" /\ ~BurstFits(r.rows))
           /\ UNCHANGED deskVars
  <2>1. Refuses(r)  BY <1>2 DEF Refuses
  <2>2. Sound /\ meta' \ meta = {}  BY <1>2, NothingHappens
  <2> QED  BY <2>1, <2>2, FS_EmptySet
<1>3. CASE r.body = "fine" /\ r.path = "/sim/seed" /\ Reseed
  <2>1. Sound /\ meta' \ meta = {}  BY <1>3, NewDayIsSound
  <2>2. Owed(r) = 0  BY <1>3 DEF Owed
  <2> QED  BY <2>1, <2>2, FS_EmptySet
<1>4. CASE r.body = "fine" /\ r.path = "/sim/order" /\ r.id = NoId /\ SubmitFresh(TRUE, TRUE)
  <2>1. Sound /\ meta' \ meta = (IF NextId \in meta THEN {} ELSE {NextId})
    BY <1>4, FreshIdIsSound
  <2>2. Refuses(r) <=> NextId \in meta  BY <1>4 DEF Refuses
  <2>3. Owed(r) = 1  BY <1>4 DEF Owed
  <2> QED  BY <2>1, <2>2, <2>3, FS_EmptySet, FS_Singleton
<1>5. CASE r.body = "fine" /\ r.path = "/sim/order" /\ r.id # NoId /\ SubmitOwnId(r.id)
  <2>1. r.id \in ClientIds  BY <1>5, RequestsAreCommands
  <2>2. Sound /\ meta' \ meta = (IF r.id \in meta THEN {} ELSE {r.id})
    BY <1>5, <2>1, OwnIdIsSound
  <2>3. Refuses(r) <=> r.id \in meta  BY <1>5 DEF Refuses
  <2>4. Owed(r) = 1  BY <1>5 DEF Owed
  <2> QED  BY <2>2, <2>3, <2>4, FS_EmptySet, FS_Singleton
<1>6. CASE r.body = "fine" /\ r.path = "/sim/blotter" /\ Blotter(r.rows)
  <2>1. r.rows \in BurstRows  BY <1>6, RequestsAreCommands
  <2>2. Sound /\ (up' => meta' \ meta = BurstIds(r.rows))  BY <1>6, <2>1, BurstIsSound
  <2>3. Cardinality(BurstIds(r.rows)) = r.rows  BY <1>1, <2>1, BurstHasItsRows
  <2>4. ~Refuses(r)  BY <1>6 DEF Refuses, Blotter
  <2>5. Owed(r) = r.rows  BY <1>6 DEF Owed
  <2> QED  BY <2>2, <2>3, <2>4, <2>5
<1> QED  BY <1>2, <1>3, <1>4, <1>5, <1>6 DEF Perform

\* Nothing is on the desk when the server starts.
LEMMA InitIsSound ==
  ASSUME Init
  PROVE  Inv
<1>1. /\ orderCounter = 0 /\ meta = {} /\ known = {} /\ live = {} /\ spent = {} /\ up = TRUE
      /\ post = [c \in Conns |-> Idle]
      /\ life = 1 /\ honest = TRUE
  BY DEF Init, ControlInit, DeskInit
<1>2. DeskTypeOK  BY <1>1, DoorAssumption DEF DeskTypeOK
<1>3. DeskInv  BY <1>1, <1>2, FS_EmptySet DEF DeskInv, BooksAgree
<1>4. ControlTypeOK  BY <1>1, <1>2, ControlAssumption DEF ControlTypeOK
<1> QED  BY <1>1, <1>3, <1>4 DEF Inv, DoorInv, DeskInv, AnswersAreTrue

\* Every step keeps the invariant and does to the desk what is sound.
LEMMA StepIsSound ==
  ASSUME Inv, [Next]_vars
  PROVE  Inv' /\ Sound
<1> USE DEF Inv
<1>0. /\ DeskInv
      /\ post \in [Conns -> Requests \cup {Idle}]
      /\ life \in 1..MaxLives
      /\ honest = TRUE
  BY DEF DoorInv, ControlTypeOK, AnswersAreTrue, DeskInv
<1>a. ASSUME Sound, post' \in [Conns -> Requests \cup {Idle}], life' \in 1..MaxLives, honest' = TRUE
      PROVE  Inv' /\ Sound
  BY <1>a DEF Sound, DoorInv, ControlTypeOK, AnswersAreTrue, DeskInv
<1>1. CASE UNCHANGED <<deskVars, controlVars>>
  BY <1>0, <1>1, <1>a, NothingHappens DEF controlVars
<1>2. CASE PickLevel \/ TypeSize \/ ClickSubmit \/ ReceiveAnswer \/ LinkDrops \/ LinkOpens
  <2>1. UNCHANGED <<deskVars, controlVars>>
    BY <1>2 DEF PickLevel, TypeSize, ClickSubmit, ReceiveAnswer, LinkDrops, LinkOpens
  <2> QED  BY <1>1, <2>1
<1>3. CASE Serve
  <2>1. /\ SubmitFresh(Registered(mutation.qty), Legal(mutation.qty))
        /\ UNCHANGED controlVars
    BY <1>3 DEF Serve
  <2>2. Registered(mutation.qty) \in BOOLEAN /\ Legal(mutation.qty) \in BOOLEAN
    BY DEF Registered, Legal
  <2>3. Sound  BY <1>0, <2>1, <2>2, FreshIdIsSound
  <2> QED  BY <1>0, <1>a, <2>1, <2>3 DEF controlVars
<1>4. CASE DoorStep
  <2>1. CASE \E c \in Conns : Headers(c)
    <3>1. PICK c \in Conns : Headers(c)  BY <2>1
    <3>2. PICK r \in Requests : post' = [post EXCEPT ![c] = r]  BY <3>1 DEF Headers
    <3>3. UNCHANGED <<deskVars, life, honest>>  BY <3>1 DEF Headers
    <3>4. Sound  BY <1>0, <3>3, NothingHappens
    <3>5. post' \in [Conns -> Requests \cup {Idle}]  BY <1>0, <3>2
    <3> QED  BY <1>0, <1>a, <3>3, <3>4, <3>5
  <2>2. CASE OrderEnds /\ UNCHANGED controlVars
    <3>1. Sound  BY <1>0, <2>2, EndingIsSound
    <3> QED  BY <1>0, <1>a, <2>2, <3>1 DEF controlVars
  <2>3. CASE Restart
    <3>1. UNCHANGED <<orderCounter, books, spent, post, honest>> /\ life' \in 1..MaxLives
      BY <1>0, <2>3, ControlAssumption DEF Restart
    <3>2. up' \in BOOLEAN  BY <2>3 DEF Restart
    <3>3. DeskInv'  BY <1>0, <3>1, <3>2 DEF DeskInv, DeskTypeOK, BooksAgree, books
    <3>4. Sound  BY <3>1, <3>3 DEF Sound, GivesFreshIds, books
    <3> QED  BY <1>0, <1>a, <3>1, <3>4
  <2> QED  BY <1>4, <2>1, <2>2, <2>3 DEF DoorStep
<1>5. CASE BodyStep
  <2>1. PICK c \in Conns : BodyEnds(c)  BY <1>5 DEF BodyStep
  <2> DEFINE r == post[c]
  <2>2. r \in Requests  BY <1>0, <2>1 DEF BodyEnds
  <2>3. /\ Perform(r)
        /\ post' = [d \in Conns |-> IF d = c \/ ~up' THEN Idle ELSE post[d]]
        /\ honest' = (honest /\ (up' => Cardinality(meta' \ meta) =
                                          (IF Refuses(r) THEN 0 ELSE Owed(r))))
        /\ UNCHANGED life
    BY <2>1 DEF BodyEnds
  <2>4. /\ Sound
        /\ up' => Cardinality(meta' \ meta) = (IF Refuses(r) THEN 0 ELSE Owed(r))
    BY <1>0, <2>2, <2>3, PerformIsSound
  <2>5. honest' = TRUE  BY <1>0, <2>3, <2>4
  <2>6. post' \in [Conns -> Requests \cup {Idle}]  BY <1>0, <2>3
  <2> HIDE DEF r
  <2> QED  BY <1>0, <1>a, <2>3, <2>4, <2>5, <2>6
<1>6. CASE Crash
  <2>1. PICK c \in Conns : BodyBreaks(c)  BY <1>6 DEF Crash
  <2>2. /\ DeskDies
        /\ post' = [d \in Conns |-> Idle]
        /\ UNCHANGED <<life, honest>>
    BY <2>1 DEF BodyBreaks
  <2>3. Sound  BY <1>0, <2>2, DyingIsSound
  <2> QED  BY <1>0, <1>a, <2>2, <2>3
<1> QED  BY <1>1, <1>2, <1>3, <1>4, <1>5, <1>6 DEF Next, vars

-----------------------------------------------------------------------------
(* Sums over sets *)

\* The element a fold takes out of a set.
Pick(t) == CHOOSE x \in t : TRUE

\* What a fold adds up, set by set.
IsTotal(f, sizes, Sets) ==
  f = [t \in Sets |-> IF t = {} THEN 0 ELSE f[t \ {Pick(t)}] + sizes[Pick(t)]]

\* The sets with no more than k elements.
UpTo(S, k) == {t \in SUBSET S : Cardinality(t) <= k}

\* A set of numbers has a least one.
LEMMA LeastNumber ==
  ASSUME NEW S \in SUBSET Nat, S # {}
  PROVE  \E n \in S : \A k \in S : n <= k
<1> DEFINE R == {p \in Nat \X Nat : p[1] < p[2]}
<1>1. IsWellFoundedOn(R, Nat)
  BY NatLessThanWellFounded DEF OpToRel
<1>2. PICK n \in S : \A k \in S : <<k, n>> \notin R
  <2> HIDE DEF R
  <2> QED BY <1>1, WFMin
<1>3. \A k \in S : ~(k < n)
  BY <1>2
<1> QED BY <1>3

\* It is one of them.
LEMMA PickIsMember ==
  ASSUME NEW t, t # {}
  PROVE  Pick(t) \in t
BY DEF Pick

\* What is left is smaller by one.
LEMMA SmallerByOne ==
  ASSUME NEW S, IsFiniteSet(S), NEW t \in SUBSET S, t # {}
  PROVE  /\ t \ {Pick(t)} \in SUBSET S
         /\ Cardinality(t) \in Nat
         /\ Cardinality(t \ {Pick(t)}) = Cardinality(t) - 1
<1>1. IsFiniteSet(t)
  BY FS_Subset
<1>2. Cardinality(t) \in Nat
  BY <1>1, FS_CardinalityType
<1>3. Cardinality(t \ {Pick(t)}) = Cardinality(t) - 1
  BY <1>1, PickIsMember, FS_RemoveElement
<1> QED BY <1>2, <1>3

\* The totals exist on all subsets of a finite set.
LEMMA TotalsExist ==
  ASSUME NEW S, IsFiniteSet(S), NEW sizes
  PROVE  \E f : IsTotal(f, sizes, SUBSET S)
<1> DEFINE Bad == {n \in Nat : ~ \E f : IsTotal(f, sizes, UpTo(S, n))}
<1>1. Bad = {}
  <2>1. SUFFICES ASSUME Bad # {} PROVE FALSE
    OBVIOUS
  <2>2. PICK n \in Bad : \A k \in Bad : n <= k
    <3>1. Bad \subseteq Nat
      OBVIOUS
    <3> HIDE DEF Bad
    <3> QED BY <2>1, <3>1, LeastNumber
  <2>3. n \in Nat /\ ~ \E f : IsTotal(f, sizes, UpTo(S, n))
    OBVIOUS
  <2>4. CASE n = 0
    <3>1. \A t \in UpTo(S, 0) : t = {}
      <4>1. SUFFICES ASSUME NEW t \in UpTo(S, 0), t # {} PROVE FALSE
        OBVIOUS
      <4>2. IsFiniteSet(t)
        BY FS_Subset DEF UpTo
      <4> QED BY <4>1, <4>2, FS_EmptySet, FS_CardinalityType DEF UpTo
    <3>2. PICK f : f = [t \in UpTo(S, 0) |-> 0]
      OBVIOUS
    <3>3. IsTotal(f, sizes, UpTo(S, 0))
      BY <3>1, <3>2 DEF IsTotal
    <3> QED BY <2>3, <2>4, <3>3
  <2>5. CASE n # 0
    <3>1. n - 1 \in Nat /\ n - 1 \notin Bad
      <4> HIDE DEF Bad
      <4> QED BY <2>2, <2>3, <2>5
    <3>2. PICK f : IsTotal(f, sizes, UpTo(S, n - 1))
      BY <3>1
    <3>3. PICK g : g = [t \in UpTo(S, n) |->
                          IF t = {} THEN 0 ELSE f[t \ {Pick(t)}] + sizes[Pick(t)]]
      OBVIOUS
    <3>4. ASSUME NEW t \in UpTo(S, n - 1)
          PROVE  t \in UpTo(S, n) /\ g[t] = f[t]
      <4>1. t \in SUBSET S /\ Cardinality(t) <= n - 1
        BY DEF UpTo
      <4>2. Cardinality(t) \in Nat
        BY <4>1, FS_Subset, FS_CardinalityType
      <4>3. t \in UpTo(S, n)
        BY <2>3, <4>1, <4>2 DEF UpTo
      <4> QED BY <3>2, <3>3, <4>3 DEF IsTotal
    <3>5. ASSUME NEW t \in UpTo(S, n), t # {}
          PROVE  g[t \ {Pick(t)}] = f[t \ {Pick(t)}]
      <4>1. t \in SUBSET S /\ Cardinality(t) <= n
        BY DEF UpTo
      <4>2. t \ {Pick(t)} \in UpTo(S, n - 1)
        BY <2>3, <3>5, <4>1, SmallerByOne DEF UpTo
      <4> QED BY <3>4, <4>2
    <3>6. IsTotal(g, sizes, UpTo(S, n))
      BY <3>3, <3>5 DEF IsTotal
    <3> QED BY <2>3, <3>6
  <2> QED BY <2>4, <2>5
<1>2. Cardinality(S) \in Nat /\ UpTo(S, Cardinality(S)) = SUBSET S
  <2>1. Cardinality(S) \in Nat
    BY FS_CardinalityType
  <2>2. \A t \in SUBSET S : Cardinality(t) <= Cardinality(S)
    BY FS_Subset
  <2> QED BY <2>1, <2>2 DEF UpTo
<1>3. \E f : IsTotal(f, sizes, UpTo(S, Cardinality(S)))
  BY <1>1, <1>2
<1> QED BY <1>2, <1>3

\* They are sums: never negative, and no smaller than what they add up.
LEMMA TotalsCount ==
  ASSUME NEW S, IsFiniteSet(S), NEW sizes, \A i \in S : sizes[i] \in Nat,
         NEW f, IsTotal(f, sizes, SUBSET S)
  PROVE  \A t \in SUBSET S : f[t] \in Nat /\ \A i \in t : f[t] >= sizes[i]
<1> DEFINE Good(t) == f[t] \in Nat /\ \A i \in t : f[t] >= sizes[i]
           Bad == {n \in Nat : \E t \in SUBSET S : Cardinality(t) = n /\ ~Good(t)}
<1>1. SUFFICES Bad = {}
  <2>1. \A t \in SUBSET S : Cardinality(t) \in Nat
    BY FS_Subset, FS_CardinalityType
  <2> QED BY <2>1
<1>2. SUFFICES ASSUME Bad # {} PROVE FALSE
  OBVIOUS
<1>3. PICK n \in Bad : \A k \in Bad : n <= k
  <2>1. Bad \subseteq Nat
    OBVIOUS
  <2> HIDE DEF Bad
  <2> QED BY <1>2, <2>1, LeastNumber
<1>4. PICK t \in SUBSET S : Cardinality(t) = n /\ ~Good(t)
  OBVIOUS
<1>5. CASE t = {}
  <2>1. f[t] = 0
    BY <1>5 DEF IsTotal
  <2> QED BY <1>4, <1>5, <2>1
<1>6. CASE t # {}
  <2> DEFINE rest == t \ {Pick(t)}
  <2>1. rest \in SUBSET S /\ n \in Nat /\ Cardinality(rest) = n - 1 /\ Pick(t) \in t
    BY <1>4, <1>6, SmallerByOne, PickIsMember
  <2>2. n # 0
    BY <1>4, <1>6, FS_Subset, FS_EmptySet
  <2>3. Good(rest)
    <3>1. n - 1 \in Nat /\ n - 1 \notin Bad
      <4> HIDE DEF Bad
      <4> QED BY <1>3, <2>1, <2>2
    <3> QED BY <2>1, <3>1
  <2>4. f[t] = f[rest] + sizes[Pick(t)]
    BY <1>6 DEF IsTotal
  <2>5. sizes[Pick(t)] \in Nat
    BY <2>1
  <2>6. \A i \in t : i = Pick(t) \/ i \in rest
    OBVIOUS
  <2>7. \A i \in t : sizes[i] \in Nat
    OBVIOUS
  <2>8. Good(t)
    <3> HIDE DEF rest
    <3> QED BY <2>3, <2>4, <2>5, <2>6, <2>7
  <2> QED BY <1>4, <2>8
<1> QED BY <1>5, <1>6

\* The volume down to an offer is positive.
LEMMA VolumeIsPositive ==
  ASSUME NEW levels \in Seq(Offers \cup {NoLevel}), NEW n \in DOMAIN levels,
         levels[n] # NoLevel
  PROVE  Volume(levels, n) \in Nat \ {0}
<1> DEFINE walk == SubSeq(levels, 1, n)
           sizes == [i \in 1..n |-> walk[i].size]
<1>1. /\ n \in 1..Len(levels) /\ n \in Nat
      /\ DOMAIN walk = 1..n
      /\ \A i \in 1..n : walk[i] = levels[i] /\ levels[i] \in Offers \cup {NoLevel}
  OBVIOUS
<1>2. IsFiniteSet(1..n)
  BY <1>1, FS_Interval
<1>3. \A i \in 1..n : sizes[i] \in Nat
  BY <1>1 DEF Offers, NoLevel
<1>4. sizes[n] \in Nat \ {0}
  BY <1>1 DEF Offers, NoLevel
<1> DEFINE f == CHOOSE f : f = [t \in SUBSET (1..n) |->
                    IF t = {} THEN 0 ELSE f[t \ {Pick(t)}] + walk[Pick(t)].size]
<1>5. Volume(levels, n) = f[1..n]
  <2>1. DOMAIN SubSeq(levels, 1, n) = 1..n
    BY <1>1
  <2> QED BY <2>1 DEF Volume, FoldSeq, FoldFunction, FoldFunctionOnSet, MapThenFoldSet, Pick
<1>6. f = [t \in SUBSET (1..n) |->
             IF t = {} THEN 0 ELSE f[t \ {Pick(t)}] + walk[Pick(t)].size]
  <2>1. PICK g : IsTotal(g, sizes, SUBSET (1..n))
    BY <1>2, TotalsExist
  <2>2. \A t \in SUBSET (1..n) : t # {} => sizes[Pick(t)] = walk[Pick(t)].size
    BY PickIsMember
  <2>3. g = [t \in SUBSET (1..n) |->
               IF t = {} THEN 0 ELSE g[t \ {Pick(t)}] + walk[Pick(t)].size]
    <3> HIDE DEF sizes, walk
    <3> QED BY <2>1, <2>2 DEF IsTotal
  <2> HIDE DEF walk
  <2> QED BY <2>3
<1>7. IsTotal(f, sizes, SUBSET (1..n))
  <2>1. \A t \in SUBSET (1..n) : t # {} => sizes[Pick(t)] = walk[Pick(t)].size
    BY PickIsMember
  <2> HIDE DEF sizes, walk, f
  <2> QED BY <1>6, <2>1 DEF IsTotal
<1> HIDE DEF f, sizes
<1>8. f[1..n] \in Nat /\ f[1..n] >= sizes[n]
  <2>1. \A t \in SUBSET (1..n) : f[t] \in Nat /\ \A i \in t : f[t] >= sizes[i]
    BY <1>2, <1>3, <1>7, TotalsCount
  <2>2. 1..n \in SUBSET (1..n) /\ n \in 1..n
    BY <1>1
  <2> QED BY <2>1, <2>2
<1> QED BY <1>4, <1>5, <1>8

-----------------------------------------------------------------------------
(* The ticket *)

\* Ids of the server's form that are on the books are those it has given.
CountedInv == meta \cap (1..MaxOrders) \subseteq spent

\* What the page's submit keeps: while it has no answer it has entered no more
\* orders than answers were lost; and it is refused always or never, since its
\* size does not change under way.
TicketInv ==
  /\ TicketTypeOK
  /\ IsFiniteSet(mine)
  /\ lost \in Nat
  /\ mutation.at = "none" => mutation = NoMutation
  /\ link = "down" => mutation.at \in {"none", "page"}
  /\ Cardinality(mine) <= lost + 1
  /\ mutation.at \in {"page", "uplink"} => Cardinality(mine) <= lost
  /\ mutation.at # "none" /\ mine # {} => Registered(mutation.qty)
  /\ mutation.at = "downlink" =>
       IF mutation.answer = Refused THEN mine = {} ELSE mutation.answer \in mine
  /\ form.picked => Legal(form.qty)

\* What is picked out of the depth is an order's size.
LEMMA PickIsLegal ==
  ASSUME NEW levels \in AskSides, NEW row \in DepthRows(levels)
  PROVE  Legal(PickOf("ask", row).qty)
<1>1. levels \in Seq(Offers \cup {NoLevel})
  BY TicketAssumption
<1>2. PICK n \in DOMAIN levels : levels[n] # NoLevel /\ row = DepthRow(levels, n)
  BY DEF DepthRows
<1>3. row.cumSize \in Nat \ {0}
  BY <1>1, <1>2, VolumeIsPositive DEF DepthRow
<1> DEFINE both == {row.cumSize, MaxOrderQty}
<1>4. PickOf("ask", row).qty = Min(both)
  BY DEF PickOf
<1>5. Min(both) \in both /\ \A x \in both : Min(both) <= x
  <2>1. \E x \in both : \A y \in both : x <= y
    BY <1>3, DepthAssumption
  <2> HIDE DEF both
  <2> QED BY <2>1 DEF Min
<1> QED BY <1>3, <1>4, <1>5, DepthAssumption DEF Legal

\* No order enters under an id of the server's form that the server has not given.
LEMMA CountedIsKept ==
  ASSUME Inv, CountedInv, OwnIdsAreOther, [Next]_vars
  PROVE  CountedInv'
<1>0. DeskInv
  BY DEF Inv
<1>1. CASE UNCHANGED deskVars
  BY <1>1 DEF CountedInv, deskVars, books
<1>2. ASSUME NEW reg \in BOOLEAN, NEW running \in BOOLEAN, SubmitFresh(reg, running)
      PROVE  CountedInv'
  BY <1>2 DEF SubmitFresh, EnterNone, Enter, CountedInv, books
<1>3. ASSUME NEW id \in ClientIds, SubmitOwnId(id)
      PROVE  CountedInv'
  BY <1>3 DEF SubmitOwnId, EnterNone, Enter, CountedInv, OwnIdsAreOther, books
<1>4. CASE EmptyBooks
  BY <1>4 DEF EmptyBooks, CountedInv
<1>5. ASSUME NEW rows, Blotter(rows)
      PROVE  CountedInv'
  BY <1>4, <1>5 DEF Blotter, DeskDies, Enter, CountedInv
<1>6. ASSUME NEW c \in Conns, BodyEnds(c)
      PROVE  CountedInv'
  <2> DEFINE r == post[c]
  <2>1. r \in Requests /\ Perform(r)
    BY <1>6 DEF BodyEnds, Inv, DoorInv, ControlTypeOK
  <2> HIDE DEF r
  <2>2. CASE UNCHANGED deskVars
    BY <1>1, <2>2
  <2>3. CASE Reseed
    BY <1>4, <2>3 DEF Reseed
  <2>4. CASE SubmitFresh(TRUE, TRUE)
    BY <1>2, <2>4
  <2>5. CASE r.body = "fine" /\ r.path = "/sim/order" /\ r.id # NoId /\ SubmitOwnId(r.id)
    <3>1. r.id \in ClientIds
      BY <2>1, <2>5, RequestsAreCommands
    <3> QED BY <1>3, <2>5, <3>1
  <2>6. CASE Blotter(r.rows)
    BY <1>5, <2>6
  <2> QED BY <2>1, <2>2, <2>3, <2>4, <2>5, <2>6 DEF Perform
<1>7. CASE OrderEnds
  BY <1>7 DEF OrderEnds, CountedInv
<1>8. CASE \E c \in Conns : BodyBreaks(c)
  BY <1>4, <1>8 DEF BodyBreaks, DeskDies
<1>9. CASE Restart
  BY <1>9 DEF Restart, CountedInv, books
<1>10. CASE Serve
  <2>1. SubmitFresh(Registered(mutation.qty), Legal(mutation.qty))
    BY <1>10 DEF Serve
  <2>2. Registered(mutation.qty) \in BOOLEAN /\ Legal(mutation.qty) \in BOOLEAN
    BY DEF Registered, Legal
  <2> QED BY <1>2, <2>1, <2>2
<1>11. CASE PickLevel \/ TypeSize \/ ClickSubmit \/ ReceiveAnswer \/ LinkDrops \/ LinkOpens
  BY <1>1, <1>11 DEF PickLevel, TypeSize, ClickSubmit, ReceiveAnswer, LinkDrops, LinkOpens
<1>12. CASE \E c \in Conns : Headers(c)
  BY <1>1, <1>12 DEF Headers
<1>13. CASE UNCHANGED vars
  BY <1>1, <1>13 DEF vars
<1> QED
  BY <1>6, <1>7, <1>8, <1>9, <1>10, <1>11, <1>12, <1>13
  DEF Next, DoorStep, BodyStep, Crash

\* The socket goes: only an answer under way is lost, and it is counted.
LEMMA LinkGoesIsSound ==
  ASSUME TicketInv, LinkGoes, UNCHANGED <<form, mine>>
  PROVE  TicketInv'
<1>1. /\ lost \in Nat /\ Cardinality(mine) <= lost + 1
      /\ mutation.qty \in Int
      /\ link' = "down"
  BY DEF TicketInv, TicketTypeOK, LinkGoes
<1>2. IsFiniteSet(mine) /\ Cardinality(mine) \in Nat
  BY FS_CardinalityType DEF TicketInv
<1>3. CASE ~Loading
  <2>1. mutation = NoMutation /\ mutation' = NoMutation /\ lost' = lost
    BY <1>3 DEF Loading, LinkGoes, NoMutation
  <2> QED BY <1>1, <2>1 DEF TicketInv, TicketTypeOK, NoMutation
<1>4. CASE Loading
  <2>1. mutation' = [at |-> "page", qty |-> mutation.qty, answer |-> Nothing]
    BY <1>1, <1>4 DEF LinkGoes, Sent
  <2>2. lost' \in Nat /\ Cardinality(mine) <= lost'
    <3>1. mutation.at \in {"page", "uplink", "downlink"}
      BY <1>4 DEF TicketInv, TicketTypeOK, Loading
    <3> QED BY <1>1, <1>2, <3>1 DEF LinkGoes, TicketInv
  <2>3. mine # {} => Registered(mutation.qty)
    BY <1>4 DEF TicketInv, Loading
  <2> QED BY <1>1, <1>2, <2>1, <2>2, <2>3 DEF TicketInv, TicketTypeOK
<1> QED BY <1>3, <1>4

\* The order is served: entered once, or refused as it was before.
LEMMA ServeIsSound ==
  ASSUME Inv, CountedInv, OwnIdsAreOther, TicketInv, Serve
  PROVE  TicketInv'
<1> DEFINE order == [life |-> life, id |-> NextId]
           taken == meta' # meta
<1>1. /\ mutation.at = "uplink"
      /\ SubmitFresh(Registered(mutation.qty), Legal(mutation.qty))
      /\ mutation' = [mutation EXCEPT !.at = "downlink",
                                      !.answer = IF taken THEN order ELSE Refused]
      /\ mine' = IF taken THEN mine \cup {order} ELSE mine
      /\ UNCHANGED <<form, link, lost>>
  BY DEF Serve
<1>2. DeskInv /\ life \in 1..MaxLives
  BY DEF Inv, DoorInv, ControlTypeOK
<1>3. orderCounter \in Nat /\ NextId = orderCounter + 1 /\ NextId \in 1..MaxOrders
  BY <1>1, <1>2, DoorAssumption DEF SubmitFresh, NextId, DeskInv, DeskTypeOK
<1>4. NextId \notin meta
  BY <1>2, <1>3 DEF CountedInv, DeskInv
<1>5. taken <=> Registered(mutation.qty)
  BY <1>1, <1>4 DEF SubmitFresh, EnterNone, Enter, books
<1>6. order \in Orders /\ order # Refused
  BY <1>2, <1>3, ControlAssumption DEF Orders, Refused
<1>7. /\ mutation \in [at : {"none", "page", "uplink", "downlink"}, qty : Int,
                       answer : Orders \cup {Nothing, Refused}]
      /\ mine \subseteq Orders /\ IsFiniteSet(mine)
      /\ lost \in Nat /\ Cardinality(mine) <= lost
      /\ mine # {} => Registered(mutation.qty)
  BY <1>1 DEF TicketInv, TicketTypeOK
<1>8. /\ mutation'.at = "downlink" /\ mutation'.qty = mutation.qty
      /\ mutation'.answer = IF taken THEN order ELSE Refused
      /\ mutation' \in [at : {"none", "page", "uplink", "downlink"}, qty : Int,
                        answer : Orders \cup {Nothing, Refused}]
  <2>1. PICK a : a = IF taken THEN order ELSE Refused
    OBVIOUS
  <2>2. a \in Orders \cup {Nothing, Refused}
    BY <1>6, <2>1
  <2>3. mutation' = [mutation EXCEPT !.at = "downlink", !.answer = a]
    BY <1>1, <2>1
  <2>4. mutation' = [at |-> "downlink", qty |-> mutation.qty, answer |-> a]
    BY <1>7, <2>3
  <2> QED BY <1>7, <2>1, <2>2, <2>4
<1> HIDE DEF order, taken
<1>9. /\ mine' \subseteq Orders /\ IsFiniteSet(mine')
      /\ Cardinality(mine') <= lost + 1
      /\ mine' # {} => Registered(mutation.qty)
  <2>1. CASE taken
    <3>1. mine' = mine \cup {order}
      BY <1>1, <2>1 DEF order, taken
    <3>2. Cardinality(mine) \in Nat
      BY <1>7, FS_CardinalityType
    <3> QED BY <1>5, <1>6, <1>7, <2>1, <3>1, <3>2, FS_AddElement
  <2>2. CASE ~taken
    <3>1. mine' = mine
      BY <1>1, <2>2 DEF order, taken
    <3>2. Cardinality(mine) \in Nat
      BY <1>7, FS_CardinalityType
    <3> QED BY <1>7, <3>1, <3>2
  <2> QED BY <2>1, <2>2
<1>10. IF mutation'.answer = Refused THEN mine' = {} ELSE mutation'.answer \in mine'
  <2>1. CASE taken
    <3>1. mine' = mine \cup {order}
      BY <1>1, <2>1 DEF order, taken
    <3> QED BY <1>6, <1>8, <2>1, <3>1
  <2>2. CASE ~taken
    <3>1. mine' = mine
      BY <1>1, <2>2 DEF order, taken
    <3> QED BY <1>5, <1>7, <1>8, <2>2, <3>1
  <2> QED BY <2>1, <2>2
<1>11. form' = form /\ link' = link /\ lost' = lost
  BY <1>1
<1>12. TicketTypeOK'
  BY <1>8, <1>9, <1>11 DEF TicketInv, TicketTypeOK, Orders
<1>13. link = "open"
  BY <1>1 DEF TicketInv, TicketTypeOK
<1>14. Registered(mutation'.qty) <=> Registered(mutation.qty)
  BY <1>8 DEF Registered
<1>15. form.picked => Legal(form'.qty)
  BY <1>11 DEF TicketInv
<1> QED
  BY <1>7, <1>8, <1>9, <1>10, <1>11, <1>12, <1>13, <1>14, <1>15 DEF TicketInv, Registered, Legal

\* Every step of the page, the socket and the door keeps what the click is due.
LEMMA TicketIsKept ==
  ASSUME Inv, CountedInv, OwnIdsAreOther, TicketInv, [Next]_vars
  PROVE  TicketInv'
<1>0. /\ form \in [qty : Int, picked : BOOLEAN]
      /\ link \in {"down", "open"}
      /\ mutation \in [at : {"none", "page", "uplink", "downlink"}, qty : Int,
                       answer : Orders \cup {Nothing, Refused}]
      /\ mine \subseteq Orders
  BY DEF TicketInv, TicketTypeOK
<1>1. CASE UNCHANGED <<form, link, mutation, mine, lost>>
  BY <1>1 DEF TicketInv, TicketTypeOK, Registered, Legal, Orders
<1>2. CASE PickLevel
  <2>1. PICK levels \in AskSides : \E row \in DepthRows(levels) :
           form' = [qty |-> PickOf("ask", row).qty, picked |-> TRUE]
    BY <1>2 DEF PickLevel
  <2>2. PICK row \in DepthRows(levels) :
           form' = [qty |-> PickOf("ask", row).qty, picked |-> TRUE]
    BY <2>1
  <2>3. Legal(form'.qty) /\ form' \in [qty : Int, picked : BOOLEAN]
    BY <2>2, PickIsLegal, DepthAssumption DEF Legal
  <2>4. UNCHANGED <<link, mutation, mine, lost>>
    BY <1>2 DEF PickLevel
  <2> QED BY <2>3, <2>4 DEF TicketInv, TicketTypeOK, Registered, Legal, Orders
<1>3. CASE TypeSize
  <2>1. /\ form' \in [qty : Int, picked : BOOLEAN] /\ form'.picked = FALSE
        /\ UNCHANGED <<link, mutation, mine, lost>>
    BY <1>3, TicketAssumption DEF TypeSize
  <2> QED BY <2>1 DEF TicketInv, TicketTypeOK, Registered, Legal, Orders
<1>4. CASE ClickSubmit
  <2>1. /\ mutation' = [at |-> IF link = "open" THEN "uplink" ELSE "page",
                        qty |-> form.qty, answer |-> Nothing]
        /\ mine' = {} /\ lost' = 0
        /\ UNCHANGED <<form, link>>
    BY <1>4 DEF ClickSubmit, Sent
  <2>2. IsFiniteSet(mine') /\ Cardinality(mine') = 0
    BY <2>1, FS_EmptySet
  <2>3. TicketTypeOK'
    BY <1>0, <2>1 DEF TicketTypeOK
  <2> QED BY <2>1, <2>2, <2>3 DEF TicketInv, Registered, Legal
<1>5. CASE Serve
  BY <1>5, ServeIsSound
<1>6. CASE ReceiveAnswer
  <2>1. mutation' = NoMutation /\ UNCHANGED <<form, link, mine, lost>>
    BY <1>6 DEF ReceiveAnswer
  <2>2. TicketTypeOK'
    BY <1>0, <2>1 DEF TicketTypeOK, NoMutation
  <2> QED BY <2>1, <2>2 DEF TicketInv, NoMutation, Registered, Legal
<1>7. CASE LinkDrops
  BY <1>7, LinkGoesIsSound DEF LinkDrops
<1>8. CASE LinkOpens
  <2>1. link' = "open" /\ UNCHANGED <<form, mine, lost>>
    BY <1>8 DEF LinkOpens
  <2>2. CASE ~Loading
    <3>1. mutation' = mutation
      BY <1>8, <2>2 DEF LinkOpens
    <3> QED BY <2>1, <3>1 DEF TicketInv, TicketTypeOK, Registered, Legal, Orders
  <2>3. CASE Loading
    <3>1. mutation' = [at |-> "uplink", qty |-> mutation.qty, answer |-> Nothing]
      BY <1>8, <2>3 DEF LinkOpens, Sent
    <3>2. Cardinality(mine) <= lost
      <4>1. mutation.at = "page"
        BY <1>8, <2>3 DEF LinkOpens, TicketInv, Loading
      <4> QED BY <4>1 DEF TicketInv
    <3>3. mine # {} => Registered(mutation.qty)
      BY <2>3 DEF TicketInv, Loading
    <3> QED BY <1>0, <2>1, <3>1, <3>2, <3>3 DEF TicketInv, TicketTypeOK, Registered, Legal
  <2> QED BY <2>2, <2>3
<1>9. CASE DoorStep
  BY <1>1, <1>9 DEF DoorStep, ticketVars
<1>10. CASE BodyStep
  <2>1. UNCHANGED <<form, mine>>
    BY <1>10 DEF BodyStep
  <2>2. CASE up'
    BY <1>1, <1>10, <2>1, <2>2 DEF BodyStep
  <2>3. CASE ~up'
    BY <1>10, <2>1, <2>3, LinkGoesIsSound DEF BodyStep
  <2> QED BY <2>2, <2>3
<1>11. CASE Crash
  BY <1>11, LinkGoesIsSound DEF Crash
<1>12. CASE UNCHANGED vars
  BY <1>1, <1>12 DEF vars, ticketVars
<1> QED
  BY <1>2, <1>3, <1>4, <1>5, <1>6, <1>7, <1>8, <1>9, <1>10, <1>11, <1>12 DEF Next

\* Nothing is under way when the page starts.
LEMMA TicketInitOK ==
  ASSUME Init
  PROVE  CountedInv /\ TicketInv
<1>1. /\ form = [qty |-> 1, picked |-> FALSE]
      /\ link = "down" /\ mutation = NoMutation
      /\ mine = {} /\ lost = 0 /\ meta = {}
  BY DEF Init, ControlInit, DeskInit
<1>2. IsFiniteSet(mine) /\ Cardinality(mine) = 0
  BY <1>1, FS_EmptySet
<1>3. TicketTypeOK
  BY <1>1 DEF TicketTypeOK, NoMutation
<1> QED BY <1>1, <1>2, <1>3 DEF TicketInv, CountedInv, NoMutation

-----------------------------------------------------------------------------
(* The theorems *)

LEMMA InvAlways == Spec => []Inv
<1>1. Init => Inv  BY InitIsSound
<1>2. Inv /\ [Next]_vars => Inv'  BY StepIsSound
<1> QED  BY <1>1, <1>2, PTL DEF Spec

\* Both books hold the same ids and every answer of the control plane is true,
\* whatever ids clients choose and however many bodies arrive side by side
\* (server.ts, submitOrderShared and blotter; control.ts, handlePost).
THEOREM DoorIsHonest == Spec => []DoorInv
<1>1. Inv => DoorInv  BY DEF Inv
<1> QED  BY <1>1, InvAlways, PTL

\* While clients choose ids of another form than the server's, an id the server
\* has given never returns in the life of the process, over any number of new
\* days (server.ts, submitOrderShared and reseed).
THEOREM GivenIdsNeverReturn ==
  ASSUME ClientIds \cap (1..MaxOrders) = {}
  PROVE  Spec => ServerIdsNeverReturn
<1>1. Inv /\ [Next]_vars =>
        [up' => ((meta' \ meta) \cap 1..MaxOrders) \cap spent = {}]_deskVars
  BY StepIsSound DEF Sound, GivesFreshIds, OwnIdsAreOther
<1> QED  BY <1>1, InvAlways, PTL DEF Spec, ServerIdsNeverReturn

\* While clients choose ids of another form than the server's, a click on the
\* ticket enters one order, and one more only for an answer that went down with
\* its socket; the answer the page is shown is true, and what it picked out of
\* the depth is a size the engine takes: for any sides of a book, sizes typed,
\* sockets lost and processes (TradingPanel.tsx, client.ts, depth.ts).
THEOREM ClicksEnterWhatTheySay ==
  ASSUME ClientIds \cap (1..MaxOrders) = {}
  PROVE  Spec => []ClicksAreHonoured
<1>0. OwnIdsAreOther
  BY DEF OwnIdsAreOther
<1>1. Init => CountedInv /\ TicketInv
  BY TicketInitOK
<1>2. Inv /\ CountedInv /\ TicketInv /\ [Next]_vars => (CountedInv /\ TicketInv)'
  BY <1>0, CountedIsKept, TicketIsKept
<1>3. TicketInv => ClicksAreHonoured
  BY DEF TicketInv, ClicksAreHonoured
<1> QED BY <1>1, <1>2, <1>3, InvAlways, PTL DEF Spec
=============================================================================
