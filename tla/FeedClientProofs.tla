-------------------------- MODULE FeedClientProofs --------------------------
(***************************************************************************)
(* The shell's invariants, for every environment: any frames, any close    *)
(* codes.  Each step of the shell is a lemma of its own, so that HotPlane, *)
(* whose steps contain these, can cite them.                               *)
(***************************************************************************)
EXTENDS FeedClient, TLAPS, SequenceTheorems, WellFoundedInduction

-----------------------------------------------------------------------------
(* The folds of StreamCore *)

\* A non-empty set of positions of a list has a last one.
LEMMA LastPosition ==
  ASSUME NEW n \in Nat, NEW S \in SUBSET (1..n), S # {}
  PROVE  \E i \in S : \A j \in S : j <= i
<1> DEFINE R == {p \in Nat \X Nat : p[1] < p[2]}
           T == {n - i : i \in S}
<1>1. IsWellFoundedOn(R, Nat)
  BY NatLessThanWellFounded DEF OpToRel
<1>2. T \subseteq Nat /\ T # {}
  <2>1. T \subseteq Nat
    OBVIOUS
  <2>2. PICK i \in S : TRUE
    OBVIOUS
  <2>3. n - i \in T
    OBVIOUS
  <2> QED BY <2>1, <2>3
<1>3. PICK m \in T : \A k \in T : <<k, m>> \notin R
  <2> HIDE DEF R, T
  <2> QED BY <1>1, <1>2, WFMin
<1>4. PICK i \in S : m = n - i
  OBVIOUS
<1>5. ASSUME NEW j \in S PROVE j <= i
  <2>1. n - j \in T /\ n - j \in Nat /\ m \in Nat
    BY <1>2
  <2>2. ~ (n - j < m)
    BY <2>1, <1>3
  <2> QED BY <2>2, <1>4
<1> QED BY <1>5

\* LastTouch is what its name says: a touch of the level, and none is later.
LEMMA LastTouchIsLast ==
  ASSUME NEW records \in Seq(Record), NEW l, Touched(records, l) # {}
  PROVE  /\ LastTouch(records, l) \in Touched(records, l)
         /\ \A j \in Touched(records, l) : j <= LastTouch(records, l)
<1>1. Touched(records, l) \subseteq 1..Len(records) /\ Len(records) \in Nat
  BY DEF Touched
<1>2. \E i \in Touched(records, l) : \A j \in Touched(records, l) : j <= i
  BY <1>1, LastPosition
<1> QED BY <1>2 DEF LastTouch

\* The last touch is determined: a touch that no other exceeds is it.
LEMMA LastTouchUnique ==
  ASSUME NEW records \in Seq(Record), NEW l,
         NEW i \in Touched(records, l), \A j \in Touched(records, l) : j <= i
  PROVE  LastTouch(records, l) = i
<1>1. Touched(records, l) \subseteq Nat
  BY DEF Touched
<1>2. LastTouch(records, l) \in Touched(records, l) /\ i <= LastTouch(records, l)
  BY LastTouchIsLast
<1>3. LastTouch(records, l) <= i
  BY <1>2
<1> QED BY <1>1, <1>2, <1>3

\* Folding records into a book gives a book.
LEMMA UpsertType ==
  ASSUME NEW book \in Book, NEW records \in Seq(Record)
  PROVE  Upsert(book, records) \in Book
<1> SUFFICES ASSUME NEW l \in Levels
             PROVE  (IF Touched(records, l) = {} THEN book[l]
                     ELSE records[LastTouch(records, l)].quote) \in Quotes \cup {NoQuote}
  BY DEF Upsert, Book
<1>1. CASE Touched(records, l) = {}
  BY <1>1 DEF Book
<1>2. CASE Touched(records, l) # {}
  <2>1. LastTouch(records, l) \in DOMAIN records
    BY <1>2, LastTouchIsLast DEF Touched
  <2>2. records[LastTouch(records, l)] \in Record
    BY <2>1
  <2> QED BY <1>2, <2>2 DEF Record
<1> QED BY <1>1, <1>2

\* A frame with no records (a heartbeat) changes nothing.
LEMMA UpsertNothing ==
  ASSUME NEW book \in Book
  PROVE  Upsert(book, << >>) = book
<1>1. \A l : Touched(<< >>, l) = {}
  BY DEF Touched
<1> QED BY <1>1 DEF Upsert, Book

\* A snapshot replaces every level: what the book was before is irrelevant.
LEMMA UpsertSnapshot ==
  ASSUME NEW old \in Book, NEW book \in Book
  PROVE  /\ SnapshotRecords(book) \in Seq(Record)
         /\ Len(SnapshotRecords(book)) = NLevels
         /\ Upsert(old, SnapshotRecords(book)) = book
<1> DEFINE s == SnapshotRecords(book)
<1>1. s \in Seq(Record) /\ Len(s) = NLevels /\ DOMAIN s = 1..NLevels
  BY CoreAssumption DEF SnapshotRecords, Levels, Record, Book
<1>2. ASSUME NEW l \in Levels
      PROVE  Touched(s, l) # {} /\ s[LastTouch(s, l)].quote = book[l]
  <2>1. Touched(s, l) = {l}
    BY <1>1, <1>2 DEF Touched, SnapshotRecords, Levels
  <2>2. l <= l
    BY <1>2, CoreAssumption DEF Levels
  <2>3. LastTouch(s, l) = l
    <3> HIDE DEF s
    <3>1. l \in Touched(s, l) /\ \A j \in Touched(s, l) : j <= l
      BY <2>1, <2>2
    <3>2. s \in Seq(Record)
      BY <1>1
    <3> QED BY <3>1, <3>2, LastTouchUnique
  <2> QED BY <2>1, <2>3, <1>2 DEF SnapshotRecords
<1>3. Upsert(old, s) = [l \in Levels |-> book[l]]
  <2> HIDE DEF s
  <2> QED BY <1>2 DEF Upsert
<1> QED BY <1>1, <1>3 DEF Book

\* Records may be cut into frames anywhere: folding one more record is the same
\* as folding the longer list at once.
LEMMA UpsertOneMore ==
  ASSUME NEW book \in Book, NEW records \in Seq(Record),
         NEW n \in 0..(Len(records) - 1)
  PROVE  Upsert(Upsert(book, SubSeq(records, 1, n)), <<records[n + 1]>>)
           = Upsert(book, SubSeq(records, 1, n + 1))
<1> DEFINE short == SubSeq(records, 1, n)
           long == SubSeq(records, 1, n + 1)
           one == <<records[n + 1]>>
<1>1. /\ short \in Seq(Record) /\ Len(short) = n
      /\ long \in Seq(Record) /\ Len(long) = n + 1
      /\ \A i \in 1..n : short[i] = records[i] /\ long[i] = records[i]
      /\ long[n + 1] = records[n + 1]
      /\ one \in Seq(Record) /\ Len(one) = 1 /\ one[1] = records[n + 1]
      /\ n \in Nat
  OBVIOUS
<1> HIDE DEF short, long, one
<1> SUFFICES ASSUME NEW l \in Levels
             PROVE  Upsert(Upsert(book, short), one)[l] = Upsert(book, long)[l]
  BY DEF Upsert, short, long, one
<1>2. CASE records[n + 1].level = l
  <2>1. 1 \in Touched(one, l) /\ \A j \in Touched(one, l) : j <= 1
    BY <1>1, <1>2 DEF Touched
  <2>2. n + 1 \in Touched(long, l) /\ \A j \in Touched(long, l) : j <= n + 1
    BY <1>1, <1>2 DEF Touched
  <2>3. LastTouch(one, l) = 1 /\ LastTouch(long, l) = n + 1
    BY <1>1, <2>1, <2>2, LastTouchUnique
  <2> QED BY <1>1, <2>1, <2>2, <2>3 DEF Upsert
<1>3. CASE records[n + 1].level # l
  <2>1. Touched(one, l) = {}
    BY <1>1, <1>3 DEF Touched
  <2>2. Touched(long, l) = Touched(short, l)
    BY <1>1, <1>3 DEF Touched
  <2>3. Touched(short, l) # {} =>
          /\ LastTouch(long, l) = LastTouch(short, l)
          /\ LastTouch(short, l) \in 1..n
    <3> SUFFICES ASSUME Touched(short, l) # {}
                 PROVE  /\ LastTouch(long, l) = LastTouch(short, l)
                        /\ LastTouch(short, l) \in 1..n
      OBVIOUS
    <3>1. /\ LastTouch(short, l) \in Touched(short, l)
          /\ \A j \in Touched(short, l) : j <= LastTouch(short, l)
      BY <1>1, LastTouchIsLast
    <3>2. LastTouch(long, l) = LastTouch(short, l)
      BY <1>1, <2>2, <3>1, LastTouchUnique
    <3>3. LastTouch(short, l) \in 1..n
      BY <1>1, <3>1 DEF Touched
    <3> QED BY <3>2, <3>3
  <2>4. Upsert(Upsert(book, short), one)[l] = Upsert(book, short)[l]
    BY <2>1 DEF Upsert
  <2> QED BY <1>1, <2>2, <2>3, <2>4 DEF Upsert
<1> QED BY <1>2, <1>3

-----------------------------------------------------------------------------
(* The shell *)

\* The core's handlers keep the core's type.
LEMMA CoreType ==
  ASSUME NEW c \in Core
  PROVE  /\ \A f : /\ f.type \in DataTypes \cup {"HEARTBEAT"}
                   /\ f.firstSeq \in Int
                   /\ f.type \in DataTypes => f.firstSeq \in Nat
                   /\ f.records \in Seq(Record)
                   => OnFrame(c, f) \in Core
         /\ OnDamage(c) \in Core
         /\ OnSilence(c) \in Core
<1>1. ASSUME NEW reason PROVE Resync(c, reason) \in Core
  <2> DEFINE g == IF reason \in {"gap", "heartbeat-loss"} THEN c.gaps + 1 ELSE c.gaps
  <2>1. g \in Nat
    BY DEF Core
  <2>2. \A n \in Nat : [c EXCEPT !.status = "resync", !.expectedSeq = NoSeq,
                                  !.gaps = n] \in Core
    BY DEF Core
  <2>3. [c EXCEPT !.status = "resync", !.expectedSeq = NoSeq, !.gaps = g] \in Core
    <3> HIDE DEF g
    <3> QED BY <2>1, <2>2
  <2> QED BY <2>3 DEF Resync
<1>2. ASSUME NEW f,
             f.type \in DataTypes \cup {"HEARTBEAT"},
             f.firstSeq \in Int,
             f.type \in DataTypes => f.firstSeq \in Nat,
             f.records \in Seq(Record)
      PROVE  OnFrame(c, f) \in Core
  <2>1. EmptyBook \in Book /\ c.books \in Book
    BY DEF EmptyBook, Book, Core
  <2>2. /\ Upsert(EmptyBook, f.records) \in Book
        /\ Upsert(c.books, f.records) \in Book
    BY <1>2, <2>1, UpsertType
  <2>3. Len(f.records) \in Nat
    BY <1>2
  <2>4. CASE f.type = "SNAPSHOT"
    <3>1. f.firstSeq + Len(f.records) \in Nat
      BY <1>2, <2>3, <2>4 DEF DataTypes
    <3> QED BY <2>2, <2>4, <3>1 DEF OnFrame, OnSnapshot, Core
  <2>5. CASE f.type = "HEARTBEAT"
    BY <1>1, <2>5 DEF OnFrame, OnHeartbeat
  <2>6. CASE f.type = "DELTA"
    <3>1. f.firstSeq + Len(f.records) \in Nat
      BY <1>2, <2>3, <2>6 DEF DataTypes
    <3>2. OnDelta(c, f) \in Core
      BY <1>1, <2>2, <3>1 DEF OnDelta, Core
    <3> QED BY <2>6, <3>2 DEF OnFrame
  <2> QED BY <1>2, <2>4, <2>5, <2>6 DEF DataTypes
<1> QED BY <1>1, <1>2 DEF OnDamage, OnSilence

-----------------------------------------------------------------------------
(* One lemma per action, for the types and ShellInv together. *)

Shell == ClientTypeOK /\ ShellInv

LEMMA TimerFiresShell == Shell /\ TimerFires => Shell'
  BY DEF Shell, ClientTypeOK, ShellInv, OneDriver, StopsOnlyWhenTold,
         WireFollowsOffer, TimerFires, Dial, NoEnding

LEMMA OpenedShell == Shell /\ Opened => Shell'
  BY ClientAssumption DEF Shell, ClientTypeOK, ShellInv, OneDriver,
         StopsOnlyWhenTold, WireFollowsOffer, Opened

\* A step of the core that may raise a resync.
LEMMA CoreStepShell ==
  /\ Shell
  /\ core' \in Core
  /\ HandleEvents
  /\ UNCHANGED <<timer, terminal, closed, attempt, protocols, wire, ending>>
  => Shell'
<1> SUFFICES ASSUME Shell, core' \in Core, HandleEvents,
                    UNCHANGED <<timer, terminal, closed, attempt, protocols, wire, ending>>
             PROVE  Shell'
  OBVIOUS
<1> USE DEF Shell, ClientTypeOK, ShellInv, OneDriver, StopsOnlyWhenTold, WireFollowsOffer
<1>1. CASE RaisesResync(core, core')
  <2>1. resyncing' = TRUE /\ sock' = IF sock = "none" THEN "none" ELSE "closing"
    BY <1>1 DEF HandleEvents, DropSocket
  <2> QED BY <2>1
<1>2. CASE ~ RaisesResync(core, core')
  <2>1. resyncing' = resyncing /\ sock' = sock
    BY <1>2 DEF HandleEvents
  <2> QED BY <2>1
<1> QED BY <1>1, <1>2

LEMMA DamagedShell == Shell /\ DamagedMessage => Shell'
  BY CoreStepShell, CoreType DEF Shell, ClientTypeOK, DamagedMessage

LEMMA WatchdogShell == Shell /\ WatchdogFindsSilence => Shell'
  BY CoreStepShell, CoreType DEF Shell, ClientTypeOK, WatchdogFindsSilence

LEMMA OnCloseShell ==
  ASSUME NEW code \in Nat, Shell, OnClose(code)
  PROVE  Shell'
<1>1. ClientTypeOK'
  <2> USE DEF Shell, ClientTypeOK, OnClose
  <2>1. ending' \in [code : Nat, by : {"client", "server"}]
    <3>1. CASE sock = "closing"
      BY <3>1
    <3>2. CASE sock # "closing"
      BY <3>2
    <3> QED BY <3>1, <3>2
  <2>2. attempt' \in 0..MaxAttempt /\ timer' \in {"none", "quick", "backoff"}
    BY ClientAssumption
  <2>3. resyncing' \in BOOLEAN /\ terminal' \in BOOLEAN
    OBVIOUS
  <2> QED BY <2>1, <2>2, <2>3
<1>2. ShellInv'
  BY DEF Shell, ClientTypeOK, ShellInv, OneDriver, StopsOnlyWhenTold,
         WireFollowsOffer, OnClose, Decision
<1> QED BY <1>1, <1>2 DEF Shell

LEMMA CommandShell == Shell /\ Command => Shell'
<1> SUFFICES ASSUME Shell, Command PROVE Shell'
  OBVIOUS
<1> USE DEF Shell, ClientTypeOK, ShellInv, OneDriver, StopsOnlyWhenTold, WireFollowsOffer
<1>1. CASE Resume
  <2>1. ClientTypeOK'
    <3>1. attempt' \in 0..MaxAttempt
      BY <1>1, ClientAssumption DEF Resume
    <3>2. ending' \in [code : Nat, by : {"client", "server"}]
      BY <1>1 DEF Resume, Dial, NoEnding
    <3> QED BY <1>1, <3>1, <3>2 DEF Resume, Dial
  <2>2. ShellInv'
    BY <1>1 DEF Resume, Dial
  <2> QED BY <2>1, <2>2
<1>2. ASSUME NEW offer \in {"v1", "v2"}, SetProtocols(offer) PROVE Shell'
  BY <1>2 DEF SetProtocols, DropSocket
<1>3. CASE Close
  BY <1>3 DEF Close, DropSocket
<1> QED BY <1>1, <1>2, <1>3 DEF Command

LEMMA StutterShell == Shell /\ UNCHANGED clientVars => Shell'
  BY DEF Shell, ClientTypeOK, ShellInv, OneDriver, StopsOnlyWhenTold,
         WireFollowsOffer, clientVars

LEMMA InitShell == ClientInit => Shell
<1>1. InitCore \in Core
  BY DEF InitCore, Core, EmptyBook, Book
<1>2. ASSUME ClientInit PROVE ClientTypeOK
  <2>1. core \in Core
    BY <1>1, <1>2 DEF ClientInit
  <2>2. attempt \in 0..MaxAttempt
    BY <1>2, ClientAssumption DEF ClientInit
  <2>3. ending \in [code : Nat, by : {"client", "server"}]
    BY <1>2 DEF ClientInit, NoEnding
  <2> QED BY <1>2, <2>1, <2>2, <2>3 DEF ClientInit, ClientTypeOK
<1>3. ClientInit => ShellInv
  BY DEF ClientInit, ShellInv, OneDriver, StopsOnlyWhenTold, WireFollowsOffer
<1> QED BY <1>2, <1>3 DEF Shell

LEMMA StepShell == Shell /\ [ClientNext]_clientVars => Shell'
<1> SUFFICES ASSUME Shell, [ClientNext]_clientVars PROVE Shell'
  OBVIOUS
<1>1. CASE TimerFires
  BY <1>1, TimerFiresShell
<1>2. CASE Opened
  BY <1>2, OpenedShell
<1>3. ASSUME NEW f \in EnvFrames, Message(f) PROVE Shell'
  <2>1. core \in Core
    BY DEF Shell, ClientTypeOK
  <2>2. OnFrame(core, f) \in Core
    BY <2>1, CoreType, ClientAssumption
  <2> QED BY <1>3, <2>2, CoreStepShell DEF Message
<1>4. CASE DamagedMessage
  BY <1>4, DamagedShell
<1>5. CASE WatchdogFindsSilence
  BY <1>5, WatchdogShell
<1>6. ASSUME NEW code \in CloseCodes, OnClose(code) PROVE Shell'
  BY <1>6, OnCloseShell, ClientAssumption
<1>7. CASE Command
  BY <1>7, CommandShell
<1>8. CASE UNCHANGED clientVars
  BY <1>8, StutterShell
<1> QED BY <1>1, <1>2, <1>3, <1>4, <1>5, <1>6, <1>7, <1>8 DEF ClientNext

\* The shell's variables keep their types and its invariant, whatever arrives.
THEOREM ShellCorrect == ClientSpec => [](ClientTypeOK /\ ShellInv)
<1>1. ClientInit => Shell
  BY InitShell
<1>2. Shell /\ [ClientNext]_clientVars => Shell'
  BY StepShell
<1>3. Shell => ClientTypeOK /\ ShellInv
  BY DEF Shell
<1> QED BY <1>1, <1>2, <1>3, PTL DEF ClientSpec

\* A client that is not closed always has exactly one way forward: a socket, a
\* reconnect timer, or the user's "continue" (connect.ts onclose, resume).
THEOREM OneDriverAlways == ClientSpec => []OneDriver
<1>1. ShellInv => OneDriver
  BY DEF ShellInv
<1> QED BY <1>1, ShellCorrect, PTL

\* The client stops for the server's 1000 or 4002 and for nothing else, and what
\* it dialled is the offer in force (connect.ts onclose, setProtocols).
THEOREM StopsOnlyWhenToldAlways ==
  ClientSpec => [](StopsOnlyWhenTold /\ WireFollowsOffer)
<1>1. ShellInv => StopsOnlyWhenTold /\ WireFollowsOffer
  BY DEF ShellInv
<1> QED BY <1>1, ShellCorrect, PTL
=============================================================================
