--------------------------- MODULE HotPlaneProofs ---------------------------
(***************************************************************************)
(* HotInv is inductive, for any number of levels, any batch sizes and any  *)
(* bounds; ExactIsTold and GapsAreSkips follow, and so does the refinement *)
(* of LadderMirror.                                                        *)
(***************************************************************************)
EXTENDS HotPlane, FeedClientProofs

-----------------------------------------------------------------------------
(* Frames *)

LEMMA LevelsNonEmpty == NLevels \in Nat /\ NLevels > 0
  BY CoreAssumption

LEMMA MarketBookIsBook == MarketBook \subseteq Book
  BY DEF MarketBook, Book

LEMMA MarketRecordIsRecord ==
  ASSUME NEW n \in Nat, NEW updates \in [1..n -> MarketRecord]
  PROVE  updates \in Seq(Record) /\ Len(updates) = n
<1>1. MarketRecord \subseteq Record
  BY DEF MarketRecord, Record
<1>2. updates \in [1..n -> Record]
  BY <1>1
<1> HIDE DEF MarketRecord, Record
<1> QED BY <1>2

\* What a frame of each kind is to the provers, in one piece.
SnapshotParts(f, firstSeq, book) ==
  /\ f \in SentFrame
  /\ f.type = "SNAPSHOT"
  /\ f.after = book
  /\ f.firstSeq \in Nat
  /\ f.records # << >>
  /\ f.after = Upsert(EmptyBook, f.records)
  /\ Start(f) = firstSeq
  /\ Reach(f) = firstSeq + NLevels

LEMMA SnapshotFrame ==
  ASSUME NEW book \in Book, NEW firstSeq, firstSeq \in Nat,
         NEW f, f = Frame(Snapshot(firstSeq, book), book)
  PROVE  SnapshotParts(f, firstSeq, book)
<1>1. EmptyBook \in Book
  BY DEF EmptyBook, Book
<1>2. /\ SnapshotRecords(book) \in Seq(Record)
      /\ Len(SnapshotRecords(book)) = NLevels
      /\ Upsert(EmptyBook, SnapshotRecords(book)) = book
  BY <1>1, UpsertSnapshot
<1>3. /\ f.type = "SNAPSHOT" /\ f.firstSeq = firstSeq
      /\ f.records = SnapshotRecords(book) /\ f.after = book
      /\ f = [type |-> "SNAPSHOT", firstSeq |-> firstSeq,
              records |-> SnapshotRecords(book), after |-> book]
  BY DEF Frame, Snapshot
<1>4. f \in SentFrame
  BY <1>2, <1>3 DEF SentFrame, DataTypes
<1>5. f.records # << >>
  BY <1>2, <1>3, LevelsNonEmpty
<1>6. Start(f) = firstSeq /\ Reach(f) = firstSeq + NLevels
  BY <1>2, <1>3 DEF Start, Reach
<1> QED BY <1>2, <1>3, <1>4, <1>5, <1>6 DEF SnapshotParts

DeltaParts(f, firstSeq, records, after) ==
  /\ f \in SentFrame
  /\ f.type = "DELTA"
  /\ f.firstSeq = firstSeq
  /\ f.records = records
  /\ f.after = after
  /\ Start(f) = firstSeq
  /\ Reach(f) = firstSeq + Len(records)

LEMMA DeltaFrame ==
  ASSUME NEW after \in Book, NEW firstSeq, firstSeq \in Nat,
         NEW records \in Seq(Record), records # << >>,
         NEW f, f = Frame(Delta(firstSeq, records), after)
  PROVE  DeltaParts(f, firstSeq, records, after)
<1>1. /\ f.type = "DELTA" /\ f.firstSeq = firstSeq
      /\ f.records = records /\ f.after = after
      /\ f = [type |-> "DELTA", firstSeq |-> firstSeq,
              records |-> records, after |-> after]
  BY DEF Frame, Delta
<1>2. f \in SentFrame
  BY <1>1 DEF SentFrame, DataTypes
<1> QED BY <1>1, <1>2 DEF DeltaParts, Start, Reach

HeartbeatParts(f, lastSeq, book) ==
  /\ f \in SentFrame
  /\ f.type = "HEARTBEAT"
  /\ f.records = << >>
  /\ f.after = book
  /\ Start(f) = lastSeq + 1
  /\ Reach(f) = lastSeq + 1

LEMMA HeartbeatFrame ==
  ASSUME NEW book \in Book, NEW lastSeq, lastSeq \in Int,
         NEW f, f = Frame(Heartbeat(lastSeq), book)
  PROVE  HeartbeatParts(f, lastSeq, book)
<1>1. /\ f.type = "HEARTBEAT" /\ f.firstSeq = lastSeq
      /\ f.records = << >> /\ f.after = book
      /\ f = [type |-> "HEARTBEAT", firstSeq |-> lastSeq,
              records |-> << >>, after |-> book]
  BY DEF Frame, Heartbeat
<1>2. << >> \in Seq(Record) /\ Len(<< >>) = 0
  OBVIOUS
<1>3. f \in SentFrame
  BY <1>1, <1>2 DEF SentFrame
<1> QED BY <1>1, <1>2, <1>3 DEF HeartbeatParts, Start, Reach

LEMMA ReachType ==
  ASSUME NEW f \in SentFrame
  PROVE  Start(f) \in Int /\ Reach(f) \in Int /\ Start(f) <= Reach(f)
         /\ Len(f.records) \in Nat
  BY DEF SentFrame, Start, Reach

-----------------------------------------------------------------------------
(* What every send does: frames fs, in order behind all that was sent, the *)
(* last of which tells the wire everything it is told.                     *)

Sends(fs) ==
  /\ fs \in Seq(SentFrame)
  /\ fs # << >>
  /\ chan' = chan \o fs
  /\ srv' # "none"
  /\ sock = "connecting" /\ chan = << >> => fs[1].type = "SNAPSHOT"
  /\ \A i \in 1..Len(fs) : FrameOK(fs[i], nextSeq', told')
  /\ \A i \in 1..(Len(fs) - 1) :
        Reach(fs[i]) = Start(fs[i + 1]) /\ Follows(fs[i].after, fs[i + 1])
  /\ Start(fs[1]) = nextSeq /\ Follows(told, fs[1])
  /\ fs[Len(fs)].after = told' /\ Reach(fs[Len(fs)]) = nextSeq'
  /\ nextSeq' > nextSeq \/ (nextSeq' = nextSeq /\ told' = told)
  /\ UNCHANGED <<skipped, skips, clientVars>>

LEMMA SendWire ==
  ASSUME HotInv, NEW fs, Sends(fs), TypeOK',
         srv = "none" => sock = "connecting"
  PROVE  WireInv'
<1> USE DEF Sends
<1>1. /\ chan \in Seq(SentFrame) /\ nextSeq \in Nat /\ nextSeq' \in Nat
      /\ sock' = sock /\ skipped' = skipped
  BY DEF HotInv, TypeOK, clientVars
<1>2. /\ Len(chan') = Len(chan) + Len(fs) /\ Len(fs) > 0
      /\ \A i \in 1..Len(chan) : chan'[i] = chan[i]
      /\ \A i \in 1..Len(fs) : chan'[Len(chan) + i] = fs[i]
      /\ Len(chan) \in Nat /\ Len(fs) \in Nat
      /\ chan' # << >>
  BY <1>1
<1>3. ASSUME NEW i \in 1..Len(chan') PROVE FrameOK(chan'[i], nextSeq', told')
  <2>1. CASE i <= Len(chan)
    <3>1. chan'[i] = chan[i] /\ chan[i] \in SentFrame /\ FrameOK(chan[i], nextSeq, told)
      BY <1>1, <1>2, <2>1 DEF HotInv, WireInv
    <3>2. Reach(chan[i]) \in Int
      BY <3>1, ReachType
    <3> QED BY <1>1, <3>1, <3>2 DEF FrameOK, Reach, Start
  <2>2. CASE i > Len(chan)
    <3>1. i - Len(chan) \in 1..Len(fs) /\ chan'[i] = fs[i - Len(chan)]
      BY <1>2, <2>2
    <3> QED BY <3>1 DEF FrameOK, Reach, Start
  <2> QED BY <1>2, <2>1, <2>2
<1>4. ASSUME NEW i \in 1..(Len(chan') - 1) PROVE Continues(chan[i], chan[i + 1])'
  <2>1. CASE i < Len(chan)
    <3>1. /\ chan'[i] = chan[i] /\ chan'[i + 1] = chan[i + 1]
          /\ Continues(chan[i], chan[i + 1])
      BY <1>2, <2>1 DEF HotInv, WireInv
    <3> QED BY <1>1, <3>1 DEF Continues, Reach, Start, Follows
  <2>2. CASE i = Len(chan)
    <3>1. /\ chan'[i] = chan[i] /\ chan'[i + 1] = fs[1] /\ chan # << >>
          /\ chan[i] \in SentFrame
      BY <1>1, <1>2, <2>2
    <3>2. FrameOK(chan[i], nextSeq, told) /\ LastFrameOK
      BY <1>2, <2>2 DEF HotInv, WireInv
    <3>3. /\ Reach(chan[i]) <= nextSeq /\ chan[i].after = told
          /\ ~skipped => Reach(chan[i]) = nextSeq
      BY <2>2, <3>1, <3>2 DEF FrameOK, LastFrameOK
    <3> QED BY <1>1, <3>1, <3>3 DEF Continues, Reach, Start, Follows
  <2>3. CASE i > Len(chan)
    <3>1. /\ i - Len(chan) \in 1..(Len(fs) - 1)
          /\ chan'[i] = fs[i - Len(chan)]
          /\ chan'[i + 1] = fs[(i - Len(chan)) + 1]
      BY <1>2, <2>3
    <3>2. fs[i - Len(chan)] \in SentFrame
      BY <1>2, <3>1
    <3>3. Reach(fs[i - Len(chan)]) \in Int
      BY <3>2, ReachType
    <3> QED BY <3>1, <3>3 DEF Continues, Reach, Start, Follows
  <2> QED BY <1>2, <2>1, <2>2, <2>3
<1>5. LastFrameOK'
  <2>1. chan'[Len(chan')] = fs[Len(fs)]
    BY <1>2
  <2> QED BY <2>1 DEF LastFrameOK, Reach, Start
<1>6. sock = "connecting" => chan' # << >> /\ chan'[1].type = "SNAPSHOT"
  <2>1. CASE chan = << >>
    <3>1. chan'[1] = fs[1]
      BY <1>2, <2>1
    <3> QED BY <1>2, <2>1, <3>1
  <2>2. CASE chan # << >>
    <3>1. chan'[1] = chan[1] /\ srv # "none"
      BY <1>1, <1>2, <2>2 DEF HotInv, WireInv
    <3> QED BY <1>2, <3>1 DEF HotInv, WireInv
  <2> QED BY <2>1, <2>2
<1>7. sock' = "none" => srv' = "none"
  BY <1>1 DEF HotInv, WireInv
<1> QED BY <1>1, <1>3, <1>4, <1>5, <1>6, <1>7 DEF WireInv

LEMMA SendReader ==
  ASSUME HotInv, NEW fs, Sends(fs), TypeOK',
         srv = "none" => sock = "connecting"
  PROVE  ReaderInv'
<1> USE DEF Sends
<1>1. /\ chan \in Seq(SentFrame) /\ nextSeq \in Nat /\ nextSeq' \in Nat
      /\ sock' = sock /\ skipped' = skipped /\ core' = core
      /\ core.expectedSeq \in Int
  BY DEF HotInv, TypeOK, clientVars, ClientTypeOK, Core, NoSeq
<1>2. /\ chan' # << >>
      /\ chan = << >> => chan'[1] = fs[1]
      /\ chan # << >> => chan'[1] = chan[1]
  BY <1>1
<1> SUFFICES ASSUME Based'
             PROVE  /\ core.status = "live"
                    /\ core.expectedSeq # NoSeq
                    /\ core.expectedSeq <= nextSeq'
                    /\ core.expectedSeq = nextSeq' => core.books = told'
                    /\ core.expectedSeq <= Start(chan'[1])
                    /\ ~skipped => core.expectedSeq = Start(chan'[1])
                    /\ Follows(core.books, chan'[1])
  BY <1>1, <1>2 DEF ReaderInv, Start, Follows
<1>3. Based
  BY <1>1, <1>2 DEF Based
<1>4. /\ core.status = "live" /\ core.expectedSeq # NoSeq
      /\ core.expectedSeq <= nextSeq
      /\ core.expectedSeq = nextSeq => core.books = told
      /\ chan = << >> => core.books = told /\ (~skipped => core.expectedSeq = nextSeq)
      /\ chan # << >> =>
            /\ core.expectedSeq <= Start(chan[1])
            /\ ~skipped => core.expectedSeq = Start(chan[1])
            /\ Follows(core.books, chan[1])
  BY <1>3 DEF HotInv, ReaderInv
<1>5. core.expectedSeq = nextSeq' => core.books = told'
  BY <1>1, <1>4
<1>6. CASE chan = << >>
  BY <1>1, <1>2, <1>4, <1>5, <1>6
<1>7. CASE chan # << >>
  BY <1>1, <1>2, <1>4, <1>5, <1>7
<1> QED BY <1>6, <1>7

LEMMA SendKeeps ==
  ASSUME HotInv, NEW fs, Sends(fs), TypeOK',
         srv = "none" => sock = "connecting"
  PROVE  HotInv'
<1>1. WireInv' /\ ReaderInv'
  BY SendWire, SendReader
<1>2. ShellInv'
  <2>1. UNCHANGED clientVars /\ Shell
    BY DEF Sends, HotInv, TypeOK, Shell
  <2> QED BY <2>1, StutterShell DEF Shell
<1>3. GapInv'
  BY DEF Sends, HotInv, GapInv, GapToCome, clientVars
<1> QED BY <1>1, <1>2, <1>3 DEF HotInv

-----------------------------------------------------------------------------
(* The server actions that send *)

LEMMA NewestType ==
  ASSUME NEW updates \in Seq(Record), updates # << >>
  PROVE  Newest(updates) \in Seq(Record) /\ Newest(updates) # << >>
<1>1. CASE Len(updates) <= UnbatchedMax
  BY <1>1 DEF Newest
<1>2. CASE ~ (Len(updates) <= UnbatchedMax)
  <2>1. /\ UnbatchedMax \in Nat \ {0} /\ Len(updates) \in Nat
        /\ Newest(updates) = SubSeq(updates, Len(updates) - UnbatchedMax + 1, Len(updates))
    BY <1>2, HotAssumption DEF Newest
  <2>2. PICK m : m = Len(updates) - UnbatchedMax + 1
    OBVIOUS
  <2>3. m \in 1..Len(updates) /\ Len(updates) - m + 1 = UnbatchedMax
    BY <1>2, <2>1, <2>2
  <2>4. /\ SubSeq(updates, m, Len(updates)) \in Seq(Record)
        /\ Len(SubSeq(updates, m, Len(updates))) = Len(updates) - m + 1
    BY <2>1, <2>3, SubSeqProperties
  <2>5. Newest(updates) \in Seq(Record) /\ Len(Newest(updates)) = UnbatchedMax
    BY <2>1, <2>2, <2>3, <2>4
  <2> QED BY <2>1, <2>5
<1> QED BY <1>1, <1>2

LEMMA UnbatchedChain ==
  ASSUME NEW us \in Seq(Record), us # << >>, told \in Book, nextSeq \in Nat
  PROVE  LET fs == UnbatchedFrames(us)
         IN  /\ fs \in Seq(SentFrame) /\ Len(fs) = Len(us)
             /\ \A i \in 1..Len(us) :
                  /\ fs[i].type = "DELTA"
                  /\ fs[i].firstSeq = nextSeq + i - 1
                  /\ fs[i].records = <<us[i]>>
                  /\ fs[i].after = Upsert(told, SubSeq(us, 1, i))
                  /\ Start(fs[i]) = nextSeq + i - 1
                  /\ Reach(fs[i]) = nextSeq + i
             /\ \A i \in 1..(Len(us) - 1) : Follows(fs[i].after, fs[i + 1])
             /\ Follows(told, fs[1])
<1> DEFINE fs == UnbatchedFrames(us)
           one(i) == <<us[i]>>
<1>1. ASSUME NEW i \in 1..Len(us)
      PROVE  /\ fs[i] \in SentFrame
             /\ fs[i].type = "DELTA" /\ fs[i].firstSeq = nextSeq + i - 1
             /\ fs[i].records = one(i)
             /\ fs[i].after = Upsert(told, SubSeq(us, 1, i))
             /\ Start(fs[i]) = nextSeq + i - 1 /\ Reach(fs[i]) = nextSeq + i
  <2>1. PICK f, after, first, recs :
          /\ after = Upsert(told, SubSeq(us, 1, i))
          /\ first = nextSeq + i - 1
          /\ recs = one(i)
          /\ f = fs[i]
    OBVIOUS
  <2>2. f = Frame(Delta(first, recs), after)
    BY <2>1 DEF UnbatchedFrames
  <2>3. SubSeq(us, 1, i) \in Seq(Record)
    OBVIOUS
  <2>4. after \in Book
    BY <2>1, <2>3, UpsertType
  <2>5. /\ recs \in Seq(Record) /\ recs # << >> /\ Len(recs) = 1
        /\ first \in Nat /\ first + 1 = nextSeq + i
    BY <2>1
  <2>6. /\ f \in SentFrame
        /\ f.type = "DELTA" /\ f.firstSeq = first
        /\ f.records = recs /\ f.after = after
        /\ Start(f) = first /\ Reach(f) = first + Len(recs)
    <3> HIDE DEF fs, one
    <3>1. DeltaParts(f, first, recs, after)
      BY <2>2, <2>4, <2>5, DeltaFrame
    <3> QED BY <3>1 DEF DeltaParts
  <2> HIDE DEF fs, one
  <2> QED BY <2>1, <2>5, <2>6
<1>2. fs \in Seq(SentFrame) /\ Len(fs) = Len(us)
  <2>1. fs = [i \in 1..Len(us) |-> fs[i]] /\ Len(us) \in Nat
    BY DEF UnbatchedFrames
  <2> HIDE DEF fs
  <2> QED BY <1>1, <2>1
<1>3. Follows(told, fs[1])
  <2>1. 1 \in 1..Len(us) /\ 0 \in 0..(Len(us) - 1)
    OBVIOUS
  <2>2. SubSeq(us, 1, 0) = << >> /\ Upsert(told, << >>) = told
    BY UpsertNothing
  <2>3. Upsert(Upsert(told, SubSeq(us, 1, 0)), <<us[0 + 1]>>) = Upsert(told, SubSeq(us, 1, 0 + 1))
    BY <2>1, UpsertOneMore
  <2>4. Upsert(told, one(1)) = Upsert(told, SubSeq(us, 1, 1))
    <3>1. 0 + 1 = 1
      OBVIOUS
    <3>2. Upsert(told, <<us[0 + 1]>>) = Upsert(told, SubSeq(us, 1, 0 + 1))
      BY <2>2, <2>3
    <3> QED BY <3>1, <3>2
  <2> HIDE DEF fs, one
  <2> QED BY <1>1, <2>1, <2>4 DEF Follows
<1>4. ASSUME NEW i \in 1..(Len(us) - 1) PROVE Follows(fs[i].after, fs[i + 1])
  <2>1. i \in 0..(Len(us) - 1) /\ i \in 1..Len(us) /\ i + 1 \in 1..Len(us)
    OBVIOUS
  <2>2. Upsert(Upsert(told, SubSeq(us, 1, i)), one(i + 1)) = Upsert(told, SubSeq(us, 1, i + 1))
    BY <2>1, UpsertOneMore
  <2> HIDE DEF fs, one
  <2> QED BY <1>1, <2>1, <2>2 DEF Follows
<1> QED BY <1>1, <1>2, <1>3, <1>4

LEMMA TickSends ==
  ASSUME HotInv, NEW updates \in Seq(Record), Tick(updates)
  PROVE  srv = "open" /\ TypeOK' /\ \E fs : Sends(fs)
<1> DEFINE us == IF batchMode THEN updates ELSE Newest(updates)
           frames == IF batchMode THEN BatchFrames(us) ELSE UnbatchedFrames(us)
<1>1. /\ us \in Seq(Record) /\ us # << >> /\ Len(us) \in Nat /\ Len(us) > 0
      /\ told \in Book /\ nextSeq \in Nat /\ chan \in Seq(SentFrame)
      /\ srv = "open" /\ srv' = "open"
      /\ chan' = chan \o frames /\ nextSeq' = nextSeq + Len(us)
      /\ told' = Upsert(told, us)
  BY NewestType DEF Tick, Send, HotInv, TypeOK
<1>2. told' \in Book
  BY <1>1, UpsertType
<1>3. /\ frames \in Seq(SentFrame) /\ frames # << >>
      /\ \A i \in 1..Len(frames) : FrameOK(frames[i], nextSeq', told')
      /\ \A i \in 1..(Len(frames) - 1) :
            Reach(frames[i]) = Start(frames[i + 1]) /\ Follows(frames[i].after, frames[i + 1])
      /\ Start(frames[1]) = nextSeq /\ Follows(told, frames[1])
      /\ frames[Len(frames)].after = told' /\ Reach(frames[Len(frames)]) = nextSeq'
  <2>1. CASE batchMode
    <3>1. /\ frames = BatchFrames(us) /\ Len(frames) = 1
          /\ frames[1] = Frame(Delta(nextSeq, us), Upsert(told, us))
      BY <2>1 DEF BatchFrames
    <3>0. PICK f, after : /\ f = frames[1] /\ after = Upsert(told, us)
                          /\ f = Frame(Delta(nextSeq, us), after)
      BY <3>1
    <3>2. /\ frames[1] \in SentFrame /\ frames[1].type = "DELTA"
          /\ frames[1].firstSeq \in Nat /\ frames[1].records = us
          /\ frames[1].after = Upsert(told, us)
          /\ Start(frames[1]) = nextSeq /\ Reach(frames[1]) = nextSeq + Len(us)
      <4> HIDE DEF us, frames
      <4>1. after \in Book
        BY <1>1, <3>0, UpsertType
      <4>2. /\ f \in SentFrame /\ f.type = "DELTA"
            /\ f.firstSeq \in Nat /\ f.records = us /\ f.after = after
            /\ Start(f) = nextSeq /\ Reach(f) = nextSeq + Len(us)
        <5>1. DeltaParts(f, nextSeq, us, after)
          BY <1>1, <3>0, <4>1, DeltaFrame
        <5> QED BY <1>1, <5>1 DEF DeltaParts
      <4> QED BY <3>0, <4>2
    <3>3. frames \in Seq(SentFrame) /\ frames # << >>
      <4>1. frames = <<f>>
        BY <3>0, <3>1 DEF BatchFrames
      <4>2. f \in SentFrame
        BY <3>0, <3>2
      <4> HIDE DEF us, frames
      <4>3. <<f>> \in Seq(SentFrame) /\ <<f>> # << >>
        BY <4>2
      <4> QED BY <4>1, <4>3
    <3> HIDE DEF us, frames
    <3> QED BY <1>1, <3>1, <3>2, <3>3 DEF FrameOK, Follows
  <2>2. CASE ~batchMode
    <3>1. frames = UnbatchedFrames(us)
      BY <2>2
    <3> HIDE DEF us, frames
    <3>2. /\ frames \in Seq(SentFrame) /\ Len(frames) = Len(us)
          /\ \A i \in 1..Len(us) :
               /\ frames[i].type = "DELTA"
               /\ frames[i].firstSeq = nextSeq + i - 1
               /\ frames[i].records = <<us[i]>>
               /\ frames[i].after = Upsert(told, SubSeq(us, 1, i))
               /\ Start(frames[i]) = nextSeq + i - 1
               /\ Reach(frames[i]) = nextSeq + i
          /\ \A i \in 1..(Len(us) - 1) : Follows(frames[i].after, frames[i + 1])
          /\ Follows(told, frames[1])
      BY <1>1, <3>1, UnbatchedChain
    <3>3. SubSeq(us, 1, Len(us)) = us
      BY <1>1
    <3>4. ASSUME NEW i \in 1..Len(us) PROVE FrameOK(frames[i], nextSeq', told')
      <4>1. <<us[i]>> # << >>
        OBVIOUS
      <4>2. Reach(frames[i]) = nextSeq' => i = Len(us)
        BY <1>1, <3>2
      <4>3. /\ frames[i].type = "DELTA" /\ frames[i].records = <<us[i]>>
            /\ frames[i].firstSeq \in Nat
            /\ Reach(frames[i]) <= nextSeq'
        BY <1>1, <3>2
      <4>4. i = Len(us) => frames[i].after = told'
        BY <1>1, <3>2, <3>3
      <4> QED BY <4>1, <4>2, <4>3, <4>4 DEF FrameOK
    <3>5. ASSUME NEW i \in 1..(Len(us) - 1)
          PROVE  Reach(frames[i]) = Start(frames[i + 1]) /\ Follows(frames[i].after, frames[i + 1])
      <4>1. i \in 1..Len(us) /\ i + 1 \in 1..Len(us)
        BY <1>1
      <4> QED BY <1>1, <3>2, <4>1
    <3>6. 1 \in 1..Len(us) /\ Len(us) \in 1..Len(us)
      BY <1>1
    <3>7. Start(frames[1]) = nextSeq
      BY <1>1, <3>2, <3>6
    <3>8. frames[Len(us)].after = told' /\ Reach(frames[Len(us)]) = nextSeq'
      BY <1>1, <3>2, <3>3, <3>6
    <3>9. frames # << >>
      BY <1>1, <3>2
    <3> QED BY <3>2, <3>4, <3>5, <3>7, <3>8, <3>9
  <2> QED BY <2>1, <2>2
<1>4. PICK fs : fs = frames
  OBVIOUS
<1> HIDE DEF us, frames
<1>5. TypeOK'
  <2>1. chan' \in Seq(SentFrame) /\ nextSeq' \in Nat
    BY <1>1, <1>3
  <2> QED BY <1>1, <1>2, <2>1 DEF HotInv, TypeOK, Tick, clientVars, ClientTypeOK
<1>6. Sends(fs)
  <2>1. ~ (sock = "connecting" /\ chan = << >>)
    BY <1>1 DEF HotInv, WireInv
  <2>2. UNCHANGED <<skipped, skips, clientVars>>
    BY DEF Tick
  <2>3. chan' = chan \o fs /\ nextSeq' > nextSeq /\ srv' # "none"
    BY <1>1, <1>4
  <2> QED BY <1>3, <1>4, <2>1, <2>2, <2>3 DEF Sends
<1> QED BY <1>1, <1>5, <1>6

LEMMA TickKeeps ==
  ASSUME HotInv, NEW updates \in Seq(Record), Tick(updates)
  PROVE  HotInv'
BY TickSends, SendKeeps

\* A send of one frame, told' being what the frame leaves behind.
LEMMA SendOne ==
  ASSUME HotInv, NEW f \in SentFrame,
         chan' = chan \o <<f>>, srv' # "none",
         srv = "none" => sock = "connecting",
         sock = "connecting" /\ chan = << >> => f.type = "SNAPSHOT",
         FrameOK(f, nextSeq', told'),
         Start(f) = nextSeq, Follows(told, f),
         f.after = told', Reach(f) = nextSeq',
         nextSeq' > nextSeq \/ (nextSeq' = nextSeq /\ told' = told),
         UNCHANGED <<skipped, skips, clientVars>>,
         TypeOK'
  PROVE  HotInv'
<1>1. PICK fs : fs = <<f>>
  OBVIOUS
<1>2. fs \in Seq(SentFrame) /\ fs # << >> /\ Len(fs) = 1 /\ fs[1] = f
  BY <1>1
<1>3. Sends(fs)
  BY <1>1, <1>2 DEF Sends
<1> QED BY <1>3, SendKeeps

\* The type invariant of a send: only told, chan and nextSeq move.
LEMMA SendType ==
  ASSUME HotInv, NEW f \in SentFrame, chan' = chan \o <<f>>, nextSeq' \in Nat,
         told' \in Book, srv' = "open",
         UNCHANGED <<goodbye, batchMode, skipped, skips, faults, clientVars>>
  PROVE  TypeOK'
<1>1. chan \in Seq(SentFrame)
  BY DEF HotInv, TypeOK
<1>2. chan' \in Seq(SentFrame)
  BY <1>1
<1>3. ClientTypeOK'
  BY DEF HotInv, TypeOK, ClientTypeOK, clientVars
<1> QED BY <1>2, <1>3 DEF HotInv, TypeOK

LEMMA SendSnapshot ==
  ASSUME HotInv, NEW book \in Book, NEW f, SnapshotParts(f, nextSeq, book),
         chan' = chan \o <<f>>, nextSeq' = nextSeq + NLevels,
         told' = book, srv' = "open",
         srv = "none" => sock = "connecting",
         UNCHANGED <<goodbye, batchMode, skipped, skips, faults, clientVars>>
  PROVE  HotInv'
<1>1. f \in SentFrame /\ nextSeq \in Nat /\ nextSeq' \in Nat /\ nextSeq' > nextSeq
  BY LevelsNonEmpty DEF SnapshotParts, HotInv, TypeOK
<1>2. TypeOK'
  BY <1>1, SendType
<1>3. /\ f.type = "SNAPSHOT" /\ f.firstSeq \in Nat /\ f.records # << >>
      /\ f.after = told' /\ f.after = Upsert(EmptyBook, f.records)
      /\ Start(f) = nextSeq /\ Reach(f) = nextSeq'
  BY DEF SnapshotParts
<1>4. Follows(told, f)
  BY <1>3 DEF Follows
<1>5. FrameOK(f, nextSeq', told')
  BY <1>1, <1>3 DEF FrameOK
<1> QED BY <1>1, <1>2, <1>3, <1>4, <1>5, SendOne

LEMMA AcceptKeeps ==
  ASSUME HotInv, NEW book \in Book, Accept(book)
  PROVE  HotInv'
<1>1. PICK f : f = Frame(Snapshot(0, book), book)
  OBVIOUS
<1>2. SnapshotParts(f, 0, book)
  BY <1>1, SnapshotFrame
<1>3. srv = "none" /\ nextSeq = 0
  BY DEF Accept, HotInv, WireInv
<1>4. /\ chan' = chan \o <<f>> /\ nextSeq' = nextSeq + NLevels
      /\ srv' = "open" /\ sock = "connecting" /\ told' = book
      /\ UNCHANGED <<goodbye, batchMode, skipped, skips, faults, clientVars>>
  BY <1>1, <1>3, LevelsNonEmpty DEF Accept, Send
<1> QED BY <1>2, <1>3, <1>4, SendSnapshot

LEMMA ReseedKeeps ==
  ASSUME HotInv, NEW book \in Book, Reseed(book)
  PROVE  HotInv'
<1>1. PICK f : f = Frame(Snapshot(nextSeq, book), book)
  OBVIOUS
<1>2. SnapshotParts(f, nextSeq, book)
  BY <1>1, SnapshotFrame DEF HotInv, TypeOK
<1>3. /\ chan' = chan \o <<f>> /\ nextSeq' = nextSeq + NLevels
      /\ srv = "open" /\ srv' = "open" /\ told' = book
      /\ UNCHANGED <<goodbye, batchMode, skipped, skips, faults, clientVars>>
  BY <1>1 DEF Reseed, Send
<1> QED BY <1>2, <1>3, SendSnapshot

LEMMA SendHeartbeatKeeps ==
  ASSUME HotInv, SendHeartbeat
  PROVE  HotInv'
<1>1. PICK f, last : f = Frame(Heartbeat(last), told) /\ last = nextSeq - 1
  OBVIOUS
<1>2. nextSeq \in Nat /\ told \in Book /\ last \in Int /\ last + 1 = nextSeq
  BY <1>1 DEF HotInv, TypeOK
<1>3. HeartbeatParts(f, last, told)
  BY <1>1, <1>2, HeartbeatFrame
<1>4. /\ chan' = chan \o <<f>> /\ nextSeq' = nextSeq
      /\ srv = "open" /\ srv' = "open" /\ told' = told
      /\ UNCHANGED <<goodbye, batchMode, skipped, skips, faults, clientVars>>
  BY <1>1 DEF SendHeartbeat, Send
<1>5. f \in SentFrame /\ nextSeq' \in Nat
  BY <1>2, <1>3, <1>4 DEF HeartbeatParts
<1>6. TypeOK'
  BY <1>2, <1>4, <1>5, SendType
<1>7. Upsert(told, f.records) = told
  <2>1. f.records = << >>
    BY <1>3 DEF HeartbeatParts
  <2> QED BY <1>2, <2>1, UpsertNothing
<1>8. /\ f.type = "HEARTBEAT" /\ Start(f) = nextSeq /\ Reach(f) = nextSeq'
      /\ f.after = told' /\ Follows(told, f) /\ FrameOK(f, nextSeq', told')
  BY <1>2, <1>3, <1>4, <1>7 DEF HeartbeatParts, Follows, FrameOK, DataTypes
<1>9. ~ (sock = "connecting" /\ chan = << >>)
  BY <1>4 DEF HotInv, WireInv
<1> QED BY <1>4, <1>5, <1>6, <1>8, <1>9, SendOne

-----------------------------------------------------------------------------
(* The server actions that send nothing *)

\* The wire stays as it is but for the server's state and the commands.
LEMMA QuietKeeps ==
  ASSUME HotInv, srv' = srv \/ (srv' # "none" /\ srv # "none"),
         UNCHANGED <<nextSeq, chan, told, skipped, skips, clientVars>>, TypeOK'
  PROVE  HotInv'
<1>1. /\ chan' = chan /\ nextSeq' = nextSeq /\ told' = told /\ skipped' = skipped
      /\ skips' = skips /\ sock' = sock /\ core' = core
  BY DEF clientVars
<1>2. ShellInv'
  BY StutterShell DEF HotInv, TypeOK, Shell
<1>3. WireInv'
  BY <1>1 DEF HotInv, WireInv, LastFrameOK, Continues, FrameOK, Follows, Reach, Start
<1>4. ReaderInv'
  BY <1>1 DEF HotInv, ReaderInv, Based, Follows, Start
<1>5. GapInv'
  BY <1>1 DEF HotInv, GapInv, GapToCome
<1> QED BY <1>2, <1>3, <1>4, <1>5 DEF HotInv

LEMMA SkipSeqsKeeps ==
  ASSUME HotInv, NEW count \in Nat, count > 0, SkipSeqs(count)
  PROVE  HotInv'
<1>1. /\ chan' = chan /\ told' = told /\ srv' = srv /\ srv # "none"
      /\ skipped' = TRUE /\ skips' = skips + 1 /\ nextSeq' = nextSeq + count
      /\ sock' = sock /\ core' = core
  BY DEF SkipSeqs, clientVars
<1>2. nextSeq \in Nat /\ skips \in Nat /\ core.gaps \in Nat /\ core.expectedSeq \in Int
  BY DEF HotInv, TypeOK, ClientTypeOK, Core, NoSeq
<1>3. nextSeq' \in Nat /\ nextSeq' > nextSeq
  BY <1>1, <1>2
<1>4. ClientTypeOK' /\ ShellInv'
  <2>1. UNCHANGED clientVars
    BY DEF SkipSeqs
  <2> QED BY <2>1, StutterShell DEF HotInv, TypeOK, Shell
<1>5. TypeOK'
  BY <1>1, <1>2, <1>3, <1>4 DEF HotInv, TypeOK, SkipSeqs
<1>6. ASSUME NEW i \in 1..Len(chan) PROVE FrameOK(chan[i], nextSeq', told)
  <2>1. chan[i] \in SentFrame /\ FrameOK(chan[i], nextSeq, told)
    BY DEF HotInv, TypeOK, WireInv
  <2>2. Reach(chan[i]) \in Int
    BY <2>1, ReachType
  <2>3. Reach(chan[i]) <= nextSeq
    BY <2>1 DEF FrameOK
  <2>4. Reach(chan[i]) <= nextSeq' /\ Reach(chan[i]) # nextSeq'
    BY <1>2, <1>3, <2>2, <2>3
  <2> QED BY <2>1, <2>4 DEF FrameOK
<1>7. WireInv'
  <2>1. ASSUME NEW i \in 1..Len(chan') PROVE FrameOK(chan[i], nextSeq, told)'
    BY <1>1, <1>6 DEF FrameOK, Reach, Start
  <2>2. ASSUME NEW i \in 1..(Len(chan') - 1) PROVE Continues(chan[i], chan[i + 1])'
    BY <1>1 DEF HotInv, WireInv, Continues, Reach, Start, Follows
  <2>3. LastFrameOK'
    BY <1>1 DEF HotInv, WireInv, LastFrameOK
  <2> QED BY <1>1, <2>1, <2>2, <2>3 DEF HotInv, WireInv
<1>8. ReaderInv'
  BY <1>1, <1>2, <1>3 DEF HotInv, ReaderInv, Based, Follows, Start
<1>9. GapInv'
  BY <1>1, <1>2 DEF HotInv, GapInv, GapToCome
<1> QED BY <1>4, <1>5, <1>7, <1>8, <1>9 DEF HotInv

LEMMA ServerQuietKeeps ==
  ASSUME HotInv,
         \/ TickSlowConsumer
         \/ \E code \in {1000, 4000} : ServerEnds(code)
         \/ \E batch \in BOOLEAN : SetBatch(batch)
  PROVE  HotInv'
<1>1. /\ srv' = srv \/ (srv' # "none" /\ srv # "none")
      /\ srv' \in {"none", "open", "closing"} /\ goodbye' \in Nat /\ batchMode' \in BOOLEAN
      /\ faults' \in Nat
      /\ UNCHANGED <<nextSeq, chan, told, skipped, skips, clientVars>>
  BY DEF TickSlowConsumer, ServerEnds, SetBatch, ServerClose, Fault, HotInv, TypeOK
<1>2. ClientTypeOK'
  BY <1>1 DEF HotInv, TypeOK, ClientTypeOK, clientVars
<1>3. TypeOK'
  BY <1>1, <1>2 DEF HotInv, TypeOK
<1> QED BY <1>1, <1>3, QuietKeeps

-----------------------------------------------------------------------------
(* The client actions that read nothing *)

\* The shell moves on the same wire: no new socket while the server holds one,
\* none opened before its snapshot, and no gap counted.
LEMMA ShellMovesKeeps ==
  ASSUME HotInv, Shell', faults' \in Nat,
         UNCHANGED <<srv, nextSeq, chan, goodbye, batchMode, told, skipped, skips>>,
         core'.gaps = core.gaps,
         \/ sock' = sock /\ core' = core
         \/ sock' = "closing" /\ sock # "none"
         \/ sock' \in {"none", "connecting"} /\ sock = "none"
         \/ sock' = "open" /\ sock = "connecting" /\ srv # "none"
  PROVE  HotInv'
<1>1. TypeOK' /\ ShellInv'
  BY DEF HotInv, TypeOK, Shell
<1>2. WireInv'
  BY DEF HotInv, WireInv, LastFrameOK, Continues, FrameOK, Follows, Reach, Start
<1>3. ReaderInv'
  <2>1. Based' => Based /\ core' = core
    BY DEF HotInv, WireInv, Based
  <2> QED BY <2>1 DEF HotInv, ReaderInv, Follows, Start
<1>4. GapInv'
  <2>1. core.gaps \in Nat /\ skips \in Nat
    BY DEF HotInv, TypeOK, ClientTypeOK, Core
  <2>2. GapToCome' => GapToCome
    BY DEF HotInv, WireInv, GapToCome
  <2> QED BY <2>1, <2>2 DEF HotInv, GapInv
<1> QED BY <1>1, <1>2, <1>3, <1>4 DEF HotInv

LEMMA HandshakeDoneKeeps == HotInv /\ HandshakeDone => HotInv'
<1> SUFFICES ASSUME HotInv, HandshakeDone PROVE HotInv'
  OBVIOUS
<1>1. Shell'
  BY OpenedShell DEF HandshakeDone, HotInv, TypeOK, Shell
<1>2. /\ sock = "connecting" /\ sock' = "open" /\ srv # "none" /\ core' = core
      /\ faults' = faults
      /\ UNCHANGED <<srv, nextSeq, chan, goodbye, batchMode, told, skipped, skips>>
  BY DEF HandshakeDone, Opened, serverVars
<1> QED BY <1>1, <1>2, ShellMovesKeeps DEF HotInv, TypeOK

LEMMA ReconnectKeeps == HotInv /\ Reconnect => HotInv'
<1> SUFFICES ASSUME HotInv, Reconnect PROVE HotInv'
  OBVIOUS
<1>1. Shell'
  BY TimerFiresShell DEF Reconnect, HotInv, TypeOK, Shell
<1>2. /\ sock = "none" /\ sock' = "connecting" /\ core' = core /\ faults' = faults
      /\ UNCHANGED <<srv, nextSeq, chan, goodbye, batchMode, told, skipped, skips>>
  BY DEF Reconnect, TimerFires, Dial, serverVars, HotInv, ShellInv, OneDriver
<1> QED BY <1>1, <1>2, ShellMovesKeeps DEF HotInv, TypeOK

LEMMA WatchdogKeeps == HotInv /\ Watchdog => HotInv'
<1> SUFFICES ASSUME HotInv, Watchdog PROVE HotInv'
  OBVIOUS
<1>1. Shell'
  BY WatchdogShell DEF Watchdog, HotInv, TypeOK, Shell
<1>2. core \in Core /\ core.status = "live" /\ core' = Resync(core, "silence")
  BY DEF Watchdog, WatchdogFindsSilence, OnSilence, HotInv, TypeOK, ClientTypeOK
<1>3. core'.gaps = core.gaps /\ core'.status = "resync"
  BY <1>2 DEF Resync, Core
<1>4. sock' = IF sock = "none" THEN "none" ELSE "closing"
  BY <1>2, <1>3 DEF Watchdog, WatchdogFindsSilence, HandleEvents, RaisesResync, DropSocket
<1>5. /\ faults' \in Nat
      /\ UNCHANGED <<srv, nextSeq, chan, goodbye, batchMode, told, skipped, skips>>
  BY DEF Watchdog, Fault, HotInv, TypeOK
<1> QED BY <1>1, <1>3, <1>4, <1>5, ShellMovesKeeps

LEMMA PageCommandKeeps == HotInv /\ PageCommand => HotInv'
<1> SUFFICES ASSUME HotInv, PageCommand PROVE HotInv'
  OBVIOUS
<1>1. Shell'
  BY CommandShell DEF PageCommand, HotInv, TypeOK, Shell
<1>2. /\ core' = core
      /\ \/ sock' = sock
         \/ sock' = "closing" /\ sock # "none"
         \/ sock' = "connecting" /\ sock = "none"
  BY DEF PageCommand, Command, Resume, Dial, SetProtocols, Close, DropSocket
<1>3. /\ faults' \in Nat
      /\ UNCHANGED <<srv, nextSeq, chan, goodbye, batchMode, told, skipped, skips>>
  BY DEF PageCommand, Fault, HotInv, TypeOK
<1> QED BY <1>1, <1>2, <1>3, ShellMovesKeeps

\* However the connection ends, it takes the wire with it.
LEMMA WireGoneKeeps ==
  ASSUME HotInv, NEW code \in Nat, OnClose(code), WireGone, faults' \in Nat,
         UNCHANGED <<batchMode, skips>>
  PROVE  HotInv'
<1>1. Shell'
  BY OnCloseShell DEF HotInv, TypeOK, Shell
<1>2. /\ sock' = "none" /\ core' = core /\ srv' = "none" /\ nextSeq' = 0 /\ chan' = << >>
      /\ told' = EmptyBook /\ skipped' = FALSE /\ goodbye' = 0
  BY DEF OnClose, WireGone
<1>3. EmptyBook \in Book /\ << >> \in Seq(SentFrame)
  BY DEF EmptyBook, Book
<1>4. TypeOK' /\ ShellInv'
  BY <1>1, <1>2, <1>3 DEF HotInv, TypeOK, Shell
<1>5. Len(<< >>) = 0 /\ 1..0 = {} /\ 1..(0 - 1) = {}
  OBVIOUS
<1>6. WireInv'
  BY <1>2, <1>5 DEF WireInv, LastFrameOK
<1>7. ReaderInv'
  BY <1>2 DEF ReaderInv, Based
<1>8. GapInv'
  BY <1>2 DEF HotInv, TypeOK, ClientTypeOK, Core, GapInv, GapToCome
<1> QED BY <1>4, <1>6, <1>7, <1>8 DEF HotInv

LEMMA EndingsKeep ==
  ASSUME HotInv, GoodbyeArrives \/ DropCompletes \/ NetworkDrop
  PROVE  HotInv'
<1>1. PICK code \in Nat : OnClose(code)
  BY DEF GoodbyeArrives, DropCompletes, NetworkDrop, LocalDrop, HotInv, TypeOK
<1>2. WireGone /\ faults' \in Nat /\ UNCHANGED <<batchMode, skips>>
  BY DEF GoodbyeArrives, DropCompletes, NetworkDrop, Fault, HotInv, TypeOK
<1> QED BY <1>1, <1>2, WireGoneKeeps

-----------------------------------------------------------------------------
(* The client reads the frame at the head of the stream. *)

\* What is left of the stream is still a well-formed wire.
LEMMA DeliverWire ==
  ASSUME HotInv, Deliver, sock' \in {"open", "closing"}
  PROVE  WireInv'
<1>1. /\ chan \in Seq(SentFrame) /\ chan # << >> /\ chan' = Tail(chan)
      /\ UNCHANGED <<srv, nextSeq, told, skipped>> /\ sock = "open"
  BY DEF Deliver, Message, HotInv, TypeOK
<1>2. /\ Len(chan) \in Nat /\ Len(chan') = Len(chan) - 1
      /\ \A i \in 1..Len(chan') : chan'[i] = chan[i + 1]
  BY <1>1
<1>3. ASSUME NEW i \in 1..Len(chan') PROVE FrameOK(chan[i], nextSeq, told)'
  <2>1. i + 1 \in 1..Len(chan) /\ chan'[i] = chan[i + 1]
    BY <1>2
  <2>2. FrameOK(chan[i + 1], nextSeq, told)
    BY <2>1 DEF HotInv, WireInv
  <2> QED BY <1>1, <2>1, <2>2 DEF FrameOK, Reach, Start
<1>4. ASSUME NEW i \in 1..(Len(chan') - 1) PROVE Continues(chan[i], chan[i + 1])'
  <2>1. /\ i + 1 \in 1..(Len(chan) - 1)
        /\ chan'[i] = chan[i + 1] /\ chan'[i + 1] = chan[(i + 1) + 1]
    BY <1>2
  <2>2. Continues(chan[i + 1], chan[(i + 1) + 1])
    BY <2>1 DEF HotInv, WireInv
  <2> QED BY <1>1, <2>1, <2>2 DEF Continues, Reach, Start, Follows
<1>5. LastFrameOK'
  <2>1. SUFFICES ASSUME chan' # << >>
                 PROVE  /\ chan'[Len(chan')].after = told
                        /\ ~skipped => Reach(chan'[Len(chan')]) = nextSeq
    BY <1>1 DEF LastFrameOK, Reach, Start
  <2>2. Len(chan') \in 1..Len(chan') /\ Len(chan') + 1 = Len(chan)
    BY <1>1, <1>2, <2>1
  <2>3. chan'[Len(chan')] = chan[Len(chan)]
    BY <1>2, <2>2
  <2> QED BY <1>1, <2>3 DEF HotInv, WireInv, LastFrameOK
<1>6. srv' # "none"
  BY <1>1 DEF HotInv, WireInv
<1> QED BY <1>3, <1>4, <1>5, <1>6 DEF WireInv

\* Reading a frame either puts the reader right behind it, with the book the
\* frame leaves, or finds a gap that a skip made.
LEMMA ReadHead ==
  ASSUME HotInv, NEW f \in SentFrame, sock = "open", srv # "none",
         chan # << >>, f = chan[1], FrameOK(f, nextSeq, told)
  PROVE  \/ /\ OnFrame(core, f).status = "live"
            /\ OnFrame(core, f).expectedSeq = Reach(f) /\ Reach(f) \in Nat
            /\ OnFrame(core, f).books = f.after
            /\ OnFrame(core, f).gaps = core.gaps
         \/ /\ skipped
            /\ core.status = "live" /\ OnFrame(core, f).status = "resync"
            /\ OnFrame(core, f).gaps = core.gaps + 1
<1>1. core \in Core /\ core.expectedSeq \in Int /\ Len(f.records) \in Nat
  <2>1. core \in Core
    BY DEF HotInv, TypeOK, ClientTypeOK
  <2>2. core.expectedSeq \in Int
    BY <2>1 DEF Core, NoSeq
  <2>3. f.records \in Seq(Record)
    BY DEF SentFrame
  <2> QED BY <2>1, <2>2, <2>3
<1>2. /\ f.type \in {"SNAPSHOT", "DELTA", "HEARTBEAT"} /\ f.firstSeq \in Int
      /\ f.type # "HEARTBEAT" => f.firstSeq \in Nat
      /\ Start(f) = IF f.type = "HEARTBEAT" THEN f.firstSeq + 1 ELSE f.firstSeq
      /\ Reach(f) = Start(f) + Len(f.records)
  BY DEF SentFrame, DataTypes, FrameOK, Start, Reach
<1>3. CASE f.type = "SNAPSHOT"
  <2>1. f.after = Upsert(EmptyBook, f.records)
    BY <1>3 DEF FrameOK
  <2>2. OnFrame(core, f) = [core EXCEPT !.books = Upsert(EmptyBook, f.records),
                                        !.expectedSeq = f.firstSeq + Len(f.records),
                                        !.status = "live"]
    BY <1>3 DEF OnFrame, OnSnapshot
  <2>3. Reach(f) = f.firstSeq + Len(f.records) /\ Reach(f) \in Nat
    BY <1>1, <1>2, <1>3
  <2> QED BY <1>1, <2>1, <2>2, <2>3 DEF Core
<1>4. CASE f.type # "SNAPSHOT"
  <2>1. /\ core.status = "live" /\ core.expectedSeq # NoSeq
        /\ core.expectedSeq <= Start(f)
        /\ ~skipped => core.expectedSeq = Start(f)
        /\ f.after = Upsert(core.books, f.records)
    BY <1>4 DEF HotInv, ReaderInv, Based, Follows
  <2>2. core.expectedSeq \in Nat
    BY <1>1, <2>1 DEF Core
  <2>3. CASE core.expectedSeq # Start(f)
    <3>1. OnFrame(core, f) = Resync(core, "heartbeat-loss") \/ OnFrame(core, f) = Resync(core, "gap")
      BY <1>1, <1>2, <1>4, <2>1, <2>3 DEF OnFrame, OnHeartbeat, OnDelta
    <3>2. OnFrame(core, f).status = "resync" /\ OnFrame(core, f).gaps = core.gaps + 1
      BY <1>1, <3>1 DEF Resync, Core
    <3> QED BY <2>1, <2>3, <3>2
  <2>4. CASE core.expectedSeq = Start(f) /\ f.type = "HEARTBEAT"
    <3>1. OnFrame(core, f) = core
      BY <1>1, <1>2, <2>1, <2>4 DEF OnFrame, OnHeartbeat
    <3>2. f.records = << >> /\ Reach(f) = Start(f)
      BY <1>2, <2>4 DEF FrameOK
    <3>3. Upsert(core.books, << >>) = core.books
      BY <1>1, UpsertNothing DEF Core
    <3>4. f.after = core.books
      BY <2>1, <3>2, <3>3
    <3> QED BY <2>1, <2>2, <2>4, <3>1, <3>2, <3>4
  <2>5. CASE core.expectedSeq = Start(f) /\ f.type = "DELTA"
    <3>1. OnFrame(core, f) = [core EXCEPT !.books = Upsert(core.books, f.records),
                                          !.expectedSeq = f.firstSeq + Len(f.records)]
      BY <1>2, <2>1, <2>5 DEF OnFrame, OnDelta
    <3>2. Reach(f) = f.firstSeq + Len(f.records) /\ Reach(f) \in Nat
      BY <1>1, <1>2, <2>5
    <3> QED BY <1>1, <2>1, <3>1, <3>2 DEF Core
  <2> QED BY <1>2, <1>4, <2>3, <2>4, <2>5
<1> QED BY <1>3, <1>4

LEMMA LastOne ==
  ASSUME NEW S, NEW c \in Seq(S), c # << >>, Tail(c) = << >>
  PROVE  Len(c) = 1
<1>1. Len(c) \in Nat /\ Len(Tail(c)) = Len(c) - 1
  OBVIOUS
<1>2. ASSUME NEW e, e = << >> PROVE Len(e) = 0
  BY <1>2, EmptySeq
<1>3. Len(Tail(c)) = 0
  BY <1>2
<1> QED BY <1>1, <1>3

LEMMA DeliverKeeps == HotInv /\ Deliver => HotInv'
<1> SUFFICES ASSUME HotInv, Deliver PROVE HotInv'
  OBVIOUS
<1>1. PICK f : f = Head(chan)
  OBVIOUS
<1>2. /\ chan \in Seq(SentFrame) /\ chan # << >> /\ f = chan[1] /\ chan' = Tail(chan)
      /\ f \in SentFrame /\ 1 \in 1..Len(chan) /\ Len(chan) \in Nat
      /\ sock = "open" /\ core' = OnFrame(core, f) /\ HandleEvents
      /\ UNCHANGED <<srv, nextSeq, goodbye, batchMode, told, skipped, skips, faults>>
  BY <1>1 DEF Deliver, Message, HotInv, TypeOK
<1>3. srv # "none" /\ FrameOK(f, nextSeq, told)
  BY <1>2 DEF HotInv, WireInv
<1>4. core \in Core /\ core.gaps \in Nat /\ skips \in Nat /\ nextSeq \in Nat
  BY DEF HotInv, TypeOK, ClientTypeOK, Core
<1>5. TypeOK' /\ ShellInv'
  <2>1. /\ f.type \in DataTypes \cup {"HEARTBEAT"} /\ f.firstSeq \in Int
        /\ f.records \in Seq(Record)
    BY <1>2 DEF SentFrame
  <2>2. f.type \in DataTypes => f.firstSeq \in Nat
    BY <1>3 DEF FrameOK
  <2>3. core' \in Core
    BY <1>2, <1>4, <2>1, <2>2, CoreType
  <2>4. UNCHANGED <<timer, terminal, closed, attempt, protocols, wire, ending>>
    BY DEF Deliver, Message
  <2>5. Shell'
    BY <1>2, <2>3, <2>4, CoreStepShell DEF HotInv, TypeOK, Shell
  <2>6. chan' \in Seq(SentFrame)
    BY <1>2
  <2> QED BY <1>2, <2>5, <2>6 DEF HotInv, TypeOK, Shell
<1>6. CASE /\ core'.status = "live"
           /\ core'.expectedSeq = Reach(f) /\ Reach(f) \in Nat
           /\ core'.books = f.after
           /\ core'.gaps = core.gaps
  <2>1. sock' = "open"
    BY <1>2, <1>6 DEF HandleEvents, RaisesResync
  <2>2. WireInv'
    BY <2>1, DeliverWire
  <2>3. Reach(f) <= nextSeq /\ (Reach(f) = nextSeq => f.after = told)
    BY <1>3 DEF FrameOK
  <2>4. CASE chan' = << >>
    <3>1. Len(chan) = 1
      <4>1. Tail(chan) = << >>
        BY <1>2, <2>4
      <4> QED BY <1>2, <4>1, LastOne
    <3>2. f.after = told /\ (~skipped => Reach(f) = nextSeq)
      BY <1>2, <3>1 DEF HotInv, WireInv, LastFrameOK
    <3>3. ReaderInv'
      BY <1>2, <1>6, <2>3, <2>4, <3>2 DEF ReaderInv, NoSeq
    <3> QED BY <3>3, <2>2, <1>5, <1>2, <1>6, <2>1 DEF HotInv, GapInv, GapToCome
  <2>5. CASE chan' # << >>
    <3>1. 1 \in 1..(Len(chan) - 1) /\ chan'[1] = chan[1 + 1]
      BY <1>2, <2>5
    <3>2. Continues(f, chan[1 + 1])
      BY <1>2, <3>1 DEF HotInv, WireInv
    <3>3. /\ Reach(f) <= Start(chan'[1])
          /\ ~skipped => Reach(f) = Start(chan'[1])
          /\ Follows(f.after, chan'[1])
      BY <3>1, <3>2 DEF Continues
    <3>4. ReaderInv'
      BY <1>2, <1>6, <2>3, <2>5, <3>3 DEF ReaderInv, NoSeq, Follows, Start
    <3> QED BY <3>4, <2>2, <1>5, <1>2, <1>6, <2>1 DEF HotInv, GapInv, GapToCome
  <2> QED BY <2>4, <2>5
<1>7. CASE /\ skipped
           /\ core.status = "live" /\ core'.status = "resync"
           /\ core'.gaps = core.gaps + 1
  <2>1. sock' = "closing"
    BY <1>2, <1>7 DEF HandleEvents, RaisesResync, DropSocket
  <2>2. WireInv' /\ ReaderInv'
    BY <2>1, DeliverWire DEF ReaderInv, Based
  <2>3. GapInv'
    <3>1. GapToCome /\ ~GapToCome'
      BY <1>2, <1>7, <2>1 DEF GapToCome
    <3> QED BY <1>2, <1>4, <1>7, <3>1 DEF HotInv, GapInv
  <2> QED BY <1>5, <2>2, <2>3 DEF HotInv
<1> QED BY <1>2, <1>3, <1>6, <1>7, ReadHead

-----------------------------------------------------------------------------
(* The theorems *)

LEMMA HotInit == Init => HotInv
<1> SUFFICES ASSUME Init PROVE HotInv
  OBVIOUS
<1>1. Shell
  BY InitShell DEF Init
<1>2. EmptyBook \in Book /\ << >> \in Seq(SentFrame)
  BY DEF EmptyBook, Book
<1>3. TypeOK /\ ShellInv
  BY <1>1, <1>2 DEF Init, TypeOK, Shell
<1>4. Len(<< >>) = 0 /\ 1..0 = {} /\ 1..(0 - 1) = {}
  OBVIOUS
<1>5. WireInv
  BY <1>4 DEF Init, ClientInit, WireInv, LastFrameOK
<1>6. ReaderInv
  BY DEF Init, ClientInit, ReaderInv, Based
<1>7. GapInv
  BY DEF Init, ClientInit, InitCore, GapInv, GapToCome
<1> QED BY <1>3, <1>5, <1>6, <1>7 DEF HotInv

LEMMA HotStep == HotInv /\ [Next]_vars => HotInv'
<1> SUFFICES ASSUME HotInv, [Next]_vars PROVE HotInv'
  OBVIOUS
<1>1. ASSUME NEW book \in MarketBook, Accept(book) PROVE HotInv'
  BY <1>1, AcceptKeeps, MarketBookIsBook
<1>2. ASSUME NEW n \in 1..MaxUpdates, NEW updates \in [1..n -> MarketRecord], Tick(updates)
      PROVE  HotInv'
  <2>1. updates \in Seq(Record)
    BY MarketRecordIsRecord
  <2> QED BY <1>2, <2>1, TickKeeps
<1>3. CASE SendHeartbeat
  BY <1>3, SendHeartbeatKeeps
<1>4. CASE \/ TickSlowConsumer
           \/ \E code \in {1000, 4000} : ServerEnds(code)
           \/ \E batch \in BOOLEAN : SetBatch(batch)
  BY <1>4, ServerQuietKeeps
<1>5. ASSUME NEW book \in MarketBook, Reseed(book) PROVE HotInv'
  BY <1>5, ReseedKeeps, MarketBookIsBook
<1>6. ASSUME NEW count \in 1..2, SkipSeqs(count) PROVE HotInv'
  BY <1>6, SkipSeqsKeeps
<1>7. CASE HandshakeDone
  BY <1>7, HandshakeDoneKeeps
<1>8. CASE Deliver
  BY <1>8, DeliverKeeps
<1>9. CASE GoodbyeArrives \/ DropCompletes \/ NetworkDrop
  BY <1>9, EndingsKeep
<1>10. CASE Reconnect
  BY <1>10, ReconnectKeeps
<1>11. CASE Watchdog
  BY <1>11, WatchdogKeeps
<1>12. CASE PageCommand
  BY <1>12, PageCommandKeeps
<1>13. CASE UNCHANGED vars
  <2>1. TypeOK'
    BY <1>13 DEF HotInv, TypeOK, ClientTypeOK, vars, clientVars, serverVars
  <2> QED BY <1>13, <2>1, QuietKeeps DEF vars, serverVars
<1> QED
  BY <1>1, <1>2, <1>3, <1>4, <1>5, <1>6, <1>7, <1>8, <1>9, <1>10, <1>11, <1>12, <1>13
  DEF Next, ServerNext, WireNext

\* HotInv holds in every reachable state, for every catalogue, batch size and bound.
THEOREM HotPlaneCorrect == Spec => []HotInv
<1>1. Init => HotInv
  BY HotInit
<1>2. HotInv /\ [Next]_vars => HotInv'
  BY HotStep
<1> QED BY <1>1, <1>2, PTL DEF Spec

\* A client that holds every seq of its wire shows exactly the book the wire was
\* told (core.ts onSnapshot, onDelta, onHeartbeat against server.ts tick, reseed).
THEOREM LiveLadderIsExact == Spec => []ExactIsTold
<1>1. HotInv => ExactIsTold
  BY DEF HotInv, ReaderInv, ExactIsTold, Exact
<1> QED BY <1>1, HotPlaneCorrect, PTL

\* The gap detector never raises a false alarm and never reports a hole twice.
THEOREM NoFalseAlarm == Spec => []GapsAreSkips
<1>1. HotInv => GapsAreSkips
  BY DEF HotInv, TypeOK, ClientTypeOK, Core, GapInv, GapsAreSkips
<1> QED BY <1>1, HotPlaneCorrect, PTL

-----------------------------------------------------------------------------
(* The refinement: every step of the hot plane is a step of LadderMirror or *)
(* leaves the mirror as it is.                                              *)

\* The books behind the frames of a stream, as the mirror queues them.
Books(c) == [i \in DOMAIN c |-> c[i].after]

LEMMA BooksOf ==
  ASSUME NEW c \in Seq(SentFrame)
  PROVE  /\ Books(c) \in Seq(Book) /\ Len(Books(c)) = Len(c)
         /\ \A i \in 1..Len(c) : Books(c)[i] = c[i].after
<1>1. Len(c) \in Nat /\ DOMAIN c = 1..Len(c) /\ \A i \in 1..Len(c) : c[i] \in SentFrame
  OBVIOUS
<1>2. \A i \in 1..Len(c) : c[i].after \in Book
  BY <1>1 DEF SentFrame
<1> QED BY <1>1, <1>2 DEF Books

LEMMA BooksTail ==
  ASSUME NEW c \in Seq(SentFrame), c # << >>
  PROVE  Books(c) # << >> /\ Books(Tail(c)) = Tail(Books(c)) /\ Head(Books(c)) = c[1].after
<1>1. Tail(c) \in Seq(SentFrame) /\ Len(c) \in Nat /\ Len(c) > 0
      /\ Len(Tail(c)) = Len(c) - 1
      /\ \A i \in 1..Len(Tail(c)) : Tail(c)[i] = c[i + 1]
  OBVIOUS
<1>2. /\ Books(c) \in Seq(Book) /\ Len(Books(c)) = Len(c)
      /\ \A i \in 1..Len(c) : Books(c)[i] = c[i].after
  BY BooksOf
<1>3. /\ Books(Tail(c)) \in Seq(Book) /\ Len(Books(Tail(c))) = Len(c) - 1
      /\ \A i \in 1..(Len(c) - 1) : Books(Tail(c))[i] = c[i + 1].after
  BY <1>1, BooksOf
<1>4. Books(c) # << >> /\ Head(Books(c)) = c[1].after
  BY <1>1, <1>2
<1>5. /\ Tail(Books(c)) \in Seq(Book) /\ Len(Tail(Books(c))) = Len(c) - 1
      /\ \A i \in 1..(Len(c) - 1) : Tail(Books(c))[i] = c[i + 1].after
  BY <1>1, <1>2, <1>4
<1> QED BY <1>3, <1>4, <1>5

LEMMA BooksAppend ==
  ASSUME NEW c \in Seq(SentFrame), NEW fs \in Seq(SentFrame), fs # << >>
  PROVE  /\ Len(Books(c \o fs)) > Len(Books(c))
         /\ SubSeq(Books(c \o fs), 1, Len(Books(c))) = Books(c)
<1>1. /\ c \o fs \in Seq(SentFrame) /\ Len(c) \in Nat /\ Len(fs) \in Nat /\ Len(fs) > 0
      /\ Len(c \o fs) = Len(c) + Len(fs)
      /\ \A i \in 1..Len(c) : (c \o fs)[i] = c[i]
  OBVIOUS
<1>2. /\ Books(c) \in Seq(Book) /\ Len(Books(c)) = Len(c)
      /\ \A i \in 1..Len(c) : Books(c)[i] = c[i].after
  BY BooksOf
<1>3. /\ Books(c \o fs) \in Seq(Book) /\ Len(Books(c \o fs)) = Len(c) + Len(fs)
      /\ \A i \in 1..Len(c) : Books(c \o fs)[i] = c[i].after
  <2>1. PICK d \in Seq(SentFrame) : d = c \o fs
    BY <1>1
  <2>2. /\ Books(d) \in Seq(Book) /\ Len(Books(d)) = Len(d)
        /\ \A i \in 1..Len(d) : Books(d)[i] = d[i].after
    BY <2>1, BooksOf
  <2>3. Len(d) = Len(c) + Len(fs) /\ \A i \in 1..Len(c) : d[i] = c[i] /\ i \in 1..Len(d)
    BY <1>1, <2>1
  <2> QED BY <2>1, <2>2, <2>3
<1>4. /\ SubSeq(Books(c \o fs), 1, Len(c)) \in Seq(Book)
      /\ Len(SubSeq(Books(c \o fs), 1, Len(c))) = Len(c)
      /\ \A i \in 1..Len(c) : SubSeq(Books(c \o fs), 1, Len(c))[i] = c[i].after
  BY <1>1, <1>3
<1> QED BY <1>1, <1>2, <1>3, <1>4

\* A send publishes.
LEMMA SendPublishes ==
  ASSUME HotInv, NEW fs \in Seq(SentFrame), fs # << >>, chan' = chan \o fs,
         UNCHANGED clientVars
  PROVE  Mirror!Publish
<1>1. chan \in Seq(SentFrame)
  BY DEF HotInv, TypeOK
<1>2. /\ Len(Books(chan')) > Len(Books(chan))
      /\ SubSeq(Books(chan'), 1, Len(Books(chan))) = Books(chan)
  BY <1>1, BooksAppend
<1>3. core' = core /\ sock' = sock
  BY DEF clientVars
<1> QED BY <1>2, <1>3 DEF Mirror!Publish, Books

LEMMA MirrorStep ==
  HotInv /\ [Next]_vars => [Mirror!MirrorNext]_(Mirror!mirrorVars)
<1> SUFFICES ASSUME HotInv, [Next]_vars
             PROVE  Mirror!Publish \/ Mirror!Show \/ Mirror!Distrust \/ Mirror!Renew
                    \/ UNCHANGED Mirror!mirrorVars
  BY DEF Mirror!MirrorNext
<1>0. chan \in Seq(SentFrame) /\ core \in Core
  BY DEF HotInv, TypeOK, ClientTypeOK
<1>1. ASSUME NEW book \in MarketBook, Accept(book) \/ Reseed(book) PROVE Mirror!Publish
  <2>0. PICK n \in Nat : chan' = chan \o <<Frame(Snapshot(n, book), book)>>
    BY <1>1 DEF Accept, Reseed, Send, HotInv, TypeOK
  <2>1. PICK f : f = Frame(Snapshot(n, book), book) /\ chan' = chan \o <<f>>
    BY <2>0
  <2>2. SnapshotParts(f, n, book)
    BY <2>1, SnapshotFrame, MarketBookIsBook
  <2>3. f \in SentFrame
    BY <2>2 DEF SnapshotParts
  <2>4. PICK fs : fs = <<f>>
    OBVIOUS
  <2>5. fs \in Seq(SentFrame) /\ fs # << >> /\ chan' = chan \o fs
    BY <2>1, <2>3, <2>4
  <2> QED BY <1>1, <2>5, SendPublishes DEF Accept, Reseed
<1>2. ASSUME NEW n \in 1..MaxUpdates, NEW updates \in [1..n -> MarketRecord], Tick(updates)
      PROVE  Mirror!Publish
  <2>1. updates \in Seq(Record)
    BY MarketRecordIsRecord
  <2>2. PICK fs \in Seq(SentFrame) : fs # << >> /\ chan' = chan \o fs
    BY <1>2, <2>1, TickSends DEF Sends
  <2> QED BY <1>2, <2>2, SendPublishes DEF Tick
<1>3. ASSUME SendHeartbeat PROVE Mirror!Publish
  <2>1. PICK f, last : /\ f = Frame(Heartbeat(last), told) /\ last = nextSeq - 1
                       /\ chan' = chan \o <<f>>
    BY <1>3 DEF SendHeartbeat, Send
  <2>2. last \in Int /\ told \in Book
    BY <2>1 DEF HotInv, TypeOK
  <2>3. HeartbeatParts(f, last, told)
    BY <2>1, <2>2, HeartbeatFrame
  <2>4. f \in SentFrame
    BY <2>3 DEF HeartbeatParts
  <2>5. PICK fs : fs = <<f>>
    OBVIOUS
  <2>6. fs \in Seq(SentFrame) /\ fs # << >> /\ chan' = chan \o fs
    BY <2>1, <2>4, <2>5
  <2> QED BY <1>3, <2>6, SendPublishes DEF SendHeartbeat
<1>4. CASE UNCHANGED <<chan, sock, core>>
  BY <1>4 DEF Mirror!mirrorVars
<1>5. ASSUME \/ TickSlowConsumer
             \/ \E code \in {1000, 4000} : ServerEnds(code)
             \/ \E count \in 1..2 : SkipSeqs(count)
             \/ \E batch \in BOOLEAN : SetBatch(batch)
      PROVE  UNCHANGED <<chan, sock, core>>
  BY <1>5 DEF TickSlowConsumer, ServerEnds, SkipSeqs, SetBatch, clientVars
<1>6. CASE HandshakeDone \/ Reconnect
  <2>1. core' = core /\ chan' = chan /\ sock # "closing" /\ sock' # "closing"
    BY <1>6 DEF HandshakeDone, Opened, Reconnect, TimerFires, Dial, serverVars,
                HotInv, ShellInv, OneDriver
  <2> QED BY <2>1 DEF Mirror!mirrorVars
<1>7. CASE Deliver
  <2>1. PICK f : f = chan[1] /\ Message(f)
    BY <1>0, <1>7 DEF Deliver
  <2>2. /\ chan # << >> /\ chan' = Tail(chan) /\ sock = "open" /\ f \in SentFrame
        /\ core' = OnFrame(core, f) /\ HandleEvents
    BY <1>0, <1>7, <2>1 DEF Deliver, Message
  <2>3. srv # "none" /\ FrameOK(f, nextSeq, told)
    <3>1. 1 \in 1..Len(chan)
      BY <1>0, <2>2
    <3> QED BY <2>1, <2>2, <3>1 DEF HotInv, WireInv
  <2>4. /\ Books(chan) # << >> /\ Books(chan') = Tail(Books(chan))
        /\ Head(Books(chan)) = f.after
    BY <1>0, <2>1, <2>2, BooksTail
  <2>5. CASE core'.status = "live" /\ core'.books = f.after
    <3>1. sock' = "open"
      BY <2>2, <2>5 DEF HandleEvents, RaisesResync
    <3> QED BY <2>2, <2>4, <2>5, <3>1 DEF Mirror!Show, Books
  <2>6. CASE core.status = "live" /\ core'.status = "resync"
    <3>1. sock' = "closing"
      BY <2>2, <2>6 DEF HandleEvents, RaisesResync, DropSocket
    <3>2. core'.books = core.books
      BY <1>0, <2>2, <2>6 DEF OnFrame, OnSnapshot, OnHeartbeat, OnDelta, Resync, Core
    <3> QED BY <2>4, <3>1, <3>2 DEF Mirror!Distrust, Books
  <2> QED BY <2>1, <2>2, <2>3, <2>5, <2>6, ReadHead
<1>8. CASE GoodbyeArrives \/ DropCompletes \/ NetworkDrop
  <2>1. chan' = << >> /\ sock' = "none" /\ core' = core
    BY <1>8 DEF GoodbyeArrives, DropCompletes, NetworkDrop, WireGone, OnClose
  <2>2. Books(<< >>) = << >>
    <3>1. Books(<< >>) \in Seq(Book) /\ Len(Books(<< >>)) = 0
      BY BooksOf, EmptySeq
    <3> QED BY <3>1
  <2> QED BY <2>1, <2>2 DEF Mirror!Renew, Books
<1>9. CASE Watchdog
  <2>1. core' = Resync(core, "silence") /\ chan' = chan
    BY <1>9 DEF Watchdog, WatchdogFindsSilence, OnSilence
  <2>2. core'.books = core.books
    BY <1>0, <2>1 DEF Resync, Core
  <2>3. \/ sock' = "closing"
        \/ sock = "none" /\ sock' = "none"
    BY <1>9 DEF Watchdog, WatchdogFindsSilence, OnSilence, Resync, HandleEvents,
                RaisesResync, DropSocket, Core, HotInv, TypeOK, ClientTypeOK
  <2> QED BY <2>1, <2>2, <2>3 DEF Mirror!mirrorVars, Mirror!Distrust
<1>10. CASE PageCommand
  <2>1. core' = core /\ chan' = chan
    BY <1>10 DEF PageCommand, Command, Resume, SetProtocols, Close
  <2>2. \/ sock' = sock
        \/ sock' = "closing"
        \/ sock = "none" /\ sock' = "connecting"
    BY <1>10 DEF PageCommand, Command, Resume, Dial, SetProtocols, Close, DropSocket
  <2> QED BY <2>1, <2>2 DEF Mirror!mirrorVars, Mirror!Distrust
<1>11. CASE UNCHANGED vars
  BY <1>4, <1>11 DEF vars, clientVars, serverVars
<1> QED
  BY <1>1, <1>2, <1>3, <1>4, <1>5, <1>6, <1>7, <1>8, <1>9, <1>10, <1>11
  DEF Next, ServerNext, WireNext

\* Frames, seqs, heartbeats, the gap detector, the watchdog and the reconnects
\* implement LadderMirror: the screen shows the published books in order, misses
\* none, and shows nothing more of a wire that lost one.
THEOREM HotPlaneMirrors == Spec => MirrorsTheWire
<1>1. Init => Mirror!MirrorInit
  <2>1. ASSUME Init PROVE chan = << >> /\ sock = "connecting"
    BY <2>1 DEF Init, ClientInit
  <2>2. Books(<< >>) = << >>
    <3>1. Books(<< >>) \in Seq(Book) /\ Len(Books(<< >>)) = 0
      BY BooksOf, EmptySeq
    <3> QED BY <3>1
  <2> QED BY <2>1, <2>2 DEF Mirror!MirrorInit, Books
<1>2. HotInv /\ [Next]_vars => [Mirror!MirrorNext]_(Mirror!mirrorVars)
  BY MirrorStep
<1> QED BY <1>1, <1>2, HotPlaneCorrect, PTL DEF Spec, MirrorsTheWire, Mirror!MirrorSpec
=============================================================================
