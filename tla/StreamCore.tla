----------------------------- MODULE StreamCore -----------------------------
(***************************************************************************)
(* The sans-I/O half of the browser's feed client                          *)
(* (apps/web/src/stream/core.ts) and the frames it consumes                *)
(* (packages/protocol/src/frames.ts), as operators on one record.          *)
(*                                                                         *)
(* A book level (pair, side, depth) is a number in 1..NLevels and what it  *)
(* holds is a Quote; NoQuote is an empty level, which is also what a       *)
(* record of size 0 leaves behind.  A frame is its type, the seq of its    *)
(* first record and its records; count is Len(records), and the per-record *)
(* seq, firstSeq + i, is left out because both decoders accept no other.   *)
(***************************************************************************)
EXTENDS Integers, Sequences

CONSTANTS
  NLevels,   \* number of book levels in the catalogue
  Quotes,    \* the (price, size) pairs a level can hold
  NoQuote    \* an empty level

ASSUME CoreAssumption ==
  /\ NLevels \in Nat \ {0}
  /\ NoQuote \notin Quotes

Levels == 1..NLevels
Book == [Levels -> Quotes \cup {NoQuote}]
EmptyBook == [l \in Levels |-> NoQuote]

\* One level upsert; quote = NoQuote is the record with size 0.
Record == [level : Levels, quote : Quotes \cup {NoQuote}]

-----------------------------------------------------------------------------
(* Frames *)

DataTypes == {"SNAPSHOT", "DELTA"}

Delta(firstSeq, records) ==
  [type |-> "DELTA", firstSeq |-> firstSeq, records |-> records]

\* Market.snapshot(): one record for every level.
SnapshotRecords(book) == [l \in Levels |-> [level |-> l, quote |-> book[l]]]

Snapshot(firstSeq, book) ==
  [type |-> "SNAPSHOT", firstSeq |-> firstSeq, records |-> SnapshotRecords(book)]

Heartbeat(lastSeq) ==
  [type |-> "HEARTBEAT", firstSeq |-> lastSeq, records |-> << >>]

-----------------------------------------------------------------------------
(* Folding records into a book: the last record of a level wins. *)

Touched(records, l) == {i \in DOMAIN records : records[i].level = l}

LastTouch(records, l) ==
  CHOOSE i \in Touched(records, l) : \A j \in Touched(records, l) : j <= i

Upsert(book, records) ==
  [l \in Levels |-> IF Touched(records, l) = {}
                    THEN book[l]
                    ELSE records[LastTouch(records, l)].quote]

-----------------------------------------------------------------------------
(* The core's state: connection status, the seq the next data record must  *)
(* carry, the books, and the count of gaps it has reported.                *)

NoSeq == -1

Core == [status : {"awaiting-snapshot", "live", "resync"},
         expectedSeq : Nat \cup {NoSeq},
         books : Book,
         gaps : Nat]

InitCore == [status |-> "awaiting-snapshot", expectedSeq |-> NoSeq,
             books |-> EmptyBook, gaps |-> 0]

Resync(c, reason) ==
  [c EXCEPT !.status = "resync",
            !.expectedSeq = NoSeq,
            !.gaps = IF reason \in {"gap", "heartbeat-loss"} THEN c.gaps + 1 ELSE c.gaps]

OnSnapshot(c, f) ==
  [c EXCEPT !.books = Upsert(EmptyBook, f.records),
            !.expectedSeq = f.firstSeq + Len(f.records),
            !.status = "live"]

\* Mutant: a heartbeat is only counted.
OnHeartbeatCounted(c, f) == c

OnHeartbeat(c, f) ==
  IF c.expectedSeq # NoSeq /\ f.firstSeq # c.expectedSeq - 1
  THEN Resync(c, "heartbeat-loss")
  ELSE c

OnDelta(c, f) ==
  IF c.expectedSeq = NoSeq \/ f.firstSeq # c.expectedSeq
  THEN Resync(c, "gap")
  ELSE [c EXCEPT !.books = Upsert(@, f.records),
                 !.expectedSeq = f.firstSeq + Len(f.records)]

\* A frame that decodes: a snapshot always lands, data only while live.
OnFrame(c, f) ==
  IF f.type = "SNAPSHOT" THEN OnSnapshot(c, f)
  ELSE IF c.status # "live" THEN c
  ELSE IF f.type = "HEARTBEAT" THEN OnHeartbeat(c, f)
  ELSE OnDelta(c, f)

\* A message the decoder throws on.
OnDamage(c) == IF c.status = "resync" THEN c ELSE Resync(c, "protocol-error")

\* The watchdog tick that finds the channel silent for DEAD_AFTER_MS.
OnSilence(c) == IF c.status = "live" THEN Resync(c, "silence") ELSE c

\* A call of the core returned a resync event: only the move into "resync" does.
RaisesResync(before, after) == before.status # "resync" /\ after.status = "resync"
=============================================================================
