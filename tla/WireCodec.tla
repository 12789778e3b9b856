------------------------------ MODULE WireCodec ------------------------------
(***************************************************************************)
(* The two wires of a frame (packages/protocol/src/frames.ts): fx.v1 is    *)
(* JSON checked by a schema, fx.v2 is bytes checked by their count.  A     *)
(* payload of fx.v2 is its header, its length and its records; every field *)
(* has the width the layout gives it, as a constant.  serverTs rides along *)
(* unchecked on both and is left out.                                      *)
(***************************************************************************)
EXTENDS Integers, SequencesExt

CONSTANTS
  CountMax,     \* u16
  SeqMax,       \* u32
  ByteMax,      \* u8: pairId, level
  PriceMax,     \* i32
  SizeMax       \* u32

ASSUME WidthAssumption == {CountMax, SeqMax, ByteMax, PriceMax, SizeMax} \subseteq Nat

FRAME_TYPE_CODES == <<"SNAPSHOT", "DELTA", "HEARTBEAT">>
HeaderBytes == 16
RecordBytes == 12
BinaryVersion == 2

\* A throw, and the null of a frame type that is not known.
Throws == [frameType |-> "throws"]
Skipped == [frameType |-> "skipped"]

\* seq is born here, dense from firstSeq.
AssembleFrame(frameType, updates, firstSeq) ==
  [frameType |-> frameType, count |-> Len(updates), firstSeq |-> firstSeq,
   records |-> [i \in DOMAIN updates |->
                  [pairId |-> updates[i].pairId, side |-> updates[i].side,
                   level |-> updates[i].level, price |-> updates[i].price,
                   size |-> updates[i].size, seq |-> firstSeq + i - 1]]]

-----------------------------------------------------------------------------
(* fx.v2 *)

\* checkRange() on every field that has a width.
Fits(r) ==
  /\ r.pairId \in 0..ByteMax
  /\ r.level \in 0..ByteMax
  /\ r.price \in (-PriceMax - 1)..PriceMax
  /\ r.size \in 0..SizeMax

EncodeFrameBinary(f) ==
  IF \/ ~Contains(FRAME_TYPE_CODES, f.frameType)
     \/ f.count \notin 0..CountMax
     \/ f.firstSeq \notin 0..SeqMax
     \/ \E i \in DOMAIN f.records : ~Fits(f.records[i])
  THEN Throws
  ELSE [version |-> BinaryVersion,
        typeCode |-> (CHOOSE i \in DOMAIN FRAME_TYPE_CODES : FRAME_TYPE_CODES[i] = f.frameType) - 1,
        count |-> f.count,
        firstSeq |-> f.firstSeq,
        length |-> HeaderBytes + RecordBytes * Len(f.records),
        records |-> [i \in DOMAIN f.records |->
                       [pairId |-> f.records[i].pairId,
                        sideByte |-> IF f.records[i].side = "bid" THEN 0 ELSE 1,
                        level |-> f.records[i].level,
                        price |-> f.records[i].price,
                        size |-> f.records[i].size]]]

\* Mutant: a payload is as long as it is, whatever its count says.
DamagedAnyLength(b) == b.length < HeaderBytes \/ b.version # BinaryVersion

\* Too short for a header, another version, a length that is not the count's.
Damaged(b) ==
  \/ b.length < HeaderBytes
  \/ b.version # BinaryVersion
  \/ b.length # HeaderBytes + RecordBytes * b.count

\* The seqs are not on the wire: the decoder counts them up.
DecodeFrameBinary(b) ==
  IF Damaged(b) THEN Throws
  ELSE IF b.typeCode >= Len(FRAME_TYPE_CODES) THEN Skipped
  ELSE IF \E i \in DOMAIN b.records : b.records[i].sideByte > 1 THEN Throws
  ELSE AssembleFrame(FRAME_TYPE_CODES[b.typeCode + 1],
                     [i \in DOMAIN b.records |->
                        [pairId |-> b.records[i].pairId,
                         side |-> IF b.records[i].sideByte = 0 THEN "bid" ELSE "ask",
                         level |-> b.records[i].level,
                         price |-> b.records[i].price,
                         size |-> b.records[i].size]],
                     b.firstSeq)

-----------------------------------------------------------------------------
(* fx.v1 *)

EncodeFrame(f) == f

\* wireRecordSchema: prices are positive here, and only here.
Sensible(r) ==
  /\ {r.pairId, r.level, r.size, r.seq} \subseteq Nat
  /\ r.side \in {"bid", "ask"}
  /\ r.price > 0

\* The schema, the count, the density; then the type.
DecodeFrame(t) ==
  IF \/ ~({t.count, t.firstSeq} \subseteq Nat)
     \/ \E i \in DOMAIN t.records : ~Sensible(t.records[i])
     \/ t.count # Len(t.records)
     \/ \E i \in DOMAIN t.records : t.records[i].seq # t.firstSeq + i - 1
  THEN Throws
  ELSE IF ~Contains(FRAME_TYPE_CODES, t.frameType) THEN Skipped
  ELSE t
=============================================================================
