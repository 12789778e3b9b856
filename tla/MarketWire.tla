----------------------------- MODULE MarketWire ------------------------------
(***************************************************************************)
(* What the market says, on both wires: the book of a pair as the frame a  *)
(* client is sent (server.ts, payloadFor), encoded and decoded again.      *)
(***************************************************************************)
EXTENDS Market, WireCodec

CONSTANTS
  AnchorPrice,   \* the price the walk is tethered to, in pipettes
  FirstSeqs      \* where the numbering of a wire may stand

ASSUME MarketWireAssumption == AnchorPrice \in Nat /\ FirstSeqs \subseteq 0..SeqMax

\* pairRecords(): bid and ask of each level, best first; sizes are not modelled.
BookUpdates(p) ==
  [i \in 1..MidMoveCost |->
     LET side == IF i % 2 = 1 THEN "bid" ELSE "ask"
         depth == (i - 1) \div 2
     IN [pairId |-> 0, side |-> side, level |-> depth, size |-> 1,
         price |-> AnchorPrice + mirror[p][<<side, depth>>]]]

\* A payload with its structure damaged in one place.
Torn(b) ==
  {[b EXCEPT !.version = @ - 1], [b EXCEPT !.count = @ + 1], [b EXCEPT !.count = @ - 1],
   [b EXCEPT !.length = @ - 1], [b EXCEPT !.length = HeaderBytes - 1],
   [b EXCEPT !.typeCode = Len(FRAME_TYPE_CODES)], [b EXCEPT !.records[1].sideByte = 2]}

\* How far below its anchor a quote of the pair can be: the tether, the news it
\* has had, half the widest spread, the levels.
WidestSpread == SpreadBase * (CHOOSE x \in SpreadXs : \A y \in SpreadXs : x >= y)
FarthestQuote(tether) == tether + (WidestSpread + 1) \div 2 + (BookLevels - 1) * LevelGap
Reach(p) == FarthestQuote(MaxDeviation + Step + jumped[p])

\* The fields of fx.v2 have room for the ladder and for every price that news can lead
\* to: otherwise checkRange() throws.
WidthsSuffice ==
  /\ MidMoveCost <= CountMax /\ BookLevels - 1 <= ByteMax /\ 1 <= SizeMax
  /\ \E far \in 0..PriceMax :
       /\ \A jump \in Jumps : AbsInt(jump) <= far
       /\ AnchorPrice + FarthestQuote(MaxDeviation + Step + MaxCommands * far) <= PriceMax

\* Whatever the market says, fx.v2 carries it unchanged, and so does fx.v1 while the
\* news a pair has had keeps its prices above zero: below that the JSON schema
\* throws where the bytes pass (frames.ts 58, 154).  A payload damaged in its
\* structure is never taken for a frame.
BothWiresCarryTheBook ==
  \A p \in Pairs, firstSeq \in FirstSeqs :
    LET frame == AssembleFrame("SNAPSHOT", BookUpdates(p), firstSeq)
        bytes == EncodeFrameBinary(frame)
    IN /\ DecodeFrameBinary(bytes) = frame
       /\ AnchorPrice > Reach(p) => DecodeFrame(EncodeFrame(frame)) = frame
       /\ \A torn \in Torn(bytes) : DecodeFrameBinary(torn) \in {Throws, Skipped}
=============================================================================
