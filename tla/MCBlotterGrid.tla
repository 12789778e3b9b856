--------------------------- MODULE MCBlotterGrid ----------------------------
(* Finite values for BlotterGrid's constants. *)
EXTENDS BlotterGrid

CONSTANTS o1, o2

MCIds == {o1, o2}
HonestLeaves == 0..2

Seen(type, statuses, prices, last, cum, leaves, reasons) ==
  [execType : {type}, ordStatus : statuses, priced : prices, lastQty : last,
   cumQty : cum, leavesQty : leaves, rejectReason : reasons]

\* Every report that some order of size 1 or 2 may accept, and more.
LawfulReports ==
  Seen("NEW", {"NEW"}, {FALSE}, {NoQty}, {0}, 1..2, {NoReason})
    \cup Seen("TRADE", {"PARTIALLY_FILLED", "FILLED"}, {TRUE}, 1..2, 1..2, 0..1, {NoReason})
    \cup Seen("REJECTED", {"REJECTED"}, {FALSE}, {NoQty}, {0}, {0}, {"LAST_LOOK"})
    \cup Seen("CANCELED", {"CANCELED"}, {FALSE}, {NoQty}, 0..2, {0}, {NoReason})
    \cup Seen("EXPIRED", {"EXPIRED"}, {FALSE}, {NoQty}, 0..2, {0}, {NoReason})
=============================================================================
