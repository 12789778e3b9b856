---------------------------- MODULE OrderGrammar ----------------------------
(***************************************************************************)
(* The order grammar of packages/domain/src/orders.ts: the one validator   *)
(* the execution engine, the server's order states and the browser's       *)
(* blotter fold their reports through.  A report is what the validator     *)
(* looks at; prices are reduced to their presence.  Where the code throws, *)
(* the fold yields Refused.                                                *)
(***************************************************************************)
EXTENDS Integers

Terminal == {"FILLED", "REJECTED", "CANCELED", "EXPIRED"}
Live == {"NEW", "PARTIALLY_FILLED"}
OrdStatus == Terminal \cup Live
ExecType == {"NEW", "TRADE", "REJECTED", "CANCELED", "EXPIRED"}
RejectReason == {"LAST_LOOK", "STALE_PRICE", "INVALID_QTY", "CREDIT"}

\* null in lastQty and in rejectReason.
NoQty == -1
NoReason == "none"

Report == [execType : ExecType, ordStatus : OrdStatus, priced : BOOLEAN,
           lastQty : Int, cumQty : Int, leavesQty : Int,
           rejectReason : RejectReason \cup {NoReason}]

\* OrderProgress; NoOrder is the null before the first event.
Progress == [status : OrdStatus, cumQty : Int, leavesQty : Int]
NoOrder == [status |-> "NONE", cumQty |-> 0, leavesQty |-> 0]
Refused == [status |-> "REFUSED", cumQty |-> 0, leavesQty |-> 0]

\* Mutant: a late CANCELED is taken for an order that already ended.
NextOrdStatusReopens(prev, execType, leavesQty) ==
  CASE execType \in {"NEW", "REJECTED"} /\ prev = "NONE" -> execType
    [] execType = "TRADE" /\ prev \in Live ->
         IF leavesQty = 0 THEN "FILLED" ELSE "PARTIALLY_FILLED"
    [] execType \in {"CANCELED", "EXPIRED"} /\ prev # "NONE" -> execType
    [] OTHER -> "REFUSED"

\* The state machine: the status after an event, "REFUSED" where it throws.
NextOrdStatus(prev, execType, leavesQty) ==
  CASE execType \in {"NEW", "REJECTED"} /\ prev = "NONE" -> execType
    [] execType = "TRADE" /\ prev \in Live ->
         IF leavesQty = 0 THEN "FILLED" ELSE "PARTIALLY_FILLED"
    [] execType \in {"CANCELED", "EXPIRED"} /\ prev \in Live -> execType
    [] OTHER -> "REFUSED"

\* The quantities a report of each type must carry.
NewAdds(r, orderQty) ==
  /\ r.cumQty = 0
  /\ r.leavesQty = orderQty
  /\ ~r.priced
  /\ r.lastQty = NoQty

TradeAdds(prev, r, orderQty) ==
  /\ r.priced
  /\ r.lastQty > 0
  /\ r.cumQty = prev.cumQty + r.lastQty
  /\ r.cumQty + r.leavesQty = orderQty

RejectAdds(r) ==
  /\ r.cumQty = 0
  /\ r.leavesQty = 0
  /\ r.rejectReason # NoReason

CloseAdds(prev, r, orderQty) ==
  /\ r.leavesQty = 0
  /\ r.cumQty = prev.cumQty
  /\ r.cumQty <= orderQty

Accepts(prev, r, orderQty) ==
  /\ r.ordStatus = NextOrdStatus(prev.status, r.execType, r.leavesQty)
  /\ r.execType = "NEW" => NewAdds(r, orderQty)
  /\ r.execType = "TRADE" => TradeAdds(prev, r, orderQty)
  /\ r.execType = "REJECTED" => RejectAdds(r)
  /\ r.execType \in {"CANCELED", "EXPIRED"} => CloseAdds(prev, r, orderQty)

ApplyReport(prev, r, orderQty) ==
  IF Accepts(prev, r, orderQty)
  THEN [status |-> r.ordStatus, cumQty |-> r.cumQty, leavesQty |-> r.leavesQty]
  ELSE Refused
=============================================================================
