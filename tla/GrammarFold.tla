---------------------------- MODULE GrammarFold -----------------------------
(***************************************************************************)
(* A book of orders that folds whatever reports arrive through the order   *)
(* grammar and keeps its state where the grammar throws: what the server's *)
(* order states and the browser's blotter have in common.  Reports are not *)
(* trusted: any type, status and quantities, of which LeavesValues names   *)
(* the leavesQty a report may carry.                                       *)
(***************************************************************************)
EXTENDS OrderGrammar

CONSTANTS
  Ids,
  MaxQty,         \* bound: order sizes and quantities in reports
  LeavesValues    \* leavesQty values reports may carry

ASSUME FoldAssumption == MaxQty \in Nat /\ LeavesValues \subseteq Int

VARIABLES
  progress,    \* [Ids -> Progress or NoOrder]
  size         \* [Ids -> OrderQty]

foldVars == <<progress, size>>

\* Reports of any kind and sense.
AnyReport ==
  [execType : ExecType, ordStatus : OrdStatus, priced : BOOLEAN,
   lastQty : NoQty..MaxQty, cumQty : 0..(2 * MaxQty), leavesQty : LeavesValues,
   rejectReason : RejectReason \cup {NoReason}]

Fold(id, r) ==
  LET next == ApplyReport(progress[id], r, size[id])
  IN /\ next # Refused
     /\ progress' = [progress EXCEPT ![id] = next]
     /\ UNCHANGED size

FoldInit ==
  /\ progress = [id \in Ids |-> NoOrder]
  /\ size \in [Ids -> 1..MaxQty]

FoldNext == \E id \in Ids, r \in AnyReport : Fold(id, r)

FoldSpec == FoldInit /\ [][FoldNext]_foldVars

-----------------------------------------------------------------------------
(* Properties *)

\* Reports that never take leavesQty below 0 keep the promise of OrderLife,
\* whatever else is wrong with them (applyReport).
Life == INSTANCE OrderLife WITH life <- progress

FoldKeepsOrderLife == Life!LifeSpec
=============================================================================
