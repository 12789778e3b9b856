---------------------------- MODULE MCExecution -----------------------------
(* Finite values for Execution's constants. *)
EXTENDS Execution

CONSTANTS o1, o2

MCIds == {o1, o2}

\* Whatever is scheduled falls due before the clock stops.
ASSUME ClockIsLongEnough ==
  \A hold \in Holds : SubmitUntil + hold + (MaxPartials + 1) * EventGap <= MaxTime
=============================================================================
