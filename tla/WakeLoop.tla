------------------------------ MODULE WakeLoop ------------------------------
(***************************************************************************)
(* Waking the server (apps/web/src/lib/wake.ts): knock on /healthz, sleep, *)
(* knock again, until it answers or a knock would start after the          *)
(* deadline.  The deadline is read between knocks only: a knock that the   *)
(* browser keeps open holds the loop.  Time is the moment the deadline     *)
(* passes.                                                                 *)
(***************************************************************************)

VARIABLES
  knock,   \* "none", or what the loop waits for: a "fetch" or its "sleep"
  late     \* the deadline of the knock in hand has passed

wakeVars == <<knock, late>>

KnockStates == {"none", "fetch", "sleep"}
Waking == knock # "none"

WakeInit == knock = "none" /\ late = FALSE

\* The first knock leaves at once: the deadline is ahead of it.
StartKnocking == ~Waking /\ knock' = "fetch" /\ late' = FALSE

\* No answer, an error status, or a body that is not JSON.
KnockFails == knock = "fetch" /\ knock' = "sleep" /\ UNCHANGED late

\* The loop head, after a sleep and before the deadline.
KnockAgain == knock = "sleep" /\ ~late /\ knock' = "fetch" /\ UNCHANGED late

DeadlinePasses == Waking /\ ~late /\ late' = TRUE /\ UNCHANGED knock

\* wakeServer returns: an answer, however late, or the deadline after a sleep.
Returns(ok) ==
  /\ IF ok THEN knock = "fetch" ELSE knock = "sleep" /\ late
  /\ knock' = "none"
  /\ late' = FALSE
=============================================================================
