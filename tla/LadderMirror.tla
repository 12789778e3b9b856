---------------------------- MODULE LadderMirror ----------------------------
(***************************************************************************)
(* What the hot plane promises a trader's screen, with no seqs, frames or  *)
(* sockets in it: the ladder shown passes through the books published for  *)
(* it, in order and without missing one, and when one is lost nothing more *)
(* of that wire is shown; the only way back is a new wire.                 *)
(***************************************************************************)
EXTENDS Sequences, Integers

VARIABLES
  shown,    \* the book on the screen
  queue,    \* the books published on this wire and not yet shown
  trusted   \* the wire is whole so far

mirrorVars == <<shown, queue, trusted>>

MirrorInit == queue = << >> /\ trusted = TRUE

\* The server publishes one book or several.
Publish ==
  /\ Len(queue') > Len(queue)
  /\ SubSeq(queue', 1, Len(queue)) = queue
  /\ UNCHANGED <<shown, trusted>>

\* The screen moves to the next book.
Show ==
  /\ trusted
  /\ queue # << >>
  /\ shown' = Head(queue)
  /\ queue' = Tail(queue)
  /\ UNCHANGED trusted

\* The wire is given up: perhaps at the book it tripped over.
Distrust ==
  /\ trusted' = FALSE
  /\ \/ queue' = queue
     \/ queue # << >> /\ queue' = Tail(queue)
  /\ UNCHANGED shown

\* A new wire, with nothing of the old one.
Renew ==
  /\ trusted' = TRUE
  /\ queue' = << >>
  /\ UNCHANGED shown

MirrorNext == Publish \/ Show \/ Distrust \/ Renew

MirrorSpec == MirrorInit /\ [][MirrorNext]_mirrorVars
=============================================================================
