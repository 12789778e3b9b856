---------------------------- MODULE RenderStore ----------------------------
(***************************************************************************)
(* How changes of the stream reach the screen                              *)
(* (apps/web/src/stream/store.ts and the components that subscribe to it). *)
(* Every step of the socket shell that calls onChange is taken together    *)
(* with what the store makes of the call: a render at once (naive), or one *)
(* animation frame for everything since the last one (coalesced).          *)
(*                                                                         *)
(* A component renders when the version it read last has moved.  Versions  *)
(* only grow, so "moved" is kept as a fact instead of two counters: one    *)
(* for the components that read version(), and one per ladder row, which   *)
(* reads the counter of its own pair.  A row is a level of the book.       *)
(***************************************************************************)
EXTENDS FeedClient, WakeLoop

VARIABLES
  mode,          \* the render mode
  framePending,  \* an animation frame is scheduled
  moved,         \* version() is not what the page was drawn from
  rowsMoved,     \* the rows whose own counter is not what they were drawn from
  socketState,   \* connect.ts socketState: what the page may ask for
  lastClose,     \* the close code of the last judged ending, 0 for none
  shown,         \* what the status line, the wake panel and the ladder show
  rows           \* the quote each ladder row shows

storeVars == <<mode, framePending, moved, rowsMoved, socketState, lastClose,
               shown, rows>>
vars == <<clientVars, wakeVars, storeVars>>

Modes == {"naive", "coalesced"}
SocketStates == {"connecting", "open", "closed"}

Page == [status : {"awaiting-snapshot", "live", "resync"},
         socketState : SocketStates, lastClose : CloseCodes \cup {0},
         terminal : BOOLEAN]

\* What the components would read if they rendered after this step.
Readable == [status |-> core.status, socketState |-> socketState,
             lastClose |-> lastClose, terminal |-> terminal]

\* The "live" prop that the ladder hands its rows.
Bright(page) == page.status = "live" /\ page.socketState = "open"

-----------------------------------------------------------------------------
(* Rendering *)

\* The page is drawn if its version moved (or its parent renders); a row if
\* its own counter moved or its props did.
Draw(forced, bump, touched) ==
  LET redraw == forced \/ moved \/ bump
      page   == IF redraw THEN Readable' ELSE shown
      due    == IF Bright(page) # Bright(shown) THEN Levels ELSE rowsMoved \cup touched
  IN /\ shown' = page
     /\ moved' = FALSE
     /\ rows' = [l \in Levels |-> IF l \in due THEN core.books'[l] ELSE rows[l]]
     /\ rowsMoved' = {}

\* onChange after a step that moved the version (bump) and some rows (touched).
OnChange(bump, touched) ==
  /\ UNCHANGED <<mode, wakeVars>>
  /\ \/ /\ mode = "naive"
        /\ Draw(FALSE, bump, touched)
        /\ UNCHANGED framePending
     \/ /\ mode = "coalesced"
        /\ framePending' = TRUE
        /\ moved' = (moved \/ bump)
        /\ rowsMoved' = rowsMoved \cup touched
        /\ UNCHANGED <<shown, rows>>

\* Mutant: only a delta moves the counters of the pairs.
TouchedByDelta(c, f) ==
  IF f.type = "DELTA" /\ c.status = "live" /\ f.firstSeq = c.expectedSeq
  THEN {f.records[i].level : i \in DOMAIN f.records} ELSE {}

\* bumpPair: the rows of the records a frame applies.
TouchedBy(c, f) ==
  IF \/ f.type = "SNAPSHOT"
     \/ f.type = "DELTA" /\ c.status = "live" /\ f.firstSeq = c.expectedSeq
  THEN {f.records[i].level : i \in DOMAIN f.records} ELSE {}

-----------------------------------------------------------------------------
(* The shell's callbacks, each with the notification it ends in *)

StoreTimerFires ==
  /\ TimerFires
  /\ socketState' = "connecting"
  /\ UNCHANGED lastClose
  /\ OnChange(FALSE, {})

StoreOpened ==
  /\ Opened
  /\ socketState' = "open"
  /\ lastClose' = 0
  /\ OnChange(FALSE, {})

\* Every frame that decodes moves the version, whatever the core makes of it.
StoreMessage(f) ==
  /\ Message(f)
  /\ UNCHANGED <<socketState, lastClose>>
  /\ OnChange(TRUE, TouchedBy(core, f))

StoreDamagedMessage ==
  /\ DamagedMessage
  /\ UNCHANGED <<socketState, lastClose>>
  /\ OnChange(RaisesResync(core, core'), {})

StoreFindsSilence ==
  /\ WatchdogFindsSilence
  /\ UNCHANGED <<socketState, lastClose>>
  /\ OnChange(TRUE, {})

StoreOnClose(code) ==
  /\ OnClose(code)
  /\ socketState' = "closed"
  /\ lastClose' = IF resyncing THEN lastClose ELSE code
  /\ OnChange(FALSE, {})

\* The wake button, there only while the page shows a closed socket, knocks.
Wake ==
  /\ shown.socketState = "closed"
  /\ StartKnocking
  /\ UNCHANGED <<clientVars, mode, framePending, socketState, lastClose>>
  /\ Draw(TRUE, FALSE, {})

\* The loop goes on without a word to the page.
Knocking ==
  /\ KnockFails \/ KnockAgain \/ DeadlinePasses
  /\ UNCHANGED <<clientVars, storeVars>>

\* Mutant: only a server that answered is dialled.
WakeEndsIfAwake ==
  /\ \E ok \in BOOLEAN :
       /\ Returns(ok)
       /\ \/ /\ ok
             /\ Resume
             /\ socketState' = "connecting"
             /\ framePending' = (framePending \/ mode = "coalesced")
          \/ /\ ~ok \/ sock # "none"
             /\ UNCHANGED <<clientVars, socketState, framePending>>
  /\ UNCHANGED <<mode, lastClose>>
  /\ Draw(TRUE, FALSE, {})

\* wakeServer() returned, woken or not: App renders, and resume() dials unless
\* the client's own retry was there first.
WakeEnds ==
  /\ \E ok \in BOOLEAN : Returns(ok)
  /\ \/ /\ Resume
        /\ socketState' = "connecting"
        /\ framePending' = (framePending \/ mode = "coalesced")
     \/ /\ sock # "none"
        /\ UNCHANGED <<clientVars, socketState, framePending>>
  /\ UNCHANGED <<mode, lastClose>>
  /\ Draw(TRUE, FALSE, {})

\* setWire: the store moves its own version and renders at once.
SetWire(offer) ==
  /\ SetProtocols(offer)
  /\ UNCHANGED <<mode, framePending, socketState, lastClose, wakeVars>>
  /\ Draw(FALSE, TRUE, {})

SetRenderMode(next) ==
  /\ mode' = next
  /\ UNCHANGED <<clientVars, framePending, socketState, lastClose, wakeVars>>
  /\ Draw(FALSE, TRUE, {})

\* The animation frame runs the listeners once.
Flush ==
  /\ framePending
  /\ framePending' = FALSE
  /\ UNCHANGED <<clientVars, mode, socketState, lastClose, wakeVars>>
  /\ Draw(FALSE, FALSE, {})

\* App renders for reasons of its own: the health check, a selected pair.
AppRenders ==
  /\ UNCHANGED <<clientVars, mode, framePending, socketState, lastClose, wakeVars>>
  /\ Draw(TRUE, FALSE, {})

Init ==
  /\ ClientInit
  /\ mode = "coalesced"
  /\ framePending = TRUE
  /\ moved = FALSE
  /\ rowsMoved = {}
  /\ socketState = "connecting"
  /\ lastClose = 0
  /\ WakeInit
  /\ shown = Readable
  /\ rows = EmptyBook

Next ==
  \/ StoreTimerFires
  \/ StoreOpened
  \/ core.gaps < MaxGaps /\ \E f \in EnvFrames : StoreMessage(f)
  \/ StoreDamagedMessage
  \/ StoreFindsSilence
  \/ \E code \in CloseCodes : StoreOnClose(code)
  \/ Wake
  \/ Knocking
  \/ WakeEnds
  \/ \E offer \in {"v1", "v2"} : SetWire(offer)
  \/ \E next \in Modes : SetRenderMode(next)
  \/ Flush
  \/ AppRenders

Spec == Init /\ [][Next]_vars

\* Timers, the watchdog and the frames of a visible page run; the browser ends
\* every fetch, and 90 seconds pass.
FairSpec ==
  /\ Spec
  /\ WF_vars(StoreTimerFires)
  /\ WF_vars(StoreFindsSilence)
  /\ WF_vars(Flush)
  /\ WF_vars(KnockFails /\ UNCHANGED <<clientVars, storeVars>>)
  /\ WF_vars(KnockAgain /\ UNCHANGED <<clientVars, storeVars>>)
  /\ WF_vars(DeadlinePasses /\ UNCHANGED <<clientVars, storeVars>>)
  /\ WF_vars(WakeEnds)
-----------------------------------------------------------------------------
(* Properties *)

RenderTypeOK ==
  /\ mode \in Modes
  /\ framePending \in BOOLEAN
  /\ moved \in BOOLEAN
  /\ rowsMoved \subseteq Levels
  /\ socketState \in SocketStates
  /\ lastClose \in CloseCodes \cup {0}
  /\ knock \in KnockStates
  /\ late \in BOOLEAN
  /\ shown \in Page
  /\ rows \in Book

\* No change waits without a frame to carry it.
Settled == mode = "naive" \/ ~framePending

\* Once the pending frame has run, every ladder row shows the core's quote,
\* through snapshots, resyncs and mode flips in any order, though a row
\* renders only when its own pair's counter moves (store.ts, scheduleFlush
\* and setRenderMode; core.ts, bumpPair).
RowsAreCurrent == Settled => rows = core.books

\* The same for the stream's status: no resync stays off the page, whether a
\* message, damage or the watchdog raised it (connect.ts, handleEvents).
StatusIsCurrent == Settled => shown.status = core.status

\* What the page shows once the pending frame has run.
RenderInv == RenderTypeOK /\ RowsAreCurrent /\ StatusIsCurrent

\* A knock ends, answered or not, and leaves the client dialling or connected,
\* also after an ending the table called final while the loop was away: the
\* page is never left with a dead button (App.tsx wake, wake.ts, connect.ts
\* resume together).
KnocksEndInADial == Waking ~> (~Waking /\ sock # "none")

\* DEMO.md:170, "the page says so": while a server stays down, attempt after
\* attempt, the page sooner or later shows a closed socket and with it the
\* wake panel (WakePanel.tsx:35).
DownIsSaid ==
  []<>(socketState = "closed") /\ <>[](socketState # "open")
    => []<>(shown.socketState = "closed")
=============================================================================
