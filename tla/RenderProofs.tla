---------------------------- MODULE RenderProofs ----------------------------
(***************************************************************************)
(* What the page shows once its pending frame has run, for any ladder, any *)
(* close codes and any frames of a server whose snapshots are whole.  The  *)
(* condition is for the rows: a snapshot empties the levels it does not    *)
(* name and bumps only those it names.                                     *)
(***************************************************************************)
EXTENDS RenderStore, FeedClientProofs

\* A snapshot has a record of every level, as Market.snapshot() makes them.
WholeSnapshots ==
  \A f \in EnvFrames : f.type = "SNAPSHOT" => \A l \in Levels : Touched(f.records, l) # {}

\* What is behind is marked, and a mark has a frame to carry it.
RowsAreMarked == \A l \in Levels : rows[l] # core.books[l] => l \in rowsMoved
StatusIsMarked == shown.status # core.status => moved
MarksAreCarried == moved \/ rowsMoved # {} => mode = "coalesced" /\ framePending

MarkInv == RowsAreMarked /\ StatusIsMarked /\ MarksAreCarried

StoreInv == Shell /\ RenderTypeOK /\ MarkInv

\* A step of the store is a step of the shell, or none.
LEMMA NextIsClient == Next => [ClientNext]_clientVars
<1> SUFFICES ASSUME Next PROVE ClientNext \/ UNCHANGED clientVars
  OBVIOUS
<1>1. CASE StoreTimerFires \/ StoreOpened \/ StoreDamagedMessage \/ StoreFindsSilence
  BY <1>1 DEF StoreTimerFires, StoreOpened, StoreDamagedMessage, StoreFindsSilence, ClientNext
<1>2. CASE core.gaps < MaxGaps /\ \E f \in EnvFrames : StoreMessage(f)
  BY <1>2 DEF StoreMessage, ClientNext
<1>3. CASE \E code \in CloseCodes : StoreOnClose(code)
  BY <1>3 DEF StoreOnClose, ClientNext
<1>4. CASE WakeEnds
  BY <1>4 DEF WakeEnds, ClientNext, Command
<1>5. CASE \E offer \in {"v1", "v2"} : SetWire(offer)
  BY <1>5 DEF SetWire, ClientNext, Command
<1>6. CASE Wake \/ Knocking \/ Flush \/ AppRenders \/ \E next \in Modes : SetRenderMode(next)
  BY <1>6 DEF Wake, Knocking, Flush, AppRenders, SetRenderMode
<1> QED BY <1>1, <1>2, <1>3, <1>4, <1>5, <1>6 DEF Next

-----------------------------------------------------------------------------
(* Drawing *)

\* What a step leaves for the components to read.
ReadableOK == socketState' \in SocketStates /\ lastClose' \in CloseCodes \cup {0}

LEMMA ReadableType ==
  ASSUME Shell', ReadableOK
  PROVE  Readable' \in Page /\ Readable'.status = core'.status
<1>1. core' \in Core /\ terminal' \in BOOLEAN
  BY DEF Shell, ClientTypeOK
<1>2. core'.status \in {"awaiting-snapshot", "live", "resync"}
  BY <1>1 DEF Core
<1> QED BY <1>1, <1>2 DEF Readable, Page, ReadableOK

\* Drawing everything that is behind leaves nothing behind.
LEMMA DrawCatchesUp ==
  ASSUME Shell', ReadableOK, RenderTypeOK,
         NEW forced \in BOOLEAN, NEW bump \in BOOLEAN, NEW touched \in SUBSET Levels,
         Draw(forced, bump, touched),
         \A l \in Levels : rows[l] # core'.books[l] => l \in rowsMoved \cup touched,
         shown.status # core'.status => forced \/ moved \/ bump
  PROVE  /\ MarkInv'
         /\ rows' \in Book /\ shown' \in Page /\ moved' \in BOOLEAN /\ rowsMoved' \subseteq Levels
<1>1. core'.books \in Book
  BY DEF Shell, ClientTypeOK, Core
<1>2. moved' = FALSE /\ rowsMoved' = {}
  BY DEF Draw
<1>3. \A l \in Levels : rows'[l] = core'.books[l]
  BY DEF Draw, RenderTypeOK
<1>4. rows' \in Book
  <2>1. rows' = [l \in Levels |-> rows'[l]]
    BY DEF Draw
  <2> QED BY <1>1, <1>3, <2>1 DEF Book
<1>5. shown' \in Page /\ shown'.status = core'.status
  BY ReadableType DEF Draw, RenderTypeOK
<1>6. MarkInv'
  BY <1>2, <1>3, <1>5 DEF MarkInv, RowsAreMarked, StatusIsMarked, MarksAreCarried
<1> QED BY <1>2, <1>4, <1>5, <1>6

\* A notification marks what its step has moved, or draws it.
LEMMA ChangeIsMarked ==
  ASSUME Shell', ReadableOK, RenderTypeOK, MarkInv,
         NEW bump \in BOOLEAN, NEW touched \in SUBSET Levels,
         OnChange(bump, touched),
         \A l \in Levels : core'.books[l] # core.books[l] => l \in touched,
         core'.status # core.status => bump
  PROVE  MarkInv' /\ RenderTypeOK'
<1>1. UNCHANGED <<mode, wakeVars>>
  BY DEF OnChange
<1>2. /\ \A l \in Levels : rows[l] # core'.books[l] => l \in rowsMoved \cup touched
      /\ shown.status # core'.status => moved \/ bump
  BY DEF MarkInv, RowsAreMarked, StatusIsMarked
<1>3. CASE mode = "naive"
  <2>1. Draw(FALSE, bump, touched) /\ UNCHANGED framePending
    BY <1>3 DEF OnChange
  <2>2. FALSE \in BOOLEAN
    OBVIOUS
  <2>3. /\ MarkInv'
        /\ rows' \in Book /\ shown' \in Page /\ moved' \in BOOLEAN /\ rowsMoved' \subseteq Levels
    BY <1>2, <2>1, <2>2, DrawCatchesUp
  <2> QED BY <1>1, <2>1, <2>3 DEF RenderTypeOK, wakeVars, ReadableOK
<1>4. CASE mode # "naive"
  <2>1. /\ mode = "coalesced"
        /\ framePending' = TRUE
        /\ moved' = (moved \/ bump)
        /\ rowsMoved' = rowsMoved \cup touched
        /\ UNCHANGED <<shown, rows>>
    BY <1>4 DEF OnChange
  <2>2. MarkInv'
    BY <1>1, <1>2, <2>1 DEF MarkInv, RowsAreMarked, StatusIsMarked, MarksAreCarried
  <2> QED BY <1>1, <2>1, <2>2 DEF RenderTypeOK, wakeVars, ReadableOK
<1> QED BY <1>3, <1>4

\* A render that needs no news: the core stands still.
LEMMA DrawStandingStill ==
  ASSUME Shell', ReadableOK, RenderTypeOK, MarkInv, UNCHANGED core,
         NEW forced \in BOOLEAN, NEW bump \in BOOLEAN, Draw(forced, bump, {}),
         mode' \in Modes, framePending' \in BOOLEAN,
         knock' \in KnockStates, late' \in BOOLEAN
  PROVE  MarkInv' /\ RenderTypeOK'
<1>1. /\ \A l \in Levels : rows[l] # core'.books[l] => l \in rowsMoved \cup {}
      /\ shown.status # core'.status => forced \/ moved \/ bump
  BY DEF MarkInv, RowsAreMarked, StatusIsMarked
<1>2. {} \in SUBSET Levels
  OBVIOUS
<1>3. /\ MarkInv'
      /\ rows' \in Book /\ shown' \in Page /\ moved' \in BOOLEAN /\ rowsMoved' \subseteq Levels
  BY <1>1, <1>2, DrawCatchesUp
<1> QED BY <1>3 DEF RenderTypeOK, ReadableOK

-----------------------------------------------------------------------------
(* The core's part *)

\* The levels whose quote a frame moves are those it bumps.
LEMMA FrameTouches ==
  ASSUME WholeSnapshots, NEW f \in EnvFrames, NEW c \in Core
  PROVE  /\ TouchedBy(c, f) \subseteq Levels
         /\ \A l \in Levels : OnFrame(c, f).books[l] # c.books[l] => l \in TouchedBy(c, f)
<1>1. f.records \in Seq(Record) /\ f.type \in DataTypes \cup {"HEARTBEAT"}
  BY ClientAssumption
<1>2. {f.records[i].level : i \in DOMAIN f.records} \subseteq Levels
  <2>1. \A i \in DOMAIN f.records : f.records[i] \in Record
    BY <1>1
  <2> QED BY <2>1 DEF Record
<1>3. \A l : l \in {f.records[i].level : i \in DOMAIN f.records} <=> Touched(f.records, l) # {}
  BY DEF Touched
<1>4. ASSUME NEW l \in Levels, OnFrame(c, f).books[l] # c.books[l]
      PROVE  l \in TouchedBy(c, f)
  <2>1. CASE f.type = "SNAPSHOT"
    BY <1>3, <2>1 DEF WholeSnapshots, TouchedBy
  <2>2. ASSUME NEW reason PROVE Resync(c, reason).books = c.books
    BY DEF Resync, Core
  <2>3. CASE f.type = "HEARTBEAT"
    BY <1>4, <2>2, <2>3 DEF OnFrame, OnHeartbeat
  <2>4. CASE f.type = "DELTA"
    <3>1. c.status = "live" /\ OnDelta(c, f).books[l] # c.books[l]
      BY <1>4, <2>4 DEF OnFrame
    <3>2. f.firstSeq = c.expectedSeq
      BY <2>2, <3>1 DEF OnDelta
    <3>3. OnDelta(c, f).books = Upsert(c.books, f.records) \/ OnDelta(c, f).books = c.books
      BY <2>2 DEF OnDelta, Core
    <3>4. Touched(f.records, l) # {}
      BY <3>1, <3>3 DEF Upsert
    <3> QED BY <1>3, <2>4, <3>1, <3>2, <3>4 DEF TouchedBy
  <2> QED BY <1>1, <2>1, <2>3, <2>4 DEF DataTypes
<1> QED BY <1>2, <1>4 DEF TouchedBy

LEMMA ResyncKeepsBooks ==
  ASSUME NEW c \in Core
  PROVE  /\ OnDamage(c).books = c.books
         /\ OnSilence(c).books = c.books
         /\ OnDamage(c).status # c.status => RaisesResync(c, OnDamage(c))
  BY DEF OnDamage, OnSilence, Resync, RaisesResync, Core

-----------------------------------------------------------------------------
(* The invariant *)

LEMMA StoreInit == Init => StoreInv
<1> SUFFICES ASSUME Init PROVE StoreInv
  OBVIOUS
<1>1. Shell
  BY InitShell DEF Init
<1>2. RenderTypeOK
  <2>1. Readable \in Page
    BY DEF Init, ClientInit, InitCore, Readable, Page, SocketStates
  <2>2. EmptyBook \in Book
    BY DEF EmptyBook, Book
  <2> QED BY <2>1, <2>2 DEF Init, WakeInit, RenderTypeOK, Modes, SocketStates, KnockStates
<1>3. MarkInv
  BY DEF Init, ClientInit, InitCore, Readable, MarkInv, RowsAreMarked, StatusIsMarked,
         MarksAreCarried, EmptyBook
<1> QED BY <1>1, <1>2, <1>3 DEF StoreInv

LEMMA StoreStep ==
  ASSUME WholeSnapshots, StoreInv, [Next]_vars
  PROVE  StoreInv'
<1>0. Shell'
  BY StepShell, NextIsClient DEF StoreInv, vars
<1>1. Shell /\ RenderTypeOK /\ MarkInv /\ core \in Core
  BY DEF StoreInv, Shell, ClientTypeOK
<1>2. /\ socketState \in SocketStates /\ lastClose \in CloseCodes \cup {0}
      /\ mode \in Modes /\ framePending \in BOOLEAN
      /\ knock \in KnockStates /\ late \in BOOLEAN
  BY <1>1 DEF RenderTypeOK
<1>3. TRUE \in BOOLEAN /\ FALSE \in BOOLEAN /\ {} \in SUBSET Levels
  OBVIOUS
<1>4. CASE StoreTimerFires
  <2>1. ReadableOK
    BY <1>2, <1>4 DEF StoreTimerFires, ReadableOK, SocketStates
  <2>2. UNCHANGED core /\ OnChange(FALSE, {})
    BY <1>4 DEF StoreTimerFires, TimerFires
  <2> QED BY <1>0, <1>1, <1>3, <2>1, <2>2, ChangeIsMarked DEF StoreInv
<1>5. CASE StoreOpened
  <2>1. ReadableOK
    BY <1>5 DEF StoreOpened, ReadableOK, SocketStates
  <2>2. UNCHANGED core /\ OnChange(FALSE, {})
    BY <1>5 DEF StoreOpened, Opened
  <2> QED BY <1>0, <1>1, <1>3, <2>1, <2>2, ChangeIsMarked DEF StoreInv
<1>6. ASSUME NEW f \in EnvFrames, StoreMessage(f) PROVE StoreInv'
  <2>1. ReadableOK
    BY <1>2, <1>6 DEF StoreMessage, ReadableOK
  <2>2. core' = OnFrame(core, f) /\ OnChange(TRUE, TouchedBy(core, f))
    BY <1>6 DEF StoreMessage, Message
  <2>3. /\ TouchedBy(core, f) \in SUBSET Levels
        /\ \A l \in Levels : core'.books[l] # core.books[l] => l \in TouchedBy(core, f)
    BY <1>1, <2>2, FrameTouches
  <2> QED BY <1>0, <1>1, <1>3, <2>1, <2>2, <2>3, ChangeIsMarked DEF StoreInv
<1>7. CASE StoreDamagedMessage
  <2>1. ReadableOK
    BY <1>2, <1>7 DEF StoreDamagedMessage, ReadableOK
  <2>2. core' = OnDamage(core) /\ OnChange(RaisesResync(core, core'), {})
    BY <1>7 DEF StoreDamagedMessage, DamagedMessage
  <2>3. RaisesResync(core, core') \in BOOLEAN
    BY DEF RaisesResync
  <2>4. core'.books = core.books /\ (core'.status # core.status => RaisesResync(core, core'))
    BY <1>1, <2>2, ResyncKeepsBooks
  <2> QED BY <1>0, <1>1, <1>3, <2>1, <2>2, <2>3, <2>4, ChangeIsMarked DEF StoreInv
<1>8. CASE StoreFindsSilence
  <2>1. ReadableOK
    BY <1>2, <1>8 DEF StoreFindsSilence, ReadableOK
  <2>2. core' = OnSilence(core) /\ OnChange(TRUE, {})
    BY <1>8 DEF StoreFindsSilence, WatchdogFindsSilence
  <2>3. core'.books = core.books
    BY <1>1, <2>2, ResyncKeepsBooks
  <2> QED BY <1>0, <1>1, <1>3, <2>1, <2>2, <2>3, ChangeIsMarked DEF StoreInv
<1>9. ASSUME NEW code \in CloseCodes, StoreOnClose(code) PROVE StoreInv'
  <2>1. ReadableOK
    BY <1>2, <1>9 DEF StoreOnClose, ReadableOK, SocketStates
  <2>2. UNCHANGED core /\ OnChange(FALSE, {})
    BY <1>9 DEF StoreOnClose, OnClose
  <2> QED BY <1>0, <1>1, <1>3, <2>1, <2>2, ChangeIsMarked DEF StoreInv
<1>10. CASE Wake
  <2>1. ReadableOK /\ UNCHANGED core /\ Draw(TRUE, FALSE, {})
    BY <1>2, <1>10 DEF Wake, ReadableOK, clientVars
  <2>2. /\ mode' \in Modes /\ framePending' \in BOOLEAN
        /\ knock' \in KnockStates /\ late' \in BOOLEAN
    BY <1>2, <1>10 DEF Wake, StartKnocking, KnockStates
  <2> QED BY <1>0, <1>1, <1>3, <2>1, <2>2, DrawStandingStill DEF StoreInv
<1>11. CASE Knocking
  <2>1. knock' \in KnockStates /\ late' \in BOOLEAN
    BY <1>2, <1>11 DEF Knocking, KnockFails, KnockAgain, DeadlinePasses, KnockStates
  <2>2. UNCHANGED <<core, storeVars>>
    BY <1>11 DEF Knocking, clientVars
  <2>3. RenderTypeOK' /\ MarkInv'
    BY <1>1, <2>1, <2>2 DEF RenderTypeOK, storeVars, MarkInv, RowsAreMarked, StatusIsMarked,
                            MarksAreCarried
  <2> QED BY <1>0, <2>3 DEF StoreInv
<1>12. CASE WakeEnds
  <2>1. ReadableOK /\ UNCHANGED core /\ Draw(TRUE, FALSE, {})
    BY <1>2, <1>12 DEF WakeEnds, Resume, ReadableOK, clientVars, SocketStates
  <2>2. /\ mode' \in Modes /\ framePending' \in BOOLEAN
        /\ knock' \in KnockStates /\ late' \in BOOLEAN
    BY <1>2, <1>12 DEF WakeEnds, Returns, KnockStates
  <2> QED BY <1>0, <1>1, <1>3, <2>1, <2>2, DrawStandingStill DEF StoreInv
<1>13. ASSUME NEW offer \in {"v1", "v2"}, SetWire(offer) PROVE StoreInv'
  <2>1. ReadableOK /\ UNCHANGED core /\ Draw(FALSE, TRUE, {})
    BY <1>2, <1>13 DEF SetWire, SetProtocols, ReadableOK
  <2>2. /\ mode' \in Modes /\ framePending' \in BOOLEAN
        /\ knock' \in KnockStates /\ late' \in BOOLEAN
    BY <1>2, <1>13 DEF SetWire, wakeVars
  <2> QED BY <1>0, <1>1, <1>3, <2>1, <2>2, DrawStandingStill DEF StoreInv
<1>14. ASSUME NEW next \in Modes, SetRenderMode(next) PROVE StoreInv'
  <2>1. ReadableOK /\ UNCHANGED core /\ Draw(FALSE, TRUE, {})
    BY <1>2, <1>14 DEF SetRenderMode, ReadableOK, clientVars
  <2>2. /\ mode' \in Modes /\ framePending' \in BOOLEAN
        /\ knock' \in KnockStates /\ late' \in BOOLEAN
    BY <1>2, <1>14 DEF SetRenderMode, wakeVars
  <2> QED BY <1>0, <1>1, <1>3, <2>1, <2>2, DrawStandingStill DEF StoreInv
<1>15. CASE Flush
  <2>1. ReadableOK /\ UNCHANGED core /\ Draw(FALSE, FALSE, {})
    BY <1>2, <1>15 DEF Flush, ReadableOK, clientVars
  <2>2. /\ mode' \in Modes /\ framePending' \in BOOLEAN
        /\ knock' \in KnockStates /\ late' \in BOOLEAN
    BY <1>2, <1>15 DEF Flush, wakeVars
  <2> QED BY <1>0, <1>1, <1>3, <2>1, <2>2, DrawStandingStill DEF StoreInv
<1>16. CASE AppRenders
  <2>1. ReadableOK /\ UNCHANGED core /\ Draw(TRUE, FALSE, {})
    BY <1>2, <1>16 DEF AppRenders, ReadableOK, clientVars
  <2>2. /\ mode' \in Modes /\ framePending' \in BOOLEAN
        /\ knock' \in KnockStates /\ late' \in BOOLEAN
    BY <1>2, <1>16 DEF AppRenders, wakeVars
  <2> QED BY <1>0, <1>1, <1>3, <2>1, <2>2, DrawStandingStill DEF StoreInv
<1>17. CASE UNCHANGED vars
  <2>1. RenderTypeOK' /\ MarkInv'
    BY <1>1, <1>17 DEF RenderTypeOK, vars, clientVars, storeVars, wakeVars, MarkInv,
                       RowsAreMarked, StatusIsMarked, MarksAreCarried
  <2> QED BY <1>0, <2>1 DEF StoreInv
<1> QED BY <1>4, <1>5, <1>6, <1>7, <1>8, <1>9, <1>10, <1>11, <1>12, <1>13, <1>14, <1>15,
           <1>16, <1>17 DEF Next

\* What the invariant says of a page that has drawn.
LEMMA MarksMakeCurrent == StoreInv => RenderInv
<1> SUFFICES ASSUME StoreInv PROVE RenderInv
  OBVIOUS
<1>1. RenderTypeOK /\ MarkInv /\ core.books \in Book
  BY DEF StoreInv, Shell, ClientTypeOK, Core
<1>2. Settled => ~moved /\ rowsMoved = {}
  BY <1>1 DEF Settled, MarkInv, MarksAreCarried
<1>3. RowsAreCurrent
  <2> SUFFICES ASSUME Settled PROVE rows = core.books
    BY DEF RowsAreCurrent
  <2>1. \A l \in Levels : rows[l] = core.books[l]
    BY <1>1, <1>2 DEF MarkInv, RowsAreMarked
  <2>2. rows \in Book
    BY <1>1 DEF RenderTypeOK
  <2> QED BY <1>1, <2>1, <2>2 DEF Book
<1>4. StatusIsCurrent
  BY <1>1, <1>2 DEF StatusIsCurrent, MarkInv, StatusIsMarked
<1> QED BY <1>1, <1>3, <1>4 DEF RenderInv

\* Once the pending frame has run, every ladder row shows the core's quote and the
\* status line its status, through snapshots, resyncs, wire and mode switches and
\* wake loops in any order (store.ts, scheduleFlush; core.ts, bumpPair).
THEOREM ThePageIsCurrent == ASSUME WholeSnapshots PROVE Spec => []RenderInv
<1>1. Init => StoreInv
  BY StoreInit
<1>2. WholeSnapshots /\ StoreInv /\ [Next]_vars => StoreInv'
  BY StoreStep
<1>3. StoreInv => RenderInv
  BY MarksMakeCurrent
<1>4. WholeSnapshots
  OBVIOUS
<1>5. StoreInv /\ [Next]_vars => StoreInv'
  BY <1>2, <1>4
<1> QED BY <1>1, <1>3, <1>5, PTL DEF Spec

\* The store drives the shell only through its own handle: what is proved of the
\* shell holds behind the page as well.
THEOREM StoreImplementsClient == Spec => ClientSpec
<1>1. Init => ClientInit
  BY DEF Init
<1>2. [Next]_vars => [ClientNext]_clientVars
  BY NextIsClient DEF vars
<1> QED BY <1>1, <1>2, PTL DEF Spec, ClientSpec
=============================================================================
