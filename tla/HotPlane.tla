------------------------------ MODULE HotPlane ------------------------------
(***************************************************************************)
(* One client of the hot plane: the feed server's side of its connection   *)
(* (apps/feed-server/src/server.ts: connection handler, tick, heartbeat,   *)
(* and the /sim commands that touch the wire), the TCP stream between      *)
(* them, and the client of FeedClient at the other end.                    *)
(*                                                                         *)
(* Sequence numbers are per connection and the server treats its clients   *)
(* one by one, so one client is the general case.  The market is its       *)
(* output: any snapshot, any non-empty list of level updates per tick.     *)
(* What a wire was told is kept beside it, for the properties only:        *)
(* told is the fold of the frames sent on it, and every frame carries in   *)
(* "after" the book a reader of the whole wire holds once it has read that *)
(* frame.  The wire is told less than the market did when frames go out    *)
(* unbatched: the limit of a tick drops a level's only update.             *)
(***************************************************************************)
EXTENDS FeedClient

CONSTANTS
  UnbatchedMax,   \* UNBATCHED_MAX_FRAMES_PER_TICK
  MaxUpdates,     \* bound: updates one tick generates
  MaxSeq,         \* bound: seqs assigned on one wire
  MaxInFlight,    \* bound: frames in the TCP stream
  MaxSkips,       \* bound: skipSeqs commands
  MaxFaults       \* bound: drops, refusals, deliberate closes, page commands

ASSUME HotAssumption ==
  /\ UnbatchedMax \in Nat \ {0}
  /\ {MaxUpdates, MaxSeq, MaxInFlight, MaxSkips, MaxFaults} \subseteq Nat

VARIABLES
  srv,        \* the server's end: "none", "open", "closing" (after ws.close)
  nextSeq,    \* ClientState.nextSeq
  chan,       \* frames sent and not yet delivered
  goodbye,    \* code of the close frame behind them, 0 when there is none
  batchMode,  \* /sim/batch
  told,
  skipped,    \* skipSeqs was called since this connection was made
  skips, faults

serverVars == <<srv, nextSeq, chan, goodbye, batchMode, told, skipped,
                skips, faults>>
vars == <<clientVars, serverVars>>

-----------------------------------------------------------------------------
(* The server's end of the wire *)

Frame(f, after) == [type |-> f.type, firstSeq |-> f.firstSeq,
                    records |-> f.records, after |-> after]

\* ws.send of the frames fs, the last of which leaves nextSeq at next.
Send(fs, next) ==
  /\ chan' = chan \o fs
  /\ nextSeq' = next

\* ws.close(code): what was sent before still goes out, nothing after it does.
ServerClose(code) ==
  /\ srv' = "closing"
  /\ goodbye' = code

\* Both ends are gone: the TCP stream and the server's ClientState with it.
WireGone ==
  /\ srv' = "none"
  /\ nextSeq' = 0
  /\ chan' = << >>
  /\ goodbye' = 0
  /\ told' = EmptyBook
  /\ skipped' = FALSE

\* A fault or a command out of the bounded supply.
Fault == faults < MaxFaults /\ faults' = faults + 1

\* slice(-UNBATCHED_MAX_FRAMES_PER_TICK)
Newest(updates) ==
  IF Len(updates) <= UnbatchedMax THEN updates
  ELSE SubSeq(updates, Len(updates) - UnbatchedMax + 1, Len(updates))

\* Mutant: the tick's updates are sent newest first.
BatchFramesReversed(updates) ==
  LET reversed == [i \in DOMAIN updates |-> updates[Len(updates) + 1 - i]]
  IN << Frame(Delta(nextSeq, reversed), Upsert(told, updates)) >>

\* One DELTA frame for the whole tick.
BatchFrames(updates) ==
  << Frame(Delta(nextSeq, updates), Upsert(told, updates)) >>

\* One DELTA frame per update.
UnbatchedFrames(updates) ==
  [i \in 1..Len(updates) |->
     Frame(Delta(nextSeq + i - 1, <<updates[i]>>),
           Upsert(told, SubSeq(updates, 1, i)))]

-----------------------------------------------------------------------------
(* Server actions *)

\* wss.on('connection'): snapshot with seq basis 0.
Accept(book) ==
  /\ sock = "connecting"
  /\ srv = "none"
  /\ srv' = "open"
  /\ Send(<< Frame(Snapshot(0, book), book) >>, NLevels)
  /\ told' = book
  /\ UNCHANGED <<goodbye, batchMode, skipped, skips, faults, clientVars>>

\* The tick of a wire that keeps up.
Tick(updates) ==
  LET sent == IF batchMode THEN updates ELSE Newest(updates)
      frames == IF batchMode THEN BatchFrames(sent) ELSE UnbatchedFrames(sent)
  IN /\ srv = "open"
     /\ updates # << >>
     /\ Send(frames, nextSeq + Len(sent))
     /\ told' = Upsert(told, sent)
     /\ UNCHANGED <<srv, goodbye, batchMode, skipped, skips, faults, clientVars>>

\* The tick of a wire whose send buffer is over the limit.
TickSlowConsumer ==
  /\ srv = "open"
  /\ chan # << >>
  /\ Fault
  /\ ServerClose(4001)
  /\ UNCHANGED <<nextSeq, chan, batchMode, told, skipped, skips, clientVars>>

\* Mutant: the heartbeat carries the next seq instead of the last.
SendHeartbeatNextSeq ==
  /\ srv = "open"
  /\ Send(<< Frame(Heartbeat(nextSeq), told) >>, nextSeq)
  /\ UNCHANGED <<srv, goodbye, batchMode, told, skipped, skips, faults, clientVars>>

\* The sweep that finds the wire idle for heartbeatIntervalMs.
SendHeartbeat ==
  /\ srv = "open"
  /\ Send(<< Frame(Heartbeat(nextSeq - 1), told) >>, nextSeq)
  /\ UNCHANGED <<srv, goodbye, batchMode, told, skipped, skips, faults, clientVars>>

\* The sweep that finds the session over its ceiling, and disconnect().
ServerEnds(code) ==
  /\ srv = "open"
  /\ Fault
  /\ ServerClose(code)
  /\ UNCHANGED <<nextSeq, chan, batchMode, told, skipped, skips, clientVars>>

\* Mutant: the new market's snapshot restarts the numbering of the reader only.
ReseedFromZero(book) ==
  /\ srv = "open"
  /\ Send(<< Frame(Snapshot(0, book), book) >>, nextSeq + NLevels)
  /\ told' = book
  /\ UNCHANGED <<srv, goodbye, batchMode, skipped, skips, faults, clientVars>>

\* reseed(): a dense SNAPSHOT of the new market on every open wire.
Reseed(book) ==
  /\ srv = "open"
  /\ Send(<< Frame(Snapshot(nextSeq, book), book) >>, nextSeq + NLevels)
  /\ told' = book
  /\ UNCHANGED <<srv, goodbye, batchMode, skipped, skips, faults, clientVars>>

\* skipSeqs(count): every connection in the clients map, closing ones included.
SkipSeqs(count) ==
  /\ srv # "none"
  /\ skips < MaxSkips
  /\ skips' = skips + 1
  /\ skipped' = TRUE
  /\ nextSeq' = nextSeq + count
  /\ UNCHANGED <<srv, chan, goodbye, batchMode, told, faults, clientVars>>

SetBatch(batch) ==
  /\ batchMode' = batch
  /\ UNCHANGED <<srv, nextSeq, chan, goodbye, told, skipped, skips, faults, clientVars>>

-----------------------------------------------------------------------------
(* The client's end of the wire *)

\* The handshake response precedes everything the server sends.
HandshakeDone ==
  /\ srv # "none"
  /\ Opened
  /\ UNCHANGED serverVars

Deliver ==
  /\ chan # << >>
  /\ Message(Head(chan))
  /\ chan' = Tail(chan)
  /\ UNCHANGED <<srv, nextSeq, goodbye, batchMode, told, skipped, skips, faults>>

\* The server's close frame arrives behind the last frame it sent.
GoodbyeArrives ==
  /\ sock = "open"
  /\ srv = "closing"
  /\ chan = << >>
  /\ OnClose(goodbye)
  /\ WireGone
  /\ UNCHANGED <<batchMode, skips, faults>>

\* Our own close completes: frames still in flight are thrown away, and the
\* code is the server's if its close frame was among them.
DropCompletes ==
  /\ sock = "closing"
  /\ \E code \in {LocalDrop} \cup ({goodbye} \ {0}) : OnClose(code)
  /\ WireGone
  /\ UNCHANGED <<batchMode, skips, faults>>

\* The network cuts the wire, or the handshake is refused (503, host down).
NetworkDrop ==
  /\ sock \in {"connecting", "open"}
  /\ Fault
  /\ OnClose(LocalDrop)
  /\ WireGone
  /\ UNCHANGED <<batchMode, skips>>

Reconnect == TimerFires /\ UNCHANGED serverVars

\* Between sockets the silence is real; on an open one it is a fault, a wire
\* that stays quiet for three heartbeat intervals.
Watchdog ==
  /\ WatchdogFindsSilence
  /\ IF sock = "open" THEN Fault ELSE UNCHANGED faults
  /\ UNCHANGED <<srv, nextSeq, chan, goodbye, batchMode, told, skipped, skips>>

\* resume(), setProtocols() and close() out of the bounded supply.
PageCommand ==
  /\ Fault
  /\ Command
  /\ UNCHANGED <<srv, nextSeq, chan, goodbye, batchMode, told, skipped, skips>>
-----------------------------------------------------------------------------
(* Specification *)

\* The market quotes every level, never with size 0.
MarketBook == [Levels -> Quotes]
MarketRecord == [level : Levels, quote : Quotes]

Room(frames, seqs) ==
  /\ Len(chan) + frames <= MaxInFlight
  /\ nextSeq + seqs <= MaxSeq

Init ==
  /\ ClientInit
  /\ srv = "none"
  /\ nextSeq = 0
  /\ chan = << >>
  /\ goodbye = 0
  /\ batchMode = TRUE
  /\ told = EmptyBook
  /\ skipped = FALSE
  /\ skips = 0
  /\ faults = 0

ServerNext ==
  \/ \E book \in MarketBook : Accept(book)
  \/ \E n \in 1..MaxUpdates : \E updates \in [1..n -> MarketRecord] :
       /\ Room(IF batchMode THEN 1 ELSE Len(Newest(updates)), n)
       /\ Tick(updates)
  \/ TickSlowConsumer
  \/ Room(1, 0) /\ SendHeartbeat
  \/ \E code \in {1000, 4000} : ServerEnds(code)
  \/ \E book \in MarketBook : Room(1, NLevels) /\ Reseed(book)
  \/ \E count \in 1..2 : Room(0, count) /\ SkipSeqs(count)
  \/ \E batch \in BOOLEAN : SetBatch(batch)

WireNext ==
  \/ HandshakeDone
  \/ Deliver
  \/ GoodbyeArrives
  \/ DropCompletes
  \/ NetworkDrop
  \/ Reconnect
  \/ Watchdog
  \/ PageCommand

Next == ServerNext \/ WireNext

Spec == Init /\ [][Next]_vars

\* The heartbeat interval and the listening socket on the server, timers and
\* socket events in the browser: each runs again and again on its event loop,
\* and TCP delivers what it carries unless the wire drops.
Fairness ==
  /\ WF_vars(\E book \in MarketBook : Accept(book))
  /\ WF_vars(Room(1, 0) /\ SendHeartbeat)
  /\ WF_vars(HandshakeDone)
  /\ WF_vars(Deliver)
  /\ WF_vars(GoodbyeArrives)
  /\ WF_vars(DropCompletes)
  /\ WF_vars(Reconnect)

FairSpec == Spec /\ Fairness

-----------------------------------------------------------------------------
(* Properties *)

SentFrame == [type : DataTypes \cup {"HEARTBEAT"}, firstSeq : Int,
              records : Seq(Record), after : Book]

TypeOK ==
  /\ ClientTypeOK
  /\ srv \in {"none", "open", "closing"}
  /\ nextSeq \in Nat
  /\ chan \in Seq(SentFrame)
  /\ goodbye \in Nat
  /\ batchMode \in BOOLEAN
  /\ told \in Book
  /\ skipped \in BOOLEAN
  /\ skips \in Nat
  /\ faults \in Nat

\* The snapshot of the present connection has reached the client.
Based == /\ sock = "open"
         /\ srv # "none"
         /\ chan = << >> \/ chan[1].type # "SNAPSHOT"

\* The client holds every seq assigned on its wire.
Exact == Based /\ core.status = "live" /\ core.expectedSeq = nextSeq

\* A client that has every seq shows exactly what its wire was told: no
\* interleaving of snapshots, deltas, reseeds, skips and reconnects leaves a
\* stale level on a ladder the core calls live (core.ts onSnapshot, onDelta).
ExactIsTold == Exact => core.books = told

\* Every gap the client reports is one skipSeqs command: the dense numbering
\* never raises a false alarm and one hole is never reported twice
\* ("exactly one provable hole per client", server.ts skipSeqs).
GapsAreSkips == core.gaps <= skips

\* Loss never goes unnoticed: again and again the client holds every seq of
\* its wire or has no usable wire (the heartbeat carries the last seq, 6.3).
LossIsNoticed == []<>(Exact \/ sock # "open")

\* Once faults and commands stop, the client ends up live on an open wire,
\* unless it was told to stop or was closed (ADR-08, close-code table).
Recovers ==
  <>[](terminal \/ closed \/ (sock = "open" /\ core.status = "live"))

\* The frames, seqs, heartbeats, gap detector, watchdog and reconnects together
\* implement the promise of LadderMirror.
Mirror == INSTANCE LadderMirror WITH
            shown <- core.books,
            queue <- [i \in DOMAIN chan |-> chan[i].after],
            trusted <- sock # "closing"

MirrorsTheWire == Mirror!MirrorSpec

-----------------------------------------------------------------------------
(* The inductive invariant behind ExactIsTold, GapsAreSkips and the         *)
(* refinement: what every frame in flight says of the wire, how a frame     *)
(* continues the one before it, and where the reader stands before the      *)
(* first of them.                                                           *)

\* The seq a reader must expect for the frame to be in order, and after it.
Start(f) == IF f.type = "HEARTBEAT" THEN f.firstSeq + 1 ELSE f.firstSeq
Reach(f) == Start(f) + Len(f.records)

Follows(book, f) == f.type # "SNAPSHOT" => f.after = Upsert(book, f.records)

FrameOK(f, next, book) ==
  /\ f.type \in DataTypes => f.firstSeq \in Nat /\ f.records # << >>
  /\ f.type = "HEARTBEAT" => f.records = << >>
  /\ f.type = "SNAPSHOT" => f.after = Upsert(EmptyBook, f.records)
  /\ Reach(f) <= next
  /\ Reach(f) = next => f.after = book

Continues(f, g) ==
  /\ Reach(f) <= Start(g)
  /\ ~skipped => Reach(f) = Start(g)
  /\ Follows(f.after, g)

LastFrameOK ==
  chan # << >> => /\ chan[Len(chan)].after = told
                  /\ ~skipped => Reach(chan[Len(chan)]) = nextSeq

WireInv ==
  /\ srv = "none" => chan = << >> /\ nextSeq = 0 /\ ~skipped /\ sock # "open"
  /\ sock = "none" => srv = "none"
  /\ sock = "connecting" /\ srv # "none" =>
       chan # << >> /\ chan[1].type = "SNAPSHOT"
  /\ \A i \in 1..Len(chan) : FrameOK(chan[i], nextSeq, told)
  /\ \A i \in 1..(Len(chan) - 1) : Continues(chan[i], chan[i + 1])
  /\ LastFrameOK

ReaderInv ==
  Based =>
    /\ core.status = "live"
    /\ core.expectedSeq # NoSeq
    /\ core.expectedSeq <= nextSeq
    /\ core.expectedSeq = nextSeq => core.books = told
    /\ chan = << >> => core.books = told /\ (~skipped => core.expectedSeq = nextSeq)
    /\ chan # << >> =>
         /\ core.expectedSeq <= Start(chan[1])
         /\ ~skipped => core.expectedSeq = Start(chan[1])
         /\ Follows(core.books, chan[1])

\* A skip that the present reader has not met yet is a gap still to come.
GapToCome == skipped /\ sock \in {"connecting", "open"}

GapInv == core.gaps + (IF GapToCome THEN 1 ELSE 0) <= skips

HotInv == TypeOK /\ ShellInv /\ WireInv /\ ReaderInv /\ GapInv
=============================================================================
