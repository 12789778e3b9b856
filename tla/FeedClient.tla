----------------------------- MODULE FeedClient -----------------------------
(***************************************************************************)
(* The shell that owns the browser's feed socket                           *)
(* (apps/web/src/stream/connect.ts): it dials, hands every message to the  *)
(* core, drops the connection itself when the core asks for a resync, and  *)
(* reacts to every close by the per-code table of reconnect.ts.            *)
(*                                                                         *)
(* The module stands alone against the most general environment: any       *)
(* frame, any damage, any close code, silence at any moment.  HotPlane     *)
(* reuses the same actions with the real server at the other end.          *)
(***************************************************************************)
EXTENDS StreamCore

CONSTANTS
  CloseCodes,    \* the close codes the environment uses
  EnvFrames,     \* the frames the environment sends
  MaxAttempt,    \* the attempt count is followed up to this value
  MaxGaps        \* bound on the gaps the environment provokes

ASSUME ClientAssumption ==
  /\ CloseCodes \subseteq Nat
  /\ MaxAttempt \in Nat
  /\ MaxGaps \in Nat
  /\ EnvFrames \subseteq [type : DataTypes \cup {"HEARTBEAT"},
                          firstSeq : Int,
                          records : Seq(Record)]
  /\ \A f \in EnvFrames : f.type \in DataTypes => f.firstSeq \in Nat

VARIABLES
  core,       \* the StreamCore record
  sock,       \* the socket: "none" is ws = null, "closing" is after ws.close()
  timer,      \* the pending reconnect timer: "none", "quick" (250 ms), "backoff"
  resyncing,  \* the next close is our own drop
  terminal,   \* the table said stop
  closed,     \* the handle was closed for good
  attempt,    \* backoff exponent
  protocols,  \* the offer the next dial makes: "v2" first, or "v1" only
  wire,       \* the offer the current socket was dialled with
  ending      \* how the socket ended since the last dial: the close code, and
              \* "client" when this client had called close() on it

clientVars == <<core, sock, timer, resyncing, terminal, closed, attempt,
                protocols, wire, ending>>

NoEnding == [code |-> 0, by |-> "client"]
LocalDrop == 1006   \* a close with no close frame received

-----------------------------------------------------------------------------
(* reconnectDecision: 1000 and 4002 stop, everything else retries. *)

StopCodes == {1000, 4002}
Decision(code) == IF code \in StopCodes THEN "stop" ELSE "retry"

\* Mutant: open() leaves the pending timer running.
DialBesideTimer ==
  /\ sock' = "connecting"
  /\ UNCHANGED timer
  /\ wire' = protocols
  /\ ending' = NoEnding

\* open(): dial with the protocols offered now.
Dial ==
  /\ sock' = "connecting"
  /\ timer' = "none"
  /\ wire' = protocols
  /\ ending' = NoEnding

\* ws.close() on whatever socket there is.
DropSocket == sock' = IF sock = "none" THEN "none" ELSE "closing"

\* Mutant: the event marks the drop and forgets to make it.
HandleEventsNoDrop ==
  IF RaisesResync(core, core')
  THEN resyncing' = TRUE /\ UNCHANGED sock
  ELSE UNCHANGED <<resyncing, sock>>

\* handleEvents: a resync event makes us drop the connection on purpose.
HandleEvents ==
  IF RaisesResync(core, core')
  THEN resyncing' = TRUE /\ DropSocket
  ELSE UNCHANGED <<resyncing, sock>>

-----------------------------------------------------------------------------
(* Actions *)

TimerFires ==
  /\ timer # "none"
  /\ ~closed
  /\ Dial
  /\ UNCHANGED <<core, resyncing, terminal, closed, attempt, protocols>>

Opened ==
  /\ sock = "connecting"
  /\ sock' = "open"
  /\ attempt' = 0
  /\ UNCHANGED <<core, timer, resyncing, terminal, closed, protocols, wire, ending>>

\* onmessage fires only while the socket is open: a closing one delivers nothing.
Message(f) ==
  /\ sock = "open"
  /\ core' = OnFrame(core, f)
  /\ HandleEvents
  /\ UNCHANGED <<timer, terminal, closed, attempt, protocols, wire, ending>>

DamagedMessage ==
  /\ sock = "open"
  /\ core' = OnDamage(core)
  /\ HandleEvents
  /\ UNCHANGED <<timer, terminal, closed, attempt, protocols, wire, ending>>

\* The watchdog interval runs whatever the socket is doing, until close().
WatchdogFindsSilence ==
  /\ ~closed
  /\ core.status = "live"
  /\ core' = OnSilence(core)
  /\ HandleEvents
  /\ UNCHANGED <<timer, terminal, closed, attempt, protocols, wire, ending>>

\* Mutant: the table judges our own drops too.
OnCloseTableFirst(code) ==
  /\ sock # "none"
  /\ sock' = "none"
  /\ ending' = [code |-> code, by |-> IF sock = "closing" THEN "client" ELSE "server"]
  /\ IF closed
     THEN UNCHANGED <<timer, resyncing, terminal, attempt>>
     ELSE /\ resyncing' = FALSE
          /\ IF Decision(code) = "retry"
             THEN timer' = "backoff" /\ UNCHANGED <<terminal, attempt>>
             ELSE terminal' = TRUE /\ UNCHANGED <<timer, attempt>>
  /\ UNCHANGED <<core, closed, protocols, wire>>

\* Mutant: the branch for our own drop does not schedule the reopening.
OnCloseForgetsTimer(code) ==
  /\ sock # "none"
  /\ sock' = "none"
  /\ ending' = [code |-> code, by |-> IF sock = "closing" THEN "client" ELSE "server"]
  /\ resyncing' = FALSE
  /\ IF ~closed /\ ~resyncing
     THEN IF Decision(code) = "retry"
          THEN timer' = "backoff" /\ UNCHANGED terminal
          ELSE terminal' = TRUE /\ UNCHANGED timer
     ELSE UNCHANGED <<timer, terminal>>
  /\ UNCHANGED <<core, closed, attempt, protocols, wire>>

\* onclose: our own drop comes back quickly, the rest is judged by the table.
OnClose(code) ==
  /\ sock # "none"
  /\ sock' = "none"
  /\ ending' = [code |-> code, by |-> IF sock = "closing" THEN "client" ELSE "server"]
  /\ IF closed
     THEN UNCHANGED <<timer, resyncing, terminal, attempt>>
     ELSE IF resyncing
     THEN /\ resyncing' = FALSE
          /\ timer' = "quick"
          /\ UNCHANGED <<terminal, attempt>>
     ELSE IF Decision(code) = "retry"
     THEN /\ timer' = "backoff"
          /\ attempt' = IF attempt < MaxAttempt THEN attempt + 1 ELSE attempt
          /\ UNCHANGED <<resyncing, terminal>>
     ELSE /\ terminal' = TRUE
          /\ UNCHANGED <<timer, resyncing, attempt>>
  /\ UNCHANGED <<core, closed, protocols, wire>>

\* The "continue" button, and the page waking up.
Resume ==
  /\ ~closed
  /\ sock = "none"
  /\ terminal' = FALSE
  /\ attempt' = 0
  /\ Dial
  /\ UNCHANGED <<core, resyncing, closed, protocols>>

SetProtocols(offer) ==
  /\ protocols' = offer
  /\ IF ~closed /\ ~terminal /\ sock # "none"
     THEN resyncing' = TRUE /\ DropSocket
     ELSE UNCHANGED <<resyncing, sock>>
  /\ UNCHANGED <<core, timer, terminal, closed, attempt, wire, ending>>

Close ==
  /\ ~closed
  /\ closed' = TRUE
  /\ timer' = "none"
  /\ DropSocket
  /\ UNCHANGED <<core, resyncing, terminal, attempt, protocols, wire, ending>>

ClientInit ==
  /\ core = InitCore
  /\ sock = "connecting"
  /\ timer = "none"
  /\ resyncing = FALSE
  /\ terminal = FALSE
  /\ closed = FALSE
  /\ attempt = 0
  /\ protocols = "v2"
  /\ wire = "v2"
  /\ ending = NoEnding

\* The page's own calls.
Command ==
  \/ Resume
  \/ \E offer \in {"v1", "v2"} : SetProtocols(offer)
  \/ Close

ClientNext ==
  \/ TimerFires
  \/ Opened
  \/ core.gaps < MaxGaps /\ \E f \in EnvFrames : Message(f)
  \/ DamagedMessage
  \/ WatchdogFindsSilence
  \/ \E code \in CloseCodes : OnClose(code)
  \/ Command

ClientSpec == ClientInit /\ [][ClientNext]_clientVars
-----------------------------------------------------------------------------
(* Properties *)

ClientTypeOK ==
  /\ core \in Core
  /\ sock \in {"none", "connecting", "open", "closing"}
  /\ timer \in {"none", "quick", "backoff"}
  /\ resyncing \in BOOLEAN
  /\ terminal \in BOOLEAN
  /\ closed \in BOOLEAN
  /\ attempt \in 0..MaxAttempt
  /\ protocols \in {"v1", "v2"}
  /\ wire \in {"v1", "v2"}
  /\ ending \in [code : Nat, by : {"client", "server"}]

\* Until close(), exactly one thing drives the client: a socket, a pending
\* reconnect, or the user's "continue" after a terminal close.  The onclose
\* branches neither strand it with none nor race two sockets (connect.ts,
\* onclose, resume and setProtocols together).
OneDriver ==
  ~closed =>
    \/ sock # "none" /\ timer = "none" /\ ~terminal
    \/ sock = "none" /\ timer # "none" /\ ~terminal
    \/ sock = "none" /\ timer = "none" /\ terminal

\* The client stops for the server's 1000 or 4002 only: a drop it made itself
\* (resync, protocol switch) and network weather always come back.
StopsOnlyWhenTold ==
  terminal => ending.code \in StopCodes /\ ending.by = "server"

\* A protocol switch reaches the wire: a usable socket was dialled with the
\* offer in force, whatever was pending when the offer changed.
WireFollowsOffer ==
  sock \in {"connecting", "open"} /\ ~closed => wire = protocols

\* What holds the three together, in every state: a close of our own is always
\* marked as such, and a terminal client has no socket.
ShellInv ==
  /\ OneDriver
  /\ StopsOnlyWhenTold
  /\ WireFollowsOffer
  /\ sock = "closing" => resyncing \/ closed
  /\ terminal => sock = "none"

=============================================================================
