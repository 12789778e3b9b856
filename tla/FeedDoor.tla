------------------------------ MODULE FeedDoor ------------------------------
(***************************************************************************)
(* The door of the feed server (apps/feed-server/src/server.ts): who is    *)
(* let in to /feed, when a socket's slot comes free, how the server shuts  *)
(* down, and what its counters tell the panel that polls them.             *)
(*                                                                         *)
(* clients.size counts sockets, not pages: a socket the server has closed  *)
(* stays in the map until its peer answers, and one whose page vanished    *)
(* without a word until the library or the operating system gives it up.   *)
(* ghosts, dying and orphans are those, without their pages.               *)
(***************************************************************************)
EXTENDS LoadSeries, FiniteSets

CONSTANTS
  Pages,
  MaxClients,     \* config.maxClients
  MaxVanish,      \* bound: pages that vanish without closing
  MaxLives,       \* bound: processes
  MaxUptime,      \* bound: ticks of one process
  MaxBatch,       \* bound: records one tick publishes
  SnapshotSize,   \* records of a whole book
  MaxReseeds      \* bound: reseeds of one process

ASSUME DoorAssumption ==
  /\ {MaxClients, MaxLives, MaxBatch} \subseteq Nat \ {0}
  /\ {MaxVanish, MaxUptime, SnapshotSize, MaxReseeds} \subseteq Nat
  /\ IsFiniteSet(Pages)

Down == "down"

VARIABLES
  server,     \* "up", "closing" (close() awaits the warm plane), "draining", Down
  page,       \* [Pages -> PageState]
  ghosts,     \* open sockets whose page vanished
  dying,      \* closed by the server, page vanished: no answer will come
  orphans,    \* like ghosts, of pages let in after close() had said goodbye
  vanished,
  life,       \* processes so far
  uptime,     \* serverTs
  sent,       \* cumulative records sent
  reseeds,    \* history: reseeds of this process
  readings    \* history: what /sim/stats has answered or could have

doorVars == <<page, ghosts, dying, orphans, vanished>>
countVars == <<uptime, sent, reseeds>>
vars == <<server, doorVars, life, countVars, readings>>

\* "late": open, but let in after close() said goodbye.  "dismissed", "bounced": a
\* close frame is on its way, with a code the page stops at (1000, 4002) or one
\* it comes back from (4000, 4001).
Open == {"in", "late"}
Leaving == {"dismissed", "bounced"}
PageState == Open \cup Leaving \cup {"away", "stopped"}

At(states) == {p \in Pages : page[p] \in states}

\* clients.size
Slots == Cardinality(At(Open \cup Leaving)) + ghosts + dying + orphans

\* The states of the pages once those in ps are in state s.
Becoming(ps, s) == [p \in Pages |-> IF p \in ps THEN s ELSE page[p]]

Running == server # Down

\* What /sim/stats would answer now.
Reading == [uptime |-> uptime, sent |-> sent, life |-> life, reseeds |-> reseeds]

-----------------------------------------------------------------------------
(* The door *)

\* Mutant: only sockets with a page behind them count.
HasRoomForPages == Cardinality(At(Open \cup Leaving)) < MaxClients

HasRoom == Slots < MaxClients

\* Who may come in, refused with a status each: path, Origin, subprotocol, limit.
UpgradeStatus(request) ==
  CASE request.path \notin {"/feed", "/graphql"} -> 404
    [] request.path \in {"/feed", "/graphql"} /\ request.origin = "foreign" -> 403
    [] request.path = "/graphql" /\ request.origin # "foreign" -> 101
    [] OTHER -> IF request.offered \cap {"fx.v1", "fx.v2"} = {} THEN 400
                ELSE IF HasRoom THEN 101 ELSE 503

\* What a page offers: all it speaks, or fx.v1 alone (setProtocols).
Offers == {{"fx.v2", "fx.v1"}, {"fx.v1"}}

\* A page that is refused hears 1006 and dials again; wss.close() refuses all.
Enter(p) ==
  /\ page[p] = "away"
  /\ server \in {"up", "closing"}
  /\ \E offered \in Offers :
       UpgradeStatus([path |-> "/feed", origin |-> "own", offered |-> offered]) = 101
  /\ page' = Becoming({p}, IF server = "up" THEN "in" ELSE "late")
  /\ UNCHANGED <<server, ghosts, dying, orphans, vanished, life, countVars, readings>>

\* The page closes its socket: silence, a protocol switch, the tab.
Leave(p) ==
  /\ page[p] \in Open
  /\ page' = Becoming({p}, "away")
  /\ UNCHANGED <<server, ghosts, dying, orphans, vanished, life, countVars, readings>>

\* Its network goes: the socket stays, and the page dials another.
Vanish(p) ==
  /\ page[p] \in Open \cup Leaving
  /\ vanished < MaxVanish
  /\ vanished' = vanished + 1
  /\ page' = Becoming({p}, "away")
  /\ ghosts' = IF page[p] = "in" THEN ghosts + 1 ELSE ghosts
  /\ orphans' = IF page[p] = "late" THEN orphans + 1 ELSE orphans
  /\ dying' = IF page[p] \in Leaving THEN dying + 1 ELSE dying
  /\ UNCHANGED <<server, life, countVars, readings>>

\* The page has answered the close frame: the server's 'close' event, and onclose.
Hear(p) ==
  /\ page[p] \in Leaving
  /\ page' = Becoming({p}, IF page[p] = "dismissed" THEN "stopped" ELSE "away")
  /\ UNCHANGED <<server, ghosts, dying, orphans, vanished, life, countVars, readings>>

\* The user presses Reconnect.
Resume(p) ==
  /\ page[p] = "stopped"
  /\ page' = Becoming({p}, "away")
  /\ UNCHANGED <<server, ghosts, dying, orphans, vanished, life, countVars, readings>>

\* A page that speaks is closed with 4002.
Speak(p) ==
  /\ page[p] \in Open
  /\ page' = Becoming({p}, "dismissed")
  /\ UNCHANGED <<server, ghosts, dying, orphans, vanished, life, countVars, readings>>

\* The library's close timeout: an unanswered close frame frees the slot.
GiveUp ==
  /\ dying > 0
  /\ dying' = dying - 1
  /\ UNCHANGED <<server, page, ghosts, orphans, vanished, life, countVars, readings>>

-----------------------------------------------------------------------------
(* Timers and commands *)

\* A tick that publishes n > 0 records: slow consumers are closed, the others told.
Tick(n, slow, slowGhosts) ==
  /\ server = "up"
  /\ uptime < MaxUptime
  /\ page' = Becoming(slow, "bounced")
  /\ ghosts' = ghosts - slowGhosts
  /\ dying' = dying + slowGhosts
  /\ uptime' = uptime + 1
  /\ sent' = sent + n * (Cardinality(At({"in"}) \ slow) + ghosts - slowGhosts)
  /\ UNCHANGED <<server, orphans, vanished, life, reseeds>>
  /\ readings' = readings \cup {Reading'}

\* Mutant: the sweep passes over sockets that no longer answer.
SweepAnswering(old, oldGhosts) ==
  /\ server = "up"
  /\ old # {}
  /\ page' = Becoming(old, "dismissed")
  /\ UNCHANGED <<server, ghosts, dying, orphans, vanished, life, countVars, readings>>

\* The heartbeat sweep: sessions past the ceiling end with 1000.
Sweep(old, oldGhosts) ==
  /\ server = "up"
  /\ old # {} \/ oldGhosts > 0
  /\ page' = Becoming(old, "dismissed")
  /\ ghosts' = ghosts - oldGhosts
  /\ dying' = dying + oldGhosts
  /\ UNCHANGED <<server, orphans, vanished, life, countVars, readings>>

\* /sim/disconnect: HTTP is answered until the sockets are gone.
Disconnect(graceful) ==
  /\ Running
  /\ At(Open) # {} \/ ghosts + orphans > 0
  /\ page' = Becoming(At(Open), IF graceful THEN "dismissed" ELSE "bounced")
  /\ ghosts' = 0
  /\ orphans' = 0
  /\ dying' = dying + ghosts + orphans
  /\ UNCHANGED <<server, vanished, life, countVars, readings>>

\* /sim/seed: every open socket, slow or not, is sent the new book, and its records
\* are counted while no time passes.
Reseed ==
  /\ Running
  /\ reseeds < MaxReseeds
  /\ reseeds' = reseeds + 1
  /\ sent' = sent + SnapshotSize * (Cardinality(At(Open)) + ghosts + orphans)
  /\ UNCHANGED <<server, doorVars, life, uptime>>
  /\ readings' = readings \cup {Reading'}

-----------------------------------------------------------------------------
(* The process *)

\* Mutant: the process waits for its sockets without having told them.
CloseQuietly ==
  /\ server = "up"
  /\ server' = "closing"
  /\ page' = Becoming(At({"in"}), "late")
  /\ UNCHANGED <<ghosts, dying, orphans, vanished, life, countVars, readings>>

\* close(): the timers stop, the sockets open now are told 1000.
Close ==
  /\ server = "up"
  /\ server' = "closing"
  /\ page' = Becoming(At({"in"}), "dismissed")
  /\ ghosts' = 0
  /\ dying' = dying + ghosts
  /\ UNCHANGED <<orphans, vanished, life, countVars, readings>>

\* warm.close() is through: wss.close() follows.
WarmClosed ==
  /\ server = "closing"
  /\ server' = "draining"
  /\ UNCHANGED <<doorVars, life, countVars, readings>>

\* The last socket is gone, so the HTTP server and the process end.
Exit ==
  /\ server = "draining"
  /\ Slots = 0
  /\ server' = Down
  /\ UNCHANGED <<doorVars, life, countVars, readings>>

\* The process dies: every page hears 1006, or the goodbye that came before.
Crash ==
  /\ Running
  /\ server' = Down
  /\ \E heard \in SUBSET At({"dismissed"}) :
       page' = [p \in Pages |-> IF page[p] = "stopped" \/ p \in heard THEN "stopped" ELSE "away"]
  /\ ghosts' = 0 /\ dying' = 0 /\ orphans' = 0
  /\ UNCHANGED <<vanished, life, countVars, readings>>

Restart ==
  /\ server = Down
  /\ life < MaxLives
  /\ server' = "up"
  /\ life' = life + 1
  /\ uptime' = 0
  /\ sent' = 0
  /\ reseeds' = 0
  /\ UNCHANGED doorVars
  /\ readings' = readings \cup {Reading'}

-----------------------------------------------------------------------------
(* Specification *)

Init ==
  /\ server = "up"
  /\ page = [p \in Pages |-> "away"]
  /\ ghosts = 0 /\ dying = 0 /\ orphans = 0 /\ vanished = 0
  /\ life = 1 /\ uptime = 0 /\ sent = 0 /\ reseeds = 0
  /\ readings = {Reading}

GhostsExpire == \E old \in SUBSET At({"in"}), k \in 1..ghosts : Sweep(old, k)

Next ==
  \/ \E p \in Pages : Enter(p) \/ Leave(p) \/ Vanish(p) \/ Hear(p) \/ Resume(p) \/ Speak(p)
  \/ GiveUp
  \/ \E n \in 1..MaxBatch, slow \in SUBSET At({"in"}), k \in 0..ghosts : Tick(n, slow, k)
  \/ \E old \in SUBSET At({"in"}), k \in 0..ghosts : Sweep(old, k)
  \/ \E graceful \in BOOLEAN : Disconnect(graceful)
  \/ Reseed
  \/ Close \/ WarmClosed \/ Exit \/ Crash \/ Restart

\* A page dials until it is let in (connect.ts), answers a close frame, and leaves
\* a wire that stays silent; every socket's session reaches its ceiling; the
\* library gives up on an unanswered close; the warm plane's close ends.
Fairness ==
  /\ \A p \in Pages : WF_vars(Enter(p)) /\ WF_vars(Hear(p)) /\ WF_vars(page[p] = "late" /\ Leave(p))
  /\ WF_vars(GhostsExpire)
  /\ WF_vars(GiveUp)
  /\ WF_vars(WarmClosed)
  /\ WF_vars(Exit)

Spec == Init /\ [][Next]_vars /\ Fairness

-----------------------------------------------------------------------------
(* Properties *)

\* "The (N+1)-th client is refused at the door" (server.ts 621): check and entry
\* are one step, so the limit holds of sockets, gone pages' sockets included; and
\* what is left open once the server drains came after close() had said goodbye.
FeedDoorInv ==
  /\ server \in {"up", "closing", "draining", Down}
  /\ page \in [Pages -> PageState]
  /\ {ghosts, dying, orphans, vanished, life, uptime, sent, reseeds} \subseteq Nat
  /\ Slots <= MaxClients
  /\ server # "up" => ghosts = 0 /\ At({"in"}) = {}
  /\ server = Down => Slots = 0

\* What the load chart plots is a rate a server can have had: time advanced, and no
\* more was sent in it than its ticks and its reseeds, each to every socket, account
\* for (server.ts 251, 267, 372).  setInterval does not wait for the last answer, so
\* polls overlap (Panel.tsx 78-108), and any two readings may be folded after each
\* other, whoever gave them.  Only a sample that spans a restart may say otherwise,
\* when the new process has outlived and outsent the old one (series.ts 69-79).
RatesAreHonest ==
  \A last \in readings \cup {NoSnapshot}, snapshot \in readings : ~Reseeds(last, snapshot) =>
    LET sample == Sample(last, snapshot)
    IN /\ sample.dt > 0
       /\ sample.records >= 0
       /\ sample.oneLife =>
            /\ sample.reseeds >= 0
            /\ sample.records <= sample.dt * MaxBatch * MaxClients
                                  + sample.reseeds * SnapshotSize * MaxClients

\* With a slot for every page, every page that dials gets in: the sockets of pages
\* that vanished hold their slots only for a time (server.ts 278, 623).
PagesGetIn == \A p \in Pages : page[p] = "away" ~> page[p] # "away" \/ server # "up"

\* close() ends, unless a page that came in behind its goodbye vanished: nobody
\* tells such a page, it leaves by its own watchdog (server.ts 642-659).
ShutdownEnds == server \in {"closing", "draining"} ~> server \in {Down, "up"} \/ orphans > 0
=============================================================================
