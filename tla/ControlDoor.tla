---------------------------- MODULE ControlDoor -----------------------------
(***************************************************************************)
(* The control plane's way in (apps/feed-server/src/server.ts,             *)
(* handleRequest; control.ts, handleSimRequest and handlePost): a request  *)
(* is routed and checked for the lock when its headers are there, its body *)
(* arrives over time, and then the whole request is done in one turn of    *)
(* the loop.  The commands that reach the order desk are modelled with     *)
(* their effect; Director, Market and HotPlane have the others.            *)
(***************************************************************************)
EXTENDS OrderDoor

CONSTANTS
  Conns,      \* HTTP connections
  Locked,     \* config.simSecret is set
  MaxLives    \* bound: processes

ASSUME ControlAssumption == Locked \in BOOLEAN /\ MaxLives \in Nat \ {0}

VARIABLES
  post,       \* [Conns -> the request whose body is arriving, or Idle]
  life,       \* processes so far
  honest      \* history: every answer has told what was done

controlVars == <<post, life, honest>>

-----------------------------------------------------------------------------
(* Requests *)

\* The endpoints of the control plane and the method each wants.
SimPaths ==
  {"/sim/seed", "/sim/rate", "/sim/gap", "/sim/mode", "/sim/freeze", "/sim/lastlook",
   "/sim/order", "/sim/blotter", "/sim/scenario", "/sim/disconnect", "/sim/news",
   "/sim/stats"}
MethodOf(path) == IF path = "/sim/stats" THEN "GET" ELSE "POST"

\* A request and what its body asks for: an order under an id of the client's or
\* none, a burst's rows, or what no schema or no handler accepts.
NoId == 0
Request(path, body, id, rows) ==
  [method |-> "POST", path |-> path, key |-> TRUE, body |-> body, id |-> id, rows |-> rows]

Idle == Request("none", "none", NoId, 0)

Commands ==
  {Request("/sim/order", "fine", id, 0) : id \in ClientIds \cup {NoId}}
    \cup {Request("/sim/blotter", "fine", NoId, rows) : rows \in BurstRows}
    \cup {Request("/sim/seed", "fine", NoId, 0),
          Request("/sim/seed", "not JSON", NoId, 0),
          Request("/sim/order", "unknown pair", NoId, 0)}

Requests ==
  Commands
    \cup {[c EXCEPT !.key = FALSE] : c \in Commands}
    \cup {[c EXCEPT !.method = m] : c \in Commands, m \in {"GET", "OPTIONS"}}
    \cup {[c EXCEPT !.path = p] : c \in Commands, p \in {"/sim/reset", "/healthz"}}

\* A request is let in, or answered from its headers alone: preflight, the public
\* paths, the lock, the unknown endpoint, the method.
LetIn == 0
Gate(r) ==
  IF r.method = "OPTIONS" THEN 204
  ELSE IF r.path \in {"/healthz", "/api/instruments"}
       THEN IF r.method = "GET" THEN 200 ELSE 404
  ELSE IF Locked /\ ~r.key THEN 401
  ELSE IF r.path \notin SimPaths THEN 404
  ELSE IF r.method # MethodOf(r.path) THEN 405
  ELSE IF r.path = "/sim/stats" THEN 200
  ELSE LetIn

\* What the parse, the schema and the handler's own checks turn away.
Refuses(r) ==
  \/ r.body # "fine"
  \/ r.path = "/sim/order" /\ (IF r.id = NoId THEN NextId ELSE r.id) \in meta
  \/ r.path = "/sim/blotter" /\ ~BurstFits(r.rows)

\* The orders that an answer of 200 says have entered.
Owed(r) ==
  CASE r.path = "/sim/order" -> 1
    [] r.path = "/sim/blotter" -> r.rows
    [] OTHER -> 0

-----------------------------------------------------------------------------
(* Actions *)

\* The headers of a request that is let in; what they decide otherwise is
\* answered at once and changes nothing.
Headers(c) ==
  /\ up
  /\ post[c] = Idle
  /\ \E r \in Requests : Gate(r) = LetIn /\ post' = [post EXCEPT ![c] = r]
  /\ UNCHANGED <<deskVars, life, honest>>

Perform(r) ==
  \/ /\ \/ r.body # "fine"
        \/ r.path = "/sim/blotter" /\ ~BurstFits(r.rows)
     /\ UNCHANGED deskVars
  \/ /\ r.body = "fine"
     /\ \/ r.path = "/sim/seed" /\ Reseed
        \/ r.path = "/sim/order" /\ r.id = NoId /\ SubmitFresh(TRUE, TRUE)
        \/ r.path = "/sim/order" /\ r.id # NoId /\ SubmitOwnId(r.id)
        \/ r.path = "/sim/blotter" /\ Blotter(r.rows)

\* The body is complete: parsed, checked, carried out and answered in one turn.
BodyEnds(c) ==
  LET r == post[c]
  IN /\ r # Idle
     /\ Perform(r)
     /\ post' = [d \in Conns |-> IF d = c \/ ~up' THEN Idle ELSE post[d]]
     /\ honest' = (honest /\ (up' => Cardinality(meta' \ meta) =
                                       (IF Refuses(r) THEN 0 ELSE Owed(r))))
     /\ UNCHANGED life

\* The connection is lost while its body arrives: readBody() throws, nobody
\* handles the promise, and the process ends.
BodyBreaks(c) ==
  /\ post[c] # Idle
  /\ life < MaxLives
  /\ DeskDies
  /\ post' = [d \in Conns |-> Idle]
  /\ UNCHANGED <<life, honest>>

\* The platform starts the next process.
Restart ==
  /\ ~up
  /\ life < MaxLives
  /\ life' = life + 1
  /\ up' = TRUE
  /\ UNCHANGED <<orderCounter, books, spent, post, honest>>

ControlInit ==
  /\ DeskInit
  /\ post = [c \in Conns |-> Idle]
  /\ life = 1
  /\ honest = TRUE

-----------------------------------------------------------------------------
(* Properties *)

ControlTypeOK ==
  /\ DeskTypeOK
  /\ post \in [Conns -> Requests \cup {Idle}]
  /\ life \in 1..MaxLives

\* An answer tells what was done: 200 that all of the request's orders entered,
\* a refusal that none did, whatever the bodies read beside it changed in
\* between ("a request either becomes a proven value or dies at the border",
\* control.ts:22).
AnswersAreTrue == honest
=============================================================================
