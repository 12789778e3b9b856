------------------------------- MODULE Ticket -------------------------------
(***************************************************************************)
(* The page's ticket at the order door (apps/web/src/warm/TradingPanel.tsx *)
(* Ticket; client.ts; apps/feed-server/src/warm.ts, submitOrder): one      *)
(* mutation at a time over a socket that may be lost, without an id of its *)
(* own.  graphql-ws executes an operation again on the next socket while   *)
(* it has no answer, whether the server has carried it out or not.         *)
(***************************************************************************)
EXTENDS ControlDoor, Depth

CONSTANTS
  AskSides,    \* ask sides of the book a click may find
  Typed,       \* sizes typed by hand, legal or not
  MaxDrops     \* bound: sockets lost

ASSUME TicketAssumption ==
  /\ AskSides \subseteq Seq(Offers \cup {NoLevel})
  /\ Typed \subseteq Int
  /\ MaxDrops \in Nat

VARIABLES
  form,        \* the size in the form, and whether a pick put it there
  link,        \* the warm socket: "down" or "open"
  mutation,    \* where the submitOrder is, and the answer it carries
  mine,        \* history: the orders the last click has entered
  lost,        \* history: answers to the last click that were lost
  drops

ticketVars == <<form, link, mutation, mine, lost, drops>>
vars == <<deskVars, controlVars, ticketVars>>

Nothing == [life |-> 0, id |-> 0]
Refused == [life |-> 0, id |-> -1]
NoMutation == [at |-> "none", qty |-> 0, answer |-> Nothing]
Sent(qty) == [at |-> IF link' = "open" THEN "uplink" ELSE "page", qty |-> qty,
              answer |-> Nothing]

-----------------------------------------------------------------------------
(* The form *)

\* A click on the depth loads the row into the form; so does every repeat.
PickLevel ==
  /\ \E levels \in AskSides : \E row \in DepthRows(levels) :
       form' = [qty |-> PickOf("ask", row).qty, picked |-> TRUE]
  /\ UNCHANGED <<deskVars, controlVars, link, mutation, mine, lost, drops>>

TypeSize ==
  /\ \E qty \in Typed : form' = [qty |-> qty, picked |-> FALSE]
  /\ UNCHANGED <<deskVars, controlVars, link, mutation, mine, lost, drops>>

-----------------------------------------------------------------------------
(* The mutation *)

Loading == mutation # NoMutation

\* The button is disabled while a submit is loading.
ClickSubmit ==
  /\ ~Loading
  /\ UNCHANGED <<deskVars, controlVars, form, link, drops>>
  /\ mutation' = Sent(form.qty)
  /\ mine' = {}
  /\ lost' = 0

\* What the ledger registers and what the engine does not reject on the spot.
Registered(qty) == qty >= 0
Legal(qty) == qty \in 1..MaxOrderQty

\* submitOrder: the shared door, and the ack.
Serve ==
  /\ up
  /\ mutation.at = "uplink"
  /\ SubmitFresh(Registered(mutation.qty), Legal(mutation.qty))
  /\ LET order == [life |-> life, id |-> NextId]
         taken == meta' # meta
     IN /\ mutation' = [mutation EXCEPT !.at = "downlink",
                                         !.answer = IF taken THEN order ELSE Refused]
        /\ mine' = IF taken THEN mine \cup {order} ELSE mine
  /\ UNCHANGED <<controlVars, form, link, lost, drops>>

\* The ack, or the error, is shown until the next answer.
ReceiveAnswer ==
  /\ mutation.at = "downlink"
  /\ mutation' = NoMutation
  /\ UNCHANGED <<deskVars, controlVars, form, link, mine, lost, drops>>

\* The socket goes, and what it carried: the operation waits for the next one.
LinkGoes ==
  /\ link' = "down"
  /\ mutation' = IF Loading THEN Sent(mutation.qty) ELSE mutation
  /\ lost' = IF mutation.at = "downlink" THEN lost + 1 ELSE lost

LinkDrops ==
  /\ link = "open"
  /\ drops < MaxDrops
  /\ drops' = drops + 1
  /\ LinkGoes
  /\ UNCHANGED <<deskVars, controlVars, form, mine>>

\* retryAttempts: Infinity.
LinkOpens ==
  /\ up
  /\ link = "down"
  /\ link' = "open"
  /\ mutation' = IF Loading THEN Sent(mutation.qty) ELSE mutation
  /\ UNCHANGED <<deskVars, controlVars, form, mine, lost, drops>>

-----------------------------------------------------------------------------
(* The door's other callers *)

DoorStep ==
  /\ \/ \E c \in Conns : Headers(c)
     \/ OrderEnds /\ UNCHANGED controlVars
     \/ Restart
  /\ UNCHANGED ticketVars

BodyStep ==
  /\ \E c \in Conns : BodyEnds(c)
  /\ IF up' THEN UNCHANGED <<link, mutation, lost>> ELSE LinkGoes
  /\ UNCHANGED <<form, mine, drops>>

Crash ==
  /\ \E c \in Conns : BodyBreaks(c)
  /\ LinkGoes
  /\ UNCHANGED <<form, mine, drops>>

Init ==
  /\ ControlInit
  /\ form = [qty |-> 1, picked |-> FALSE]
  /\ link = "down"
  /\ mutation = NoMutation
  /\ mine = {}
  /\ lost = 0
  /\ drops = 0

Next ==
  \/ PickLevel \/ TypeSize \/ ClickSubmit
  \/ Serve \/ ReceiveAnswer
  \/ LinkDrops \/ LinkOpens
  \/ DoorStep \/ BodyStep \/ Crash

Spec == Init /\ [][Next]_vars
-----------------------------------------------------------------------------
(* Properties *)

Orders == [life : 1..MaxLives, id : 1..MaxOrders]

TicketTypeOK ==
  /\ form \in [qty : Int, picked : BOOLEAN]
  /\ link \in {"down", "open"}
  /\ mutation \in [at : {"none", "page", "uplink", "downlink"}, qty : Int,
                   answer : Orders \cup {Nothing, Refused}]
  /\ mine \subseteq Orders

\* Both books agree and every answer of the control plane is true.
DoorInv == ControlTypeOK /\ BooksAgree /\ AnswersAreTrue

\* An ack names an order the click entered, an error says that it entered none,
\* and it enters one order more only when an answer was lost with its socket
\* (client.ts:37: the submit carries no id by which the server would know it
\* again); and what the depth put into the form the engine takes (depth.ts).
ClicksAreHonoured ==
  /\ TicketTypeOK
  /\ Cardinality(mine) <= lost + 1
  /\ mutation.at = "downlink" =>
       IF mutation.answer = Refused THEN mine = {} ELSE mutation.answer \in mine
  /\ form.picked => Legal(form.qty)
=============================================================================
