----------------------------- MODULE OrderLife ------------------------------
(***************************************************************************)
(* What every holder of orders promises of each of them, whichever reports *)
(* it has seen: an order is accepted or rejected once, its fills only grow *)
(* and never exceed its size, what is left is the rest, and once it ends   *)
(* nothing about it changes again.  A holder may move an order over        *)
(* several events at once.  A new trading day forgets everything.          *)
(***************************************************************************)
EXTENDS OrderGrammar

CONSTANT Ids

VARIABLES
  life,    \* [Ids -> progress of the order, NoOrder before its first event]
  size     \* [Ids -> its OrderQty]

lifeVars == <<life, size>>

\* An order of size n can look like this.
Sound(p, n) ==
  \/ p = NoOrder
  \/ /\ p \in Progress
     /\ p.status \in {"NEW", "REJECTED"} => p.cumQty = 0
     /\ p.status \in Live => p.cumQty + p.leavesQty = n
     /\ p.status \in Live \ {"NEW"} => p.cumQty > 0
     /\ p.status \in Live => p.leavesQty > 0
     /\ p.status \in Terminal => p.leavesQty = 0
     /\ p.status = "FILLED" => p.cumQty = n
     /\ p.status # "REJECTED" => p.cumQty \in 0..n

\* q is what p looks like some events later, or now.
Later(p, q, n) ==
  \/ q = p
  \/ /\ p.status \notin Terminal
     /\ Sound(q, n)
     /\ q # NoOrder
     /\ q.cumQty >= p.cumQty
     /\ p # NoOrder => q.status \notin {"NEW", "REJECTED"}
     /\ q.status = "PARTIALLY_FILLED" => q.cumQty > p.cumQty

LifeInit == life = [id \in Ids |-> NoOrder] /\ size \in [Ids -> Int]

Progresses ==
  \A id \in Ids : /\ Later(life[id], life'[id], size'[id])
                  /\ life[id] # NoOrder => size'[id] = size[id]

NewDay == life' = [id \in Ids |-> NoOrder]

LifeNext == Progresses \/ NewDay

LifeSpec == LifeInit /\ [][LifeNext]_lifeVars
=============================================================================
