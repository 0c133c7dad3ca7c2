-------------------------------- MODULE Ledger --------------------------------
(***************************************************************************)
(* What the engine promises about quantity, whatever the book looks like:  *)
(* an accepted order has a quantity still open; it shrinks only in a trade *)
(* that takes as much from the other side, between two different clients;  *)
(* or the order is retired and what was open is gone.  Quantity is never   *)
(* created, and never moves from one order to another.                     *)
(*                                                                         *)
(* There is no module of this kind in the code: it is the conservation     *)
(* property of tests/properties.rs as a specification, and OrderBook is    *)
(* shown to implement it.                                                  *)
(***************************************************************************)
EXTENDS Integers, Functions

CONSTANTS Ids, Clients, Null

VARIABLES
  accepted,   \* ids of the orders accepted so far
  open,       \* quantity each order may still trade
  owner       \* the client behind each live order, or Null

LedgerInit ==
  /\ accepted = {}
  /\ open = [id \in Ids |-> 0]
  /\ owner = [id \in Ids |-> Null]

\* A new order, under an id never used before: no order comes back to life.
Accept ==
  \E id \in Ids \ accepted :
    /\ accepted' = accepted \union {id}
    /\ owner'[id] # Null
    /\ \A other \in Ids \ {id} : open'[other] = open[other] /\ owner'[other] = owner[other]

\* One taker against the makers that lose quantity.
Trade ==
  /\ \E taker \in Ids :
       LET makers == {id \in Ids \ {taker} : open'[id] # open[id]}
       IN  /\ \A id \in makers : /\ 0 <= open'[id] /\ open'[id] < open[id]
                                 /\ owner[id] # owner[taker]
           /\ 0 <= open'[taker]
           /\ open[taker] - open'[taker]
                = SumFunction([id \in makers |-> open[id] - open'[id]])
  /\ UNCHANGED <<accepted, owner>>

\* An order ends: exhausted, cancelled or killed.
Retire ==
  \E id \in Ids :
    /\ owner[id] # Null /\ owner'[id] = Null /\ open'[id] = 0
    /\ UNCHANGED accepted
    /\ \A other \in Ids \ {id} : open'[other] = open[other] /\ owner'[other] = owner[other]

LedgerNext == Accept \/ Trade \/ Retire

LedgerSpec == LedgerInit /\ [][LedgerNext]_<<accepted, open, owner>>
===============================================================================
