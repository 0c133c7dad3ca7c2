------------------------------ MODULE LevelQueue ------------------------------
(***************************************************************************)
(* The arena of resting orders and the doubly linked list of every level   *)
(* (src/src/order_queue.rs), with the calls the engine makes on them: an   *)
(* order comes to rest, is cancelled through the index, and a level is     *)
(* swept - the taker's own orders purged, the rest projected for the       *)
(* policy, the makers it exhausts unlinked.                                *)
(*                                                                         *)
(* The arena is a generational slot map: a key is a cell and the version   *)
(* the cell had when the key was made, and a cell changes version when it  *)
(* is vacated.  An order is named by its arrival stamp.                    *)
(***************************************************************************)
EXTENDS Instrument, Sequences

CONSTANTS
  Clients,
  Cells,       \* cells of the arena
  MaxArrival   \* bound: one more than the orders that come to rest

\* The levels that may exist.
Queues == [side : Sides, price : Prices]

Arrivals == 1 .. MaxArrival - 1
Keys == [cell : Cells, version : Nat]

\* What the lists need of an order: who sent it, when it came to rest, and the
\* level its side and price name.
Nodes ==
  [client : Clients, arrival : Arrivals, queue : Queues,
   previous : Keys \union {Null}, next : Keys \union {Null}]

ASSUME QueueAssumption ==
  /\ MaxArrival \in Nat \ {0}
  /\ IsFiniteSet(Cells)
  /\ Null \notin Keys /\ Null \notin Nodes
  /\ Null \notin Clients /\ Null \notin Queues
  /\ Null \notin [queue : Queues, key : Keys]

VARIABLES
  version,      \* version[cell]
  node,         \* node[cell]: a node, or Null
  list,         \* list[q]: head, tail and length of a level's list
  index,        \* index[order]: where a resting order is, or Null
  nextArrival,
  \* the sweep of one level
  pc,           \* idle, purge, project or fill
  at,           \* the level under sweep, or Null
  taker,        \* the client of the order in hand, or Null
  cursor,       \* where the walk along the list is, or Null
  purged,       \* own orders unlinked, not yet dropped from the index
  makers        \* keys of the projection, less those the fills have visited

arenaVars == <<version, node>>
sweepVars == <<pc, at, taker, cursor, purged, makers>>
queueVars == <<version, node, list, index, nextArrival, pc, at, taker, cursor, purged, makers>>

QueueInit ==
  /\ version = [cell \in Cells |-> 0]
  /\ node = [cell \in Cells |-> Null]
  /\ list = [q \in Queues |-> [head |-> Null, tail |-> Null, len |-> 0]]
  /\ index = [order \in Arrivals |-> Null]
  /\ nextArrival = 1
  /\ pc = "idle"
  /\ at = Null /\ taker = Null /\ cursor = Null
  /\ purged = {}
  /\ makers = <<>>

\* The key of a cell's present occupant.
KeyOf(cell) == [cell |-> cell, version |-> version[cell]]

\* Does the key still name the node it was made for?
Live(key) == node[key.cell] # Null /\ version[key.cell] = key.version

-------------------------------------------------------------------------------
(* The list *)

\* Mutant: the old tail is not linked to the newcomer.
MutPushBack(q, cell, client) ==
  /\ node' = [node EXCEPT ![cell] = [client |-> client, arrival |-> nextArrival, queue |-> q,
                                     previous |-> list[q].tail, next |-> Null]]
  /\ list' = [list EXCEPT ![q] =
                [head |-> IF list[q].tail = Null THEN KeyOf(cell) ELSE list[q].head,
                 tail |-> KeyOf(cell),
                 len  |-> list[q].len + 1]]
  /\ UNCHANGED version

\* push_back, into a vacant cell.
PushBack(q, cell, client) ==
  LET key == KeyOf(cell)
      tail == list[q].tail
  IN  /\ node[cell] = Null
      /\ node' = [c \in Cells |->
                    IF c = cell
                    THEN [client |-> client, arrival |-> nextArrival, queue |-> q,
                          previous |-> tail, next |-> Null]
                    ELSE IF tail # Null /\ KeyOf(c) = tail
                    THEN [node[c] EXCEPT !.next = key]
                    ELSE node[c]]
      /\ list' = [list EXCEPT ![q] =
                    [head |-> IF tail = Null THEN key ELSE list[q].head,
                     tail |-> key,
                     len  |-> list[q].len + 1]]
      /\ UNCHANGED version

\* Mutant: the successor keeps pointing at the removed node.
MutRemoveKey(q, key) ==
  LET removed == node[key.cell]
  IN  /\ node' = [c \in Cells |->
                    IF c = key.cell THEN Null
                    ELSE IF removed.previous # Null /\ KeyOf(c) = removed.previous
                    THEN [node[c] EXCEPT !.next = removed.next]
                    ELSE node[c]]
      /\ list' = [list EXCEPT ![q] =
                    [head |-> IF removed.previous = Null THEN removed.next ELSE list[q].head,
                     tail |-> IF removed.next = Null THEN removed.previous ELSE list[q].tail,
                     len  |-> list[q].len - 1]]
      /\ version' = [version EXCEPT ![key.cell] = @ + 1]

\* remove_key: the node leaves the arena and its neighbours close the gap.  A
\* stale key changes nothing.
RemoveKey(q, key) ==
  LET removed == node[key.cell]
  IN  IF ~Live(key)
      THEN UNCHANGED <<arenaVars, list>>
      ELSE /\ node' = [c \in Cells |->
                         IF c = key.cell THEN Null
                         ELSE IF removed.previous # Null /\ KeyOf(c) = removed.previous
                         THEN [node[c] EXCEPT !.next = removed.next]
                         ELSE IF removed.next # Null /\ KeyOf(c) = removed.next
                         THEN [node[c] EXCEPT !.previous = removed.previous]
                         ELSE node[c]]
           /\ list' = [list EXCEPT ![q] =
                         [head |-> IF removed.previous = Null THEN removed.next ELSE list[q].head,
                          tail |-> IF removed.next = Null THEN removed.previous ELSE list[q].tail,
                          len  |-> list[q].len - 1]]
           /\ version' = [version EXCEPT ![key.cell] = @ + 1]

-------------------------------------------------------------------------------
(* The engine's calls *)

\* add_order: the order joins a level's queue under the next arrival stamp.
Rest(q, client) ==
  /\ pc = "idle"
  /\ nextArrival < MaxArrival
  /\ \E cell \in Cells :
       /\ node[cell] = Null
       /\ PushBack(q, cell, client)
       /\ index' = [index EXCEPT ![nextArrival] = [queue |-> q, key |-> KeyOf(cell)]]
  /\ nextArrival' = nextArrival + 1
  /\ UNCHANGED sweepVars

\* cancel_order: the index entry goes first, then the node it named.
Cancel(order) ==
  /\ pc = "idle"
  /\ index[order] # Null
  /\ RemoveKey(index[order].queue, index[order].key)
  /\ index' = [index EXCEPT ![order] = Null]
  /\ UNCHANGED <<nextArrival, sweepVars>>

\* A sweep reaches a level; the purge of own orders starts at its head.
BeginSweep(q, client) ==
  /\ pc = "idle"
  /\ list[q].len # 0
  /\ pc' = "purge"
  /\ at' = q
  /\ taker' = client
  /\ cursor' = list[q].head
  /\ UNCHANGED <<arenaVars, list, index, nextArrival, purged, makers>>

\* Mutant: a removal sends the purge back to the head.
MutPurgeRestart ==
  /\ pc = "purge"
  /\ cursor # Null
  /\ IF node[cursor.cell].client = taker
     THEN /\ RemoveKey(at, cursor)
          /\ purged' = purged \union {node[cursor.cell].arrival}
          /\ cursor' = list'[at].head
     ELSE UNCHANGED <<arenaVars, list, purged>> /\ cursor' = node[cursor.cell].next
  /\ UNCHANGED <<index, nextArrival, pc, at, taker, makers>>

\* remove_client, one node: the cursor moves on before the node may go.
Purge ==
  /\ pc = "purge"
  /\ cursor # Null
  /\ cursor' = node[cursor.cell].next
  /\ IF node[cursor.cell].client = taker
     THEN /\ RemoveKey(at, cursor)
          /\ purged' = purged \union {node[cursor.cell].arrival}
     ELSE UNCHANGED <<arenaVars, list, purged>>
  /\ UNCHANGED <<index, nextArrival, pc, at, taker, makers>>

\* Mutant: the index keeps the purged orders.
MutDropPurged == index

DropPurged == [order \in Arrivals |-> IF order \in purged THEN Null ELSE index[order]]

\* The purged orders leave the index; the projection starts at the head.
Unindex ==
  /\ pc = "purge"
  /\ cursor = Null
  /\ index' = DropPurged
  /\ purged' = {}
  /\ cursor' = list[at].head
  /\ pc' = "project"
  /\ UNCHANGED <<arenaVars, list, nextArrival, at, taker, makers>>

\* Mutant: the last node is left out.
MutProject ==
  /\ pc = "project"
  /\ cursor # Null
  /\ cursor' = node[cursor.cell].next
  /\ makers' = IF cursor' = Null THEN makers ELSE Append(makers, cursor)
  /\ UNCHANGED <<arenaVars, list, index, nextArrival, pc, at, taker, purged>>

\* collect_makers, one node.
Project ==
  /\ pc = "project"
  /\ cursor # Null
  /\ makers' = Append(makers, cursor)
  /\ cursor' = node[cursor.cell].next
  /\ UNCHANGED <<arenaVars, list, index, nextArrival, pc, at, taker, purged>>

\* The policy answers; the fills are about to be applied.
Allocate ==
  /\ pc = "project"
  /\ cursor = Null
  /\ pc' = "fill"
  /\ UNCHANGED <<arenaVars, list, index, nextArrival, at, taker, cursor, purged, makers>>

\* The fills are applied front to back; this maker keeps something ...
SpareMaker ==
  /\ pc = "fill"
  /\ makers # <<>>
  /\ makers' = Tail(makers)
  /\ UNCHANGED <<arenaVars, list, index, nextArrival, pc, at, taker, cursor, purged>>

\* ... and this one has nothing left and is unlinked.
ExhaustMaker ==
  /\ pc = "fill"
  /\ makers # <<>>
  /\ Live(Head(makers))
  /\ RemoveKey(at, Head(makers))
  /\ index' = [index EXCEPT ![node[Head(makers).cell].arrival] = Null]
  /\ makers' = Tail(makers)
  /\ UNCHANGED <<nextArrival, pc, at, taker, cursor, purged>>

\* The sweep leaves the level, drained or not.
LeaveLevel ==
  /\ pc = "fill"
  /\ makers = <<>>
  /\ pc' = "idle"
  /\ at' = Null
  /\ taker' = Null
  /\ UNCHANGED <<arenaVars, list, index, nextArrival, cursor, purged, makers>>

SweepStep == Purge \/ Unindex \/ Project \/ Allocate \/ SpareMaker \/ ExhaustMaker \/ LeaveLevel

QueueNext ==
  \/ \E q \in Queues, client \in Clients : Rest(q, client) \/ BeginSweep(q, client)
  \/ \E order \in Arrivals : Cancel(order)
  \/ SweepStep

QueueSpec == QueueInit /\ [][QueueNext]_queueVars

-------------------------------------------------------------------------------
(* Properties *)

Members(q) == {cell \in Cells : node[cell] # Null /\ node[cell].queue = q}

Before(c, d) == node[c].arrival < node[d].arrival

\* `link' is the key of the member of q nearest to `cell' among `others', or
\* Null when there is none.
IsFirstOf(link, others) ==
  IF others = {} THEN link = Null
  ELSE \E c \in others : link = KeyOf(c) /\ \A d \in others : d = c \/ Before(c, d)

IsLastOf(link, others) ==
  IF others = {} THEN link = Null
  ELSE \E c \in others : link = KeyOf(c) /\ \A d \in others : d = c \/ Before(d, c)

\* Every list threads exactly the orders of its level, in order of arrival,
\* forwards and backwards, ends at both ends and counts them: what
\* links_are_consistent (order_queue.rs:132-155) tests, and the agreement of
\* position and arrival stamp the policies rely on, at every step of a sweep.
LinksConsistent ==
  \A q \in Queues :
    /\ IsFirstOf(list[q].head, Members(q))
    /\ IsLastOf(list[q].tail, Members(q))
    /\ list[q].len = Cardinality(Members(q))
    /\ \A c \in Members(q) :
         /\ IsFirstOf(node[c].next, {d \in Members(q) : Before(c, d)})
         /\ IsLastOf(node[c].previous, {d \in Members(q) : Before(d, c)})

\* An index entry names a live node holding that very order in that very list,
\* and every node has its entry: no address dangles and none is taken over by
\* the next tenant of a reused cell (order_queue.rs:56-57).
IndexLive ==
  /\ \A order \in Arrivals :
       index[order] # Null /\ order \notin purged =>
         /\ Live(index[order].key)
         /\ node[index[order].key.cell].arrival = order
         /\ node[index[order].key.cell].queue = index[order].queue
  /\ \A cell \in Cells :
       node[cell] # Null =>
         index[node[cell].arrival] = [queue |-> node[cell].queue, key |-> KeyOf(cell)]

\* The projection handed to the policy is the level, whole and in order, and
\* stays good until the last fill: its keys are live, of the level under sweep,
\* oldest first, none left out, and never the taker's own (matching.rs:484-498).
ProjectionLive ==
  pc \in {"project", "fill"} =>
    /\ \A i \in 1 .. Len(makers) :
         /\ Live(makers[i])
         /\ node[makers[i].cell].queue = at
         /\ \A j \in 1 .. i - 1 : Before(makers[j].cell, makers[i].cell)
    /\ \A cell \in Members(at) :
         /\ node[cell].client # taker
         /\ pc = "project" /\ (cursor # Null => Before(cell, cursor.cell))
              => \E i \in 1 .. Len(makers) : makers[i] = KeyOf(cell)

\* What a walk has yet to visit.
Pending ==
  IF cursor = Null THEN {}
  ELSE {node[c].arrival : c \in {d \in Members(at) : ~Before(d, cursor.cell)}}

\* Purging walks a list it is shortening, projecting one it is not, filling a
\* projection of one: every step of a sweep leaves strictly less to visit, so
\* no call loops (order_queue.rs:85-97, matching.rs:517-529).
SweepAdvances ==
  [][\/ pc = "idle"
     \/ pc = "purge" /\ pc' = "project"
     \/ pc = "project" /\ pc' = "fill"
     \/ pc = "fill" /\ pc' = "idle"
     \/ pc \in {"purge", "project"} /\ pc' = pc /\ Pending' \subseteq Pending /\ Pending' # Pending
     \/ pc = "fill" /\ pc' = pc /\ Len(makers') < Len(makers)]_queueVars

\* From the head, link by link.
Walk(q) ==
  LET key[n \in 1 .. Cardinality(Cells)] ==
        IF n = 1 THEN list[q].head
        ELSE IF key[n-1] # Null /\ Live(key[n-1]) THEN node[key[n-1].cell].next
        ELSE Null
      visited == {n \in 1 .. Cardinality(Cells) : key[n] # Null}
  IN  [n \in 1 .. Cardinality(visited) |-> key[n]]

Stamps(keys) == [i \in DOMAIN keys |-> node[keys[i].cell].arrival]

F == INSTANCE Fifo WITH lists <- [q \in Queues |-> Stamps(Walk(q))], stamp <- nextArrival

\* A linked list over reused cells is a queue: who rests joins the back, who
\* leaves disturbs nobody.
ImplementsFifo == F!FifoSpec
===============================================================================
