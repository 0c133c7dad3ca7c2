---------------------------- MODULE LevelQueueProofs ----------------------------
(***************************************************************************)
(* The linked lists of LevelQueue stay linked, the index never dangles and *)
(* the projection of a sweep stays good, for any arena, any levels and any *)
(* mix of rests, cancels and sweeps.                                       *)
(***************************************************************************)
EXTENDS LevelQueue, FiniteSetTheorems, SequenceTheorems, TLAPS

Lists == [head : Keys \union {Null}, tail : Keys \union {Null}, len : Nat]
Entries == [queue : Queues, key : Keys]

\* The types of the arena, the lists, the index and the sweep.
QueueTypeOK ==
  /\ version \in [Cells -> Nat]
  /\ node \in [Cells -> Nodes \union {Null}]
  /\ list \in [Queues -> Lists]
  /\ index \in [Arrivals -> Entries \union {Null}]
  /\ nextArrival \in 1 .. MaxArrival
  /\ pc \in {"idle", "purge", "project", "fill"}
  /\ at \in Queues \union {Null}
  /\ taker \in Clients \union {Null}
  /\ cursor \in Keys \union {Null}
  /\ purged \in SUBSET Arrivals
  /\ makers \in Seq(Keys)

-------------------------------------------------------------------------------
(* Keys and nodes *)

\* A key names its cell at its present version (slotmap's OrderKey).
LEMMA KeyFacts ==
  ASSUME QueueTypeOK, NEW c \in Cells
  PROVE  /\ KeyOf(c) \in Keys /\ KeyOf(c) # Null
         /\ KeyOf(c).cell = c /\ KeyOf(c).version = version[c]
         /\ \A d \in Cells : KeyOf(c) = KeyOf(d) => c = d
BY QueueAssumption DEF KeyOf, Keys, QueueTypeOK

\* A live key is the key of its cell, and the cell holds a node.
LEMMA LiveFacts ==
  ASSUME QueueTypeOK, NEW key \in Keys
  PROVE  /\ key.cell \in Cells
         /\ Live(key) <=> node[key.cell] # Null /\ key = KeyOf(key.cell)
BY DEF KeyOf, Keys, QueueTypeOK, Live

\* What a node carries.
LEMMA NodeParts ==
  ASSUME NEW n \in Nodes
  PROVE  /\ n # Null
         /\ n.client \in Clients /\ n.arrival \in Arrivals /\ n.queue \in Queues
         /\ n.previous \in Keys \union {Null} /\ n.next \in Keys \union {Null}
BY QueueAssumption DEF Nodes

\* Linking a node onwards changes nothing else of it.
LEMMA NodeNext ==
  ASSUME NEW n \in Nodes, NEW link \in Keys \union {Null},
         NEW m, m = [n EXCEPT !.next = link]
  PROVE  /\ m \in Nodes /\ m # Null /\ m.next = link
         /\ m.client = n.client /\ m.arrival = n.arrival /\ m.queue = n.queue
         /\ m.previous = n.previous
BY QueueAssumption DEF Nodes

\* Linking a node backwards changes nothing else of it.
LEMMA NodePrevious ==
  ASSUME NEW n \in Nodes, NEW link \in Keys \union {Null},
         NEW m, m = [n EXCEPT !.previous = link]
  PROVE  /\ m \in Nodes /\ m # Null /\ m.previous = link
         /\ m.client = n.client /\ m.arrival = n.arrival /\ m.queue = n.queue
         /\ m.next = n.next
BY QueueAssumption DEF Nodes

-------------------------------------------------------------------------------
(* The links, node by node *)

HeadOK(q) ==
  IF Members(q) = {} THEN list[q].head = Null
  ELSE \E c \in Members(q) : /\ list[q].head = KeyOf(c)
                             /\ \A d \in Members(q) : d = c \/ Before(c, d)

TailOK(q) ==
  IF Members(q) = {} THEN list[q].tail = Null
  ELSE \E c \in Members(q) : /\ list[q].tail = KeyOf(c)
                             /\ \A d \in Members(q) : d = c \/ Before(d, c)

NextOK(q, c) ==
  \/ node[c].next = Null /\ \A d \in Members(q) : ~Before(c, d)
  \/ \E d \in Members(q) :
       /\ node[c].next = KeyOf(d) /\ Before(c, d)
       /\ \A e \in Members(q) : Before(c, e) => e = d \/ Before(d, e)

PreviousOK(q, c) ==
  \/ node[c].previous = Null /\ \A d \in Members(q) : ~Before(d, c)
  \/ \E d \in Members(q) :
       /\ node[c].previous = KeyOf(d) /\ Before(d, c)
       /\ \A e \in Members(q) : Before(e, c) => e = d \/ Before(e, d)

LinkedAt(q) ==
  /\ HeadOK(q) /\ TailOK(q)
  /\ list[q].len = Cardinality(Members(q))
  /\ \A c \in Members(q) : NextOK(q, c) /\ PreviousOK(q, c)

Linked == \A q \in Queues : LinkedAt(q)

\* LinksConsistent without its sets of nodes before and after.
LEMMA LinksPointwise == LinksConsistent <=> Linked
<1>1. ASSUME NEW q \in Queues
      PROVE  /\ IsFirstOf(list[q].head, Members(q)) <=> HeadOK(q)
             /\ IsLastOf(list[q].tail, Members(q)) <=> TailOK(q)
  BY DEF IsFirstOf, IsLastOf, HeadOK, TailOK
<1>2. ASSUME NEW q \in Queues, NEW c \in Members(q)
      PROVE  IsFirstOf(node[c].next, {d \in Members(q) : Before(c, d)}) <=> NextOK(q, c)
  BY DEF IsFirstOf, NextOK
<1>3. ASSUME NEW q \in Queues, NEW c \in Members(q)
      PROVE  IsLastOf(node[c].previous, {d \in Members(q) : Before(d, c)}) <=> PreviousOK(q, c)
  BY DEF IsLastOf, PreviousOK
<1> QED
  BY <1>1, <1>2, <1>3 DEF LinksConsistent, Linked, LinkedAt

\* The same, of the next state.
LEMMA LinksPointwiseNext == LinksConsistent' <=> Linked'
BY LinksPointwise, PTL

-------------------------------------------------------------------------------
(* push_back *)

\* What push_back leaves behind: the newcomer at the back of its level, every
\* other node as it was but for the old tail's link.
LEMMA PushBackEffect ==
  ASSUME QueueTypeOK, NEW q \in Queues, NEW cell \in Cells, NEW client \in Clients,
         nextArrival \in Arrivals, \A r \in Queues : TailOK(r), PushBack(q, cell, client)
  PROVE  /\ node' \in [Cells -> Nodes \union {Null}]
         /\ list' \in [Queues -> Lists]
         /\ version' = version
         /\ node[cell] = Null /\ node'[cell] \in Nodes
         /\ node'[cell].client = client /\ node'[cell].arrival = nextArrival
         /\ node'[cell].queue = q
         /\ node'[cell].previous = list[q].tail /\ node'[cell].next = Null
         /\ list'[q].head = (IF list[q].tail = Null THEN KeyOf(cell) ELSE list[q].head)
         /\ list'[q].tail = KeyOf(cell)
         /\ list'[q].len = list[q].len + 1
         /\ \A r \in Queues : r # q => list'[r] = list[r]
         /\ \A c \in Cells :
              c # cell =>
                /\ node'[c] = Null <=> node[c] = Null
                /\ node[c] # Null =>
                     /\ node'[c].client = node[c].client
                     /\ node'[c].arrival = node[c].arrival
                     /\ node'[c].queue = node[c].queue
                     /\ node'[c].previous = node[c].previous
                     /\ node'[c].next = (IF KeyOf(c) = list[q].tail THEN KeyOf(cell)
                                        ELSE node[c].next)
<1> DEFINE key == KeyOf(cell)
           tail == list[q].tail
           newcomer == [client |-> client, arrival |-> nextArrival, queue |-> q,
                        previous |-> tail, next |-> Null]
<1>1. /\ node[cell] = Null
      /\ node' = [c \in Cells |->
                    IF c = cell THEN newcomer
                    ELSE IF tail # Null /\ KeyOf(c) = tail
                    THEN [node[c] EXCEPT !.next = key]
                    ELSE node[c]]
      /\ list' = [list EXCEPT ![q] =
                    [head |-> IF tail = Null THEN key ELSE list[q].head,
                     tail |-> key, len |-> list[q].len + 1]]
      /\ version' = version
  BY DEF PushBack
<1>2. key \in Keys /\ key # Null
  BY KeyFacts
<1>3. tail \in Keys \union {Null} /\ list[q].head \in Keys \union {Null} /\ list[q].len \in Nat
  BY DEF QueueTypeOK, Lists
<1>4. newcomer \in Nodes /\ newcomer # Null
  BY <1>3, QueueAssumption DEF Nodes
<1>5. list' \in [Queues -> Lists]
  BY <1>1, <1>2, <1>3 DEF QueueTypeOK, Lists
<1>6. ASSUME NEW c \in Cells, tail # Null, KeyOf(c) = tail
      PROVE  node[c] \in Nodes
  <2>1. PICK d \in Members(q) : tail = KeyOf(d)
    BY <1>6 DEF TailOK
  <2>2. c = d
    BY <2>1, <1>6, KeyFacts DEF Members
  <2> QED
    BY <2>1, <2>2 DEF Members, QueueTypeOK
<1>7. ASSUME NEW c \in Cells, c # cell
      PROVE  /\ node'[c] \in Nodes \union {Null}
             /\ node'[c] = Null <=> node[c] = Null
             /\ node[c] # Null =>
                  /\ node'[c].client = node[c].client
                  /\ node'[c].arrival = node[c].arrival
                  /\ node'[c].queue = node[c].queue
                  /\ node'[c].previous = node[c].previous
                  /\ node'[c].next = (IF KeyOf(c) = tail THEN key ELSE node[c].next)
  <2>1. CASE tail # Null /\ KeyOf(c) = tail
    <3>1. node'[c] = [node[c] EXCEPT !.next = key]
      BY <1>1, <1>7, <2>1
    <3>2. node[c] \in Nodes /\ node[c] # Null
      BY <2>1, <1>6, NodeParts
    <3>3. /\ node'[c] \in Nodes /\ node'[c] # Null /\ node'[c].next = key
          /\ node'[c].client = node[c].client /\ node'[c].arrival = node[c].arrival
          /\ node'[c].queue = node[c].queue /\ node'[c].previous = node[c].previous
      <4> HIDE DEF key
      <4> QED
        BY <3>1, <3>2, <1>2, NodeNext
    <3> QED
      BY <3>2, <3>3, <2>1
  <2>2. CASE ~(tail # Null /\ KeyOf(c) = tail)
    <3>1. node'[c] = node[c]
      BY <1>1, <1>7, <2>2
    <3>2. KeyOf(c) # tail
      BY <2>2, KeyFacts
    <3> QED
      BY <3>1, <3>2 DEF QueueTypeOK
  <2> QED
    BY <2>1, <2>2
<1>8. node'[cell] = newcomer
  BY <1>1
<1>9. node' \in [Cells -> Nodes \union {Null}]
  <2>1. node' = [c \in Cells |-> node'[c]]
    BY <1>1
  <2> QED
    BY <2>1, <1>4, <1>7, <1>8
<1>10. list'[q] = [head |-> IF tail = Null THEN key ELSE list[q].head,
                   tail |-> key, len |-> list[q].len + 1]
       /\ \A r \in Queues : r # q => list'[r] = list[r]
  BY <1>1 DEF QueueTypeOK
<1> QED
  BY <1>1, <1>4, <1>5, <1>7, <1>8, <1>9, <1>10

\* Arrival stamps are behind the counter.
Stamped == \A c \in Cells : node[c] # Null => node[c].arrival < nextArrival

\* A newcomer at the back keeps every list linked.
LEMMA PushBackKeepsLinks ==
  ASSUME QueueTypeOK, Stamped, LinksConsistent,
         NEW q \in Queues, NEW cell \in Cells, NEW client \in Clients,
         nextArrival \in Arrivals, PushBack(q, cell, client)
  PROVE  LinksConsistent'
<1>1. \A r \in Queues : LinkedAt(r)
  BY LinksPointwise DEF Linked
<1>2. \A r \in Queues : TailOK(r)
  BY <1>1 DEF LinkedAt
<1>3. /\ version' = version
      /\ node[cell] = Null /\ node'[cell] \in Nodes /\ node'[cell] # Null
      /\ node'[cell].arrival = nextArrival /\ node'[cell].queue = q
      /\ node'[cell].previous = list[q].tail /\ node'[cell].next = Null
      /\ list'[q].head = (IF list[q].tail = Null THEN KeyOf(cell) ELSE list[q].head)
      /\ list'[q].tail = KeyOf(cell)
      /\ list'[q].len = list[q].len + 1
      /\ \A r \in Queues : r # q => list'[r] = list[r]
      /\ \A c \in Cells :
           c # cell =>
             /\ node'[c] = Null <=> node[c] = Null
             /\ node[c] # Null =>
                  /\ node'[c].arrival = node[c].arrival
                  /\ node'[c].queue = node[c].queue
                  /\ node'[c].previous = node[c].previous
                  /\ node'[c].next = (IF KeyOf(c) = list[q].tail THEN KeyOf(cell)
                                     ELSE node[c].next)
  BY <1>2, PushBackEffect, NodeParts
<1>4. \A c \in Cells : KeyOf(c)' = KeyOf(c)
  BY <1>3 DEF KeyOf
<1>5. /\ Members(q)' = Members(q) \union {cell} /\ cell \notin Members(q)
      /\ \A r \in Queues : r # q => Members(r)' = Members(r)
  BY <1>3 DEF Members
<1>6. ASSUME NEW r \in Queues, NEW c \in Members(r)
      PROVE  /\ c \in Cells /\ c # cell /\ node[c] # Null /\ node[c].queue = r
             /\ node[c].arrival \in Nat /\ node[c].arrival < nextArrival
             /\ node'[c].arrival = node[c].arrival
  BY <1>3, NodeParts DEF Members, QueueTypeOK, Stamped, Arrivals
<1>7. ASSUME NEW r \in Queues, NEW c \in Members(r), NEW d \in Members(r)
      PROVE  Before(c, d)' <=> Before(c, d)
  BY <1>6 DEF Before
<1>8. ASSUME NEW c \in Members(q)
      PROVE  Before(c, cell)' /\ ~Before(cell, c)'
  <2>1. nextArrival \in Nat
    BY DEF Arrivals
  <2> QED
    BY <2>1, <1>3, <1>6 DEF Before
<1>9. ~Before(cell, cell)'
  BY <1>3 DEF Before, Arrivals
<1>10. ASSUME NEW r \in Queues, r # q
       PROVE  LinkedAt(r)'
  <2>1. Members(r)' = Members(r) /\ list'[r] = list[r] /\ LinkedAt(r)
    BY <1>10, <1>1, <1>3, <1>5
  <2>2. ASSUME NEW c \in Members(r)
        PROVE  node'[c].next = node[c].next /\ node'[c].previous = node[c].previous
    <3>1. KeyOf(c) # list[q].tail
      <4>1. ASSUME NEW d \in Members(q) PROVE KeyOf(c) # KeyOf(d)
        <5>1. c # d
          BY <1>6, <1>10
        <5> QED
          BY <5>1, <1>6, KeyFacts
      <4> QED
        BY <4>1, <1>2, <1>6, KeyFacts DEF TailOK
    <3> QED
      BY <3>1, <1>3, <1>6
  <2>3. HeadOK(r)' /\ TailOK(r)'
    BY <2>1, <1>4, <1>6, <1>7 DEF LinkedAt, HeadOK, TailOK
  <2>4. ASSUME NEW c \in Members(r)
        PROVE  NextOK(r, c)' /\ PreviousOK(r, c)'
    <3>1. NextOK(r, c) /\ PreviousOK(r, c)
      BY <2>1 DEF LinkedAt
    <3>2. NextOK(r, c)'
      BY <3>1, <2>1, <2>2, <1>4, <1>6, <1>7 DEF NextOK
    <3>3. PreviousOK(r, c)'
      BY <3>1, <2>1, <2>2, <1>4, <1>6, <1>7 DEF PreviousOK
    <3> QED
      BY <3>2, <3>3
  <2> QED
    BY <2>1, <2>3, <2>4 DEF LinkedAt
<1>11. LinkedAt(q)'
  <2>1. LinkedAt(q)
    BY <1>1
  <2>2. list[q].tail = Null <=> Members(q) = {}
    BY <2>1, <1>6, KeyFacts DEF LinkedAt, TailOK
  <2>3. HeadOK(q)'
    <3>1. CASE Members(q) = {}
      BY <3>1, <2>2, <1>3, <1>4, <1>5 DEF HeadOK
    <3>2. CASE Members(q) # {}
      <4>1. PICK c \in Members(q) : /\ list[q].head = KeyOf(c)
                                   /\ \A d \in Members(q) : d = c \/ Before(c, d)
        BY <3>2, <2>1 DEF LinkedAt, HeadOK
      <4>2. list'[q].head = KeyOf(c)'
        BY <4>1, <3>2, <2>2, <1>3, <1>4, <1>6
      <4>3. \A d \in Members(q)' : d = c \/ Before(c, d)'
        BY <4>1, <1>5, <1>7, <1>8
      <4> QED
        BY <4>2, <4>3, <1>5 DEF HeadOK
    <3> QED
      BY <3>1, <3>2
  <2>4. TailOK(q)'
    <3>1. \A d \in Members(q)' : d = cell \/ Before(d, cell)'
      BY <1>5, <1>8
    <3> QED
      BY <3>1, <1>3, <1>4, <1>5 DEF TailOK
  <2>5. list'[q].len = Cardinality(Members(q)')
    <3>1. IsFiniteSet(Members(q))
      BY QueueAssumption, FS_Subset DEF Members
    <3>2. Cardinality(Members(q) \union {cell}) = Cardinality(Members(q)) + 1
      BY <3>1, <1>5, FS_AddElement
    <3>3. list[q].len = Cardinality(Members(q))
      BY <2>1 DEF LinkedAt
    <3> QED
      BY <3>2, <3>3, <1>3, <1>5
  <2>6. NextOK(q, cell)' /\ PreviousOK(q, cell)'
    <3>1. NextOK(q, cell)'
      BY <1>3, <1>5, <1>8, <1>9 DEF NextOK
    <3>2. CASE Members(q) = {}
      <4>1. \A d \in Members(q)' : d = cell
        BY <3>2, <1>5
      <4>2. node'[cell].previous = Null
        BY <3>2, <2>2, <1>3
      <4>3. PreviousOK(q, cell)'
        BY <4>1, <4>2, <1>9 DEF PreviousOK
      <4> QED
        BY <3>1, <4>3
    <3>3. CASE Members(q) # {}
      <4>1. PICK d \in Members(q) : /\ list[q].tail = KeyOf(d)
                                   /\ \A e \in Members(q) : e = d \/ Before(e, d)
        BY <3>3, <2>1 DEF LinkedAt, TailOK
      <4>2. node'[cell].previous = KeyOf(d)' /\ Before(d, cell)' /\ d \in Members(q)'
        BY <4>1, <1>3, <1>4, <1>5, <1>6, <1>8
      <4>3. \A e \in Members(q)' : Before(e, cell)' => e = d \/ Before(e, d)'
        BY <4>1, <1>5, <1>7, <1>9
      <4> QED
        BY <3>1, <4>2, <4>3 DEF PreviousOK
    <3> QED
      BY <3>1, <3>2, <3>3
  <2>7. ASSUME NEW c \in Members(q)
        PROVE  NextOK(q, c)' /\ PreviousOK(q, c)'
    <3>1. NextOK(q, c) /\ PreviousOK(q, c)
      BY <2>1 DEF LinkedAt
    <3>2. PICK t \in Members(q) : /\ list[q].tail = KeyOf(t)
                                 /\ \A e \in Members(q) : e = t \/ Before(e, t)
      BY <2>1 DEF LinkedAt, TailOK
    <3>3. PreviousOK(q, c)'
      <4>1. node'[c].previous = node[c].previous
        BY <1>3, <1>6
      <4>2. CASE node[c].previous = Null /\ \A d \in Members(q) : ~Before(d, c)
        BY <4>1, <4>2, <1>5, <1>7, <1>8 DEF PreviousOK
      <4>3. ASSUME NEW d \in Members(q), node[c].previous = KeyOf(d), Before(d, c),
                   \A e \in Members(q) : Before(e, c) => e = d \/ Before(e, d)
            PROVE  PreviousOK(q, c)'
        <5>1. d \in Members(q)' /\ node'[c].previous = KeyOf(d)' /\ Before(d, c)'
          BY <4>1, <4>3, <1>4, <1>5, <1>6, <1>7
        <5>2. \A e \in Members(q)' : Before(e, c)' => e = d \/ Before(e, d)'
          BY <4>3, <1>5, <1>7, <1>8
        <5> QED
          BY <5>1, <5>2 DEF PreviousOK
      <4> QED
        BY <3>1, <4>2, <4>3 DEF PreviousOK
    <3>4. CASE c = t
      <4>1. node'[c].next = KeyOf(cell)'
        BY <3>2, <3>4, <1>3, <1>4, <1>6
      <4>2. \A e \in Members(q)' : Before(c, e)' => e = cell
        <5>1. ASSUME NEW e \in Members(q) PROVE ~Before(c, e)'
          <6>1. e = c \/ Before(e, c)
            BY <3>2, <3>4
          <6>2. ~Before(c, e)
            BY <6>1, <1>6 DEF Before
          <6> QED
            BY <6>2, <1>7
        <5> QED
          BY <5>1, <1>5
      <4>3. NextOK(q, c)'
        BY <4>1, <4>2, <1>5, <1>8 DEF NextOK
      <4> QED
        BY <3>3, <4>3
    <3>5. CASE c # t
      <4>1. node'[c].next = node[c].next
        BY <3>2, <3>5, <1>3, <1>6, KeyFacts
      <4>2. Before(c, t)
        BY <3>2, <3>5
      <4>3. PICK d \in Members(q) : /\ node[c].next = KeyOf(d) /\ Before(c, d)
                                   /\ \A e \in Members(q) : Before(c, e) => e = d \/ Before(d, e)
        BY <4>2, <3>1 DEF NextOK
      <4>4. d \in Members(q)' /\ node'[c].next = KeyOf(d)' /\ Before(c, d)'
        BY <4>1, <4>3, <1>4, <1>5, <1>6, <1>7
      <4>5. \A e \in Members(q)' : Before(c, e)' => e = d \/ Before(d, e)'
        BY <4>3, <1>5, <1>7, <1>8
      <4>6. NextOK(q, c)'
        BY <4>4, <4>5 DEF NextOK
      <4> QED
        BY <3>3, <4>6
    <3> QED
      BY <3>4, <3>5
  <2> QED
    BY <2>3, <2>4, <2>5, <2>6, <2>7, <1>5 DEF LinkedAt
<1>12. \A r \in Queues : LinkedAt(r)'
  BY <1>10, <1>11
<1> QED
  BY <1>12, LinksPointwiseNext DEF Linked

-------------------------------------------------------------------------------
(* remove_key *)

\* No two resting orders share an arrival stamp.
DistinctStamps ==
  \A c, d \in Cells :
    node[c] # Null /\ node[d] # Null /\ node[c].arrival = node[d].arrival => c = d

\* Among the orders of a level arrival is a strict total order.
LEMMA ArrivalOrders ==
  ASSUME QueueTypeOK, DistinctStamps, NEW q \in Queues
  PROVE  /\ \A c \in Members(q) : ~Before(c, c)
         /\ \A c, d \in Members(q) : c = d \/ Before(c, d) \/ Before(d, c)
         /\ \A c, d \in Members(q) : Before(c, d) => ~Before(d, c)
         /\ \A c, d, e \in Members(q) : Before(c, d) /\ Before(d, e) => Before(c, e)
<1>1. \A c \in Members(q) : c \in Cells /\ node[c] # Null /\ node[c].arrival \in Nat
  BY NodeParts DEF Members, QueueTypeOK, Arrivals
<1>2. \A c, d \in Members(q) : node[c].arrival = node[d].arrival => c = d
  BY <1>1 DEF DistinctStamps
<1> QED
  BY <1>1, <1>2 DEF Before

\* What remove_key leaves behind: a vacant cell under a new version, and the
\* neighbours of the node that left linked to each other.
LEMMA RemoveEffect ==
  ASSUME QueueTypeOK, DistinctStamps, \A r \in Queues : LinkedAt(r),
         NEW key \in Keys, Live(key), NEW q \in Queues, node[key.cell].queue = q,
         RemoveKey(q, key)
  PROVE  LET x == key.cell
         IN  /\ x \in Members(q) /\ key = KeyOf(x)
             /\ node' \in [Cells -> Nodes \union {Null}]
             /\ list' \in [Queues -> Lists]
             /\ version' \in [Cells -> Nat]
             /\ node'[x] = Null /\ version'[x] = version[x] + 1
             /\ list'[q].head = (IF node[x].previous = Null THEN node[x].next ELSE list[q].head)
             /\ list'[q].tail = (IF node[x].next = Null THEN node[x].previous ELSE list[q].tail)
             /\ list'[q].len = list[q].len - 1
             /\ \A r \in Queues : r # q => list'[r] = list[r]
             /\ \A c \in Cells :
                  c # x =>
                    /\ version'[c] = version[c]
                    /\ node'[c] = Null <=> node[c] = Null
                    /\ node[c] # Null =>
                         /\ node'[c].client = node[c].client
                         /\ node'[c].arrival = node[c].arrival
                         /\ node'[c].queue = node[c].queue
                         /\ node'[c].next = (IF KeyOf(c) = node[x].previous THEN node[x].next
                                            ELSE node[c].next)
                         /\ node'[c].previous = (IF KeyOf(c) = node[x].next
                                                THEN node[x].previous ELSE node[c].previous)
<1> DEFINE x == key.cell
           removed == node[x]
<1>1. x \in Cells /\ node[x] # Null /\ key = KeyOf(x) /\ x \in Members(q)
  BY LiveFacts DEF Members
<1>2. removed \in Nodes
  BY <1>1 DEF QueueTypeOK
<1>3. removed.previous \in Keys \union {Null} /\ removed.next \in Keys \union {Null}
  BY <1>2, NodeParts
<1>4. /\ node' = [c \in Cells |->
                    IF c = x THEN Null
                    ELSE IF removed.previous # Null /\ KeyOf(c) = removed.previous
                    THEN [node[c] EXCEPT !.next = removed.next]
                    ELSE IF removed.next # Null /\ KeyOf(c) = removed.next
                    THEN [node[c] EXCEPT !.previous = removed.previous]
                    ELSE node[c]]
      /\ list' = [list EXCEPT ![q] =
                    [head |-> IF removed.previous = Null THEN removed.next ELSE list[q].head,
                     tail |-> IF removed.next = Null THEN removed.previous ELSE list[q].tail,
                     len  |-> list[q].len - 1]]
      /\ version' = [version EXCEPT ![x] = @ + 1]
  BY DEF RemoveKey
<1>5. LinkedAt(q) /\ NextOK(q, x) /\ PreviousOK(q, x)
  BY <1>1 DEF LinkedAt
<1>6. ASSUME NEW c \in Cells, KeyOf(c) = removed.previous
      PROVE  c \in Members(q) /\ Before(c, x)
  <2>1. PICK d \in Members(q) : removed.previous = KeyOf(d) /\ Before(d, x)
    BY <1>5, <1>6, KeyFacts DEF PreviousOK
  <2>2. c = d
    BY <2>1, <1>6, KeyFacts DEF Members
  <2> QED
    BY <2>1, <2>2
<1>7. ASSUME NEW c \in Cells, KeyOf(c) = removed.next
      PROVE  c \in Members(q) /\ Before(x, c)
  <2>1. PICK d \in Members(q) : removed.next = KeyOf(d) /\ Before(x, d)
    BY <1>5, <1>7, KeyFacts DEF NextOK
  <2>2. c = d
    BY <2>1, <1>7, KeyFacts DEF Members
  <2> QED
    BY <2>1, <2>2
<1>8. ASSUME NEW c \in Cells
      PROVE  ~(KeyOf(c) = removed.previous /\ KeyOf(c) = removed.next)
  BY <1>1, <1>6, <1>7, ArrivalOrders
<1>9. ASSUME NEW c \in Cells, c # x
      PROVE  /\ node'[c] \in Nodes \union {Null}
             /\ node'[c] = Null <=> node[c] = Null
             /\ node[c] # Null =>
                  /\ node'[c].client = node[c].client
                  /\ node'[c].arrival = node[c].arrival
                  /\ node'[c].queue = node[c].queue
                  /\ node'[c].next = (IF KeyOf(c) = removed.previous THEN removed.next
                                     ELSE node[c].next)
                  /\ node'[c].previous = (IF KeyOf(c) = removed.next THEN removed.previous
                                         ELSE node[c].previous)
  <2>1. KeyOf(c) # Null
    BY KeyFacts
  <2>2. CASE KeyOf(c) = removed.previous
    <3>1. node'[c] = [node[c] EXCEPT !.next = removed.next]
      BY <1>4, <1>9, <2>1, <2>2
    <3>2. node[c] \in Nodes /\ node[c] # Null
      BY <2>2, <1>6 DEF Members, QueueTypeOK
    <3>3. /\ node'[c] \in Nodes /\ node'[c] # Null /\ node'[c].next = removed.next
          /\ node'[c].client = node[c].client /\ node'[c].arrival = node[c].arrival
          /\ node'[c].queue = node[c].queue /\ node'[c].previous = node[c].previous
      <4> HIDE DEF removed
      <4> QED
        BY <3>1, <3>2, <1>3, NodeNext
    <3> QED
      BY <3>2, <3>3, <2>2, <1>8
  <2>3. CASE KeyOf(c) = removed.next
    <3>1. node'[c] = [node[c] EXCEPT !.previous = removed.previous]
      BY <1>4, <1>8, <1>9, <2>1, <2>3
    <3>2. node[c] \in Nodes /\ node[c] # Null
      BY <2>3, <1>7 DEF Members, QueueTypeOK
    <3>3. /\ node'[c] \in Nodes /\ node'[c] # Null /\ node'[c].previous = removed.previous
          /\ node'[c].client = node[c].client /\ node'[c].arrival = node[c].arrival
          /\ node'[c].queue = node[c].queue /\ node'[c].next = node[c].next
      <4> HIDE DEF removed
      <4> QED
        BY <3>1, <3>2, <1>3, NodePrevious
    <3> QED
      BY <3>2, <3>3, <2>3, <1>8
  <2>4. CASE KeyOf(c) # removed.previous /\ KeyOf(c) # removed.next
    <3>1. node'[c] = node[c]
      BY <1>4, <1>9, <2>4
    <3> QED
      BY <3>1, <2>4 DEF QueueTypeOK
  <2> QED
    BY <2>2, <2>3, <2>4
<1>10. node'[x] = Null
  BY <1>1, <1>4
<1>11. node' \in [Cells -> Nodes \union {Null}]
  <2>1. node' = [c \in Cells |-> node'[c]]
    BY <1>4
  <2> QED
    BY <2>1, <1>9, <1>10
<1>12. /\ version' \in [Cells -> Nat] /\ version'[x] = version[x] + 1
       /\ \A c \in Cells : c # x => version'[c] = version[c]
  BY <1>1, <1>4 DEF QueueTypeOK
<1>13. list[q].len - 1 \in Nat
  <2>1. IsFiniteSet(Members(q))
    BY QueueAssumption, FS_Subset DEF Members
  <2>2. Cardinality(Members(q)) \in Nat /\ Cardinality(Members(q)) # 0
    BY <2>1, <1>1, FS_CardinalityType, FS_EmptySet
  <2>3. list[q].len = Cardinality(Members(q))
    BY <1>5 DEF LinkedAt
  <2> QED
    BY <2>2, <2>3
<1>14. list[q].head \in Keys \union {Null} /\ list[q].tail \in Keys \union {Null}
  BY DEF QueueTypeOK, Lists
<1>15. list' \in [Queues -> Lists]
  BY <1>3, <1>4, <1>13, <1>14 DEF QueueTypeOK, Lists
<1>16. list'[q] = [head |-> IF removed.previous = Null THEN removed.next ELSE list[q].head,
                   tail |-> IF removed.next = Null THEN removed.previous ELSE list[q].tail,
                   len  |-> list[q].len - 1]
       /\ \A r \in Queues : r # q => list'[r] = list[r]
  BY <1>4 DEF QueueTypeOK
<1> QED
  BY <1>1, <1>9, <1>10, <1>11, <1>12, <1>15, <1>16

\* An order that leaves, from the front, the back or the middle, leaves every
\* list linked.
LEMMA RemoveKeepsLinks ==
  ASSUME QueueTypeOK, DistinctStamps, LinksConsistent,
         NEW key \in Keys, Live(key), NEW q \in Queues, node[key.cell].queue = q,
         RemoveKey(q, key)
  PROVE  LinksConsistent'
<1> DEFINE x == key.cell
<1>1. \A r \in Queues : LinkedAt(r)
  BY LinksPointwise DEF Linked
<1>2. /\ x \in Members(q) /\ key = KeyOf(x)
      /\ node'[x] = Null
      /\ list'[q].head = (IF node[x].previous = Null THEN node[x].next ELSE list[q].head)
      /\ list'[q].tail = (IF node[x].next = Null THEN node[x].previous ELSE list[q].tail)
      /\ list'[q].len = list[q].len - 1
      /\ \A r \in Queues : r # q => list'[r] = list[r]
      /\ \A c \in Cells :
           c # x =>
             /\ version'[c] = version[c]
             /\ node'[c] = Null <=> node[c] = Null
             /\ node[c] # Null =>
                  /\ node'[c].arrival = node[c].arrival
                  /\ node'[c].queue = node[c].queue
                  /\ node'[c].next = (IF KeyOf(c) = node[x].previous THEN node[x].next
                                     ELSE node[c].next)
                  /\ node'[c].previous = (IF KeyOf(c) = node[x].next THEN node[x].previous
                                         ELSE node[c].previous)
  BY <1>1, RemoveEffect
<1>3. x \in Cells
  BY <1>2 DEF Members
<1> HIDE DEF x
<1>4. \A c \in Cells : c # x => KeyOf(c)' = KeyOf(c)
  BY <1>2 DEF KeyOf
<1>5. /\ Members(q)' = Members(q) \ {x}
      /\ \A r \in Queues : r # q => Members(r)' = Members(r) /\ x \notin Members(r)
  BY <1>2, <1>3 DEF Members
<1>6. ASSUME NEW r \in Queues, NEW c \in Members(r), c # x
      PROVE  /\ c \in Cells /\ node[c] # Null /\ node[c].queue = r
             /\ node'[c].arrival = node[c].arrival
             /\ KeyOf(c)' = KeyOf(c) /\ KeyOf(c) # Null
  BY <1>2, <1>4, <1>6, KeyFacts DEF Members
<1>7. ASSUME NEW r \in Queues, NEW c \in Members(r), NEW d \in Members(r), c # x, d # x
      PROVE  Before(c, d)' <=> Before(c, d)
  BY <1>6, <1>7 DEF Before
<1>8. ASSUME NEW r \in Queues, r # q
      PROVE  LinkedAt(r)'
  <2>1. Members(r)' = Members(r) /\ list'[r] = list[r] /\ LinkedAt(r) /\ x \notin Members(r)
    BY <1>1, <1>2, <1>5, <1>8
  <2>2. ASSUME NEW c \in Members(r)
        PROVE  node'[c].next = node[c].next /\ node'[c].previous = node[c].previous
    <3>1. ASSUME NEW d \in Members(q) PROVE KeyOf(c) # KeyOf(d)
      <4>1. c \in Cells /\ d \in Cells /\ c # d
        BY <1>8 DEF Members
      <4> QED
        BY <4>1, KeyFacts
    <3>2. NextOK(q, x) /\ PreviousOK(q, x) /\ KeyOf(c) # Null /\ c \in Cells /\ c # x
      BY <1>1, <1>2, <1>6, <2>1 DEF LinkedAt
    <3>3. KeyOf(c) # node[x].next
      BY <3>1, <3>2 DEF NextOK
    <3>4. KeyOf(c) # node[x].previous
      BY <3>1, <3>2 DEF PreviousOK
    <3> QED
      BY <3>2, <3>3, <3>4, <1>2, <1>6
  <2>3. HeadOK(r)' /\ TailOK(r)'
    BY <2>1, <1>6, <1>7 DEF LinkedAt, HeadOK, TailOK
  <2>4. ASSUME NEW c \in Members(r)
        PROVE  NextOK(r, c)' /\ PreviousOK(r, c)'
    <3>1. NextOK(r, c) /\ PreviousOK(r, c)
      BY <2>1 DEF LinkedAt
    <3>2. NextOK(r, c)'
      BY <3>1, <2>1, <2>2, <1>6, <1>7 DEF NextOK
    <3>3. PreviousOK(r, c)'
      BY <3>1, <2>1, <2>2, <1>6, <1>7 DEF PreviousOK
    <3> QED
      BY <3>2, <3>3
  <2> QED
    BY <2>1, <2>3, <2>4 DEF LinkedAt
<1>9. LinkedAt(q)'
  <2> DEFINE M == Members(q)
  <2>1. LinkedAt(q) /\ NextOK(q, x) /\ PreviousOK(q, x)
    BY <1>1, <1>2 DEF LinkedAt
  <2>2. /\ \A c \in M : ~Before(c, c)
        /\ \A c, d \in M : c = d \/ Before(c, d) \/ Before(d, c)
        /\ \A c, d \in M : Before(c, d) => ~Before(d, c)
        /\ \A c, d, e \in M : Before(c, d) /\ Before(d, e) => Before(c, e)
    BY ArrivalOrders
  <2>3. /\ M' = M \ {x} /\ x \in M
        /\ \A c, d \in M' : Before(c, d)' <=> Before(c, d)
        /\ \A c \in M' : KeyOf(c)' = KeyOf(c) /\ KeyOf(c) # Null
    BY <1>2, <1>5, <1>6, <1>7
  <2>4. \A c, d \in M : KeyOf(c) = KeyOf(d) => c = d
    BY KeyFacts DEF Members
  <2>5. \A c \in M : KeyOf(c) # Null
    BY KeyFacts DEF Members
  <2> HIDE DEF M
  <2>6. HeadOK(q)'
    <3>1. CASE node[x].previous = Null
      <4>1. \A c \in M' : Before(x, c)
        BY <2>1, <2>2, <2>3, <2>5, <3>1 DEF PreviousOK, M
      <4>2. list'[q].head = node[x].next
        BY <1>2, <3>1
      <4>3. CASE node[x].next = Null
        BY <4>1, <4>2, <4>3, <2>1, <2>3, <2>5 DEF NextOK, HeadOK, M
      <4>4. CASE node[x].next # Null
        <5>1. PICK d \in M : /\ node[x].next = KeyOf(d) /\ Before(x, d)
                             /\ \A e \in M : Before(x, e) => e = d \/ Before(d, e)
          BY <4>4, <2>1 DEF NextOK, M
        <5>2. d \in M' /\ list'[q].head = KeyOf(d)'
          BY <5>1, <4>2, <2>2, <2>3
        <5>3. \A e \in M' : e = d \/ Before(d, e)'
          BY <5>1, <5>2, <4>1, <2>3
        <5> QED
          BY <5>2, <5>3 DEF HeadOK, M
      <4> QED
        BY <4>3, <4>4
    <3>2. CASE node[x].previous # Null
      <4>1. PICK p \in M : Before(p, x)
        BY <3>2, <2>1 DEF PreviousOK, M
      <4>2. PICK c \in M : list[q].head = KeyOf(c) /\ \A d \in M : d = c \/ Before(c, d)
        BY <4>1, <2>1 DEF LinkedAt, HeadOK, M
      <4>3. c # x
        BY <4>1, <4>2, <2>2
      <4>4. c \in M' /\ list'[q].head = KeyOf(c)'
        BY <4>2, <4>3, <3>2, <1>2, <2>3
      <4>5. \A d \in M' : d = c \/ Before(c, d)'
        BY <4>2, <4>4, <2>3
      <4> QED
        BY <4>4, <4>5 DEF HeadOK, M
    <3> QED
      BY <3>1, <3>2
  <2>7. TailOK(q)'
    <3>1. CASE node[x].next = Null
      <4>1. \A c \in M' : Before(c, x)
        BY <2>1, <2>2, <2>3, <2>5, <3>1 DEF NextOK, M
      <4>2. list'[q].tail = node[x].previous
        BY <1>2, <3>1
      <4>3. CASE node[x].previous = Null
        BY <4>1, <4>2, <4>3, <2>1, <2>3, <2>5 DEF PreviousOK, TailOK, M
      <4>4. CASE node[x].previous # Null
        <5>1. PICK d \in M : /\ node[x].previous = KeyOf(d) /\ Before(d, x)
                             /\ \A e \in M : Before(e, x) => e = d \/ Before(e, d)
          BY <4>4, <2>1 DEF PreviousOK, M
        <5>2. d \in M' /\ list'[q].tail = KeyOf(d)'
          BY <5>1, <4>2, <2>2, <2>3
        <5>3. \A e \in M' : e = d \/ Before(e, d)'
          BY <5>1, <5>2, <4>1, <2>3
        <5> QED
          BY <5>2, <5>3 DEF TailOK, M
      <4> QED
        BY <4>3, <4>4
    <3>2. CASE node[x].next # Null
      <4>1. PICK p \in M : Before(x, p)
        BY <3>2, <2>1 DEF NextOK, M
      <4>2. PICK c \in M : list[q].tail = KeyOf(c) /\ \A d \in M : d = c \/ Before(d, c)
        BY <4>1, <2>1 DEF LinkedAt, TailOK, M
      <4>3. c # x
        BY <4>1, <4>2, <2>2
      <4>4. c \in M' /\ list'[q].tail = KeyOf(c)'
        BY <4>2, <4>3, <3>2, <1>2, <2>3
      <4>5. \A d \in M' : d = c \/ Before(d, c)'
        BY <4>2, <4>4, <2>3
      <4> QED
        BY <4>4, <4>5 DEF TailOK, M
    <3> QED
      BY <3>1, <3>2
  <2>8. list'[q].len = Cardinality(M')
    <3>1. IsFiniteSet(M)
      BY QueueAssumption, FS_Subset DEF Members, M
    <3>2. Cardinality(M \ {x}) = Cardinality(M) - 1
      BY <3>1, <2>3, FS_RemoveElement
    <3>3. list[q].len = Cardinality(M)
      BY <2>1 DEF LinkedAt, M
    <3> QED
      BY <3>2, <3>3, <1>2, <2>3
  <2>9. ASSUME NEW c \in M'
        PROVE  NextOK(q, c)'
    <3>1. c \in M /\ c # x /\ NextOK(q, c) /\ c \in Cells /\ node[c] # Null
      BY <2>1, <2>3 DEF LinkedAt, M, Members
    <3>2. CASE KeyOf(c) = node[x].previous
      <4>1. node'[c].next = node[x].next
        BY <3>1, <3>2, <1>2
      <4>2. Before(c, x) /\ \A e \in M : Before(e, x) => e = c \/ Before(e, c)
        BY <3>1, <3>2, <2>1, <2>4, <2>5 DEF PreviousOK, M
      <4>3. \A e \in M' : Before(c, e) => Before(x, e)
        BY <3>1, <4>2, <2>2, <2>3
      <4>4. CASE node[x].next = Null
        <5>1. \A d \in M : ~Before(x, d)
          BY <4>4, <2>1, <2>5 DEF NextOK, M
        <5>2. \A d \in M' : ~Before(c, d)'
          BY <5>1, <4>3, <2>3
        <5> QED
          BY <5>2, <4>1, <4>4 DEF NextOK, M
      <4>5. CASE node[x].next # Null
        <5>1. PICK d \in M : /\ node[x].next = KeyOf(d) /\ Before(x, d)
                             /\ \A e \in M : Before(x, e) => e = d \/ Before(d, e)
          BY <4>5, <2>1 DEF NextOK, M
        <5>2. d \in M' /\ node'[c].next = KeyOf(d)'
          BY <5>1, <4>1, <2>2, <2>3
        <5>3. Before(c, d)'
          BY <5>1, <5>2, <4>2, <3>1, <2>2, <2>3
        <5>4. \A e \in M' : Before(c, e)' => e = d \/ Before(d, e)'
          BY <5>1, <5>2, <4>3, <2>3
        <5> QED
          BY <5>2, <5>3, <5>4 DEF NextOK, M
      <4> QED
        BY <4>4, <4>5
    <3>3. CASE KeyOf(c) # node[x].previous
      <4>1. node'[c].next = node[c].next
        BY <3>1, <3>3, <1>2
      <4>2. CASE node[c].next = Null
        <5>1. \A d \in M' : ~Before(c, d)'
          BY <4>2, <3>1, <2>3, <2>5 DEF NextOK, M
        <5> QED
          BY <5>1, <4>1, <4>2 DEF NextOK, M
      <4>3. CASE node[c].next # Null
        <5>1. PICK d \in M : /\ node[c].next = KeyOf(d) /\ Before(c, d)
                             /\ \A e \in M : Before(c, e) => e = d \/ Before(d, e)
          BY <4>3, <3>1 DEF NextOK, M
        <5>2. d # x
          <6>1. SUFFICES ASSUME d = x PROVE FALSE
            OBVIOUS
          <6>2. PICK p \in M : /\ node[x].previous = KeyOf(p) /\ Before(p, x)
                               /\ \A e \in M : Before(e, x) => e = p \/ Before(e, p)
            BY <6>1, <5>1, <3>1, <2>1 DEF PreviousOK, M
          <6>3. Before(c, p)
            BY <6>1, <6>2, <5>1, <3>1, <3>3
          <6> QED
            BY <6>1, <6>2, <6>3, <5>1, <2>2
        <5>3. d \in M' /\ node'[c].next = KeyOf(d)' /\ Before(c, d)'
          BY <5>1, <5>2, <4>1, <2>3
        <5>4. \A e \in M' : Before(c, e)' => e = d \/ Before(d, e)'
          BY <5>1, <5>3, <2>3
        <5> QED
          BY <5>3, <5>4 DEF NextOK, M
      <4> QED
        BY <4>2, <4>3
    <3> QED
      BY <3>2, <3>3
  <2>10. ASSUME NEW c \in M'
         PROVE  PreviousOK(q, c)'
    <3>1. c \in M /\ c # x /\ PreviousOK(q, c) /\ c \in Cells /\ node[c] # Null
      BY <2>1, <2>3 DEF LinkedAt, M, Members
    <3>2. CASE KeyOf(c) = node[x].next
      <4>1. node'[c].previous = node[x].previous
        BY <3>1, <3>2, <1>2
      <4>2. Before(x, c) /\ \A e \in M : Before(x, e) => e = c \/ Before(c, e)
        BY <3>1, <3>2, <2>1, <2>4, <2>5 DEF NextOK, M
      <4>3. \A e \in M' : Before(e, c) => Before(e, x)
        BY <3>1, <4>2, <2>2, <2>3
      <4>4. CASE node[x].previous = Null
        <5>1. \A d \in M : ~Before(d, x)
          BY <4>4, <2>1, <2>5 DEF PreviousOK, M
        <5>2. \A d \in M' : ~Before(d, c)'
          BY <5>1, <4>3, <2>3
        <5> QED
          BY <5>2, <4>1, <4>4 DEF PreviousOK, M
      <4>5. CASE node[x].previous # Null
        <5>1. PICK d \in M : /\ node[x].previous = KeyOf(d) /\ Before(d, x)
                             /\ \A e \in M : Before(e, x) => e = d \/ Before(e, d)
          BY <4>5, <2>1 DEF PreviousOK, M
        <5>2. d \in M' /\ node'[c].previous = KeyOf(d)'
          BY <5>1, <4>1, <2>2, <2>3
        <5>3. Before(d, c)'
          BY <5>1, <5>2, <4>2, <3>1, <2>2, <2>3
        <5>4. \A e \in M' : Before(e, c)' => e = d \/ Before(e, d)'
          BY <5>1, <5>2, <4>3, <2>3
        <5> QED
          BY <5>2, <5>3, <5>4 DEF PreviousOK, M
      <4> QED
        BY <4>4, <4>5
    <3>3. CASE KeyOf(c) # node[x].next
      <4>1. node'[c].previous = node[c].previous
        BY <3>1, <3>3, <1>2
      <4>2. CASE node[c].previous = Null
        <5>1. \A d \in M' : ~Before(d, c)'
          BY <4>2, <3>1, <2>3, <2>5 DEF PreviousOK, M
        <5> QED
          BY <5>1, <4>1, <4>2 DEF PreviousOK, M
      <4>3. CASE node[c].previous # Null
        <5>1. PICK d \in M : /\ node[c].previous = KeyOf(d) /\ Before(d, c)
                             /\ \A e \in M : Before(e, c) => e = d \/ Before(e, d)
          BY <4>3, <3>1 DEF PreviousOK, M
        <5>2. d # x
          <6>1. SUFFICES ASSUME d = x PROVE FALSE
            OBVIOUS
          <6>2. PICK p \in M : /\ node[x].next = KeyOf(p) /\ Before(x, p)
                               /\ \A e \in M : Before(x, e) => e = p \/ Before(p, e)
            BY <6>1, <5>1, <3>1, <2>1 DEF NextOK, M
          <6>3. Before(p, c)
            BY <6>1, <6>2, <5>1, <3>1, <3>3
          <6> QED
            BY <6>1, <6>2, <6>3, <5>1, <2>2
        <5>3. d \in M' /\ node'[c].previous = KeyOf(d)' /\ Before(d, c)'
          BY <5>1, <5>2, <4>1, <2>3
        <5>4. \A e \in M' : Before(e, c)' => e = d \/ Before(e, d)'
          BY <5>1, <5>3, <2>3
        <5> QED
          BY <5>3, <5>4 DEF PreviousOK, M
      <4> QED
        BY <4>2, <4>3
    <3> QED
      BY <3>2, <3>3
  <2> QED
    BY <2>6, <2>7, <2>8, <2>9, <2>10 DEF LinkedAt, M
<1>10. \A r \in Queues : LinkedAt(r)'
  BY <1>8, <1>9
<1> QED
  BY <1>10, LinksPointwiseNext DEF Linked

-------------------------------------------------------------------------------
(* The inductive invariant *)

\* An order unlinked by a purge is nowhere in the arena.
PurgedGone == \A c \in Cells : node[c] # Null => node[c].arrival \notin purged

\* What the sweep's variables hold at each of its stages.
SweepState ==
  /\ pc = "idle" => at = Null /\ taker = Null
  /\ pc # "idle" => at \in Queues /\ taker \in Clients
  /\ pc \in {"idle", "purge"} => makers = <<>>
  /\ pc # "purge" => purged = {}
  /\ cursor # Null => /\ pc \in {"purge", "project"}
                      /\ Live(cursor) /\ node[cursor.cell].queue = at

\* The purge leaves none of the taker's own orders behind its cursor.
OwnPurged ==
  pc = "purge" =>
    \A c \in Members(at) :
      node[c].client = taker => cursor # Null /\ ~Before(c, cursor.cell)

\* The projection stays behind its cursor.
ProjectedBehind ==
  pc = "project" /\ cursor # Null =>
    \A i \in 1 .. Len(makers) : Before(makers[i].cell, cursor.cell)

QueueInv ==
  /\ QueueTypeOK /\ Stamped /\ PurgedGone
  /\ LinksConsistent /\ IndexLive
  /\ SweepState /\ OwnPurged /\ ProjectedBehind /\ ProjectionLive

\* Since every node has its index entry, no two share an arrival stamp.
LEMMA IndexTellsApart ==
  ASSUME QueueTypeOK, IndexLive
  PROVE  DistinctStamps
<1> SUFFICES ASSUME NEW c \in Cells, NEW d \in Cells, node[c] # Null, node[d] # Null,
                    node[c].arrival = node[d].arrival
             PROVE  c = d
  BY DEF DistinctStamps
<1>1. [queue |-> node[c].queue, key |-> KeyOf(c)] = [queue |-> node[d].queue, key |-> KeyOf(d)]
  BY DEF IndexLive
<1>2. KeyOf(c) = KeyOf(d)
  BY <1>1
<1> QED
  BY <1>2, KeyFacts

\* What the rest of the state makes of a departure.
LEMMA Departure ==
  ASSUME QueueInv, NEW key \in Keys, Live(key),
         NEW q \in Queues, node[key.cell].queue = q, RemoveKey(q, key)
  PROVE  LET x == key.cell
         IN  /\ x \in Cells /\ node[x] # Null /\ key = KeyOf(x) /\ node'[x] = Null
             /\ version' \in [Cells -> Nat]
             /\ node' \in [Cells -> Nodes \union {Null}]
             /\ list' \in [Queues -> Lists]
             /\ LinksConsistent'
             /\ \A c \in Cells :
                  c # x =>
                    /\ version'[c] = version[c] /\ KeyOf(c)' = KeyOf(c)
                    /\ node'[c] = Null <=> node[c] = Null
                    /\ node[c] # Null => /\ node'[c].client = node[c].client
                                         /\ node'[c].arrival = node[c].arrival
                                         /\ node'[c].queue = node[c].queue
             /\ \A r \in Queues, c \in Cells : c \in Members(r)' <=> c \in Members(r) /\ c # x
             /\ \A k \in Keys : Live(k)' <=> Live(k) /\ k.cell # x
             /\ \A c, d \in Cells :
                  node[c] # Null /\ node[d] # Null /\ c # x /\ d # x
                    => (Before(c, d)' <=> Before(c, d))
<1> DEFINE x == key.cell
<1>1. QueueTypeOK /\ LinksConsistent /\ DistinctStamps
  BY IndexTellsApart DEF QueueInv
<1>2. LinksConsistent'
  BY <1>1, RemoveKeepsLinks
<1>3. \A r \in Queues : LinkedAt(r)
  BY <1>1, LinksPointwise DEF Linked
<1>4. /\ x \in Members(q) /\ key = KeyOf(x)
      /\ node' \in [Cells -> Nodes \union {Null}]
      /\ list' \in [Queues -> Lists]
      /\ version' \in [Cells -> Nat]
      /\ node'[x] = Null /\ version'[x] = version[x] + 1
      /\ \A c \in Cells :
           c # x =>
             /\ version'[c] = version[c]
             /\ node'[c] = Null <=> node[c] = Null
             /\ node[c] # Null =>
                  /\ node'[c].client = node[c].client
                  /\ node'[c].arrival = node[c].arrival
                  /\ node'[c].queue = node[c].queue
  BY <1>1, <1>3, RemoveEffect
<1>5. x \in Cells /\ node[x] # Null
  BY <1>4 DEF Members
<1> HIDE DEF x
<1>6. \A c \in Cells : c # x => KeyOf(c)' = KeyOf(c)
  BY <1>4 DEF KeyOf
<1>7. \A r \in Queues, c \in Cells : c \in Members(r)' <=> c \in Members(r) /\ c # x
  BY <1>4 DEF Members
<1>8. \A k \in Keys : Live(k)' <=> Live(k) /\ k.cell # x
  BY <1>4 DEF Live, Keys
<1>9. \A c, d \in Cells :
        node[c] # Null /\ node[d] # Null /\ c # x /\ d # x => (Before(c, d)' <=> Before(c, d))
  BY <1>4 DEF Before
<1> QED
  BY <1>2, <1>4, <1>5, <1>6, <1>7, <1>8, <1>9 DEF x

\* When the entry goes with the order, the index stays exact.
LEMMA DepartureUnindexed ==
  ASSUME QueueInv, NEW key \in Keys, Live(key),
         NEW q \in Queues, node[key.cell].queue = q, RemoveKey(q, key),
         index' = [index EXCEPT ![node[key.cell].arrival] = Null],
         purged = {}, purged' = {}
  PROVE  IndexLive' /\ index' \in [Arrivals -> Entries \union {Null}]
<1> DEFINE x == key.cell
<1>1. /\ x \in Cells /\ node[x] # Null /\ key = KeyOf(x) /\ node'[x] = Null
      /\ \A c \in Cells :
           c # x =>
             /\ version'[c] = version[c] /\ KeyOf(c)' = KeyOf(c)
             /\ node'[c] = Null <=> node[c] = Null
             /\ node[c] # Null => /\ node'[c].arrival = node[c].arrival
                                  /\ node'[c].queue = node[c].queue
  BY Departure
<1>2. QueueTypeOK /\ IndexLive /\ DistinctStamps
  BY IndexTellsApart DEF QueueInv
<1>3. \A c \in Cells : node[c] # Null => node[c].arrival \in Arrivals
  BY <1>2, NodeParts DEF QueueTypeOK
<1>4. \A o \in Arrivals : index'[o] = (IF o = node[x].arrival THEN Null ELSE index[o])
  BY <1>1, <1>2, <1>3 DEF QueueTypeOK
<1>5. index' \in [Arrivals -> Entries \union {Null}]
  BY <1>2 DEF QueueTypeOK
<1> HIDE DEF x
<1>6. ASSUME NEW order \in Arrivals, index'[order] # Null
      PROVE  /\ node'[index'[order].key.cell] # Null
             /\ version'[index'[order].key.cell] = index'[order].key.version
             /\ node'[index'[order].key.cell].arrival = order
             /\ node'[index'[order].key.cell].queue = index'[order].queue
  <2>1. order # node[x].arrival /\ index'[order] = index[order] /\ index[order] # Null
    BY <1>4, <1>6
  <2>2. PICK c \in Cells : c = index[order].key.cell
    BY <1>2, <2>1 DEF QueueTypeOK, Entries, Keys
  <2>3. /\ node[c] # Null /\ version[c] = index[order].key.version
        /\ node[c].arrival = order /\ node[c].queue = index[order].queue
    BY <1>2, <2>1, <2>2 DEF IndexLive, Live
  <2>4. c # x
    BY <2>1, <2>3
  <2> QED
    BY <1>1, <2>1, <2>2, <2>3, <2>4
<1>7. ASSUME NEW c \in Cells, node'[c] # Null
      PROVE  index'[node'[c].arrival] = [queue |-> node'[c].queue, key |-> KeyOf(c)']
  <2>1. c # x /\ node[c] # Null
    BY <1>1, <1>7
  <2>2. node[c].arrival # node[x].arrival /\ node[c].arrival \in Arrivals
    BY <1>1, <1>2, <1>3, <2>1 DEF DistinctStamps
  <2>3. index[node[c].arrival] = [queue |-> node[c].queue, key |-> KeyOf(c)]
    BY <1>2, <2>1 DEF IndexLive
  <2> QED
    BY <1>1, <1>4, <2>1, <2>2, <2>3
<1> QED
  BY <1>5, <1>6, <1>7 DEF IndexLive, Live

-------------------------------------------------------------------------------
(* The engine's calls, one lemma each *)

LEMMA RestKeeps ==
  ASSUME QueueInv, NEW q \in Queues, NEW client \in Clients, Rest(q, client)
  PROVE  QueueInv'
<1>1. PICK cell \in Cells :
        /\ PushBack(q, cell, client)
        /\ index' = [index EXCEPT ![nextArrival] = [queue |-> q, key |-> KeyOf(cell)]]
  BY DEF Rest
<1>2. /\ pc = "idle" /\ nextArrival \in Arrivals /\ nextArrival' = nextArrival + 1
      /\ UNCHANGED sweepVars
  BY QueueAssumption DEF Rest, QueueInv, QueueTypeOK, Arrivals
<1>3. QueueTypeOK /\ Stamped /\ LinksConsistent /\ IndexLive /\ SweepState
  BY DEF QueueInv
<1>4. LinksConsistent'
  BY <1>1, <1>2, <1>3, PushBackKeepsLinks
<1>5. \A r \in Queues : TailOK(r)
  BY <1>3, LinksPointwise DEF Linked, LinkedAt
<1>6. /\ node' \in [Cells -> Nodes \union {Null}] /\ list' \in [Queues -> Lists]
      /\ version' = version /\ node[cell] = Null /\ node'[cell] # Null
      /\ node'[cell].arrival = nextArrival /\ node'[cell].queue = q
      /\ \A c \in Cells :
           c # cell =>
             /\ node'[c] = Null <=> node[c] = Null
             /\ node[c] # Null => /\ node'[c].arrival = node[c].arrival
                                  /\ node'[c].queue = node[c].queue
  BY <1>1, <1>2, <1>3, <1>5, PushBackEffect, NodeParts
<1>7. \A c \in Cells : node[c] # Null => node[c].arrival \in Arrivals
  BY <1>3, NodeParts DEF QueueTypeOK
<1>8. /\ KeyOf(cell) \in Keys
      /\ \A c \in Cells : KeyOf(c)' = KeyOf(c)
      /\ KeyOf(cell).cell = cell /\ KeyOf(cell).version = version[cell]
  BY <1>3, <1>6, KeyFacts DEF KeyOf
<1>9. [queue |-> q, key |-> KeyOf(cell)] \in Entries
  BY <1>8 DEF Entries
<1>10. /\ index' \in [Arrivals -> Entries \union {Null}]
       /\ index'[nextArrival] = [queue |-> q, key |-> KeyOf(cell)]
       /\ \A o \in Arrivals : o # nextArrival => index'[o] = index[o]
  BY <1>1, <1>2, <1>3, <1>9 DEF QueueTypeOK
<1>11. QueueTypeOK'
  <2>1. nextArrival' \in 1 .. MaxArrival
    BY <1>2, QueueAssumption DEF Arrivals
  <2>2. version' \in [Cells -> Nat]
    BY <1>3, <1>6 DEF QueueTypeOK
  <2> QED
    BY <2>1, <2>2, <1>2, <1>3, <1>6, <1>10 DEF QueueTypeOK, sweepVars
<1>12. purged = {} /\ purged' = {} /\ pc' = "idle" /\ cursor = Null /\ cursor' = Null
  BY <1>2, <1>3 DEF SweepState, sweepVars
<1>13. Stamped' /\ PurgedGone'
  <2>1. \A c \in Cells : node[c] # Null => node[c].arrival < nextArrival /\ node[c].arrival \in Nat
    BY <1>3, <1>7 DEF Stamped, Arrivals
  <2>2. nextArrival \in Nat
    BY <1>2 DEF Arrivals
  <2> QED
    BY <1>2, <1>6, <1>12, <2>1, <2>2 DEF Stamped, PurgedGone
<1>14. IndexLive'
  <2>1. ASSUME NEW order \in Arrivals, index'[order] # Null
        PROVE  /\ node'[index'[order].key.cell] # Null
               /\ version'[index'[order].key.cell] = index'[order].key.version
               /\ node'[index'[order].key.cell].arrival = order
               /\ node'[index'[order].key.cell].queue = index'[order].queue
    <3>1. CASE order = nextArrival
      BY <3>1, <1>6, <1>8, <1>10
    <3>2. CASE order # nextArrival
      <4>1. index'[order] = index[order] /\ index[order] # Null
        BY <2>1, <3>2, <1>10
      <4>2. PICK c \in Cells : c = index[order].key.cell
        BY <1>3, <4>1 DEF QueueTypeOK, Entries, Keys
      <4>3. /\ node[c] # Null /\ version[c] = index[order].key.version
            /\ node[c].arrival = order /\ node[c].queue = index[order].queue
        BY <1>3, <1>12, <4>1, <4>2 DEF IndexLive, Live
      <4> QED
        BY <1>6, <4>1, <4>2, <4>3
    <3> QED
      BY <3>1, <3>2
  <2>2. ASSUME NEW c \in Cells, node'[c] # Null
        PROVE  index'[node'[c].arrival] = [queue |-> node'[c].queue, key |-> KeyOf(c)']
    <3>1. CASE c = cell
      BY <3>1, <1>6, <1>8, <1>10
    <3>2. CASE c # cell
      <4>1. node[c] # Null /\ node'[c].arrival = node[c].arrival /\ node'[c].queue = node[c].queue
        BY <2>2, <3>2, <1>6
      <4>2. node[c].arrival # nextArrival /\ node[c].arrival \in Arrivals
        BY <1>3, <1>7, <4>1 DEF Stamped, Arrivals
      <4>3. index[node[c].arrival] = [queue |-> node[c].queue, key |-> KeyOf(c)]
        BY <1>3, <4>1 DEF IndexLive
      <4> QED
        BY <1>8, <1>10, <4>1, <4>2, <4>3
    <3> QED
      BY <3>1, <3>2
  <2> QED
    BY <2>1, <2>2 DEF IndexLive, Live
<1>15. SweepState' /\ OwnPurged' /\ ProjectedBehind' /\ ProjectionLive'
  BY <1>2, <1>3, <1>12 DEF SweepState, OwnPurged, ProjectedBehind, ProjectionLive, sweepVars
<1> QED
  BY <1>4, <1>11, <1>13, <1>14, <1>15 DEF QueueInv

LEMMA CancelKeeps ==
  ASSUME QueueInv, NEW order \in Arrivals, Cancel(order)
  PROVE  QueueInv'
<1> DEFINE key == index[order].key
           q == index[order].queue
<1>1. /\ pc = "idle" /\ index[order] # Null /\ RemoveKey(q, key)
      /\ index' = [index EXCEPT ![order] = Null]
      /\ nextArrival' = nextArrival /\ UNCHANGED sweepVars
  BY DEF Cancel
<1>2. /\ QueueTypeOK /\ Stamped /\ IndexLive /\ SweepState
      /\ purged = {} /\ purged' = {} /\ pc' = "idle" /\ cursor = Null /\ cursor' = Null
  BY <1>1 DEF QueueInv, SweepState, sweepVars
<1>3. key \in Keys /\ q \in Queues
  BY <1>1, <1>2 DEF QueueTypeOK, Entries
<1>4. Live(key) /\ node[key.cell].arrival = order /\ node[key.cell].queue = q
  BY <1>1, <1>2 DEF IndexLive
<1> HIDE DEF key, q
<1>5. IndexLive' /\ index' \in [Arrivals -> Entries \union {Null}]
  BY <1>1, <1>2, <1>3, <1>4, DepartureUnindexed
<1>6. /\ version' \in [Cells -> Nat] /\ node' \in [Cells -> Nodes \union {Null}]
      /\ list' \in [Queues -> Lists] /\ LinksConsistent' /\ node'[key.cell] = Null
      /\ \A c \in Cells :
           c # key.cell =>
             /\ node'[c] = Null <=> node[c] = Null
             /\ node[c] # Null => node'[c].arrival = node[c].arrival
  BY <1>1, <1>3, <1>4, Departure
<1>7. QueueTypeOK'
  BY <1>1, <1>2, <1>5, <1>6 DEF QueueTypeOK, sweepVars
<1>8. Stamped' /\ PurgedGone'
  BY <1>1, <1>2, <1>6 DEF Stamped, PurgedGone
<1>9. SweepState' /\ OwnPurged' /\ ProjectedBehind' /\ ProjectionLive'
  BY <1>1, <1>2 DEF SweepState, OwnPurged, ProjectedBehind, ProjectionLive, sweepVars
<1> QED
  BY <1>5, <1>6, <1>7, <1>8, <1>9 DEF QueueInv

\* A step that leaves the arena and the lists alone leaves them linked.
LEMMA LinksKept ==
  ASSUME LinksConsistent, UNCHANGED <<version, node, list>>
  PROVE  LinksConsistent'
<1>1. \A q \in Queues : LinkedAt(q)' <=> LinkedAt(q)
  <2> SUFFICES ASSUME NEW q \in Queues PROVE LinkedAt(q)' <=> LinkedAt(q)
    OBVIOUS
  <2>1. (HeadOK(q)' <=> HeadOK(q)) /\ (TailOK(q)' <=> TailOK(q))
    BY DEF HeadOK, TailOK, Members, Before, KeyOf
  <2>2. ASSUME NEW c \in Members(q)
        PROVE  (NextOK(q, c)' <=> NextOK(q, c)) /\ (PreviousOK(q, c)' <=> PreviousOK(q, c))
    BY DEF NextOK, PreviousOK, Members, Before, KeyOf
  <2>3. Members(q)' = Members(q)
    BY DEF Members
  <2> QED
    BY <2>1, <2>2, <2>3 DEF LinkedAt
<1> QED
  BY <1>1, LinksPointwise, LinksPointwiseNext DEF Linked

\* A step that leaves the arena, the lists and the index alone.
LEMMA ArenaKept ==
  ASSUME QueueInv, UNCHANGED <<version, node, list, index, nextArrival, purged>>
  PROVE  /\ Stamped' /\ PurgedGone' /\ LinksConsistent' /\ IndexLive'
         /\ \A key \in Keys : Live(key)' <=> Live(key)
         /\ \A c, d \in Cells : Before(c, d)' <=> Before(c, d)
         /\ \A q \in Queues : Members(q)' = Members(q)
         /\ \A c \in Cells : KeyOf(c)' = KeyOf(c)
<1>1. Stamped' /\ PurgedGone'
  BY DEF QueueInv, Stamped, PurgedGone
<1>2. IndexLive'
  BY DEF QueueInv, IndexLive, Live, KeyOf
<1>3. /\ \A key \in Keys : Live(key)' <=> Live(key)
      /\ \A c, d \in Cells : Before(c, d)' <=> Before(c, d)
      /\ \A q \in Queues : Members(q)' = Members(q)
      /\ \A c \in Cells : KeyOf(c)' = KeyOf(c)
  BY DEF Live, Before, Members, KeyOf
<1>4. LinksConsistent'
  BY LinksKept DEF QueueInv
<1> QED
  BY <1>1, <1>2, <1>3, <1>4

LEMMA BeginSweepKeeps ==
  ASSUME QueueInv, NEW q \in Queues, NEW client \in Clients, BeginSweep(q, client)
  PROVE  QueueInv'
<1>1. /\ pc = "idle" /\ pc' = "purge" /\ at' = q /\ taker' = client
      /\ cursor' = list[q].head
      /\ UNCHANGED <<version, node, list, index, nextArrival, purged, makers>>
  BY DEF BeginSweep, arenaVars
<1>2. QueueTypeOK /\ LinkedAt(q) /\ SweepState
  BY LinksPointwise DEF QueueInv, Linked
<1>3. /\ Stamped' /\ PurgedGone' /\ LinksConsistent' /\ IndexLive'
      /\ \A key \in Keys : Live(key)' <=> Live(key)
      /\ \A c, d \in Cells : Before(c, d)' <=> Before(c, d)
      /\ Members(q)' = Members(q)
  BY <1>1, ArenaKept
<1>4. QueueTypeOK'
  BY <1>1, <1>2 DEF QueueTypeOK, Lists
<1>5. cursor' # Null => /\ cursor' \in Keys /\ Live(cursor')
                        /\ node[cursor'.cell].queue = q
                        /\ \A c \in Members(q) : ~Before(c, cursor'.cell)
  <2>1. SUFFICES ASSUME cursor' # Null
                 PROVE  /\ cursor' \in Keys /\ Live(cursor')
                        /\ node[cursor'.cell].queue = q
                        /\ \A c \in Members(q) : ~Before(c, cursor'.cell)
    OBVIOUS
  <2>2. PICK c \in Members(q) : /\ cursor' = KeyOf(c)
                                /\ \A d \in Members(q) : d = c \/ Before(c, d)
    BY <2>1, <1>1, <1>2 DEF LinkedAt, HeadOK
  <2>3. cursor' \in Keys /\ cursor'.cell = c /\ cursor'.version = version[c] /\ node[c] # Null
        /\ node[c].queue = q
    BY <2>2, <1>2, KeyFacts DEF Members
  <2>4. \A d \in Members(q) : ~Before(d, c)
    BY <2>2, <1>2, ArrivalOrders, IndexTellsApart DEF QueueInv
  <2> QED
    BY <2>3, <2>4 DEF Live
<1>6. SweepState'
  BY <1>1, <1>2, <1>5 DEF SweepState, Live
<1>7. OwnPurged'
  <2>1. Members(at)' = Members(q)
    BY <1>1 DEF Members
  <2>2. Members(q) # {} => cursor' # Null
    BY <1>1, <1>2, KeyFacts DEF LinkedAt, HeadOK, Members
  <2>3. ASSUME NEW c \in Members(q), cursor' # Null PROVE ~Before(c, cursor.cell)'
    BY <2>3, <1>1, <1>5 DEF Before
  <2> QED
    BY <1>1, <2>1, <2>2, <2>3 DEF OwnPurged
<1>8. ProjectedBehind' /\ ProjectionLive'
  BY <1>1 DEF ProjectedBehind, ProjectionLive
<1> QED
  BY <1>3, <1>4, <1>6, <1>7, <1>8 DEF QueueInv

\* Following a link of a live node leads to a live node of the same level, the
\* next to have arrived, or off its end.
LEMMA Onwards ==
  ASSUME QueueInv, NEW q \in Queues, NEW x \in Members(q)
  PROVE  /\ node[x].next = Null => \A c \in Members(q) : c = x \/ Before(c, x)
         /\ node[x].next # Null =>
              \E d \in Members(q) :
                /\ node[x].next = KeyOf(d) /\ Before(x, d) /\ d # x
                /\ \A c \in Members(q) : c = x \/ Before(c, x) \/ c = d \/ Before(d, c)
<1>1. QueueTypeOK /\ DistinctStamps /\ NextOK(q, x)
  BY LinksPointwise, IndexTellsApart DEF QueueInv, Linked, LinkedAt
<1>2. /\ \A c \in Members(q) : ~Before(c, c)
      /\ \A c, d \in Members(q) : c = d \/ Before(c, d) \/ Before(d, c)
  BY <1>1, ArrivalOrders
<1>3. \A c \in Members(q) : KeyOf(c) # Null
  BY <1>1, KeyFacts DEF Members
<1>4. CASE node[x].next = Null
  BY <1>1, <1>2, <1>3, <1>4 DEF NextOK
<1>5. CASE node[x].next # Null
  BY <1>1, <1>2, <1>5 DEF NextOK
<1> QED
  BY <1>4, <1>5

LEMMA PurgeKeeps ==
  ASSUME QueueInv, Purge
  PROVE  QueueInv'
<1> DEFINE x == cursor.cell
<1>1. /\ pc = "purge" /\ pc' = "purge" /\ cursor # Null /\ cursor' = node[x].next
      /\ UNCHANGED <<index, nextArrival, at, taker, makers>>
  BY DEF Purge
<1>2. QueueTypeOK /\ Stamped /\ PurgedGone /\ LinksConsistent /\ IndexLive /\ SweepState /\ OwnPurged
  BY DEF QueueInv
<1>3. /\ cursor \in Keys /\ Live(cursor) /\ cursor = KeyOf(x) /\ x \in Cells /\ node[x] \in Nodes
      /\ node[x].queue = at /\ at \in Queues /\ x \in Members(at) /\ makers = <<>>
      /\ node[x].arrival \in Arrivals
  <2>1. cursor \in Keys /\ Live(cursor) /\ node[x].queue = at /\ at \in Queues /\ makers = <<>>
    BY <1>1, <1>2 DEF QueueTypeOK, SweepState
  <2>2. x \in Cells /\ node[x] # Null /\ cursor = KeyOf(x)
    BY <2>1, <1>2, LiveFacts
  <2> QED
    BY <2>1, <2>2, <1>2, NodeParts DEF QueueTypeOK, Members
<1> HIDE DEF x
<1>4. /\ \A c \in Members(at) : ~Before(c, c)
      /\ \A c, d \in Members(at) : Before(c, d) => ~Before(d, c)
  BY <1>2, <1>3, ArrivalOrders, IndexTellsApart
<1>5. cursor' # Null =>
        \E d \in Members(at) :
          /\ cursor' = KeyOf(d) /\ Before(x, d) /\ d # x
          /\ \A c \in Members(at) : c = x \/ Before(c, x) \/ c = d \/ Before(d, c)
  BY <1>1, <1>3, Onwards
<1>6. cursor' = Null => \A c \in Members(at) : c = x \/ Before(c, x)
  BY <1>1, <1>3, Onwards
<1>7. cursor' \in Keys \union {Null}
  BY <1>1, <1>3, NodeParts
<1>8. CASE node[x].client = taker
  <2>1. RemoveKey(at, cursor) /\ purged' = purged \union {node[x].arrival}
    BY <1>8 DEF Purge, x
  <2>2. /\ version' \in [Cells -> Nat] /\ node' \in [Cells -> Nodes \union {Null}]
        /\ list' \in [Queues -> Lists] /\ LinksConsistent' /\ node'[x] = Null
        /\ \A c \in Cells :
             c # x => /\ version'[c] = version[c] /\ KeyOf(c)' = KeyOf(c)
                      /\ node'[c] = Null <=> node[c] = Null
                      /\ node[c] # Null => /\ node'[c].client = node[c].client
                                           /\ node'[c].arrival = node[c].arrival
                                           /\ node'[c].queue = node[c].queue
    BY <2>1, <1>3, Departure DEF x
  <2>3. /\ \A c \in Cells : c \in Members(at)' <=> c \in Members(at) /\ c # x
        /\ \A c, d \in Cells :
             node[c] # Null /\ node[d] # Null /\ c # x /\ d # x => (Before(c, d)' <=> Before(c, d))
    <3>1. Members(at)' = {c \in Cells : node'[c] # Null /\ node'[c].queue = at}
      BY <1>1 DEF Members
    <3> QED
      BY <2>2, <3>1 DEF Members, Before
  <2>4. QueueTypeOK'
    BY <1>1, <1>2, <1>3, <1>7, <2>1, <2>2 DEF QueueTypeOK
  <2>5. Stamped' /\ PurgedGone'
    <3>1. \A c \in Cells : node[c] # Null /\ c # x => node[c].arrival # node[x].arrival
      BY <1>2, <1>3, IndexTellsApart DEF DistinctStamps, Members
    <3> QED
      BY <1>1, <1>2, <2>1, <2>2, <3>1 DEF Stamped, PurgedGone
  <2>6. IndexLive'
    <3>1. ASSUME NEW order \in Arrivals, index[order] # Null, order \notin purged'
          PROVE  /\ node'[index[order].key.cell] # Null
                 /\ version'[index[order].key.cell] = index[order].key.version
                 /\ node'[index[order].key.cell].arrival = order
                 /\ node'[index[order].key.cell].queue = index[order].queue
      <4>1. order \notin purged /\ order # node[x].arrival
        BY <3>1, <2>1
      <4>2. PICK c \in Cells : c = index[order].key.cell
        BY <1>2, <3>1 DEF QueueTypeOK, Entries, Keys
      <4>3. /\ node[c] # Null /\ version[c] = index[order].key.version
            /\ node[c].arrival = order /\ node[c].queue = index[order].queue
        BY <1>2, <3>1, <4>1, <4>2 DEF IndexLive, Live
      <4> QED
        BY <2>2, <4>1, <4>2, <4>3
    <3>2. ASSUME NEW c \in Cells, node'[c] # Null
          PROVE  index[node'[c].arrival] = [queue |-> node'[c].queue, key |-> KeyOf(c)']
      BY <1>2, <2>2, <3>2 DEF IndexLive
    <3> QED
      BY <1>1, <3>1, <3>2 DEF IndexLive, Live
  <2>7. SweepState' /\ OwnPurged'
    <3>1. ASSUME cursor' # Null
          PROVE  Live(cursor)' /\ node'[cursor'.cell].queue = at
      <4>1. PICK d \in Members(at) : cursor' = KeyOf(d) /\ d # x
        BY <3>1, <1>5
      <4>2. cursor'.cell = d /\ cursor'.version = version[d] /\ d \in Cells /\ node[d].queue = at
            /\ node[d] # Null
        BY <4>1, <1>2, KeyFacts DEF Members
      <4> QED
        BY <4>1, <4>2, <2>2 DEF Live
    <3>2. ASSUME NEW c \in Members(at)', node'[c].client = taker
          PROVE  cursor' # Null /\ ~Before(c, cursor.cell)'
      <4>1. c \in Cells /\ c \in Members(at) /\ c # x /\ node[c].client = taker /\ node[c] # Null
        BY <3>2, <2>2, <2>3 DEF Members
      <4>2. ~Before(c, x)
        BY <4>1, <1>1, <1>2 DEF OwnPurged, x
      <4>3. cursor' # Null
        BY <4>1, <4>2, <1>6
      <4>4. PICK d \in Members(at) : /\ cursor' = KeyOf(d) /\ d # x
                                    /\ \A e \in Members(at) : e = x \/ Before(e, x) \/ e = d \/ Before(d, e)
        BY <4>3, <1>5
      <4>5. cursor'.cell = d /\ d \in Cells /\ node[d] # Null
        BY <4>4, <1>2, KeyFacts DEF Members
      <4>6. ~Before(c, d)
        BY <4>1, <4>2, <4>4, <1>4
      <4>7. ~(node'[c].arrival < node'[d].arrival)
        BY <4>1, <4>4, <4>5, <4>6, <2>2 DEF Before
      <4> QED
        BY <4>3, <4>5, <4>7 DEF Before
    <3>3. SweepState'
      BY <1>1, <1>2, <3>1 DEF SweepState
    <3>4. OwnPurged'
      BY <1>1, <3>2 DEF OwnPurged
    <3> QED
      BY <3>3, <3>4
  <2>8. ProjectedBehind' /\ ProjectionLive'
    BY <1>1 DEF ProjectedBehind, ProjectionLive
  <2> QED
    BY <2>2, <2>4, <2>5, <2>6, <2>7, <2>8 DEF QueueInv
<1>9. CASE node[x].client # taker
  <2>1. UNCHANGED <<version, node, list, purged>>
    BY <1>9 DEF Purge, x, arenaVars
  <2>2. /\ Stamped' /\ PurgedGone' /\ LinksConsistent' /\ IndexLive'
        /\ \A c \in Cells : KeyOf(c)' = KeyOf(c)
    BY <1>1, <2>1, ArenaKept
  <2>3. QueueTypeOK'
    BY <1>1, <1>2, <1>7, <2>1 DEF QueueTypeOK
  <2>4. Members(at)' = Members(at)
    BY <1>1, <2>1 DEF Members
  <2>5. SweepState' /\ OwnPurged'
    <3>1. ASSUME cursor' # Null
          PROVE  Live(cursor)' /\ node'[cursor'.cell].queue = at
      <4>1. PICK d \in Members(at) : cursor' = KeyOf(d) /\ d # x
        BY <3>1, <1>5
      <4>2. cursor'.cell = d /\ cursor'.version = version[d] /\ node[d].queue = at /\ node[d] # Null
        BY <4>1, <1>2, KeyFacts DEF Members
      <4> QED
        BY <4>1, <4>2, <2>1 DEF Live
    <3>2. ASSUME NEW c \in Members(at), node[c].client = taker
          PROVE  cursor' # Null /\ ~Before(c, cursor.cell)'
      <4>1. c # x
        BY <3>2, <1>9
      <4>2. ~Before(c, x)
        BY <3>2, <1>1, <1>2 DEF OwnPurged, x
      <4>3. cursor' # Null
        BY <4>1, <4>2, <1>6
      <4>4. PICK d \in Members(at) : /\ cursor' = KeyOf(d) /\ d # x
                                    /\ \A e \in Members(at) : e = x \/ Before(e, x) \/ e = d \/ Before(d, e)
        BY <4>3, <1>5
      <4>5. cursor'.cell = d
        BY <4>4, <1>2, KeyFacts DEF Members
      <4>6. ~Before(c, d)
        BY <4>1, <4>2, <4>4, <1>4
      <4> QED
        BY <4>3, <4>5, <4>6, <2>1 DEF Before
    <3>3. SweepState'
      BY <1>1, <1>2, <2>1, <3>1 DEF SweepState
    <3>4. OwnPurged'
      BY <1>1, <2>1, <2>4, <3>2 DEF OwnPurged
    <3> QED
      BY <3>3, <3>4
  <2>6. ProjectedBehind' /\ ProjectionLive'
    BY <1>1 DEF ProjectedBehind, ProjectionLive
  <2> QED
    BY <2>2, <2>3, <2>5, <2>6 DEF QueueInv
<1> QED
  BY <1>8, <1>9

LEMMA UnindexKeeps ==
  ASSUME QueueInv, Unindex
  PROVE  QueueInv'
<1>1. /\ pc = "purge" /\ pc' = "project" /\ cursor = Null /\ index' = DropPurged
      /\ purged' = {} /\ cursor' = list[at].head
      /\ UNCHANGED <<version, node, list, nextArrival, at, taker, makers>>
  BY DEF Unindex, arenaVars
<1>2. /\ QueueTypeOK /\ Stamped /\ PurgedGone /\ LinksConsistent /\ IndexLive /\ SweepState
      /\ OwnPurged /\ at \in Queues /\ taker \in Clients /\ makers = <<>>
  BY <1>1 DEF QueueInv, SweepState
<1>3. LinkedAt(at)
  BY <1>2, LinksPointwise DEF Linked
<1>4. \A o \in Arrivals : index'[o] = (IF o \in purged THEN Null ELSE index[o])
  BY <1>1 DEF DropPurged
<1>5. index' \in [Arrivals -> Entries \union {Null}]
  BY <1>1, <1>2 DEF DropPurged, QueueTypeOK
<1>6. QueueTypeOK'
  BY <1>1, <1>2, <1>5 DEF QueueTypeOK, Lists
<1>7. Stamped' /\ PurgedGone'
  BY <1>1, <1>2 DEF Stamped, PurgedGone
<1>8. LinksConsistent'
  BY <1>1, <1>2, LinksKept
<1>9. IndexLive'
  <2>1. ASSUME NEW order \in Arrivals, index'[order] # Null
        PROVE  /\ node[index'[order].key.cell] # Null
               /\ version[index'[order].key.cell] = index'[order].key.version
               /\ node[index'[order].key.cell].arrival = order
               /\ node[index'[order].key.cell].queue = index'[order].queue
    BY <2>1, <1>2, <1>4 DEF IndexLive, Live
  <2>2. ASSUME NEW c \in Cells, node[c] # Null
        PROVE  index'[node[c].arrival] = [queue |-> node[c].queue, key |-> KeyOf(c)]
    <3>1. node[c].arrival \in Arrivals /\ node[c].arrival \notin purged
      BY <2>2, <1>2, NodeParts DEF QueueTypeOK, PurgedGone
    <3> QED
      BY <3>1, <2>2, <1>2, <1>4 DEF IndexLive
  <2> QED
    BY <2>1, <2>2, <1>1 DEF IndexLive, Live, KeyOf
<1>10. cursor' # Null =>
         \E c \in Members(at) : /\ cursor' = KeyOf(c) /\ cursor'.cell = c
                                /\ \A d \in Members(at) : ~Before(d, c)
  <2>1. SUFFICES ASSUME cursor' # Null
                 PROVE  \E c \in Members(at) : /\ cursor' = KeyOf(c) /\ cursor'.cell = c
                                               /\ \A d \in Members(at) : ~Before(d, c)
    OBVIOUS
  <2>2. PICK c \in Members(at) : /\ cursor' = KeyOf(c)
                                 /\ \A d \in Members(at) : d = c \/ Before(c, d)
    BY <2>1, <1>1, <1>3 DEF LinkedAt, HeadOK
  <2>3. cursor'.cell = c
    BY <2>2, <1>2, KeyFacts DEF Members
  <2>4. \A d \in Members(at) : ~Before(d, c)
    BY <2>2, <1>2, ArrivalOrders, IndexTellsApart
  <2> QED
    BY <2>2, <2>3, <2>4
<1>11. SweepState'
  <2>1. ASSUME cursor' # Null PROVE Live(cursor)' /\ node[cursor'.cell].queue = at
    <3>1. PICK c \in Members(at) : cursor' = KeyOf(c) /\ cursor'.cell = c
      BY <2>1, <1>10
    <3>2. cursor'.version = version[c] /\ node[c] # Null /\ node[c].queue = at
      BY <3>1, <1>2, KeyFacts DEF Members
    <3> QED
      BY <3>1, <3>2, <1>1 DEF Live
  <2> QED
    BY <2>1, <1>1, <1>2 DEF SweepState
<1>12. OwnPurged' /\ ProjectedBehind'
  BY <1>1, <1>2 DEF OwnPurged, ProjectedBehind
<1>13. ProjectionLive'
  <2>1. Members(at)' = Members(at)
    BY <1>1 DEF Members
  <2>2. ASSUME NEW c \in Members(at) PROVE node[c].client # taker
    BY <1>1, <1>2 DEF OwnPurged
  <2>3. ASSUME NEW c \in Members(at)
        PROVE  cursor' # Null /\ ~Before(c, cursor'.cell)
    <3>1. list[at].head # Null
      BY <1>2, <1>3, KeyFacts DEF LinkedAt, HeadOK, Members
    <3> QED
      BY <3>1, <1>1, <1>10
  <2>4. ASSUME NEW c \in Members(at) PROVE ~Before(c, cursor.cell)' /\ cursor' # Null
    BY <2>3, <1>1 DEF Before
  <2>5. makers' = <<>> /\ Len(makers') = 0
    BY <1>1, <1>2
  <2> QED
    BY <1>1, <2>1, <2>2, <2>4, <2>5 DEF ProjectionLive
<1> QED
  BY <1>6, <1>7, <1>8, <1>9, <1>11, <1>12, <1>13 DEF QueueInv

\* The nodes a projection names.
LEMMA Projected ==
  ASSUME QueueInv, pc \in {"project", "fill"}, NEW i \in 1 .. Len(makers)
  PROVE  /\ makers[i] \in Keys /\ Live(makers[i])
         /\ makers[i].cell \in Members(at) /\ at \in Queues
         /\ \A j \in 1 .. i - 1 : Before(makers[j].cell, makers[i].cell)
<1>1. QueueTypeOK /\ at \in Queues
  BY DEF QueueInv, SweepState
<1>2. makers[i] \in Keys
  BY <1>1 DEF QueueTypeOK
<1>3. Live(makers[i]) /\ node[makers[i].cell].queue = at
      /\ \A j \in 1 .. i - 1 : Before(makers[j].cell, makers[i].cell)
  BY DEF QueueInv, ProjectionLive
<1>4. makers[i].cell \in Members(at)
  BY <1>1, <1>2, <1>3, LiveFacts DEF Members
<1> QED
  BY <1>1, <1>2, <1>3, <1>4

LEMMA ProjectKeeps ==
  ASSUME QueueInv, Project
  PROVE  QueueInv'
<1> DEFINE x == cursor.cell
<1>1. /\ pc = "project" /\ pc' = "project" /\ cursor # Null
      /\ makers' = Append(makers, cursor) /\ cursor' = node[x].next
      /\ UNCHANGED <<version, node, list, index, nextArrival, at, taker, purged>>
  BY DEF Project, arenaVars
<1>2. QueueTypeOK /\ SweepState /\ ProjectedBehind /\ ProjectionLive /\ purged = {}
      /\ at \in Queues /\ taker \in Clients
  BY <1>1 DEF QueueInv, SweepState
<1>3. /\ cursor \in Keys /\ Live(cursor) /\ cursor = KeyOf(x) /\ x \in Members(at)
      /\ node[x] \in Nodes /\ node[x].queue = at
  <2>1. cursor \in Keys /\ Live(cursor) /\ node[x].queue = at
    BY <1>1, <1>2 DEF QueueTypeOK, SweepState
  <2>2. x \in Cells /\ node[x] # Null /\ cursor = KeyOf(x)
    BY <2>1, <1>2, LiveFacts
  <2> QED
    BY <2>1, <2>2, <1>2 DEF QueueTypeOK, Members
<1>4. /\ Stamped' /\ PurgedGone' /\ LinksConsistent' /\ IndexLive'
      /\ \A key \in Keys : Live(key)' <=> Live(key)
      /\ \A c, d \in Cells : Before(c, d)' <=> Before(c, d)
      /\ \A c \in Cells : KeyOf(c)' = KeyOf(c)
  BY <1>1, ArenaKept
<1>5. Members(at)' = Members(at)
  BY <1>1 DEF Members
<1>6. /\ makers' \in Seq(Keys) /\ Len(makers') = Len(makers) + 1
      /\ \A i \in 1 .. Len(makers) : makers'[i] = makers[i]
      /\ makers'[Len(makers) + 1] = cursor /\ Len(makers) \in Nat
  BY <1>1, <1>2, <1>3 DEF QueueTypeOK
<1>7. QueueTypeOK'
  BY <1>1, <1>2, <1>3, <1>6, NodeParts DEF QueueTypeOK
<1> HIDE DEF x
<1>8. /\ \A c, d \in Members(at) : c = d \/ Before(c, d) \/ Before(d, c)
      /\ \A c, d \in Members(at) : Before(c, d) => ~Before(d, c)
      /\ \A c, d, e \in Members(at) : Before(c, d) /\ Before(d, e) => Before(c, e)
  BY <1>2, ArrivalOrders, IndexTellsApart DEF QueueInv
<1>9. cursor' # Null =>
        \E d \in Members(at) :
          /\ cursor' = KeyOf(d) /\ Before(x, d) /\ d # x /\ cursor'.cell = d
          /\ \A c \in Members(at) : c = x \/ Before(c, x) \/ c = d \/ Before(d, c)
  <2>1. SUFFICES ASSUME cursor' # Null
                 PROVE  \E d \in Members(at) :
                          /\ cursor' = KeyOf(d) /\ Before(x, d) /\ d # x /\ cursor'.cell = d
                          /\ \A c \in Members(at) : c = x \/ Before(c, x) \/ c = d \/ Before(d, c)
    OBVIOUS
  <2>2. PICK d \in Members(at) :
          /\ cursor' = KeyOf(d) /\ Before(x, d) /\ d # x
          /\ \A c \in Members(at) : c = x \/ Before(c, x) \/ c = d \/ Before(d, c)
    BY <2>1, <1>1, <1>2, <1>3, Onwards DEF x
  <2>3. cursor'.cell = d
    BY <2>2, <1>2, KeyFacts DEF Members
  <2> QED
    BY <2>2, <2>3
<1>10. cursor' = Null => \A c \in Members(at) : c = x \/ Before(c, x)
  BY <1>1, <1>2, <1>3, Onwards DEF x
<1>11. \A i \in 1 .. Len(makers) : makers[i].cell \in Members(at) /\ Before(makers[i].cell, x)
  BY <1>1, <1>2, Projected DEF ProjectedBehind, x
<1>12. SweepState'
  <2>1. ASSUME cursor' # Null PROVE Live(cursor)' /\ node[cursor'.cell].queue = at
    <3>1. PICK c \in Members(at) : cursor' = KeyOf(c) /\ cursor'.cell = c
      BY <2>1, <1>9
    <3>2. cursor'.version = version[c] /\ node[c] # Null /\ node[c].queue = at
      BY <3>1, <1>2, KeyFacts DEF Members
    <3> QED
      BY <3>1, <3>2, <1>1 DEF Live
  <2> QED
    BY <2>1, <1>1, <1>2 DEF SweepState
<1>13. OwnPurged'
  BY <1>1 DEF OwnPurged
<1>14. ProjectedBehind'
  <2>1. SUFFICES ASSUME cursor' # Null, NEW i \in 1 .. Len(makers')
                 PROVE  Before(makers[i].cell, cursor.cell)'
    BY DEF ProjectedBehind
  <2>2. PICK d \in Members(at) : cursor'.cell = d /\ Before(x, d)
    BY <2>1, <1>9
  <2>3. makers'[i].cell \in Members(at) /\ Before(makers'[i].cell, d)
    <3>1. CASE i = Len(makers) + 1
      BY <3>1, <2>2, <1>3, <1>6 DEF x
    <3>2. CASE i # Len(makers) + 1
      <4>1. i \in 1 .. Len(makers) /\ makers'[i] = makers[i]
        BY <3>2, <2>1, <1>6
      <4> QED
        BY <4>1, <2>2, <1>3, <1>8, <1>11
    <3> QED
      BY <3>1, <3>2
  <2> QED
    BY <2>2, <2>3, <1>1 DEF Before
<1>15. ProjectionLive'
  <2>1. ASSUME NEW i \in 1 .. Len(makers')
        PROVE  /\ Live(makers'[i]) /\ node[makers'[i].cell].queue = at
               /\ \A j \in 1 .. i - 1 : Before(makers'[j].cell, makers'[i].cell)
    <3>1. CASE i = Len(makers) + 1
      <4>1. makers'[i] = cursor
        BY <3>1, <1>6
      <4>2. \A j \in 1 .. i - 1 : j \in 1 .. Len(makers) /\ makers'[j] = makers[j]
        BY <3>1, <1>6
      <4> QED
        BY <4>1, <4>2, <1>3, <1>11 DEF x
    <3>2. CASE i # Len(makers) + 1
      <4>1. i \in 1 .. Len(makers)
        BY <3>2, <1>6
      <4>2. \A j \in 1 .. i - 1 : j \in 1 .. Len(makers) /\ makers'[j] = makers[j]
        BY <4>1, <1>6
      <4>3. makers'[i] = makers[i]
        BY <4>1, <1>6
      <4> QED
        BY <4>1, <4>2, <4>3, <1>1, <1>2 DEF ProjectionLive
    <3> QED
      BY <3>1, <3>2
  <2>2. ASSUME NEW c \in Members(at)
        PROVE  /\ node[c].client # taker
               /\ (cursor' # Null => Before(c, cursor'.cell))
                    => \E i \in 1 .. Len(makers') : makers'[i] = KeyOf(c)
    <3>1. node[c].client # taker
      BY <1>1, <1>2 DEF ProjectionLive
    <3>2. ASSUME cursor' # Null => Before(c, cursor'.cell)
          PROVE  \E i \in 1 .. Len(makers') : makers'[i] = KeyOf(c)
      <4>1. c = x \/ Before(c, x)
        <5>1. CASE cursor' = Null
          BY <5>1, <1>10
        <5>2. CASE cursor' # Null
          <6>1. PICK d \in Members(at) :
                  /\ cursor'.cell = d
                  /\ \A e \in Members(at) : e = x \/ Before(e, x) \/ e = d \/ Before(d, e)
            BY <5>2, <1>9
          <6>2. Before(c, d)
            BY <6>1, <5>2, <3>2
          <6> QED
            BY <6>1, <6>2, <1>8
        <5> QED
          BY <5>1, <5>2
      <4>2. CASE c = x
        BY <4>2, <1>3, <1>6
      <4>3. CASE Before(c, x)
        <5>1. PICK i \in 1 .. Len(makers) : makers[i] = KeyOf(c)
          BY <4>3, <1>1, <1>2 DEF ProjectionLive, x
        <5> QED
          BY <5>1, <1>6
      <4> QED
        BY <4>1, <4>2, <4>3
    <3> QED
      BY <3>1, <3>2
  <2> QED
    BY <2>1, <2>2, <1>1, <1>5 DEF ProjectionLive, Live, Before, KeyOf
<1> QED
  BY <1>4, <1>7, <1>12, <1>13, <1>14, <1>15 DEF QueueInv

LEMMA AllocateKeeps ==
  ASSUME QueueInv, Allocate
  PROVE  QueueInv'
<1>1. /\ pc = "project" /\ pc' = "fill" /\ cursor = Null
      /\ UNCHANGED <<version, node, list, index, nextArrival, at, taker, cursor, purged, makers>>
  BY DEF Allocate, arenaVars
<1>2. /\ Stamped' /\ PurgedGone' /\ LinksConsistent' /\ IndexLive'
  BY <1>1, ArenaKept
<1>3. QueueTypeOK' /\ SweepState' /\ OwnPurged' /\ ProjectedBehind'
  BY <1>1 DEF QueueInv, QueueTypeOK, SweepState, OwnPurged, ProjectedBehind
<1>4. ProjectionLive'
  BY <1>1 DEF QueueInv, ProjectionLive, Members, Before, Live, KeyOf
<1> QED
  BY <1>2, <1>3, <1>4 DEF QueueInv

\* Dropping the first maker of a projection keeps the others good.
LEMMA TailOfMakers ==
  ASSUME QueueInv, pc = "fill", makers # <<>>, makers' = Tail(makers)
  PROVE  /\ makers' \in Seq(Keys) /\ Len(makers') = Len(makers) - 1
         /\ 1 \in 1 .. Len(makers) /\ Head(makers) = makers[1]
         /\ \A i \in 1 .. Len(makers') :
              /\ i + 1 \in 1 .. Len(makers) /\ makers'[i] = makers[i + 1]
              /\ Before(makers[1].cell, makers'[i].cell)
<1>1. makers \in Seq(Keys)
  BY DEF QueueInv, QueueTypeOK
<1>2. /\ makers' \in Seq(Keys) /\ Len(makers') = Len(makers) - 1
      /\ 1 \in 1 .. Len(makers) /\ Head(makers) = makers[1]
      /\ \A i \in 1 .. Len(makers') :
           i + 1 \in 1 .. Len(makers) /\ makers'[i] = makers[i + 1]
  BY <1>1, HeadTailProperties
<1>3. ASSUME NEW i \in 1 .. Len(makers') PROVE Before(makers[1].cell, makers'[i].cell)
  <2>1. i + 1 \in 1 .. Len(makers) /\ 1 \in 1 .. (i + 1) - 1 /\ makers'[i] = makers[i + 1]
    BY <1>2
  <2> QED
    BY <2>1, Projected
<1> QED
  BY <1>2, <1>3

LEMMA SpareMakerKeeps ==
  ASSUME QueueInv, SpareMaker
  PROVE  QueueInv'
<1>1. /\ pc = "fill" /\ pc' = "fill" /\ makers # <<>> /\ makers' = Tail(makers)
      /\ UNCHANGED <<version, node, list, index, nextArrival, at, taker, cursor, purged>>
  BY DEF SpareMaker, arenaVars
<1>2. /\ Stamped' /\ PurgedGone' /\ LinksConsistent' /\ IndexLive'
  BY <1>1, ArenaKept
<1>3. /\ makers' \in Seq(Keys) /\ Len(makers') = Len(makers) - 1 /\ Len(makers) \in Nat
      /\ \A i \in 1 .. Len(makers') :
           i + 1 \in 1 .. Len(makers) /\ makers'[i] = makers[i + 1]
  BY <1>1, TailOfMakers DEF QueueInv, QueueTypeOK
<1>4. QueueTypeOK' /\ SweepState' /\ OwnPurged' /\ ProjectedBehind'
  BY <1>1, <1>3 DEF QueueInv, QueueTypeOK, SweepState, OwnPurged, ProjectedBehind, Live
<1>5. ProjectionLive'
  <2>1. ASSUME NEW i \in 1 .. Len(makers')
        PROVE  /\ Live(makers'[i]) /\ node[makers'[i].cell].queue = at
               /\ \A j \in 1 .. i - 1 : Before(makers'[j].cell, makers'[i].cell)
    <3>1. i + 1 \in 1 .. Len(makers) /\ makers'[i] = makers[i + 1]
      BY <1>3
    <3>2. ASSUME NEW j \in 1 .. i - 1
          PROVE  j + 1 \in 1 .. (i + 1) - 1 /\ makers'[j] = makers[j + 1]
      BY <1>3
    <3> QED
      BY <3>1, <3>2, <1>1 DEF QueueInv, ProjectionLive
  <2>2. ASSUME NEW c \in Members(at) PROVE node[c].client # taker
    BY <1>1 DEF QueueInv, ProjectionLive
  <2>3. Members(at)' = Members(at)
    BY <1>1 DEF Members
  <2> QED
    BY <2>1, <2>2, <2>3, <1>1 DEF ProjectionLive, Live, Before
<1> QED
  BY <1>2, <1>4, <1>5 DEF QueueInv

LEMMA ExhaustMakerKeeps ==
  ASSUME QueueInv, ExhaustMaker
  PROVE  QueueInv'
<1> DEFINE key == Head(makers)
           x == key.cell
<1>1. /\ pc = "fill" /\ pc' = "fill" /\ makers # <<>> /\ makers' = Tail(makers)
      /\ Live(key) /\ RemoveKey(at, key)
      /\ index' = [index EXCEPT ![node[x].arrival] = Null]
      /\ UNCHANGED <<nextArrival, at, taker, cursor, purged>>
  BY DEF ExhaustMaker
<1>2. /\ QueueTypeOK /\ Stamped /\ SweepState /\ ProjectionLive /\ purged = {} /\ cursor = Null
      /\ at \in Queues
  BY <1>1 DEF QueueInv, SweepState
<1>3. /\ makers' \in Seq(Keys) /\ Len(makers') = Len(makers) - 1 /\ Len(makers) \in Nat
      /\ 1 \in 1 .. Len(makers) /\ key = makers[1]
      /\ \A i \in 1 .. Len(makers') :
           /\ i + 1 \in 1 .. Len(makers) /\ makers'[i] = makers[i + 1]
           /\ Before(makers[1].cell, makers'[i].cell)
  BY <1>1, TailOfMakers DEF QueueInv, QueueTypeOK
<1>4. key \in Keys /\ x \in Members(at) /\ node[x].queue = at
  BY <1>1, <1>3, Projected DEF Members
<1> HIDE DEF key, x
<1>5. IndexLive' /\ index' \in [Arrivals -> Entries \union {Null}]
  BY <1>1, <1>2, <1>4, DepartureUnindexed DEF x
<1>6. /\ version' \in [Cells -> Nat] /\ node' \in [Cells -> Nodes \union {Null}]
      /\ list' \in [Queues -> Lists] /\ LinksConsistent' /\ node'[x] = Null
      /\ \A c \in Cells :
           c # x => /\ version'[c] = version[c]
                    /\ node'[c] = Null <=> node[c] = Null
                    /\ node[c] # Null => /\ node'[c].client = node[c].client
                                         /\ node'[c].arrival = node[c].arrival
                                         /\ node'[c].queue = node[c].queue
  BY <1>1, <1>2, <1>4, Departure DEF x
<1>7. QueueTypeOK'
  BY <1>1, <1>2, <1>3, <1>5, <1>6 DEF QueueTypeOK
<1>8. Stamped' /\ PurgedGone'
  BY <1>1, <1>2, <1>6 DEF Stamped, PurgedGone
<1>9. SweepState' /\ OwnPurged' /\ ProjectedBehind'
  BY <1>1, <1>2 DEF SweepState, OwnPurged, ProjectedBehind
<1>10. ProjectionLive'
  <2>1. ~Before(x, x)
    BY <1>2, <1>4, ArrivalOrders, IndexTellsApart DEF QueueInv
  <2>2. ASSUME NEW i \in 1 .. Len(makers')
        PROVE  /\ makers'[i].cell \in Cells /\ makers'[i].cell # x
               /\ node[makers'[i].cell] # Null
               /\ version[makers'[i].cell] = makers'[i].version
               /\ node[makers'[i].cell].queue = at
               /\ \A j \in 1 .. i - 1 :
                    node[makers'[j].cell].arrival < node[makers'[i].cell].arrival
    <3>1. i + 1 \in 1 .. Len(makers) /\ makers'[i] = makers[i + 1]
          /\ Before(x, makers'[i].cell)
      BY <1>3 DEF x
    <3>2. ASSUME NEW j \in 1 .. i - 1
          PROVE  j + 1 \in 1 .. (i + 1) - 1 /\ makers'[j] = makers[j + 1]
      BY <1>3
    <3>3. /\ Live(makers'[i]) /\ makers'[i].cell \in Members(at)
          /\ \A j \in 1 .. (i + 1) - 1 : Before(makers[j].cell, makers'[i].cell)
      BY <3>1, <1>1, Projected
    <3> QED
      BY <3>1, <3>2, <3>3, <2>1 DEF Live, Members, Before
  <2>3. ASSUME NEW i \in 1 .. Len(makers')
        PROVE  /\ Live(makers[i])' /\ node'[makers'[i].cell].queue = at
               /\ \A j \in 1 .. i - 1 :
                    node'[makers'[j].cell].arrival < node'[makers'[i].cell].arrival
    <3>1. \A j \in 1 .. i - 1 : j \in 1 .. Len(makers')
      BY <1>3
    <3> QED
      BY <2>2, <3>1, <1>6 DEF Live
  <2>4. ASSUME NEW c \in Members(at)' PROVE node'[c].client # taker
    <3>1. c \in Cells /\ c # x /\ node[c] # Null /\ node[c].queue = at
      BY <1>1, <1>6 DEF Members
    <3> QED
      BY <3>1, <1>1, <1>2, <1>6 DEF ProjectionLive, Members
  <2> QED
    BY <2>3, <2>4, <1>1 DEF ProjectionLive, Before
<1> QED
  BY <1>5, <1>6, <1>7, <1>8, <1>9, <1>10 DEF QueueInv

LEMMA LeaveLevelKeeps ==
  ASSUME QueueInv, LeaveLevel
  PROVE  QueueInv'
<1>1. /\ pc = "fill" /\ pc' = "idle" /\ makers = <<>> /\ at' = Null /\ taker' = Null
      /\ UNCHANGED <<version, node, list, index, nextArrival, cursor, purged, makers>>
  BY DEF LeaveLevel, arenaVars
<1>2. /\ Stamped' /\ PurgedGone' /\ LinksConsistent' /\ IndexLive'
  BY <1>1, ArenaKept
<1>3. QueueTypeOK' /\ SweepState' /\ OwnPurged' /\ ProjectedBehind' /\ ProjectionLive'
  BY <1>1 DEF QueueInv, QueueTypeOK, SweepState, OwnPurged, ProjectedBehind, ProjectionLive
<1> QED
  BY <1>2, <1>3 DEF QueueInv

-------------------------------------------------------------------------------
(* The theorems *)

LEMMA QueueInvInit == QueueInit => QueueInv
<1> SUFFICES ASSUME QueueInit PROVE QueueInv
  OBVIOUS
<1>1. QueueTypeOK
  BY QueueAssumption DEF QueueInit, QueueTypeOK, Lists
<1>2. \A c \in Cells : node[c] = Null
  BY DEF QueueInit
<1>3. \A q \in Queues : Members(q) = {}
  BY <1>2 DEF Members
<1>4. Stamped /\ PurgedGone
  BY <1>2 DEF Stamped, PurgedGone
<1>5. LinksConsistent
  BY <1>3, FS_EmptySet DEF QueueInit, LinksConsistent, IsFirstOf, IsLastOf
<1>6. IndexLive
  BY <1>2 DEF QueueInit, IndexLive
<1>7. SweepState /\ OwnPurged /\ ProjectedBehind /\ ProjectionLive
  BY DEF QueueInit, SweepState, OwnPurged, ProjectedBehind, ProjectionLive
<1> QED
  BY <1>1, <1>4, <1>5, <1>6, <1>7 DEF QueueInv

LEMMA QueueInvStep == QueueInv /\ [QueueNext]_queueVars => QueueInv'
<1> SUFFICES ASSUME QueueInv, [QueueNext]_queueVars PROVE QueueInv'
  OBVIOUS
<1>1. CASE \E q \in Queues, client \in Clients : Rest(q, client) \/ BeginSweep(q, client)
  BY <1>1, RestKeeps, BeginSweepKeeps
<1>2. CASE \E order \in Arrivals : Cancel(order)
  BY <1>2, CancelKeeps
<1>3. CASE Purge
  BY <1>3, PurgeKeeps
<1>4. CASE Unindex
  BY <1>4, UnindexKeeps
<1>5. CASE Project
  BY <1>5, ProjectKeeps
<1>6. CASE Allocate
  BY <1>6, AllocateKeeps
<1>7. CASE SpareMaker
  BY <1>7, SpareMakerKeeps
<1>8. CASE ExhaustMaker
  BY <1>8, ExhaustMakerKeeps
<1>9. CASE LeaveLevel
  BY <1>9, LeaveLevelKeeps
<1>10. CASE UNCHANGED queueVars
  <2>1. /\ Stamped' /\ PurgedGone' /\ LinksConsistent' /\ IndexLive'
    BY <1>10, ArenaKept DEF queueVars
  <2>2. QueueTypeOK' /\ SweepState' /\ OwnPurged' /\ ProjectedBehind' /\ ProjectionLive'
    BY <1>10 DEF queueVars, QueueInv, QueueTypeOK, SweepState, OwnPurged, ProjectedBehind,
                 ProjectionLive, Members, Before, Live, KeyOf
  <2> QED
    BY <2>1, <2>2 DEF QueueInv
<1> QED
  BY <1>1, <1>2, <1>3, <1>4, <1>5, <1>6, <1>7, <1>8, <1>9, <1>10 DEF QueueNext, SweepStep

\* The invariant holds throughout.
THEOREM QueueInvariant == QueueSpec => []QueueInv
  BY QueueInvInit, QueueInvStep, PTL DEF QueueSpec

\* push_back and remove_key keep every level's list threaded through exactly
\* its orders, in order of arrival, both ways, however often cells are reused.
THEOREM ListsStayLinked == QueueSpec => []LinksConsistent
<1>1. QueueInv => LinksConsistent
  BY DEF QueueInv
<1> QED
  BY <1>1, QueueInvariant, PTL

\* The index entry of a resting order never dangles and never names the next
\* tenant of its cell.
THEOREM IndexNeverDangles == QueueSpec => []IndexLive
<1>1. QueueInv => IndexLive
  BY DEF QueueInv
<1> QED
  BY <1>1, QueueInvariant, PTL

\* collect_makers hands the policy the whole level, oldest first and without
\* the taker's own orders, and every fill finds its maker where the projection
\* says.
THEOREM ProjectionStaysGood == QueueSpec => []ProjectionLive
<1>1. QueueInv => ProjectionLive
  BY DEF QueueInv
<1> QED
  BY <1>1, QueueInvariant, PTL

\* A walk that takes the link of its cursor leaves the cursor's node, and
\* nothing it had not left before, behind.
LEMMA CursorAdvances ==
  ASSUME QueueInv, cursor # Null, cursor' = node[cursor.cell].next, at' = at,
         \A c \in Members(at)' : c \in Members(at) /\ node'[c].arrival = node[c].arrival,
         \A c \in Members(at) : c # cursor.cell => node'[c].arrival = node[c].arrival
  PROVE  Pending' \subseteq Pending /\ Pending' # Pending
<1> DEFINE x == cursor.cell
<1>1. QueueTypeOK /\ at \in Queues /\ DistinctStamps
  BY IndexTellsApart DEF QueueInv, SweepState
<1>2. x \in Members(at)
  <2>1. cursor \in Keys /\ Live(cursor) /\ node[x].queue = at
    BY DEF QueueInv, QueueTypeOK, SweepState
  <2> QED
    BY <2>1, <1>1, LiveFacts DEF Members
<1>3. /\ \A c \in Members(at) : ~Before(c, c)
      /\ \A c, d \in Members(at) : Before(c, d) => ~Before(d, c)
      /\ \A c, d, e \in Members(at) : Before(c, d) /\ Before(d, e) => Before(c, e)
  BY <1>1, ArrivalOrders
<1>4. Pending = {node[c].arrival : c \in {d \in Members(at) : ~Before(d, x)}}
  BY DEF Pending
<1>5. node[x].arrival \in Pending
  BY <1>2, <1>3, <1>4
<1>6. CASE cursor' = Null
  BY <1>5, <1>6 DEF Pending
<1>7. CASE cursor' # Null
  <2>1. PICK d \in Members(at) : cursor' = KeyOf(d) /\ Before(x, d) /\ d # x
    BY <1>1, <1>2, <1>7, Onwards
  <2>2. cursor'.cell = d
    BY <2>1, <1>1, KeyFacts DEF Members
  <2>3. node'[d].arrival = node[d].arrival
    BY <2>1
  <2>4. Pending' = {node'[c].arrival : c \in {e \in Members(at)' : ~(node'[e].arrival < node'[d].arrival)}}
    BY <1>7, <2>2 DEF Pending, Before
  <2>5. ASSUME NEW a \in Pending' PROVE a \in Pending /\ a # node[x].arrival
    <3>1. PICK c \in Members(at)' : a = node'[c].arrival /\ ~(node'[c].arrival < node'[d].arrival)
      BY <2>4, <2>5
    <3>2. c \in Members(at) /\ a = node[c].arrival /\ ~Before(c, d)
      BY <3>1, <2>3 DEF Before
    <3>3. ~Before(c, x)
      BY <3>2, <2>1, <1>2, <1>3
    <3>4. c # x
      BY <3>2, <2>1
    <3>5. a # node[x].arrival
      BY <3>2, <3>4, <1>1, <1>2 DEF DistinctStamps, Members
    <3> QED
      BY <3>2, <3>3, <3>5, <1>4
  <2> QED
    BY <2>5, <1>5
<1> QED
  BY <1>6, <1>7

\* remove_client follows a link before it removes, collect_makers follows a
\* list nobody changes and the fills consume the projection: no sweep loops.
THEOREM SweepsAdvance == QueueSpec => SweepAdvances
<1> DEFINE Advance ==
             \/ pc = "idle"
             \/ pc = "purge" /\ pc' = "project"
             \/ pc = "project" /\ pc' = "fill"
             \/ pc = "fill" /\ pc' = "idle"
             \/ pc \in {"purge", "project"} /\ pc' = pc
                  /\ Pending' \subseteq Pending /\ Pending' # Pending
             \/ pc = "fill" /\ pc' = pc /\ Len(makers') < Len(makers)
<1>1. ASSUME QueueInv, [QueueNext]_queueVars PROVE [Advance]_queueVars
  <2>1. CASE \E q \in Queues, client \in Clients : Rest(q, client) \/ BeginSweep(q, client)
    BY <2>1 DEF Rest, BeginSweep
  <2>2. CASE \E order \in Arrivals : Cancel(order)
    BY <2>2 DEF Cancel
  <2>3. CASE Purge
    <3>1. /\ pc = "purge" /\ pc' = pc /\ cursor # Null /\ cursor' = node[cursor.cell].next /\ at' = at
      BY <2>3 DEF Purge
    <3>2. cursor \in Keys /\ Live(cursor) /\ node[cursor.cell].queue = at /\ at \in Queues
      BY <1>1, <3>1 DEF QueueInv, QueueTypeOK, SweepState
    <3>3. CASE node[cursor.cell].client = taker
      <4>1. RemoveKey(at, cursor)
        BY <2>3, <3>3 DEF Purge
      <4>2. /\ node'[cursor.cell] = Null
            /\ \A c \in Cells :
                 c # cursor.cell =>
                   /\ node'[c] = Null <=> node[c] = Null
                   /\ node[c] # Null => /\ node'[c].arrival = node[c].arrival
                                        /\ node'[c].queue = node[c].queue
        BY <4>1, <3>2, <1>1, Departure
      <4>3. /\ \A c \in Members(at)' : c \in Members(at) /\ node'[c].arrival = node[c].arrival
            /\ \A c \in Members(at) : c # cursor.cell => node'[c].arrival = node[c].arrival
        BY <4>2, <3>1 DEF Members
      <4> QED
        BY <4>3, <3>1, <1>1, CursorAdvances
    <3>4. CASE node[cursor.cell].client # taker
      <4>1. node' = node
        BY <2>3, <3>4 DEF Purge, arenaVars
      <4>2. /\ \A c \in Members(at)' : c \in Members(at) /\ node'[c].arrival = node[c].arrival
            /\ \A c \in Members(at) : c # cursor.cell => node'[c].arrival = node[c].arrival
        BY <4>1, <3>1 DEF Members
      <4> QED
        BY <4>2, <3>1, <1>1, CursorAdvances
    <3> QED
      BY <3>3, <3>4
  <2>4. CASE Unindex
    BY <2>4 DEF Unindex
  <2>5. CASE Project
    <3>1. /\ pc = "project" /\ pc' = pc /\ cursor # Null /\ cursor' = node[cursor.cell].next
          /\ at' = at /\ node' = node
      BY <2>5 DEF Project, arenaVars
    <3>2. /\ \A c \in Members(at)' : c \in Members(at) /\ node'[c].arrival = node[c].arrival
          /\ \A c \in Members(at) : c # cursor.cell => node'[c].arrival = node[c].arrival
      BY <3>1 DEF Members
    <3> QED
      BY <3>1, <3>2, <1>1, CursorAdvances
  <2>6. CASE Allocate
    BY <2>6 DEF Allocate
  <2>7. CASE SpareMaker
    <3>1. pc = "fill" /\ pc' = pc /\ makers # <<>> /\ makers' = Tail(makers)
      BY <2>7 DEF SpareMaker
    <3>2. Len(makers') = Len(makers) - 1 /\ Len(makers) \in Nat
      BY <3>1, <1>1, TailOfMakers DEF QueueInv, QueueTypeOK
    <3> QED
      BY <3>1, <3>2
  <2>8. CASE ExhaustMaker
    <3>1. pc = "fill" /\ pc' = pc /\ makers # <<>> /\ makers' = Tail(makers)
      BY <2>8 DEF ExhaustMaker
    <3>2. Len(makers') = Len(makers) - 1 /\ Len(makers) \in Nat
      BY <3>1, <1>1, TailOfMakers DEF QueueInv, QueueTypeOK
    <3> QED
      BY <3>1, <3>2
  <2>9. CASE LeaveLevel
    BY <2>9 DEF LeaveLevel
  <2>10. CASE UNCHANGED queueVars
    BY <2>10
  <2> QED
    BY <1>1, <2>1, <2>2, <2>3, <2>4, <2>5, <2>6, <2>7, <2>8, <2>9, <2>10 DEF QueueNext, SweepStep
<1>2. QueueSpec => [][Advance]_queueVars
  BY <1>1, QueueInvariant, PTL DEF QueueSpec
<1> QED
  BY <1>2 DEF SweepAdvances
===============================================================================
