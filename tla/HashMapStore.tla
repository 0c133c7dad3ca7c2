------------------------------ MODULE HashMapStore ------------------------------
(***************************************************************************)
(* HashMapStore of src/src/storage.rs: a hash map of levels per side, and  *)
(* next to it a heap of their prices.  Only the top of the heap is ever    *)
(* read, so a heap is a bag of prices: how many times each is in it.       *)
(***************************************************************************)
EXTENDS Instrument

VARIABLES
  hashed,   \* hashed[side]: keys of the map
  heap      \* heap[side][price]: entries of the price in the heap

hashVars == <<hashed, heap>>

HashInit ==
  /\ hashed = [s \in Sides |-> {}]
  /\ heap = [s \in Sides |-> [p \in Prices |-> 0]]

\* ensure_level: a vacant entry also pushes its price.
EnsureHash(side, price) ==
  /\ hashed' = [hashed EXCEPT ![side] = @ \union {price}]
  /\ heap' = [heap EXCEPT ![side][price] = IF price \in hashed[side] THEN @ ELSE @ + 1]

\* Mutant: the price of a removed level stays in the heap.
MutRemoveHash(side, price) ==
  /\ hashed' = [hashed EXCEPT ![side] = @ \ {price}]
  /\ UNCHANGED heap

\* remove_level: retain drops every entry of the price.
RemoveHash(side, price) ==
  /\ hashed' = [hashed EXCEPT ![side] = @ \ {price}]
  /\ heap' = [heap EXCEPT ![side][price] = 0]

Heaped(side) == {p \in Prices : heap[side][p] > 0}

Top(side) == CHOOSE p \in Heaped(side) : \A q \in Heaped(side) : q = p \/ Better(side, p, q)

\* best_level: the level of the price on top of the heap, if the map has it.
HashTouch(side) ==
  IF Heaped(side) # {} /\ Top(side) \in hashed[side] THEN Top(side) ELSE Null

\* Mutant: the levels come in one order for both sides.
MutHashLevels(side) == Ranked(hashed[side], BetterFirst("ask"))

\* levels: the map's values, sorted on the way out.
HashLevels(side) == Ranked(hashed[side], BetterFirst(side))

-------------------------------------------------------------------------------
(* The map and its heap as a level store *)

HashStore ==
  INSTANCE LevelStore WITH active <- hashed, touch <- [s \in Sides |-> HashTouch(s)]

\* Map and heap never part: the touch is the best key of the map, and no price
\* whose level is gone is in its way (storage.rs:265-277, 300-311).
HashImplementsStore == HashStore!StoreSpec
===============================================================================
