---------------------------- MODULE TickLadderStore ----------------------------
(***************************************************************************)
(* TickLadderStore of src/src/storage.rs: one array of slots per side, a   *)
(* slot for every tick of the instrument's price band, and the cached slot *)
(* of the best level.  A slot holds the price its level was made for (the  *)
(* level's queue is in LevelQueue), or Null.                               *)
(***************************************************************************)
EXTENDS Instrument

CONSTANT TickSize   \* minor units between two slots

ASSUME LadderAssumption ==
  /\ TickSize \in Nat \ {0}
  /\ MinPrice \in Nat /\ MaxPrice \in Nat /\ MinPrice <= MaxPrice
  /\ Null \notin Int

VARIABLES
  ladder,   \* ladder[side][slot]
  best      \* best[side]: slot of the best level, or Null

ladderVars == <<ladder, best>>

\* try_new: as many slots as the band has ticks.
Slots == 0 .. (MaxPrice - MinPrice) \div TickSize

LadderInit ==
  /\ ladder = [s \in Sides |-> [n \in Slots |-> Null]]
  /\ best = [s \in Sides |-> Null]

\* Where a price belongs; Null when it is out of the band or off the tick.
SlotOf(price) ==
  LET slot == (price - MinPrice) \div TickSize
  IN  IF /\ price >= MinPrice
         /\ (price - MinPrice) % TickSize = 0
         /\ slot \in Slots
      THEN slot ELSE Null

\* Does slot m of a side come before slot n?
Ahead(side, m, n) == IF side = "bid" THEN m > n ELSE m < n

Occupied(side) == {n \in Slots : ladder[side][n] # Null}

\* ensure_level, for a price that has a slot.
EnsureLadder(side, price) ==
  LET slot == SlotOf(price)
  IN  /\ slot # Null
      /\ best' = [best EXCEPT ![side] =
                    IF @ = Null THEN slot ELSE IF Ahead(side, slot, @) THEN slot ELSE @]
      /\ ladder' = [ladder EXCEPT ![side][slot] = IF @ = Null THEN price ELSE @]

\* Mutant: the scan takes the occupied slot farthest from the removed one.
MutRepaired(side, removed) ==
  LET behind == {n \in Occupied(side) : Ahead(side, removed, n)}
  IN  IF behind = {} THEN Null
      ELSE CHOOSE n \in behind : \A m \in behind : m = n \/ Ahead(side, m, n)

\* repair_best_after_removal: the first occupied slot behind the removed one.
Repaired(side, removed) ==
  LET behind == {n \in Occupied(side) : Ahead(side, removed, n)}
  IN  IF behind = {} THEN Null
      ELSE CHOOSE n \in behind : \A m \in behind : m = n \/ Ahead(side, n, m)

\* remove_level.  Only a level at the cached slot moves the cache.
RemoveLadder(side, price) ==
  LET slot == SlotOf(price)
  IN  IF slot = Null
      THEN UNCHANGED ladderVars
      ELSE /\ ladder' = [ladder EXCEPT ![side][slot] = Null]
           /\ best' = [best EXCEPT ![side] =
                         IF ladder[side][slot] # Null /\ @ = slot
                         THEN Repaired(side, slot) ELSE @]

\* best_level, as the price it shows.
LadderTouch(side) == IF best[side] = Null THEN Null ELSE ladder[side][best[side]]

\* The order in which a side's slots are scanned, as a relation.
AheadFirst(side) == {pair \in Slots \X Slots : Ahead(side, pair[1], pair[2])}

\* levels, as the prices they show.
LadderLevels(side) ==
  LET slots == Ranked(Occupied(side), AheadFirst(side))
  IN  [i \in DOMAIN slots |-> ladder[side][slots[i]]]

-------------------------------------------------------------------------------
(* The ladder as a level store *)

LadderActive == [s \in Sides |-> {ladder[s][n] : n \in Occupied(s)}]

LadderStore ==
  INSTANCE LevelStore WITH active <- LadderActive, touch <- [s \in Sides |-> LadderTouch(s)]

\* The cached best slot and the slot arithmetic give what the ordered map
\* gives: after any calls, the touch is the best of exactly the levels the
\* engine created and has not removed (storage.rs:341-353).
LadderImplementsStore == LadderStore!StoreSpec
===============================================================================
