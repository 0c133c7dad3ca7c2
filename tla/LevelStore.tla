------------------------------ MODULE LevelStore ------------------------------
(***************************************************************************)
(* What the matching engine asks of a level store, whatever its layout:    *)
(* the trait OrderBookStore and its baseline, the pair of ordered maps of  *)
(* BTreeStore (src/src/storage.rs).  A store holds the active prices of    *)
(* each side and knows the best of them.                                   *)
(***************************************************************************)
EXTENDS Instrument

VARIABLES
  active,   \* active[side]: the prices with a level
  touch     \* touch[side]: the best of them, or Null

storeVars == <<active, touch>>

\* The first key of the side's map.
TouchOf(side, prices) ==
  IF prices = {} THEN Null
  ELSE CHOOSE p \in prices : \A q \in prices : q = p \/ Better(side, p, q)

StoreInit ==
  /\ active = [s \in Sides |-> {}]
  /\ touch = [s \in Sides |-> Null]

Replace(side, prices) ==
  /\ active' = [active EXCEPT ![side] = prices]
  /\ touch' = [touch EXCEPT ![side] = TouchOf(side, prices)]

EnsureLevel(side, price) == Replace(side, active[side] \union {price})
RemoveLevel(side, price) == Replace(side, active[side] \ {price})

StoreNext ==
  \E side \in Sides, price \in Prices : EnsureLevel(side, price) \/ RemoveLevel(side, price)

StoreSpec == StoreInit /\ [][StoreNext]_storeVars
===============================================================================
