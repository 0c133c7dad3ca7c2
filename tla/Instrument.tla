------------------------------ MODULE Instrument ------------------------------
(***************************************************************************)
(* What one instrument accepts (src/src/instrument.rs) and the order types *)
(* it is asked to accept (src/src/types.rs).  Prices and quantities are    *)
(* natural numbers on the instrument's lattice: ticks and base units.      *)
(*                                                                         *)
(* An absent upper bound (None in the code) is a bound above every value   *)
(* of the model, an absent notional floor is the floor 0: neither rejects  *)
(* anything, which is all that None means there.                           *)
(***************************************************************************)
EXTENDS Integers, FiniteSets

CONSTANTS
  Prices,        \* the prices orders may carry
  MinPrice,      \* admission band, in ticks
  MaxPrice,
  MinQty,        \* admission size limits, in base units
  MaxQty,
  MinNotional,   \* floor on price * quantity
  Null           \* None, for every Option of the code

\* A price is a number of ticks in a machine word.
ASSUME PricesAssumption == Prices \subseteq Nat /\ IsFiniteSet(Prices)

-------------------------------------------------------------------------------
(* Order types *)

Sides == {"bid", "ask"}
TimesInForce == {"gtc", "ioc", "fok"}

LimitTypes == [kind : {"limit"}, price : Prices, tif : TimesInForce]
MarketTypes == [kind : {"market"}]
StopMarketTypes == [kind : {"stop_market"}, trigger : Prices]
StopLimitTypes ==
  [kind : {"stop_limit"}, trigger : Prices, price : Prices, tif : TimesInForce]

StopTypes == StopMarketTypes \union StopLimitTypes
OrderTypes == LimitTypes \union MarketTypes \union StopTypes

Opposite(side) == IF side = "bid" THEN "ask" ELSE "bid"

\* Which of two prices a side quotes first: bids from the highest, asks from the
\* lowest.
Better(side, p, q) == IF side = "bid" THEN p > q ELSE p < q

\* The order of a side's levels, as a relation.
BetterFirst(side) == {pair \in Prices \X Prices : Better(side, pair[1], pair[2])}

\* The elements of S in an order: the n-th is the one with n - 1 before it.
Ranked(S, order) ==
  [n \in 1 .. Cardinality(S) |-> CHOOSE x \in S : Cardinality({y \in S : <<y, x>> \in order}) = n - 1]

IsStop(type) == type.kind \in {"stop_market", "stop_limit"}

\* The price the order rests at, now or once triggered; Null when it never rests.
LimitPrice(type) ==
  IF type.kind \in {"limit", "stop_limit"} THEN type.price ELSE Null

\* Every price the order carries: a limit, a trigger, or both.
PricesOf(type) ==
  CASE type.kind = "limit"       -> {type.price}
    [] type.kind = "market"      -> {}
    [] type.kind = "stop_market" -> {type.trigger}
    [] type.kind = "stop_limit"  -> {type.trigger, type.price}

-------------------------------------------------------------------------------
(* Admission *)

AdmitsPrice(price) == MinPrice <= price /\ price <= MaxPrice
AdmitsQty(qty) == MinQty <= qty /\ qty <= MaxQty
AdmitsNotional(price, qty) == price * qty >= MinNotional

\* The gate both entrances of the book pass.  It reads the original quantity
\* and never the remaining one.
Admits(order) ==
  /\ \A price \in PricesOf(order.type) : AdmitsPrice(price)
  /\ AdmitsQty(order.original)
  /\ LimitPrice(order.type) # Null
       => AdmitsNotional(LimitPrice(order.type), order.original)
===============================================================================
