----------------------------- MODULE MCOrderBook -----------------------------
(***************************************************************************)
(* Instances of OrderBook for TLC: sets of requests for its constant       *)
(* Requests, one per family of runs.  The .cfg of a run picks one.         *)
(***************************************************************************)
EXTENDS Views

CONSTANTS
  Quantities,   \* sizes of the requests
  Triggers      \* triggers of the stop requests

\* Fresh orders of the given types: nothing filled yet.
Fresh(types) ==
  {[client |-> c, side |-> s, type |-> t, original |-> q, remaining |-> q] :
     c \in Clients, s \in Sides, t \in types, q \in Quantities}

Limits(tif) == {[kind |-> "limit", price |-> p, tif |-> tif] : p \in Prices}
Market == [kind |-> "market"]
StopMarkets == {[kind |-> "stop_market", trigger |-> t] : t \in Triggers}

\* A stop that becomes a limit at its own trigger price.
StopLimits == {[kind |-> "stop_limit", trigger |-> t, price |-> t, tif |-> "gtc"] : t \in Triggers}

\* Limits of every time in force and market orders.
MatchingRequests ==
  Fresh(UNION {Limits(tif) : tif \in TimesInForce} \union {Market})

RestingRequests == Fresh(Limits("gtc"))

MarketStopRequests == Fresh(Limits("gtc") \union {Market} \union StopMarkets)
StopMarketRequests == Fresh(Limits("gtc") \union StopMarkets)

\* Orders a caller built with nothing left to fill.
SpentRequests ==
  RestingRequests \union {[request EXCEPT !.remaining = 0] : request \in RestingRequests}

LastTrigger == CHOOSE t \in Triggers : \A u \in Triggers : u <= t

\* One client only buys and the other only sells: no self trades, and room for
\* longer cascades.
Seller == CHOOSE c \in Clients : TRUE
TwoSided(requests) ==
  {request \in requests : request.side = "ask" <=> request.client = Seller}
CascadeRequests ==
  TwoSided(Fresh(Limits("gtc") \union StopMarkets)
           \union {request \in Fresh(StopLimits) :
                     request.side = "bid" /\ request.type.trigger = LastTrigger})

ClientSymmetry == Permutations(Clients)
===============================================================================
