----------------------------- MODULE MCAllocation -----------------------------
(***************************************************************************)
(* One price level fed to the allocation policies for TLC: makers come to  *)
(* rest, leave and get filled, orders rest elsewhere meanwhile, and in     *)
(* every level so reached each policy is asked to apportion every taker.   *)
(***************************************************************************)
EXTENDS Allocation, SequencesExt

CONSTANTS
  MaxLots,    \* bound: lots per maker
  MaxTaker,   \* bound: lots per taker
  Depth,      \* bound: makers at the level
  MaxNow      \* bound: arrivals

\* Sizes and ages of one word: no weight leaves two (allocation.rs:367-368),
\* here nor where weights are squeezed into three bits.
ASSUME LevelAssumption ==
  /\ {MaxLots, MaxTaker, Depth, MaxNow} \subseteq Nat
  /\ MaxAge < 2 ^ 3
  /\ MaxLots * Lot * MaxAge < 2 ^ (WordBits + WordBits)
  /\ MaxLots * Lot * MaxAge < 2 ^ (3 + 3)

VARIABLES makers, now

\* The same policies where ticks bucket arrivals in twos and the weights of
\* this level overrun their word.
Squeezed == INSTANCE Allocation WITH Tick <- 2, WordBits <- 3

Init == makers = <<>> /\ now = 1

\* The engine stamps the maker with the next arrival.
RestMaker(lots) ==
  /\ Len(makers) < Depth /\ now < MaxNow
  /\ makers' = Append(makers, [remaining |-> lots * Lot, arrival |-> now])
  /\ now' = now + 1

\* An order rests at another level.
RestElsewhere == now < MaxNow /\ now' = now + 1 /\ UNCHANGED makers

CancelMaker(i) == makers' = RemoveAt(makers, i) /\ UNCHANGED now

\* The makers with something left, in their order.
Live(ms) ==
  LET live[i \in 0 .. Len(ms)] ==
        IF i = 0 THEN <<>>
        ELSE IF ms[i].remaining > 0 THEN Append(live[i-1], ms[i])
        ELSE live[i-1]
  IN  live[Len(ms)]

Survivors(fills) ==
  Live([i \in DOMAIN makers |-> [makers[i] EXCEPT !.remaining = @ - fills[i]]])

Answers(available) ==
  {FifoAllocate(available, makers), ProRataAllocate(available, makers),
   TimeProRataAllocate(available, makers, now),
   Squeezed!TimeProRataAllocate(available, makers, now)}

Sweep(available) ==
  \E fills \in Answers(available) : makers' = Survivors(fills) /\ UNCHANGED now

Takers == {lots * Lot : lots \in 1 .. MaxTaker}

Next ==
  \/ \E lots \in 1 .. MaxLots : RestMaker(lots)
  \/ RestElsewhere
  \/ \E i \in DOMAIN makers : CancelMaker(i)
  \/ \E available \in Takers : Sweep(available)

Spec == Init /\ [][Next]_<<makers, now>>

-------------------------------------------------------------------------------
(* Properties: every level reached, every taker *)

\* Every shipped policy honours the contract (allocation.rs:5-12), its clause 4
\* as written there: what is allocated is min(available, total), in whole lots,
\* no maker beyond what it has.
PoliciesKeepContract ==
  \A available \in Takers : \A fills \in Answers(available) :
    /\ \A i \in DOMAIN makers :
         0 <= fills[i] /\ fills[i] <= makers[i].remaining /\ fills[i] % Lot = 0
    /\ Total(fills) = Smaller(available, Total(Sizes(makers)))

\* The contract as the engine's model states it allows exactly the allocations
\* the documented clauses allow.
ContractIsAsDocumented ==
  \A available \in Takers : \A fills \in [DOMAIN makers -> 0 .. MaxLots * Lot] :
    Contract(fills, available, makers) <=>
      /\ \A i \in DOMAIN makers : fills[i] <= makers[i].remaining /\ fills[i] % Lot = 0
      /\ Total(fills) = Smaller(available, Total(Sizes(makers)))

\* Pro-rata is fair to within one lot of the exact proportional share, and the
\* makers who get the odd lot are the oldest that have room for it.
ProRataIsFair ==
  \A available \in Takers :
    LET fills == ProRataAllocate(available, makers)
        total == Total(Sizes(makers))
        Excess(i) == fills[i] * total - available * makers[i].remaining
    IN  available < total =>
          /\ \A i \in DOMAIN makers : -Lot * total < Excess(i) /\ Excess(i) <= Lot * total
          /\ \A i, j \in DOMAIN makers :
               i < j /\ Excess(i) < 0 /\ Excess(j) > 0
                 => makers[i].remaining - fills[i] < Lot

\* Patience never hurts: of two makers of one size, the one that has rested
\* longer gets at least as much (allocation.rs:277-280), whether or not the
\* weights had to be shifted down to their word.
PatienceNeverHurts ==
  \A available \in Takers :
    LET fills == TimeProRataAllocate(available, makers, now)
        squeezed == Squeezed!TimeProRataAllocate(available, makers, now)
    IN  \A i, j \in DOMAIN makers :
          i < j /\ makers[i].remaining = makers[j].remaining
            => fills[i] >= fills[j] /\ squeezed[i] >= squeezed[j]

\* Time pro-rata is pro-rata where every maker has rested equally long
\* (allocation.rs:280-281); here because the tick buckets their arrivals
\* together or the cap hides the difference.
EqualAgesAreProRata ==
  (\A i, j \in DOMAIN makers : AgeTicks(makers[i], now) = AgeTicks(makers[j], now))
    => \A available \in Takers :
         TimeProRataAllocate(available, makers, now) = ProRataAllocate(available, makers)
===============================================================================
