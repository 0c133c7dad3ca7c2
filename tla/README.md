# A TLA+ model of the order book

The repository is a limit order book for one instrument: a library, single
threaded, with three pluggable allocation policies and three pluggable level
stores. This directory models it in TLA+, checks the models with TLC and proves
with TLAPS every safety property the checks ask of it.

## 1. Inventory

| Component (source) | State | Operations | Interacts with | What makes it correct |
|---|---|---|---|---|
| Matching engine (`src/matching.rs`) | `last_trade_price`, `next_seq`; the order in hand and the report while a command runs | `submit`, `execute`, `process_{limit,fok_limit,market}_order`, `park_or_activate_stop`, `pop_triggered_stop`, `fill_against`, `fillable_quantity`, `activate` | calls the store, the level queues, the index and the policy; calls `add_order` for a remainder and itself for activated stops | price and time priority, no crossed book, no self trade, conservation of quantity, fill-or-kill is all or nothing, no reached stop is left behind, commands end |
| Order book (`src/orderbook.rs`) | store, arena, stop books, index, `next_arrival` | `add_order`, `cancel_order`, `admit`, read-only views | called by callers and by the engine | the index, the arena, the queues and the stop book agree, also after errors |
| Allocation policies (`src/allocation.rs`) | none | `allocate` of FIFO, pro-rata, time pro-rata | called by `fill_against` with a projection of one level | the five-clause contract; fairness to one lot; patience never hurts |
| Instrument (`src/instrument.rs`) | an immutable spec | admission bounds; conversions between decimals and ticks/lots; builder checks | `admit` | what is admitted is in band and on the lattice |
| Order types (`src/types.rs`) | plain data | builder, `limit_price`, `prices` | everywhere | - |
| Level queue and arena (`src/order_queue.rs`) | slot map of nodes with previous/next keys; head, tail, len per level | `push_back`, `remove_key`, `remove_client`, `collect_makers` | engine, `add_order`, `cancel_order` | the list is a FIFO of live nodes; stale keys are harmless |
| Level stores (`src/storage.rs`) | `BTreeStore`, `HashMapStore` (maps and heaps of prices), `TickLadderStore` (slots and a cached best index per side) | `ensure_level`, `level`, `best_level`, `remove_level`, `levels` | engine, order book | all three are the same ordered map |
| Tests, benches | - | - | `tests/properties.rs` states nine invariants, read here as claims | - |

Nothing runs concurrently: `submit`, `add_order` and `cancel_order` borrow the
book mutably, nothing is persisted, and there are no messages or timers. What is
hard about this code is sequential: a command is a long sequence of small
updates to five structures, some of its steps can fail or panic after earlier ones
have taken effect, a stop cascade re-enters the matching loop with a book the
previous execution left, an order travels between four places under one id, and
values computed before an update are used after it (the dry run of a
fill-or-kill, the maker projection, the last price). `PROJECT.json` lists these
hazards at their lines.

## 2. Modules

```
            Instrument                          Lattice <-- MCLattice
           /    |     \
 Allocation     |      LevelStore <== TickLadderStore, HashMapStore
     |  \       |                                \      /
     |   OrderBook ==> Ledger     Fifo <== LevelQueue -- Backend
     |      |
 MCAllocation  Views <-- MCOrderBook

 proofs:  DataProofs <-- OrderBookProofs <-- MatchingProofs <-- LedgerProofs
          DataProofs, LevelQueueProofs <-- BackendProofs
          DataProofs <-- AllocationProofs, LatticeProofs
```

(`A ==> B`: A is shown to implement B.)

| Module | Models | State and actions |
|---|---|---|
| **Instrument** | order types and their accessors, admission | none: operators. Prices and quantities are natural numbers on the lattice (ticks, base units), which is what `Price` and `Qty` are for |
| **Lattice** | `instrument.rs`: spec builders, decimal conversions, rounding, the notional floor, admission of bare units | the specs built, the prices and quantities callers hold, what was admitted; one action per builder call and conversion |
| **Allocation** | the contract of `MatchingAlgorithm` and the three policies | none: functions from positions to quantities, so clauses 1 and 2 of the contract (strictly increasing indices, no zero fills) are the representation. Loops are recursive functions over positions; the water-fill is a function of the number of passes, one more than makers being enough since every pass but the last caps one |
| **OrderBook** | `matching.rs`, `orderbook.rs`: the engine | see below |
| **Views** | queries, level snapshots, the reported outcome | none: operators on OrderBook's state |
| **Ledger** | abstract: an open quantity per order that only shrinks, in trades between two clients, and is retired once | `Accept`, `Trade`, `Retire` |
| **Fifo** | abstract: a queue per level; who rests joins the back, who leaves disturbs nobody | `Join`, `Leave` |
| **LevelQueue** | `order_queue.rs`: the arena (cells with versions), the doubly linked lists, the index, and the walks over a level in a sweep | `Rest` (`push_back`), `Cancel` (`remove_key`), `BeginSweep`, `Purge` (`remove_client`, a node per step), `Unindex`, `Project` (`collect_makers`, a node per step), `Allocate`, `SpareMaker`, `ExhaustMaker`, `LeaveLevel` |
| **LevelStore** | abstract: the trait of a level store and its baseline `BTreeStore` | `EnsureLevel`, `RemoveLevel`: the active prices and the best of them |
| **TickLadderStore** | slots, slot arithmetic and the cached best slot of each side | `EnsureLadder`, `RemoveLadder` |
| **HashMapStore** | the hash map and its heap of prices (only the top of a heap is read, so it is a bag) | `EnsureHash`, `RemoveHash` |
| **Backend** | the composition: LevelQueue under both stores, driven as the engine drives them | every step of LevelQueue with what it does to the stores |
| **MCAllocation**, **MCLattice**, **MCOrderBook** | instances for TLC | |
| **DataProofs** | lemmas | about finite sets, recursion, sums and order; no state |
| **OrderBookProofs**, **MatchingProofs**, **LedgerProofs** | theorems on OrderBook, Views and Ledger | |
| **LevelQueueProofs**, **BackendProofs** | theorems on LevelQueue, Fifo, the stores and Backend | |
| **AllocationProofs**, **LatticeProofs** | theorems on Allocation (MCAllocation) and Lattice | |

OrderBook and Backend are two views of one program. OrderBook names a resting
order by its id and keeps a level as a sequence of ids and a store as a set of
prices; it is about what the commands do. Backend is about how those sequences
and sets are kept: `ImplementsFifo` says the linked lists over reused cells are
the sequences, and `LadderImplementsStore` and `HashImplementsStore` that both
layouts are the sets.

### How OrderBook corresponds to the code

`queue[side][price]` is a level's list of ids, the active keys of a level map are
`levels[side]`, those of a stop map `triggers[side]`. `trades` and `cancelled` are
the report of the execution under way. `Storable` is the set of prices the store
has a place for: all of them with `BTreeStore` and `HashMapStore`, those of the band
with `TickLadderStore`, whose `ensure_level` is the one that can fail. `pc` and
the variables after it exist only while a command runs:

| Code | Actions |
|---|---|
| `submit` up to `execute` | `Submit` (an order that is not admitted changes nothing and has no action) |
| `add_order`, `cancel_order` | `AddOrder`, `CancelResting`, `CancelParked` |
| `process_fok_limit_order` | `KillUnfillable`, else `StartSweep` |
| `park_or_activate_stop` | `ActivateAtOnce`, `Park`, `ParkDuplicate` |
| `fill_against`, one iteration | `TakeLevel`, `CancelOwn`*, `Allocate`, `UnlinkExhausted`*, `LeaveLevel`; `EndSweep` |
| the match on time in force, the last price | `SettleWithoutRest`, `SettleByResting`, `SettleFails` (the `?`), `SettlePanics` (the `expect` on the arrival counter) |
| the loop of `submit` | `FireStop`, `EndCascade` |

The steps within `fill_against` are there so that the invariants are stated in
the middle of a sweep as well. Between them nothing else can run, which the
model has too: every command requires `pc = "idle"`. After a panic (`pc =
"panicked"`) no command is taken: the caller's thread is gone, and the invariants
say what it leaves behind.

With `Policy = "any"` the policy is *any* function that keeps the contract, so
the checks and the proofs about the engine hold for policies nobody has written yet.

## 3. Runs

`tlc -config <run>.cfg <module>` for each; each ends within a minute or two.

| Run (module) | What it asks | Bounds |
|---|---|---|
| `allocation` (MCAllocation) | contract, agreement of the engine's form of it with the documented one, fairness of pro-rata to one lot, patience, equal ages | every level of up to 4 makers of up to 3 lots of 2, takers of up to 9 lots: caps, crumbs, several water-fill passes; and once more (`Squeezed`) with 3-bit weights and ticks of two arrivals, where weights are shifted down and ages bucketed |
| `matching` (MCOrderBook) | types, index, never crossed, a sweep stops only when it must, fill-or-kill both ways, price priority, FIFO time priority, what queries, snapshots and outcomes say, ledger | 4 submissions under any policy, 2 clients, 2 prices, quantities 1 and 2, with cancels: two makers at a level, two levels in a sweep, own orders among them, partial fills |
| `cascade` (MCOrderBook) | no reached stop is left between commands; the last price is that of the last print; lookups; ledger; every command ends | 5 submissions, one buyer, one seller, two triggers: a trade fires a stop that trades and fires another, stop-limits that come to rest |
| `seeding` (MCOrderBook) | index and arrival order with orders added without matching, colliding ids, a price the store has no place for, and an arrival counter that runs out in any step | 2 submissions, 2 caller ids (one equal to an id the book mints), 4 arrivals |
| `backend` (Backend) | links, index, projection, levels and stores, progress of every walk, and the three refinements | 3 cells for 4 orders (so cells are reused under stale keys), 3 prices on a tick of 2, 2 clients |
| `lattice` (MCLattice) | specs stay consistent, conversions are exact or refused for the right reason, rounding, notional floor, admitted orders on the lattice | four grids and two impossible ones; words of 6, 11 and 12 bits for 64, 127 and 128; 3 decimal places for 28: every decimal of a set that straddles ticks, minor units and the ends of the words |

The bounds are the smallest at which the cases named happen: every property has
a mutant of the code (the `Mut...` definition next to what it mutates) that its
run refutes within the same bounds, and every action fires.

`MaxSeq` bounds the submissions and `MaxArrival` the arrivals (in `seeding`, and in
Backend, it is reached; in OrderBook it is the value `u32::MAX` of the counter).
`QtyLimit` stands for the 2^64 of a quantity and is out of reach but for
`fok_overflow`. `MaxLots`, `MaxTaker`, `Depth` and `MaxNow` bound MCAllocation, `Holding` and
`Inputs` the values held in Lattice.

**Symmetry.** Clients are interchangeable where the requests do not tell them
apart, cells always. No run with a liveness property uses symmetry.

**Fairness.** `FairSpec` has weak fairness of `Execution`, the disjunction of the
steps of a command already started: a command is one function call of a
single-threaded program, and a call that can take its next step takes it. Callers owe
nothing: no fairness is put on commands, and `AwaitCommand` lets them wait for
ever. `CommandsEnd` is then what the doc comment of `submit` argues: sweeps drain
levels, cascades drain stops, and no step blocks. Backend needs no fairness:
`SweepAdvances` is the measure that every step of a walk over a list decreases.

### Disagreements between the code and what is said of it

Each is a run that TLC must refute, with the lines quoted in `PROJECT.json`.

1. `stop_skipped`: a stop reached by a print in the middle of a sweep stays
   parked if the last print of the sweep does not reach it; the docs say a stop
   parks until a trade reaches its trigger.
2. `duplicate_id`: a submission that trades and whose remainder then cannot rest
   (a caller added an order under the id the book mints) fails: the trades stand, unreported, and
   `last_trade_price` is not updated.
3. `fok_overflow`: the fill-or-kill dry run adds quantities in a `u64`; a sum that
   wraps (release builds) kills an order the book could fill.
4. `spent_order`: admission never looks at the remaining quantity; an order
   added with none keeps its level alive under an unfilled taker, which
   an assertion of `fill_against` says cannot happen.
5. `equal_ages`: scaling the weights changes their ratios, so makers of equal age
   are not always apportioned as pro-rata would, which the doc says they are.
6. `foreign_price`: a `Price` remembers nothing of the spec that made it, and
   admission checks bounds only: a price off this instrument's tick is admitted,
   which a comment of `admit` says cannot happen. The stores then disagree: the
   maps take it, the ladder has no slot for it.

## 4. Proofs

`tlapm <module>.tla` for the eight proof modules. Proved for all values of the
constants, from the assumptions named in the modules: prices are a finite set of
naturals, requests are well-typed orders, cells are finite, the ladder's band and
tick are sane, `Null` is none of the values it stands beside, the policy is one of
those modelled, "any" included; for the policies that an age fits half a word of the
weights (`u32` in `u64`) and a quantity times an age two words; for the instruments that a
unit fits an integer and an integer a wide one (`u64`, `i128`, `u128`) and the
finest power of ten an integer.

Some theorems say more: they hold *under* a hypothesis, which excludes a behaviour
of the code the property is not meant for; the last column says where it shows.

| Hypothesis | What it excludes | Where it is seen to be needed |
|---|---|---|
| `CallerIds = {}` | orders added with `add_order`, which does not match and lets callers choose ids the book will mint | `duplicate_id`; a seeded book may be crossed |
| `NoSpentSeeds` | `add_order` of an order with nothing left (weaker than the above) | `spent_order` |
| `Storable = Prices` | a ladder whose band is narrower than the instrument's | `seeding` reaches the refusal |
| `[]StampsLeft` | that the `u32` arrival counter runs out | `seeding` reaches the panic |
| `[]OfferFitsWord`, `[]LevelsFitWord` | that quantities at the crossing levels, or at one level, add up to more than a `u64` | `fok_overflow`; `matching` with `QtyLimit = 3` refutes `DepthAddsUp`, not this theorem |
| `WholeRequests` | a request submitted partly filled, which no builder makes | the outcome is computed from the original quantity |
| `WeightsFitWord` | weights shifted down to their word | `equal_ages` |
| `OneLattice` | prices of an instrument of another tick or lot | `foreign_price` |

**The engine (OrderBookProofs).** `TypeCorrect` and `IndexAlwaysConsistent`. The part of
`TypeOK` that is not bookkeeping is that quantities stay natural numbers:
`maker.remaining_quantity -= fill.quantity` and the same for the taker never
underflow, under every policy that keeps clauses 3 and 4 of the contract. From
`IndexConsistent` the `expect`s of `cancel_order` and `remove_key` never fire and no
live order is unreachable by its id. Neither is inductive alone. The inductive
invariant `IInv` adds that an order is in hand throughout an execution, and that
the level under sweep is active until `LeaveLevel` (without it nothing would say
that a level whose queue is being emptied is the only one allowed to be empty).
`UnlinkKeepsIndex`, `RestKeepsIndex`, `ParkKeepsIndex`, `UnparkKeepsIndex` and
`AllocateKeepsIndex` say what each operation does to the index, whoever calls
it; then one lemma per group of actions.

**What the engine owes the orders (MatchingProofs).** `StepKinds` sorts the steps into
four kinds (nothing at rest changes, an order leaves, an order comes to rest, an
allocation); each property then needs, on top of `IInv`:

| Theorem | Property | What is added, and why |
|---|---|---|
| `QueuesStayInOrder` | `ArrivalOrder` | nothing: unlinking leaves a subsequence (`UnlinkKeepsOrder`), resting appends the newest stamp |
| `PrintsHavePriority` | `PricePriority` | `AtTouch`: the level under sweep is still the touch when the policy answers, since self-trade cancellations only remove |
| `NothingLeftToTrade` | `RemainderHasNoCounterparty` | `OpenMakers` and `LevelSpent`: all that rests is open, so an apportioned level leaves the taker full or every maker exhausted. Under `NoSpentSeeds` (callers add no order with nothing left), which `spent_order` shows is needed |
| `BookNeverCrossed` | `NeverCrossed` | the previous one: what rests is a remainder. Under `CallerIds = {}`: `add_order` does not match |
| `StopsAreDisciplined` | `StopDiscipline` | `HandInv`: while stops are reached, the order in hand is one that cannot fail to rest: an activated stop has a free id and passed admission as the limit it becomes. Under `Storable = Prices`: a ladder that refuses an activated stop's limit price interrupts the cascade |

**The level queue (LevelQueueProofs).** `ListsStayLinked`, `IndexNeverDangles`,
`ProjectionStaysGood`, `SweepsAdvance`. The inductive invariant `QueueInv` is
types; every node's stamp is in the past (`Stamped`); the three
properties themselves; that the cursor of a walk is live (`SweepState`); that own orders
behind the purge's cursor are gone (`OwnPurged`, `PurgedGone`: the index keeps the
purged ids until `Unindex`, which is why `IndexLive` excepts them); and that
the projection is the part of the level behind its cursor (`ProjectedBehind`).
Links, stamps and walks depend on each other: a removal keeps the neighbours' links only if they name
the nearest orders by stamp, and a cached key survives the removal of another
only because no two live nodes share a cell.

**The composition (BackendProofs).** `BackendInv` is `QueueInv`, the ladder's invariant
(a slot holds the price it is for; the cached slot is the best occupied one), the
heap's (a price is in it exactly if its level exists),
that both stores hold the same levels, and `LevelsHoldOrders`. From it
`LevelsAlwaysHoldOrders`, `BackendRunsQueues` (every theorem about the queue
holds in the composition), and the refinements `LadderIsStore` and `HashIsStore`,
initial states to initial states and every step to a step or a stutter.

On top of them, BackendProofs shows that the walk along the links is the level:
`ListIsQueue` proves `ImplementsFifo`, by an invariant of the walk (its n-th node is the
n-th oldest of its queue), so every removal from a list over reused cells takes one
order out of a sequence and leaves the rest in place. `LayoutsAgree` proves that
the ladder's slots and the map's keys, read from the touch outwards, are one list.

**What a caller is told (LedgerProofs).** These are the properties about sums. The
ground is `AllocateTotals` (what an allocation gives every maker, what it takes from
the taker, that the sums agree) and `TotalIsSum` (a loop that adds modulo a word computes the
sum, if that fits).

| Theorem | Property | Invariant, on top of `IInv` | Under |
|---|---|---|---|
| `FillOrKillFills` | `FokFillsCompletely` | `FokCovered`: the crossing levels of other clients still hold what a fill-or-kill past its dry run needs; cancelling own orders does not touch it, and an allocation takes as much from both sides | `NoSpentSeeds` |
| `KillsAreJustified` | `FokKillIsJustified` | none: the dry run adds level by level what `Liquidity` adds at once | `[]OfferFitsWord` |
| `LedgerIsKept` | `LedgerKept` | `Stakes`: an id is live in at most one of its three places, and the ledger shows what it has open there; ids are handed out once (`Fresh`) | `CallerIds = {}` |
| `ReportsAreTrue` | `OutcomeIsTrue` | `OutcomeInv`: the prints so far and what the taker has left make up the order; parked stops are whole | `CallerIds = {}`, `WholeRequests` |
| `LastPriceIsFollowed` | `LastPriceFollowsTrades` | `Fresh` and the invariant of `StopsAreDisciplined`: a remainder cannot fail to rest | `CallerIds = {}`, `Storable = Prices`, `[]StampsLeft` |
| `DepthIsWhole` | `DepthAddsUp` | `OpenMakers`, `NeverCrossed`: no level shows nothing, the spread is positive | `CallerIds = {}`, `[]LevelsFitWord` |
| `QueriesAgree` | `LookupsAgree` | none: counting over levels and triggers partitions the index | - |
| `CrossesTellsTheSweep` | `CrossesForetellsTrade` | none | - |
| `SnapshotsAreFollowed` | `SnapshotsFollow` | none: each step moves at most one id of a queue | - |
| `OldestTradeFirst` | `TimePriority` | `ArrivalOrder`; FIFO's answer gives to a maker only if all before it are exhausted (`FifoServesOldest`) | - |

**The policies (AllocationProofs).** `FifoHonours`, `ProRataHonours` and
`TimeProRataHonours`: at *every* well-formed level (any number of makers, any
quantities in whole lots, any ages) and for every taker, each policy keeps the
contract, hence is one of the policies "any" stands for in the engine's theorems. The
loops are recursive functions, and each is shown to be an unfolding of a step
relation whose invariant does the work: FIFO and the crumb sweep pour a remainder out
maker by maker; the floors of pro-rata leave fewer lots than there are makers with
room; a pass of the water-fill that caps nobody is the last, so there are at most as
many others as makers. On the levels that MCAllocation steps through (`LevelInv`),
`PoliciesAreHonest`, `ContractIsDocumented` (the two forms of the contract are one),
`ProRataDividesFairly` (every maker within one lot of its exact share),
`PatienceIsNeverPunished` (the older of two equal makers gets no less: it holds of
the weights, is kept by every pass, and by the crumb sweep, which serves the oldest first)
and `EqualAgesDivideEqually` (under `WeightsFitWord`: of weights in the ratio of the sizes
nobody is capped, so the first pass is the apportionment of pro-rata and the last).

**The instruments (LatticeProofs).** `LatticeInv` says that a specification was
made by builders from a valid grid and has its bounds on it and in order. All of
the conversions reduce to three facts about a decimal and a number of units, compared at the
finer of their scales: the comparison is a total order along the units, `split_minor`
returns the floor in it and `ceil_scaled` the ceiling. From these
`SpecificationsAreConsistent`, `ConversionsAreExact`, `RoundTripsReturn`,
`RoundingsBracket` and `FloorsAreExact`, for every width of the words, and `AdmissionKeepsLattice`
under `OneLattice`. Powers of ten are a recursive function (`Power`), since the
provers know nothing of `10 ^ n`.

**DataProofs.** Induction theorems that take an operator cannot be instantiated by the
provers at hand. Induction is therefore stated about *sets of good values*: `UpTo` (a set
that holds 0 and with each number the next holds all up to n) and `ByElements`
(likewise for finite sets, an element at a time), proved from well-foundedness by a counterexample
of least size. From them: least and greatest elements, so no `CHOOSE` of a touch, a
trigger or a slot is arbitrary; `RecursionExists` and `UnwindingExists`, that
what a recursive function or a fold is defined by exists and is unique, so the definition can be
unfolded; `SumIsWalk` and the algebra of sums on it (parts, renamings, groupings by
key, scaling); and finite sets in order (`RankedInOrder`, `OneOrder`, `JoinsInOrder`).
The model ranks a set with `Ranked`, the n-th element being the one with n - 1
before it, and not with `SetToSortSeq`, whose sorting operator has no
definition the provers can expand.

**Model-checked only.** `CommandsEnd`: liveness, and with it fairness and `ENABLED`, is
out of the prover's reach. Beyond that, what each theorem above excludes by its hypothesis: the
passing runs check the property there within their bounds (`seeding` that the index
survives failures and panics), and the refuted runs show code paths the hypotheses
rule out.

## 5. Not modelled

* Formatting and wording, timestamps, and the lifecycle field (the engine never
  updates it).
* The wrap of an arena slot's generation after 2^31 reuses.
* Allocation failures when the ladder is built.
* `notional_to_decimal` (a query about the 28 places of a decimal), and `ceil_scaled`'s
  refusal of a zero floor at scales whose power of ten does not fit, which
  `FloorIsExact` exempts.
* Debug assertions as panics: the model is the release build; what the assertions
  say is stated as properties instead.
* Benchmarks, property tests and test helpers.

## 6. What is left

1. OrderBook over Backend: the engine's commands with the linked lists in place
   of sequences. Today the two meet at the abstract modules Fifo and LevelStore,
   both of which are proved to be implemented.
2. Two books under two policies side by side: what must agree (fill-or-kill
   decisions, quantities traded, price priority) and what may differ.
