# A TLA+ model of go-lru

go-lru is a Go library of in-process LRU caches that weigh their entries and
give memory back when the process is under pressure. This directory holds TLA+
specifications translated from its source, the TLC configurations that check
them on small instances, and proofs that TLAPS checks for every instance.

    tlc -config MCMapCache.cfg MCMapCache      # model-check one run
    tlapm MapCacheProofs.tla                   # check the proofs of one module

`PROJECT.json` is the machine-readable index: components, runs, one mutant per
property, the source lines behind every definition, findings, hazards, theorems.

## 1. Inventory

| Component | Source | State | Operations |
|---|---|---|---|
| Map backend | `map_lru.go` | hash index, intrusive recency list, `currentSize`, embedded `pressureState` | Put, Replace, Get, Peek, Delete, DeletePrefix, Compact, EvaluateMemoryPressure, iterators, Stats |
| Radix backend | `radix_lru.go` | compressed trie (left child, right sibling), recency list | the same, DeletePrefix by subtree |
| Arena backend | `arena_radix.go`, `arena_radix_lru.go` | nodes in slices linked by index, free lists, byte arena for prefixes, open-addressed hash index with collision peers | the same; compaction renumbers every node |
| Sharded cache | `sharded_lru.go` | an array of backends, one shared pressure sample | routes by hash; multi-shard operations visit shards one lock at a time |
| Reclamation policy | `pressure.go` 1693-1711, 3923-4150, 5359-5394 | `peakEntryLen`, `deletedSinceCompact`, `zeroSizeCount`, `lastReclaimedLen`, `lastReclaimedZeroCount` | watermark updates, compaction predicates, shed targets |
| Pressure sampling | `pressure.go` 2774-3921 | cached sample behind a sequence number, reclaim and external epochs, recovery epochs, samplers in flight | sample, publish, invalidate, retry |
| Callback delivery | `pressure.go` 4152-5347 | `evictCallbackMu`, `evictCallbackResolveMu`, hold sequence, holder goroutine, contended flag, pending queue | invoke, hold, fast and slow unlock, enqueue, drain |
| Goroutine lineage | `pressure.go` 35-1475, 2043-2660, 4512-4815 | caches of parsed stacks | "was this goroutine started inside that callback?" |
| Telemetry | `pressure.go` 1723-1745, 5396-5507 | wrapping counters | record, snapshot, parity checks |
| Options | `options.go` | none after construction | validation, threshold reconciliation |
| Interface, errors | `cache.go`, `errors.go` | none | constructors |
| OpenTelemetry adapter | `otellru/` | none of its own | reports Stats |
| benchcheck | `cmd/benchcheck/` | none | compares benchmark reports |

**How they interact.** Every mutator of a backend calls `lockWithPressure`,
which samples the user's `PressureFunc` *before* taking the cache lock, takes
the lock, and retries or corrects the reading if an epoch moved in between. The
operation runs under that lock, evicts for capacity, then reclaims for pressure
(Tier 1: compaction; Tier 2: shedding down to a fraction, then compaction) and
advances the reclaim epoch, which makes other readings stale. Eviction events are
queued under the lock and delivered after it is released, one operation at a
time under `evictCallbackMu`. Callbacks are user code: they may call the cache
again, start goroutines that do, wait for those goroutines, or panic. The shards
of a sharded cache share one coordinator: one sample, one epoch to invalidate it
and one callback hold, so callbacks of different shards are serialised too.

**What is hard.** Byte accounting in unsigned integers through loops that evict
while an entry is being resized; three interacting watermark families; the entry
being written must not be the victim of the shedding it causes; a lock-free
unlock that races with callers that hand over their events; samples that become
stale between reading and use; index-linked structures that are renumbered.
`PROJECT.json` lists each of these under `hazards`, at the line where it bites.

**What makes each part correct.**

* Backends: index, list and byte total agree at every step; the budget is never
  exceeded; victims leave oldest first; the entry being written survives; every
  departure is reported once, in order; Tier 2 reaches its target; loops end.
* Policy: watermarks cover the state they summarise; weightless entries stay
  bounded although they use no budget.
* Callbacks: none lost, none repeated, none outside a hold, no wait cycle; a
  panic leaves no trace.
* Sampling: a reading is not applied after a reclamation or a recovery that it
  does not reflect; retries are bounded; a cached sample is never torn.
* Trie and arena: the structure represents exactly the set of keys; every key is
  found; free slots and live slots are disjoint; compaction preserves the map.
* Sharding: the shard budgets add up to the total; an operation on all shards is
  the sum of its parts.

## 2. Plan

| # | Module | Models | State |
|---|---|---|---|
| 1 | `PressurePolicy` | reclamation policy, pure operators | done |
| 2 | `MapCache` (extends 1), `MCMapCache` | map backend | done |
| 3 | `LRUCache` | what every backend promises, one step per operation | done |
| 4 | `MapCacheContract`, `MCMapContract` (extend 2) | the map backend implements 3 | done |
| 5 | `MapCacheProofs`, `MapCacheOutcomeProofs`, `MapCacheLimitsProofs` (extend 2) | theorems: every invariant the map runs check | done |
| 6 | `EvictCallbacks`, `MCEvictCallbacks` | callback delivery | done |
| 7 | `FreshSample`, `CachedSample`, `MCCachedSample` | the cached sample: an atomic cell, and the sequence lock that implements it | done |
| 8 | `PressureSampler`, `MCPressureSampler` | epochs, retries, recovery epochs, passes over several shards | done |
| 9 | `RadixTrie`, `RadixCache` (extends 1), `MCRadixCache` | radix backend; implements 3 | done |
| 10 | `ArenaHash`, `MCArenaHash` | hash index of the arena backend | done |
| 11 | `PrefixArena`, `MCPrefixArena` | byte arena of the arena backend | done |
| 12 | `EvictCallbacksProofs` (extends 6) | theorems: every invariant of callback delivery | done |
| 13 | `CachedSampleProofs` (extends 7) | theorem: the sequence lock implements the cell | done |
| 14 | `PressureSamplerProofs` (extends 8) | theorems: every property of the sampling protocol | done |
| 15 | `MapCacheContractProofs` (extends 4, 5) | theorem: the map backend implements 3 | done |
| 16 | `ArenaHashProofs` (extends 10) | theorems: both invariants of the hash index | done |
| 17 | proofs about `PrefixArena`, `RadixCache` | `SpansDisjoint`, `KeysIntact`, `HandedStringsIntact`; `TrieWellFormed`, `EntriesAgree` | model-checked; see section 8 |

The order followed risk: the accounting every backend shares, the hand-written
synchronisation, then the structures; the proofs follow in the same order.

How the modules divide one system. `MapCache` and `RadixCache` take a pressure
sample as any answer of `Samples`; `PressureSampler` says which samples an
operation can get, and takes what the operation does with it as a free choice.
`PressureSampler` reads the cached sample in one step; `CachedSample` shows that
the thirteen loads of the code are as good as one. The backends queue events;
`EvictCallbacks` delivers them. `ArenaHash` and `PrefixArena` are two disjoint parts
of one backend's state and leave victims open; `RadixCache` and `PressurePolicy`
say which they are.

## 3. The map backend: `PressurePolicy` and `MapCache`

Every mutator holds `c.mu` from `lockWithPressure` to unlock, so at most one is
in flight. The variables `entries`, `index`, `size`, `currentSize` and `ps` are
the fields of `mapCache` and `pressureState`; `op` holds the locals of the
operation in flight and `pc` the point it has reached. Each iteration of an
eviction, prefix or shedding loop is an action; straight-line code between two
loops is one action.

| Code | Actions |
|---|---|
| `Put`, `updateExistingOnPutLocked` | `PutExisting`, `UpdateEvict`, `UpdateStore` |
| `Put`, new key | `PutNew`, `InsertEvict`, `InsertStore` |
| `Replace`, `replaceResizeOrEvictLocked`, `canFitGrowthLocked` | `ReplaceGrow`, `ReplaceEvict`, `ReplaceStore`, `ReplaceNoGrowth`, `ReplaceSelfEvict` |
| `Get`, `Delete`, `DeletePrefix`, `Compact`, `EvaluateMemoryPressure` | actions of the same names, `DeleteAll` for the empty prefix, `PrefixErase`, `PrefixDone`, `MissUnderLock` |
| `finishDeleteReclaimLocked` | `FinishDeleteEmpty`, `FinishDelete`, `FinishDeleteReclaim` |
| `maybeReclaimUnderPressureLocked`, `shedAndCompactLocked` | `ReclaimTier1`, `ReclaimTier2`, `ShedEvict`, `ShedSkip`, `ShedStop` |
| `completeShedAndCompactLocked`, `finishMutationReclaimLocked` | `CompleteShedEmpty`, `CompleteShed`, `FinishMutation` |

Abstractions, and why they lose nothing the properties look at:

* a value is its weight, a key a model value, a prefix the set of keys it
  selects; iteration over the Go map in `DeletePrefix` is a choice of any
  remaining key, as in Go;
* `options.go` reconciles the thresholds so that compaction is not above
  eviction, hence three pressure levels (`Levels`);
* a sample is any answer of `Samples`. A call made from inside `PressureFunc`
  gets level 0 marked invalid, as `lockWithPressure` does. Whether a reading was
  below Tier 2 since the last shedding is a free choice where only the sampling
  protocol would decide it;
* `reclaimEpoch == sampledEpoch` is `op.marks = 0`: the lock is held, so only
  this operation advances the epoch;
* `deletedSinceCompact` saturates at `DeletedCap`, which is at least every value
  it is compared with; `CapAssumption` says so;
* the retention ratio is a fraction `RetentionNum / RetentionDen`;
* the churn threshold `MinChurnCompactDeletes` (64 in the code) is at least 2, and
  `SlackAssumption` says so. With 1, an operation that has compacted around a single
  survivor and then sheds it would compact twice;
* telemetry counters wrap at `CounterModulus`. Hit, miss, per-kind compaction
  and shed counters, which nothing reads, are left out. Peek, the iterators and
  Stats change nothing else and have no action;
* an entry is its key. That `Put` reuses the struct of the entry it evicted first
  (`map_lru.go` 402) is not represented: nothing here would notice a reused struct
  that kept something of its old key. `RadixCache` does represent its reused nodes.

`TotalWeight` counts a weight in unit cells (`Cells`), a cardinality rather than
a recursive sum, so that the same definition serves TLC and the proofs. In the same
way `Departures` is the set of places in the queue that hold a departure, and
`DeparturesNotified` and `QueueOrder` compare places.

### The promise: `LRUCache`

`LRUCache` is the contract of the `Cache` interface: a set of weighted keys in
recency order, within the budget, with one step for each operation. It leaves open
how keys are stored and how much the pressure policy takes, but not what: among
entries that weigh something, and among weightless ones, always the oldest, and
never the entry being written. (The two classes are separate because
`shouldEvictShedVictim` passes over entries of the class whose target is already
met.) The order of the keys is a list without repetitions (`Arranged`), and their
weight is counted in units (`Total`), so that the contract can be reasoned about
without induction over the list. `MapCacheContract` maps `MapCache` to it: until an operation unlocks, the
abstract contents are those it found, so the refinement says that each operation,
loops and all, is one operation of the contract. `RadixCache` implements the same
contract through the keys and weights that `All()` would yield.

### Runs

| Run | Instance | Shows |
|---|---|---|
| `map_cache` | 3 keys, weights 0..4, budget 3, ratio 1/2, two prefixes | every operation at every pressure level: agreement of list, index and total (`ListMatchesIndex`, `SizeParity`), the budget (`CapacityBound`), watermarks, which cover the entries and are exact after a compaction (`WatermarksCover`), reports of departures (`DeparturesNotified`, `QueueOrder`), Replace (`ReplaceGrowthFits`, `ReplaceFitsBesideNewer`), targets of shedding in bytes and in weightless entries (`ShedReachesTarget`), one epoch and one compaction per operation (`ReclaimsOnce`) |
| `map_contract` | 3 keys, weights 0..2, budget 2 | the backend implements `LRUCache` (`ImplementsLRU`: recency, victims, protection of the written entry) and every operation reaches its unlock (`OperationCompletes`) |
| `map_limits` | 3 keys, budget 1, ratio 0, counters modulo 2 | at most `2 * MaxSize` entries, weightless ones included, and an exact `zeroSizeCount` at every step (`EntryCountBound`); the balances that `checkCounterInvariants` asserts, and the documented weight balance, survive wrap-around (`CountersBalance`) |
| `map_idempotence` | 2 keys | finding 1 |
| `map_strict_order` | 3 keys | finding 2 |

*Bounds.* Three keys are the fewest with an entry that is neither newest nor
oldest, which `Replace` and protected shedding need. Weights run from 0 over
"fits with others" and "fills the budget" to one above the budget (rejected). With
`MinPeakSlackEntries` 1 and `MinChurnCompactDeletes` 2, smaller than the code's
constants, the slack and churn rules fire within three entries; they are
parameters of the theorems. In `map_limits` three keys exceed `2 * MaxSize`, so
`EntryCountBound` is not met by lack of keys, and ratio 0 is the full flush.

*Fairness.* `WF_vars(Step)`: the goroutine that holds the cache lock does not
block before its unlock (callbacks run after it), so it is always scheduled again.
Callers owe nothing: `Call` is not fair.

### Findings

1. `map_idempotence`: `docs/architecture.md` says the watermarks keep repeated
   evaluations at sustained critical pressure idempotent. With one entry that
   weighs something and one weightless entry the first evaluation sheds the
   former and records no watermark that stops the second from shedding the latter.
2. `map_strict_order`: `docs/architecture.md` says capacity and pressure
   evictions fire in strict LRU-to-MRU order. A Replace that no longer fits
   evicts its own entry from the middle of the list and may then shed older ones.
   `QueueOrder` states the order that does hold: oldest first,
   a Replace that evicts its own entry apart.

## 4. Callback delivery: `EvictCallbacks`

One call stands for one `invoke` with a non-empty queue; its events are one
unit, and a goroutine is named after the first call that ran on it. Each action
is one access to a shared variable, or one critical section of
`evictCallbackResolveMu`, that another goroutine can observe; the lock-free tests
of the fast unlock (`FastCheck`, `FastIdle`, `FastRecheck`) and of a contender
(`Slow`, `Resolve`, `ResolveTest`, `ResolveStore`, `Match`, `MatchCheck`,
`Enqueue`, `AppendPending`) are steps of their own.

User code is unconstrained: a callback may return, panic, call the cache
(`CallInCallback`), or start a goroutine that does and either join it
(`"awaited"`) or not (`"detached"`); a detached goroutine may call again after
the hold that started it has ended (`CallAgain`).

* Profiling labels, snapshots and the lease of the fast tag only decide between
  the fast and the slow form of a hold: the choice is free.
* Goroutine lineage is replaced by its answer (`Answers`): certain for a
  goroutine the callback waits for, either way for a detached descendant, no for
  all others. That is what stack parsing can promise: the creation chain of a live
  goroutine is readable, that of one whose creator ended may not be.

### Run

| Run | Instance | Shows |
|---|---|---|
| `evict_callbacks` | 3 calls, 1 panic | no lost, repeated or displaced callback; nothing is left behind between holds; nobody waits for their own holder; a call leaves its events to the holder only when its goroutine is the holder's or was started by a callback of the same hold, and a call from outside delivers them itself (`OutsidersDeliverTheirOwn`); every call returns and its events are delivered, or discarded by a panic (`EveryCallSettles`) |

*Bounds.* Three calls give a holder, a re-entrant caller or child, and an
independent contender, and also two successive holds with a stale observer. Calls
are numbered in starting order, which removes the symmetric duplicates. Four calls
without a panic (5.8 million states) satisfy the same invariants; that instance is
too slow to run routinely.

*Fairness.* `WF_vars(\E c : Deliver(c) \/ Return(c))`: as long as some goroutine
can run, one does, and user callbacks return once what they wait for has returned.
It is one condition for the whole system: calls are finite in number, so none
can be starved for ever by others, and no fairness of the mutex is assumed.

Two observations from breaking the model on purpose. The second test of the fast
unlock (`FastRecheck`) is not what saves late enqueues, since a contender
validates the hold before it appends; it is what prevents an announced
contention from surviving the hold (`HoldLeavesNoTrace`). And the republication of
the sequence in `prepareSlowEvictDrain` is defensive: no reachable state needs it.

## 5. Pressure sampling

### The cached sample: `FreshSample` and `CachedSample`

The coordinator keeps its latest sample in ten atomics. Writers change them one
store at a time under `pressureWriteMu`, behind `cachedPublishSeq`, which is odd
while a publication is under way; readers load them without a lock
(`readValidCachedSampleWithPubSeq`). In `CachedSample` a step is one load or one
store; a store of a value that is already there is a step too. `FreshSample` is a cell that changes and is read in one step.

| Run | Instance | Shows |
|---|---|---|
| `cached_sample` | 1 reader, 2 epochs, publication numbers up to 4 | the protocol implements the cell (`ImplementsFreshSample`): no torn sample, none withdrawn before the read began, none of another epoch; a read always returns (`ReadersReturn`) |

Readers write nothing shared, so one reader shows what any number would see. The
refinement mapping: the cell is what is stored while the number is even and the
flags are good; what a reader holds is the cell until the number moves, and what it
has loaded after it looked at the number the second time. That the mapping is a
step-by-step refinement is the argument for the code's order of loads and stores.
*Fairness*: a goroutine in the middle of a read, or inside the short critical
section of `pressureWriteMu`, goes on running.

### The protocol: `PressureSampler`

One goroutine runs one operation at a time: on one shard ("write"), or on all
shards in turn ("prefix" and "evaluate": `DeletePrefix`, `Compact` and
`EvaluateMemoryPressure` of `sharded_lru.go`). The variables are the epochs of each
`pressureState`, the coordinator's bookkeeping (`co`), what each shard last applied
and who holds its lock (`shard`), and the locals of each goroutine (`th`).

| Code | Actions |
|---|---|
| the loads before a reading, `PressureFunc`, its panic | `Capture`, `Store`, `Panic`; `NestedReclaim` when it reclaims on the cache itself |
| `lockWithPressure`, fast path on the default probe | `Enter`, `FastReuse`, `FastAdopt`, `FastFail` |
| the sampling miss | `MissApply`, `MissAdopt`, `MissFail` |
| `lockWithPressureSlow`, `resolvePostRetryPressureLocked` | `Retry`, `Resolve` with its four outcomes |
| a sample carried to the next shard | `CarryApply`, `CarryFail`, `SkipEmpty` |
| the operation, its reclamation, the unlock | `Leave` |

`seen`, a history field of every sample, records how often each goroutine had
reclaimed when the reading was made (`atReading` keeps that while the reading is
under way): the properties speak of what the reading reflects and not of the numbers
the code compares.

`ElevatedIsCurrent` rests on one assumption about user code, here and in its theorem: a
`PressureFunc` that operates on the cache itself does so before it reads the pressure
(`NestedReclaim` moves `atReading`, the moment of the reading, to itself). One that reads first and
reclaims afterwards returns a reading that its own reclamation has overtaken, which the
library cannot know.

| Run | Instance | Shows |
|---|---|---|
| `sampler_custom` | 2 goroutines, 2 shards, 3 operations, user `PressureFunc` | no operation acts on an elevated reading that another's reclamation has overtaken, unless its cross-shard retries are spent and its own shard is untouched (`ElevatedIsCurrent`), or that a later low reading has overtaken (`RecoveryNotUndone`); readings per lock are bounded (`RetriesBounded`) |
| `sampler_shards` | 2 goroutines, 2 shards, 2 operations, default probe, window 2, passes over both shards | `ElevatedIsCurrent` for the fast paths and for carried samples; a shard never goes back to an older sample (`SamplesAdvance`); every step of a goroutine brings its operation nearer to its end (`OperationsEnd`) |

*Bounds.* Two operations in flight are what it takes to overtake a reading; the
third of `sampler_custom` exercises a shard that has already applied something. The
retry limits are 0 or 1 instead of 2 and 4, so that they run out. Readings are 0
and 2: a Tier 1 reading follows the same rules with a recovery epoch of its own, and
is left out of the instances to keep them small.

*Progress without fairness.* `OperationsEnd` is a ranking argument: `StepsLeft`, a
natural number, falls with every step of its goroutine, whatever the others do; and
the deadlock check shows that some goroutine can always step until all are done.
Together they give termination from the mere assumption that the program runs.

## 6. The radix backend: `RadixTrie` and `RadixCache`

`RadixTrie` is the path-compressed trie as a heap of nodes: lookup, insertion with
edge splits, removal with upward merging, the cut of a subtree, key
reconstruction, and the two nodes a Put keeps for reuse. `RadixCache` puts the
recency list and the policy on top, one action per operation of the interface;
nothing half done is visible to another operation, since all run under `c.mu`. Inside
an action the handlers are functions of a cache record, in the order of the code.

| Run | Instance | Shows |
|---|---|---|
| `radix` | keys 1, 11, 12; weights 0..2, budget 2; prefixes 1, 11 and the empty one | the trie keeps its shape (`TrieWellFormed`), list, lookup and totals agree with it (`EntriesAgree`), callbacks are told the keys that left (`DeparturesNamed`), each call does what it is for (`CallsTakeEffect`), and the backend implements `LRUCache` (`ImplementsLRU`) |

The three keys make every split and merge happen: two siblings under a routing
node, that node turning into an entry and back, an entry with one child left. TLC's
`VIEW` ignores `report`, which no operation reads, and the addresses of nodes,
which no operation compares: two states with the same view have the same futures up
to those, and each transition is still checked when it is generated. The empty key,
whose entry is the root, is not in the instance.

## 7. The arena backend: `ArenaHash` and `PrefixArena`

The arena backend runs the same trie algorithm over nodes in slices. Two parts of
it have no counterpart in the radix backend, and a module each.

**`ArenaHash`**: the open-addressed table with linear probing and backshift
deletion, the lists of collision peers beside it, promotion of a peer when its
slot's node goes, resizing, the renumbering of nodes by compaction, and the rule that
a miss is trusted when the counts say that the table is complete. The trie is
represented by the key of each node. Which free node an insertion takes, which entries
are evicted and whether a compaction is due is left open, and so is how many nodes
without a value lie between those with one when a compaction renumbers them. Probing
is stated by where it ends (`Probe`: the first index from home on that is empty or
is being looked for); the other loops are functions of the number of iterations:
backshift deletion (`Swept`), copying a table (`Reinsert`), a round of evictions
(`EraseAll`) and the rebuild (`Rebuild`). The guard
`nodeMapDirty` on contiguous compaction is over-approximated: the model may
compact where the code would not.

**`PrefixArena`**: the shared byte slice that holds every edge, the table of free
spans with coalescing and carving, trimming of the tail, growth and exact
compaction, splits, merges and the collapse of a sibling in place, the length header
of large prefixes, and the pins on spans that back a string some callback or
iterator was given (`handed`: what callers still hold). A node is named by the
string its path spells.

| Run | Instance | Shows |
|---|---|---|
| `arena_hash` | 4 keys: two with one hash, a third with the same tag, a fourth with the same home; 5 nodes, least capacity 2 | each lookup finds exactly its key's node (`LookupsExact`) and each entry is indexed in exactly one place, with exact counts (`IndexIsPartition`) |
| `arena_store` | keys 1, 1111, 1112, 112; large from 3 bytes on, 2 free spans, 3 entries, with and without an entry callback | the bytes of every node are its edge (`KeysIntact`), strings callers hold keep their bytes (`HandedStringsIntact`), live and free spans lie apart and are counted (`SpansDisjoint`) |

*Bounds.* In `arena_hash` all four keys collide in some way, chains wrap around the
end of the table, and the table grows and shrinks. `EntryCallback` is FALSE: this is
the instance in which evictions take the fast deletion path. In `arena_store` the
constants of the code (65535, 512, 64, 32) are scaled to 3, 2, 4 and 2 in the same
order; the arena is at most six cells between operations, which lets spans be
carved, joined and trimmed. The second pass of the tail-trimming loop is not reached
in this instance; every other branch is. `VIEW` masks cells outside live spans and
held strings, which are written before they are read. A header is one cell, the
copy of the first byte in the node and the 4 GiB limit are left out, and a rebuild
lays the prefixes out in key order.

## 8. Proofs

Every invariant and every step property that the runs check of `MapCache`,
`EvictCallbacks`, `CachedSample`, `PressureSampler` and `ArenaHash` is also a theorem,
for every value of the constants that satisfies the assumptions named in the modules. So is
the refinement of `LRUCache` by the map backend. What is only model-checked is
listed at the end.

### The map backend

For every finite set of keys, every set of weights, every budget, ratio, prefix
family, slack parameter and counter width (`KeysAssumption`, `WeightsAssumption`,
`MaxSizeAssumption`, `RetentionAssumption`, `SlackAssumption`, `CapAssumption`,
`ModulusAssumption`, `PrefixesAssumption`):

| Module | Theorem | Property |
|---|---|---|
| `MapCacheProofs` | `TypeCorrect` | `TypeOK` |
| | `ListAlwaysMatchesIndex` | `ListMatchesIndex` |
| | `SizeAlwaysExact` | `SizeParity` |
| | `CapacityNeverExceeded` | `CapacityBound` |
| | `ReplaceKeepsItsPromise` | `ReplaceGrowthFits` |
| `MapCacheOutcomeProofs` | `WatermarksAlwaysCover` | `WatermarksCover` |
| | `ReclaimsOnceOnly` | `ReclaimsOnce` |
| | `DeparturesAlwaysNotified` | `DeparturesNotified` |
| | `ReplaceAlwaysFits` | `ReplaceFitsBesideNewer` |
| | `QueueAlwaysOrdered` | `QueueOrder` |
| `MapCacheLimitsProofs` | `SheddingReachesTarget` | `ShedReachesTarget` |
| | `CountersAlwaysBalance` | `CountersBalance` |
| | `EntriesAlwaysBounded` | `EntryCountBound` |
| `MapCacheContractProofs` | `MapCacheImplementsLRU` | `ImplementsLRU` |

`MapCacheProofs` rests on one inductive invariant, `IndInv`: its five properties
together with `Shape`, which says what the locals in `op` mean at each `pc` (which
key is indexed, which size is already subtracted, what the entry under the cursor
is). None of the five is inductive alone. `CapacityBound` after a subtraction needs
`SizeParity`, since a victim weighs no more than the total; `SizeParity` after a
removal needs `ListMatchesIndex`, since the victim must be indexed, once; and a
Replace that grows ends within the budget only because what
`canFitGrowthLocked` established, `ReplaceGrowthFits`, still holds after each
eviction: the entries older than the replaced one are enough. The proof has one
lemma per action. Its arithmetic is in a few lemmas on `TotalWeight`: adding,
removing or resizing one key changes the total by exactly that key's weight, and a
part weighs no more than the whole.

The other two modules add to `IndInv` one strengthening per property:

* *Watermarks* (`CoverInv`). The watermarks cover the entries at every step, not
  only between operations. That they are exact once an operation has compacted
  follows from `OnceInv`: nothing changes the entries after the compaction.
* *One reclamation* (`OnceInv`). An operation may compact early, when a deletion
  or a shedding leaves at most one entry. What it leaves behind then
  (`CompactedAlready`: at most one entry in a fresh table) is what keeps every later
  predicate of the same operation from firing. This is where a churn threshold of
  at least 2 is needed.
* *Notification* (`NotifyInv`). At each step the queue holds the entries that
  have left so far, and the index holds only keys that were there before or the key
  being written.
* *Replace* (`FitInv`). `CanFitGrowthSound` and `CanFitGrowthComplete` show that the
  two-ended scan of `canFitGrowthLocked` answers the question it is asked, with a
  well-founded minimum in place of an induction over the list.
* *Order* (`OrderInv`). The list keeps the order it had before the operation, and
  the loop has passed everything in the queue.
* *Shedding* (`ShedInv`, `ZeroShedInv`). While bytes are still to be shed, each entry
  behind the cursor has left, or is the protected entry, or weighs nothing. While
  weightless entries are, it has left, or is the protected entry, or weighs
  something; when the scan is over the protected entry is the only weightless one that
  can be left, `zeroSizeCount` being exact (`CountInv`), and its target has room for it.
* *Counters*. Insertions minus removals is the number of entries modulo
  `CounterModulus`; `WrappedAdds` is the modular arithmetic.
* *Number of entries* (`CountInv`). The entries are at most `zeroSizeCount` plus
  `currentSize`: `zeroSizeCount` is exact at every step (`ZeroParity`), and each
  weighted entry has a first byte of its own (`HeavyBound`). An insertion whose
  guard lets it store therefore has a place left, and one that has already evicted
  has the victim's.

`MapCacheContractProofs` proves the refinement, `Spec => ImplementsLRU`. Under the
lock nothing is visible: the abstract contents are those the operation found
(`WorkIsInvisible`). At `Unlock` the whole operation must be one step of the
contract (`UnlockRefines`), so the invariant `ContractInv` records what the loops
have done since the lock was taken:

* the entries still there are in the order they had, the written key first
  (`ListOrder`, `RoleOK`), and weigh what they did (`SizesOK`);
* what has gone was taken for one reason (`Cause`): by the operation itself, for
  capacity, by shedding; and of the entries that reason may take, those that are
  left have none older among those that have gone (`OldestLeft`). For evictions at
  the back of the list this is immediate (`CapacityTakesOldest`);
* shedding walks past entries, and here lies the difficulty: it must not take an
  entry after it has left an older one of the same class. `PassedOver` says what
  the cursor has left behind: an entry that weighs something is passed over only
  when the byte target is met, a weightless one only when the entry target is,
  and neither target becomes unmet again (`SheddingTakesOldest`).

`UnlockArranged`, `UnlockEvictable` and `UnlockSettles` then read the step of the
contract off the invariant, with `TotalIsCurrentSize` for the budget.

### Callback delivery

`EvictCallbacksProofs`, for any number of calls and panics (`CallsAssumption`,
`PanicsAssumption`). `DeliveryInvariant` is the inductive invariant; from it follow
`CallbacksRunUnderHold`, `HoldsLeaveNoTrace`, `EnqueuesMeetHolder`,
`NoCallbackDeadlocks`, `OutsidersAreSynchronous` and `EventsDeliveredOnce`. Its
parts: who owns the two mutexes (`MutexInv`); which calls share a goroutine,
two of them in progress only when one was made by the callback of the other
(`GoroutineInv`); what each stage of the holder says
of the published hold (`HoldInv`); what a contender knows of the hold it found
(`ContendInv`, and `MatchInv` once it has matched the holder's goroutine; from its
match to its append the hold is the one that its own callback chain belongs to); that a
call which a callback waits for never decides to block on the mutex (`WaitInv`);
and that every event is in exactly one place (`EventInv`). `EnqueuesMeetHolder` is
the argument for the lock-free unlock: the sequence number a contender has matched
is either still published or has been overtaken for ever, and one that is still
published at the enqueue belongs to a hold marked contended, which can only end by
the path that drains.

### The cached sample

`CachedSampleProofs`, for any set of readers, epochs, counts and number of
publications (`BoundsAssumption`, `AbsentAssumption`). `SampleMemoryInvariant` is the
invariant and `CachedSampleImplementsCell` the refinement
(`Spec => ImplementsFreshSample`): the initial states map to an initial state, and
each load and each store maps to a step of the cell or to none. `WriterInv` says
that the stores still to be made change data only while the number is odd, and
that the number never falls; `ReaderInv` says that what a reader has loaded is what
is stored, as long as the number it started from still stands.

### The sampling protocol

`PressureSamplerProofs`, for any set of goroutines, any finite set of shards, both
kinds of probe, and any window and retry limits (`SamplerAssumption`).
`SamplerInvariant` is the inductive invariant; `ReadingsBounded`, `SamplesNeverGoBack`,
`RecoveriesStand`, `ElevatedPressureIsCurrent` and `OperationsTerminate` follow from
it. A sample is kept in many places: in flight, in the coordinator's cache, as
its last recorded reading, in a shard, in the carry of a pass. Wherever it is, if
its recovery epoch still stands then no later low reading was recorded
(`RecoveryOK`), and if it is elevated and its reclaim epoch is current then nobody
has reclaimed since it was read (`EpochOK`). `ElevatedIsCurrent` speaks of what an
operation does with the sample it has at last; to get there the proof follows the
sample through each of the others. `OperationsTerminate` shows that `StepsLeft` is a
natural number that each step of a goroutine lowers and no other raises.

### The hash index

`ArenaHashProofs`, for any finite set of keys, any assignment of hashes to keys and
of tags to hashes, any least capacity, any modulus of the short tag, with and without
an entry callback (`HashAssumption`: there are more nodes than keys, and no tag is 0).

| Theorem | Property |
|---|---|
| `LookupsAreExact` | `LookupsExact` |
| `IndexPartitionsEntries` | `IndexIsPartition` |

Neither property is inductive: that a lookup is exact says nothing of where a later
backshift may leave a slot, and the counts of a partition do not bound the load. The
inductive invariant `HashInv` says that there is a set `S` of nodes such that

* the table holds exactly the slots of the nodes in `S`, each once, at most one for
  each hash, and is at most four fifths full (`Tabled`);
* no empty slot lies between a slot and its home (`Reachable`, part of `Tabled`);
* the peer lists hold each other entry once, in the list of its hash, which has a
  node in `S`, and `collisionCount` is their total length (`Lists`);
* no two nodes bear the same key (`KeysOnce`).

`Indexed(c, S, X)` says this for a set `X` of nodes that need not be all the live
ones, because in the middle of an operation they differ: an entry is out of the index
before its value is dropped, and in a node before it is indexed. The argument:

* *Probing* (`SlotsOfIs`, `HashSlot`). At most one slot bears a hash's tag without being
  another hash's, probing reaches it, and it ends since a slot is empty.
* *Backshift deletion* (`Sweeping`). After each iteration the gap is the one place
  whose slot is gone or stands elsewhere too, every other slot is behind taken
  places only, and no slot between the gap and the cursor has its way from home
  through the gap. Since that is so at the first empty slot, clearing the gap
  cuts off nothing.
* *Copies and rebuilds* (`CopyStep`, `BuildingSteps`). Each iteration places one slot
  at the end of its probing, in a table whose capacity was chosen large enough
  (`PowerOf2AtLeast`); renumbering is injective (`RenumberingsAre`).
* *The counts* (`LookupIs`). A miss is trusted only when no slot is the hash's own; then
  no entry has that hash, since a peer list is never without a slot. When the slot
  is there but its node bears another key, the trie is walked.
* *The stale decision in Put* (`InsertedIndexes`). `mapMiss` is decided before the
  evictions that make room. They can only take hashes out of the table, so a hash
  that had no slot still has none when `insertNewHashSlotLocked` relies on it.

A loop is proved by `RunExists` and `Counting`: the least iteration at which its
invariant would fail is a contradiction, which replaces the induction that is
out of the prover's reach.

### Only model-checked

* Liveness (`OperationCompletes`, `EveryCallSettles`, `ReadersReturn`) and absence of
  deadlock: fairness and `ENABLED` are outside this prover.
* `RadixCache`: the trie is walked by recursive operators, and what they compute
  needs induction over the tree.
* `RadixCache` therefore implements `LRUCache` by model checking only (`ImplementsLRU`
  in the run `radix`).
* `PrefixArena`: strings are sequences of bytes, and the layout of a rebuilt arena
  is a fold over the prefixes.

## 9. Not modelled

* *Goroutine lineage detection*: parses text dumps of stacks and profiling labels,
  about a third of `pressure.go`. It is modelled by its answer only (`Answers` of
  `EvictCallbacks`), and `PressureSampler` takes it as exact. An error in the parser
  would not show here.
* *Arena nodes*: the links between nodes by index, their free list and the
  renumbering of links. The algorithm is that of `RadixTrie`; `ArenaHash` covers
  the renumbering of the index.
* *Sharded cache*: the assignment of keys to shards by hash and the split of the
  budget are functions without state; what is modelled is the passes over all shards
  and the sample they carry. Grouped read-only loads change nothing.
* *A cache without a PressureFunc*: locks directly, at level 0.
* *Options*: validation without state; what it guarantees is in the assumptions.
* *OpenTelemetry adapter, benchcheck, errors*: no protocol of their own.
* *Peek, iterators, Stats*: change nothing but counters, except that an arena
  iterator hands out strings, which is `Yield` of `PrefixArena`.
* *Memory model*: Go's `sync/atomic` operations are sequentially consistent, so
  interleaving of accesses is a faithful semantics; data races are not modelled.
