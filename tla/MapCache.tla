------------------------------ MODULE MapCache ------------------------------
(***************************************************************************)
(* The map backend (map_lru.go): an index of keys, an intrusive list from  *)
(* most to least recently used, a byte budget maxSize, and the two-tier    *)
(* pressure reclamation of PressurePolicy.                                 *)
(*                                                                         *)
(* Every mutator runs under c.mu from lockWithPressure to unlock, so at    *)
(* most one operation is in flight: op holds its local variables and pc    *)
(* the point it has reached.  Each iteration of an eviction loop is a step *)
(* of its own; a caller's operation starts only at pc = "idle".            *)
(*                                                                         *)
(* Data: a value is abstracted to its weight, a key to an element of Keys, *)
(* a non-empty prefix to the set of keys that start with it.  What the     *)
(* sampling protocol answers is the record chosen from Samples; the        *)
(* telemetry kept is what the code's own parity checks relate.             *)
(***************************************************************************)
EXTENDS PressurePolicy, Sequences, FiniteSets

CONSTANTS
    Keys,            \* the keys callers use
    NoKey,           \* stands for a nil entry
    Weights,         \* what the weigher may return
    Prefixes,        \* key sets selected by non-empty prefixes
    CounterModulus   \* telemetry counters are unsigned and wrap here

ASSUME KeysAssumption == IsFiniteSet(Keys) /\ NoKey \notin Keys
ASSUME WeightsAssumption == Weights \subseteq Nat
ASSUME PrefixesAssumption == Prefixes \subseteq SUBSET Keys
ASSUME ModulusAssumption == CounterModulus \in Nat \ {0}
\* The saturated deletedSinceCompact is still at least every entry count.
ASSUME CapAssumption == Cardinality(Keys) <= DeletedCap

VARIABLES
    entries,      \* the LRU list, most recently used first
    index,        \* the keys of the hash index
    size,         \* size field of each key's entry, 0 for a detached one
    currentSize,  \* running total of the sizes
    ps,           \* watermarks of the embedded pressureState
    stats,        \* telemetry counters
    pc,           \* where the operation holding c.mu stands
    op,           \* its local variables
    settled       \* history: a Tier 2 evaluation ran last, but for Gets
                  \* and Compacts

vars == <<entries, index, size, currentSize, ps, stats, pc, op, settled>>

Reasons == {"Capacity", "Pressure", "Deleted", "Replaced"}

Stage == {"idle", "update", "insert", "grow", "prefix", "deleted",
          "reclaim", "shed", "completeShed", "finish", "unlock"}

NoOp ==
    [kind |-> "None", key |-> NoKey, newSize |-> 0, sample |->
        [pressure |-> Normal, valid |-> FALSE, recovered |-> FALSE],
     sizeBefore |-> 0, hadZeroCap |-> FALSE, evictedPre |-> FALSE,
     reclaimedPre |-> FALSE, compactedPre |-> FALSE, todo |-> {},
     selfEvicted |-> FALSE, protected |-> NoKey, targets |-> NoTargets,
     cursor |-> 0, shed |-> FALSE, marks |-> 0, compactions |-> 0,
     evictQ |-> <<>>, before |-> <<>>, sizesBefore |-> [k \in Keys |-> 0],
     settled |-> FALSE]

NoStats ==
    [putInserted |-> 0, putUpdated |-> 0, replaceUpdated |-> 0,
     evictions |-> [r \in Reasons |-> 0], evictedWeight |-> 0,
     admittedWeight |-> 0]

Init ==
    /\ entries = <<>>
    /\ index = {}
    /\ size = [k \in Keys |-> 0]
    /\ currentSize = 0
    /\ ps = Clean
    /\ stats = NoStats
    /\ pc = "idle"
    /\ op = NoOp
    /\ settled = FALSE

-----------------------------------------------------------------------------
(* The intrusive list                                                      *)

Back == entries[Len(entries)]

Position(l, k) == CHOOSE i \in 1..Len(l) : l[i] = k

PushFront(l, k) == [i \in 1..(Len(l) + 1) |-> IF i = 1 THEN k ELSE l[i - 1]]

Remove(l, k) ==
    LET at == Position(l, k)
    IN  [i \in 1..(Len(l) - 1) |-> IF i < at THEN l[i] ELSE l[i + 1]]


\* Mutants of MoveToFront: the old links stay; and the tail entry is missed.
MoveToFrontLinkedTwice(l, k) == PushFront(l, k)
MoveToFront(l, k) == PushFront(Remove(l, k), k)

-----------------------------------------------------------------------------
(* Telemetry                                                               *)

Add(counter, n) == (counter + n) % CounterModulus


RecordEvictions(s, reason, n, weight) ==
    [s EXCEPT !.evictions[reason] = Add(@, n),
              !.evictedWeight = Add(@, weight)]

\* The weight of a value the cache accepted (history, not a counter of the code).
Admit(s, weight) == [s EXCEPT !.admittedWeight = Add(@, weight)]

\* recordCompactionByPressure and the compactions counters: one more in this
\* operation.  markReclaimedLocked: reclaimEpoch - sampledEpoch is marks.
RecordCompaction(o, recorded) ==
    IF recorded THEN [o EXCEPT !.compactions = @ + 1] ELSE o
MarkReclaimed(o, marked) == IF marked THEN [o EXCEPT !.marks = @ + 1] ELSE o


\* Mutants of Enqueue: only the inline slot is used; and newest event first.
EnqueueInline(o, k, reason) ==
    IF o.evictQ # <<>> THEN o
    ELSE [o EXCEPT !.evictQ = <<[key |-> k, reason |-> reason]>>]
EnqueueAtFront(o, k, reason) ==
    [o EXCEPT !.evictQ = <<[key |-> k, reason |-> reason]>> \o @]

Enqueue(o, k, reason) ==
    [o EXCEPT !.evictQ = Append(@, [key |-> k, reason |-> reason])]

-----------------------------------------------------------------------------

\* Mutant of EraseEntryLocked: the size is read after it has been zeroed.
EraseEntryLockedZeroedFirst(k, reason, p, o) ==
    /\ ps' = OnEntryDeleted(p, size[k])
    /\ currentSize' = currentSize
    /\ index' = index \ {k}
    /\ entries' = Remove(entries, k)
    /\ size' = [size EXCEPT ![k] = 0]
    /\ stats' = RecordEvictions(stats, reason, 1, size[k])
    /\ op' = Enqueue(o, k, reason)

(* eraseEntryLocked: unlink, forget and account for the entry of k; p are  *)
(* the watermarks and o the operation's locals just before.                *)
EraseEntryLocked(k, reason, p, o) ==
    /\ ps' = OnEntryDeleted(p, size[k])
    /\ currentSize' = currentSize - size[k]
    /\ index' = index \ {k}
    /\ entries' = Remove(entries, k)
    /\ size' = [size EXCEPT ![k] = 0]
    /\ stats' = RecordEvictions(stats, reason, 1, size[k])
    /\ op' = Enqueue(o, k, reason)

\* The state of an operation that has just acquired c.mu.
Begin(kind, k, w, s) ==
    [NoOp EXCEPT !.kind = kind, !.key = k, !.newSize = w, !.sample = s,
                 !.sizeBefore = currentSize, !.before = entries,
                 !.sizesBefore = size,
                 !.settled = settled /\ s.valid /\ ~s.recovered
                                     /\ s.pressure = Tier2]

\* syncZeroWatermarkLocked, run by lockWithPressure under the lock.
SyncZeroWatermark(s) ==
    IF s.valid /\ (s.recovered \/ s.pressure < Tier2)
    THEN ClearZeroWatermark(ps) ELSE ps

-----------------------------------------------------------------------------
(* Put                                                                     *)

\* A weight above maxSize is refused before the lock: no action.
PutExisting(k, w, s) ==
    /\ pc = "idle"
    /\ w <= MaxSize
    /\ k \in index
    /\ LET p == SyncZeroWatermark(s)
       IN  /\ op' = [Begin("Put", k, w, s) EXCEPT
                        !.hadZeroCap = ShouldEvictOnZeroWeightShrink(p, size[k], w)]
           /\ ps' = OnEntrySizeUpdated(p, size[k], w)
    /\ entries' = MoveToFront(entries, k)
    /\ currentSize' = currentSize - size[k]
    /\ pc' = "update"
    /\ settled' = FALSE
    /\ UNCHANGED <<index, size, stats>>

UpdateNeedsRoom ==
    /\ \/ op.newSize > MaxSize - currentSize
       \/ op.hadZeroCap /\ ~op.evictedPre
    /\ Len(entries) > 1

UpdateEvict ==
    /\ pc = "update"
    /\ UpdateNeedsRoom
    /\ EraseEntryLocked(Back, "Capacity", ps, [op EXCEPT !.evictedPre = TRUE])
    /\ UNCHANGED <<pc, settled>>


StoreReplacementNewWeight(newCurrent, counted) ==
    /\ size' = [size EXCEPT ![op.key] = op.newSize]
    /\ currentSize' = newCurrent
    /\ stats' = Admit(RecordEvictions(counted, "Replaced", 1, op.newSize),
                      op.newSize)

\* Store the new weight on the entry of op.key; newCurrent is currentSize after.
StoreReplacement(newCurrent, counted) ==
    /\ size' = [size EXCEPT ![op.key] = op.newSize]
    /\ currentSize' = newCurrent
    /\ stats' = Admit(RecordEvictions(counted, "Replaced", 1, size[op.key]),
                      op.newSize)

\* What follows a successful Put or Replace: finishMutationReclaimLocked, or
\* straight to unlock.
AfterMutation(reclaimedPre, newCurrent) ==
    IF NeedsMutationReclaim(reclaimedPre, newCurrent, op.sizeBefore,
                            op.sample.pressure)
    THEN "reclaim" ELSE "unlock"

UpdateStore ==
    /\ pc = "update"
    /\ ~UpdateNeedsRoom
    /\ \E elevated \in Elevated(op.sample.pressure) :
         LET newCurrent == currentSize + op.newSize
             reclaimedPre ==
                 ShouldReclaimSingleSurvivorOnMutation(
                     ps, Len(entries), HasSlack(ps, Len(entries)),
                     op.evictedPre, newCurrent, op.sizeBefore, elevated)
         IN  /\ StoreReplacement(newCurrent,
                    [stats EXCEPT !.putUpdated = Add(@, 1)])
             /\ op' = [Enqueue(op, op.key, "Replaced") EXCEPT
                         !.reclaimedPre = reclaimedPre,
                         !.protected = op.key]
             /\ pc' = AfterMutation(reclaimedPre, newCurrent)
    /\ UNCHANGED <<entries, index, ps, settled>>

PutNew(k, w, s) ==
    /\ pc = "idle"
    /\ w <= MaxSize
    /\ k \notin index
    /\ op' = Begin("Put", k, w, s)
    /\ ps' = SyncZeroWatermark(s)
    /\ pc' = "insert"
    /\ settled' = FALSE
    /\ UNCHANGED <<entries, index, size, currentSize, stats>>

InsertNeedsRoom ==
    /\ ShouldEvictPreInsertOnPut(ps, op.newSize, currentSize, Len(entries),
                                 op.evictedPre)
    /\ Len(entries) > 0


\* Mutant of InsertEvict: it takes the newest entry.
InsertEvictFront ==
    /\ pc = "insert"
    /\ InsertNeedsRoom
    /\ EraseEntryLocked(entries[1], "Capacity", ps,
                        [op EXCEPT !.evictedPre = TRUE])
    /\ UNCHANGED <<pc, settled>>

InsertEvict ==
    /\ pc = "insert"
    /\ InsertNeedsRoom
    /\ EraseEntryLocked(Back, "Capacity", ps, [op EXCEPT !.evictedPre = TRUE])
    /\ UNCHANGED <<pc, settled>>

InsertStore ==
    /\ pc = "insert"
    /\ ~InsertNeedsRoom
    /\ \E elevated \in Elevated(op.sample.pressure) :
         LET newCurrent == currentSize + op.newSize
             emptied == ShouldReclaimEmptyPrePut(
                            ps, Len(entries), op.evictedPre, op.newSize,
                            op.sizeBefore, elevated)
             survivor == ShouldReclaimSingleSurvivorOnMutation(
                             ps, Len(entries), HasSlack(ps, Len(entries)),
                             op.evictedPre, newCurrent, op.sizeBefore, elevated)
             reclaimedPre == emptied \/ survivor
         IN  /\ ps' = OnEntryPut(IF emptied THEN Clean ELSE ps,
                                 Len(entries) + 1, op.newSize)
             /\ op' = [RecordCompaction(op, emptied) EXCEPT
                         !.reclaimedPre = reclaimedPre,
                         !.compactedPre = emptied,
                         !.protected = op.key]
             /\ currentSize' = newCurrent
             /\ pc' = AfterMutation(reclaimedPre, newCurrent)
    /\ entries' = PushFront(entries, op.key)
    /\ index' = index \cup {op.key}
    /\ size' = [size EXCEPT ![op.key] = op.newSize]
    /\ stats' = Admit([stats EXCEPT !.putInserted = Add(@, 1)], op.newSize)
    /\ UNCHANGED settled

-----------------------------------------------------------------------------
(* Replace                                                                 *)

(***************************************************************************)
(* The total weight of a set of keys, counted in unit cells: one pair      *)
(* <<k, u>> for each u in 1..sz[k].                                        *)
(***************************************************************************)
Cells(S, sz) == {c \in S \X (1..MaxSize) : c[2] <= sz[c[1]]}
TotalWeight(S, sz) == Cardinality(Cells(S, sz))

FirstKeys(l, n) == {l[i] : i \in 1..n}
LastKeys(l, n)  == {l[Len(l) + 1 - i] : i \in 1..n}

(***************************************************************************)
(* canFitGrowthLocked: after the check of the room already available, the  *)
(* scan walks from both ends at once.  Its i-th round compares the i-th    *)
(* entry from the head (newerSize has grown by it) and then the i-th from  *)
(* the tail (avail has grown by it); the first of the four tests that      *)
(* succeeds decides.                                                       *)
(***************************************************************************)
ScanBothEnds(e, maxNewer, sizeDelta, avail) ==
    LET n           == Len(entries)
        ReachedE(i) == entries[i] = e
        TooNew(i)   == TotalWeight(FirstKeys(entries, i), size) > maxNewer
        TailIsE(i)  == entries[n + 1 - i] = e
        Enough(i)   == sizeDelta <=
                         avail + TotalWeight(LastKeys(entries, i), size)
        Undecided(i) == ~ReachedE(i) /\ ~TooNew(i) /\ ~TailIsE(i) /\ ~Enough(i)
    IN  \E i \in 1..n :
            /\ \A j \in 1..(i - 1) : Undecided(j)
            /\ ReachedE(i) \/ (~TooNew(i) /\ ~TailIsE(i) /\ Enough(i))

\* Mutants of CanFitGrowth: off by one at the weight of the newer entries; and
\* every other entry taken for evictable, the newer ones too.
CanFitGrowthAmongAll(e, maxNewer, sizeDelta, avail) ==
    sizeDelta <= avail + currentSize - size[e]
CanFitGrowthStrict(e, maxNewer, sizeDelta, avail) ==
    sizeDelta <= avail \/ ScanBothEnds(e, maxNewer - 1, sizeDelta, avail)

CanFitGrowth(e, maxNewer, sizeDelta, avail) ==
    sizeDelta <= avail \/ ScanBothEnds(e, maxNewer, sizeDelta, avail)

ReplaceGrow(k, w, s) ==
    /\ pc = "idle"
    /\ k \in index
    /\ w > size[k]
    /\ w <= MaxSize
    /\ CanFitGrowth(k, MaxSize - w, w - size[k], MaxSize - currentSize)
    /\ op' = Begin("Replace", k, w, s)
    /\ ps' = SyncZeroWatermark(s)
    /\ pc' = "grow"
    /\ settled' = FALSE
    /\ UNCHANGED <<entries, index, size, currentSize, stats>>

ReplaceSelfEvict(k, w, s) ==
    /\ pc = "idle"
    /\ k \in index
    /\ w > size[k]
    /\ \/ w > MaxSize
       \/ ~CanFitGrowth(k, MaxSize - w, w - size[k], MaxSize - currentSize)
    /\ EraseEntryLocked(k, "Capacity", SyncZeroWatermark(s),
                        [Begin("Replace", k, w, s) EXCEPT !.selfEvicted = TRUE])
    /\ pc' = "deleted"
    /\ settled' = FALSE

\* Same weight or less.  One eviction at most makes way for an entry that
\* becomes weightless.
ReplaceNoGrowth(k, w, s) ==
    /\ pc = "idle"
    /\ k \in index
    /\ w <= size[k]
    /\ LET p == SyncZeroWatermark(s)
       IN  /\ op' = [Begin("Replace", k, w, s) EXCEPT
                       !.hadZeroCap = ShouldEvictOnZeroWeightShrink(p, size[k], w)]
           /\ ps' = p
    /\ pc' = "grow"
    /\ settled' = FALSE
    /\ UNCHANGED <<entries, index, size, currentSize, stats>>

ReplaceNeedsRoom ==
    /\ \/ /\ op.newSize > size[op.key]
          /\ op.newSize - size[op.key] > MaxSize - currentSize
       \/ op.hadZeroCap /\ ~op.evictedPre
    /\ Len(entries) > 0
    /\ Back # op.key

ReplaceEvict ==
    /\ pc = "grow"
    /\ ReplaceNeedsRoom
    /\ EraseEntryLocked(Back, "Capacity", ps, [op EXCEPT !.evictedPre = TRUE])
    /\ UNCHANGED <<pc, settled>>

ReplaceStore ==
    /\ pc = "grow"
    /\ ~ReplaceNeedsRoom
    /\ \E elevated \in Elevated(op.sample.pressure) :
         LET newCurrent == currentSize + op.newSize - size[op.key]
             p == OnEntrySizeUpdated(ps, size[op.key], op.newSize)
             reclaimedPre ==
                 ShouldReclaimSingleSurvivorOnMutation(
                     p, Len(entries), p.dirtyIndex, op.evictedPre,
                     newCurrent, op.sizeBefore, elevated)
         IN  /\ ps' = p
             /\ StoreReplacement(newCurrent,
                    [stats EXCEPT !.replaceUpdated = Add(@, 1)])
             /\ op' = [Enqueue(op, op.key, "Replaced") EXCEPT
                         !.reclaimedPre = reclaimedPre,
                         !.protected = op.key]
             /\ pc' = AfterMutation(reclaimedPre, newCurrent)
    /\ UNCHANGED <<entries, index, settled>>

-----------------------------------------------------------------------------
(* Get, Delete, DeletePrefix, Compact, EvaluateMemoryPressure              *)

Get(k) ==
    /\ pc = "idle"
    /\ k \in index
    /\ entries' = MoveToFront(entries, k)
    /\ UNCHANGED <<index, size, currentSize, ps, stats, pc, op, settled>>

Delete(k, s) ==
    /\ pc = "idle"
    /\ k \in index
    /\ EraseEntryLocked(k, "Deleted", SyncZeroWatermark(s),
                        Begin("Delete", k, 0, s))
    /\ pc' = "deleted"
    /\ settled' = FALSE

\* A Delete, Replace or DeletePrefix that matches nothing (there is always such
\* a string) has still taken the lock with a sample.
MissUnderLock(s) ==
    /\ pc = "idle"
    /\ ps' = SyncZeroWatermark(s)
    /\ settled' = FALSE
    /\ UNCHANGED <<entries, index, size, currentSize, stats, pc, op>>

DeletePrefix(P, s) ==
    /\ pc = "idle"
    /\ P \cap index # {}
    /\ op' = [Begin("DeletePrefix", NoKey, 0, s) EXCEPT !.todo = P \cap index]
    /\ ps' = SyncZeroWatermark(s)
    /\ pc' = "prefix"
    /\ settled' = FALSE
    /\ UNCHANGED <<entries, index, size, currentSize, stats>>

\* Go visits the map in any order.
PrefixErase(k) ==
    /\ pc = "prefix"
    /\ k \in op.todo
    /\ EraseEntryLocked(k, "Deleted", ps, [op EXCEPT !.todo = @ \ {k}])
    /\ UNCHANGED <<pc, settled>>

PrefixDone ==
    /\ pc = "prefix"
    /\ op.todo = {}
    /\ pc' = "deleted"
    /\ UNCHANGED <<entries, index, size, currentSize, ps, stats, op, settled>>

CleanEmpty ==
    entries = <<>> /\ ~ps.dirtyIndex /\ ps.deletedSinceCompact = 0
                   /\ ps.peakEntryLen = 0

\* deleteAllPrefixLocked: DeletePrefix("") empties the cache in one pass.
DeleteAll(s) ==
    /\ pc = "idle"
    /\ ~CleanEmpty
    /\ \E invalidate \in Elevated(s.pressure) :
         LET n == Len(entries)
             dirtySlack == \/ ps.dirtyIndex
                           \/ ps.peakEntryLen > MinPeakSlackEntries
                           \/ ps.deletedSinceCompact > 0
             slack == HasEmptyDeleteSlack(
                        [ps EXCEPT !.deletedSinceCompact = CountDeleted(ps, n)])
             o == [Begin("DeleteAll", NoKey, 0, s) EXCEPT
                     !.evictQ = [i \in 1..n |-> [key |-> entries[i],
                                                 reason |-> "Deleted"]]]
         IN  op' = MarkReclaimed(
                     RecordCompaction(o, slack),
                     (slack \/ currentSize > 0 \/ dirtySlack) /\ invalidate)
    /\ stats' = RecordEvictions(stats, "Deleted", Len(entries), currentSize)
    /\ entries' = <<>>
    /\ index' = {}
    /\ size' = [k \in Keys |-> 0]
    /\ currentSize' = 0
    /\ ps' = Clean
    /\ pc' = "unlock"
    /\ settled' = FALSE

Compact ==
    /\ pc = "idle"
    /\ HasSlack(ps, Len(entries))
    /\ ps' = OnCompacted(ps, Len(entries))
    /\ UNCHANGED <<entries, index, size, currentSize, stats, pc, op, settled>>

EvaluateMemoryPressure(s) ==
    /\ pc = "idle"
    /\ op' = Begin("Evaluate", NoKey, 0, s)
    /\ ps' = SyncZeroWatermark(s)
    /\ pc' = "reclaim"
    /\ settled' = FALSE
    /\ UNCHANGED <<entries, index, size, currentSize, stats>>

-----------------------------------------------------------------------------
(* finishDeleteReclaimLocked, up to its call of the pressure reclamation   *)

FinishDeleteEmpty ==
    /\ pc = "deleted"
    /\ entries = <<>>
    /\ \E invalidate \in Elevated(op.sample.pressure) :
         LET slack == HasEmptyDeleteSlack(ps)
         IN  op' = MarkReclaimed(RecordCompaction(op, slack),
                     /\ slack \/ op.sizeBefore > 0
                     /\ invalidate
                     /\ op.marks = 0)
    /\ ps' = Clean
    /\ pc' = "unlock"
    /\ UNCHANGED <<entries, index, size, currentSize, stats, settled>>

FinishDelete ==
    /\ pc = "deleted"
    /\ entries # <<>>
    /\ LET n == Len(entries)
           single == ShouldReclaimSingleSurvivorOnDelete(ps, n, HasSlack(ps, n))
           p == IF single THEN OnCompacted(ps, n) ELSE ps
           pressure == op.sample.pressure
       IN  /\ op' = [RecordCompaction(op, single) EXCEPT !.reclaimedPre = single]
           /\ IF pressure >= Tier1
              THEN pc' = "reclaim" /\ ps' = p
              ELSE /\ pc' = "finish"
                   /\ ps' = ResetZeroWatermarkBelowTier2(p, pressure,
                                                         op.sample.valid)
    /\ UNCHANGED <<entries, index, size, currentSize, stats, settled>>

-----------------------------------------------------------------------------
(* maybeReclaimUnderPressureLocked                                         *)

IsBackground == op.kind = "Evaluate"

AfterReclaim == IF IsBackground THEN "unlock" ELSE "finish"

\* Below Tier 2: at most a lossless compaction.
ReclaimTier1 ==
    /\ pc = "reclaim"
    /\ op.sample.pressure < Tier2
    /\ LET n == Len(entries)
           p == ResetZeroWatermarkBelowTier2(ps, op.sample.pressure,
                                             op.sample.valid)
           compacted == /\ op.sample.pressure >= Tier1
                        /\ ShouldAutoCompactMap(p, IsBackground, n)
       IN  /\ ps' = IF compacted THEN OnCompacted(p, n) ELSE p
           /\ op' = MarkReclaimed(RecordCompaction(op, compacted), compacted)
    /\ pc' = AfterReclaim
    /\ UNCHANGED <<entries, index, size, currentSize, stats, settled>>

HasProtected == op.protected # NoKey
ProtectedSize == IF HasProtected THEN size[op.protected] ELSE 0

\* shedAndCompactLocked computes its targets once, before the first victim.
ReclaimTier2 ==
    /\ pc = "reclaim"
    /\ op.sample.pressure = Tier2
    /\ op' = [op EXCEPT
                !.targets = ComputeShedTargets(ps, Len(entries), HasProtected,
                                               ProtectedSize),
                !.cursor = Len(entries)]
    /\ pc' = "shed"
    /\ UNCHANGED <<entries, index, size, currentSize, ps, stats, settled>>

ShedContinues ==
    /\ op.cursor > 0
    /\ \/ NeedByteShed(currentSize, op.targets)
       \/ NeedZeroShed(ps, Len(entries), op.targets)

ShedTakesVictim ==
    LET victim == entries[op.cursor]
    IN  ShouldEvictShedVictim(ps, victim = op.protected, size[victim],
                              NeedByteShed(currentSize, op.targets), op.targets)

ShedEvict ==
    /\ pc = "shed"
    /\ ShedContinues
    /\ ShedTakesVictim
    /\ EraseEntryLocked(entries[op.cursor], "Pressure", ps,
                        [op EXCEPT !.cursor = @ - 1, !.shed = TRUE])
    /\ UNCHANGED <<pc, settled>>


\* Mutant of ShedSkip: a skipped victim is looked at again.
ShedSkipInPlace ==
    /\ pc = "shed"
    /\ ShedContinues
    /\ ~ShedTakesVictim
    /\ UNCHANGED vars

ShedSkip ==
    /\ pc = "shed"
    /\ ShedContinues
    /\ ~ShedTakesVictim
    /\ op' = [op EXCEPT !.cursor = @ - 1]
    /\ UNCHANGED <<entries, index, size, currentSize, ps, stats, pc, settled>>

ShedStop ==
    /\ pc = "shed"
    /\ ~ShedContinues
    /\ pc' = "completeShed"
    /\ UNCHANGED <<entries, index, size, currentSize, ps, stats, op, settled>>

\* completeShedAndCompactLocked when the flush emptied the cache.
CompleteShedEmpty ==
    /\ pc = "completeShed"
    /\ op.shed /\ entries = <<>>
    /\ op' = MarkReclaimed(
               RecordCompaction(op, ShouldAutoCompactEntryCounts(
                                      ps, TRUE, IsBackground, 0)), TRUE)
    /\ ps' = Clean
    /\ pc' = AfterReclaim
    /\ UNCHANGED <<entries, index, size, currentSize, stats, settled>>

CompleteShed ==
    /\ pc = "completeShed"
    /\ ~(op.shed /\ entries = <<>>)
    /\ LET n == Len(entries)
           unadjusted == ~HasProtected \/ op.targets.effective <= TargetSize
           p == IF op.shed
                THEN UpdateZeroWatermarkAfterShed(ps, n, unadjusted, op.targets)
                ELSE ps
           compacted == ShouldAutoCompactMap(p, IsBackground, n)
       IN  /\ ps' = IF compacted THEN OnCompacted(p, n) ELSE p
           /\ op' = MarkReclaimed(RecordCompaction(op, compacted),
                                  op.shed \/ compacted)
    /\ pc' = AfterReclaim
    /\ UNCHANGED <<entries, index, size, currentSize, stats, settled>>

-----------------------------------------------------------------------------
(* The end of the operation                                                *)

\* The rest of finishMutationReclaimLocked.
FinishMutation ==
    /\ pc = "finish"
    /\ HasProtected
    /\ \E invalidate \in Elevated(op.sample.pressure) :
         LET n == Len(entries)
             reduced == currentSize < op.sizeBefore
             compacts == ShouldCompactAfterMutation(
                           ps, op.reclaimedPre, reduced, HasSlack(ps, n),
                           op.sample.pressure)
         IN  /\ ps' = IF compacts THEN OnCompacted(ps, n) ELSE ps
             /\ op' = MarkReclaimed(
                        RecordCompaction(op, compacts /\ ~op.compactedPre),
                        (op.reclaimedPre \/ reduced) /\ invalidate
                                                     /\ op.marks = 0)
    /\ pc' = "unlock"
    /\ UNCHANGED <<entries, index, size, currentSize, stats, settled>>


\* Mutant of FinishDeleteReclaim: the epoch is not compared.
FinishDeleteReclaimAnyEpoch ==
    /\ pc = "finish"
    /\ ~HasProtected
    /\ \E invalidate \in Elevated(op.sample.pressure) :
         op' = MarkReclaimed(op,
                 /\ op.reclaimedPre \/ currentSize < op.sizeBefore
                 /\ invalidate)
    /\ pc' = "unlock"
    /\ UNCHANGED <<entries, index, size, currentSize, ps, stats, settled>>

\* The rest of finishDeleteReclaimLocked.
FinishDeleteReclaim ==
    /\ pc = "finish"
    /\ ~HasProtected
    /\ \E invalidate \in Elevated(op.sample.pressure) :
         op' = MarkReclaimed(op,
                 /\ op.reclaimedPre \/ currentSize < op.sizeBefore
                 /\ invalidate
                 /\ op.marks = 0)
    /\ pc' = "unlock"
    /\ UNCHANGED <<entries, index, size, currentSize, ps, stats, settled>>

\* c.mu is released; the queued events go to evictCallbackQueue.invoke.
Unlock ==
    /\ pc = "unlock"
    /\ pc' = "idle"
    /\ op' = NoOp
    /\ settled' = (IsBackground /\ op.sample.pressure = Tier2)
    /\ UNCHANGED <<entries, index, size, currentSize, ps, stats>>

-----------------------------------------------------------------------------
Call ==
    \/ \E k \in Keys, w \in Weights, s \in Samples :
         \/ PutExisting(k, w, s)
         \/ PutNew(k, w, s)
         \/ ReplaceGrow(k, w, s)
         \/ ReplaceSelfEvict(k, w, s)
         \/ ReplaceNoGrowth(k, w, s)
    \/ \E k \in Keys, s \in Samples : Delete(k, s)
    \/ \E k \in Keys : Get(k)
    \/ \E P \in Prefixes, s \in Samples : DeletePrefix(P, s)
    \/ \E s \in Samples :
         MissUnderLock(s) \/ DeleteAll(s) \/ EvaluateMemoryPressure(s)
    \/ Compact

Step ==
    \/ UpdateEvict \/ UpdateStore
    \/ InsertEvict \/ InsertStore
    \/ ReplaceEvict \/ ReplaceStore
    \/ \E k \in Keys : PrefixErase(k)
    \/ PrefixDone
    \/ FinishDeleteEmpty \/ FinishDelete
    \/ ReclaimTier1 \/ ReclaimTier2
    \/ ShedEvict \/ ShedSkip \/ ShedStop
    \/ CompleteShedEmpty \/ CompleteShed
    \/ FinishMutation \/ FinishDeleteReclaim
    \/ Unlock

Next == Call \/ Step

\* The goroutine that holds c.mu runs on until it unlocks; callers may stop.
Spec == Init /\ [][Next]_vars /\ WF_vars(Step)

-----------------------------------------------------------------------------
(* Properties                                                              *)

Ops == {"None", "Put", "Replace", "Delete", "DeletePrefix", "DeleteAll",
        "Evaluate"}

Events == [key : Keys, reason : Reasons]

OpRecords ==
    [kind : Ops, key : Keys \cup {NoKey}, newSize : Nat, sample : Samples,
     sizeBefore : Nat, hadZeroCap : BOOLEAN, evictedPre : BOOLEAN,
     reclaimedPre : BOOLEAN, compactedPre : BOOLEAN, todo : SUBSET Keys,
     selfEvicted : BOOLEAN, protected : Keys \cup {NoKey},
     targets : ShedTargets, cursor : Nat, shed : BOOLEAN, marks : Nat,
     compactions : Nat, evictQ : Seq(Events), before : Seq(Keys),
     sizesBefore : [Keys -> Nat], settled : BOOLEAN]

Counter == 0..(CounterModulus - 1)

StatRecords ==
    [putInserted : Counter, putUpdated : Counter, replaceUpdated : Counter,
     evictions : [Reasons -> Counter], evictedWeight : Counter,
     admittedWeight : Counter]

\* Every variable of the map backend has the type its declaration gives it; in
\* particular no unsigned field (sizes, currentSize, the watermarks) underflows.
TypeOK ==
    /\ entries \in Seq(Keys)
    /\ index \in SUBSET Keys
    /\ size \in [Keys -> 0..MaxSize]
    /\ currentSize \in Nat
    /\ ps \in Watermarks
    /\ stats \in StatRecords
    /\ pc \in Stage
    /\ op \in OpRecords
    /\ settled \in BOOLEAN

\* Invariants 3 and 5 of checkInvariants, at every step and not only at unlock:
\* the list links each key of the index exactly once and nothing else.
ListMatchesIndex ==
    /\ FirstKeys(entries, Len(entries)) = index
    /\ \A i, j \in 1..Len(entries) : entries[i] = entries[j] => i = j

\* Invariant 6: currentSize is the sum of the entry sizes.  In the eviction loop
\* of updateExistingOnPutLocked the old weight of the updated entry is already
\* taken off.
SizeParity ==
    currentSize + (IF pc = "update" THEN size[op.key] ELSE 0)
        = TotalWeight(index, size)

\* Invariant 2: the budget holds at every step of every operation, so that
\* maxSize - currentSize, computed in uint64, never wraps around.
CapacityBound == currentSize <= MaxSize

\* The keys of S without weight.
ZeroKeys(S, sz) == {k \in S : sz[k] = 0}

\* The sizes as the watermarks see them: in the eviction loop of an update the
\* new weight of the entry is counted already, and not yet stored.
NowSize == IF pc = "update" THEN [size EXCEPT ![op.key] = op.newSize] ELSE size

\* The capacity rules for weightless entries bound the number of entries, which
\* the byte budget alone does not: never more than 2 * maxSize of them.  The
\* rules go by zeroSizeCount, which after any mix of resizes, replacements and
\* evictions neither falls behind the weightless entries nor runs ahead of them
\* (invariant 4 of checkInvariants, here at every step).
EntryCountBound ==
    /\ Len(entries) <= 2 * MaxSize
    /\ ps.zeroSizeCount = Cardinality(ZeroKeys(index, NowSize))

\* peakEntryLen is a high-water mark (checkWatermarkInvariants), also after a
\* compaction or a flush has lowered it, and the zero-weight watermark never
\* promises to retain more weightless entries than there are.  Nor is the mark
\* left too high, which would have every later write compact again: an operation
\* that has compacted, whatever it stored, evicted or shed before or after,
\* unlocks with the mark at the entries it leaves and no deletion to its account.
WatermarksCover ==
    /\ pc = "idle" => /\ Len(entries) <= ps.peakEntryLen
                      /\ ps.lastReclaimedZeroCount <= ps.zeroSizeCount
    /\ pc = "unlock" /\ op.compactions = 1 =>
          ps.peakEntryLen = Len(entries) /\ ps.deletedSinceCompact = 0

Removals(s) == s.evictions["Capacity"] + s.evictions["Pressure"]
                                       + s.evictions["Deleted"]

\* checkCounterInvariants, modulo the counters' width: the entries are those
\* inserted and not removed, each removal counted under exactly one reason;
\* every overwrite is counted once, by Put or by Replace; and the evicted-weight
\* counters lose nothing, what was admitted is held now or reported evicted.
CountersBalance ==
    /\ (Len(entries) + Removals(stats)) % CounterModulus = stats.putInserted
    /\ (stats.putUpdated + stats.replaceUpdated) % CounterModulus
         = stats.evictions["Replaced"]
    /\ (TotalWeight(index, size) + stats.evictedWeight) % CounterModulus
         = stats.admittedWeight

-----------------------------------------------------------------------------
(* What an operation did, judged when it is about to unlock                *)

BeforeKeys == FirstKeys(op.before, Len(op.before))

\* The places in the queue of the events of entries that left.
Departures == {i \in 1..Len(op.evictQ) : op.evictQ[i].reason # "Replaced"}

\* Every entry that left was queued for the callbacks exactly once, and nothing
\* that is still cached was.
DeparturesNotified ==
    pc = "unlock" =>
        /\ {op.evictQ[i].key : i \in Departures} = BeforeKeys \ index
        /\ \A i, j \in Departures : op.evictQ[i].key = op.evictQ[j].key => i = j

\* Capacity and pressure evictions are queued from LRU to MRU, DeletePrefix("")
\* from MRU to LRU.
QueueOrder ==
    pc = "unlock" =>
        \A i, j \in Departures :
            i < j /\ ~op.selfEvicted =>
                LET before(n) == Position(op.before, op.evictQ[n].key)
                IN  /\ op.kind \in {"Put", "Replace", "Evaluate"}
                         => before(i) > before(j)
                    /\ op.kind = "DeleteAll" => before(i) < before(j)

\* Replace evicts its own entry exactly when the new weight does not fit beside
\* the entries more recent than it, however canFitGrowthLocked's two-ended scan
\* came to its answer.
ReplaceFitsBesideNewer ==
    pc = "unlock" /\ op.kind = "Replace" =>
        LET newer == FirstKeys(op.before, Position(op.before, op.key) - 1)
        IN  op.selfEvicted <=>
              op.newSize > MaxSize - TotalWeight(newer, op.sizesBefore)

\* What canFitGrowthLocked answered stays true while the eviction loop of
\* replaceResizeOrEvictLocked runs: evicting no further than the entry itself
\* makes room for its new weight.
ReplaceGrowthFits ==
    pc = "grow" /\ op.newSize > size[op.key] =>
        \A i \in 1..Len(entries) :
            entries[i] = op.key =>
                TotalWeight(FirstKeys(entries, i - 1), size) + op.newSize
                    <= MaxSize

\* Tier 2 leaves at most the retained share of the budget, or the entry being
\* written alone when it is larger than that; no more weightless entries than
\* its target, unless the length target is met first; and a ratio of 0 flushes
\* all the rest.
ShedReachesTarget ==
    pc = "completeShed" =>
        /\ currentSize <= AtLeast(TargetSize, ProtectedSize)
        /\ ~NeedZeroShed(ps, Len(entries), op.targets)
        /\ FullFlush => index \subseteq {op.protected}

\* One operation invalidates the shared pressure sample at most once and counts
\* at most one compaction, however many of its stages could.
ReclaimsOnce == op.marks <= 1 /\ op.compactions <= 1

\* The operation that holds c.mu always gets to its unlock.
OperationCompletes == pc # "idle" ~> pc = "idle"

\* docs/architecture.md: with the watermarks, repeated evaluations at sustained
\* critical pressure are idempotent.  A second Tier 2 evaluation, with only
\* Gets, Compacts and evaluations since the first and no recovery, sheds nothing.
ShedIdempotent == op.settled /\ IsBackground => ~op.shed

\* docs/architecture.md: capacity and pressure evictions fire in strict LRU to
\* MRU order, whichever operation caused them.
StrictQueueOrder ==
    pc = "unlock" =>
        \A i, j \in 1..Len(op.evictQ) :
            /\ i < j
            /\ op.evictQ[i].reason \in {"Capacity", "Pressure"}
            /\ op.evictQ[j].reason \in {"Capacity", "Pressure"}
            => Position(op.before, op.evictQ[i].key)
                 > Position(op.before, op.evictQ[j].key)
=============================================================================
