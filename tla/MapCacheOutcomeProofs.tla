----------------------- MODULE MapCacheOutcomeProofs -----------------------
(***************************************************************************)
(* More theorems about MapCache, on top of the invariant of MapCacheProofs: *)
(* the watermarks, what an operation has reclaimed and reported by the time *)
(* it unlocks, and what a Replace may evict.                                *)
(***************************************************************************)
EXTENDS MapCacheProofs, WellFoundedInduction

-----------------------------------------------------------------------------
(* Steps                                                                   *)

\* The steps that erase one entry: a victim of the capacity, of the pressure, or
\* the entry a deletion or a Replace names.
Erasure ==
    \/ UpdateEvict \/ InsertEvict \/ ReplaceEvict \/ ShedEvict
    \/ \E k \in Keys : PrefixErase(k)
    \/ \E k \in Keys, s \in Samples : Delete(k, s)
    \/ \E k \in Keys, w \in Weights, s \in Samples : ReplaceSelfEvict(k, w, s)

\* The steps that start an operation and leave the entries as they are.
Entry ==
    \/ \E k \in Keys, w \in Weights, s \in Samples :
         PutNew(k, w, s) \/ ReplaceGrow(k, w, s) \/ ReplaceNoGrowth(k, w, s)
    \/ \E P \in Prefixes, s \in Samples : DeletePrefix(P, s)
    \/ \E s \in Samples : EvaluateMemoryPressure(s)

\* The steps that reclaim, or finish the operation, without erasing anything.
Reclaiming ==
    \/ FinishDelete \/ ReclaimTier1 \/ CompleteShed \/ FinishMutation

\* The steps that only move on.
Moving == PrefixDone \/ ReclaimTier2 \/ ShedSkip \/ ShedStop \/ FinishDeleteReclaim

\* A step is of one of these kinds.
LEMMA StepKinds ==
    ASSUME [Next]_vars
    PROVE  \/ UNCHANGED vars
           \/ Erasure \/ Entry \/ Reclaiming \/ Moving \/ Unlock
           \/ \E k \in Keys, w \in Weights, s \in Samples : PutExisting(k, w, s)
           \/ UpdateStore \/ InsertStore \/ ReplaceStore
           \/ \E k \in Keys : Get(k)
           \/ \E s \in Samples : MissUnderLock(s)
           \/ Compact
           \/ \E s \in Samples : DeleteAll(s)
           \/ FinishDeleteEmpty \/ CompleteShedEmpty
<1>1. CASE Call
  BY <1>1, Zenon DEF Call, Erasure, Entry
<1>2. CASE Step
  BY <1>2, Zenon DEF Step, Erasure, Reclaiming, Moving
<1> QED BY <1>1, <1>2 DEF Next

\* What syncZeroWatermarkLocked leaves of the watermarks.
LEMMA SyncedType ==
    ASSUME IndInv, NEW s \in Samples
    PROVE  /\ SyncZeroWatermark(s) \in {ps, ClearZeroWatermark(ps)}
           /\ SyncZeroWatermark(s) \in Watermarks
  BY CallTypes, WatermarkTypes

\* What every erasure is.
LEMMA ErasureForm ==
    ASSUME IndInv, Erasure
    PROVE  \E k \in index, reason \in Reasons \ {"Replaced"},
              p \in {ps, ClearZeroWatermark(ps)}, o \in OpRecords :
             EraseEntryLocked(k, reason, p, o)
<1>1. ps \in Watermarks /\ op \in OpRecords /\ \A w \in Weights : w \in Nat
  BY CallTypes
<1>2. CASE UpdateEvict \/ InsertEvict \/ ReplaceEvict
  <2> DEFINE o == [op EXCEPT !.evictedPre = TRUE]
  <2>1. Len(entries) > 0 /\ EraseEntryLocked(Back, "Capacity", ps, o)
    <3>1. Len(entries) > 1 => Len(entries) > 0
      BY CallTypes
    <3> QED BY <1>2, <3>1 DEF UpdateEvict, InsertEvict, ReplaceEvict, UpdateNeedsRoom,
                     InsertNeedsRoom, ReplaceNeedsRoom
  <2>2. Back \in index
    BY <2>1, BackProperties
  <2>3. o \in OpRecords
    BY <1>1 DEF OpRecords
  <2> QED BY <2>1, <2>2, <2>3 DEF Reasons
<1>3. CASE ShedEvict
  <2> DEFINE c == op.cursor - 1
             o == [op EXCEPT !.cursor = c, !.shed = TRUE]
             k == entries[op.cursor]
  <2>1. /\ pc = "shed" /\ op.cursor > 0 /\ op.cursor <= Len(entries)
        /\ EraseEntryLocked(k, "Pressure", ps, o)
    BY <1>3 DEF ShedEvict, ShedContinues, IndInv, Shape
  <2>2. c \in Nat /\ k \in index
    BY <2>1, <1>1, InvLinked DEF OpRecords
  <2> HIDE DEF c, k
  <2>3. o \in OpRecords
    BY <2>2, <1>1 DEF OpRecords
  <2> QED BY <2>1, <2>2, <2>3 DEF Reasons
<1>4. ASSUME NEW k \in Keys, PrefixErase(k)
      PROVE  \E reason \in Reasons \ {"Replaced"}, o \in OpRecords :
               k \in index /\ EraseEntryLocked(k, reason, ps, o)
  <2> DEFINE o == [op EXCEPT !.todo = @ \ {k}]
  <2>1. o \in OpRecords
    BY <1>1 DEF OpRecords
  <2>2. k \in index /\ EraseEntryLocked(k, "Deleted", ps, o)
    BY <1>4 DEF PrefixErase, IndInv, Shape
  <2> QED BY <2>1, <2>2 DEF Reasons
<1>5. ASSUME NEW k \in Keys, NEW s \in Samples, Delete(k, s)
      PROVE  \E reason \in Reasons \ {"Replaced"}, o \in OpRecords :
               k \in index /\ EraseEntryLocked(k, reason, SyncZeroWatermark(s), o)
  <2>1. Begin("Delete", k, 0, s) \in OpRecords
    BY BeginType DEF IndInv, Ops
  <2> QED BY <1>5, <2>1 DEF Delete, Reasons
<1>6. ASSUME NEW k \in Keys, NEW w \in Weights, NEW s \in Samples,
             ReplaceSelfEvict(k, w, s)
      PROVE  \E reason \in Reasons \ {"Replaced"}, o \in OpRecords :
               k \in index /\ EraseEntryLocked(k, reason, SyncZeroWatermark(s), o)
  <2>1. Begin("Replace", k, w, s) \in OpRecords
    BY <1>1, BeginType DEF IndInv, Ops
  <2> DEFINE o == [Begin("Replace", k, w, s) EXCEPT !.selfEvicted = TRUE]
  <2>2. o \in OpRecords
    BY <2>1 DEF OpRecords
  <2>3. k \in index /\ EraseEntryLocked(k, "Capacity", SyncZeroWatermark(s), o)
    BY <1>6 DEF ReplaceSelfEvict
  <2> QED BY <2>2, <2>3 DEF Reasons
<1>7. CASE \E k \in Keys : PrefixErase(k)
  BY <1>4, <1>7
<1>8. CASE \E k \in Keys, s \in Samples : Delete(k, s)
  BY <1>5, <1>8, SyncedType
<1>9. CASE \E k \in Keys, w \in Weights, s \in Samples : ReplaceSelfEvict(k, w, s)
  BY <1>6, <1>9, SyncedType
<1> QED BY <1>2, <1>3, <1>7, <1>8, <1>9 DEF Erasure


\* What the steps that start an operation change of the cache.
LEMMA EntryForm ==
    ASSUME IndInv, Entry
    PROVE  /\ UNCHANGED <<entries, index, size, currentSize, stats>>
           /\ ps' \in {ps, ClearZeroWatermark(ps)}
           /\ pc = "idle" /\ pc' \in {"insert", "grow", "prefix", "reclaim"}
<1>1. CASE \E k \in Keys, w \in Weights, s \in Samples :
             PutNew(k, w, s) \/ ReplaceGrow(k, w, s) \/ ReplaceNoGrowth(k, w, s)
  BY <1>1, SyncedType DEF PutNew, ReplaceGrow, ReplaceNoGrowth
<1>2. CASE \E P \in Prefixes, s \in Samples : DeletePrefix(P, s)
  BY <1>2, SyncedType DEF DeletePrefix
<1>3. CASE \E s \in Samples : EvaluateMemoryPressure(s)
  BY <1>3, SyncedType DEF EvaluateMemoryPressure
<1> QED BY <1>1, <1>2, <1>3 DEF Entry

\* What the steps that only move on change of the cache.
LEMMA MovingForm ==
    ASSUME Moving
    PROVE  UNCHANGED <<entries, index, size, currentSize, ps, stats, settled>>
  BY DEF Moving, PrefixDone, ReclaimTier2, ShedSkip, ShedStop, FinishDeleteReclaim

-----------------------------------------------------------------------------
(* The watermarks                                                          *)

\* The watermarks p cover n entries.
Covered(p, n) ==
    n <= p.peakEntryLen /\ p.lastReclaimedZeroCount <= p.zeroSizeCount

\* The updates of the watermarks keep them above what they summarise.
LEMMA CoverUpdates ==
    ASSUME NEW p \in Watermarks, NEW n \in Nat, Covered(p, n)
    PROVE  /\ Covered(ClearZeroWatermark(p), n)
           /\ Covered(OnCompacted(p, n), n)
           /\ \A w \in Nat : Covered(OnEntryPut(p, n + 1, w), n + 1)
           /\ \A v, w \in Nat : Covered(OnEntrySizeUpdated(p, v, w), n)
           /\ \A w \in Nat : Covered(OnEntryDeleted(p, w), n - 1)
           /\ \A u : \A t \in ShedTargets :
                Covered(UpdateZeroWatermarkAfterShed(p, n, u, t), n)
           /\ Covered(Clean, 0)
<1>1. /\ p.peakEntryLen \in Nat /\ p.zeroSizeCount \in Nat
      /\ p.lastReclaimedZeroCount \in Nat
      /\ n <= p.peakEntryLen /\ p.lastReclaimedZeroCount <= p.zeroSizeCount
  BY DEF Watermarks, Covered
<1>2. Covered(ClearZeroWatermark(p), n)
  BY <1>1 DEF ClearZeroWatermark, Covered, Watermarks
<1>3. Covered(OnCompacted(p, n), n)
  BY <1>1 DEF OnCompacted, Covered, Watermarks, AtMost
<1>4. ASSUME NEW w \in Nat PROVE Covered(OnEntryPut(p, n + 1, w), n + 1)
  BY <1>1 DEF OnEntryPut, Covered, Watermarks, AtLeast
<1>5. \A q \in Watermarks :
        /\ OneZeroFewer(q).peakEntryLen = q.peakEntryLen
        /\ OneZeroFewer(q).zeroSizeCount = q.zeroSizeCount - 1
        /\ OneZeroFewer(q).lastReclaimedZeroCount <= q.zeroSizeCount - 1
  BY DEF OneZeroFewer, Watermarks, AtMost
<1>6. ASSUME NEW v \in Nat, NEW w \in Nat
      PROVE  Covered(OnEntrySizeUpdated(p, v, w), n)
  <2>1. Covered([p EXCEPT !.zeroSizeCount = @ + 1, !.lastReclaimedLen = 0], n)
    BY <1>1 DEF Covered, Watermarks
  <2> QED BY <2>1, <1>1, <1>5 DEF OnEntrySizeUpdated, Covered
<1>7. ASSUME NEW w \in Nat PROVE Covered(OnEntryDeleted(p, w), n - 1)
  <2> DEFINE q == [p EXCEPT !.deletedSinceCompact = CountDeleted(p, 1),
                            !.dirtyIndex = TRUE]
  <2>1. CountDeleted(p, 1) \in 0..DeletedCap
    BY SlackAssumption DEF CountDeleted, AtMost, Watermarks
  <2>2. /\ q \in Watermarks /\ q.zeroSizeCount = p.zeroSizeCount
        /\ q.peakEntryLen = p.peakEntryLen
        /\ q.lastReclaimedZeroCount = p.lastReclaimedZeroCount
    BY <2>1 DEF Watermarks
  <2>3. OnEntryDeleted(p, w) =
          IF w = 0 /\ p.zeroSizeCount > 0 THEN OneZeroFewer(q)
          ELSE IF w > 0 THEN [q EXCEPT !.lastReclaimedLen = 0] ELSE q
    BY DEF OnEntryDeleted
  <2> HIDE DEF q
  <2>4. Covered([q EXCEPT !.lastReclaimedLen = 0], n - 1)
    BY <2>2, <1>1 DEF Covered, Watermarks
  <2> QED BY <2>2, <2>3, <2>4, <1>1, <1>5 DEF Covered
<1>8. ASSUME NEW u, NEW t \in ShedTargets
      PROVE  Covered(UpdateZeroWatermarkAfterShed(p, n, u, t), n)
  <2> DEFINE y == AtMost(p.zeroSizeCount, t.unprotectedZero)
             z == IF u /\ n > p.zeroSizeCount THEN AtMost(n, t.len) ELSE 0
  <2>1. y <= p.zeroSizeCount /\ y \in Nat
    BY <1>1 DEF AtMost, ShedTargets
  <2>2. UpdateZeroWatermarkAfterShed(p, n, u, t) =
          IF ~FullFlush /\ p.zeroSizeCount > 0
          THEN [p EXCEPT !.lastReclaimedZeroCount = y, !.lastReclaimedLen = z]
          ELSE ClearZeroWatermark(p)
    BY DEF UpdateZeroWatermarkAfterShed
  <2> HIDE DEF y, z
  <2>3. Covered([p EXCEPT !.lastReclaimedZeroCount = y, !.lastReclaimedLen = z], n)
    BY <2>1, <1>1 DEF Covered, Watermarks
  <2> QED BY <2>2, <2>3, <1>2
<1>9. Covered(Clean, 0)
  BY DEF Covered, Clean
<1> QED BY <1>2, <1>3, <1>4, <1>6, <1>7, <1>8, <1>9

\* The watermarks cover the entries at every step, not only between operations.
CoverInv == Covered(ps, Len(entries))

\* Reclaiming steps that work on the entries left.
LEMMA ReclaimingCovers ==
    ASSUME IndInv, CoverInv, Reclaiming
    PROVE  CoverInv'
<1> DEFINE n == Len(entries)
<1>1. /\ n \in Nat /\ ps \in Watermarks /\ op \in OpRecords /\ Covered(ps, n)
      /\ op.targets \in ShedTargets
  BY CallTypes DEF CoverInv, OpRecords
<1>2. entries' = entries
  BY DEF Reclaiming, FinishDelete, ReclaimTier1, CompleteShed, FinishMutation
<1>3. /\ Covered(ClearZeroWatermark(ps), n) /\ ClearZeroWatermark(ps) \in Watermarks
      /\ Covered(OnCompacted(ps, n), n) /\ OnCompacted(ps, n) \in Watermarks
      /\ \A u : /\ Covered(UpdateZeroWatermarkAfterShed(ps, n, u, op.targets), n)
                /\ UpdateZeroWatermarkAfterShed(ps, n, u, op.targets) \in Watermarks
  BY <1>1, CoverUpdates, WatermarkTypes, ShedTypes
<1>4. \A q \in Watermarks : \A pressure, valid :
        /\ ResetZeroWatermarkBelowTier2(q, pressure, valid) \in {q, ClearZeroWatermark(q)}
        /\ Covered(q, n) => /\ Covered(ClearZeroWatermark(q), n)
                            /\ Covered(OnCompacted(q, n), n)
  BY <1>1, CoverUpdates DEF ResetZeroWatermarkBelowTier2
<1>r. \A pressure, valid : LET q == ResetZeroWatermarkBelowTier2(ps, pressure, valid)
                           IN  q \in Watermarks /\ Covered(q, n)
  BY <1>1, <1>3, <1>4
<1>5. CASE FinishDelete
  <2>1. PICK single \in BOOLEAN :
          LET p == IF single THEN OnCompacted(ps, n) ELSE ps
          IN  ps' \in {p, ResetZeroWatermarkBelowTier2(p, op.sample.pressure,
                                                       op.sample.valid)}
    <3>1. ShouldReclaimSingleSurvivorOnDelete(ps, n, HasSlack(ps, n)) \in BOOLEAN
      BY DEF ShouldReclaimSingleSurvivorOnDelete
    <3> QED BY <1>5, <3>1 DEF FinishDelete
  <2> DEFINE p == IF single THEN OnCompacted(ps, n) ELSE ps
  <2>2. p \in Watermarks /\ Covered(p, n)
    BY <1>1, <1>3
  <2> HIDE DEF p
  <2>3. ps' \in {p, ClearZeroWatermark(p)}
    BY <2>1, <2>2, <1>4 DEF p
  <2> QED BY <2>2, <2>3, <1>2, <1>4 DEF CoverInv
<1>6. CASE ReclaimTier1
  <2> DEFINE p == ResetZeroWatermarkBelowTier2(ps, op.sample.pressure,
                                               op.sample.valid)
  <2>1. ps' \in {p, OnCompacted(p, n)}
    BY <1>6 DEF ReclaimTier1
  <2>2. p \in Watermarks /\ Covered(p, n)
    BY <1>r
  <2> QED BY <2>1, <2>2, <1>2, <1>4 DEF CoverInv
<1>7. CASE CompleteShed
  <2> DEFINE unadjusted == ~HasProtected \/ op.targets.effective <= TargetSize
             p == IF op.shed
                  THEN UpdateZeroWatermarkAfterShed(ps, n, unadjusted, op.targets)
                  ELSE ps
  <2>1. ps' \in {p, OnCompacted(p, n)}
    BY <1>7 DEF CompleteShed
  <2>2. p \in Watermarks /\ Covered(p, n)
    BY <1>1, <1>3
  <2> HIDE DEF p
  <2> QED BY <2>1, <2>2, <1>2, <1>4 DEF CoverInv
<1>8. CASE FinishMutation
  BY <1>8, <1>1, <1>2, <1>3 DEF FinishMutation, CoverInv
<1> QED BY <1>5, <1>6, <1>7, <1>8 DEF Reclaiming

\* Every step keeps the entries covered.
LEMMA CoverKeeps ==
    ASSUME IndInv, CoverInv, [Next]_vars
    PROVE  CoverInv'
<1> DEFINE n == Len(entries)
<1>1. /\ n \in Nat /\ ps \in Watermarks /\ Covered(ps, n)
      /\ Covered(ClearZeroWatermark(ps), n) /\ ClearZeroWatermark(ps) \in Watermarks
      /\ \A w \in Weights : w \in Nat
      /\ \A k \in Keys : size[k] \in Nat
      /\ index \in SUBSET Keys
      /\ Clean \in Watermarks
  BY CallTypes, CoverUpdates, WatermarkTypes, InvWeights, InvLinked DEF CoverInv
<1>2. CASE Erasure
  <2>1. PICK k \in index, reason \in Reasons, p \in {ps, ClearZeroWatermark(ps)},
             o \in OpRecords : EraseEntryLocked(k, reason, p, o)
    BY <1>2, ErasureForm
  <2>2. Len(entries') = n - 1 /\ ps' = OnEntryDeleted(p, size[k])
    BY <2>1, <1>1, EraseEffect DEF EraseEntryLocked
  <2> QED BY <2>2, <1>1, CoverUpdates DEF CoverInv
<1>3. CASE Entry \/ \E s \in Samples : MissUnderLock(s)
  BY <1>1, <1>3, EntryForm, SyncedType DEF CoverInv, MissUnderLock
<1>4. CASE UNCHANGED vars \/ Moving \/ Unlock
  BY <1>4, MovingForm DEF CoverInv, vars, Unlock
<1>5. CASE Reclaiming
  BY <1>5, ReclaimingCovers
<1>6. CASE \E k \in Keys : Get(k)
  <2>1. PICK k \in index : entries' = MoveToFront(entries, k) /\ ps' = ps
    BY <1>6 DEF Get
  <2>2. k \in FirstKeys(entries, Len(entries))
    BY InvLinked, Zenon
  <2> QED BY <2>1, <2>2, InvLinked, MoveToFrontLinks DEF CoverInv
<1>7. CASE \E k \in Keys, w \in Weights, s \in Samples : PutExisting(k, w, s)
  <2>1. PICK k \in index, w \in Nat, s \in Samples :
          /\ entries' = MoveToFront(entries, k)
          /\ ps' = OnEntrySizeUpdated(SyncZeroWatermark(s), size[k], w)
    BY <1>1, <1>7 DEF PutExisting
  <2>2. k \in FirstKeys(entries, Len(entries))
    BY InvLinked, Zenon
  <2>3. Len(entries') = n
    BY <2>1, <2>2, InvLinked, MoveToFrontLinks
  <2>4. SyncZeroWatermark(s) \in Watermarks /\ Covered(SyncZeroWatermark(s), n)
    BY <1>1, SyncedType
  <2>5. size[k] \in Nat
    BY <1>1
  <2> QED BY <2>1, <2>3, <2>4, <2>5, <1>1, CoverUpdates DEF CoverInv
<1>8. CASE UpdateStore
  BY <1>8 DEF UpdateStore, CoverInv
<1>9. CASE ReplaceStore
  <2>1. /\ entries' = entries /\ ps' = OnEntrySizeUpdated(ps, size[op.key], op.newSize)
        /\ op.key \in index
    BY <1>9 DEF ReplaceStore, IndInv, Shape
  <2>2. size[op.key] \in Nat /\ op.newSize \in Nat
    BY <2>1, <1>1, CallTypes DEF OpRecords
  <2> QED BY <2>1, <2>2, <1>1, CoverUpdates DEF CoverInv
<1>10. CASE InsertStore
  <2>1. /\ entries' = PushFront(entries, op.key) /\ op.key \notin index /\ op.key \in Keys
    BY <1>10 DEF InsertStore, IndInv, Shape
  <2>2. PICK emptied \in BOOLEAN :
          /\ emptied => n = 0
          /\ ps' = OnEntryPut(IF emptied THEN Clean ELSE ps, n + 1, op.newSize)
    <3>1. \A x, y, z, e : /\ ShouldReclaimEmptyPrePut(ps, n, x, y, z, e) \in BOOLEAN
                          /\ ShouldReclaimEmptyPrePut(ps, n, x, y, z, e) => n = 0
      BY DEF ShouldReclaimEmptyPrePut
    <3> QED BY <1>10, <3>1, Zenon DEF InsertStore
  <2>3. op.key \notin FirstKeys(entries, Len(entries))
    BY <2>1, InvLinked, Zenon
  <2>4. Len(entries') = n + 1
    BY <2>1, <2>3, InvLinked, PushFrontLinks
  <2>5. op.newSize \in Nat
    BY CallTypes DEF OpRecords
  <2>6. CASE emptied
    <3>1. Covered(OnEntryPut(Clean, n + 1, op.newSize), n + 1)
      BY <2>2, <2>5, <2>6, <1>1, CoverUpdates
    <3> QED BY <3>1, <2>2, <2>4, <2>6 DEF CoverInv
  <2>7. CASE ~emptied
    BY <2>2, <2>4, <2>5, <2>7, <1>1, CoverUpdates DEF CoverInv
  <2> QED BY <2>6, <2>7
<1>11. CASE Compact
  BY <1>1, <1>11, CoverUpdates DEF Compact, CoverInv
<1>12. CASE (\E s \in Samples : DeleteAll(s)) \/ FinishDeleteEmpty \/ CompleteShedEmpty
  <2>1. entries' = <<>> /\ ps' = Clean
    BY <1>12 DEF DeleteAll, FinishDeleteEmpty, CompleteShedEmpty
  <2> QED BY <2>1, <1>1, CoverUpdates DEF CoverInv
<1> QED BY <1>2, <1>3, <1>4, <1>5, <1>6, <1>7, <1>8, <1>9, <1>10, <1>11, <1>12,
           StepKinds

-----------------------------------------------------------------------------
(* The locals of an operation                                              *)

\* What q keeps of o: what the operation was asked, and what it found.
Kept(o, q) ==
    /\ q.kind = o.kind /\ q.key = o.key /\ q.newSize = o.newSize
    /\ q.sample = o.sample /\ q.before = o.before
    /\ q.sizesBefore = o.sizesBefore /\ q.selfEvicted = o.selfEvicted

\* What the helpers that write to the locals leave alone.
LEMMA LocalUpdates ==
    ASSUME NEW o \in OpRecords
    PROVE  /\ \A k, r : LET q == Enqueue(o, k, r)
                        IN  /\ Kept(o, q) /\ q.protected = o.protected
                            /\ q.marks = o.marks /\ q.compactions = o.compactions
                            /\ q.shed = o.shed /\ q.todo = o.todo
                            /\ q.cursor = o.cursor /\ q.targets = o.targets
                            /\ q.evictedPre = o.evictedPre
                            /\ q.compactedPre = o.compactedPre
                            /\ q.evictQ = Append(o.evictQ, [key |-> k, reason |-> r])
           /\ \A recorded : LET q == RecordCompaction(o, recorded)
                            IN  /\ Kept(o, q) /\ q.protected = o.protected
                                /\ q.marks = o.marks /\ q.shed = o.shed
                                /\ q.evictQ = o.evictQ
                                /\ q.compactions = IF recorded THEN o.compactions + 1
                                                   ELSE o.compactions
           /\ \A marked : LET q == MarkReclaimed(o, marked)
                          IN  /\ Kept(o, q) /\ q.protected = o.protected
                              /\ q.compactions = o.compactions /\ q.shed = o.shed
                              /\ q.evictQ = o.evictQ
                              /\ q.marks = IF marked THEN o.marks + 1 ELSE o.marks
<1>1. \A k, r : LET q == Enqueue(o, k, r)
                IN  /\ Kept(o, q) /\ q.protected = o.protected
                    /\ q.marks = o.marks /\ q.compactions = o.compactions
                    /\ q.shed = o.shed /\ q.todo = o.todo
                    /\ q.cursor = o.cursor /\ q.targets = o.targets
                    /\ q.evictedPre = o.evictedPre
                    /\ q.compactedPre = o.compactedPre
                    /\ q.evictQ = Append(o.evictQ, [key |-> k, reason |-> r])
  BY DEF Enqueue, OpRecords, Kept
<1>2. \A recorded : LET q == RecordCompaction(o, recorded)
                    IN  /\ Kept(o, q) /\ q.protected = o.protected
                        /\ q.marks = o.marks /\ q.shed = o.shed
                        /\ q.evictQ = o.evictQ
                        /\ q.compactions = IF recorded THEN o.compactions + 1
                                           ELSE o.compactions
  BY DEF RecordCompaction, OpRecords, Kept
<1>3. \A marked : LET q == MarkReclaimed(o, marked)
                  IN  /\ Kept(o, q) /\ q.protected = o.protected
                      /\ q.compactions = o.compactions /\ q.shed = o.shed
                      /\ q.evictQ = o.evictQ
                      /\ q.marks = IF marked THEN o.marks + 1 ELSE o.marks
  BY DEF MarkReclaimed, OpRecords, Kept
<1> QED BY <1>1, <1>2, <1>3

\* The same for one event, of whatever record it makes.
LEMMA EnqueueFields ==
    ASSUME NEW o \in OpRecords, NEW k, NEW r, NEW q, q = Enqueue(o, k, r)
    PROVE  /\ Kept(o, q) /\ q.protected = o.protected /\ q.marks = o.marks
           /\ q.compactions = o.compactions /\ q.shed = o.shed
           /\ q.cursor = o.cursor /\ q.targets = o.targets
           /\ q.evictedPre = o.evictedPre
           /\ q.evictQ = Append(o.evictQ, [key |-> k, reason |-> r])
  BY LocalUpdates

\* The locals of an operation that has done nothing yet.
Fresh(o) ==
    /\ o.before = entries /\ o.sizesBefore = size /\ o.evictQ = <<>>
    /\ o.protected = NoKey /\ ~o.selfEvicted /\ ~o.evictedPre /\ ~o.shed
    /\ o.marks = 0 /\ o.compactions = 0

\* What an operation knows when it starts.
LEMMA BeginFields ==
    ASSUME IndInv, NEW kind \in Ops, NEW k \in Keys \cup {NoKey}, NEW w \in Nat,
           NEW s \in Samples
    PROVE  LET o == Begin(kind, k, w, s)
           IN  /\ o \in OpRecords /\ Fresh(o) /\ o.kind = kind /\ o.key = k
               /\ o.newSize = w /\ o.sample = s
<1>1. Begin(kind, k, w, s) \in OpRecords
  BY BeginType DEF IndInv
<1> QED BY <1>1 DEF Begin, NoOp, Fresh

\* The kinds of operation that pass through the stages before the reclamation.
KindFits(o, stage) ==
    /\ stage \in {"update", "insert"} => o.kind = "Put"
    /\ stage = "grow" => o.kind = "Replace"
    /\ stage = "prefix" => o.kind = "DeletePrefix"
    /\ stage = "deleted" => o.kind \in {"Delete", "DeletePrefix", "Replace"}

\* The locals after the start of a Put on a cached key.
LEMMA PutExistingForm ==
    ASSUME IndInv, NEW k \in Keys, NEW w \in Weights, NEW s \in Samples,
           PutExisting(k, w, s)
    PROVE  /\ op' \in OpRecords /\ Fresh(op') /\ op'.kind = "Put" /\ op'.key = k
           /\ op'.newSize = w /\ pc = "idle" /\ pc' = "update"
<1> DEFINE b == Begin("Put", k, w, s)
           z == ShouldEvictOnZeroWeightShrink(SyncZeroWatermark(s), size[k], w)
<1>1. b \in OpRecords /\ Fresh(b) /\ b.kind = "Put" /\ b.key = k /\ b.newSize = w
  BY CallTypes, BeginFields DEF Ops
<1>2. /\ op' = [b EXCEPT !.hadZeroCap = z] /\ z \in BOOLEAN /\ pc = "idle"
      /\ pc' = "update"
  BY DEF PutExisting, ShouldEvictOnZeroWeightShrink
<1> HIDE DEF b, z
<1>3. op' \in OpRecords
  BY <1>1, <1>2 DEF OpRecords
<1> QED BY <1>1, <1>2, <1>3 DEF OpRecords, Fresh

\* The locals after the other starts that erase nothing.
LEMMA EntryLocals ==
    ASSUME IndInv, Entry
    PROVE  /\ op' \in OpRecords /\ Fresh(op')
           /\ pc' # "reclaim" => op'.kind # "Evaluate"
           /\ pc' = "reclaim" => op'.kind = "Evaluate" /\ op'.key = NoKey
           /\ KindFits(op', pc')
           /\ pc' = "insert" => op'.key \notin index
<1> USE DEF Ops, KindFits
<1>w. \A w \in Weights : w \in Nat
  BY CallTypes
<1>1. ASSUME NEW k \in Keys, NEW w \in Weights, NEW s \in Samples, PutNew(k, w, s)
      PROVE  /\ op' = Begin("Put", k, w, s) /\ pc' = "insert" /\ k \notin index
             /\ op' \in OpRecords /\ Fresh(op') /\ op'.kind = "Put" /\ op'.key = k
  BY <1>w, <1>1, BeginFields DEF PutNew
<1>2. ASSUME NEW k \in Keys, NEW w \in Weights, NEW s \in Samples,
             ReplaceGrow(k, w, s)
      PROVE  /\ pc' = "grow" /\ op' \in OpRecords /\ Fresh(op')
             /\ op'.kind = "Replace"
  BY <1>w, <1>2, BeginFields DEF ReplaceGrow
<1>3. ASSUME NEW k \in Keys, NEW w \in Weights, NEW s \in Samples,
             ReplaceNoGrowth(k, w, s)
      PROVE  /\ pc' = "grow" /\ op' \in OpRecords /\ Fresh(op')
             /\ op'.kind = "Replace"
  <2> DEFINE b == Begin("Replace", k, w, s)
             z == ShouldEvictOnZeroWeightShrink(SyncZeroWatermark(s), size[k], w)
  <2>1. b \in OpRecords /\ Fresh(b) /\ b.kind = "Replace"
    BY <1>w, BeginFields
  <2>2. op' = [b EXCEPT !.hadZeroCap = z] /\ z \in BOOLEAN /\ pc' = "grow"
    BY <1>3 DEF ReplaceNoGrowth, ShouldEvictOnZeroWeightShrink
  <2> HIDE DEF b, z
  <2>3. op' \in OpRecords
    BY <2>1, <2>2 DEF OpRecords
  <2> QED BY <2>1, <2>2, <2>3 DEF OpRecords, Fresh
<1>4. ASSUME NEW P \in Prefixes, NEW s \in Samples, DeletePrefix(P, s)
      PROVE  /\ pc' = "prefix" /\ op' \in OpRecords /\ Fresh(op')
             /\ op'.kind = "DeletePrefix"
  <2> DEFINE b == Begin("DeletePrefix", NoKey, 0, s)
             todo == P \cap index
  <2>1. b \in OpRecords /\ Fresh(b) /\ b.kind = "DeletePrefix"
    BY BeginFields
  <2>2. op' = [b EXCEPT !.todo = todo] /\ pc' = "prefix"
    BY <1>4 DEF DeletePrefix
  <2>3. todo \in SUBSET Keys
    BY InvLinked
  <2> HIDE DEF b, todo
  <2>4. op' \in OpRecords
    BY <2>1, <2>2, <2>3 DEF OpRecords
  <2> QED BY <2>1, <2>2, <2>4 DEF OpRecords, Fresh
<1>5. ASSUME NEW s \in Samples, EvaluateMemoryPressure(s)
      PROVE  /\ pc' = "reclaim" /\ op' \in OpRecords /\ Fresh(op')
             /\ op'.kind = "Evaluate" /\ op'.key = NoKey
  BY <1>5, BeginFields DEF EvaluateMemoryPressure
<1> QED BY <1>1, <1>2, <1>3, <1>4, <1>5 DEF Entry


\* The entry k leaves under the reason r, and the operation in flight goes on.
Evicts(k, r) ==
    /\ k \in index /\ k \in Keys /\ r \in Reasons \ {"Replaced"}
    /\ \E o \in OpRecords : EraseEntryLocked(k, r, ps, o)
    /\ op' \in OpRecords /\ Kept(op, op') /\ op'.protected = op.protected
    /\ op'.marks = op.marks /\ op'.compactions = op.compactions
    /\ op'.evictQ = Append(op.evictQ, [key |-> k, reason |-> r])
    /\ pc' = pc /\ settled' = settled

\* One step of a capacity loop.
LEMMA CapacityErasure ==
    ASSUME IndInv, UpdateEvict \/ InsertEvict \/ ReplaceEvict
    PROVE  /\ Len(entries) > 0 /\ Evicts(Back, "Capacity") /\ op'.shed = op.shed
           /\ op'.evictedPre /\ Back # op.key
           /\ pc \in {"update", "insert", "grow"}
<1> DEFINE o == [op EXCEPT !.evictedPre = TRUE]
<1>1. /\ Len(entries) > 0 /\ EraseEntryLocked(Back, "Capacity", ps, o)
      /\ pc \in {"update", "insert", "grow"} /\ UNCHANGED <<pc, settled>>
  <2>1. Len(entries) > 1 => Len(entries) > 0
    BY CallTypes
  <2> QED BY <2>1 DEF UpdateEvict, InsertEvict, ReplaceEvict, UpdateNeedsRoom,
                      InsertNeedsRoom, ReplaceNeedsRoom
<1>2. Back \in index /\ Back \in Keys
  BY <1>1, BackProperties
<1>3. o \in OpRecords /\ op \in OpRecords
  BY CallTypes DEF OpRecords
<1>4. /\ Kept(op, o) /\ o.protected = op.protected /\ o.marks = op.marks
      /\ o.compactions = op.compactions /\ o.shed = op.shed
      /\ o.evictQ = op.evictQ /\ o.evictedPre
  BY <1>3 DEF OpRecords, Kept
<1>5. op' = Enqueue(o, Back, "Capacity") /\ op' \in OpRecords
  BY <1>1, <1>2, <1>3, RecordTypes DEF EraseEntryLocked, Reasons
<1>6. Back # op.key
  <2>1. CASE pc = "update"
    <3>1. Len(entries) > 1 /\ entries[1] = op.key
      BY <1>1, <2>1 DEF UpdateEvict, InsertEvict, ReplaceEvict, UpdateNeedsRoom,
                        IndInv, Shape
    <3> QED BY <3>1, InvLinked DEF Back, Linked
  <2>2. CASE pc = "insert"
    BY <1>2, <2>2 DEF IndInv, Shape
  <2>3. CASE pc = "grow"
    BY <2>3 DEF UpdateEvict, InsertEvict, ReplaceEvict, ReplaceNeedsRoom
  <2> QED BY <1>1, <2>1, <2>2, <2>3
<1> HIDE DEF o
<1>7. /\ Kept(o, op') /\ op'.protected = o.protected /\ op'.marks = o.marks
      /\ op'.compactions = o.compactions /\ op'.shed = o.shed
      /\ op'.evictedPre = o.evictedPre
      /\ op'.evictQ = Append(o.evictQ, [key |-> Back, reason |-> "Capacity"])
  BY <1>3, <1>5, EnqueueFields
<1>8. Evicts(Back, "Capacity")
  BY <1>1, <1>2, <1>3, <1>4, <1>5, <1>7 DEF Evicts, Kept, Reasons
<1> QED BY <1>1, <1>4, <1>6, <1>7, <1>8

\* One step of the shedding loop that takes a victim.
LEMMA ShedErasure ==
    ASSUME IndInv, ShedEvict
    PROVE  LET k == entries[op.cursor]
           IN  /\ Evicts(k, "Pressure") /\ pc = "shed"
               /\ op.cursor \in 1..Len(entries)
               /\ op'.cursor = op.cursor - 1 /\ op'.shed
               /\ op'.targets = op.targets
               /\ k # op.protected
<1> DEFINE c == op.cursor - 1
           o == [op EXCEPT !.cursor = c, !.shed = TRUE]
           k == entries[op.cursor]
<1>1. /\ pc = "shed" /\ op.cursor > 0 /\ op.cursor <= Len(entries)
      /\ EraseEntryLocked(k, "Pressure", ps, o) /\ UNCHANGED <<pc, settled>>
      /\ ShedTakesVictim
  BY DEF ShedEvict, ShedContinues, IndInv, Shape
<1>2. /\ op \in OpRecords /\ op.cursor \in 1..Len(entries) /\ c \in Nat
      /\ k \in index /\ k \in Keys
  BY <1>1, CallTypes, InvLinked DEF OpRecords
<1>3. k # op.protected
  BY <1>1 DEF ShedTakesVictim, ShouldEvictShedVictim
<1> HIDE DEF c, k
<1>4. o \in OpRecords
  BY <1>2 DEF OpRecords
<1>5. /\ Kept(op, o) /\ o.protected = op.protected /\ o.marks = op.marks
      /\ o.compactions = op.compactions /\ o.shed /\ o.cursor = c
      /\ o.evictQ = op.evictQ /\ o.targets = op.targets
  BY <1>2 DEF OpRecords, Kept
<1>6. op' = Enqueue(o, k, "Pressure") /\ op' \in OpRecords
  BY <1>1, <1>2, <1>4, RecordTypes DEF EraseEntryLocked, Reasons
<1> HIDE DEF o
<1>7. /\ Kept(o, op') /\ op'.protected = o.protected /\ op'.marks = o.marks
      /\ op'.compactions = o.compactions /\ op'.shed = o.shed
      /\ op'.cursor = o.cursor /\ op'.targets = o.targets
      /\ op'.evictQ = Append(o.evictQ, [key |-> k, reason |-> "Pressure"])
  BY <1>4, <1>6, EnqueueFields
<1>8. Evicts(k, "Pressure")
  BY <1>1, <1>2, <1>4, <1>5, <1>6, <1>7 DEF Evicts, Kept, Reasons
<1> QED BY <1>1, <1>2, <1>3, <1>5, <1>7, <1>8 DEF k, c

\* One step of the loop over a prefix.
LEMMA PrefixErasure ==
    ASSUME IndInv, NEW k \in Keys, PrefixErase(k)
    PROVE  /\ Evicts(k, "Deleted") /\ pc = "prefix" /\ op'.shed = op.shed
<1> DEFINE todo == op.todo \ {k}
           o == [op EXCEPT !.todo = todo]
<1>1. /\ pc = "prefix" /\ k \in index /\ UNCHANGED <<pc, settled>>
      /\ EraseEntryLocked(k, "Deleted", ps, o)
  BY DEF PrefixErase, IndInv, Shape
<1>2. op \in OpRecords /\ todo \in SUBSET Keys
  BY CallTypes DEF OpRecords
<1> HIDE DEF todo
<1>3. o \in OpRecords
  BY <1>2 DEF OpRecords
<1>4. /\ Kept(op, o) /\ o.protected = op.protected /\ o.marks = op.marks
      /\ o.compactions = op.compactions /\ o.shed = op.shed
      /\ o.evictQ = op.evictQ
  BY <1>2 DEF OpRecords, Kept
<1>5. op' = Enqueue(o, k, "Deleted") /\ op' \in OpRecords
  BY <1>1, <1>3, RecordTypes DEF EraseEntryLocked, Reasons
<1> HIDE DEF o
<1>6. /\ Kept(o, op') /\ op'.protected = o.protected /\ op'.marks = o.marks
      /\ op'.compactions = o.compactions /\ op'.shed = o.shed
      /\ op'.evictQ = Append(o.evictQ, [key |-> k, reason |-> "Deleted"])
  BY <1>3, <1>5, EnqueueFields
<1> QED BY <1>1, <1>3, <1>4, <1>5, <1>6 DEF Evicts, Kept, Reasons

\* What an operation knows once it has begun with the erasure of k.
BeganErasing(k, r) ==
    /\ k \in index /\ k \in Keys /\ r \in Reasons \ {"Replaced"}
    /\ \E p \in {ps, ClearZeroWatermark(ps)}, o \in OpRecords :
         EraseEntryLocked(k, r, p, o)
    /\ op' \in OpRecords
    /\ op'.before = entries /\ op'.sizesBefore = size
    /\ op'.evictQ = <<[key |-> k, reason |-> r]>>
    /\ op'.protected = NoKey /\ ~op'.shed /\ op'.marks = 0 /\ op'.compactions = 0
    /\ pc = "idle" /\ pc' = "deleted"

\* A Delete, and a Replace that evicts its own entry.
LEMMA FirstErasure ==
    ASSUME IndInv, NEW k \in Keys, NEW s \in Samples
    PROVE  /\ Delete(k, s) =>
                BeganErasing(k, "Deleted") /\ op'.kind = "Delete"
           /\ \A w \in Weights : ReplaceSelfEvict(k, w, s) =>
                /\ BeganErasing(k, "Capacity") /\ op'.kind = "Replace"
                /\ op'.selfEvicted /\ op'.key = k /\ op'.newSize = w
<1>1. ASSUME NEW o \in OpRecords, NEW r \in Reasons \ {"Replaced"},
             Fresh([o EXCEPT !.selfEvicted = FALSE]), k \in index,
             EraseEntryLocked(k, r, SyncZeroWatermark(s), o),
             pc = "idle", pc' = "deleted"
      PROVE  /\ BeganErasing(k, r) /\ op'.kind = o.kind
             /\ op'.selfEvicted = o.selfEvicted
             /\ op'.key = o.key /\ op'.newSize = o.newSize
  <2>1. op' = Enqueue(o, k, r) /\ op' \in OpRecords
    BY <1>1, RecordTypes DEF EraseEntryLocked
  <2>2. /\ Kept(o, op') /\ op'.protected = o.protected /\ op'.marks = o.marks
        /\ op'.compactions = o.compactions /\ op'.shed = o.shed
        /\ op'.evictQ = Append(o.evictQ, [key |-> k, reason |-> r])
    BY <1>1, <2>1, EnqueueFields
  <2>3. /\ o.before = entries /\ o.sizesBefore = size /\ o.evictQ = <<>>
        /\ o.protected = NoKey /\ ~o.shed /\ o.marks = 0 /\ o.compactions = 0
    BY <1>1 DEF Fresh, OpRecords
  <2>4. op'.evictQ = <<[key |-> k, reason |-> r]>>
    BY <2>2, <2>3
  <2> QED BY <1>1, <2>1, <2>2, <2>3, <2>4, SyncedType DEF BeganErasing, Kept
<1>2. ASSUME Delete(k, s)
      PROVE  BeganErasing(k, "Deleted") /\ op'.kind = "Delete"
  <2> DEFINE o == Begin("Delete", k, 0, s)
  <2>1. o \in OpRecords /\ Fresh(o) /\ o.kind = "Delete"
    BY BeginFields DEF Ops
  <2>2. /\ k \in index /\ EraseEntryLocked(k, "Deleted", SyncZeroWatermark(s), o)
        /\ pc = "idle" /\ pc' = "deleted"
    BY <1>2 DEF Delete
  <2> HIDE DEF o
  <2>3. Fresh([o EXCEPT !.selfEvicted = FALSE])
    BY <2>1 DEF Fresh, OpRecords
  <2> QED BY <1>1, <2>1, <2>2, <2>3 DEF Reasons
<1>3. ASSUME NEW w \in Weights, ReplaceSelfEvict(k, w, s)
      PROVE  /\ BeganErasing(k, "Capacity") /\ op'.kind = "Replace"
             /\ op'.selfEvicted /\ op'.key = k /\ op'.newSize = w
  <2> DEFINE b == Begin("Replace", k, w, s)
             o == [b EXCEPT !.selfEvicted = TRUE]
  <2>1. /\ b \in OpRecords /\ Fresh(b) /\ b.kind = "Replace" /\ b.key = k
        /\ b.newSize = w
    BY CallTypes, BeginFields DEF Ops
  <2>2. /\ k \in index /\ EraseEntryLocked(k, "Capacity", SyncZeroWatermark(s), o)
        /\ pc = "idle" /\ pc' = "deleted"
    BY <1>3 DEF ReplaceSelfEvict
  <2> HIDE DEF b
  <2>3. /\ o \in OpRecords /\ o.kind = "Replace" /\ o.selfEvicted /\ o.key = k
        /\ o.newSize = w
    BY <2>1 DEF OpRecords
  <2>4. Fresh([o EXCEPT !.selfEvicted = FALSE])
    BY <2>1 DEF Fresh, OpRecords
  <2> HIDE DEF o
  <2> QED BY <1>1, <2>2, <2>3, <2>4 DEF Reasons
<1> QED BY <1>2, <1>3


\* The locals after a compaction and a mark have been recorded, or not.
LEMMA MarkedFields ==
    ASSUME NEW o \in OpRecords, NEW recorded, NEW marked, NEW q,
           q = MarkReclaimed(RecordCompaction(o, recorded), marked)
    PROVE  /\ q \in OpRecords /\ Kept(o, q) /\ q.protected = o.protected
           /\ q.shed = o.shed /\ q.evictQ = o.evictQ
           /\ q.compactions = IF recorded THEN o.compactions + 1 ELSE o.compactions
           /\ q.marks = IF marked THEN o.marks + 1 ELSE o.marks
<1> DEFINE c == RecordCompaction(o, recorded)
<1>1. /\ c \in OpRecords /\ Kept(o, c) /\ c.protected = o.protected
      /\ c.marks = o.marks /\ c.shed = o.shed /\ c.evictQ = o.evictQ
      /\ c.compactions = IF recorded THEN o.compactions + 1 ELSE o.compactions
  BY LocalUpdates, RecordTypes
<1>2. q \in OpRecords
  BY MarkedType
<1>3. q = MarkReclaimed(c, marked)
  OBVIOUS
<1> HIDE DEF c
<1>4. /\ Kept(c, q) /\ q.protected = c.protected
      /\ q.compactions = c.compactions /\ q.shed = c.shed /\ q.evictQ = c.evictQ
      /\ q.marks = IF marked THEN c.marks + 1 ELSE c.marks
  BY <1>1, <1>3, LocalUpdates
<1> QED BY <1>1, <1>2, <1>4 DEF Kept

\* The locals once the new weight is stored on a cached entry.
LEMMA StoreForm ==
    ASSUME IndInv, UpdateStore \/ ReplaceStore
    PROVE  /\ op' \in OpRecords /\ Kept(op, op') /\ op'.protected = op.key
           /\ op'.marks = op.marks /\ op'.compactions = op.compactions
           /\ op'.shed = op.shed
           /\ op'.evictQ = Append(op.evictQ, [key |-> op.key, reason |-> "Replaced"])
           /\ pc \in {"update", "grow"} /\ pc' \in {"reclaim", "unlock"}
           /\ entries' = entries /\ index' = index /\ op.key \in index
           /\ op.key \in Keys
           /\ size' = [size EXCEPT ![op.key] = op.newSize]
<1> DEFINE e == Enqueue(op, op.key, "Replaced")
<1>1. /\ op \in OpRecords /\ pc \in {"update", "grow"} /\ op.key \in index
      /\ op.key \in Keys
  BY CallTypes DEF UpdateStore, ReplaceStore, IndInv, Shape
<1>2. e \in OpRecords
  BY <1>1, RecordTypes DEF Reasons
<1>3. /\ Kept(op, e) /\ e.marks = op.marks /\ e.compactions = op.compactions
      /\ e.shed = op.shed
      /\ e.evictQ = Append(op.evictQ, [key |-> op.key, reason |-> "Replaced"])
  BY <1>1, EnqueueFields
<1> HIDE DEF e
<1>4. PICK r \in BOOLEAN : op' = [e EXCEPT !.reclaimedPre = r, !.protected = op.key]
  <2>1. \A p, n, d, v, x, y, z :
          ShouldReclaimSingleSurvivorOnMutation(p, n, d, v, x, y, z) \in BOOLEAN
    BY DEF ShouldReclaimSingleSurvivorOnMutation
  <2>2. CASE UpdateStore
    <3> DEFINE R(elevated) == ShouldReclaimSingleSurvivorOnMutation(
                  ps, Len(entries), HasSlack(ps, Len(entries)), op.evictedPre,
                  currentSize + op.newSize, op.sizeBefore, elevated)
    <3>1. PICK elevated \in Elevated(op.sample.pressure) :
            op' = [e EXCEPT !.reclaimedPre = R(elevated), !.protected = op.key]
      BY <2>2, Zenon DEF UpdateStore, e
    <3>2. R(elevated) \in BOOLEAN
      BY <2>1
    <3> QED BY <3>1, <3>2, Zenon
  <2>3. CASE ReplaceStore
    <3> DEFINE p == OnEntrySizeUpdated(ps, size[op.key], op.newSize)
               R(elevated) == ShouldReclaimSingleSurvivorOnMutation(
                  p, Len(entries), p.dirtyIndex, op.evictedPre,
                  currentSize + op.newSize - size[op.key], op.sizeBefore, elevated)
    <3>1. PICK elevated \in Elevated(op.sample.pressure) :
            op' = [e EXCEPT !.reclaimedPre = R(elevated), !.protected = op.key]
      BY <2>3, Zenon DEF ReplaceStore, e
    <3>2. R(elevated) \in BOOLEAN
      BY <2>1
    <3> QED BY <3>1, <3>2, Zenon
  <2> QED BY <2>2, <2>3
<1>5. op' \in OpRecords
  BY <1>1, <1>4, StoredType DEF e
<1>6. /\ Kept(e, op') /\ op'.protected = op.key /\ op'.marks = e.marks
      /\ op'.compactions = e.compactions /\ op'.shed = e.shed
      /\ op'.evictQ = e.evictQ
  BY <1>2, <1>4 DEF OpRecords, Kept
<1>7. /\ entries' = entries /\ index' = index /\ pc' \in {"reclaim", "unlock"}
      /\ size' = [size EXCEPT ![op.key] = op.newSize]
  BY DEF UpdateStore, ReplaceStore, StoreReplacement, AfterMutation
<1> QED BY <1>1, <1>3, <1>5, <1>6, <1>7 DEF Kept

\* The state once a new entry is linked; emptied says that the table the
\* evictions had emptied was thrown away first.
LEMMA InsertForm ==
    ASSUME IndInv, InsertStore
    PROVE  /\ op' \in OpRecords /\ Kept(op, op') /\ op'.protected = op.key
           /\ op'.marks = op.marks /\ op'.shed = op.shed
           /\ op'.evictQ = op.evictQ
           /\ pc = "insert" /\ pc' \in {"reclaim", "unlock"}
           /\ op.key \in Keys /\ op.key \notin index
           /\ entries' = PushFront(entries, op.key)
           /\ index' = index \cup {op.key}
           /\ size' = [size EXCEPT ![op.key] = op.newSize]
           /\ Len(entries') = Len(entries) + 1
           /\ \E emptied \in BOOLEAN :
                /\ op'.compactions = IF emptied THEN op.compactions + 1
                                     ELSE op.compactions
                /\ ps' = OnEntryPut(IF emptied THEN Clean ELSE ps,
                                    Len(entries) + 1, op.newSize)
                /\ emptied => pc' = "reclaim" /\ Len(entries) = 0
<1>1. /\ op \in OpRecords /\ pc = "insert" /\ op.key \in Keys /\ op.key \notin index
      /\ Linked(entries)
  BY CallTypes, InvLinked DEF InsertStore, IndInv, Shape
<1>2. PICK emptied \in BOOLEAN, r \in BOOLEAN :
        /\ op' = [RecordCompaction(op, emptied) EXCEPT
                    !.reclaimedPre = r, !.compactedPre = emptied,
                    !.protected = op.key]
        /\ ps' = OnEntryPut(IF emptied THEN Clean ELSE ps,
                            Len(entries) + 1, op.newSize)
        /\ pc' = AfterMutation(r, currentSize + op.newSize)
        /\ emptied => r /\ Len(entries) = 0
  <2>1. \A p, n, d, v, x, y, z :
          ShouldReclaimSingleSurvivorOnMutation(p, n, d, v, x, y, z) \in BOOLEAN
    BY DEF ShouldReclaimSingleSurvivorOnMutation
  <2>2. \A p, x, y, z, e :
          /\ ShouldReclaimEmptyPrePut(p, Len(entries), x, y, z, e) \in BOOLEAN
          /\ ShouldReclaimEmptyPrePut(p, Len(entries), x, y, z, e)
               => Len(entries) = 0
    BY DEF ShouldReclaimEmptyPrePut
  <2> DEFINE E(elevated) == ShouldReclaimEmptyPrePut(
                ps, Len(entries), op.evictedPre, op.newSize, op.sizeBefore,
                elevated)
             R(elevated) == E(elevated) \/ ShouldReclaimSingleSurvivorOnMutation(
                ps, Len(entries), HasSlack(ps, Len(entries)), op.evictedPre,
                currentSize + op.newSize, op.sizeBefore, elevated)
  <2>3. PICK elevated \in Elevated(op.sample.pressure) :
          /\ op' = [RecordCompaction(op, E(elevated)) EXCEPT
                      !.reclaimedPre = R(elevated), !.compactedPre = E(elevated),
                      !.protected = op.key]
          /\ ps' = OnEntryPut(IF E(elevated) THEN Clean ELSE ps,
                              Len(entries) + 1, op.newSize)
          /\ pc' = AfterMutation(R(elevated), currentSize + op.newSize)
    BY Zenon DEF InsertStore
  <2>4. /\ E(elevated) \in BOOLEAN /\ R(elevated) \in BOOLEAN
        /\ E(elevated) => R(elevated) /\ Len(entries) = 0
    BY <2>1, <2>2
  <2> QED BY <2>3, <2>4, Zenon
<1> DEFINE c == RecordCompaction(op, emptied)
<1>3. /\ c \in OpRecords /\ Kept(op, c) /\ c.marks = op.marks
      /\ c.shed = op.shed /\ c.evictQ = op.evictQ
      /\ c.compactions = IF emptied THEN op.compactions + 1 ELSE op.compactions
  BY <1>1, LocalUpdates, RecordTypes
<1>c. op' = [c EXCEPT !.reclaimedPre = r, !.compactedPre = emptied,
                      !.protected = op.key]
  BY <1>2
<1> HIDE DEF c
<1>4. op' \in OpRecords
  BY <1>1, <1>c, <1>3 DEF OpRecords
<1>5. /\ Kept(c, op') /\ op'.protected = op.key /\ op'.marks = c.marks
      /\ op'.compactions = c.compactions /\ op'.shed = c.shed
      /\ op'.evictQ = c.evictQ
  BY <1>3, <1>c DEF OpRecords, Kept
<1>6. pc' \in {"reclaim", "unlock"} /\ (emptied => pc' = "reclaim")
  BY <1>2 DEF AfterMutation, NeedsMutationReclaim
<1>7. /\ entries' = PushFront(entries, op.key) /\ index' = index \cup {op.key}
      /\ size' = [size EXCEPT ![op.key] = op.newSize]
  BY DEF InsertStore
<1>8. Len(entries') = Len(entries) + 1
  <2>1. op.key \notin FirstKeys(entries, Len(entries))
    BY <1>1, InvLinked, Zenon
  <2> QED BY <1>1, <1>7, <2>1, PushFrontLinks
<1>9. /\ op'.compactions = IF emptied THEN op.compactions + 1 ELSE op.compactions
      /\ Kept(op, op') /\ op'.marks = op.marks /\ op'.shed = op.shed
      /\ op'.evictQ = op.evictQ
  BY <1>3, <1>5 DEF Kept
<1> QED BY <1>1, <1>2, <1>4, <1>5, <1>6, <1>7, <1>8, <1>9


\* What DeletePrefix("") leaves: nothing cached, and an event for each entry.
LEMMA DeleteAllForm ==
    ASSUME IndInv, NEW s \in Samples, DeleteAll(s)
    PROVE  /\ op' \in OpRecords /\ op'.kind = "DeleteAll" /\ op'.before = entries
           /\ op'.evictQ = [i \in 1..Len(entries) |->
                              [key |-> entries[i], reason |-> "Deleted"]]
           /\ op'.protected = NoKey /\ ~op'.selfEvicted
           /\ op'.marks \in {0, 1} /\ op'.compactions \in {0, 1}
           /\ pc = "idle" /\ pc' = "unlock" /\ entries' = <<>> /\ index' = {}
<1> DEFINE n == Len(entries)
           q == [i \in 1..n |-> [key |-> entries[i], reason |-> "Deleted"]]
           b == Begin("DeleteAll", NoKey, 0, s)
           o == [b EXCEPT !.evictQ = q]
           slack == HasEmptyDeleteSlack(
                      [ps EXCEPT !.deletedSinceCompact = CountDeleted(ps, n)])
<1>1. b \in OpRecords /\ Fresh(b) /\ b.kind = "DeleteAll"
  BY BeginFields DEF Ops
<1>2. /\ b.marks = 0 /\ b.compactions = 0 /\ b.before = entries
      /\ b.protected = NoKey /\ ~b.selfEvicted
  BY <1>1 DEF Fresh
<1>3. q \in Seq(Events)
  BY CallTypes, InvLinked DEF Events, Reasons
<1> HIDE DEF b, q
<1>4. /\ o \in OpRecords /\ o.marks = 0 /\ o.compactions = 0 /\ o.evictQ = q
      /\ o.kind = "DeleteAll" /\ o.before = entries /\ o.protected = NoKey
      /\ ~o.selfEvicted
  BY <1>1, <1>2, <1>3 DEF OpRecords
<1>5. slack \in BOOLEAN
  BY DEF HasEmptyDeleteSlack
<1>6. PICK marked \in BOOLEAN :
        op' = MarkReclaimed(RecordCompaction(o, slack), marked)
  <2>1. \A a, i : ((a /\ i) \in BOOLEAN)
    OBVIOUS
  <2> QED BY <2>1, Zenon DEF DeleteAll, b, q
<1> HIDE DEF o, slack
<1>7. /\ op' \in OpRecords /\ Kept(o, op') /\ op'.protected = o.protected
      /\ op'.evictQ = o.evictQ
      /\ op'.marks \in {0, 1} /\ op'.compactions \in {0, 1}
  BY <1>4, <1>5, <1>6, MarkedFields
<1>8. pc = "idle" /\ pc' = "unlock" /\ entries' = <<>> /\ index' = {}
  BY DEF DeleteAll
<1> QED BY <1>4, <1>7, <1>8 DEF Kept, q

\* The steps that reclaim, or finish the operation, or only move on.
Settling == Reclaiming \/ Moving \/ FinishDeleteEmpty \/ CompleteShedEmpty

\* They leave the entries, the queue of events and what the operation was asked
\* as they are.
LEMMA SettlingForm ==
    ASSUME IndInv, Settling
    PROVE  /\ op' \in OpRecords /\ Kept(op, op') /\ op'.protected = op.protected
           /\ op'.shed = op.shed /\ op'.evictQ = op.evictQ
           /\ UNCHANGED <<entries, index, size, currentSize, stats, settled>>
<1> USE DEF Kept
<1>1. op \in OpRecords /\ ps \in Watermarks /\ Len(entries) \in Nat
  BY CallTypes
<1>2. ASSUME NEW recorded, NEW marked,
             op' = MarkReclaimed(RecordCompaction(op, recorded), marked)
      PROVE  /\ op' \in OpRecords /\ Kept(op, op')
             /\ op'.protected = op.protected
             /\ op'.shed = op.shed /\ op'.evictQ = op.evictQ
  BY <1>1, <1>2, MarkedFields
<1>3. CASE FinishDeleteEmpty \/ ReclaimTier1 \/ CompleteShed \/ CompleteShedEmpty
             \/ FinishMutation
  <2>1. \E recorded, marked :
          op' = MarkReclaimed(RecordCompaction(op, recorded), marked)
    BY <1>3, Zenon DEF FinishDeleteEmpty, ReclaimTier1, CompleteShed,
       CompleteShedEmpty, FinishMutation
  <2>2. UNCHANGED <<entries, index, size, currentSize, stats, settled>>
    BY <1>3 DEF FinishDeleteEmpty, ReclaimTier1, CompleteShed,
       CompleteShedEmpty, FinishMutation
  <2> QED BY <1>2, <2>1, <2>2
<1>4. CASE FinishDelete
  <2>1. PICK single \in BOOLEAN :
          op' = [RecordCompaction(op, single) EXCEPT !.reclaimedPre = single]
    <3>1. \A p, n, d : ShouldReclaimSingleSurvivorOnDelete(p, n, d) \in BOOLEAN
      BY DEF ShouldReclaimSingleSurvivorOnDelete
    <3> QED BY <1>4, <3>1 DEF FinishDelete
  <2> DEFINE c == RecordCompaction(op, single)
  <2>2. /\ c \in OpRecords /\ Kept(op, c) /\ c.protected = op.protected
        /\ c.shed = op.shed /\ c.evictQ = op.evictQ
    BY <1>1, LocalUpdates, RecordTypes
  <2>3. op' = [c EXCEPT !.reclaimedPre = single]
    BY <2>1
  <2> HIDE DEF c
  <2>4. op' \in OpRecords
    BY <2>2, <2>3 DEF OpRecords
  <2>5. /\ Kept(c, op') /\ op'.protected = c.protected
        /\ op'.shed = c.shed /\ op'.evictQ = c.evictQ
    BY <2>2, <2>3 DEF OpRecords
  <2>6. UNCHANGED <<entries, index, size, currentSize, stats, settled>>
    BY <1>4 DEF FinishDelete
  <2> QED BY <2>2, <2>4, <2>5, <2>6
<1>5. CASE ReclaimTier2
  <2> DEFINE t == ComputeShedTargets(ps, Len(entries), HasProtected, ProtectedSize)
             n == Len(entries)
  <2>1. op' = [op EXCEPT !.targets = t, !.cursor = n]
    BY <1>5 DEF ReclaimTier2
  <2>2. t \in ShedTargets
    <3>1. HasProtected \in BOOLEAN /\ ProtectedSize \in Nat
      BY <1>1, InvWeights DEF HasProtected, ProtectedSize, OpRecords
    <3> QED BY <1>1, <3>1, ShedTypes
  <2>3. n \in Nat
    BY <1>1
  <2> HIDE DEF t, n
  <2>4. op' \in OpRecords
    BY <1>1, <2>1, <2>2, <2>3 DEF OpRecords
  <2> QED BY <1>1, <1>5, <2>1, <2>4 DEF OpRecords, ReclaimTier2
<1>6. CASE ShedSkip
  <2> DEFINE c == op.cursor - 1
  <2>1. op' = [op EXCEPT !.cursor = c] /\ c \in Nat
    BY <1>1, <1>6 DEF ShedSkip, ShedContinues, OpRecords
  <2> HIDE DEF c
  <2>2. op' \in OpRecords
    BY <1>1, <2>1 DEF OpRecords
  <2> QED BY <1>1, <1>6, <2>1, <2>2 DEF OpRecords, ShedSkip
<1>7. CASE ShedStop \/ PrefixDone
  BY <1>1, <1>7 DEF ShedStop, PrefixDone
<1>8. CASE FinishDeleteReclaim
  <2>0. RecordCompaction(op, FALSE) = op
    BY DEF RecordCompaction
  <2>1. PICK marked : op' = MarkReclaimed(RecordCompaction(op, FALSE), marked)
    BY <1>8, <2>0, Zenon DEF FinishDeleteReclaim
  <2>2. UNCHANGED <<entries, index, size, currentSize, stats, settled>>
    BY <1>8 DEF FinishDeleteReclaim
  <2> QED BY <1>2, <2>1, <2>2
<1> QED BY <1>3, <1>4, <1>5, <1>6, <1>7, <1>8 DEF Settling, Reclaiming, Moving

-----------------------------------------------------------------------------
(* One compaction, one invalidation                                        *)

\* An operation that has compacted before its reclamation has left one entry in
\* a fresh table, or none once that entry is shed: nothing to compact again.
CompactedAlready ==
    /\ ~IsBackground /\ ps.peakEntryLen = 1
    /\ \/ /\ ~op.shed /\ ~ps.dirtyIndex /\ ps.deletedSinceCompact = 0
          /\ Len(entries) = 1
       \/ /\ op.shed /\ ps.deletedSinceCompact <= 1 /\ Len(entries) = 0
          /\ pc # "reclaim"

\* The marks that justify a compaction are those of the table as it is.
ExactMarks == ps.peakEntryLen = Len(entries) /\ ps.deletedSinceCompact = 0

\* The sample is invalidated, and a compaction counted, once at most, and
\* nothing is left to compact.
OnceInv ==
    /\ op.marks \in {0, 1} /\ op.compactions \in {0, 1}
    /\ pc \notin {"finish", "unlock"} => op.marks = 0
    /\ pc \notin {"shed", "completeShed", "finish", "unlock"} => ~op.shed
    /\ pc \notin {"reclaim", "shed", "completeShed", "finish", "unlock"}
         => op.compactions = 0
    /\ pc \in {"update", "insert", "grow", "prefix", "deleted"} => ~IsBackground
    /\ op.compactions = 1 =>
         /\ pc \in {"reclaim", "shed", "completeShed"} => CompactedAlready
         /\ pc = "finish" => ~ps.dirtyIndex
         /\ pc \in {"finish", "unlock"} => ExactMarks

\* The steps that erase, start or store.
LEMMA OnceKeptByWork ==
    ASSUME IndInv, OnceInv,
           \/ Erasure \/ Entry \/ UpdateStore \/ ReplaceStore \/ InsertStore
           \/ \E k \in Keys, w \in Weights, s \in Samples : PutExisting(k, w, s)
    PROVE  OnceInv'
<1> USE DEF OnceInv, ExactMarks, IsBackground, Kept
<1>1. /\ op \in OpRecords /\ ps \in Watermarks /\ Len(entries) \in Nat
      /\ pc \in Stage
  BY CallTypes
<1>2. CASE UpdateEvict \/ InsertEvict \/ ReplaceEvict
  BY <1>2, CapacityErasure DEF Evicts
<1>3. CASE ShedEvict
  <2>1. /\ Evicts(entries[op.cursor], "Pressure") /\ pc = "shed" /\ pc' = "shed"
        /\ op.cursor \in 1..Len(entries) /\ op'.shed
    BY <1>3, ShedErasure DEF Evicts
  <2>2. /\ op'.marks = op.marks /\ op'.compactions = op.compactions
        /\ op'.kind = op.kind
    BY <2>1 DEF Evicts
  <2>3. PICK o \in OpRecords :
          EraseEntryLocked(entries[op.cursor], "Pressure", ps, o)
    BY <2>1 DEF Evicts
  <2>4. Len(entries') = Len(entries) - 1
    BY <2>1, <2>3, <1>1, EraseEffect DEF Evicts, Reasons
  <2>5. /\ ps' = OnEntryDeleted(ps, size[entries[op.cursor]])
        /\ ps'.peakEntryLen = ps.peakEntryLen
        /\ ps'.deletedSinceCompact = CountDeleted(ps, 1)
    <3>1. ps' = OnEntryDeleted(ps, size[entries[op.cursor]])
      BY <2>3 DEF EraseEntryLocked
    <3>2. \A w : /\ OnEntryDeleted(ps, w).peakEntryLen = ps.peakEntryLen
                 /\ OnEntryDeleted(ps, w).deletedSinceCompact = CountDeleted(ps, 1)
      BY <1>1 DEF OnEntryDeleted, OneZeroFewer, Watermarks
    <3> QED BY <3>1, <3>2
  <2>6. ps.deletedSinceCompact = 0 => ps'.deletedSinceCompact <= 1
    BY <2>5, SlackAssumption DEF CountDeleted, AtMost
  <2> QED BY <2>1, <2>2, <2>4, <2>5, <2>6, <1>1 DEF CompactedAlready
<1>4. CASE \E k \in Keys : PrefixErase(k)
  BY <1>4, PrefixErasure DEF Evicts
<1>5. CASE \E k \in Keys, s \in Samples : Delete(k, s)
  BY <1>5, FirstErasure DEF BeganErasing
<1>6. CASE \E k \in Keys, w \in Weights, s \in Samples : ReplaceSelfEvict(k, w, s)
  BY <1>6, FirstErasure DEF BeganErasing
<1>7. CASE Entry
  BY <1>7, EntryLocals, EntryForm DEF Fresh
<1>8. CASE UpdateStore \/ ReplaceStore
  BY <1>8, StoreForm
<1>9. CASE InsertStore
  <2>1. /\ op'.marks = op.marks /\ op'.shed = op.shed /\ op'.kind = op.kind
        /\ pc = "insert" /\ pc' \in {"reclaim", "unlock"}
        /\ Len(entries') = Len(entries) + 1
    BY <1>9, InsertForm
  <2>2. PICK emptied \in BOOLEAN :
          /\ op'.compactions = IF emptied THEN op.compactions + 1
                               ELSE op.compactions
          /\ ps' = OnEntryPut(IF emptied THEN Clean ELSE ps,
                              Len(entries) + 1, op.newSize)
          /\ emptied => pc' = "reclaim" /\ Len(entries) = 0
    BY <1>9, InsertForm
  <2>3. \A w : /\ OnEntryPut(Clean, 1, w).peakEntryLen = 1
               /\ OnEntryPut(Clean, 1, w).deletedSinceCompact = 0
               /\ ~OnEntryPut(Clean, 1, w).dirtyIndex
    BY DEF OnEntryPut, Clean, AtLeast
  <2> QED BY <2>1, <2>2, <2>3 DEF CompactedAlready
<1>10. CASE \E k \in Keys, w \in Weights, s \in Samples : PutExisting(k, w, s)
  BY <1>10, PutExistingForm DEF Fresh
<1> QED BY <1>2, <1>3, <1>4, <1>5, <1>6, <1>7, <1>8, <1>9, <1>10 DEF Erasure


\* The steps that settle the operation.
LEMMA OnceKeptBySettling ==
    ASSUME IndInv, OnceInv, Settling
    PROVE  OnceInv'
<1> USE DEF OnceInv, ExactMarks, IsBackground, Kept
<1>1. /\ op \in OpRecords /\ ps \in Watermarks /\ Len(entries) \in Nat
      /\ pc \in Stage
  BY CallTypes
<1>2. /\ op'.kind = op.kind /\ op'.shed = op.shed /\ entries' = entries
      /\ IsBackground' = IsBackground
  BY SettlingForm
<1>3. ASSUME NEW recorded \in BOOLEAN, NEW marked \in BOOLEAN,
             op' = MarkReclaimed(RecordCompaction(op, recorded), marked)
      PROVE  /\ op'.compactions = IF recorded THEN op.compactions + 1
                                  ELSE op.compactions
             /\ op'.marks = IF marked THEN op.marks + 1 ELSE op.marks
  BY <1>1, <1>3, MarkedFields
<1>c. \A n \in Nat : /\ ~OnCompacted(ps, n).dirtyIndex
                     /\ OnCompacted(ps, n).peakEntryLen = n
                     /\ OnCompacted(ps, n).deletedSinceCompact = 0
  BY <1>1 DEF OnCompacted, Watermarks
<1>4. CASE FinishDeleteEmpty
  <2>1. /\ pc = "deleted" /\ pc' = "unlock"
        /\ \E recorded \in BOOLEAN, marked \in BOOLEAN :
             op' = MarkReclaimed(RecordCompaction(op, recorded), marked)
    <3>1. HasEmptyDeleteSlack(ps) \in BOOLEAN
      BY DEF HasEmptyDeleteSlack
    <3>2. \A a, i : ((a /\ i /\ op.marks = 0) \in BOOLEAN)
      OBVIOUS
    <3> QED BY <1>4, <3>1, <3>2, Zenon DEF FinishDeleteEmpty
  <2>2. ps' = Clean /\ entries' = <<>>
    BY <1>4 DEF FinishDeleteEmpty
  <2>3. ExactMarks'
    BY <2>2 DEF Clean
  <2> QED BY <1>2, <1>3, <2>1, <2>3
<1>5. CASE FinishDelete
  <2> DEFINE n == Len(entries)
  <2>1. PICK single \in BOOLEAN :
          LET p == IF single THEN OnCompacted(ps, n) ELSE ps
          IN  /\ pc = "deleted" /\ pc' \in {"reclaim", "finish"}
              /\ single => n = 1
              /\ ps' \in {p, ResetZeroWatermarkBelowTier2(p, op.sample.pressure,
                                                          op.sample.valid)}
              /\ pc' = "reclaim" => ps' = p
              /\ op' = [RecordCompaction(op, single) EXCEPT !.reclaimedPre = single]
    <3> DEFINE single == ShouldReclaimSingleSurvivorOnDelete(ps, n, HasSlack(ps, n))
    <3>1. single \in BOOLEAN /\ (single => n = 1)
      BY DEF ShouldReclaimSingleSurvivorOnDelete
    <3>2. LET p == IF single THEN OnCompacted(ps, n) ELSE ps
          IN  /\ pc = "deleted" /\ pc' \in {"reclaim", "finish"}
              /\ ps' \in {p, ResetZeroWatermarkBelowTier2(p, op.sample.pressure,
                                                          op.sample.valid)}
              /\ pc' = "reclaim" => ps' = p
              /\ op' = [RecordCompaction(op, single) EXCEPT !.reclaimedPre = single]
      BY <1>5 DEF FinishDelete
    <3> HIDE DEF single
    <3> QED BY <3>1, <3>2
  <2>2. /\ op'.compactions = IF single THEN op.compactions + 1 ELSE op.compactions
        /\ op'.marks = op.marks
    <3> DEFINE c == RecordCompaction(op, single)
    <3>1. /\ c \in OpRecords /\ c.marks = op.marks
          /\ c.compactions = IF single THEN op.compactions + 1 ELSE op.compactions
      BY <1>1, LocalUpdates, RecordTypes
    <3>2. op' = [c EXCEPT !.reclaimedPre = single]
      BY <2>1
    <3> HIDE DEF c
    <3> QED BY <3>1, <3>2 DEF OpRecords
  <2>3. single /\ pc' = "reclaim" => CompactedAlready'
    BY <2>1, <1>1, <1>2, <1>c DEF CompactedAlready
  <2>4. single => ~ps'.dirtyIndex
    <3>1. \A q \in Watermarks : \A x, v :
            ResetZeroWatermarkBelowTier2(q, x, v).dirtyIndex = q.dirtyIndex
      BY DEF ResetZeroWatermarkBelowTier2, ClearZeroWatermark, Watermarks
    <3>2. OnCompacted(ps, n) \in Watermarks
      BY <1>1, WatermarkTypes
    <3> QED BY <2>1, <3>1, <3>2, <1>1, <1>c
  <2>5. single => ExactMarks'
    <3>1. \A q \in Watermarks : \A x, v :
            /\ ResetZeroWatermarkBelowTier2(q, x, v).peakEntryLen = q.peakEntryLen
            /\ ResetZeroWatermarkBelowTier2(q, x, v).deletedSinceCompact
                 = q.deletedSinceCompact
      BY DEF ResetZeroWatermarkBelowTier2, ClearZeroWatermark, Watermarks
    <3>2. OnCompacted(ps, n) \in Watermarks
      BY <1>1, WatermarkTypes
    <3>3. \A q \in {OnCompacted(ps, n)} : q.peakEntryLen = n /\ q.deletedSinceCompact = 0
      BY <1>1, <1>c
    <3>4. single => ps'.peakEntryLen = n
      BY <2>1, <3>1, <3>2, <3>3
    <3>5. single => ps'.deletedSinceCompact = 0
      BY <2>1, <3>1, <3>2, <3>3
    <3>6. Len(entries') = n
      BY <1>2
    <3> QED BY <3>4, <3>5, <3>6
  <2>6. /\ op.marks = 0 /\ op.compactions = 0 /\ ~op.shed /\ ~IsBackground
    BY <2>1
  <2>7. /\ op'.marks = 0 /\ op'.compactions = IF single THEN 1 ELSE 0
        /\ ~op'.shed /\ ~IsBackground' /\ pc' \in {"reclaim", "finish"}
    BY <1>2, <2>1, <2>2, <2>6
  <2> QED BY <2>3, <2>4, <2>5, <2>7
<1>6. CASE ReclaimTier1
  <2> DEFINE n == Len(entries)
             p == ResetZeroWatermarkBelowTier2(ps, op.sample.pressure,
                                               op.sample.valid)
             compacted == /\ op.sample.pressure >= Tier1
                          /\ ShouldAutoCompactMap(p, IsBackground, n)
  <2>1. /\ pc = "reclaim" /\ pc' \in {"unlock", "finish"}
        /\ ps' = IF compacted THEN OnCompacted(p, n) ELSE p
        /\ op' = MarkReclaimed(RecordCompaction(op, compacted), compacted)
    BY <1>6 DEF ReclaimTier1, AfterReclaim
  <2>2. compacted \in BOOLEAN /\ (compacted => p.dirtyIndex)
    BY DEF ShouldAutoCompactMap, ShouldAutoCompactEntryCounts, HasSlack
  <2>3. p \in Watermarks /\ p.dirtyIndex = ps.dirtyIndex
    BY <1>1 DEF ResetZeroWatermarkBelowTier2, ClearZeroWatermark, Watermarks
  <2>m. /\ p.peakEntryLen = ps.peakEntryLen
        /\ p.deletedSinceCompact = ps.deletedSinceCompact
    BY <1>1 DEF ResetZeroWatermarkBelowTier2, ClearZeroWatermark, Watermarks
  <2> HIDE DEF p
  <2>4. /\ ~OnCompacted(p, n).dirtyIndex
        /\ OnCompacted(p, n).peakEntryLen = n
        /\ OnCompacted(p, n).deletedSinceCompact = 0
    BY <2>3, <1>1 DEF OnCompacted, Watermarks
  <2> HIDE DEF compacted
  <2>5. /\ op'.compactions = IF compacted THEN op.compactions + 1
                             ELSE op.compactions
        /\ op'.marks = IF compacted THEN op.marks + 1 ELSE op.marks
    BY <2>1, <2>2, <1>3
  <2>6. op'.compactions = 1 => ExactMarks'
    <3>1. CASE compacted
      BY <2>1, <2>4, <3>1, <1>2
    <3>2. CASE ~compacted
      BY <2>1, <2>m, <2>5, <3>2, <1>2 DEF CompactedAlready
    <3> QED BY <3>1, <3>2
  <2>7. op'.compactions = 1 => ~ps'.dirtyIndex
    BY <2>1, <2>2, <2>3, <2>4, <2>5 DEF CompactedAlready
  <2>8. op.compactions = 1 => ~compacted
    BY <2>1, <2>2, <2>3 DEF CompactedAlready
  <2>9. /\ op'.marks \in {0, 1} /\ op'.compactions \in {0, 1} /\ ~op'.shed
        /\ pc' \in {"unlock", "finish"}
    BY <1>2, <2>1, <2>2, <2>5, <2>8
  <2> QED BY <2>6, <2>7, <2>9
<1>7. CASE ReclaimTier2 \/ ShedSkip \/ ShedStop \/ PrefixDone
  <2>1. /\ ps' = ps /\ op'.marks = op.marks /\ op'.compactions = op.compactions
    BY <1>1, <1>7 DEF ReclaimTier2, ShedSkip, ShedStop, PrefixDone, OpRecords
  <2>2. \/ pc = "reclaim" /\ pc' = "shed"
        \/ pc = "shed" /\ pc' \in {"shed", "completeShed"}
        \/ pc = "prefix" /\ pc' = "deleted"
    BY <1>7 DEF ReclaimTier2, ShedSkip, ShedStop, PrefixDone
  <2> QED BY <1>2, <2>1, <2>2 DEF CompactedAlready
<1>8. CASE CompleteShedEmpty
  <2> DEFINE recorded == ShouldAutoCompactEntryCounts(ps, TRUE, IsBackground, 0)
  <2>1. /\ pc = "completeShed" /\ pc' \in {"unlock", "finish"} /\ ps' = Clean
        /\ op.shed
    BY <1>8 DEF CompleteShedEmpty, AfterReclaim
  <2>o. op' = MarkReclaimed(RecordCompaction(op, recorded), TRUE)
    BY <1>8 DEF CompleteShedEmpty
  <2>2. recorded \in BOOLEAN
    BY DEF ShouldAutoCompactEntryCounts
  <2>3. op.compactions = 1 => ~recorded
    BY <1>1, <2>1, SlackAssumption DEF CompactedAlready,
       ShouldAutoCompactEntryCounts, SlackQuarterMultiplier, Watermarks
  <2> HIDE DEF recorded
  <2>4. /\ op'.compactions = IF recorded THEN op.compactions + 1
                             ELSE op.compactions
        /\ op'.marks = op.marks + 1
    BY <2>o, <2>2, <1>3
  <2>5. ~Clean.dirtyIndex /\ ExactMarks'
    <3>1. entries' = <<>>
      BY <1>8 DEF CompleteShedEmpty
    <3> QED BY <2>1, <3>1 DEF Clean
  <2>6. op.marks = 0 /\ op.compactions \in {0, 1}
    BY <2>1
  <2>7. op'.marks = 1 /\ op'.compactions \in {0, 1} /\ ~ps'.dirtyIndex
        /\ pc' \in {"unlock", "finish"} /\ ExactMarks'
    BY <2>1, <2>2, <2>3, <2>4, <2>5, <2>6
  <2> QED BY <2>7
<1>9. CASE CompleteShed
  <2> DEFINE n == Len(entries)
             unadjusted == ~HasProtected \/ op.targets.effective <= TargetSize
             p == IF op.shed
                  THEN UpdateZeroWatermarkAfterShed(ps, n, unadjusted, op.targets)
                  ELSE ps
             compacted == ShouldAutoCompactMap(p, IsBackground, n)
  <2>1. /\ pc = "completeShed" /\ pc' \in {"unlock", "finish"}
        /\ ~(op.shed /\ entries = <<>>)
        /\ ps' = IF compacted THEN OnCompacted(p, n) ELSE p
        /\ op' = MarkReclaimed(RecordCompaction(op, compacted),
                               op.shed \/ compacted)
    BY <1>9 DEF CompleteShed, AfterReclaim
  <2>2. compacted \in BOOLEAN /\ (compacted => p.dirtyIndex)
    BY DEF ShouldAutoCompactMap, ShouldAutoCompactEntryCounts, HasSlack
  <2>3. p \in Watermarks /\ (~op.shed => p = ps)
    <3>1. op.targets \in ShedTargets
      BY <1>1 DEF OpRecords
    <3> QED BY <3>1, <1>1, ShedTypes
  <2> HIDE DEF p
  <2>4. /\ ~OnCompacted(p, n).dirtyIndex
        /\ OnCompacted(p, n).peakEntryLen = n
        /\ OnCompacted(p, n).deletedSinceCompact = 0
    BY <2>3, <1>1 DEF OnCompacted, Watermarks
  <2>5. op.shed \in BOOLEAN
    BY <1>1 DEF OpRecords
  <2> HIDE DEF compacted
  <2>6. /\ op'.compactions = IF compacted THEN op.compactions + 1
                             ELSE op.compactions
        /\ op'.marks = IF op.shed \/ compacted THEN op.marks + 1 ELSE op.marks
    BY <2>1, <2>2, <2>5, <1>3
  <2>7. op.compactions = 1 => ~op.shed /\ ~ps.dirtyIndex /\ ExactMarks
    <3>1. Len(entries) = 0 => entries = <<>>
      BY DEF IndInv, TypeOK
    <3> QED BY <3>1, <2>1 DEF CompactedAlready
  <2>8. op.compactions = 1 => ~compacted /\ ~ps'.dirtyIndex /\ ExactMarks'
    BY <2>7, <2>1, <2>2, <2>3, <1>2
  <2>9. compacted => ~ps'.dirtyIndex /\ ExactMarks'
    BY <2>1, <2>4, <1>2
  <2>10. op.marks = 0 /\ op.compactions \in {0, 1}
    BY <2>1
  <2>11. /\ op'.marks \in {0, 1} /\ op'.compactions \in {0, 1}
         /\ op'.compactions = 1 => ~ps'.dirtyIndex /\ ExactMarks'
    BY <2>2, <2>5, <2>6, <2>8, <2>9, <2>10
  <2> QED BY <2>1, <2>11
<1>10. CASE FinishMutation
  <2> DEFINE n == Len(entries)
             reduced == currentSize < op.sizeBefore
             compacts == ShouldCompactAfterMutation(
                           ps, op.reclaimedPre, reduced, HasSlack(ps, n),
                           op.sample.pressure)
  <2>1. compacts \in BOOLEAN /\ (compacts => ps.dirtyIndex)
    BY DEF ShouldCompactAfterMutation, HasSlack
  <2>2. \E recorded \in BOOLEAN, marked \in BOOLEAN :
          /\ op' = MarkReclaimed(RecordCompaction(op, recorded), marked)
          /\ pc = "finish" /\ pc' = "unlock"
          /\ recorded => compacts
          /\ marked => op.marks = 0
    <3>1. PICK i :
            /\ op' = MarkReclaimed(
                        RecordCompaction(op, compacts /\ ~op.compactedPre),
                        (op.reclaimedPre \/ reduced) /\ i /\ op.marks = 0)
            /\ pc = "finish" /\ pc' = "unlock"
      BY <1>10, Zenon DEF FinishMutation
    <3> DEFINE r == compacts /\ ~op.compactedPre
               m == (op.reclaimedPre \/ reduced) /\ i /\ op.marks = 0
    <3>2. r \in BOOLEAN /\ m \in BOOLEAN /\ (r => compacts) /\ (m => op.marks = 0)
      BY <2>1
    <3>3. op' = MarkReclaimed(RecordCompaction(op, r), m)
      BY <3>1
    <3> HIDE DEF r, m
    <3> QED BY <3>1, <3>2, <3>3
  <2> HIDE DEF compacts
  <2>3. PICK recorded \in BOOLEAN, marked \in BOOLEAN :
          /\ op' = MarkReclaimed(RecordCompaction(op, recorded), marked)
          /\ pc = "finish" /\ pc' = "unlock"
          /\ recorded => compacts
          /\ marked => op.marks = 0
    BY <2>2
  <2>4. /\ op'.compactions = IF recorded THEN op.compactions + 1
                             ELSE op.compactions
        /\ op'.marks = IF marked THEN op.marks + 1 ELSE op.marks
    BY <2>3, <1>3
  <2>5. ps' = IF compacts THEN OnCompacted(ps, n) ELSE ps
    BY <1>10 DEF FinishMutation, compacts
  <2>6. op'.compactions = 1 => ExactMarks'
    BY <1>1, <1>2, <1>c, <2>3, <2>4, <2>5
  <2>7. op'.marks \in {0, 1} /\ op'.compactions \in {0, 1}
    BY <2>1, <2>3, <2>4
  <2> QED BY <2>3, <2>6, <2>7
<1>11. CASE FinishDeleteReclaim
  <2>1. \E marked \in BOOLEAN :
          /\ op' = MarkReclaimed(RecordCompaction(op, FALSE), marked)
          /\ pc = "finish" /\ pc' = "unlock"
          /\ marked => op.marks = 0
    <3>1. RecordCompaction(op, FALSE) = op
      BY DEF RecordCompaction
    <3>2. PICK i :
            /\ op' = MarkReclaimed(op, (op.reclaimedPre
                        \/ currentSize < op.sizeBefore) /\ i /\ op.marks = 0)
            /\ pc = "finish" /\ pc' = "unlock"
      BY <1>11, Zenon DEF FinishDeleteReclaim
    <3> QED BY <3>1, <3>2
  <2>2. PICK marked \in BOOLEAN :
          /\ op' = MarkReclaimed(RecordCompaction(op, FALSE), marked)
          /\ pc = "finish" /\ pc' = "unlock"
          /\ marked => op.marks = 0
    BY <2>1
  <2>3. /\ op'.compactions = op.compactions
        /\ op'.marks = IF marked THEN op.marks + 1 ELSE op.marks
    BY <2>2, <1>3
  <2>4. (marked => op.marks = 0) /\ pc = "finish" /\ pc' = "unlock"
    BY <2>2
  <2>5. ps' = ps
    BY <1>11 DEF FinishDeleteReclaim
  <2>6. op'.compactions = 1 => ExactMarks'
    BY <1>2, <2>3, <2>4, <2>5
  <2> QED BY <1>2, <2>3, <2>4, <2>6
<1> QED BY <1>4, <1>5, <1>6, <1>7, <1>8, <1>9, <1>10, <1>11
        DEF Settling, Reclaiming, Moving

\* The steps of operations with one critical section and no stages.
LEMMA OnceKeptByWhole ==
    ASSUME IndInv, OnceInv,
           \/ Unlock \/ Compact
           \/ \E k \in Keys : Get(k)
           \/ \E s \in Samples : MissUnderLock(s) \/ DeleteAll(s)
    PROVE  OnceInv'
<1> USE DEF OnceInv, ExactMarks, IsBackground
<1>1. CASE Unlock
  BY <1>1 DEF Unlock, NoOp
<1>2. CASE Compact \/ (\E k \in Keys : Get(k)) \/ (\E s \in Samples : MissUnderLock(s))
  BY <1>2 DEF Compact, Get, MissUnderLock
<1>3. CASE \E s \in Samples : DeleteAll(s)
  <2>1. ps' = Clean /\ entries' = <<>>
    BY <1>3 DEF DeleteAll
  <2>2. ExactMarks'
    BY <2>1 DEF Clean
  <2> QED BY <1>3, <2>2, DeleteAllForm
<1> QED BY <1>1, <1>2, <1>3

\* OnceInv holds at every step.
LEMMA OnceKept == Spec => []OnceInv
<1>1. Init => OnceInv
  BY DEF Init, OnceInv, NoOp
<1>2. IndInv /\ OnceInv /\ [Next]_vars => OnceInv'
  <2> SUFFICES ASSUME IndInv, OnceInv, [Next]_vars PROVE OnceInv'
    OBVIOUS
  <2>1. CASE UNCHANGED vars
    BY <2>1 DEF OnceInv, CompactedAlready, ExactMarks, IsBackground, vars
  <2> QED BY <2>1, StepKinds, OnceKeptByWork, OnceKeptBySettling, OnceKeptByWhole
          DEF Settling
<1> QED BY <1>1, <1>2, Invariance, PTL DEF Spec

\* One operation invalidates the shared pressure sample at most once and counts
\* at most one compaction (markReclaimedLocked, recordCompactionByPressure),
\* however many of its stages could.
THEOREM ReclaimsOnceOnly == Spec => []ReclaimsOnce
<1>1. OnceInv => ReclaimsOnce
  BY DEF OnceInv, ReclaimsOnce
<1> QED BY <1>1, OnceKept, PTL

\* The high-water mark is never below the number of entries, and the zero-weight
\* watermark never promises more weightless entries than there are
\* (checkWatermarkInvariants), after any sequence of operations; and one that has
\* compacted leaves the marks exact.
THEOREM WatermarksAlwaysCover == Spec => []WatermarksCover
<1>1. Init => CoverInv
  BY DEF Init, CoverInv, Covered, Clean
<1>2. IndInv /\ CoverInv /\ [Next]_vars => CoverInv'
  BY CoverKeeps
<1>3. CoverInv /\ OnceInv => WatermarksCover
  BY DEF CoverInv, Covered, OnceInv, ExactMarks, WatermarksCover
<1> QED BY <1>1, <1>2, <1>3, OnceKept, Invariance, PTL DEF Spec

-----------------------------------------------------------------------------
(* The queue of events                                                     *)

\* Where the queue q has an event of an entry that left, and the keys of those.
Leaves(q) == {i \in 1..Len(q) : q[i].reason # "Replaced"}
LeftKeys(q) == {q[i].key : i \in Leaves(q)}

\* The queue a is q with one more event.
Queued(q, a, k, r) ==
    /\ Len(q) \in Nat /\ Len(a) = Len(q) + 1
    /\ a[Len(q) + 1].key = k /\ a[Len(q) + 1].reason = r
    /\ \A i \in 1..Len(q) : a[i] = q[i]

\* That is what Append makes.
LEMMA AppendQueues ==
    ASSUME NEW q \in Seq(Events), NEW k \in Keys, NEW r \in Reasons
    PROVE  Queued(q, Append(q, [key |-> k, reason |-> r]), k, r)
<1> DEFINE e == [key |-> k, reason |-> r]
<1>1. e.key = k /\ e.reason = r
  OBVIOUS
<1> HIDE DEF e
<1>2. /\ Len(q) \in Nat /\ Len(Append(q, e)) = Len(q) + 1
      /\ Append(q, e)[Len(q) + 1] = e
      /\ \A i \in 1..Len(q) : Append(q, e)[i] = q[i]
  OBVIOUS
<1> QED BY <1>1, <1>2 DEF Queued, e

\* What one more event adds.
LEMMA QueueGrows ==
    ASSUME NEW q, NEW a, NEW k, NEW r, Queued(q, a, k, r)
    PROVE  /\ \A i \in Leaves(q) : i \in 1..Len(q) /\ a[i] = q[i] /\ i < Len(q) + 1
           /\ r = "Replaced" => Leaves(a) = Leaves(q) /\ LeftKeys(a) = LeftKeys(q)
           /\ r # "Replaced" => /\ Leaves(a) = Leaves(q) \cup {Len(q) + 1}
                                /\ LeftKeys(a) = LeftKeys(q) \cup {k}
                                /\ a[Len(q) + 1].key = k
<1> DEFINE n == Len(q)
           e == a[n + 1]
<1>1. n \in Nat /\ Len(a) = n + 1 /\ a[n + 1] = e /\ \A i \in 1..n : a[i] = q[i]
  BY DEF Queued
<1>2. e.key = k /\ e.reason = r
  BY DEF Queued
<1> HIDE DEF n, e
<1>3. Leaves(q) \subseteq 1..n /\ \A i \in Leaves(q) : a[i] = q[i] /\ i < n + 1
  BY <1>1 DEF Leaves, n
<1>4. Leaves(a) = IF r = "Replaced" THEN Leaves(q) ELSE Leaves(q) \cup {n + 1}
  <2>1. \A i : i \in 1..(n + 1) <=> i \in 1..n \/ i = n + 1
    BY <1>1
  <2> QED BY <1>1, <1>2, <2>1 DEF Leaves, n
<1>5. r = "Replaced" => LeftKeys(a) = LeftKeys(q)
  BY <1>3, <1>4 DEF LeftKeys
<1>6. r # "Replaced" => LeftKeys(a) = LeftKeys(q) \cup {k}
  BY <1>1, <1>2, <1>3, <1>4 DEF LeftKeys
<1> QED BY <1>1, <1>2, <1>3, <1>4, <1>5, <1>6 DEF n

\* At every step of an operation the events queued are those of the entries that
\* have left since it began, one each.
NotifyInv ==
    pc # "idle" =>
        /\ LeftKeys(op.evictQ) = BeforeKeys \ index
        /\ \A i, j \in Leaves(op.evictQ) :
             op.evictQ[i].key = op.evictQ[j].key => i = j
        /\ index \subseteq BeforeKeys \cup {op.protected}
        /\ pc = "insert" => op.key \notin BeforeKeys
        /\ pc \in {"update", "insert", "grow", "prefix", "deleted"}
             => op.protected = NoKey

\* The entry erased is taken from those found, and its event added.
LEMMA NotifyKeptByErasing ==
    ASSUME IndInv, NotifyInv, NEW k, NEW r, Evicts(k, r), pc # "idle",
           k # op.protected
    PROVE  NotifyInv'
<1>1. /\ k \in index /\ k \in Keys /\ r \in Reasons /\ r # "Replaced"
      /\ op.evictQ \in Seq(Events) /\ op'.before = op.before
      /\ op'.protected = op.protected /\ op'.key = op.key /\ pc' = pc
      /\ op'.evictQ = Append(op.evictQ, [key |-> k, reason |-> r])
  BY CallTypes DEF Evicts, Kept, OpRecords
<1>2. index' = index \ {k}
  BY DEF Evicts, EraseEntryLocked
<1>3. BeforeKeys' = BeforeKeys /\ k \in BeforeKeys
  BY <1>1 DEF BeforeKeys, NotifyInv
<1>4. k \notin LeftKeys(op.evictQ)
  BY <1>1 DEF NotifyInv
<1> DEFINE q == op.evictQ
           a == op'.evictQ
           m == Len(q) + 1
<1>5. /\ \A i \in Leaves(q) : a[i] = q[i] /\ i # m
      /\ Leaves(a) = Leaves(q) \cup {m} /\ LeftKeys(a) = LeftKeys(q) \cup {k}
      /\ a[m].key = k
  <2>1. Queued(q, a, k, r)
    BY <1>1, AppendQueues
  <2> HIDE DEF q, a
  <2> QED BY <1>1, <2>1, QueueGrows
<1>6. \A i \in Leaves(q) : q[i].key # k
  BY <1>4 DEF LeftKeys
<1>7. \A i, j \in Leaves(q) : q[i].key = q[j].key => i = j
  BY DEF NotifyInv
<1>q. LeftKeys(q) = BeforeKeys \ index
  BY DEF NotifyInv
<1> HIDE DEF q, a, m
<1>8. \A i, j \in Leaves(a) : a[i].key = a[j].key => i = j
  BY <1>5, <1>6, <1>7
<1>9. LeftKeys(a) = BeforeKeys' \ index'
  BY <1>2, <1>3, <1>5, <1>q
<1> QED BY <1>1, <1>2, <1>3, <1>8, <1>9 DEF NotifyInv, a

\* An operation that has queued nothing has found what is cached.
LEMMA NotifyStarts ==
    ASSUME IndInv, op' \in OpRecords, Fresh(op'), index' = index,
           pc' = "insert" => op'.key \notin index
    PROVE  NotifyInv'
<1>1. BeforeKeys' = index
  BY InvLinked DEF BeforeKeys, Fresh
<1>2. Leaves(<<>>) = {} /\ LeftKeys(<<>>) = {}
  BY DEF Leaves, LeftKeys
<1> QED BY <1>1, <1>2 DEF NotifyInv, Fresh

\* Every step keeps the events in step with the entries.
LEMMA NotifyKeeps ==
    ASSUME IndInv, NotifyInv, [Next]_vars
    PROVE  NotifyInv'
<1>1. CASE UNCHANGED vars
  BY <1>1 DEF NotifyInv, BeforeKeys, vars
<1>2. CASE UpdateEvict \/ InsertEvict \/ ReplaceEvict
  <2>1. Evicts(Back, "Capacity") /\ pc \in {"update", "insert", "grow"}
    BY <1>2, CapacityErasure
  <2>2. op.protected = NoKey /\ Back # NoKey
    BY <2>1, KeysAssumption DEF NotifyInv, Evicts
  <2> QED BY <2>1, <2>2, NotifyKeptByErasing
<1>3. CASE ShedEvict
  BY <1>3, ShedErasure, NotifyKeptByErasing
<1>4. ASSUME NEW k \in Keys, PrefixErase(k)
      PROVE  NotifyInv'
  <2>1. Evicts(k, "Deleted") /\ pc = "prefix"
    BY <1>4, PrefixErasure
  <2>2. op.protected = NoKey /\ k # NoKey
    BY <2>1, KeysAssumption DEF NotifyInv
  <2> QED BY <2>1, <2>2, NotifyKeptByErasing
<1>5. ASSUME NEW k, NEW r, BeganErasing(k, r)
      PROVE  NotifyInv'
  <2>1. /\ k \in index /\ op'.before = entries /\ pc' = "deleted"
        /\ op'.evictQ = <<[key |-> k, reason |-> r]>> /\ r # "Replaced"
        /\ op'.protected = NoKey
    BY <1>5 DEF BeganErasing
  <2>2. index' = index \ {k}
    BY <1>5 DEF BeganErasing, EraseEntryLocked
  <2>3. BeforeKeys' = index
    BY <2>1, InvLinked DEF BeforeKeys
  <2>4. Leaves(op'.evictQ) = {1} /\ LeftKeys(op'.evictQ) = {k}
    <3> DEFINE q == <<[key |-> k, reason |-> r]>>
    <3>1. Len(q) = 1 /\ q[1].key = k /\ q[1].reason = r
      OBVIOUS
    <3> HIDE DEF q
    <3>2. Leaves(q) = {1}
      BY <3>1, <2>1 DEF Leaves
    <3>3. LeftKeys(q) = {k}
      BY <3>1, <3>2 DEF LeftKeys
    <3> QED BY <2>1, <3>2, <3>3 DEF q
  <2> QED BY <2>1, <2>2, <2>3, <2>4 DEF NotifyInv
<1>6. CASE \E k \in Keys, s \in Samples : Delete(k, s)
  BY <1>5, <1>6, FirstErasure
<1>7. CASE \E k \in Keys, w \in Weights, s \in Samples : ReplaceSelfEvict(k, w, s)
  BY <1>5, <1>7, FirstErasure
<1>8. CASE Entry
  BY <1>8, EntryLocals, EntryForm, NotifyStarts
<1>9. CASE \E k \in Keys, w \in Weights, s \in Samples : PutExisting(k, w, s)
  <2>1. index' = index
    BY <1>9 DEF PutExisting
  <2> QED BY <1>9, <2>1, PutExistingForm, NotifyStarts
<1>10. CASE UpdateStore \/ ReplaceStore
  <2>1. /\ op'.before = op.before /\ op'.protected = op.key
        /\ op'.evictQ = Append(op.evictQ, [key |-> op.key, reason |-> "Replaced"])
        /\ pc \in {"update", "grow"} /\ pc' \in {"reclaim", "unlock"}
        /\ index' = index /\ op.key \in Keys /\ op.evictQ \in Seq(Events)
    BY <1>10, StoreForm, CallTypes DEF Kept, OpRecords
  <2>2. /\ Leaves(op'.evictQ) = Leaves(op.evictQ)
        /\ LeftKeys(op'.evictQ) = LeftKeys(op.evictQ)
        /\ \A i \in Leaves(op.evictQ) : op'.evictQ[i] = op.evictQ[i]
    <3> DEFINE q == op.evictQ
               a == op'.evictQ
               k == op.key
    <3>1. Queued(q, a, k, "Replaced")
      BY <2>1, AppendQueues DEF Reasons
    <3> HIDE DEF q, a, k
    <3>2. /\ Leaves(a) = Leaves(q) /\ LeftKeys(a) = LeftKeys(q)
          /\ \A i \in Leaves(q) : a[i] = q[i]
      BY <3>1, QueueGrows
    <3> QED BY <3>2 DEF q, a
  <2>3. index \subseteq BeforeKeys /\ BeforeKeys' = BeforeKeys
    BY <2>1, InvLinked, KeysAssumption DEF NotifyInv, BeforeKeys
  <2> QED BY <2>1, <2>2, <2>3 DEF NotifyInv
<1>11. CASE InsertStore
  <2>1. /\ op'.before = op.before /\ op'.protected = op.key
        /\ op'.evictQ = op.evictQ /\ pc = "insert"
        /\ pc' \in {"reclaim", "unlock"} /\ index' = index \cup {op.key}
    BY <1>11, InsertForm DEF Kept
  <2>2. /\ index \subseteq BeforeKeys /\ BeforeKeys' = BeforeKeys
        /\ op.key \notin BeforeKeys
    BY <2>1, InvLinked, KeysAssumption DEF NotifyInv, BeforeKeys
  <2> QED BY <2>1, <2>2 DEF NotifyInv
<1>12. CASE Settling
  <2>1. /\ op'.before = op.before /\ op'.protected = op.protected
        /\ op'.evictQ = op.evictQ /\ index' = index
    BY <1>12, SettlingForm DEF Kept
  <2>2. pc # "idle" /\ pc' # "insert"
    BY <1>12 DEF Settling, Reclaiming, Moving, FinishDelete, ReclaimTier1,
       CompleteShed, FinishMutation, PrefixDone, ReclaimTier2, ShedSkip, ShedStop,
       FinishDeleteReclaim, FinishDeleteEmpty, CompleteShedEmpty, AfterReclaim
  <2>3. pc' \in {"update", "insert", "grow", "prefix", "deleted"} => pc = "prefix"
    BY <1>12 DEF Settling, Reclaiming, Moving, FinishDelete, ReclaimTier1,
       CompleteShed, FinishMutation, PrefixDone, ReclaimTier2, ShedSkip, ShedStop,
       FinishDeleteReclaim, FinishDeleteEmpty, CompleteShedEmpty, AfterReclaim
  <2> QED BY <2>1, <2>2, <2>3 DEF NotifyInv, BeforeKeys
<1>13. CASE Unlock \/ Compact \/ (\E k \in Keys : Get(k))
              \/ (\E s \in Samples : MissUnderLock(s))
  <2>1. pc' = "idle"
    BY <1>13 DEF Unlock, Compact, Get, MissUnderLock
  <2> QED BY <2>1 DEF NotifyInv
<1>14. CASE \E s \in Samples : DeleteAll(s)
  <2> DEFINE q == [i \in 1..Len(entries) |->
                     [key |-> entries[i], reason |-> "Deleted"]]
  <2>1. /\ op'.before = entries /\ op'.evictQ = q
        /\ pc' = "unlock" /\ index' = {}
    BY <1>14, DeleteAllForm
  <2>2. BeforeKeys' = index
    BY <2>1, InvLinked DEF BeforeKeys
  <2>3. /\ Len(q) = Len(entries)
        /\ \A i \in 1..Len(q) : q[i].key = entries[i] /\ q[i].reason = "Deleted"
    BY CallTypes
  <2> HIDE DEF q
  <2>4. Leaves(q) = 1..Len(entries)
    BY <2>3 DEF Leaves
  <2>5. LeftKeys(q) = index
    BY <2>3, <2>4, InvLinked DEF LeftKeys, FirstKeys
  <2>6. \A i, j \in Leaves(q) : q[i].key = q[j].key => i = j
    BY <2>3, <2>4, InvLinked DEF Linked
  <2> QED BY <2>1, <2>2, <2>5, <2>6 DEF NotifyInv
<1> QED BY <1>1, <1>2, <1>3, <1>4, <1>6, <1>7, <1>8, <1>9, <1>10, <1>11, <1>12,
           <1>13, <1>14, StepKinds DEF Erasure, Settling

\* When an operation unlocks, every entry that left has been queued for the
\* callbacks exactly once (eraseEntryLocked, enqueueEvict), and nothing that is
\* still cached has.
THEOREM DeparturesAlwaysNotified == Spec => []DeparturesNotified
<1>1. Init => NotifyInv
  BY DEF Init, NotifyInv
<1>2. IndInv /\ NotifyInv /\ [Next]_vars => NotifyInv'
  BY NotifyKeeps
<1>3. NotifyInv => DeparturesNotified
  BY DEF NotifyInv, DeparturesNotified, Departures, Leaves, LeftKeys
<1> QED BY <1>1, <1>2, <1>3, Invariance, PTL DEF Spec


-----------------------------------------------------------------------------
(* Replace                                                                 *)

\* The weights on both sides of the entry at place at add up to the total.
LEMMA WeightAround ==
    ASSUME IndInv, pc # "update", NEW at \in 1..Len(entries)
    PROVE  LET k     == entries[at]
               newer == TotalWeight(FirstKeys(entries, at - 1), size)
               older == TotalWeight(LastKeys(entries, Len(entries) - at), size)
           IN  /\ newer \in Nat /\ older \in Nat
               /\ newer + size[k] + older = currentSize
<1> DEFINE n == Len(entries)
           k == entries[at]
           newer == FirstKeys(entries, at - 1)
           older == LastKeys(entries, n - at)
           upto == newer \cup {k}
<1>1. /\ n \in Nat /\ k \in Keys /\ index \in SUBSET Keys
      /\ \A i \in 1..n : entries[i] \in index
      /\ \A i, j \in 1..n : entries[i] = entries[j] => i = j
      /\ FirstKeys(entries, n) = index
  BY InvLinked DEF Linked
<1>2. /\ currentSize \in Nat /\ MaxSize \in Nat /\ size[k] \in Nat /\ size \in Sizes
      /\ currentSize = TotalWeight(index, size)
  BY <1>1, InvWeights, InvParity
<1>3. newer \in SUBSET index /\ k \notin newer /\ upto \in SUBSET index
  BY <1>1 DEF FirstKeys
<1>4. older \in SUBSET index /\ upto \cap older = {}
  <2>1. older \in SUBSET index
    BY <1>1 DEF LastKeys
  <2>2. ASSUME NEW j \in 1..(n - at)
        PROVE  entries[n + 1 - j] \notin upto
    <3>1. n + 1 - j \in 1..n /\ n + 1 - j > at
      BY <1>1
    <3> QED BY <3>1, <1>1 DEF FirstKeys
  <2> QED BY <2>1, <2>2 DEF LastKeys
<1>5. upto \cup older = index
  <2>1. ASSUME NEW i \in 1..n PROVE entries[i] \in upto \cup older
    <3>1. CASE i < at
      BY <3>1, <1>1 DEF FirstKeys
    <3>2. CASE i > at
      <4>1. n + 1 - i \in 1..(n - at) /\ n + 1 - (n + 1 - i) = i
        BY <3>2, <1>1
      <4> QED BY <4>1 DEF LastKeys
    <3> QED BY <3>1, <3>2, <1>1
  <2> QED BY <2>1, <1>1, <1>3, <1>4 DEF FirstKeys
<1>6. TotalWeight(newer, size) \in Nat /\ TotalWeight(older, size) \in Nat
  BY <1>1, <1>2, <1>3, <1>4, CellsFinite
<1>7. TotalWeight(upto, size) = TotalWeight(newer, size) + size[k]
  <2>1. newer \cap {k} = {} /\ newer \in SUBSET Keys /\ {k} \in SUBSET Keys
    BY <1>1, <1>3
  <2>2. TotalWeight(upto, size) = TotalWeight(newer, size) + TotalWeight({k}, size)
    BY <2>1, <1>2, WeightOfUnion
  <2> QED BY <2>2, <1>1, <1>2, WeightOfKey
<1>8. TotalWeight(index, size) = TotalWeight(upto, size) + TotalWeight(older, size)
  <2>1. upto \in SUBSET Keys /\ older \in SUBSET Keys /\ size \in Sizes
    BY <1>1, <1>2, <1>3, <1>4
  <2> HIDE DEF upto, older
  <2> QED BY <2>1, <1>4, <1>5, WeightOfUnion, Zenon
<1> QED BY <1>2, <1>6, <1>7, <1>8

\* A non-empty set of numbers has a least one.
LEMMA LeastNatural ==
    ASSUME NEW T \in SUBSET Nat, T # {}
    PROVE  \E x \in T : \A y \in T : x <= y
<1>1. PICK x \in T : \A y \in T : ~(<<y, x>> \in OpToRel(<, Nat))
  BY WFMin, NatLessThanWellFounded
<1>2. \A y \in T : ~(y < x)
  BY <1>1 DEF OpToRel
<1> QED BY <1>2

\* What is left of the scan's arithmetic.
LEMMA RoomBesideOlder ==
    ASSUME NEW n \in Nat, NEW e \in Nat, NEW o \in Nat, NEW c \in Nat,
           NEW m \in Nat, NEW w \in Nat, n + e + o = c, n + w <= m
    PROVE  w - e <= m - c + o
  OBVIOUS

\* When the new weight fits beside the newer entries, canFitGrowthLocked says so:
\* no end of the two-ended scan gives up too early.
LEMMA CanFitGrowthComplete ==
    ASSUME IndInv, pc # "update", NEW k \in index, NEW w \in Nat,
           NEW at \in 1..Len(entries), entries[at] = k,
           TotalWeight(FirstKeys(entries, at - 1), size) + w <= MaxSize
    PROVE  CanFitGrowth(k, MaxSize - w, w - size[k], MaxSize - currentSize)
<1> DEFINE n == Len(entries)
           W(S) == TotalWeight(S, size)
           newer == W(FirstKeys(entries, at - 1))
           older == W(LastKeys(entries, n - at))
           TooNew(i) == W(FirstKeys(entries, i)) > MaxSize - w
           Enough(i) == w - size[k] <= MaxSize - currentSize
                          + W(LastKeys(entries, i))
           Decided(i) == \/ entries[i] = k \/ TooNew(i)
                         \/ entries[n + 1 - i] = k \/ Enough(i)
<1>1. /\ n \in Nat /\ k \in Keys /\ index \in SUBSET Keys
      /\ \A i \in 1..n : entries[i] \in index
      /\ \A i, j \in 1..n : entries[i] = entries[j] => i = j
  BY InvLinked DEF Linked
<1>2. /\ currentSize \in Nat /\ MaxSize \in Nat /\ size[k] \in Nat /\ size \in Sizes
      /\ newer \in Nat /\ older \in Nat /\ newer + size[k] + older = currentSize
  BY <1>1, InvWeights, WeightAround
<1>3. w - size[k] <= MaxSize - currentSize + older
  BY <1>2, RoomBesideOlder
<1>4. \A i \in 1..(at - 1) : ~TooNew(i)
  <2> SUFFICES ASSUME NEW i \in 1..(at - 1)
               PROVE  ~TooNew(i)
    OBVIOUS
  <2>1. /\ FirstKeys(entries, i) \in SUBSET FirstKeys(entries, at - 1)
        /\ FirstKeys(entries, at - 1) \in SUBSET Keys
        /\ FirstKeys(entries, i) \in SUBSET Keys
    BY <1>1 DEF FirstKeys
  <2>2. W(FirstKeys(entries, i)) <= newer
    BY <2>1, <1>2, WeightMonotone
  <2>3. W(FirstKeys(entries, i)) \in Nat
    BY <2>1, <1>2, CellsFinite
  <2> QED BY <2>2, <2>3, <1>2
<1>5. PICK i \in 1..n : Decided(i) /\ \A j \in 1..n : Decided(j) => i <= j
  <2> DEFINE T == {j \in 1..n : Decided(j)}
  <2>1. at \in T /\ T \in SUBSET Nat
    BY <1>1
  <2> HIDE DEF Decided
  <2>2. PICK x \in T : \A y \in T : x <= y
    BY <2>1, LeastNatural
  <2> QED BY <2>2
<1>6. i <= at /\ \A j \in 1..(i - 1) : ~Decided(j)
  <2>1. Decided(at)
    OBVIOUS
  <2> HIDE DEF Decided
  <2> QED BY <2>1, <1>1, <1>5
<1>7. CASE i = at
  <2>1. ScanBothEnds(k, MaxSize - w, w - size[k], MaxSize - currentSize)
    BY <1>6, <1>7, Zenon DEF ScanBothEnds
  <2> QED BY <2>1 DEF CanFitGrowth
<1>8. CASE i < at
  <2>1. entries[i] # k /\ ~TooNew(i)
    BY <1>1, <1>4, <1>8
  <2>2. CASE entries[n + 1 - i] # k
    <3>1. Enough(i)
      BY <1>5, <2>1, <2>2
    <3>2. ScanBothEnds(k, MaxSize - w, w - size[k], MaxSize - currentSize)
      BY <1>6, <2>1, <2>2, <3>1, Zenon DEF ScanBothEnds
    <3> QED BY <3>2 DEF CanFitGrowth
  <2>3. CASE entries[n + 1 - i] = k
    <3>1. n + 1 - i = at /\ i - 1 = n - at
      BY <2>3, <1>1
    <3>2. CASE i = 1
      <4>1. LastKeys(entries, n - at) = {}
        BY <3>1, <3>2 DEF LastKeys
      <4>2. older = 0
        BY <4>1, WeightOfNothing, Zenon
      <4> QED BY <4>2, <1>2, <1>3 DEF CanFitGrowth
    <3>3. CASE i # 1
      <4>1. i - 1 \in 1..(i - 1)
        BY <3>3
      <4>2. ~Enough(i - 1)
        BY <4>1, <1>6
      <4> QED BY <4>2, <3>1, <1>3
    <3> QED BY <3>2, <3>3
  <2> QED BY <2>2, <2>3
<1> QED BY <1>6, <1>7, <1>8

\* What a Replace decided when it began stays what the entries it found say.
FitInv ==
    op.kind = "Replace" =>
        LET newer == FirstKeys(op.before, Position(op.before, op.key) - 1)
        IN  op.selfEvicted <=>
              op.newSize > MaxSize - TotalWeight(newer, op.sizesBefore)

\* The place of a cached key.
LEMMA Located ==
    ASSUME IndInv, NEW k \in index
    PROVE  LET at == Position(entries, k)
           IN  at \in 1..Len(entries) /\ entries[at] = k
  BY InvLinked, PositionFound DEF IndInv, TypeOK

\* A Replace that begins decides by the weights it finds.
LEMMA FitDecided ==
    ASSUME IndInv, NEW k \in index, NEW w \in Nat, pc = "idle",
           op'.before = entries, op'.sizesBefore = size, op'.key = k,
           op'.newSize = w, op'.selfEvicted \in BOOLEAN,
           op'.selfEvicted <=>
              /\ w > size[k]
              /\ \/ w > MaxSize
                 \/ ~CanFitGrowth(k, MaxSize - w, w - size[k],
                                  MaxSize - currentSize)
    PROVE  FitInv'
<1> DEFINE at == Position(entries, k)
           newer == TotalWeight(FirstKeys(entries, at - 1), size)
           older == TotalWeight(LastKeys(entries, Len(entries) - at), size)
           fits == CanFitGrowth(k, MaxSize - w, w - size[k], MaxSize - currentSize)
<1>1. at \in 1..Len(entries) /\ entries[at] = k
  BY Located
<1> HIDE DEF at
<1>2. /\ newer \in Nat /\ older \in Nat /\ newer + size[k] + older = currentSize
      /\ currentSize \in Nat /\ MaxSize \in Nat /\ size[k] \in Nat
  BY <1>1, WeightAround, InvWeights, InvLinked
<1>3. currentSize <= MaxSize
  BY DEF IndInv, CapacityBound
<1>4. w <= MaxSize /\ fits => newer + w <= MaxSize
  BY <1>1, CanFitGrowthSound
<1>5. newer + w <= MaxSize => fits
  BY <1>1, CanFitGrowthComplete
<1> HIDE DEF newer, older, fits
<1>6. op'.selfEvicted <=> w > MaxSize - newer
  BY <1>2, <1>3, <1>4, <1>5 DEF fits
<1>7. newer = TotalWeight(FirstKeys(op'.before, Position(op'.before, op'.key) - 1),
                          op'.sizesBefore)
  BY DEF newer, at
<1> QED BY <1>6, <1>7 DEF FitInv


\* Every step keeps it.
LEMMA FitKeeps ==
    ASSUME IndInv, FitInv, [Next]_vars
    PROVE  FitInv'
<1> USE DEF Ops
<1>w. \A w \in Weights : w \in Nat
  BY CallTypes
<1>s. \A k \in index : size[k] \in Nat
  BY InvWeights, InvLinked
<1>k. Kept(op, op') => FitInv'
  BY DEF Kept, FitInv
<1>n. op'.kind # "Replace" => FitInv'
  BY DEF FitInv
<1> HIDE DEF FitInv
<1>1. CASE UNCHANGED vars
  BY <1>1, <1>k DEF vars, Kept
<1>2. CASE UpdateEvict \/ InsertEvict \/ ReplaceEvict
  BY <1>2, <1>k, CapacityErasure DEF Evicts
<1>3. CASE ShedEvict
  BY <1>3, <1>k, ShedErasure DEF Evicts
<1>4. CASE \E k \in Keys : PrefixErase(k)
  BY <1>4, <1>k, PrefixErasure DEF Evicts
<1>5. CASE \E k \in Keys, s \in Samples : Delete(k, s)
  BY <1>5, <1>n, FirstErasure
<1>6. ASSUME NEW k \in Keys, NEW w \in Weights, NEW s \in Samples,
             ReplaceSelfEvict(k, w, s)
      PROVE  FitInv'
  <2>1. /\ BeganErasing(k, "Capacity") /\ op'.selfEvicted /\ op'.key = k
        /\ op'.newSize = w
    BY <1>6, FirstErasure
  <2>2. /\ k \in index /\ pc = "idle" /\ w > size[k]
        /\ \/ w > MaxSize
           \/ ~CanFitGrowth(k, MaxSize - w, w - size[k], MaxSize - currentSize)
    BY <1>6 DEF ReplaceSelfEvict
  <2>3. /\ op'.before = entries /\ op'.sizesBefore = size
        /\ op'.selfEvicted \in BOOLEAN
    BY <2>1 DEF BeganErasing, OpRecords
  <2> QED BY <1>w, <2>1, <2>2, <2>3, FitDecided
<1>7. ASSUME NEW k \in Keys, NEW w \in Weights, NEW s \in Samples,
             ReplaceGrow(k, w, s)
      PROVE  FitInv'
  <2> DEFINE b == Begin("Replace", k, w, s)
  <2>1. b \in OpRecords /\ Fresh(b) /\ b.key = k /\ b.newSize = w
    BY <1>w, BeginFields
  <2>2. /\ op' = b /\ k \in index /\ pc = "idle" /\ w <= MaxSize
        /\ CanFitGrowth(k, MaxSize - w, w - size[k], MaxSize - currentSize)
    BY <1>7 DEF ReplaceGrow
  <2> HIDE DEF b
  <2>3. /\ op'.before = entries /\ op'.sizesBefore = size /\ op'.key = k
        /\ op'.newSize = w /\ ~op'.selfEvicted /\ op'.selfEvicted \in BOOLEAN
    BY <2>1, <2>2 DEF Fresh, OpRecords
  <2>4. ~(w > MaxSize)
    BY <2>2, <1>w, InvWeights
  <2> QED BY <1>w, <2>2, <2>3, <2>4, FitDecided
<1>8. ASSUME NEW k \in Keys, NEW w \in Weights, NEW s \in Samples,
             ReplaceNoGrowth(k, w, s)
      PROVE  FitInv'
  <2> DEFINE b == Begin("Replace", k, w, s)
             z == ShouldEvictOnZeroWeightShrink(SyncZeroWatermark(s), size[k], w)
  <2>1. b \in OpRecords /\ Fresh(b) /\ b.key = k /\ b.newSize = w
    BY <1>w, BeginFields
  <2>2. /\ op' = [b EXCEPT !.hadZeroCap = z] /\ k \in index /\ pc = "idle"
        /\ w <= size[k]
    BY <1>8 DEF ReplaceNoGrowth
  <2> HIDE DEF b, z
  <2>3. /\ op'.before = entries /\ op'.sizesBefore = size /\ op'.key = k
        /\ op'.newSize = w /\ ~op'.selfEvicted /\ op'.selfEvicted \in BOOLEAN
    BY <2>1, <2>2 DEF Fresh, OpRecords
  <2>4. ~(w > size[k])
    BY <2>2, <1>w, <1>s
  <2> QED BY <1>w, <2>2, <2>3, <2>4, FitDecided
<1>9. ASSUME NEW k \in Keys, NEW w \in Weights, NEW s \in Samples, PutNew(k, w, s)
      PROVE  FitInv'
  BY <1>w, <1>9, <1>n, BeginFields DEF PutNew
<1>10. ASSUME NEW P \in Prefixes, NEW s \in Samples, DeletePrefix(P, s)
       PROVE  FitInv'
  <2> DEFINE b == Begin("DeletePrefix", NoKey, 0, s)
             todo == P \cap index
  <2>1. b \in OpRecords /\ b.kind = "DeletePrefix"
    BY BeginFields
  <2>2. op' = [b EXCEPT !.todo = todo]
    BY <1>10 DEF DeletePrefix
  <2> HIDE DEF b, todo
  <2> QED BY <2>1, <2>2, <1>n DEF OpRecords
<1>11. ASSUME NEW s \in Samples, EvaluateMemoryPressure(s)
       PROVE  FitInv'
  BY <1>11, <1>n, BeginFields DEF EvaluateMemoryPressure
<1>12. CASE Entry
  BY <1>7, <1>8, <1>9, <1>10, <1>11, <1>12 DEF Entry
<1>13. CASE \E k \in Keys, w \in Weights, s \in Samples : PutExisting(k, w, s)
  BY <1>13, <1>n, PutExistingForm
<1>14. CASE UpdateStore \/ ReplaceStore
  BY <1>14, <1>k, StoreForm
<1>15. CASE InsertStore
  BY <1>15, <1>k, InsertForm
<1>16. CASE Settling
  BY <1>16, <1>k, SettlingForm
<1>17. CASE Compact \/ (\E k \in Keys : Get(k)) \/ (\E s \in Samples : MissUnderLock(s))
  <2>1. op' = op
    BY <1>17 DEF Compact, Get, MissUnderLock
  <2> QED BY <2>1, <1>k DEF Kept
<1>18. CASE Unlock
  BY <1>18, <1>n DEF Unlock, NoOp
<1>19. CASE \E s \in Samples : DeleteAll(s)
  BY <1>19, <1>n, DeleteAllForm
<1> QED BY <1>1, <1>2, <1>3, <1>4, <1>5, <1>6, <1>12, <1>13, <1>14, <1>15, <1>16,
           <1>17, <1>18, <1>19, StepKinds DEF Erasure, Settling

\* Replace evicts its own entry exactly when the new weight does not fit beside
\* the entries more recent than it, for every list and every weights: the
\* two-ended scan of canFitGrowthLocked decides what it stands for.
THEOREM ReplaceAlwaysFits == Spec => []ReplaceFitsBesideNewer
<1>1. Init => FitInv
  BY DEF Init, FitInv, NoOp
<1>2. IndInv /\ FitInv /\ [Next]_vars => FitInv'
  BY FitKeeps
<1>3. FitInv => ReplaceFitsBesideNewer
  BY DEF FitInv, ReplaceFitsBesideNewer
<1> QED BY <1>1, <1>2, <1>3, Invariance, PTL DEF Spec


-----------------------------------------------------------------------------
(* The order of the queue                                                  *)

\* The keys of the list l other than e are in the order they have in before.
ListOrder(l, before, e) ==
    \A i, j \in 1..Len(l) :
        i < j /\ l[i] # e /\ l[j] # e
            => Position(before, l[i]) < Position(before, l[j])

\* The first n keys of l, other than e, are newer than those that have left.
QueueBehind(l, n, q, before, e) ==
    \A i \in 1..n, m \in Leaves(q) :
        l[i] # e => Position(before, l[i]) < Position(before, q[m].key)

\* The keys that have left are queued from the oldest to the newest.
QueueDescends(q, before) ==
    \A m, n \in Leaves(q) :
        m < n => Position(before, q[m].key) > Position(before, q[n].key)

\* Unlinking a key leaves the others in order, and those before it in place.
LEMMA RemoveKeepsOrder ==
    ASSUME NEW l, Linked(l), NEW c \in 1..Len(l), NEW before, NEW e
    PROVE  /\ ListOrder(l, before, e) => ListOrder(Remove(l, l[c]), before, e)
           /\ Len(Remove(l, l[c])) = Len(l) - 1
           /\ \A i \in 1..(c - 1) : Remove(l, l[c])[i] = l[i]
<1> DEFINE r == Remove(l, l[c])
<1>1. Len(l) \in Nat /\ l[c] \in FirstKeys(l, Len(l))
  BY DEF Linked, FirstKeys
<1>2. Position(l, l[c]) = c
  BY <1>1, PositionFound DEF Linked
<1>3. Len(r) = Len(l) - 1
  BY <1>1, RemoveUnlinks
<1>4. \A i \in 1..(Len(l) - 1) : r[i] = IF i < c THEN l[i] ELSE l[i + 1]
  BY <1>2 DEF Remove
<1> HIDE DEF r
<1>5. ASSUME ListOrder(l, before, e), NEW i \in 1..Len(r), NEW j \in 1..Len(r),
             i < j, r[i] # e, r[j] # e
      PROVE  Position(before, r[i]) < Position(before, r[j])
  <2> DEFINE a == IF i < c THEN i ELSE i + 1
             b == IF j < c THEN j ELSE j + 1
  <2>1. a \in 1..Len(l) /\ b \in 1..Len(l) /\ a < b
    BY <1>1, <1>3, <1>5
  <2>2. r[i] = l[a] /\ r[j] = l[b]
    BY <1>1, <1>3, <1>4
  <2> HIDE DEF a, b
  <2> QED BY <1>5, <2>1, <2>2 DEF ListOrder
<1>6. ListOrder(l, before, e) => ListOrder(r, before, e)
  BY <1>5 DEF ListOrder
<1>7. \A i \in 1..(c - 1) : r[i] = l[i]
  BY <1>1, <1>4
<1> QED BY <1>3, <1>6, <1>7 DEF r

\* Linking e first leaves the others in order.
LEMMA PushKeepsOrder ==
    ASSUME NEW l, Len(l) \in Nat, NEW before, NEW e, ListOrder(l, before, e)
    PROVE  ListOrder(PushFront(l, e), before, e)
<1> DEFINE r == PushFront(l, e)
<1>1. Len(r) = Len(l) + 1 /\ r[1] = e /\ \A i \in 2..(Len(l) + 1) : r[i] = l[i - 1]
  BY DEF PushFront
<1> HIDE DEF r
<1>2. ASSUME NEW i \in 1..Len(r), NEW j \in 1..Len(r), i < j, r[i] # e, r[j] # e
      PROVE  Position(before, r[i]) < Position(before, r[j])
  <2>1. /\ i - 1 \in 1..Len(l) /\ j - 1 \in 1..Len(l) /\ i - 1 < j - 1
        /\ r[i] = l[i - 1] /\ r[j] = l[j - 1]
    BY <1>1, <1>2
  <2> QED BY <2>1, <1>2 DEF ListOrder
<1> QED BY <1>2 DEF ListOrder, r

\* A list is in its own order.
LEMMA OwnOrder ==
    ASSUME NEW l, Linked(l), NEW e
    PROVE  ListOrder(l, l, e)
<1>1. Len(l) \in Nat
  BY DEF Linked
<1>2. \A i \in 1..Len(l) : Position(l, l[i]) = i
  BY <1>1, PositionFound DEF Linked, FirstKeys
<1> QED BY <1>1, <1>2 DEF ListOrder

\* The operations whose evictions the queue orders from LRU to MRU.
Evicting == op.kind \in {"Put", "Replace", "Evaluate"} /\ ~op.selfEvicted

\* The entries a loop has still to look at.
Reach == IF pc = "shed" THEN op.cursor ELSE Len(entries)

OrderInv ==
    /\ pc # "idle" /\ Evicting =>
         /\ ListOrder(entries, op.before, op.key)
         /\ pc \in {"update", "insert", "grow", "reclaim", "shed"} =>
              QueueBehind(entries, Reach, op.evictQ, op.before, op.key)
         /\ QueueDescends(op.evictQ, op.before)
         /\ pc \in {"reclaim", "shed"} =>
              op.protected = op.key \/ op.key = NoKey
         /\ pc \notin {"prefix", "deleted"}
    /\ pc # "idle" /\ op.kind = "DeleteAll" =>
         /\ pc = "unlock"
         /\ \A m, n \in Leaves(op.evictQ) :
              m < n => Position(op.before, op.evictQ[m].key)
                         < Position(op.before, op.evictQ[n].key)

\* The last entry of those a loop has still to look at leaves.
LEMMA OrderKeptByErasing ==
    ASSUME IndInv, OrderInv, NEW c \in 1..Len(entries), NEW r,
           Evicts(entries[c], r), c = Reach, Reach' = c - 1,
           Evicting => entries[c] # op.key,
           pc \in {"update", "insert", "grow", "shed"}
    PROVE  OrderInv'
<1> DEFINE k == entries[c]
           q == op.evictQ
           a == op'.evictQ
           m == Len(q) + 1
<1>1. /\ k \in Keys /\ r \in Reasons /\ r # "Replaced" /\ q \in Seq(Events)
      /\ op'.before = op.before /\ op'.protected = op.protected
      /\ op'.key = op.key /\ pc' = pc /\ op'.kind = op.kind
      /\ op'.selfEvicted = op.selfEvicted
      /\ a = Append(q, [key |-> k, reason |-> r])
  BY CallTypes DEF Evicts, Kept, OpRecords
<1>2. entries' = Remove(entries, k)
  BY DEF Evicts, EraseEntryLocked
<1>3. Linked(entries) /\ Len(entries) \in Nat
  BY InvLinked
<1>4. Queued(q, a, k, r)
  BY <1>1, AppendQueues
<1> HIDE DEF q, a
<1>5. /\ \A i \in Leaves(q) : a[i] = q[i] /\ i < m
      /\ Leaves(a) = Leaves(q) \cup {m} /\ a[m].key = k
      /\ Leaves(q) \subseteq Nat
  <2>1. Leaves(q) \subseteq Nat
    BY <1>4 DEF Leaves, Queued
  <2> QED BY <1>1, <1>4, <2>1, QueueGrows
<1> HIDE DEF k, m
<1>6. ASSUME Evicting
      PROVE  /\ ListOrder(entries', op.before, op.key)
             /\ QueueBehind(entries', c - 1, a, op.before, op.key)
             /\ QueueDescends(a, op.before)
  <2>1. /\ ListOrder(entries, op.before, op.key)
        /\ QueueBehind(entries, c, q, op.before, op.key)
        /\ QueueDescends(q, op.before)
    BY <1>6 DEF OrderInv, q
  <2>2. /\ ListOrder(entries', op.before, op.key)
        /\ \A i \in 1..(c - 1) : entries'[i] = entries[i]
    BY <1>2, <1>3, <2>1, RemoveKeepsOrder DEF k
  <2>3. k # op.key
    BY <1>6 DEF k
  <2>4. \A i \in 1..(c - 1) : i \in 1..Len(entries) /\ i \in 1..c /\ i < c
    BY <1>3
  <2>5. QueueBehind(entries', c - 1, a, op.before, op.key)
    <3> SUFFICES ASSUME NEW i \in 1..(c - 1), NEW n \in Leaves(a),
                        entries'[i] # op.key
                 PROVE  Position(op.before, entries'[i])
                          < Position(op.before, a[n].key)
      BY DEF QueueBehind
    <3>1. CASE n \in Leaves(q)
      BY <3>1, <1>5, <2>1, <2>2, <2>4 DEF QueueBehind
    <3>2. CASE n = m
      BY <3>2, <1>5, <2>1, <2>2, <2>3, <2>4 DEF ListOrder, k
    <3> QED BY <3>1, <3>2, <1>5
  <2>6. QueueDescends(a, op.before)
    <3> SUFFICES ASSUME NEW i \in Leaves(a), NEW j \in Leaves(a), i < j
                 PROVE  Position(op.before, a[i].key) > Position(op.before, a[j].key)
      BY DEF QueueDescends
    <3>1. i \in Leaves(q)
      BY <1>4, <1>5 DEF m, Queued
    <3>2. CASE j \in Leaves(q)
      BY <3>1, <3>2, <1>5, <2>1 DEF QueueDescends
    <3>3. CASE j = m
      <4>1. c \in 1..c
        OBVIOUS
      <4>2. Position(op.before, k) < Position(op.before, q[i].key)
        BY <4>1, <3>1, <2>1, <2>3 DEF QueueBehind, k
      <4> QED BY <4>2, <3>1, <3>3, <1>5
    <3> QED BY <3>2, <3>3, <1>5
  <2> QED BY <2>2, <2>5, <2>6
<1>7. Evicting' = Evicting
  BY <1>1 DEF Evicting
<1>8. op.kind # "DeleteAll"
  BY DEF OrderInv
<1> QED BY <1>1, <1>6, <1>7, <1>8 DEF OrderInv, a


\* An operation that has just begun has queued nothing.
LEMMA OrderStarts ==
    ASSUME IndInv, op' \in OpRecords, Fresh(op'), op'.kind # "DeleteAll",
           ListOrder(entries', entries, op'.key),
           pc' \in {"update", "insert", "grow", "prefix", "reclaim"},
           pc' = "reclaim" => op'.key = NoKey,
           pc' = "prefix" => op'.kind = "DeletePrefix"
    PROVE  OrderInv'
<1>1. op'.evictQ = <<>> /\ op'.before = entries
  BY DEF Fresh
<1>2. Leaves(<<>>) = {}
  BY DEF Leaves
<1>3. QueueDescends(op'.evictQ, op'.before)
  BY <1>1, <1>2 DEF QueueDescends
<1>4. QueueBehind(entries', Reach', op'.evictQ, op'.before, op'.key)
  BY <1>1, <1>2 DEF QueueBehind
<1> QED BY <1>1, <1>3, <1>4 DEF OrderInv, Evicting

\* A step of a stage of an operation that keeps the queue, or adds an overwrite.
LEMMA OrderGoesOn ==
    ASSUME IndInv, OrderInv, pc \notin {"idle", "unlock"}, Kept(op, op'),
           Leaves(op'.evictQ) = Leaves(op.evictQ),
           \A m \in Leaves(op.evictQ) : op'.evictQ[m] = op.evictQ[m],
           \/ entries' = entries
           \/ entries' = PushFront(entries, op.key) /\ pc = "insert",
           pc' = "shed" => /\ pc \in {"reclaim", "shed"} /\ entries' = entries
                           /\ Reach' \in Nat /\ Reach' <= Reach,
           pc' = "reclaim" => /\ pc \in {"update", "insert", "grow", "deleted"}
                              /\ pc # "deleted" => op'.protected = op.key,
           pc \in {"reclaim", "shed"} => op'.protected = op.protected,
           pc' \in {"idle", "update", "insert", "grow", "prefix", "deleted"} =>
             pc = "prefix",
           pc' \notin {"idle", "update", "insert", "grow"}
    PROVE  OrderInv'
<1> USE DEF Kept
<1>1. Evicting' = Evicting
  BY DEF Evicting
<1>2. Len(entries) \in Nat /\ Linked(entries)
  BY InvLinked
<1>3. CASE Evicting
  <2> DEFINE b == op.before
             e == op.key
             q == op.evictQ
  <2>1. /\ ListOrder(entries, b, e) /\ QueueDescends(q, b)
        /\ pc \in {"update", "insert", "grow", "reclaim", "shed"} =>
             QueueBehind(entries, Reach, q, b, e)
        /\ pc \in {"reclaim", "shed"} => op.protected = e \/ e = NoKey
        /\ pc \notin {"prefix", "deleted"}
        /\ op.kind # "DeleteAll"
    BY <1>3 DEF OrderInv, Evicting
  <2>2. ListOrder(entries', b, e)
    BY <1>2, <2>1, PushKeepsOrder
  <2>3. QueueDescends(op'.evictQ, b)
    BY <2>1 DEF QueueDescends
  <2>4. ASSUME pc' = "reclaim"
        PROVE  QueueBehind(entries', Reach', op'.evictQ, b, e)
    <3>1. /\ QueueBehind(entries, Len(entries), q, b, e)
          /\ Reach' = Len(entries')
      BY <2>1, <2>4 DEF Reach
    <3>2. CASE entries' = entries
      BY <3>1, <3>2 DEF QueueBehind
    <3>3. CASE entries' = PushFront(entries, e)
      <4>1. /\ Len(entries') = Len(entries) + 1 /\ entries'[1] = e
            /\ \A i \in 2..(Len(entries) + 1) : entries'[i] = entries[i - 1]
        BY <3>3, <1>2 DEF PushFront
      <4>2. \A i \in 1..Len(entries') : i = 1 \/ (i \in 2..(Len(entries) + 1)
                                               /\ i - 1 \in 1..Len(entries))
        BY <4>1, <1>2
      <4> HIDE DEF b, e, q
      <4> QED BY <3>1, <4>1, <4>2 DEF QueueBehind, q
    <3> QED BY <3>2, <3>3
  <2>5. ASSUME pc' = "shed"
        PROVE  QueueBehind(entries', Reach', op'.evictQ, b, e)
    <3>1. /\ QueueBehind(entries, Reach, q, b, e) /\ entries' = entries
          /\ Reach' \in Nat /\ Reach' <= Reach
      BY <2>1, <2>5
    <3>2. Reach \in Nat
      BY <1>2, CallTypes DEF Reach, OpRecords
    <3>3. \A i \in 1..Reach' : i \in 1..Reach
      BY <3>1, <3>2
    <3> QED BY <3>1, <3>3 DEF QueueBehind
  <2>6. pc' \in {"reclaim", "shed"} => op'.protected = e \/ e = NoKey
    BY <2>1
  <2> QED BY <1>1, <1>3, <2>1, <2>2, <2>3, <2>4, <2>5, <2>6 DEF OrderInv
<1>4. CASE ~Evicting
  <2>1. op.kind # "DeleteAll"
    BY DEF OrderInv
  <2> QED BY <1>1, <1>4, <2>1 DEF OrderInv
<1> QED BY <1>3, <1>4


\* Every step keeps the order.
LEMMA OrderKeeps ==
    ASSUME IndInv, OrderInv, [Next]_vars
    PROVE  OrderInv'
<1>0. /\ Linked(entries) /\ Len(entries) \in Nat /\ op \in OpRecords
      /\ \A e : ListOrder(entries, entries, e)
      /\ index \in SUBSET Keys
  BY InvLinked, CallTypes, OwnOrder
<1>1. CASE UNCHANGED vars
  BY <1>1 DEF OrderInv, Evicting, Reach, vars
<1>2. CASE UpdateEvict \/ InsertEvict \/ ReplaceEvict
  <2>1. /\ Len(entries) > 0 /\ Evicts(Back, "Capacity") /\ Back # op.key
        /\ pc \in {"update", "insert", "grow"} /\ pc' = pc
    BY <1>2, CapacityErasure DEF Evicts
  <2> DEFINE c == Len(entries)
  <2>2. c \in 1..Len(entries) /\ entries[c] = Back /\ c = Reach
    BY <2>1, <1>0 DEF Reach, Back
  <2>3. entries' = Remove(entries, entries[c])
    BY <2>1, <2>2 DEF Evicts, EraseEntryLocked
  <2>4. Reach' = c - 1
    BY <1>0, <2>1, <2>2, <2>3, RemoveKeepsOrder DEF Reach
  <2> HIDE DEF c
  <2> QED BY <2>1, <2>2, <2>4, OrderKeptByErasing
<1>3. CASE ShedEvict
  <2> DEFINE c == op.cursor
  <2>1. /\ Evicts(entries[c], "Pressure") /\ pc = "shed" /\ pc' = "shed"
        /\ c \in 1..Len(entries) /\ op'.cursor = c - 1 /\ entries[c] # op.protected
    BY <1>3, ShedErasure DEF Evicts
  <2>2. c = Reach /\ Reach' = c - 1
    BY <2>1 DEF Reach
  <2>3. Evicting => entries[c] # op.key
    <3>1. entries[c] # NoKey
      BY <2>1, KeysAssumption DEF Evicts
    <3> QED BY <2>1, <3>1 DEF OrderInv
  <2> HIDE DEF c
  <2> QED BY <2>1, <2>2, <2>3, OrderKeptByErasing
<1>4. CASE \E k \in Keys : PrefixErase(k)
  <2>1. pc = "prefix" /\ pc' = "prefix" /\ Kept(op, op')
    BY <1>4, PrefixErasure DEF Evicts
  <2>2. ~Evicting /\ op.kind # "DeleteAll"
    BY <2>1 DEF OrderInv
  <2> QED BY <2>1, <2>2 DEF OrderInv, Evicting, Kept
<1>5. CASE \E k \in Keys, s \in Samples : Delete(k, s)
  BY <1>5, FirstErasure DEF OrderInv, Evicting
<1>6. CASE \E k \in Keys, w \in Weights, s \in Samples : ReplaceSelfEvict(k, w, s)
  BY <1>6, FirstErasure DEF OrderInv, Evicting
<1>7. CASE Entry
  <2>1. /\ op' \in OpRecords /\ Fresh(op') /\ entries' = entries
        /\ pc' = "reclaim" => op'.key = NoKey
        /\ pc' \in {"insert", "grow", "prefix", "reclaim"}
    BY <1>7, EntryLocals, EntryForm
  <2>2. /\ pc' = "prefix" => op'.kind = "DeletePrefix"
        /\ op'.kind # "DeleteAll"
    BY <1>7, <2>1, EntryLocals DEF KindFits
  <2> QED BY <1>0, <2>1, <2>2, OrderStarts
<1>8. ASSUME NEW k \in Keys, NEW w \in Weights, NEW s \in Samples,
             PutExisting(k, w, s)
      PROVE  OrderInv'
  <2>1. /\ op' \in OpRecords /\ Fresh(op') /\ op'.kind = "Put" /\ op'.key = k
        /\ pc' = "update" /\ k \in index
        /\ entries' = PushFront(Remove(entries, k), k)
    BY <1>8, PutExistingForm DEF PutExisting, MoveToFront
  <2>2. PICK c \in 1..Len(entries) : entries[c] = k
    BY <2>1, InvWeights
  <2>3. ListOrder(Remove(entries, k), entries, k) /\ Len(Remove(entries, k)) \in Nat
    BY <1>0, <2>2, RemoveKeepsOrder
  <2>4. ListOrder(entries', entries, k)
    BY <2>1, <2>3, PushKeepsOrder
  <2> QED BY <2>1, <2>4, OrderStarts
<1>9. CASE UpdateStore \/ ReplaceStore
  <2>1. /\ Kept(op, op') /\ op'.protected = op.key
        /\ op'.evictQ = Append(op.evictQ, [key |-> op.key, reason |-> "Replaced"])
        /\ pc \in {"update", "grow"} /\ pc' \in {"reclaim", "unlock"}
        /\ entries' = entries /\ op.key \in Keys /\ op.evictQ \in Seq(Events)
    BY <1>0, <1>9, StoreForm DEF OpRecords
  <2>2. Queued(op.evictQ, op'.evictQ, op.key, "Replaced")
    BY <2>1, AppendQueues DEF Reasons
  <2>3. /\ Leaves(op'.evictQ) = Leaves(op.evictQ)
        /\ \A m \in Leaves(op.evictQ) : op'.evictQ[m] = op.evictQ[m]
    BY <2>2, QueueGrows
  <2> QED BY <2>1, <2>3, OrderGoesOn
<1>10. CASE InsertStore
  <2>1. /\ Kept(op, op') /\ op'.protected = op.key /\ op'.evictQ = op.evictQ
        /\ pc = "insert" /\ pc' \in {"reclaim", "unlock"}
        /\ entries' = PushFront(entries, op.key)
    BY <1>10, InsertForm
  <2> QED BY <2>1, OrderGoesOn
<1>11. CASE Settling
  <2>1. /\ Kept(op, op') /\ op'.protected = op.protected
        /\ op'.evictQ = op.evictQ /\ entries' = entries
    BY <1>11, SettlingForm
  <2>2. /\ pc \notin {"idle", "unlock", "update", "insert", "grow"}
        /\ pc' = "shed" => pc \in {"reclaim", "shed"}
        /\ pc' = "reclaim" => pc = "deleted"
        /\ pc' \notin {"idle", "update", "insert", "grow", "prefix"}
        /\ pc' = "deleted" => pc = "prefix"
    BY <1>11 DEF Settling, Reclaiming, Moving, FinishDelete, ReclaimTier1,
       CompleteShed, FinishMutation, PrefixDone, ReclaimTier2, ShedSkip, ShedStop,
       FinishDeleteReclaim, FinishDeleteEmpty, CompleteShedEmpty, AfterReclaim
  <2>3. pc' = "shed" => Reach' \in Nat /\ Reach' <= Reach
    <3>1. CASE ReclaimTier2
      BY <3>1, <1>0 DEF ReclaimTier2, Reach, OpRecords
    <3>2. CASE ShedSkip
      BY <3>2, <1>0 DEF ShedSkip, ShedContinues, Reach, OpRecords
    <3>3. ReclaimTier2 \/ ShedSkip \/ pc' # "shed"
      BY <1>11 DEF Settling, Reclaiming, Moving, FinishDelete, ReclaimTier1,
         CompleteShed, FinishMutation, PrefixDone, ShedStop,
         FinishDeleteReclaim, FinishDeleteEmpty, CompleteShedEmpty, AfterReclaim
    <3> QED BY <3>1, <3>2, <3>3
  <2> QED BY <2>1, <2>2, <2>3, OrderGoesOn
<1>12. CASE Unlock \/ Compact \/ (\E k \in Keys : Get(k))
              \/ (\E s \in Samples : MissUnderLock(s))
  <2>1. pc' = "idle"
    BY <1>12 DEF Unlock, Compact, Get, MissUnderLock
  <2> QED BY <2>1 DEF OrderInv
<1>13. CASE \E s \in Samples : DeleteAll(s)
  <2> DEFINE q == [i \in 1..Len(entries) |->
                     [key |-> entries[i], reason |-> "Deleted"]]
  <2>1. /\ op'.before = entries /\ op'.evictQ = q /\ op'.kind = "DeleteAll"
        /\ pc' = "unlock"
    BY <1>13, DeleteAllForm
  <2>2. Leaves(q) \subseteq 1..Len(entries) /\ \A i \in Leaves(q) : q[i].key = entries[i]
    BY <1>0 DEF Leaves
  <2> HIDE DEF q
  <2>3. \A i \in 1..Len(entries) : Position(entries, entries[i]) = i
    BY <1>0, PositionFound DEF Linked, FirstKeys
  <2> QED BY <2>1, <2>2, <2>3 DEF OrderInv, Evicting
<1> QED BY <1>1, <1>2, <1>3, <1>4, <1>5, <1>6, <1>7, <1>8, <1>9, <1>10, <1>11,
           <1>12, <1>13, StepKinds DEF Erasure, Settling

\* Capacity and pressure evictions are queued from LRU to MRU, and
\* DeletePrefix("") from MRU to LRU (deleteAllPrefixLocked), whatever loop of the
\* operation evicted them and whatever it skipped.
THEOREM QueueAlwaysOrdered == Spec => []QueueOrder
<1>1. Init => OrderInv
  BY DEF Init, OrderInv
<1>2. IndInv /\ OrderInv /\ [Next]_vars => OrderInv'
  BY OrderKeeps
<1>3. OrderInv => QueueOrder
  BY DEF OrderInv, QueueOrder, QueueDescends, Departures, Leaves, Evicting
<1> QED BY <1>1, <1>2, <1>3, Invariance, PTL DEF Spec

=============================================================================
