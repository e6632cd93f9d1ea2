----------------------------- MODULE RadixCache -----------------------------
(***************************************************************************)
(* The radix backend (radix_lru.go): the entries are the value-bearing     *)
(* nodes of a RadixTrie, linked from most to least recently used.  Every   *)
(* operation runs under c.mu, and nothing it leaves half done is visible   *)
(* to another, so an operation is one step; inside it the handlers are     *)
(* functions of a cache record c:                                          *)
(*   heap, lru, currentSize, ps - the fields of radixCache                 *)
(*   evictQ      - the events queued for the eviction callbacks            *)
(*   marks       - how often markReclaimedLocked advanced the epoch        *)
(*   compactions - how often a compaction was counted                      *)
(*   op          - the call                                                *)
(* A value is abstracted to its weight; the samples are those of           *)
(* PressurePolicy.  pointer nodes leave nothing to compact, so             *)
(* compactDataStructuresLocked only resets watermarks and answers false.   *)
(***************************************************************************)
EXTENDS PressurePolicy, RadixTrie

CONSTANTS
    KeyStrings,   \* the keys callers use, sequences of bytes
    Weights,      \* what the weigher may return
    PrefixArgs    \* the non-empty prefixes passed to DeletePrefix

ASSUME RadixKeysAssumption ==
    /\ IsFiniteSet(KeyStrings)
    /\ KeyStrings \subseteq Seq(Nat)
    /\ PrefixArgs \subseteq Seq(Nat) \ {<<>>}
    /\ 2 * Cardinality(KeyStrings) <= MaxNodes
    /\ Cardinality(KeyStrings) <= DeletedCap
ASSUME RadixWeightsAssumption == Weights \subseteq Nat

VARIABLES
    heap,         \* the trie
    lru,          \* its value-bearing nodes, most recently used first
    currentSize,
    ps,           \* watermarks of the embedded pressureState
    listing,      \* what All() yields: the keys in list order, and their weights
    report        \* what the last operation queued, marked and counted

vars == <<heap, lru, currentSize, ps, listing, report>>

Call(kind, key, w) == [kind |-> kind, key |-> key, size |-> w]

NoReport == [evictQ |-> <<>>, marks |-> 0, compactions |-> 0,
             op |-> Call("None", <<>>, 0)]

Init ==
    /\ heap = EmptyHeap
    /\ lru = <<>>
    /\ currentSize = 0
    /\ ps = Clean
    /\ listing = [order |-> <<>>, weight |-> [key \in KeyStrings |-> 0]]
    /\ report = NoReport

\* Get and Compact lock without a sample.
NoSample == [pressure |-> Normal, valid |-> FALSE, recovered |-> FALSE]

\* syncZeroWatermarkLocked, run by lockWithPressure under the lock.
Locked(s, call) ==
    [heap |-> heap, lru |-> lru, currentSize |-> currentSize,
     ps |-> IF s.valid /\ (s.recovered \/ s.pressure < Tier2)
            THEN ClearZeroWatermark(ps) ELSE ps,
     evictQ |-> <<>>, marks |-> 0, compactions |-> 0, op |-> call]

SizeOf(c, n) == c.heap.node[n].size
KeyOf(c, n) == ReconstructKey(c.heap.node, n)

\* iterateAll; a key that is not cached weighs nothing.
All(c) ==
    LET keys == [i \in 1..Len(c.lru) |-> KeyOf(c, c.lru[i])]
        Weigh(w, i) == [w EXCEPT ![keys[i]] = SizeOf(c, c.lru[i])]
    IN  [order |-> keys,
         weight |-> FoldLeftDomain(Weigh, [key \in KeyStrings |-> 0], c.lru)]

Unlock(c) ==
    /\ heap' = c.heap
    /\ lru' = c.lru
    /\ listing' = All(c)
    /\ currentSize' = c.currentSize
    /\ ps' = c.ps
    /\ report' = [evictQ |-> c.evictQ, marks |-> c.marks,
                  compactions |-> c.compactions, op |-> c.op]

IsDirty(c) == c.ps.deletedSinceCompact > 0
Mark(c, marked) == IF marked THEN [c EXCEPT !.marks = @ + 1] ELSE c
MarkOnce(c, marked) == Mark(c, marked /\ c.marks = 0)
CountCompaction(c, counted) ==
    IF counted THEN [c EXCEPT !.compactions = @ + 1] ELSE c
Notify(c, key, reason) ==
    [c EXCEPT !.evictQ = Append(@, [key |-> key, reason |-> reason])]
MoveToFront(l, n) == <<n>> \o Remove(l, n)

-----------------------------------------------------------------------------
(* Erasing entries                                                         *)

\* The node stops being an entry; the trie keeps its shape.
DropValue(c, n) ==
    [c EXCEPT !.ps = OnEntryDeleted(@, SizeOf(c, n)),
              !.currentSize = @ - SizeOf(c, n),
              !.lru = Remove(@, n),
              !.heap.node[n].hasValue = FALSE,
              !.heap.node[n].size = 0]

\* Mutant of EraseInternal: the key is read after the path is compressed.
EraseInternalLateKey(c, n, reason) ==
    LET d == DropValue(c, n)
        e == [d EXCEPT !.heap = CompressPathUpwards(@, n)]
    IN  Notify(e, IF e.heap.node[n].parent = NoNode THEN <<>> ELSE KeyOf(e, n),
               reason)

EraseInternal(c, n, reason) ==
    LET d == DropValue(c, n)
    IN  Notify([d EXCEPT !.heap = CompressPathUpwards(@, n)], KeyOf(c, n), reason)

\* Mutant of EvictOne: it takes the head of the list.
EvictOneHead(c) == EraseInternal(c, Head(c.lru), "Capacity")

EvictOne(c) == EraseInternal(c, Last(c.lru), "Capacity")

\* sweepAndUnlink of the subtree at n, whose parent pointer still leads up.
SweepAndUnlink(c, n) ==
    LET nodes == Preorder(c.heap.node, n)
        Visit(d, m) == IF d.heap.node[m].hasValue
                       THEN Notify(DropValue(d, m), KeyOf(c, m), "Deleted")
                       ELSE d
        swept == FoldLeft(Visit, c, nodes)
    IN  [swept EXCEPT !.heap.node =
            [m \in Nodes |-> IF Contains(nodes, m) THEN Blank ELSE @[m]]]

-----------------------------------------------------------------------------
(* Reclamation under pressure                                              *)

CompactDataStructures(c) == [c EXCEPT !.ps = OnCompacted(@, Len(c.lru))]

AutoCompacts(c, isBackground) ==
    ShouldAutoCompactEntryCounts(c.ps, IsDirty(c), isBackground, Len(c.lru))

CompleteShed(c, shed, unadjusted, t, isBackground) ==
    IF shed /\ c.lru = <<>>
    THEN Mark(CountCompaction([c EXCEPT !.ps = Clean],
                ShouldAutoCompactEntryCounts(c.ps, TRUE, isBackground, 0)), TRUE)
    ELSE LET d == IF shed
                  THEN [c EXCEPT !.ps = UpdateZeroWatermarkAfterShed(
                                            @, Len(c.lru), unadjusted, t)]
                  ELSE c
         IN  Mark(IF AutoCompacts(d, isBackground)
                  THEN CompactDataStructures(d) ELSE d, shed)

\* shedAndCompactLocked walks from the tail; protected is NoNode for none.
ShedAndCompact(c, protected, isBackground) ==
    LET guarded == protected # NoNode
        t == ComputeShedTargets(c.ps, Len(c.lru), guarded,
                                IF guarded THEN SizeOf(c, protected) ELSE 0)
        NeedByte(d) == NeedByteShed(d.currentSize, t)
        Continue(r) == /\ r.at > 0
                       /\ \/ NeedByte(r.c)
                          \/ NeedZeroShed(r.c.ps, Len(r.c.lru), t)
        Step(r) == LET victim == r.c.lru[r.at]
                   IN  [at |-> r.at - 1,
                        c |-> IF ShouldEvictShedVictim(
                                   r.c.ps, victim = protected,
                                   SizeOf(r.c, victim), NeedByte(r.c), t)
                              THEN EraseInternal(r.c, victim, "Pressure")
                              ELSE r.c]
        end == Loop([c |-> c, at |-> Len(c.lru)], Continue, Step, Len(c.lru)).c
    IN  CompleteShed(end, Len(end.lru) < Len(c.lru),
                     ~guarded \/ t.effective <= TargetSize, t, isBackground)

MaybeReclaimUnderPressure(c, s, protected, isBackground) ==
    IF s.pressure >= Tier2 THEN ShedAndCompact(c, protected, isBackground)
    ELSE LET d == [c EXCEPT !.ps = ResetZeroWatermarkBelowTier2(
                                        @, s.pressure, s.valid)]
         IN  IF s.pressure >= Tier1 /\ AutoCompacts(d, isBackground)
             THEN CompactDataStructures(d) ELSE d

FinishDeleteReclaim(c, s, sizeBefore, invalidate) ==
    IF c.lru = <<>>
    THEN LET slack == HasEmptyDeleteSlack(c.ps)
         IN  MarkOnce(CountCompaction([c EXCEPT !.ps = Clean], slack),
                      (slack \/ sizeBefore > 0) /\ invalidate)
    ELSE LET single == ShouldReclaimSingleSurvivorOnDelete(
                           c.ps, Len(c.lru), IsDirty(c))
             d == IF single THEN CompactDataStructures(c) ELSE c
             e == MaybeReclaimUnderPressure(d, s, NoNode, FALSE)
         IN  MarkOnce(e, (single \/ e.currentSize < sizeBefore) /\ invalidate)

FinishMutationReclaim(c, s, protected, reclaimedPre, sizeBefore, invalidate) ==
    IF ~NeedsMutationReclaim(reclaimedPre, c.currentSize, sizeBefore, s.pressure)
    THEN c
    ELSE LET d == MaybeReclaimUnderPressure(c, s, protected, FALSE)
             reduced == d.currentSize < sizeBefore
             e == IF ShouldCompactAfterMutation(d.ps, reclaimedPre, reduced,
                                                IsDirty(d), s.pressure)
                  THEN CompactDataStructures(d) ELSE d
         IN  MarkOnce(e, (reclaimedPre \/ reduced) /\ invalidate)

SingleSurvivor(c, evictedAny, post, sizeBefore, elevated) ==
    ShouldReclaimSingleSurvivorOnMutation(
        c.ps, Len(c.lru), IsDirty(c), evictedAny, post, sizeBefore, elevated)

-----------------------------------------------------------------------------
(* Put                                                                     *)

\* updateExistingOnPutLocked: the updated entry is at the head meanwhile.
UpdateExistingOnPut(c, n, w, s, elevated, invalidate) ==
    LET old == SizeOf(c, n)
        hadZeroCap == ShouldEvictOnZeroWeightShrink(c.ps, old, w)
        start == [c EXCEPT !.ps = OnEntrySizeUpdated(@, old, w),
                           !.lru = MoveToFront(@, n),
                           !.currentSize = @ - old]
        Continue(r) == /\ \/ w > MaxSize - r.currentSize
                          \/ hadZeroCap /\ Len(r.lru) = Len(start.lru)
                       /\ Last(r.lru) # n
        d == Loop(start, Continue, EvictOne, Len(c.lru))
        e == Notify([d EXCEPT !.heap.node[n].size = w, !.currentSize = @ + w],
                    KeyOf(d, n), "Replaced")
    IN  FinishMutationReclaim(e, s, n,
            SingleSurvivor(e, Len(d.lru) < Len(c.lru), e.currentSize,
                           c.currentSize, elevated),
            c.currentSize, invalidate)

\* A new key: room is made first, and the nodes that frees may be reused.
InsertOnPut(c, key, w, s, elevated, invalidate) ==
    LET Evicted(r) == Len(r.lru) < Len(c.lru)
        Continue(r) ==
            /\ ShouldEvictPreInsertOnPut(r.ps, w, r.currentSize, Len(r.lru),
                                         Evicted(r))
            /\ r.lru # <<>>
        d == [Loop([c EXCEPT !.heap.recycling = TRUE], Continue, EvictOne,
                   Len(c.lru)) EXCEPT !.heap.recycling = FALSE]
        emptied == ShouldReclaimEmptyPrePut(
                       d.ps, Len(d.lru), Evicted(d), w, c.currentSize, elevated)
        survivor == SingleSurvivor(d, Evicted(d), d.currentSize + w,
                                   c.currentSize, elevated)
        e == CountCompaction(
                 IF emptied THEN [d EXCEPT !.ps = Clean] ELSE d, emptied)
        h == InsertNode(e.heap, key)
        n == GetNode(h.node, key)
        unused == ToSet(h.recycle)
        f == [e EXCEPT
                !.heap = [node |-> [m \in Nodes |->
                                      IF m \in unused THEN Blank
                                      ELSE IF m = n
                                      THEN [h.node[n] EXCEPT !.size = w]
                                      ELSE h.node[m]],
                          recycle |-> <<>>, recycling |-> FALSE],
                !.lru = <<n>> \o @,
                !.ps = OnEntryPut(@, Len(d.lru) + 1, w),
                !.currentSize = @ + w]
    IN  FinishMutationReclaim(f, s, n, emptied \/ survivor, c.currentSize,
                              invalidate)

\* A weight above maxSize is refused before the lock: no step.
Put(key, w, s, elevated, invalidate) ==
    LET c == Locked(s, Call("Put", key, w))
        n == GetNode(heap.node, key)
    IN  /\ w <= MaxSize
        /\ Unlock(IF n # NoNode
                  THEN UpdateExistingOnPut(c, n, w, s, elevated, invalidate)
                  ELSE InsertOnPut(c, key, w, s, elevated, invalidate))

-----------------------------------------------------------------------------
(* Replace                                                                 *)

\* canFitGrowthLocked: unless there is room already, a scan from both ends; the
\* head side must reach n before its weight exceeds what the new weight leaves,
\* or the tail side free enough before it reaches n.
CanFitGrowth(c, n, w) ==
    LET delta == w - SizeOf(c, n)
        Open(r) == r.fits = "open"
        Round(r) ==
            LET head  == c.lru[r.i]
                tail  == c.lru[Len(c.lru) + 1 - r.i]
                newer == r.newer + SizeOf(c, head)
                avail == r.avail + SizeOf(c, tail)
            IN  [i |-> r.i + 1, newer |-> newer, avail |-> avail,
                 fits |-> IF head = n THEN "yes"
                          ELSE IF newer > MaxSize - w \/ tail = n THEN "no"
                          ELSE IF delta <= avail THEN "yes" ELSE "open"]
        avail0 == MaxSize - c.currentSize
    IN  Loop([i |-> 1, newer |-> 0, avail |-> avail0,
              fits |-> IF delta <= avail0 THEN "yes" ELSE "open"],
             Open, Round, Len(c.lru)).fits = "yes"

\* replaceResizeOrEvictLocked without the self-eviction.
Resize(c, n, w) ==
    LET old == SizeOf(c, n)
        Continue(r) == /\ w > old
                       /\ w - old > MaxSize - r.currentSize
                       /\ Last(r.lru) # n
        d == IF /\ w # old
                /\ ShouldEvictOnZeroWeightShrink(c.ps, old, w)
                /\ Last(c.lru) # n
             THEN EvictOne(c)
             ELSE Loop(c, Continue, EvictOne, Len(c.lru))
    IN  [d EXCEPT !.ps = OnEntrySizeUpdated(@, old, w),
                  !.currentSize = @ + w - old,
                  !.heap.node[n].size = w]

SelfEvicts(c, n, w) ==
    w > SizeOf(c, n) /\ (w > MaxSize \/ ~CanFitGrowth(c, n, w))

Replace(key, w, s, elevated, invalidate) ==
    LET c == Locked(s, Call("Replace", key, w))
        n == GetNode(heap.node, key)
        d == Resize(c, n, w)
        e == Notify(d, KeyOf(d, n), "Replaced")
    IN  Unlock(
          IF n = NoNode THEN c
          ELSE IF SelfEvicts(c, n, w)
          THEN FinishDeleteReclaim(EraseInternal(c, n, "Capacity"), s,
                                   currentSize, invalidate)
          ELSE FinishMutationReclaim(e, s, n,
                   SingleSurvivor(e, Len(d.lru) < Len(c.lru), e.currentSize,
                                  currentSize, elevated),
                   currentSize, invalidate))

-----------------------------------------------------------------------------
(* Get, Delete, DeletePrefix, Compact, EvaluateMemoryPressure              *)

Get(key) ==
    LET c == Locked(NoSample, Call("Get", key, 0))
        n == GetNode(heap.node, key)
    IN  Unlock(IF n = NoNode THEN c ELSE [c EXCEPT !.lru = MoveToFront(@, n)])

Delete(key, s, invalidate) ==
    LET c == Locked(s, Call("Delete", key, 0))
        n == GetNode(heap.node, key)
    IN  Unlock(IF n = NoNode THEN c
               ELSE FinishDeleteReclaim(EraseInternal(c, n, "Deleted"), s,
                                        currentSize, invalidate))

\* deleteNonEmptyPrefixLocked.  The cut subtree keeps its way up while swept.
DeletePrefix(prefix, s, invalidate) ==
    LET c   == Locked(s, Call("DeletePrefix", prefix, 0))
        cut == PrefixRoot(heap.node, prefix)
        up  == heap.node[cut].parent
        d   == SweepAndUnlink([c EXCEPT !.heap.node =
                   [RemoveChild(@, up, cut) EXCEPT ![cut].parent = up]], cut)
    IN  Unlock(IF cut = NoNode THEN c
               ELSE FinishDeleteReclaim(
                      [d EXCEPT !.heap = CompressPathUpwards(@, up)], s,
                      currentSize, invalidate))

\* isCleanEmptyLocked
CleanEmpty ==
    /\ lru = <<>> /\ heap.node[Root].child = <<>>
    /\ ~(ps.deletedSinceCompact > 0) /\ ps.peakEntryLen = 0

\* deleteAllPrefixLocked: DeletePrefix("") notifies from head to tail.
DeleteAll(s, invalidate) ==
    LET c == Locked(s, Call("DeletePrefix", <<>>, 0))
        hadReclaimable == \/ currentSize > 0 \/ ps.deletedSinceCompact > 0
                          \/ ps.peakEntryLen > MinPeakSlackEntries
        Visit(d, n) == Notify(DropValue(d, n), KeyOf(d, n), "Deleted")
        d == SweepAndUnlink(FoldLeft(Visit, c, lru), Root)
        slack == HasEmptyDeleteSlack(d.ps)
    IN  /\ ~CleanEmpty
        /\ Unlock(MarkOnce(CountCompaction([d EXCEPT !.ps = Clean], slack),
                           (slack \/ hadReclaimable) /\ invalidate))

Compact ==
    Unlock(CompactDataStructures(Locked(NoSample, Call("Compact", <<>>, 0))))

EvaluateMemoryPressure(s) ==
    Unlock(MaybeReclaimUnderPressure(Locked(s, Call("Evaluate", <<>>, 0)), s,
                                     NoNode, TRUE))

-----------------------------------------------------------------------------
Next ==
    \/ \E key \in KeyStrings : Get(key)
    \/ Compact
    \/ \E s \in Samples : EvaluateMemoryPressure(s)
    \/ \E s \in Samples : \E invalidate \in Elevated(s.pressure) :
         \/ DeleteAll(s, invalidate)
         \/ \E key \in KeyStrings : Delete(key, s, invalidate)
         \/ \E prefix \in PrefixArgs : DeletePrefix(prefix, s, invalidate)
         \/ \E key \in KeyStrings, w \in Weights :
              \E elevated \in Elevated(s.pressure) :
                 \/ Put(key, w, s, elevated, invalidate)
                 \/ Replace(key, w, s, elevated, invalidate)

Spec == Init /\ [][Next]_vars

-----------------------------------------------------------------------------
(* Properties                                                              *)

Reachable == ToSet(Preorder(heap.node, Root))

\* Invariant 5 of checkInvariants: parents and children agree, siblings ascend
\* strictly by first byte, and a routing node other than the root has at least
\* two children, after any mix of splits, merges and subtree cuts.
TrieWellFormed ==
    LET t == heap.node
    IN  \A n \in Reachable :
          LET kids == t[n].child
          IN  /\ \A i \in 1..Len(kids) :
                   /\ t[kids[i]].parent = n
                   /\ t[kids[i]].prefix # <<>>
                   /\ i > 1 => FirstByte(t, kids[i - 1]) < FirstByte(t, kids[i])
              /\ n # Root /\ ~t[n].hasValue => Len(kids) >= 2

Entries == {n \in Reachable : heap.node[n].hasValue}

\* Invariants 3 and 5: the list links exactly the value-bearing nodes of the
\* trie, each once, the key an entry reconstructs finds that entry and no other
\* key is found at all, and currentSize and zeroSizeCount are those of the trie.
EntriesAgree ==
    /\ ToSet(lru) = Entries
    /\ Len(lru) = Cardinality(Entries)
    /\ \A n \in Entries :
         GetNode(heap.node, ReconstructKey(heap.node, n)) = n
    /\ \A key \in KeyStrings :
         GetNode(heap.node, key) # NoNode =>
            ReconstructKey(heap.node, GetNode(heap.node, key)) = key
    /\ currentSize = MapThenSumSet(LAMBDA n : heap.node[n].size, Entries)
    /\ ps.zeroSizeCount = Cardinality({n \in Entries : heap.node[n].size = 0})

Listed(l) == ToSet(l.order)

\* The callbacks are told the keys that really left, each once, although erasing
\* an entry rewrites the prefixes its key is read from.
DeparturesNamed ==
    [][LET gone == SelectSeq(report'.evictQ, LAMBDA e : e.reason # "Replaced")
           keys == {gone[i].key : i \in 1..Len(gone)}
       IN  /\ keys = Listed(listing) \ Listed(listing')
           /\ Len(gone) = Cardinality(keys)]_vars

\* Whatever shape the trie had before, the call did what it is for: the written
\* entry is cached with its weight (a Replace may have evicted its own instead),
\* a read one is the most recent, nothing deleted can still be listed.
CallsTakeEffect ==
    [][LET call == report'.op
           newest == Head(listing'.order)
           cached == listing'.weight[call.key] = call.size
       IN  /\ call.kind = "Put" => newest = call.key /\ cached
           /\ call.kind = "Get" /\ call.key \in Listed(listing) =>
                 newest = call.key
           /\ call.kind = "Replace" /\ call.key \in Listed(listing') => cached
           /\ call.kind = "Delete" => call.key \notin Listed(listing')
           /\ call.kind = "DeletePrefix" =>
                 \A key \in Listed(listing') : ~IsPrefix(call.key, key)]_vars

Promise == INSTANCE LRUCache WITH
    Key <- KeyStrings, Capacity <- MaxSize, Weight <- Weights,
    Regions <- {{key \in KeyStrings : IsPrefix(p, key)} :
                    p \in PrefixArgs \cup {<<>>}},
    order <- listing.order, weight <- listing.weight

\* The trie backend keeps the promise of LRUCache: reading its keys off the tree
\* in list order gives a bounded cache that evicts the oldest of each class.
ImplementsLRU == Promise!Spec
=============================================================================
