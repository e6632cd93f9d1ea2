---------------------------- MODULE PrefixArena ----------------------------
(***************************************************************************)
(* The byte arena of the arena backend (arena_radix.go): every node's edge *)
(* prefix is a span of one shared slice, prefixArena.  Released spans are  *)
(* trimmed off its end or kept in a short table for reuse, splits and      *)
(* merges of edges work in place where they can, and some spans must not   *)
(* be written any more because a caller holds a string backed by them.     *)
(*                                                                         *)
(* Every operation runs under c.mu and is one step; handlers are functions *)
(* of the record c of the variables.  A node is named by the key its path  *)
(* spells, so its parent is its longest proper prefix among the nodes; the *)
(* links between nodes are RadixTrie's subject.  The 4-byte length header  *)
(* of a large prefix is one cell.  firstByte, a copy of a span's first     *)
(* byte, and the 4 GiB limit of the arena are left out.  Which entries the *)
(* LRU list and the pressure policy evict, and whether a compaction is     *)
(* due, is left open.                                                      *)
(***************************************************************************)
EXTENDS Integers, SequencesExt

CONSTANTS
    KeyStrings,     \* the keys, non-empty sequences of bytes
    PrefixArgs,     \* the non-empty arguments of DeletePrefix
    LargePrefix,    \* largePrefixSentinel (65535)
    CopyLimit,      \* the size of the stack buffers for keys (512)
    MinArena,       \* the least capacity of a grown arena (64)
    MaxSpans,       \* the size of the table freePrefixSpans (32)
    MaxEntries,     \* the capacity of the cache in entries
    MaxVictims,     \* bound on the evictions of one round
    MaxHeld,        \* bound on the strings callers hold at a time
    MaxBytes        \* bound on the length of the arena between operations

ASSUME ArenaAssumption ==
    /\ IsFiniteSet(KeyStrings)
    /\ KeyStrings \subseteq Seq(Nat) \ {<<>>}
    /\ PrefixArgs \subseteq Seq(Nat) \ {<<>>}
    /\ {LargePrefix, CopyLimit, MinArena, MaxSpans, MaxEntries} \subseteq Nat \ {0}
    /\ CopyLimit < LargePrefix
    /\ MaxVictims \in Nat /\ MaxHeld \in Nat

VARIABLES
    callback,       \* onEvictEntry # nil, settled at construction
    entries,        \* the nodes that bear a value
    span,           \* node to where its prefix is
    bytes,          \* prefixArena; offset o is bytes[o + 1]
    cap,            \* its capacity
    live,           \* livePrefixBytes
    free,           \* freePrefixSpans[:freePrefixCount]
    exposed,        \* prefixExposed
    handed          \* the strings callers hold that are backed by this array

vars == <<callback, entries, span, bytes, cap, live, free, exposed, handed>>

NoSpan == [off |-> 0, len |-> 0]

Init ==
    /\ callback \in BOOLEAN
    /\ entries = {} /\ span = <<>>
    /\ bytes = <<>> /\ cap = 0 /\ live = 0 /\ free = <<>>
    /\ exposed = FALSE /\ handed = {}

\* Under the lock; putPrefixSpan and recyclingForPut serve one Put.
Locked ==
    [callback |-> callback, entries |-> entries, span |-> span, bytes |-> bytes,
     cap |-> cap, live |-> live, free |-> free, exposed |-> exposed,
     handed |-> handed, put |-> NoSpan, recycling |-> FALSE]

\* Callers may let go of strings they hold.
Unlock(c) ==
    /\ Len(c.bytes) <= MaxBytes
    /\ entries' = c.entries /\ span' = c.span
    /\ bytes' = c.bytes /\ cap' = c.cap /\ live' = c.live /\ free' = c.free
    /\ exposed' = c.exposed
    /\ handed' \in UNION {kSubset(i, c.handed) : i \in 0..MaxHeld}
    /\ UNCHANGED callback

-----------------------------------------------------------------------------
(* Nodes and their bytes                                                   *)

Nodes(c) == DOMAIN c.span
Longest(S) == CHOOSE p \in S : \A q \in S : Len(q) <= Len(p)
Parent(c, p) == Longest({q \in Nodes(c) \cup {<<>>} : IsStrictPrefix(q, p)})
Children(c, p) == {q \in Nodes(c) : Parent(c, q) = p}
IsDepth1(c, p) == Parent(c, p) = <<>>

IsLarge(r) == r.plen = LargePrefix

\* nodePrefixLen and nodePrefix: a large prefix has its length before it.
PrefixLen(c, r) == IF IsLarge(r) THEN c.bytes[r.off] ELSE r.plen
Slice(c, off, n) == SubSeq(c.bytes, off + 1, off + n)
NodePrefix(c, p) == Slice(c, c.span[p].off, PrefixLen(c, c.span[p]))

\* What a prefix occupies, header included.
RawLen(n) == IF n >= LargePrefix THEN n + 1 ELSE n
Laid(s) == IF Len(s) >= LargePrefix THEN <<Len(s)>> \o s ELSE s
RawSpan(c, r) ==
    LET header == IF IsLarge(r) THEN 1 ELSE 0
    IN  [off |-> r.off - header, len |-> PrefixLen(c, r) + header]

End(sp) == sp.off + sp.len
Truncate(c, n) == [c EXCEPT !.bytes = SubSeq(@, 1, n)]
Overwrite(b, off, s) ==
    [i \in 1..Max({Len(b), off + Len(s)}) |->
        IF off < i /\ i <= off + Len(s) THEN s[i - off] ELSE b[i]]

-----------------------------------------------------------------------------
(* Free spans                                                              *)

\* removeFreePrefixSpanAtLocked
RemoveSpanAt(spans, i) == Front([spans EXCEPT ![i] = Last(spans)])

TrimPut(c) ==
    IF c.put.len > 0 /\ End(c.put) = Len(c.bytes)
    THEN [Truncate(c, c.put.off) EXCEPT !.put = NoSpan] ELSE c

TrimFree(c) ==
    LET last == {i \in 1..Len(c.free) : End(c.free[i]) = Len(c.bytes)}
    IN  IF last = {} THEN c
        ELSE [Truncate(c, c.free[Min(last)].off) EXCEPT
                !.free = RemoveSpanAt(@, Min(last))]

\* trimFreePrefixSpansAtTailLocked: a second pass if the first uncovers the span
\* kept for the Put.
TrimTail(c) ==
    LET d == TrimFree(TrimPut(c))
    IN  IF d.free # c.free /\ d.put.len > 0 /\ End(d.put) = Len(d.bytes)
        THEN TrimFree(TrimPut(d)) ELSE d

Joined(a, b) == [off |-> Min({a.off, b.off}), len |-> a.len + b.len]
Touching(a, b) == End(a) = b.off \/ End(b) = a.off

\* Mutant of MergeAdjacent: the neighbour stays in the table.
MergeAdjacentKept(spans, i) ==
    LET next == {j \in (i + 1)..Len(spans) : Touching(spans[i], spans[j])}
    IN  IF next = {} THEN spans
        ELSE [spans EXCEPT ![i] = Joined(@, spans[Min(next)])]

\* mergeAdjacentFreeSpanLocked
MergeAdjacent(spans, i) ==
    LET next == {j \in (i + 1)..Len(spans) : Touching(spans[i], spans[j])}
    IN  IF next = {} THEN spans
        ELSE RemoveSpanAt([spans EXCEPT ![i] = Joined(@, spans[Min(next)])],
                          Min(next))

\* recordFreePrefixSpanLocked: join a neighbour, take a place in the table, or
\* replace the smallest span (the first of them) when the table is full.
RecordFree(spans, sp) ==
    LET near == {i \in 1..Len(spans) : Touching(spans[i], sp)}
        least == CHOOSE i \in 1..Len(spans) :
                    \A j \in 1..Len(spans) : \/ spans[i].len < spans[j].len
                                             \/ spans[i].len = spans[j].len /\ i <= j
    IN  IF near # {}
        THEN MergeAdjacent([spans EXCEPT ![Min(near)] = Joined(@, sp)], Min(near))
        ELSE IF Len(spans) < MaxSpans THEN Append(spans, sp)
        ELSE IF sp.len > spans[least].len THEN [spans EXCEPT ![least] = sp]
        ELSE spans

Record(c, sp) == [c EXCEPT !.free = RecordFree(@, sp)]

\* Mutant of Carved: the span is cut short instead.
CarvedShort(sp, n) == [off |-> sp.off, len |-> sp.len - n]

\* Carve n bytes off the front of a span.
Carved(sp, n) == [off |-> sp.off + n, len |-> sp.len - n]

\* tryTakeFreePrefixPayloadSpanLocked and takeFreePrefixSpanLocked: n bytes from
\* the span kept for the Put, else from the tightest free span, the last of those;
\* off is -1 if none is large enough.
TakeFree(c, n) ==
    LET fit  == {i \in 1..Len(c.free) : c.free[i].len >= n}
        best == CHOOSE i \in fit :
                  \A j \in fit : \/ c.free[i].len < c.free[j].len
                                 \/ c.free[i].len = c.free[j].len /\ i >= j
    IN  IF c.put.len >= n
        THEN [off |-> c.put.off,
              c |-> [c EXCEPT !.put = IF @.len = n THEN NoSpan ELSE Carved(@, n)]]
        ELSE IF fit = {} THEN [off |-> -1, c |-> c]
        ELSE [off |-> c.free[best].off,
              c |-> [c EXCEPT !.free = IF @[best].len = n THEN RemoveSpanAt(@, best)
                                       ELSE [@ EXCEPT ![best] = Carved(@, n)]]]

\* The reuse of a released span while a Put makes room for its key.
ReleaseForPut(c, sp) ==
    IF c.put.len > 0 /\ Touching(c.put, sp)
    THEN [c EXCEPT !.put = Joined(@, sp)]
    ELSE IF sp.len > c.put.len
    THEN [(IF c.put.len > 0 THEN Record(c, c.put) ELSE c) EXCEPT !.put = sp]
    ELSE Record(c, sp)

\* Mutant of Reusable: an exposed arena protects its spans, a pin does not.
ReusableIfPinned(c, pinned) == ~c.exposed

\* Nobody outside holds a string backed by the span.
Reusable(c, pinned) == ~pinned /\ ~c.exposed

\* releasePrefixSpanLocked
Release(c, sp, pinned) ==
    LET d == [c EXCEPT !.live = @ - sp.len]
    IN  IF ~Reusable(c, pinned) THEN d
        ELSE IF End(sp) = Len(c.bytes) THEN TrimTail(Truncate(d, sp.off))
        ELSE IF c.recycling THEN ReleaseForPut(d, sp)
        ELSE Record(d, sp)

\* finishPutPrefixRecycleLocked
FinishPut(c) ==
    [(IF c.put.len > 0 THEN Record(c, c.put) ELSE c) EXCEPT
        !.put = NoSpan, !.recycling = FALSE]

-----------------------------------------------------------------------------
(* The array                                                               *)

\* A new backing array: the old one stays with whoever holds a string of it.
NewArray(c, contents, n) ==
    [c EXCEPT !.bytes = contents, !.cap = n, !.exposed = FALSE, !.handed = {}]

\* The order of node ids, which rebuilding follows, is taken to be that of keys.
KeyLess(p, q) ==
    \/ IsStrictPrefix(p, q)
    \/ \E i \in 1..Min({Len(p), Len(q)}) :
         /\ SubSeq(p, 1, i - 1) = SubSeq(q, 1, i - 1) /\ p[i] < q[i]

\* Where prefix s of node p is after it was laid at raw offset at.
PlacedAt(s, at) ==
    [off |-> at + Len(Laid(s)) - Len(s), plen |-> Min({Len(s), LargePrefix}),
     pinned |-> FALSE]

\* rebuildPrefixArenaWithCapLocked
Rebuild(c, n) ==
    LET Copy(d, p) ==
            LET s == NodePrefix(c, p)
            IN  [d EXCEPT !.bytes = @ \o Laid(s),
                          !.span[p] = PlacedAt(s, Len(d.bytes)),
                          !.live = @ + Len(Laid(s))]
    IN  FoldLeft(Copy, [NewArray(c, <<>>, n) EXCEPT
                          !.live = 0, !.free = <<>>, !.put = NoSpan],
                 SetToSortSeq(Nodes(c), KeyLess))

\* ensurePrefixArenaCap, compactPrefixArenaLocked, growPrefixArenaNoCompactLocked
EnsureCap(c, n) ==
    LET len == Len(c.bytes)
    IN  IF len + n <= c.cap THEN c
        ELSE IF c.live < len /\ (c.exposed \/ 2 * c.live <= len)
        THEN Rebuild(c, Max({2 * (c.live + n), MinArena}))
        ELSE NewArray(c, c.bytes, Max({2 * c.cap, len + n, MinArena}))

\* compactPrefixArenaExactLocked
CompactExact(c) ==
    IF c.live = 0
    THEN [NewArray(c, <<>>, 0) EXCEPT !.free = <<>>, !.put = NoSpan]
    ELSE IF Len(c.bytes) = c.live /\ c.cap = c.live /\ ~c.exposed THEN c
    ELSE Rebuild(c, c.live)

\* clearEmptyArenaStateLocked: a small array nobody holds a string of is kept.
ClearEmpty(c) ==
    LET d == [c EXCEPT !.entries = {}, !.span = <<>>, !.live = 0, !.free = <<>>,
                       !.put = NoSpan, !.recycling = FALSE]
        kept == ~c.exposed /\ (~c.callback \/ Len(c.bytes) = 0)
    IN  {NewArray(d, <<>>, 0)} \cup IF kept THEN {Truncate(d, 0)} ELSE {}

-----------------------------------------------------------------------------
(* Storing, splitting and merging prefixes                                 *)

Place(c, p, s, at) ==
    [c EXCEPT !.bytes = Overwrite(@, at, Laid(s)),
              !.span = [q \in Nodes(c) \cup {p} |->
                            IF q = p THEN PlacedAt(s, at) ELSE @[q]],
              !.live = @ + Len(Laid(s))]

\* setNodePrefixFromArenaSliceLocked: room at the end was seen to before.
StoreNoGrow(c, p, s) ==
    LET taken == TakeFree(c, Len(Laid(s)))
    IN  Place(taken.c, p, s, IF taken.off >= 0 THEN taken.off ELSE Len(c.bytes))

\* setNodePrefix and setLargeNodePrefix
SetNodePrefix(c, p, s) ==
    IF TakeFree(c, Len(Laid(s))).off >= 0 THEN StoreNoGrow(c, p, s)
    ELSE StoreNoGrow(EnsureCap(c, Len(Laid(s))), p, s)

WithoutNode(c, p) == [c EXCEPT !.span = [q \in Nodes(c) \ {p} |-> @[q]]]

\* clearNodePrefix, and the part of freeNode seen here.
FreeNode(c, p) ==
    Release(WithoutNode(c, p), RawSpan(c, c.span[p]), c.span[p].pinned)

\* The halves share the bytes of the whole, and its pin.
SplitInPlace(c, child, split) ==
    LET r   == c.span[child]
        lcp == Len(split) - (Len(child) - PrefixLen(c, r))
    IN  [c EXCEPT !.span =
            [q \in Nodes(c) \cup {split} |->
                IF q = split
                THEN [off |-> r.off, plen |-> Min({lcp, LargePrefix}),
                      pinned |-> r.pinned]
                ELSE IF q = child
                THEN [off |-> r.off + lcp, plen |-> PrefixLen(c, r) - lcp,
                      pinned |-> r.pinned]
                ELSE @[q]]]

\* splitNodePrefixLocked: node split takes the start of child's prefix.
SplitPrefix(c, child, split) ==
    LET r    == c.span[child]
        len  == PrefixLen(c, r)
        lcp  == Len(split) - (Len(child) - len)
        rem  == len - lcp
        usable == Reusable(c, r.pinned)
        header == [off |-> r.off - 1, len |-> 1]
        dropped == [c EXCEPT !.live = @ - 1]
        room == EnsureCap(c, RawLen(lcp) + RawLen(rem))
        at   == room.span[child].off
        half == StoreNoGrow(WithoutNode(room, child), split, Slice(room, at, lcp))
        both == StoreNoGrow(half, child, Slice(half, at + lcp, rem))
    IN  IF lcp < LargePrefix /\ rem < LargePrefix
        THEN SplitInPlace(IF ~IsLarge(r) THEN c
                          ELSE IF usable THEN Record(dropped, header)
                          ELSE dropped, child, split)
        ELSE IF IsLarge(r) /\ lcp >= LargePrefix /\ rem < LargePrefix /\ usable
        THEN [SplitInPlace(c, child, split) EXCEPT !.bytes[r.off] = lcp]
        ELSE Release(both, RawSpan(room, room.span[child]), room.span[child].pinned)

\* mergeNodePrefixesLocked and copyMergedPrefixBytesLocked: child, the only one of
\* curr, which goes, takes curr's prefix before its own.
MergePrefixes(c, curr, child) ==
    LET a == c.span[curr]
        b == c.span[child]
        len1  == PrefixLen(c, a)
        len2  == PrefixLen(c, b)
        total == len1 + len2
        small == ~IsLarge(a) /\ ~IsLarge(b)
        contiguous == a.off + len1 = b.off
        InPlace(plen, pinned) ==
            [WithoutNode(c, curr) EXCEPT
                !.span[child] = [off |-> a.off, plen |-> plen, pinned |-> pinned]]
        taken == TakeFree(c, RawLen(total))
        room  == IF taken.off >= 0 THEN taken.c ELSE EnsureCap(c, RawLen(total))
        a2 == room.span[curr]
        b2 == room.span[child]
        both == Place(room, child, Slice(room, a2.off, len1) \o Slice(room, b2.off, len2),
                      IF taken.off >= 0 THEN taken.off ELSE Len(room.bytes))
    IN  IF small /\ total < LargePrefix /\ contiguous
        THEN InPlace(total, a.pinned \/ b.pinned)
        ELSE IF small /\ total <= CopyLimit
        THEN SetNodePrefix(FreeNode(FreeNode(c, child), curr), child,
                           NodePrefix(c, curr) \o NodePrefix(c, child))
        ELSE IF IsLarge(a) /\ ~IsLarge(b) /\ contiguous /\ Reusable(c, a.pinned)
        THEN [InPlace(LargePrefix, b.pinned) EXCEPT !.bytes[a.off] = total]
        ELSE Release(Release(WithoutNode(both, curr), RawSpan(room, b2), b2.pinned),
                     RawSpan(room, a2), a2.pinned)

\* The conditions of tryCollapseSiblingPrefixInPlaceLocked: the dead leaf's span
\* follows its parent's and has room for the prefix of the child that is left.
CanCollapse(c, parent, dead, child) ==
    LET a == c.span[parent]
        d == c.span[dead]
        b == c.span[child]
    IN  /\ ~IsLarge(a) /\ ~IsLarge(d) /\ ~IsLarge(b)
        /\ b.plen <= d.plen
        /\ a.plen + b.plen < LargePrefix
        /\ a.off + a.plen = d.off
        /\ Reusable(c, a.pinned \/ d.pinned)

\* The rest of tryCollapseSiblingPrefixInPlaceLocked; parent and dead go.
Collapse(c, parent, dead, child) ==
    LET a == c.span[parent]
        d == c.span[dead]
        b == c.span[child]
        old   == RawSpan(c, b)
        extra == [off |-> d.off + b.plen, len |-> d.plen - b.plen]
        moved == [WithoutNode(WithoutNode(c, parent), dead) EXCEPT
                    !.bytes = Overwrite(@, d.off, NodePrefix(c, child)),
                    !.span[child] = [off |-> a.off, plen |-> a.plen + b.plen,
                                     pinned |-> FALSE]]
    IN  IF extra.len > 0 /\ ~b.pinned /\ End(extra) = old.off
        THEN Release(moved, Joined(extra, old), FALSE)
        ELSE Release(IF extra.len > 0 THEN Release(moved, extra, FALSE) ELSE moved,
                     old, b.pinned)

IsRouting(c, p) == p # <<>> /\ p \notin c.entries

\* compressPathUpwards from p: a leaf goes, then a routing node with one child
\* left.  The routing node above a leaf had another child.
MergeUp(c, p) ==
    IF IsRouting(c, p) /\ Cardinality(Children(c, p)) = 1
    THEN MergePrefixes(c, p, CHOOSE q \in Children(c, p) : TRUE) ELSE c

CompressUp(c, p) ==
    LET up   == Parent(c, p)
        left == Children(c, up) \ {p}
        only == CHOOSE q \in left : TRUE
    IN  IF ~IsRouting(c, p) \/ Children(c, p) # {} THEN MergeUp(c, p)
        ELSE IF /\ IsRouting(c, up) /\ Cardinality(left) = 1
                /\ CanCollapse(c, up, p, only)
        THEN Collapse(c, up, p, only)
        ELSE MergeUp(FreeNode(c, p), up)

\* insertNode, seen from the arena.
Insert(c, key) ==
    LET at == Longest({q \in Nodes(c) \cup {<<>>} : IsPrefix(q, key)})
        near == {q \in Children(c, at) : q[Len(at) + 1] = key[Len(at) + 1]}
        child == CHOOSE q \in near : TRUE
        split == LongestCommonPrefix({key, child})
        cut == SplitPrefix(c, child, split)
        Leaf(d, above) == SetNodePrefix(d, key, SubSeq(key, Len(above) + 1, Len(key)))
        d == IF at = key THEN c
             ELSE IF near = {} THEN Leaf(c, at)
             ELSE IF split = key THEN cut ELSE Leaf(cut, split)
    IN  [d EXCEPT !.entries = @ \cup {key}]

-----------------------------------------------------------------------------
(* Erasing entries                                                         *)

\* A depth-1 entry's key is its prefix: reconstructKey returns it uncopied.
HandOut(c, p) ==
    [c EXCEPT !.handed =
        @ \cup {[off |-> c.span[p].off, bytes |-> NodePrefix(c, p)]}]

HandOutPinned(c, p) == [HandOut(c, p) EXCEPT !.span[p].pinned = TRUE]

\* finishEraseNodeLocked, for a caller that has the key.
EraseKeyed(c, p) == CompressUp([c EXCEPT !.entries = @ \ {p}], p)

\* eraseInternal
Erase(c, p) ==
    EraseKeyed(IF c.callback /\ IsDepth1(c, p) THEN HandOutPinned(c, p) ELSE c, p)

\* The ways to evict up to MaxVictims of the entries in S, one after the other.
Evicted(c, S) ==
    {FoldLeft(Erase, c, v) :
        v \in UNION {SetToSeqs(V) : V \in UNION {kSubset(i, S) : i \in 0..MaxVictims}}}

\* Evictions that spare the entries in kept, the reset of the empty cache, a
\* compaction: what the finishing functions do as pressure and slack ask for it.
Reclaimed(c, kept) ==
    UNION {IF d.entries = {} THEN ClearEmpty(d) ELSE {d, CompactExact(d)} :
              d \in Evicted(c, c.entries \ kept)}

\* freeSubtreeNodeLocked: a small span is dropped when the table is full.
FreeSubtreeNode(c, p) ==
    LET sp == RawSpan(c, c.span[p])
        d  == [WithoutNode(c, p) EXCEPT !.live = @ - sp.len]
    IN  IF IsLarge(c.span[p]) THEN FreeNode(c, p)
        ELSE IF ~Reusable(c, c.span[p].pinned) THEN d
        ELSE IF End(sp) = Len(c.bytes) THEN TrimTail(Truncate(d, sp.off))
        ELSE IF Len(c.free) < MaxSpans THEN Record(d, sp)
        ELSE d

\* Children before their parents, siblings in order.
Postorder(S) ==
    SetToSortSeq(S, LAMBDA p, q : \/ IsStrictPrefix(q, p)
                                  \/ ~IsPrefix(p, q) /\ KeyLess(p, q))

-----------------------------------------------------------------------------
(* Operations                                                              *)

\* putWithHash of a new key: recyclingForPut is set when room may be needed.
PutInsert(key) ==
    LET c == Locked
        Room(d) == {d} \cup IF d.entries = {} THEN ClearEmpty(d) ELSE {}
        roomy == {c} \cup UNION {Room(d) :
                     d \in Evicted([c EXCEPT !.recycling = TRUE], entries)}
    IN  /\ key \notin entries
        /\ \E d \in roomy :
             LET e == Insert(d, key)
                 f == IF e.recycling THEN FinishPut(e) ELSE e
             IN  /\ Cardinality(d.entries) < MaxEntries
                 /\ \E g \in Reclaimed(f, {key}) : Unlock(g)

\* Put of a cached key, and Replace: other entries may have to go.
Update(key) ==
    /\ key \in entries
    /\ \E d \in Reclaimed(Locked, {key}) : Unlock(d)

\* deleteWithHash, and a Replace that evicts its own entry.
Delete(key) ==
    /\ key \in entries
    /\ \E d \in Reclaimed(EraseKeyed(Locked, key), {}) : Unlock(d)

\* deleteNonEmptyPrefixLocked and freeSubtree: a key that fits the buffer is
\* copied, unless the subtree is a single leaf.
DeletePrefix(prefix) ==
    LET c == Locked
        gone == {q \in Nodes(c) : IsPrefix(prefix, q)}
        cut == CHOOSE q \in gone : \A r \in gone : Len(q) <= Len(r)
        up == Parent(c, cut)
        handsOut == /\ c.callback /\ up = <<>> /\ cut \in entries
                    /\ gone = {cut} \/ Len(cut) > CopyLimit
        d == IF handsOut THEN HandOutPinned(c, cut) ELSE c
        e == FoldLeft(FreeSubtreeNode, [d EXCEPT !.entries = @ \ gone],
                      Postorder(gone))
    IN  /\ gone # {}
        /\ \E f \in Reclaimed(CompressUp(e, up), {}) : Unlock(f)

\* deleteAllPrefixLocked and evictAllForClearLocked
DeleteAll ==
    LET c == Locked
        keys == IF callback THEN {p \in entries : IsDepth1(c, p)} ELSE {}
        d == [FoldLeft(HandOut, c, SetToSeq(keys)) EXCEPT
                !.exposed = @ \/ keys # {}]
    IN  \E e \in ClearEmpty(d) : Unlock(e)

\* Compact and EvaluateMemoryPressure
Evaluate == \E d \in Reclaimed(Locked, {}) : Unlock(d)

\* One turn of the loop of iterateAll or iterateKeys that yields a string of the
\* arena.
Yield(key) ==
    /\ key \in entries /\ IsDepth1(Locked, key)
    /\ Unlock([HandOut(Locked, key) EXCEPT !.exposed = TRUE])

Next ==
    \/ \E key \in KeyStrings :
         PutInsert(key) \/ Update(key) \/ Delete(key) \/ Yield(key)
    \/ \E prefix \in PrefixArgs : DeletePrefix(prefix)
    \/ DeleteAll
    \/ Evaluate

Spec == Init /\ [][Next]_vars

-----------------------------------------------------------------------------
(* Properties                                                              *)

Edge(c, p) == SubSeq(p, Len(Parent(c, p)) + 1, Len(p))

\* After any mix of in-place splits, merges, collapses, reuses, growths and
\* compactions, the bytes at every node's span, at the length it records, are the
\* edge to that node: no key was overwritten by another.
KeysIntact ==
    /\ entries \subseteq DOMAIN span
    /\ \A p \in DOMAIN span : NodePrefix(Locked, p) = Edge(Locked, p)

\* The promise of prefixFlagPinned and prefixExposed: a string that a callback or
\* an iterator was given keeps its bytes, although the entry is gone and the arena
\* reuses spans in place.
HandedStringsIntact ==
    \A h \in handed :
        /\ h.off + Len(h.bytes) <= Len(bytes)
        /\ Slice(Locked, h.off, Len(h.bytes)) = h.bytes

\* checkPrefixArenaInvariants, with the disjointness its sums stand for: live and
\* free spans lie apart inside the arena, free ones are not empty, do not touch
\* each other or the end, and livePrefixBytes counts the live ones; the arena never
\* outgrows the array it was given, which append would replace.
SpansDisjoint ==
    LET used == [p \in DOMAIN span |-> RawSpan(Locked, span[p])]
        Apart(a, b) == End(a) <= b.off \/ End(b) <= a.off
    IN  /\ Len(bytes) <= cap
        /\ live = MapThenSumSet(LAMBDA p : used[p].len, DOMAIN span)
        /\ \A p, q \in DOMAIN span : p # q => Apart(used[p], used[q])
        /\ \A p \in DOMAIN span : 0 <= used[p].off /\ End(used[p]) <= Len(bytes)
        /\ \A i \in 1..Len(free) :
             /\ free[i].len > 0 /\ End(free[i]) < Len(bytes)
             /\ \A p \in DOMAIN span : Apart(free[i], used[p])
             /\ \A j \in 1..Len(free) :
                  i # j => Apart(free[i], free[j]) /\ ~Touching(free[i], free[j])
=============================================================================
