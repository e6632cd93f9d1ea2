----------------------------- MODULE RadixTrie -----------------------------
(***************************************************************************)
(* The path-compressed trie of the radix backend (radix_lru.go) as a heap  *)
(* of nodes.  A heap h has                                                 *)
(*   node      - the record of every node; one nobody links is Blank       *)
(*   recycle   - recycleNodes, the detached nodes kept for this Put        *)
(*   recycling - recyclingForPut                                           *)
(* A node's children are the sequence its child and sibling pointers form, *)
(* a byte is a natural number, a prefix or a key a sequence of bytes.  The *)
(* collector is abstracted: a node that nothing links any more is Blank,   *)
(* as a new one, whereas a recycled node keeps what freeNode left in it.   *)
(* Loops are iterations of a step on a record, at most once per node.      *)
(***************************************************************************)
EXTENDS Integers, SequencesExt

CONSTANT MaxNodes   \* the nodes other than the root a run may need at once

ASSUME MaxNodesAssumption == MaxNodes \in Nat

Root   == 0
NoNode == -1
Nodes  == Root..MaxNodes

Blank == [prefix |-> <<>>, parent |-> NoNode, child |-> <<>>,
          hasValue |-> FALSE, size |-> 0]

EmptyHeap == [node |-> [n \in Nodes |-> Blank], recycle |-> <<>>,
              recycling |-> FALSE]

\* for Continue(r) { r = Step(r) }, known to stop within bound rounds.
Loop(start, Continue(_), Step(_), bound) ==
    LET after[i \in 0..bound] ==
            IF i = 0 THEN start
            ELSE LET r == after[i - 1] IN IF Continue(r) THEN Step(r) ELSE r
    IN  after[bound]

-----------------------------------------------------------------------------
(* Children, in ascending order of their first byte                        *)

FirstByte(t, n) == t[n].prefix[1]

\* Where the scan of the siblings stops: at the first one not below b.
ScanStop(t, n, b) ==
    SelectInSeq(t[n].child, LAMBDA ch : FirstByte(t, ch) >= b)

GetChild(t, n, b) ==
    LET at == ScanStop(t, n, b)
    IN  IF at # 0 /\ FirstByte(t, t[n].child[at]) = b
        THEN t[n].child[at] ELSE NoNode

\* Mutant of AddChild: new children go to the front of the list.
AddChildFront(t, n, ch) ==
    [t EXCEPT ![ch].parent = n, ![n].child = <<ch>> \o @]

AddChild(t, n, ch) ==
    LET at == ScanStop(t, n, FirstByte(t, ch))
    IN  [t EXCEPT ![ch].parent = n,
                  ![n].child = InsertAt(@, IF at = 0 THEN Len(@) + 1 ELSE at, ch)]

RemoveChild(t, n, ch) ==
    [t EXCEPT ![ch].parent = NoNode, ![n].child = Remove(@, ch)]

ReplaceChild(t, n, old, new) ==
    [t EXCEPT ![old].parent = NoNode, ![new].parent = n,
              ![n].child = ReplaceAll(@, old, new)]

-----------------------------------------------------------------------------
(* Allocation                                                              *)

Unlinked(h) ==
    {n \in Nodes \ {Root} :
        h.node[n].parent = NoNode /\ ~Contains(h.recycle, n)}

\* allocNode: the node it returns, and the heap it leaves.
AllocNode(h) == IF h.recycle # <<>> THEN Last(h.recycle) ELSE Min(Unlinked(h))
Allocated(h) == [h EXCEPT !.recycle = IF @ # <<>> THEN Front(@) ELSE @]

FreeNode(h, n) ==
    IF h.recycling /\ Len(h.recycle) < 2
    THEN [h EXCEPT !.node[n].prefix = <<>>, !.recycle = Append(@, n)]
    ELSE [h EXCEPT !.node[n] = Blank]

-----------------------------------------------------------------------------
(* Descent                                                                 *)

Drop(s, n) == SubSeq(s, n + 1, Len(s))

CommonLength(s, u) == Len(LongestCommonPrefix({s, u}))

(***************************************************************************)
(* The loop of insertNode, getNode and deleteNonEmptyPrefixLocked: follow  *)
(* children whose whole prefix matches.  It ends at a node with nothing    *)
(* left to search, or with the child (or NoNode) that does not match.      *)
(***************************************************************************)
Descend(t, key) ==
    LET At(n, rest) == [node |-> n, search |-> rest,
                        child |-> IF rest = <<>> THEN NoNode
                                  ELSE GetChild(t, n, rest[1])]
        Continue(d) == d.child # NoNode /\ IsPrefix(t[d.child].prefix, d.search)
        Step(d) == At(d.child, Drop(d.search, Len(t[d.child].prefix)))
    IN  Loop(At(Root, key), Continue, Step, Len(key))

\* Mutant of GetNode: a routing node is taken for an entry.
GetNodeRouting(t, key) ==
    LET d == Descend(t, key) IN IF d.search = <<>> THEN d.node ELSE NoNode

GetNode(t, key) ==
    LET d == Descend(t, key)
    IN  IF d.search = <<>> /\ t[d.node].hasValue THEN d.node ELSE NoNode

ReconstructKey(t, n) ==
    LET key[m \in Nodes] ==
            IF m = Root THEN <<>> ELSE key[t[m].parent] \o t[m].prefix
    IN  key[n]

-----------------------------------------------------------------------------
(* insertNode: the heap with key's node in it                              *)

NewLeaf(h, parent, prefix) ==
    LET n == AllocNode(h)
    IN  [Allocated(h) EXCEPT
            !.node = AddChild([@ EXCEPT ![n].prefix = prefix,
                                        ![n].hasValue = TRUE], parent, n)]

\* A node for the first lcp bytes of child takes its place and adopts it.
Split(h, parent, child, lcp, isEntry) ==
    LET n   == AllocNode(h)
        old == h.node[child].prefix
    IN  [Allocated(h) EXCEPT
            !.node = AddChild(
                [ReplaceChild([@ EXCEPT ![n].prefix = SubSeq(old, 1, lcp),
                                        ![n].hasValue = @ \/ isEntry],
                              parent, child, n)
                   EXCEPT ![child].prefix = Drop(old, lcp)],
                n, child)]

InsertNode(h, key) ==
    LET d   == Descend(h.node, key)
        lcp == CommonLength(d.search, h.node[d.child].prefix)
        s   == Split(h, d.node, d.child, lcp, lcp = Len(d.search))
    IN  IF d.search = <<>> THEN [h EXCEPT !.node[d.node].hasValue = TRUE]
        ELSE IF d.child = NoNode THEN NewLeaf(h, d.node, d.search)
        ELSE IF lcp = Len(d.search) THEN s
        ELSE NewLeaf(s, s.node[d.child].parent, Drop(d.search, lcp))

-----------------------------------------------------------------------------
(* Removal                                                                 *)

(***************************************************************************)
(* compressPathUpwards: prune childless routing nodes upwards, and stop    *)
(* after merging one that has a single child left into that child.         *)
(***************************************************************************)
CompressPathUpwards(heap, from) ==
    LET Continue(r) == /\ r.curr # Root
                       /\ ~r.h.node[r.curr].hasValue
                       /\ Len(r.h.node[r.curr].child) <= 1
        Prune(h, n) ==
            FreeNode([h EXCEPT !.node = RemoveChild(@, @[n].parent, n)], n)
        Merge(h, n) ==
            LET t    == h.node
                only == t[n].child[1]
                up   == [t EXCEPT ![only].prefix = t[n].prefix \o @]
            IN  FreeNode([h EXCEPT
                  !.node = [ReplaceChild(up, t[n].parent, n, only)
                              EXCEPT ![n].child = <<>>]], n)
        Step(r) ==
            IF r.h.node[r.curr].child = <<>>
            THEN [h |-> Prune(r.h, r.curr), curr |-> r.h.node[r.curr].parent]
            ELSE [h |-> Merge(r.h, r.curr), curr |-> Root]
    IN  Loop([h |-> heap, curr |-> from], Continue, Step, MaxNodes).h

\* The nodes of the subtree at n in the order sweepAndUnlink visits them.
Preorder(t, n) ==
    LET visit[m \in Nodes] ==
            <<m>> \o FlattenSeq([i \in 1..Len(t[m].child) |->
                                    visit[t[m].child[i]]])
    IN  visit[n]

\* Mutant of PrefixRoot: the prefix must end where a node ends.
PrefixRootExact(t, prefix) ==
    LET d == Descend(t, prefix)
    IN  IF d.search = <<>> THEN d.node ELSE NoNode

\* Where deleteNonEmptyPrefixLocked cuts: the node at or just below prefix.
PrefixRoot(t, prefix) ==
    LET d == Descend(t, prefix)
    IN  IF d.search = <<>> THEN d.node
        ELSE IF d.child # NoNode /\ IsPrefix(d.search, t[d.child].prefix)
             THEN d.child ELSE NoNode
=============================================================================
