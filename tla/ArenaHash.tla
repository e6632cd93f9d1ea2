------------------------------ MODULE ArenaHash ------------------------------
(***************************************************************************)
(* The lookup accelerator of the arena backend (arena_radix.go): an open-  *)
(* addressed table of (tag, node) slots with linear probing and backshift  *)
(* deletion, and beside it, for keys whose 64-bit hashes are equal, lists  *)
(* of the nodes that share a slot.  A lookup trusts a miss in the table    *)
(* when the counts say that it is complete, and walks the trie otherwise.  *)
(*                                                                         *)
(* Every operation runs under c.mu and is one step; handlers are functions *)
(* of the record c of the fields below.  The trie is represented by the    *)
(* key of each value-bearing node, what hashNodeKey, verifyKey and the     *)
(* trie walk read; which free node an insertion takes, which entries the   *)
(* LRU list and the pressure policy evict and whether a compaction is due  *)
(* are left open (RadixCache and PressurePolicy say).                      *)
(***************************************************************************)
EXTENDS Integers, SequencesExt

CONSTANTS
    Key,            \* the keys
    NoKey,          \* a node without a value
    NodeCount,      \* len(c.nodes); a node's id is in 1..NodeCount
    Hash,           \* the 64-bit hash of every key
    Tag,            \* the 32-bit tag of every hash, not 0
    MinCap,         \* minHashSlotsCap, a power of two (16)
    ShortModulus,   \* 2^21 in the source: what of a tag fits in a node
    Subtrees,       \* the sets of keys that share a prefix, for DeletePrefix
    EntryCallback,  \* onEvictEntry # nil
    MaxVictims      \* bound on the evictions of one round

Node == 1..NodeCount
Hashes == {Hash[k] : k \in Key}

ASSUME HashAssumption ==
    /\ NodeCount \in Nat
    /\ IsFiniteSet(Key) /\ Cardinality(Key) < NodeCount
    /\ NoKey \notin Key
    /\ DOMAIN Hash = Key /\ Hashes \subseteq DOMAIN Tag
    /\ \A h \in Hashes : Tag[h] \in Nat \ {0}
    /\ MinCap \in Nat \ {0} /\ ShortModulus \in Nat \ {0}
    /\ EntryCallback \in BOOLEAN /\ MaxVictims \in Nat

VARIABLES
    nodes,          \* the key each node bears, or NoKey
    short,          \* hashTag21 of each value-bearing node, else 0
    slots,          \* hashSlots, a function on 0..cap-1
    hashCount,
    peers,          \* collisionPeers: hash to a sequence of nodes
    collisionCount

vars == <<nodes, short, slots, hashCount, peers, collisionCount>>

Empty == [tag |-> 0, id |-> 0]
EmptySlots(cap) == [i \in 0..(cap - 1) |-> Empty]
NoPeers == [h \in Hashes |-> <<>>]

Init ==
    /\ nodes = [n \in Node |-> NoKey]
    /\ short = [n \in Node |-> 0]
    /\ slots = EmptySlots(MinCap)
    /\ hashCount = 0
    /\ peers = NoPeers
    /\ collisionCount = 0

Locked ==
    [nodes |-> nodes, short |-> short, slots |-> slots, hashCount |-> hashCount,
     peers |-> peers, collisionCount |-> collisionCount]

Unlock(c) ==
    /\ nodes' = c.nodes
    /\ short' = c.short
    /\ slots' = c.slots
    /\ hashCount' = c.hashCount
    /\ peers' = c.peers
    /\ collisionCount' = c.collisionCount

Live(c) == {n \in Node : c.nodes[n] # NoKey}
Length(c) == Cardinality(Live(c))
HashOf(c, n) == Hash[c.nodes[n]]
HasHash(c, n, h) == n \in Live(c) /\ HashOf(c, n) = h

-----------------------------------------------------------------------------
(* Probing                                                                 *)

Cap(table) == Cardinality(DOMAIN table)

\* The steps that probing takes from home to index i, around the table.
Distance(cap, home, i) == IF home <= i THEN i - home ELSE i + cap - home

\* Where probing for tag ends: at the first index from the tag's home on that is
\* empty or in Stops.
Probe(table, tag, Stops) ==
    LET home == tag % Cap(table)
        ends == {i \in DOMAIN table : table[i] = Empty} \cup Stops
    IN  CHOOSE i \in ends : \A j \in ends :
            Distance(Cap(table), home, i) <= Distance(Cap(table), home, j)

Place(table, slot) == [table EXCEPT ![Probe(table, slot.tag, {})] = slot]

\* slotBelongsToOtherHash
OtherHash(c, slot, h) ==
    /\ slot.id \in Live(c)
    /\ HashOf(c, slot.id) # h
    /\ Tag[HashOf(c, slot.id)] = slot.tag

\* The slots that bear h's tag and are not another hash's.
SlotsOf(c, h) ==
    {i \in DOMAIN c.slots : /\ c.slots[i].tag = Tag[h]
                            /\ ~OtherHash(c, c.slots[i], h)}

\* findHashSlotIndex: h's slot, or the empty one its probing ends at.
FindSlot(c, h) == Probe(c.slots, Tag[h], SlotsOf(c, h))

SetShort(c, n, tag) == [c EXCEPT !.short[n] = tag % ShortModulus]

-----------------------------------------------------------------------------
(* Capacity                                                                *)

\* 1, 2, 4 and so on, up to 2^n.
Powers(n) ==
    LET power[i \in 0..n] == IF i = 0 THEN 1 ELSE 2 * power[i - 1]
    IN  power

PowerOf2(n) == CHOOSE p \in {Powers(n)[i] : i \in 0..n} : p >= n /\ p < 2 * n

\* hashSlotsCapFor: at most four slots in five are taken.
CapFor(entries) ==
    IF entries <= (MinCap * 4) \div 5 THEN MinCap
    ELSE PowerOf2((entries * 5 + 3) \div 4)

\* The slots of a table in index order, their nodes renumbered.
Reinsert(table, cap, newId) ==
    LET new[i \in 0..Cap(table)] ==
            IF i = 0 THEN EmptySlots(cap)
            ELSE IF table[i - 1] = Empty THEN new[i - 1]
            ELSE Place(new[i - 1], [table[i - 1] EXCEPT !.id = newId[@]])
    IN  new[Cap(table)]

SameIds == [n \in Node |-> n]

ResizeForOneMore(c) ==
    IF (c.hashCount + 1) * 5 > Cap(c.slots) * 4
    THEN [c EXCEPT !.slots = Reinsert(@, Max({CapFor(c.hashCount + 1), MinCap}),
                                      SameIds)]
    ELSE c

\* nodeMapSet
NodeMapSet(c, h, n) ==
    LET d  == ResizeForOneMore(c)
        at == FindSlot(d, h)
    IN  SetShort([d EXCEPT !.slots[at] = [tag |-> Tag[h], id |-> n],
                           !.hashCount = @ + IF d.slots[at] = Empty THEN 1 ELSE 0],
                 n, Tag[h])

\* insertNewHashSlotLocked: for a hash known to have no slot.
InsertNewSlot(c, h, n) ==
    LET d == ResizeForOneMore(c)
    IN  SetShort([d EXCEPT !.slots = Place(@, [tag |-> Tag[h], id |-> n]),
                           !.hashCount = @ + 1],
                 n, Tag[h])

\* Mutant of ShiftsBack: the gap may not be at the slot's home itself.
ShiftsBackPastHome(cap, home, gap, at) ==
    /\ 0 < Distance(cap, home, gap)
    /\ Distance(cap, home, gap) <= Distance(cap, home, at)

\* Whether the slot at index at, which hashes to home, may move to the gap: the
\* gap lies on its way from home.
ShiftsBack(cap, home, gap, at) ==
    Distance(cap, home, gap) <= Distance(cap, home, at)

\* One iteration of backshiftDeleteSlot, with currIdx at and emptyIdx r.gap.
ShiftAt(r, at) ==
    LET cap  == Cap(r.table)
        slot == r.table[at]
    IN  IF r.done \/ slot = Empty THEN [r EXCEPT !.done = TRUE]
        ELSE IF ShiftsBack(cap, slot.tag % cap, r.gap, at)
        THEN [r EXCEPT !.table[r.gap] = slot, !.gap = at]
        ELSE r

\* The index d places after i.
Ahead(cap, i, d) == IF i + d < cap THEN i + d ELSE i + d - cap

\* The loop of backshiftDeleteSlot, which returns at the first empty slot.
Swept(table, del) ==
    LET cap == Cap(table)
        sweep[d \in 0..(cap - 1)] ==
            IF d = 0 THEN [table |-> table, gap |-> del, done |-> FALSE]
            ELSE ShiftAt(sweep[d - 1], Ahead(cap, del, d))
    IN  sweep[cap - 1]

\* backshiftDeleteSlot
Backshift(c, del) ==
    LET swept == Swept(c.slots, del)
    IN  [c EXCEPT !.slots = [swept.table EXCEPT ![swept.gap] = Empty],
                  !.hashCount = @ - 1]

-----------------------------------------------------------------------------
(* Nodes of equal hash                                                     *)

CountDown(n) == IF n > 0 THEN n - 1 ELSE 0

\* removeCollisionPeerLocked
RemovePeer(c, h, n) ==
    IF ~Contains(c.peers[h], n) THEN c
    ELSE [c EXCEPT !.peers[h] = RemoveFirst(@, n), !.collisionCount = CountDown(@)]

\* Mutant of PromoteAt: the node that held the slot is not kept as a peer.
PromoteAtForgetting(c, at, h, n) ==
    SetShort([RemovePeer(c, h, n) EXCEPT !.slots[at] = [tag |-> Tag[h], id |-> n]],
             n, Tag[h])

\* promoteNodeIntoHashSlotAtLocked
PromoteAt(c, at, h, n) ==
    LET prev  == c.slots[at].id
        valid == HasHash(c, prev, h)
        known == Contains(c.peers[h], n)
        d == IF known /\ valid
             THEN [c EXCEPT !.peers[h] = ReplaceAll(@, n, prev)]
             ELSE IF known THEN RemovePeer(c, h, n)
             ELSE IF valid
             THEN [c EXCEPT !.peers[h] = Append(@, prev), !.collisionCount = @ + 1]
             ELSE c
    IN  SetShort([d EXCEPT !.slots[at] = [tag |-> Tag[h], id |-> n]], n, Tag[h])

\* Where promoteCollisionPeerLocked and removeOrPromoteNodeMapLocked stop.
PeerSlot(c, h, n) ==
    Probe(c.slots, Tag[h],
          SlotsOf(c, h) \cup {i \in DOMAIN c.slots : c.slots[i] = [tag |-> Tag[h], id |-> n]})

\* promoteCollisionPeerLocked: n, whose key has hash h, takes h's slot.
Promote(c, h, n) ==
    LET at == PeerSlot(c, h, n)
    IN  IF c.slots[at] = Empty THEN NodeMapSet(RemovePeer(c, h, n), h, n)
        ELSE IF c.slots[at].id = n THEN c
        ELSE PromoteAt(c, at, h, n)

\* popValidCollisionPeerLocked: the newest valid peer of h other than n (0 when
\* there is none), the invalid ones after it being dropped.
PopPeer(c, h, n) ==
    LET list  == c.peers[h]
        valid == {i \in 1..Len(list) : list[i] # n /\ HasHash(c, list[i], h)}
        last  == IF valid = {} THEN 0 ELSE Max(valid)
        left  == [c EXCEPT
                    !.peers[h] = SubSeq(@, 1, last - 1),
                    !.collisionCount =
                        Max({@ - (Len(list) - (IF last = 0 THEN 0 ELSE last - 1)), 0})]
    IN  [id |-> IF last = 0 THEN 0 ELSE list[last],
         c |-> IF last = 0 /\ left.peers = NoPeers
               THEN [left EXCEPT !.collisionCount = 0] ELSE left]

\* removeOrPromoteHashSlotAtLocked
RemoveOrPromoteAt(c, at, h, n) ==
    LET pop  == PopPeer(c, h, n)
        gone == Backshift(pop.c, at)
    IN  IF pop.id # 0
        THEN SetShort([pop.c EXCEPT !.slots[at].id = pop.id], pop.id, c.slots[at].tag)
        ELSE IF gone.peers = NoPeers THEN [gone EXCEPT !.collisionCount = 0]
        ELSE gone

\* removeOrPromoteNodeMapLocked
RemoveOrPromote(c, h, n) ==
    LET at == PeerSlot(c, h, n)
    IN  IF c.slots[at] # Empty /\ c.slots[at].id = n
        THEN RemoveOrPromoteAt(c, at, h, n)
        ELSE RemovePeer(c, h, n)

-----------------------------------------------------------------------------
(* Lookup: getNodeKeyForPut, getNodeKeyWithHash, lookupNodeKeyWithHash,    *)
(* lookupOrWalkNodeKey and lookupHashSlotAt probe alike                    *)

\* findNodeByTrieWalk; 0 when key is not cached.
TrieWalk(c, key) ==
    LET found == {n \in Live(c) : c.nodes[n] = key}
    IN  IF found = {} THEN 0 ELSE CHOOSE n \in found : TRUE

\* The index of the slot whose node bears key, or of the empty slot.
VerifiedSlot(c, key) ==
    Probe(c.slots, Tag[Hash[key]],
          {i \in DOMAIN c.slots : /\ c.slots[i].tag = Tag[Hash[key]]
                                  /\ c.slots[i].id \in Live(c)
                                  /\ c.nodes[c.slots[i].id] = key})

\* slotMatched, once probing has not verified key.
SlotMatched(c, key) == c.slots[FindSlot(c, Hash[key])] # Empty

\* Every entry has its hash in the table: a miss there is a miss.
TableIsComplete(c) == c.hashCount + c.collisionCount = Length(c)

\* What the lookup finds, and whether it had to walk the trie.
Lookup(c, key) ==
    LET at == VerifiedSlot(c, key)
    IN  IF c.slots[at] # Empty
        THEN [id |-> c.slots[at].id, walked |-> FALSE]
        ELSE IF ~SlotMatched(c, key) /\ TableIsComplete(c)
        THEN [id |-> 0, walked |-> FALSE]
        ELSE [id |-> TrieWalk(c, key), walked |-> TRUE]

\* walkNodeKeyFallback with heal: a node the walk finds takes its hash's slot.
Healed(c, key, found) ==
    IF found.walked /\ found.id # 0 THEN Promote(c, Hash[key], found.id) ELSE c

-----------------------------------------------------------------------------
(* Erasing entries                                                         *)

\* The part of finishEraseNodeLocked and evictSubtreeValueNodeLocked seen here.
DropValue(c, n) == [c EXCEPT !.nodes[n] = NoKey, !.short[n] = 0]

\* deleteNodeFromHashSlotsFastLocked: the index of n's slot, found by the short
\* tag without hashing the key, or of an empty slot.
FastSlot(c, n) ==
    Probe(c.slots, c.short[n],
          {i \in DOMAIN c.slots : /\ c.slots[i].id = n
                                  /\ c.slots[i].tag % ShortModulus = c.short[n]})

\* eraseInternal and the erasures of freeSubtree.  With an onEvictEntry callback
\* the key is at hand and its hash is used.
Erase(c, n) ==
    LET fast == /\ ~EntryCallback
                /\ c.collisionCount = 0 /\ Cap(c.slots) <= ShortModulus
                /\ c.short[n] # 0 /\ c.slots[FastSlot(c, n)] # Empty
    IN  DropValue(IF fast THEN Backshift(c, FastSlot(c, n))
                  ELSE RemoveOrPromote(c, HashOf(c, n), n), n)

\* The nodes of v, one after the other.
EraseAll(c, v) ==
    LET left[i \in 0..Len(v)] == IF i = 0 THEN c ELSE Erase(left[i - 1], v[i])
    IN  left[Len(v)]

\* The ways to take i of the nodes in S, one after the other.
Orders(S, i) == {v \in [1..i -> S] : \A x, y \in 1..i : v[x] = v[y] => x = y}

\* The ways to evict up to MaxVictims of the nodes in S.
Evicted(c, S) == {EraseAll(c, v) : v \in UNION {Orders(S, i) : i \in 0..MaxVictims}}

\* clearEmptyArenaStateLocked: a table that did not grow, or not much, is kept.
ClearEmpty(c) ==
    {[c EXCEPT !.slots = EmptySlots(cap), !.hashCount = 0, !.peers = NoPeers,
               !.collisionCount = 0] : cap \in {MinCap, Cap(c.slots)}}

-----------------------------------------------------------------------------
(* Compaction                                                              *)

\* One iteration of rebuildHashSlotsLocked: node n enters the index.
IndexNode(c, n) ==
    LET h  == HashOf(c, n)
        at == FindSlot(c, h)
        d  == SetShort([c EXCEPT !.slots[at] = [tag |-> Tag[h], id |-> n]], n, Tag[h])
    IN  IF c.slots[at] = Empty THEN [d EXCEPT !.hashCount = @ + 1]
        ELSE [d EXCEPT !.peers[h] = Append(@, c.slots[at].id),
                       !.collisionCount = @ + 1]

\* rebuildHashSlotsLocked
Rebuild(c) ==
    LET built[n \in 0..NodeCount] ==
            IF n = 0
            THEN [c EXCEPT !.slots = EmptySlots(CapFor(Length(c))), !.hashCount = 0,
                           !.peers = NoPeers, !.collisionCount = 0]
            ELSE IF n \in Live(c) THEN IndexNode(built[n - 1], n)
            ELSE built[n - 1]
    IN  built[NodeCount]

\* compactHashSlotsLocked when every entry has a slot of its own.
RemapSlots(table, cap, newId) ==
    IF cap = Cap(table)
    THEN [i \in DOMAIN table |-> IF table[i] = Empty THEN Empty
                                 ELSE [table[i] EXCEPT !.id = newId[@]]]
    ELSE Reinsert(table, cap, newId)

\* A field of the nodes after the live ones have moved to the ids newId gives.
Moved(c, newId, field, none) ==
    [n \in Node |-> IF \E m \in Live(c) : newId[m] = n
                    THEN field[CHOOSE m \in Live(c) : newId[m] = n] ELSE none]

\* The part of compactDataStructuresLocked seen here: entries move down to the
\* ids newId gives them, in the same order, and the table follows.
Compacted(c, newId) ==
    LET d == [c EXCEPT !.nodes = Moved(c, newId, @, NoKey),
                       !.short = Moved(c, newId, @, 0)]
    IN  IF c.collisionCount # 0 \/ c.hashCount # Length(c) THEN Rebuild(d)
        ELSE [d EXCEPT !.slots = RemapSlots(@, CapFor(Length(c)), newId)]

\* oldToNew: the nodes linked into the trie, with a value or without, close ranks.
Renumberings(c) ==
    {[n \in Live(c) |-> Cardinality({m \in linked : m <= n})] :
        linked \in {T \in SUBSET Node : Live(c) \subseteq T}}

MaybeCompacted(c) == {c} \cup {Compacted(c, newId) : newId \in Renumberings(c)}

\* maybeReclaimUnderPressureLocked and what surrounds it in the finishing
\* functions: evictions that spare the nodes in kept, a reset of the empty cache
\* or a compaction, as far as pressure and slack ask for them.
Reclaimed(c, kept) ==
    UNION {IF Live(d) = {} THEN ClearEmpty(d) ELSE MaybeCompacted(d) :
              d \in Evicted(c, Live(c) \ kept)}

-----------------------------------------------------------------------------
(* Operations                                                              *)

\* putWithHash of a new key in node n: mapMiss is decided before the evictions
\* and the reset that make room, and used after them.
PutInsert(c, key, n) ==
    LET h == Hash[key]
        mapMiss == ~Lookup(c, key).walked
        Room(d) == {d} \cup IF Live(d) = {} THEN ClearEmpty(d) ELSE {}
        Insert(d) == LET e == [d EXCEPT !.nodes[n] = key]
                     IN  IF mapMiss THEN InsertNewSlot(e, h, n) ELSE Promote(e, h, n)
    IN  {Insert(d) : d \in UNION {Room(d) : d \in Evicted(c, Live(c))}}

\* updateExistingOnPutLocked
PutUpdate(c, key, found) ==
    LET healed == Healed(c, key, found)
        n == found.id
    IN  {healed} \cup
        {Promote(d, Hash[key], n) :
            d \in Evicted(healed, Live(c) \ {n}) \ {healed}}

\* putWithHash; any node without an entry may be the one insertNode returns.
Put(key) ==
    LET c == Locked
        found == Lookup(c, key)
    IN  \/ /\ found.id # 0
           /\ \E d \in PutUpdate(c, key, found) :
                \E e \in Reclaimed(d, {found.id}) : Unlock(e)
        \/ /\ found.id = 0
           /\ \E n \in Node \ Live(c) : \E d \in PutInsert(c, key, n) :
                \E e \in Reclaimed(d, {n}) : Unlock(e)

\* replaceWithHash: the entry is evicted itself, or others are for it.
Replace(key) ==
    LET c == Locked
        found == Lookup(c, key)
        n == found.id
        kept == IF found.walked THEN Promote(c, Hash[key], n) ELSE c
        resized == {kept} \cup
                   {Promote(d, Hash[key], n) : d \in Evicted(c, Live(c) \ {n}) \ {c}}
        self == DropValue(RemoveOrPromote(c, Hash[key], n), n)
    IN  /\ n # 0
        /\ \/ \E d \in resized : \E e \in Reclaimed(d, {n}) : Unlock(e)
           \/ \E e \in Reclaimed(self, {}) : Unlock(e)

\* getWithHash
Get(key) == Unlock(Healed(Locked, key, Lookup(Locked, key)))

\* deleteWithHash: by the verified slot, or by the node the trie walk found.
Delete(key) ==
    LET c == Locked
        at == VerifiedSlot(c, key)
        n == Lookup(c, key).id
        d == IF c.slots[at] # Empty THEN RemoveOrPromoteAt(c, at, Hash[key], n)
             ELSE RemoveOrPromote(c, Hash[key], n)
    IN  /\ n # 0
        /\ \E e \in Reclaimed(DropValue(d, n), {}) : Unlock(e)

\* deleteNonEmptyPrefixLocked: all entries of a subtree, in any order.
DeletePrefix(S) ==
    LET c == Locked
        gone == {n \in Live(c) : c.nodes[n] \in S}
    IN  /\ gone # {}
        /\ \E v \in Orders(gone, Cardinality(gone)) :
             \E e \in Reclaimed(EraseAll(c, v), {}) : Unlock(e)

\* deleteAllPrefixLocked
DeleteAll ==
    \E e \in ClearEmpty([Locked EXCEPT !.nodes = [n \in Node |-> NoKey],
                                       !.short = [n \in Node |-> 0]]) : Unlock(e)

\* Compact and EvaluateMemoryPressure
Evaluate == \E e \in Reclaimed(Locked, {}) : Unlock(e)

Next ==
    \/ \E key \in Key : Put(key) \/ Replace(key) \/ Get(key) \/ Delete(key)
    \/ \E S \in Subtrees : DeletePrefix(S)
    \/ DeleteAll
    \/ Evaluate

Spec == Init /\ [][Next]_vars

-----------------------------------------------------------------------------
(* Properties                                                              *)

\* Whatever collisions, displacements, backshifts and renumberings came before,
\* a lookup finds each cached key's own node, and a key that is not cached is not
\* found; no probing runs around a table without an empty slot.
LookupsExact ==
    /\ \E i \in DOMAIN slots : slots[i] = Empty
    /\ \A key \in Key : Lookup(Locked, key).id = TrieWalk(Locked, key)

Occupied == {i \in DOMAIN slots : slots[i] # Empty}

\* Invariant 6 of checkInvariants, as an equality: each entry is in exactly one
\* place, a slot that bears its tag and that probing from its home reaches, or the
\* peer list of a hash that has a slot, and the counts are those of both.
IndexIsPartition ==
    LET slotted == {slots[i].id : i \in Occupied}
        listed  == UNION {ToSet(peers[h]) : h \in Hashes}
    IN  /\ slotted \cup listed = Live(Locked) /\ slotted \cap listed = {}
        /\ hashCount = Cardinality(slotted) /\ hashCount = Cardinality(Occupied)
        /\ collisionCount = Cardinality(listed)
        /\ \A i \in Occupied :
             /\ slots[i].tag = Tag[HashOf(Locked, slots[i].id)]
             /\ Probe(slots, slots[i].tag, {i}) = i
        /\ \A h \in Hashes : IsInjective(peers[h])
        /\ \A h \in Hashes : \A n \in ToSet(peers[h]) :
             /\ HashOf(Locked, n) = h
             /\ \E i \in Occupied : HashOf(Locked, slots[i].id) = h
=============================================================================
