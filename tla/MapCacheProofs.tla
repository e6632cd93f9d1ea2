--------------------------- MODULE MapCacheProofs ---------------------------
(***************************************************************************)
(* Proofs about MapCache, for every set of keys, every weigher, every      *)
(* budget and every setting of the policy.                                 *)
(***************************************************************************)
EXTENDS MapCache, FiniteSetTheorems, TLAPS

-----------------------------------------------------------------------------
(* Weights of sets of keys                                                 *)

Sizes == [Keys -> 0..MaxSize]

\* The unit cells of a set of keys are finite in number.
LEMMA CellsFinite ==
    ASSUME NEW S \in SUBSET Keys, NEW sz \in Sizes
    PROVE  IsFiniteSet(Cells(S, sz)) /\ TotalWeight(S, sz) \in Nat
<1>1. IsFiniteSet(Keys) /\ IsFiniteSet(1..MaxSize)
  BY KeysAssumption, MaxSizeAssumption, FS_Interval
<1>2. IsFiniteSet(Keys \X (1..MaxSize))
  BY <1>1, FS_Product
<1>3. Cells(S, sz) \in SUBSET (Keys \X (1..MaxSize))
  BY DEF Cells
<1>4. IsFiniteSet(Cells(S, sz))
  BY <1>2, <1>3, FS_Subset
<1> QED BY <1>4, FS_CardinalityType DEF TotalWeight

\* The weight of two disjoint sets together is the sum of their weights.
LEMMA WeightOfUnion ==
    ASSUME NEW S \in SUBSET Keys, NEW T \in SUBSET Keys, NEW sz \in Sizes,
           S \cap T = {}
    PROVE  TotalWeight(S \cup T, sz) = TotalWeight(S, sz) + TotalWeight(T, sz)
<1>1. Cells(S \cup T, sz) = Cells(S, sz) \cup Cells(T, sz)
  BY DEF Cells
<1>2. Cells(S, sz) \cap Cells(T, sz) = {}
  BY DEF Cells
<1>3. /\ IsFiniteSet(Cells(S, sz)) /\ IsFiniteSet(Cells(T, sz))
      /\ Cardinality(Cells(S, sz)) \in Nat /\ Cardinality(Cells(T, sz)) \in Nat
  BY CellsFinite DEF TotalWeight
<1>4. Cardinality(Cells(S, sz) \cup Cells(T, sz))
        = Cardinality(Cells(S, sz)) + Cardinality(Cells(T, sz)) - Cardinality({})
  BY <1>2, <1>3, FS_Union
<1>5. Cardinality({}) = 0
  BY FS_EmptySet
<1>6. TotalWeight(S \cup T, sz) = Cardinality(Cells(S, sz) \cup Cells(T, sz))
  BY <1>1, Zenon DEF TotalWeight
<1> QED BY <1>3, <1>4, <1>5, <1>6 DEF TotalWeight

\* A single key weighs its size.
LEMMA WeightOfKey ==
    ASSUME NEW k \in Keys, NEW sz \in Sizes
    PROVE  TotalWeight({k}, sz) = sz[k]
<1> DEFINE f == [u \in 1..sz[k] |-> <<k, u>>]
<1>1. sz[k] \in 0..MaxSize
  BY DEF Sizes
<1>2. Cells({k}, sz) = {<<k, u>> : u \in 1..sz[k]}
  BY <1>1, MaxSizeAssumption DEF Cells
<1>3. f \in Bijection(1..sz[k], Cells({k}, sz))
  BY <1>2 DEF Bijection, Injection, Surjection, IsInjective
<1>4. ExistsBijection(1..sz[k], Cells({k}, sz))
  BY <1>3 DEF ExistsBijection
<1> QED BY <1>1, <1>4, FS_CountingElements DEF TotalWeight

\* The weight of a set depends on the sizes of its own keys only.
LEMMA WeightCongruence ==
    ASSUME NEW S \in SUBSET Keys, NEW sz, NEW sy, \A k \in S : sz[k] = sy[k]
    PROVE  TotalWeight(S, sz) = TotalWeight(S, sy)
<1>1. Cells(S, sz) = Cells(S, sy)
  BY DEF Cells
<1> QED BY <1>1 DEF TotalWeight

\* Nothing weighs nothing.
LEMMA WeightOfNothing ==
    ASSUME NEW sz
    PROVE  TotalWeight({}, sz) = 0
<1>1. Cells({}, sz) = {}
  BY DEF Cells
<1> QED BY <1>1, FS_EmptySet DEF TotalWeight

\* Taking one key out of a set takes its size off the weight.
LEMMA WeightWithout ==
    ASSUME NEW S \in SUBSET Keys, NEW k \in S, NEW sz \in Sizes
    PROVE  /\ TotalWeight(S, sz) = TotalWeight(S \ {k}, sz) + sz[k]
           /\ sz[k] <= TotalWeight(S, sz)
<1>1. S = (S \ {k}) \cup {k} /\ (S \ {k}) \cap {k} = {}
  OBVIOUS
<1>2. TotalWeight(S, sz) = TotalWeight(S \ {k}, sz) + TotalWeight({k}, sz)
  BY <1>1, WeightOfUnion
<1>3. TotalWeight(S \ {k}, sz) \in Nat
  BY CellsFinite
<1> QED BY <1>2, <1>3, WeightOfKey DEF Sizes

\* Newer entries (n), the entry (e) and the older ones (o) weigh c at most; if o
\* and the free room cover the growth to w, then n and w fit together.
LEMMA RoomBesideNewer ==
    ASSUME NEW n \in Nat, NEW e \in Nat, NEW o \in Nat, NEW c \in Nat,
           NEW m \in Nat, NEW w \in Nat, (n + e) + o <= c, w - e <= m - c + o
    PROVE  n + w <= m
OBVIOUS

\* Giving one key of a set another size.
LEMMA WeightUpdate ==
    ASSUME NEW S \in SUBSET Keys, NEW k \in S, NEW sz \in Sizes,
           NEW w \in 0..MaxSize
    PROVE  /\ [sz EXCEPT ![k] = w] \in Sizes
           /\ TotalWeight(S, [sz EXCEPT ![k] = w]) = TotalWeight(S, sz) - sz[k] + w
<1> DEFINE sy == [sz EXCEPT ![k] = w]
<1>1. sy \in Sizes /\ sy[k] = w /\ \A j \in S \ {k} : sy[j] = sz[j]
  BY DEF Sizes
<1> HIDE DEF sy
<1>2. TotalWeight(S, sy) = TotalWeight(S \ {k}, sy) + w
  BY <1>1, WeightWithout
<1>3. TotalWeight(S, sz) = TotalWeight(S \ {k}, sz) + sz[k]
  BY WeightWithout
<1>4. TotalWeight(S \ {k}, sy) = TotalWeight(S \ {k}, sz)
  BY <1>1, WeightCongruence
<1>5. TotalWeight(S \ {k}, sz) \in Nat /\ sz[k] \in Nat /\ w \in Nat
  BY CellsFinite, MaxSizeAssumption DEF Sizes
<1> QED BY <1>1, <1>2, <1>3, <1>4, <1>5 DEF sy

\* A larger set weighs no less.
LEMMA WeightMonotone ==
    ASSUME NEW T \in SUBSET Keys, NEW S \in SUBSET T, NEW sz \in Sizes
    PROVE  TotalWeight(S, sz) <= TotalWeight(T, sz)
<1>1. Cells(S, sz) \in SUBSET Cells(T, sz) /\ IsFiniteSet(Cells(T, sz))
  BY CellsFinite DEF Cells
<1> QED BY <1>1, FS_Subset DEF TotalWeight

-----------------------------------------------------------------------------
(* The intrusive list                                                      *)

\* A list that links no key twice.
Linked(l) ==
    /\ l \in Seq(Keys)
    /\ \A i, j \in 1..Len(l) : l[i] = l[j] => i = j

\* Position finds a linked key.
LEMMA PositionFound ==
    ASSUME NEW l \in Seq(Keys), NEW k \in FirstKeys(l, Len(l))
    PROVE  Position(l, k) \in 1..Len(l) /\ l[Position(l, k)] = k
BY DEF Position, FirstKeys

\* Remove unlinks k and keeps every other key, each linked once.
LEMMA RemoveUnlinks ==
    ASSUME NEW l, Linked(l), NEW k \in FirstKeys(l, Len(l))
    PROVE  /\ Linked(Remove(l, k))
           /\ Len(Remove(l, k)) = Len(l) - 1
           /\ FirstKeys(Remove(l, k), Len(Remove(l, k)))
                = FirstKeys(l, Len(l)) \ {k}
<1> DEFINE r == Remove(l, k)
           at == Position(l, k)
<1>1. at \in 1..Len(l) /\ l[at] = k
  BY PositionFound DEF Linked
<1>2. r = [i \in 1..(Len(l) - 1) |-> IF i < at THEN l[i] ELSE l[i + 1]]
  BY DEF Remove
<1>3. Len(l) \in Nat /\ \A i \in 1..Len(l) : l[i] \in Keys
  BY DEF Linked
<1> HIDE DEF r, at
<1>4. Len(l) - 1 \in Nat /\ \A i \in 1..(Len(l) - 1) : r[i] \in Keys
  BY <1>1, <1>2, <1>3
<1>5. r \in Seq(Keys) /\ Len(r) = Len(l) - 1
  BY <1>2, <1>4
<1>6. \A i, j \in 1..Len(r) : r[i] = r[j] => i = j
  BY <1>1, <1>2, <1>3, <1>5 DEF Linked
<1>7. FirstKeys(r, Len(r)) \subseteq FirstKeys(l, Len(l)) \ {k}
  BY <1>1, <1>2, <1>3, <1>5 DEF Linked, FirstKeys
<1>8. FirstKeys(l, Len(l)) \ {k} \subseteq FirstKeys(r, Len(r))
  <2> SUFFICES ASSUME NEW i \in 1..Len(l), l[i] # k
               PROVE  \E j \in 1..Len(r) : r[j] = l[i]
    BY DEF FirstKeys
  <2>1. CASE i < at
    BY <2>1, <1>1, <1>2, <1>3, <1>5
  <2>2. CASE i > at
    <3>1. i - 1 \in 1..Len(r) /\ r[i - 1] = l[i]
      BY <2>2, <1>1, <1>2, <1>3, <1>5
    <3> QED BY <3>1
  <2> QED BY <2>1, <2>2, <1>1, <1>3
<1> QED BY <1>5, <1>6, <1>7, <1>8 DEF Linked, r

\* Unlinking the last key leaves the others in place.
LEMMA RemoveBack ==
    ASSUME NEW l, Linked(l), Len(l) > 0
    PROVE  \A i \in 1..(Len(l) - 1) : Remove(l, l[Len(l)])[i] = l[i]
<1> DEFINE k == l[Len(l)]
<1>1. Len(l) \in Nat /\ k \in FirstKeys(l, Len(l))
  BY DEF Linked, FirstKeys
<1>2. Position(l, k) = Len(l)
  BY <1>1, PositionFound DEF Linked
<1> QED BY <1>1, <1>2 DEF Remove

\* PushFront links a new key first and keeps the others.
LEMMA PushFrontLinks ==
    ASSUME NEW l, Linked(l), NEW k \in Keys, k \notin FirstKeys(l, Len(l))
    PROVE  /\ Linked(PushFront(l, k))
           /\ Len(PushFront(l, k)) = Len(l) + 1
           /\ PushFront(l, k)[1] = k
           /\ FirstKeys(PushFront(l, k), Len(PushFront(l, k)))
                = FirstKeys(l, Len(l)) \cup {k}
<1> DEFINE r == PushFront(l, k)
<1>1. r = [i \in 1..(Len(l) + 1) |-> IF i = 1 THEN k ELSE l[i - 1]]
  BY DEF PushFront
<1>2. Len(l) \in Nat /\ \A i \in 1..Len(l) : l[i] \in Keys /\ l[i] # k
  BY DEF Linked, FirstKeys
<1> HIDE DEF r
<1>3. Len(l) + 1 \in Nat /\ \A i \in 1..(Len(l) + 1) : r[i] \in Keys
  BY <1>1, <1>2
<1>4. r \in Seq(Keys) /\ Len(r) = Len(l) + 1
  BY <1>1, <1>3
<1>5. \A i, j \in 1..Len(r) : r[i] = r[j] => i = j
  BY <1>1, <1>2, <1>4 DEF Linked
<1>6. FirstKeys(r, Len(r)) \subseteq FirstKeys(l, Len(l)) \cup {k}
  BY <1>1, <1>2, <1>4 DEF FirstKeys
<1>7. r[1] = k
  BY <1>1, <1>2
<1>8. FirstKeys(l, Len(l)) \cup {k} \subseteq FirstKeys(r, Len(r))
  <2>1. k \in FirstKeys(r, Len(r))
    BY <1>2, <1>4, <1>7 DEF FirstKeys
  <2>2. ASSUME NEW i \in 1..Len(l) PROVE l[i] \in FirstKeys(r, Len(r))
    <3>1. i + 1 \in 1..Len(r) /\ r[i + 1] = l[i]
      BY <1>1, <1>2, <1>4
    <3> QED BY <3>1 DEF FirstKeys
  <2> QED BY <2>1, <2>2 DEF FirstKeys
<1> QED BY <1>4, <1>5, <1>6, <1>7, <1>8 DEF Linked, r

\* MoveToFront moves k first and loses nothing.
LEMMA MoveToFrontLinks ==
    ASSUME NEW l, Linked(l), NEW k \in FirstKeys(l, Len(l))
    PROVE  /\ Linked(MoveToFront(l, k))
           /\ Len(MoveToFront(l, k)) = Len(l)
           /\ MoveToFront(l, k)[1] = k
           /\ FirstKeys(MoveToFront(l, k), Len(MoveToFront(l, k)))
                = FirstKeys(l, Len(l))
<1>1. k \in Keys /\ Len(l) \in Nat
  BY DEF Linked, FirstKeys
<1> DEFINE r == Remove(l, k)
<1>3. /\ Linked(r)
      /\ Len(r) = Len(l) - 1
      /\ FirstKeys(r, Len(r)) = FirstKeys(l, Len(l)) \ {k}
  BY RemoveUnlinks
<1> HIDE DEF r
<1>4. /\ Linked(PushFront(r, k))
      /\ Len(PushFront(r, k)) = Len(r) + 1
      /\ PushFront(r, k)[1] = k
      /\ FirstKeys(PushFront(r, k), Len(PushFront(r, k)))
           = FirstKeys(r, Len(r)) \cup {k}
  BY <1>1, <1>3, PushFrontLinks
<1>5. MoveToFront(l, k) = PushFront(r, k)
  BY DEF MoveToFront, r
<1>6. FirstKeys(r, Len(r)) \cup {k} = FirstKeys(l, Len(l))
  BY <1>3
<1>7. FirstKeys(MoveToFront(l, k), Len(MoveToFront(l, k))) = FirstKeys(l, Len(l))
  BY <1>4, <1>5, <1>6, Zenon
<1> QED BY <1>1, <1>3, <1>4, <1>5, <1>7

-----------------------------------------------------------------------------
(* Types of what the operators of the policy and of the cache return       *)

\* A retained share is a natural number.
LEMMA RetainedType ==
    ASSUME NEW n \in Nat
    PROVE  Retained(n) \in Nat
<1>1. n * RetentionNum \in Nat
  BY RetentionAssumption
<1>2. ASSUME NEW x \in Nat PROVE x \div RetentionDen \in Nat
  BY RetentionAssumption
<1> QED BY <1>1, <1>2 DEF Retained

\* Counters wrap around within their width.
LEMMA AddType ==
    ASSUME NEW x \in Nat, NEW n \in Nat
    PROVE  Add(x, n) \in Counter
BY ModulusAssumption DEF Add, Counter

\* The watermark updates keep the watermarks natural numbers.
LEMMA WatermarkTypes ==
    ASSUME NEW p \in Watermarks
    PROVE  /\ Clean \in Watermarks
           /\ ClearZeroWatermark(p) \in Watermarks
           /\ \A s \in Samples : SyncZeroWatermark(s) \in {ps, ClearZeroWatermark(ps)}
           /\ \A pressure, valid :
                ResetZeroWatermarkBelowTier2(p, pressure, valid) \in Watermarks
           /\ \A n \in Nat : OnCompacted(p, n) \in Watermarks
           /\ \A n, w \in Nat : OnEntryPut(p, n, w) \in Watermarks
           /\ \A v, w \in Nat : OnEntrySizeUpdated(p, v, w) \in Watermarks
           /\ \A w \in Nat : OnEntryDeleted(p, w) \in Watermarks
<1> USE SlackAssumption
<1>1. Clean \in Watermarks
  BY DEF Clean, Watermarks
<1>2. ClearZeroWatermark(p) \in Watermarks
  BY DEF ClearZeroWatermark, Watermarks
<1>3. \A s \in Samples : SyncZeroWatermark(s) \in {ps, ClearZeroWatermark(ps)}
  BY DEF SyncZeroWatermark
<1>4. \A pressure, valid :
        ResetZeroWatermarkBelowTier2(p, pressure, valid) \in Watermarks
  BY <1>2 DEF ResetZeroWatermarkBelowTier2
<1>p. /\ p.peakEntryLen \in Nat /\ p.deletedSinceCompact \in 0..DeletedCap
      /\ p.zeroSizeCount \in Nat /\ p.lastReclaimedZeroCount \in Nat
      /\ p.lastReclaimedLen \in Nat
  BY DEF Watermarks
<1>m. \A x, y \in Nat : AtMost(x, y) \in Nat /\ AtLeast(x, y) \in Nat
  BY DEF AtMost, AtLeast
<1>5. ASSUME NEW n \in Nat PROVE OnCompacted(p, n) \in Watermarks
  <2>1. /\ AtMost(p.lastReclaimedZeroCount, p.zeroSizeCount) \in Nat
        /\ AtMost(p.lastReclaimedLen, n) \in Nat
    BY <1>p, <1>m
  <2> DEFINE q1 == [p EXCEPT !.deletedSinceCompact = 0]
             q2 == [q1 EXCEPT !.peakEntryLen = n]
             q3 == [q2 EXCEPT !.lastReclaimedZeroCount =
                                AtMost(p.lastReclaimedZeroCount, p.zeroSizeCount)]
             q4 == [q3 EXCEPT !.lastReclaimedLen = AtMost(p.lastReclaimedLen, n)]
             q5 == [q4 EXCEPT !.dirtyIndex = FALSE]
  <2> HIDE DEF q1, q2, q3, q4, q5
  <2>2. q1 \in Watermarks BY DEF Watermarks, q1
  <2>3. q2 \in Watermarks BY <2>2 DEF Watermarks, q2
  <2>4. q3 \in Watermarks BY <2>1, <2>3 DEF Watermarks, q3
  <2>5. q4 \in Watermarks BY <2>1, <2>4 DEF Watermarks, q4
  <2>6. q5 \in Watermarks BY <2>5 DEF Watermarks, q5
  <2>7. OnCompacted(p, n) = q5
    BY DEF OnCompacted, q1, q2, q3, q4, q5, Watermarks
  <2> QED BY <2>6, <2>7
<1>6. ASSUME NEW n \in Nat, NEW w \in Nat PROVE OnEntryPut(p, n, w) \in Watermarks
  <2> DEFINE z == IF w = 0 THEN p.zeroSizeCount + 1 ELSE p.zeroSizeCount
  <2>1. AtLeast(p.peakEntryLen, n) \in Nat
    BY <1>p, <1>m
  <2>2. z \in Nat
    BY <1>p
  <2>3. OnEntryPut(p, n, w) = [p EXCEPT !.peakEntryLen = AtLeast(@, n),
                                        !.zeroSizeCount = z]
    BY DEF OnEntryPut
  <2> HIDE DEF z
  <2> QED BY <2>1, <2>2, <2>3 DEF Watermarks
<1>7. ASSUME NEW q \in Watermarks, q.zeroSizeCount > 0
      PROVE  OneZeroFewer(q) \in Watermarks
  <2>1. q.zeroSizeCount - 1 \in Nat /\ q.lastReclaimedZeroCount \in Nat
    BY <1>7 DEF Watermarks
  <2>2. AtMost(q.lastReclaimedZeroCount, q.zeroSizeCount - 1) \in Nat
    BY <2>1, <1>m
  <2> QED BY <2>1, <2>2 DEF OneZeroFewer, Watermarks
<1>8. ASSUME NEW v \in Nat, NEW w \in Nat
      PROVE  OnEntrySizeUpdated(p, v, w) \in Watermarks
  <2> DEFINE z == p.zeroSizeCount + 1
  <2>z. z \in Nat
    BY <1>p
  <2> HIDE DEF z
  <2>y. [p EXCEPT !.zeroSizeCount = z, !.lastReclaimedLen = 0] \in Watermarks
    BY <2>z DEF Watermarks
  <2>1. [p EXCEPT !.zeroSizeCount = @ + 1, !.lastReclaimedLen = 0] \in Watermarks
    BY <2>y DEF z
  <2> QED BY <2>1, <1>7 DEF OnEntrySizeUpdated
<1>9. ASSUME NEW w \in Nat PROVE OnEntryDeleted(p, w) \in Watermarks
  <2> DEFINE q == [p EXCEPT !.deletedSinceCompact = CountDeleted(p, 1),
                            !.dirtyIndex = TRUE]
  <2>1. CountDeleted(p, 1) \in 0..DeletedCap
    BY <1>p DEF CountDeleted, AtMost
  <2>2. q \in Watermarks /\ q.zeroSizeCount = p.zeroSizeCount
    BY <2>1 DEF Watermarks
  <2>3. OnEntryDeleted(p, w) =
          IF w = 0 /\ p.zeroSizeCount > 0 THEN OneZeroFewer(q)
          ELSE IF w > 0 THEN [q EXCEPT !.lastReclaimedLen = 0] ELSE q
    BY DEF OnEntryDeleted
  <2> HIDE DEF q
  <2>4. [q EXCEPT !.lastReclaimedLen = 0] \in Watermarks
    BY <2>2 DEF Watermarks
  <2>5. p.zeroSizeCount > 0 => OneZeroFewer(q) \in Watermarks
    BY <2>2, <1>7
  <2> QED BY <2>2, <2>3, <2>4, <2>5
<1> QED BY <1>1, <1>2, <1>3, <1>4, <1>5, <1>6, <1>8, <1>9

\* The telemetry updates keep every counter within its width.
LEMMA StatTypes ==
    ASSUME NEW s \in StatRecords, NEW w \in Nat
    PROVE  /\ \A r \in Reasons, n \in Nat : RecordEvictions(s, r, n, w) \in StatRecords
           /\ Admit(s, w) \in StatRecords
           /\ [s EXCEPT !.putInserted = Add(@, 1)] \in StatRecords
           /\ [s EXCEPT !.putUpdated = Add(@, 1)] \in StatRecords
           /\ [s EXCEPT !.replaceUpdated = Add(@, 1)] \in StatRecords
<1>1. \A x \in Counter : x \in Nat
  BY ModulusAssumption DEF Counter
<1>2. \A x \in Counter, n \in Nat : Add(x, n) \in Counter
  BY <1>1, AddType
<1>3. \A r \in Reasons, n \in Nat : RecordEvictions(s, r, n, w) \in StatRecords
  BY <1>2 DEF RecordEvictions, StatRecords
<1> QED BY <1>2, <1>3 DEF Admit, StatRecords

\* The locals of an operation that starts are well typed.
LEMMA BeginType ==
    ASSUME TypeOK, NEW kind \in Ops, NEW k \in Keys \cup {NoKey}, NEW w \in Nat,
           NEW s \in Samples
    PROVE  /\ NoOp \in OpRecords
           /\ Begin(kind, k, w, s) \in OpRecords
           /\ Begin(kind, k, w, s).key = k
           /\ Begin(kind, k, w, s).newSize = w
<1>1. [pressure |-> Normal, valid |-> FALSE, recovered |-> FALSE] \in Samples
  BY DEF Samples, Levels, Normal, Tier1, Tier2
<1>2. NoOp \in OpRecords
  BY <1>1 DEF NoOp, OpRecords, Ops, NoTargets, ShedTargets
<1>3. /\ currentSize \in Nat /\ entries \in Seq(Keys) /\ size \in [Keys -> Nat]
      /\ settled \in BOOLEAN
  BY MaxSizeAssumption DEF TypeOK
<1>4. Begin(kind, k, w, s) \in OpRecords
  <2>1. (settled /\ s.valid /\ ~s.recovered /\ s.pressure = Tier2) \in BOOLEAN
    OBVIOUS
  <2> QED BY <1>2, <1>3, <2>1 DEF Begin, OpRecords
<1> QED BY <1>2, <1>4 DEF Begin, NoOp

\* Recording an event, a compaction or a reclaim keeps the locals well typed.
LEMMA RecordTypes ==
    ASSUME NEW o \in OpRecords
    PROVE  /\ \A k \in Keys, r \in Reasons : Enqueue(o, k, r) \in OpRecords
           /\ \A recorded : RecordCompaction(o, recorded) \in OpRecords
           /\ \A marked : MarkReclaimed(o, marked) \in OpRecords
<1>1. \A k \in Keys, r \in Reasons :
        Append(o.evictQ, [key |-> k, reason |-> r]) \in Seq(Events)
  BY DEF OpRecords, Events
<1>2. \A k \in Keys, r \in Reasons : Enqueue(o, k, r) \in OpRecords
  BY <1>1 DEF Enqueue, OpRecords
<1>3. /\ [o EXCEPT !.compactions = @ + 1] \in OpRecords
      /\ [o EXCEPT !.marks = @ + 1] \in OpRecords
  <2> DEFINE y == o.compactions + 1
             z == o.marks + 1
  <2>1. y \in Nat /\ z \in Nat
    BY DEF OpRecords
  <2> HIDE DEF y, z
  <2>2. [o EXCEPT !.compactions = y] \in OpRecords
    BY <2>1 DEF OpRecords
  <2>3. [o EXCEPT !.marks = z] \in OpRecords
    BY <2>1 DEF OpRecords
  <2> QED BY <2>2, <2>3 DEF y, z
<1> QED BY <1>2, <1>3 DEF RecordCompaction, MarkReclaimed

\* The shedding targets are natural numbers, and so is what shedding records.
LEMMA ShedTypes ==
    ASSUME NEW p \in Watermarks, NEW n \in Nat, NEW w \in Nat
    PROVE  /\ \A prot \in BOOLEAN : ComputeShedTargets(p, n, prot, w) \in ShedTargets
           /\ \A u : \A t \in ShedTargets :
                UpdateZeroWatermarkAfterShed(p, n, u, t) \in Watermarks
<1>1. /\ p.zeroSizeCount \in Nat /\ p.lastReclaimedZeroCount \in Nat
      /\ p.lastReclaimedLen \in Nat
  BY DEF Watermarks
<1>2. /\ Retained(n) \in Nat /\ Retained(p.zeroSizeCount) \in Nat
      /\ Retained(MaxSize) \in Nat
  BY <1>1, RetainedType, MaxSizeAssumption
<1>3. ASSUME NEW x \in Nat, NEW y \in Nat
      PROVE  AtMost(x, y) \in Nat /\ AtLeast(x, y) \in Nat
  BY DEF AtMost, AtLeast
<1>4. TargetSize \in Nat
  BY <1>2, <1>3 DEF TargetSize
<1>5. ASSUME NEW prot \in BOOLEAN
      PROVE  ComputeShedTargets(p, n, prot, w) \in ShedTargets
  <2> DEFINE zt == AtLeast(Retained(p.zeroSizeCount), p.lastReclaimedZeroCount)
             rl == AtLeast(Retained(n), p.lastReclaimedLen)
             ef == AtLeast(TargetSize, w)
             z1 == AtLeast(zt, 1)
  <2>1. zt \in Nat /\ rl \in Nat /\ ef \in Nat
    BY <1>1, <1>2, <1>3, <1>4
  <2>2. z1 \in Nat
    BY <2>1, <1>3
  <2> HIDE DEF zt, rl, ef, z1
  <2> DEFINE t == [effective |-> IF prot THEN ef ELSE TargetSize,
                   len |-> IF p.zeroSizeCount = 0 \/ n = 0 THEN 0
                           ELSE IF prot /\ w > TargetSize THEN Retained(n)
                                ELSE rl,
                   zero |-> IF p.zeroSizeCount = 0 THEN 0
                            ELSE IF prot /\ w = 0 THEN z1 ELSE zt,
                   unprotectedZero |-> IF p.zeroSizeCount = 0 THEN 0 ELSE zt]
  <2>3. t \in ShedTargets
    BY <2>1, <2>2, <1>1, <1>2, <1>4 DEF ShedTargets
  <2>4. ComputeShedTargets(p, n, prot, w) = IF FullFlush THEN NoTargets ELSE t
    BY DEF ComputeShedTargets, zt, rl, ef, z1
  <2>5. NoTargets \in ShedTargets
    BY DEF NoTargets, ShedTargets
  <2> QED BY <2>3, <2>4, <2>5
<1>6. ASSUME NEW t \in ShedTargets, NEW u
      PROVE  UpdateZeroWatermarkAfterShed(p, n, u, t) \in Watermarks
  <2> DEFINE y == AtMost(p.zeroSizeCount, t.unprotectedZero)
             z == IF u /\ n > p.zeroSizeCount THEN AtMost(n, t.len) ELSE 0
  <2>1. y \in Nat /\ AtMost(n, t.len) \in Nat
    BY <1>1, <1>3 DEF ShedTargets
  <2>2. z \in Nat
    BY <2>1
  <2>3. UpdateZeroWatermarkAfterShed(p, n, u, t) =
          IF ~FullFlush /\ p.zeroSizeCount > 0
          THEN [p EXCEPT !.lastReclaimedZeroCount = y, !.lastReclaimedLen = z]
          ELSE ClearZeroWatermark(p)
    BY DEF UpdateZeroWatermarkAfterShed
  <2> HIDE DEF y, z
  <2>4. [p EXCEPT !.lastReclaimedZeroCount = y, !.lastReclaimedLen = z]
          \in Watermarks
    BY <2>1, <2>2 DEF Watermarks
  <2>5. ClearZeroWatermark(p) \in Watermarks
    BY DEF ClearZeroWatermark, Watermarks
  <2> QED BY <2>3, <2>4, <2>5
<1> QED BY <1>5, <1>6

-----------------------------------------------------------------------------
(* The inductive invariant                                                 *)

(***************************************************************************)
(* TypeOK alone is not inductive: that currentSize stays a natural number  *)
(* when an entry leaves needs SizeParity, SizeParity needs the list and    *)
(* the index to agree, and the budget is kept by Replace only because what *)
(* canFitGrowthLocked promised still holds after each eviction.  Shape     *)
(* says what the locals of the operation in flight refer to.               *)
(***************************************************************************)
Shape ==
    /\ pc \in {"update", "insert", "grow"} =>
         op.key \in Keys /\ op.newSize <= MaxSize
    /\ pc \in {"update", "grow"} => op.key \in index
    /\ pc = "update" => entries[1] = op.key
    /\ pc = "insert" => op.key \notin index
    /\ pc = "prefix" => op.todo \subseteq index
    /\ pc = "shed" => op.cursor <= Len(entries)

IndInv ==
    /\ TypeOK
    /\ ListMatchesIndex
    /\ SizeParity
    /\ CapacityBound
    /\ ReplaceGrowthFits
    /\ Shape

\* The stages at which the locals refer to nothing in the cache.
Quiet == {"idle", "deleted", "reclaim", "completeShed", "finish", "unlock"}

\* A step that leaves the entries alone and ends in a quiet stage.
LEMMA QuietStep ==
    ASSUME IndInv, pc # "update", pc' \in Quiet,
           UNCHANGED <<entries, index, size, currentSize>>,
           ps' \in Watermarks, stats' \in StatRecords, op' \in OpRecords,
           settled' \in BOOLEAN
    PROVE  IndInv'
<1>1. TypeOK'
  BY DEF IndInv, TypeOK, Quiet, Stage
<1>2. ListMatchesIndex'
  BY DEF IndInv, ListMatchesIndex
<1>3. SizeParity'
  BY DEF IndInv, SizeParity, Quiet
<1>4. CapacityBound'
  BY DEF IndInv, CapacityBound
<1>5. ReplaceGrowthFits' /\ Shape'
  BY DEF Quiet, ReplaceGrowthFits, Shape
<1> QED BY <1>1, <1>2, <1>3, <1>4, <1>5 DEF IndInv

\* The list part of the invariant, as the lemmas about lists want it.
LEMMA InvLinked ==
    ASSUME IndInv
    PROVE  /\ Linked(entries)
           /\ FirstKeys(entries, Len(entries)) = index
           /\ index \in SUBSET Keys
           /\ Len(entries) \in Nat
           /\ \A i \in 1..Len(entries) : entries[i] \in index
<1>1. Linked(entries) /\ FirstKeys(entries, Len(entries)) = index
      /\ index \in SUBSET Keys
  BY DEF IndInv, TypeOK, ListMatchesIndex, Linked
<1>2. Len(entries) \in Nat
  BY DEF IndInv, TypeOK
<1>3. \A i \in 1..Len(entries) : entries[i] \in FirstKeys(entries, Len(entries))
  BY DEF FirstKeys
<1>4. \A i \in 1..Len(entries) : entries[i] \in index
  BY <1>1, <1>3, Zenon
<1> QED BY <1>1, <1>2, <1>4

\* The weights part: sizes, their total, and the list entry behind a key.
LEMMA InvWeights ==
    ASSUME IndInv
    PROVE  /\ size \in Sizes
           /\ MaxSize \in Nat
           /\ currentSize \in Nat
           /\ \A k \in Keys : size[k] \in Nat /\ size[k] <= MaxSize
           /\ \A k \in index : \E i \in 1..Len(entries) : entries[i] = k
<1>1. size \in Sizes /\ MaxSize \in Nat /\ currentSize \in Nat
  BY MaxSizeAssumption DEF IndInv, TypeOK, Sizes
<1>2. \A k \in Keys : size[k] \in Nat /\ size[k] <= MaxSize
  BY <1>1 DEF Sizes
<1>3. FirstKeys(entries, Len(entries)) = index
  BY InvLinked
<1>4. \A k \in index : \E i \in 1..Len(entries) : entries[i] = k
  BY <1>3 DEF FirstKeys
<1> QED BY <1>1, <1>2, <1>4

\* Outside the eviction loop of an update, currentSize is the total weight.
LEMMA InvParity ==
    ASSUME IndInv, pc # "update"
    PROVE  /\ currentSize = TotalWeight(index, size)
           /\ \A k \in index : size[k] <= currentSize
<1>1. currentSize = TotalWeight(index, size)
  BY InvWeights DEF IndInv, SizeParity
<1>2. ASSUME NEW k \in index PROVE size[k] <= TotalWeight(index, size)
  BY InvLinked, InvWeights, WeightWithout
<1> QED BY <1>1, <1>2

\* What eraseEntryLocked does to the cache: the entry of k is gone from the list,
\* the index and the total, and nothing else is.
LEMMA EraseEffect ==
    ASSUME IndInv, NEW k \in index, NEW reason \in Reasons,
           NEW p \in Watermarks, NEW o \in OpRecords,
           EraseEntryLocked(k, reason, p, o)
    PROVE  /\ Linked(entries')
           /\ Len(entries') = Len(entries) - 1
           /\ FirstKeys(entries', Len(entries')) = index'
           /\ index' = index \ {k}
           /\ size' \in Sizes
           /\ \A j \in Keys : j # k => size'[j] = size[j]
           /\ currentSize' = currentSize - size[k]
           /\ TotalWeight(index', size') = TotalWeight(index, size) - size[k]
           /\ ps' \in Watermarks
           /\ stats' \in StatRecords
           /\ op' = Enqueue(o, k, reason)
           /\ op' \in OpRecords
<1> USE DEF EraseEntryLocked
<1>1. k \in Keys /\ Linked(entries)
  BY InvLinked
<1>2. k \in FirstKeys(entries, Len(entries))
  BY InvLinked, Zenon
<1>3. Linked(entries') /\ Len(entries') = Len(entries) - 1
  BY <1>1, <1>2, RemoveUnlinks
<1>4. FirstKeys(entries', Len(entries')) = FirstKeys(entries, Len(entries)) \ {k}
  BY <1>1, <1>2, RemoveUnlinks
<1>5. FirstKeys(entries', Len(entries')) = index'
  BY <1>4, InvLinked, Zenon
<1>6. size' \in Sizes /\ \A j \in Keys : j # k => size'[j] = size[j]
  BY <1>1, InvWeights DEF Sizes
<1>7. TotalWeight(index, size) = TotalWeight(index \ {k}, size) + size[k]
  BY InvLinked, InvWeights, WeightWithout
<1>8. TotalWeight(index \ {k}, size') = TotalWeight(index \ {k}, size)
  <2>1. index \ {k} \in SUBSET Keys
    BY InvLinked
  <2>2. \A j \in index \ {k} : size'[j] = size[j]
    BY <2>1, <1>6
  <2> QED BY <2>1, <2>2, WeightCongruence
<1>9. TotalWeight(index \ {k}, size) \in Nat /\ size[k] \in Nat
  BY <1>1, InvLinked, InvWeights, CellsFinite
<1>10. TotalWeight(index', size') = TotalWeight(index, size) - size[k]
  <2>1. TotalWeight(index', size') = TotalWeight(index \ {k}, size')
    BY Zenon
  <2> QED BY <2>1, <1>7, <1>8, <1>9
<1>11. ps' \in Watermarks
  BY <1>9, WatermarkTypes
<1>12. stats' \in StatRecords
  BY <1>9, StatTypes DEF IndInv, TypeOK
<1>13. op' \in OpRecords
  BY <1>1, RecordTypes
<1> QED BY <1>3, <1>5, <1>6, <1>10, <1>11, <1>12, <1>13

\* An erasure keeps the list, the total and the budget in order, in the eviction
\* loop of an update (where the updated entry is not in the total) as elsewhere.
LEMMA EraseKeeps ==
    ASSUME IndInv, NEW k \in index, NEW reason \in Reasons,
           NEW p \in Watermarks, NEW o \in OpRecords,
           EraseEntryLocked(k, reason, p, o),
           pc' \in Stage, settled' \in BOOLEAN,
           \/ pc # "update" /\ pc' # "update"
           \/ pc = "update" /\ pc' = "update" /\ k # op.key /\ o.key = op.key
    PROVE  TypeOK' /\ ListMatchesIndex' /\ SizeParity' /\ CapacityBound'
<1> DEFINE held == IF pc = "update" THEN size[op.key] ELSE 0
<1>1. /\ k \in Keys /\ index \in SUBSET Keys
      /\ pc = "update" => op.key \in index /\ op.key \in Keys
  BY InvLinked DEF IndInv, Shape
<1>2. currentSize + held = TotalWeight(index, size)
  BY DEF IndInv, SizeParity
<1>3. TotalWeight(index, size) = TotalWeight(index \ {k}, size) + size[k]
  BY <1>1, InvWeights, WeightWithout
<1>4. TotalWeight(index \ {k}, size) \in Nat /\ held <= TotalWeight(index \ {k}, size)
  <2>1. index \ {k} \in SUBSET Keys
    BY <1>1
  <2>2. TotalWeight(index \ {k}, size) \in Nat
    BY <2>1, InvWeights, CellsFinite
  <2>3. CASE pc = "update"
    <3>1. op.key \in index \ {k}
      BY <2>3, <1>1
    <3> QED BY <2>1, <2>2, <2>3, <3>1, InvWeights, WeightWithout
  <2>4. CASE pc # "update"
    BY <2>2, <2>4
  <2> QED BY <2>2, <2>3, <2>4
<1>5. /\ currentSize \in Nat /\ size[k] \in Nat /\ held \in Nat
      /\ currentSize <= MaxSize /\ MaxSize \in Nat
  BY <1>1, InvWeights DEF IndInv, CapacityBound
<1>6. currentSize' = currentSize - size[k] /\ currentSize' \in Nat
  BY <1>2, <1>3, <1>4, <1>5, EraseEffect
<1>7. CapacityBound'
  BY <1>5, <1>6 DEF CapacityBound
<1>8. TypeOK'
  <2>1. entries' \in Seq(Keys)
    BY EraseEffect DEF Linked
  <2>2. index' \in SUBSET Keys
    BY <1>1, EraseEffect
  <2>3. size' \in [Keys -> 0..MaxSize]
    BY EraseEffect DEF Sizes
  <2>4. ps' \in Watermarks /\ stats' \in StatRecords /\ op' \in OpRecords
    BY EraseEffect
  <2> QED BY <2>1, <2>2, <2>3, <2>4, <1>6 DEF TypeOK
<1>9. ListMatchesIndex'
  BY EraseEffect DEF ListMatchesIndex, Linked
<1>10. SizeParity'
  <2>1. TotalWeight(index', size') = TotalWeight(index, size) - size[k]
    BY EraseEffect
  <2>2. CASE pc # "update" /\ pc' # "update"
    BY <2>1, <2>2, <1>2, <1>3, <1>4, <1>5, <1>6 DEF SizeParity
  <2>3. CASE pc = "update" /\ pc' = "update" /\ k # op.key /\ o.key = op.key
    <3>1. op'.key = op.key
      <4>1. op' = Enqueue(o, k, reason)
        BY EraseEffect
      <4> QED BY <4>1, <2>3 DEF Enqueue, OpRecords
    <3>2. size'[op.key] = size[op.key]
      BY <1>1, <2>3, EraseEffect
    <3> QED BY <2>1, <2>3, <3>1, <3>2, <1>2, <1>3, <1>4, <1>5, <1>6
            DEF SizeParity
  <2> QED BY <2>2, <2>3
<1> QED BY <1>7, <1>8, <1>9, <1>10

\* An erasure that ends in a quiet stage keeps the whole invariant.
LEMMA EraseToQuiet ==
    ASSUME IndInv, NEW k \in index, NEW reason \in Reasons,
           NEW p \in Watermarks, NEW o \in OpRecords,
           EraseEntryLocked(k, reason, p, o),
           pc # "update", pc' \in Quiet, settled' \in BOOLEAN
    PROVE  IndInv'
<1>1. TypeOK' /\ ListMatchesIndex' /\ SizeParity' /\ CapacityBound'
  BY EraseKeeps DEF Quiet, Stage
<1>2. ReplaceGrowthFits' /\ Shape'
  BY DEF Quiet, ReplaceGrowthFits, Shape
<1> QED BY <1>1, <1>2 DEF IndInv

-----------------------------------------------------------------------------
(* Every step keeps the invariant, operation by operation                  *)

\* The watermarks an operation starts from, and its sample and weight.
LEMMA CallTypes ==
    ASSUME IndInv
    PROVE  /\ ps \in Watermarks /\ stats \in StatRecords /\ op \in OpRecords
           /\ \A s \in Samples : SyncZeroWatermark(s) \in Watermarks
           /\ Len(entries) \in Nat
           /\ \A w \in Weights : w \in Nat
           /\ settled \in BOOLEAN /\ pc \in Stage
<1>1. ps \in Watermarks
  BY DEF IndInv, TypeOK
<1>2. \A s \in Samples : SyncZeroWatermark(s) \in Watermarks
  BY <1>1, WatermarkTypes
<1> QED BY <1>1, <1>2, WeightsAssumption DEF IndInv, TypeOK

\* Put on a cached key, up to the eviction loop.
LEMMA PutExistingKeeps ==
    ASSUME IndInv, NEW k \in Keys, NEW w \in Weights, NEW s \in Samples,
           PutExisting(k, w, s)
    PROVE  IndInv'
<1> DEFINE b == Begin("Put", k, w, s)
           z == ShouldEvictOnZeroWeightShrink(SyncZeroWatermark(s), size[k], w)
<1>1. k \in index /\ w <= MaxSize /\ w \in Nat /\ pc = "idle" /\ pc' = "update"
  BY CallTypes DEF PutExisting
<1>2. b \in OpRecords /\ b.key = k /\ b.newSize = w
  BY <1>1, BeginType DEF IndInv, Ops
<1>3. op' = [b EXCEPT !.hadZeroCap = z] /\ z \in BOOLEAN
  BY DEF PutExisting, ShouldEvictOnZeroWeightShrink
<1> HIDE DEF b, z
<1>4. op' \in OpRecords /\ op'.key = k /\ op'.newSize = w
  BY <1>2, <1>3 DEF OpRecords
<1>5. ps' \in Watermarks
  <2>1. SyncZeroWatermark(s) \in Watermarks /\ size[k] \in Nat
    BY CallTypes, InvWeights
  <2> QED BY <2>1, <1>1, WatermarkTypes DEF PutExisting
<1>6. k \in FirstKeys(entries, Len(entries))
  BY <1>1, InvLinked, Zenon
<1>7. /\ Linked(entries') /\ entries'[1] = k
      /\ FirstKeys(entries', Len(entries')) = FirstKeys(entries, Len(entries))
  BY <1>6, InvLinked, MoveToFrontLinks DEF PutExisting
<1>8. FirstKeys(entries', Len(entries')) = index
  BY <1>7, InvLinked, Zenon
<1>9. UNCHANGED <<index, size, stats>> /\ currentSize' = currentSize - size[k]
      /\ settled' = FALSE
  BY DEF PutExisting
<1>10. currentSize \in Nat /\ size[k] \in Nat /\ currentSize <= MaxSize
       /\ MaxSize \in Nat
  BY InvWeights DEF IndInv, CapacityBound
<1>11. currentSize = TotalWeight(index, size) /\ size[k] <= currentSize
  BY <1>1, InvParity
<1>12. TypeOK'
  <2>1. entries' \in Seq(Keys)
    BY <1>7 DEF Linked
  <2>2. currentSize' \in Nat
    BY <1>9, <1>10, <1>11
  <2> QED BY <2>1, <2>2, <1>1, <1>4, <1>5, <1>9 DEF IndInv, TypeOK, Stage
<1>13. ListMatchesIndex'
  BY <1>7, <1>8, <1>9 DEF ListMatchesIndex, Linked
<1>14. SizeParity' /\ CapacityBound'
  BY <1>1, <1>4, <1>9, <1>10, <1>11 DEF SizeParity, CapacityBound
<1>15. ReplaceGrowthFits' /\ Shape'
  BY <1>1, <1>4, <1>7, <1>9 DEF ReplaceGrowthFits, Shape
<1> QED BY <1>12, <1>13, <1>14, <1>15 DEF IndInv

\* The key at the end of a list that is not empty.
LEMMA BackProperties ==
    ASSUME IndInv, Len(entries) > 0
    PROVE  Back \in index /\ Back \in Keys
BY InvLinked DEF Back

\* Marking the eviction in the locals.
LEMMA EvictedType ==
    ASSUME NEW o \in OpRecords, NEW k \in Keys, NEW r \in Reasons
    PROVE  LET e == [o EXCEPT !.evictedPre = TRUE]
               q == Enqueue(e, k, r)
           IN  /\ e \in OpRecords /\ e.key = o.key
               /\ q.key = o.key /\ q.newSize = o.newSize
BY DEF Enqueue, OpRecords

\* The eviction loop of an update.
LEMMA UpdateEvictKeeps ==
    ASSUME IndInv, UpdateEvict
    PROVE  IndInv'
<1> DEFINE o == [op EXCEPT !.evictedPre = TRUE]
<1>1. /\ pc = "update" /\ UNCHANGED <<pc, settled>> /\ Len(entries) > 1
      /\ EraseEntryLocked(Back, "Capacity", ps, o)
  BY DEF UpdateEvict, UpdateNeedsRoom
<1>2. Back \in index /\ Back \in Keys
  BY <1>1, BackProperties, InvLinked
<1>3. /\ entries[1] = op.key /\ op.key \in index /\ op.key \in Keys
      /\ op.newSize <= MaxSize
  BY <1>1 DEF IndInv, Shape
<1>4. Back # op.key
  BY <1>1, <1>3, InvLinked DEF Back, Linked
<1>5. o \in OpRecords /\ o.key = op.key
  BY <1>2, CallTypes, EvictedType DEF Reasons
<1>6. op' = Enqueue(o, Back, "Capacity") /\ op'.key = op.key
      /\ op'.newSize = op.newSize
  BY <1>1, <1>2, CallTypes, EvictedType DEF EraseEntryLocked, Reasons
<1> HIDE DEF o
<1>7. TypeOK' /\ ListMatchesIndex' /\ SizeParity' /\ CapacityBound'
  BY <1>1, <1>2, <1>4, <1>5, CallTypes, EraseKeeps DEF Reasons
<1>8. index' = index \ {Back}
  BY <1>1 DEF EraseEntryLocked
<1>9. entries'[1] = op.key
  <2>1. entries' = Remove(entries, entries[Len(entries)])
    BY <1>1 DEF EraseEntryLocked, Back
  <2> QED BY <2>1, <1>1, <1>3, InvLinked, RemoveBack
<1>10. ReplaceGrowthFits' /\ Shape'
  BY <1>1, <1>3, <1>4, <1>6, <1>8, <1>9 DEF ReplaceGrowthFits, Shape
<1> QED BY <1>7, <1>10 DEF IndInv

\* Storing the new weight of a cached key that fits the budget.
LEMMA StoreKeeps ==
    ASSUME IndInv, op.key \in index, op.newSize <= MaxSize, pc' \in Quiet,
           NEW counted \in StatRecords, NEW newCurrent,
           StoreReplacement(newCurrent, counted),
           newCurrent = TotalWeight(index, size) - size[op.key] + op.newSize,
           newCurrent <= MaxSize,
           UNCHANGED <<entries, index, settled>>,
           ps' \in Watermarks, op' \in OpRecords
    PROVE  IndInv'
<1>1. op.key \in Keys /\ op.newSize \in 0..MaxSize /\ index \in SUBSET Keys
  BY InvLinked, CallTypes, MaxSizeAssumption DEF OpRecords
<1>2. size' = [size EXCEPT ![op.key] = op.newSize] /\ currentSize' = newCurrent
  BY DEF StoreReplacement
<1>3. size' \in Sizes /\ TotalWeight(index, size') = newCurrent
  <2> DEFINE sy == [size EXCEPT ![op.key] = op.newSize]
  <2>1. /\ sy \in Sizes
        /\ TotalWeight(index, sy)
             = TotalWeight(index, size) - size[op.key] + op.newSize
    <3>1. size \in Sizes
      BY InvWeights
    <3> QED BY <1>1, <3>1, WeightUpdate, Zenon
  <2> HIDE DEF sy
  <2>2. size' = sy
    BY <1>2 DEF sy
  <2> QED BY <2>1, <2>2
<1>4. newCurrent \in Nat
  BY <1>1, <1>3, CellsFinite
<1>5. size[op.key] \in Nat /\ op.newSize \in Nat
  BY <1>1, InvWeights
<1>6. stats' \in StatRecords
  <2>1. RecordEvictions(counted, "Replaced", 1, size[op.key]) \in StatRecords
    BY <1>5, StatTypes DEF Reasons
  <2> QED BY <2>1, <1>5, StatTypes DEF StoreReplacement
<1>7. TypeOK'
  BY <1>2, <1>3, <1>4, <1>6 DEF IndInv, TypeOK, Quiet, Stage, Sizes
<1>8. ListMatchesIndex'
  BY DEF IndInv, ListMatchesIndex
<1>9. SizeParity' /\ CapacityBound'
  BY <1>2, <1>3, <1>4 DEF SizeParity, CapacityBound, Quiet
<1>10. ReplaceGrowthFits' /\ Shape'
  BY DEF Quiet, ReplaceGrowthFits, Shape
<1> QED BY <1>7, <1>8, <1>9, <1>10 DEF IndInv

\* The locals after a replacement has been stored.
LEMMA StoredType ==
    ASSUME NEW o \in OpRecords, NEW k \in Keys, NEW r \in BOOLEAN
    PROVE  [Enqueue(o, k, "Replaced") EXCEPT !.reclaimedPre = r, !.protected = k]
               \in OpRecords
<1>1. Enqueue(o, k, "Replaced") \in OpRecords
  BY RecordTypes DEF Reasons
<1> QED BY <1>1 DEF OpRecords

\* The end of an update: the loop has made room, or only the entry is left.
LEMMA UpdateStoreKeeps ==
    ASSUME IndInv, UpdateStore
    PROVE  IndInv'
<1>1. /\ pc = "update" /\ ~UpdateNeedsRoom /\ UNCHANGED <<entries, index, ps, settled>>
      /\ op.key \in index /\ op.key \in Keys /\ op.newSize <= MaxSize
      /\ entries[1] = op.key
  BY DEF UpdateStore, IndInv, Shape
<1>2. PICK elevated \in BOOLEAN, r \in BOOLEAN :
        /\ StoreReplacement(currentSize + op.newSize,
                            [stats EXCEPT !.putUpdated = Add(@, 1)])
        /\ op' = [Enqueue(op, op.key, "Replaced") EXCEPT
                    !.reclaimedPre = r, !.protected = op.key]
        /\ pc' = AfterMutation(r, currentSize + op.newSize)
  <2>1. Elevated(op.sample.pressure) \subseteq BOOLEAN
    BY DEF Elevated
  <2>2. \A n, e, z, x, y, elevated :
          ShouldReclaimSingleSurvivorOnMutation(ps, n, e, z, x, y, elevated)
            \in BOOLEAN
    BY DEF ShouldReclaimSingleSurvivorOnMutation
  <2> QED BY <2>1, <2>2, Zenon DEF UpdateStore
<1>3. [stats EXCEPT !.putUpdated = Add(@, 1)] \in StatRecords
  BY CallTypes, StatTypes
<1>4. op' \in OpRecords
  BY <1>1, <1>2, CallTypes, StoredType
<1>5. pc' \in Quiet
  BY <1>2 DEF AfterMutation, Quiet
<1>6. /\ currentSize \in Nat /\ size[op.key] \in Nat /\ op.newSize \in Nat
      /\ MaxSize \in Nat
  BY <1>1, InvWeights, CallTypes DEF OpRecords
<1>7. currentSize + size[op.key] = TotalWeight(index, size)
  BY <1>1 DEF IndInv, SizeParity
<1>8. currentSize + op.newSize <= MaxSize
  <2>1. CASE op.newSize <= MaxSize - currentSize
    BY <2>1, <1>6
  <2>2. CASE Len(entries) <= 1
    <3>1. index = {op.key}
      <4>1. \A k \in index : k = op.key
        BY <1>1, <2>2, InvLinked, InvWeights
      <4> QED BY <4>1, <1>1
    <3>2. TotalWeight(index, size) = size[op.key]
      BY <3>1, <1>1, InvWeights, WeightOfKey, Zenon
    <3> QED BY <3>2, <1>1, <1>6, <1>7
  <2>3. Len(entries) \in Nat
    BY CallTypes
  <2> QED BY <2>1, <2>2, <2>3, <1>1, <1>6 DEF UpdateNeedsRoom
<1>9. currentSize + op.newSize = TotalWeight(index, size) - size[op.key] + op.newSize
  BY <1>6, <1>7
<1> QED BY <1>1, <1>2, <1>3, <1>4, <1>5, <1>8, <1>9, CallTypes, StoreKeeps

\* Put on a new key, up to the eviction loop.
LEMMA PutNewKeeps ==
    ASSUME IndInv, NEW k \in Keys, NEW w \in Weights, NEW s \in Samples,
           PutNew(k, w, s)
    PROVE  IndInv'
<1>1. /\ k \notin index /\ w <= MaxSize /\ w \in Nat
      /\ pc = "idle" /\ pc' = "insert" /\ settled' = FALSE
      /\ UNCHANGED <<entries, index, size, currentSize, stats>>
      /\ op' = Begin("Put", k, w, s) /\ ps' = SyncZeroWatermark(s)
  BY CallTypes DEF PutNew
<1>2. op' \in OpRecords /\ op'.key = k /\ op'.newSize = w
  BY <1>1, BeginType DEF IndInv, Ops
<1>3. ps' \in Watermarks
  BY <1>1, CallTypes
<1>4. TypeOK'
  BY <1>1, <1>2, <1>3 DEF IndInv, TypeOK, Stage
<1>5. ListMatchesIndex' /\ SizeParity' /\ CapacityBound'
  BY <1>1 DEF IndInv, ListMatchesIndex, SizeParity, CapacityBound
<1>6. ReplaceGrowthFits' /\ Shape'
  BY <1>1, <1>2 DEF ReplaceGrowthFits, Shape
<1> QED BY <1>4, <1>5, <1>6 DEF IndInv

\* The eviction loop of an insertion.
LEMMA InsertEvictKeeps ==
    ASSUME IndInv, InsertEvict
    PROVE  IndInv'
<1> DEFINE o == [op EXCEPT !.evictedPre = TRUE]
<1>1. /\ pc = "insert" /\ UNCHANGED <<pc, settled>> /\ Len(entries) > 0
      /\ EraseEntryLocked(Back, "Capacity", ps, o)
  BY DEF InsertEvict, InsertNeedsRoom
<1>2. Back \in index /\ Back \in Keys
  BY <1>1, BackProperties
<1>3. op.key \notin index /\ op.key \in Keys /\ op.newSize <= MaxSize
  BY <1>1 DEF IndInv, Shape
<1>4. o \in OpRecords
  BY <1>2, CallTypes, EvictedType DEF Reasons
<1>5. op'.key = op.key /\ op'.newSize = op.newSize
  BY <1>1, <1>2, CallTypes, EvictedType DEF EraseEntryLocked, Reasons
<1> HIDE DEF o
<1>6. TypeOK' /\ ListMatchesIndex' /\ SizeParity' /\ CapacityBound'
  BY <1>1, <1>2, <1>4, CallTypes, EraseKeeps DEF Reasons
<1>7. index' = index \ {Back}
  BY <1>1 DEF EraseEntryLocked
<1>8. ReplaceGrowthFits' /\ Shape'
  BY <1>1, <1>3, <1>5, <1>7 DEF ReplaceGrowthFits, Shape
<1> QED BY <1>6, <1>8 DEF IndInv

\* An empty list holds nothing.
LEMMA InvEmpty ==
    ASSUME IndInv, Len(entries) = 0
    PROVE  index = {} /\ TotalWeight(index, size) = 0
<1>1. index = {}
  BY InvWeights
<1> QED BY <1>1, WeightOfNothing, Zenon

\* The end of an insertion: the loop has made room, or the cache is empty.
LEMMA InsertStoreKeeps ==
    ASSUME IndInv, InsertStore
    PROVE  IndInv'
<1>1. /\ pc = "insert" /\ ~InsertNeedsRoom /\ UNCHANGED settled
      /\ op.key \notin index /\ op.key \in Keys /\ op.newSize <= MaxSize
      /\ entries' = PushFront(entries, op.key)
      /\ index' = index \cup {op.key}
      /\ size' = [size EXCEPT ![op.key] = op.newSize]
      /\ stats' = Admit([stats EXCEPT !.putInserted = Add(@, 1)], op.newSize)
  BY DEF InsertStore, IndInv, Shape
<1>2. PICK emptied \in BOOLEAN, r \in BOOLEAN :
        /\ ps' = OnEntryPut(IF emptied THEN Clean ELSE ps, Len(entries) + 1,
                            op.newSize)
        /\ op' = [RecordCompaction(op, emptied) EXCEPT
                    !.reclaimedPre = r, !.compactedPre = emptied,
                    !.protected = op.key]
        /\ currentSize' = currentSize + op.newSize
        /\ pc' = AfterMutation(r, currentSize + op.newSize)
  <2>1. \A n, x, y, z, elevated :
          ShouldReclaimEmptyPrePut(ps, n, x, y, z, elevated) \in BOOLEAN
    BY DEF ShouldReclaimEmptyPrePut
  <2>2. \A n, e, z, x, y, elevated :
          ShouldReclaimSingleSurvivorOnMutation(ps, n, e, z, x, y, elevated)
            \in BOOLEAN
    BY DEF ShouldReclaimSingleSurvivorOnMutation
  <2>3. PICK elevated \in Elevated(op.sample.pressure) :
          LET emptied == ShouldReclaimEmptyPrePut(
                             ps, Len(entries), op.evictedPre, op.newSize,
                             op.sizeBefore, elevated)
              survivor == ShouldReclaimSingleSurvivorOnMutation(
                              ps, Len(entries), HasSlack(ps, Len(entries)),
                              op.evictedPre, currentSize + op.newSize,
                              op.sizeBefore, elevated)
          IN  /\ ps' = OnEntryPut(IF emptied THEN Clean ELSE ps,
                                  Len(entries) + 1, op.newSize)
              /\ op' = [RecordCompaction(op, emptied) EXCEPT
                          !.reclaimedPre = emptied \/ survivor,
                          !.compactedPre = emptied,
                          !.protected = op.key]
              /\ currentSize' = currentSize + op.newSize
              /\ pc' = AfterMutation(emptied \/ survivor, currentSize + op.newSize)
    BY Zenon DEF InsertStore
  <2> DEFINE emptied == ShouldReclaimEmptyPrePut(
                            ps, Len(entries), op.evictedPre, op.newSize,
                            op.sizeBefore, elevated)
             r == emptied \/ ShouldReclaimSingleSurvivorOnMutation(
                                 ps, Len(entries), HasSlack(ps, Len(entries)),
                                 op.evictedPre, currentSize + op.newSize,
                                 op.sizeBefore, elevated)
  <2>4. emptied \in BOOLEAN /\ r \in BOOLEAN
    BY <2>1, <2>2
  <2> QED BY <2>3, <2>4, Zenon
<1>3. /\ currentSize \in Nat /\ op.newSize \in Nat /\ MaxSize \in Nat
      /\ Len(entries) \in Nat /\ currentSize = TotalWeight(index, size)
  BY <1>1, InvWeights, InvParity, CallTypes DEF OpRecords
<1>4. currentSize + op.newSize <= MaxSize
  <2>1. CASE op.newSize <= MaxSize - currentSize
    BY <2>1, <1>3
  <2>2. CASE Len(entries) = 0
    BY <2>2, <1>1, <1>3, InvEmpty
  <2> QED BY <2>1, <2>2, <1>1, <1>3
          DEF InsertNeedsRoom, ShouldEvictPreInsertOnPut
<1>5. ps' \in Watermarks
  <2>c. Clean \in Watermarks /\ ps \in Watermarks
    BY CallTypes, WatermarkTypes
  <2>1. (IF emptied THEN Clean ELSE ps) \in Watermarks /\ Len(entries) + 1 \in Nat
    BY <1>3, <2>c
  <2> QED BY <2>1, <1>2, <1>3, WatermarkTypes
<1>6. op' \in OpRecords
  <2>1. RecordCompaction(op, emptied) \in OpRecords
    BY CallTypes, RecordTypes
  <2> QED BY <2>1, <1>1, <1>2 DEF OpRecords
<1>7. pc' \in Quiet
  BY <1>2 DEF AfterMutation, Quiet
<1>8. op.key \notin FirstKeys(entries, Len(entries))
  BY <1>1, InvLinked, Zenon
<1>9. /\ Linked(entries')
      /\ FirstKeys(entries', Len(entries')) = FirstKeys(entries, Len(entries)) \cup {op.key}
  BY <1>1, <1>8, InvLinked, PushFrontLinks
<1>10. FirstKeys(entries', Len(entries')) = index'
  BY <1>1, <1>9, InvLinked, Zenon
<1>11. size' \in Sizes /\ \A k \in index : size'[k] = size[k]
  BY <1>1, <1>3, InvWeights, InvLinked DEF Sizes
<1>12. size'[op.key] = op.newSize
  BY <1>1, InvWeights DEF Sizes
<1>13. TotalWeight(index', size') = currentSize + op.newSize
  <2>1. index \in SUBSET Keys /\ {op.key} \in SUBSET Keys /\ index \cap {op.key} = {}
    BY <1>1, InvLinked
  <2>2. TotalWeight(index \cup {op.key}, size')
          = TotalWeight(index, size') + TotalWeight({op.key}, size')
    BY <2>1, <1>11, WeightOfUnion
  <2>3. TotalWeight(index, size') = TotalWeight(index, size)
    BY <2>1, <1>11, WeightCongruence
  <2>4. TotalWeight({op.key}, size') = op.newSize
    BY <1>1, <1>11, <1>12, WeightOfKey
  <2>5. TotalWeight(index', size') = TotalWeight(index \cup {op.key}, size')
    BY <1>1, Zenon
  <2> QED BY <2>2, <2>3, <2>4, <2>5, <1>3
<1>14. stats' \in StatRecords
  BY <1>1, <1>3, CallTypes, StatTypes
<1>15. TypeOK'
  <2>1. entries' \in Seq(Keys) /\ index' \in SUBSET Keys
    BY <1>1, <1>9, InvLinked DEF Linked
  <2>2. currentSize' \in Nat /\ settled' \in BOOLEAN /\ pc' \in Stage
    BY <1>1, <1>2, <1>3, <1>7, CallTypes DEF Quiet, Stage
  <2> QED BY <2>1, <2>2, <1>5, <1>6, <1>11, <1>14 DEF TypeOK, Sizes
<1>16. ListMatchesIndex'
  BY <1>9, <1>10 DEF ListMatchesIndex, Linked
<1>17. SizeParity' /\ CapacityBound'
  BY <1>2, <1>3, <1>4, <1>7, <1>13 DEF SizeParity, CapacityBound, Quiet
<1>18. ReplaceGrowthFits' /\ Shape'
  BY <1>7 DEF Quiet, ReplaceGrowthFits, Shape
<1> QED BY <1>15, <1>16, <1>17, <1>18 DEF IndInv

\* When canFitGrowthLocked answers yes, the new weight fits beside the newer
\* entries: the two-ended scan is right whichever end decided it.
LEMMA CanFitGrowthSound ==
    ASSUME IndInv, pc # "update", NEW k \in index, NEW w \in Nat, w <= MaxSize,
           CanFitGrowth(k, MaxSize - w, w - size[k], MaxSize - currentSize),
           NEW at \in 1..Len(entries), entries[at] = k
    PROVE  TotalWeight(FirstKeys(entries, at - 1), size) + w <= MaxSize
<1> DEFINE n == Len(entries)
           newer == FirstKeys(entries, at - 1)
           upto == newer \cup {k}
<1>1. /\ n \in Nat /\ k \in Keys /\ index \in SUBSET Keys
      /\ \A i \in 1..n : entries[i] \in index
      /\ \A i, j \in 1..n : entries[i] = entries[j] => i = j
  BY InvLinked DEF Linked
<1>2. /\ currentSize \in Nat /\ MaxSize \in Nat /\ size[k] \in Nat /\ size \in Sizes
      /\ currentSize = TotalWeight(index, size)
  BY <1>1, InvWeights, InvParity
<1>3. newer \in SUBSET index /\ k \notin newer /\ upto \in SUBSET index
  BY <1>1 DEF FirstKeys
<1>4. TotalWeight(newer, size) \in Nat
  BY <1>1, <1>2, <1>3, CellsFinite
<1>5. TotalWeight(upto, size) = TotalWeight(newer, size) + size[k]
  <2>1. newer \cap {k} = {} /\ newer \in SUBSET Keys /\ {k} \in SUBSET Keys
    BY <1>1, <1>3
  <2>2. TotalWeight(upto, size) = TotalWeight(newer, size) + TotalWeight({k}, size)
    BY <2>1, <1>2, WeightOfUnion
  <2> QED BY <2>2, <1>1, <1>2, WeightOfKey
<1>6. TotalWeight(upto, size) <= currentSize
  BY <1>1, <1>2, <1>3, WeightMonotone
<1>7. CASE w - size[k] <= MaxSize - currentSize
  <2>1. size[k] \in Nat /\ currentSize \in Nat /\ MaxSize \in Nat
    BY <1>2
  <2>2. \A x, y \in Nat : x <= y => x + 0 <= y
    OBVIOUS
  <2>3. \A x, y, z \in Nat : x - y <= MaxSize - z => x - y <= MaxSize - z + 0
    BY <2>1
  <2>4. TotalWeight(newer, size) + size[k] \in Nat
    BY <2>1, <1>4
  <2>5. TotalWeight(newer, size) + size[k] <= currentSize
    BY <1>5, <1>6, Zenon
  <2>6. (TotalWeight(newer, size) + size[k]) + 0 <= currentSize
    BY <2>1, <2>2, <2>4, <2>5, Zenon
  <2>7. w - size[k] <= MaxSize - currentSize + 0
    BY <2>1, <2>3, <1>7, Zenon
  <2>8. 0 \in Nat
    OBVIOUS
  <2> QED BY <2>1, <2>6, <2>7, <2>8, <1>4, RoomBesideNewer, Zenon
<1>8. CASE ScanBothEnds(k, MaxSize - w, w - size[k], MaxSize - currentSize)
  <2> DEFINE TooNew(i) == TotalWeight(FirstKeys(entries, i), size) > MaxSize - w
             Enough(i) == w - size[k] <= MaxSize - currentSize
                            + TotalWeight(LastKeys(entries, i), size)
             Undecided(i) == /\ entries[i] # k /\ ~TooNew(i)
                             /\ entries[n + 1 - i] # k /\ ~Enough(i)
  <2>1. PICK i \in 1..n :
          /\ \A j \in 1..(i - 1) : Undecided(j)
          /\ \/ entries[i] = k
             \/ ~TooNew(i) /\ entries[n + 1 - i] # k /\ Enough(i)
    BY <1>8, Zenon DEF ScanBothEnds
  <2>2. CASE entries[i] = k
    <3>1. i = at
      BY <2>2, <1>1
    <3>2. CASE at = 1
      <4>1. newer = {}
        BY <3>2 DEF FirstKeys
      <4>2. TotalWeight(newer, size) = 0
        BY <4>1, WeightOfNothing, Zenon
      <4> QED BY <4>2, <1>2
    <3>3. CASE at # 1
      <4>1. at - 1 \in 1..(i - 1)
        BY <3>1, <3>3, <1>1
      <4>2. ~TooNew(at - 1)
        BY <4>1, <2>1
      <4> QED BY <4>2, <1>2, <1>4
    <3> QED BY <3>2, <3>3
  <2>3. CASE entries[i] # k /\ entries[n + 1 - i] # k /\ Enough(i)
    <3> DEFINE older == LastKeys(entries, i)
    <3>1. \A j \in 1..i : entries[j] # k /\ entries[n + 1 - j] # k
      <4>1. \A j \in 1..(i - 1) : entries[j] # k /\ entries[n + 1 - j] # k
        BY <2>1
      <4>2. \A j \in 1..i : j = i \/ j \in 1..(i - 1)
        BY <1>1
      <4> QED BY <4>1, <4>2, <2>3
    <3>2. at < n + 1 - i
      <4>1. ~(n + 1 - at \in 1..i)
        <5>1. n + 1 - (n + 1 - at) = at
          BY <1>1
        <5> QED BY <5>1, <3>1
      <4> QED BY <4>1, <1>1
    <3>3. older \in SUBSET index /\ upto \cap older = {}
      <4>1. older \in SUBSET index
        BY <1>1 DEF LastKeys
      <4>2. ASSUME NEW j \in 1..i
            PROVE  entries[n + 1 - j] \notin upto
        <5>1. n + 1 - j \in 1..n /\ n + 1 - j > at
          BY <1>1, <3>2
        <5> QED BY <5>1, <1>1 DEF FirstKeys
      <4> QED BY <4>1, <4>2 DEF LastKeys
    <3>4. TotalWeight(older, size) \in Nat
      BY <1>1, <1>2, <3>3, CellsFinite
    <3>5. TotalWeight(upto \cup older, size)
            = TotalWeight(upto, size) + TotalWeight(older, size)
      <4>1. upto \in SUBSET Keys /\ older \in SUBSET Keys /\ size \in Sizes
        BY <1>1, <1>2, <1>3, <3>3
      <4> HIDE DEF upto, older
      <4> QED BY <4>1, <3>3, WeightOfUnion, Zenon
    <3>6. TotalWeight(upto \cup older, size) <= currentSize
      <4>1. upto \cup older \in SUBSET index
        BY <1>3, <3>3
      <4> QED BY <4>1, <1>1, <1>2, WeightMonotone
    <3>7. w - size[k] <= MaxSize - currentSize + TotalWeight(older, size)
      BY <2>3
    <3> HIDE DEF older, upto, newer
    <3>8. TotalWeight(newer, size) + w <= MaxSize
      <4>1. (TotalWeight(newer, size) + size[k]) + TotalWeight(older, size) <= currentSize
        BY <3>5, <3>6, <1>5, Zenon
      <4>2. size[k] \in Nat /\ currentSize \in Nat /\ MaxSize \in Nat
        BY <1>2
      <4> QED BY <4>1, <4>2, <3>4, <3>7, <1>4, RoomBesideNewer, Zenon
    <3> QED BY <3>8 DEF newer
  <2> QED BY <2>1, <2>2, <2>3
<1> QED BY <1>7, <1>8 DEF CanFitGrowth

\* A Replace that enters its eviction loop, growing or not.
LEMMA EnterGrow ==
    ASSUME IndInv, pc = "idle", pc' = "grow", NEW k \in index, NEW w \in Nat,
           w <= MaxSize, op' \in OpRecords, op'.key = k, op'.newSize = w,
           ps' \in Watermarks, settled' = FALSE,
           UNCHANGED <<entries, index, size, currentSize, stats>>,
           w > size[k] =>
             CanFitGrowth(k, MaxSize - w, w - size[k], MaxSize - currentSize)
    PROVE  IndInv'
<1>1. TypeOK'
  BY DEF IndInv, TypeOK, Stage
<1>2. ListMatchesIndex' /\ SizeParity' /\ CapacityBound'
  BY DEF IndInv, ListMatchesIndex, SizeParity, CapacityBound
<1>3. Shape'
  BY InvLinked DEF Shape
<1>4. ReplaceGrowthFits'
  <2> SUFFICES ASSUME w > size[k], NEW i \in 1..Len(entries), entries[i] = k
               PROVE  TotalWeight(FirstKeys(entries, i - 1), size) + w <= MaxSize
    BY DEF ReplaceGrowthFits
  <2> QED BY CanFitGrowthSound
<1> QED BY <1>1, <1>2, <1>3, <1>4 DEF IndInv

\* replaceValue when the new value is larger.
LEMMA ReplaceGrowKeeps ==
    ASSUME IndInv, NEW k \in Keys, NEW w \in Weights, NEW s \in Samples,
           ReplaceGrow(k, w, s)
    PROVE  IndInv'
<1>1. op' = Begin("Replace", k, w, s) /\ ps' = SyncZeroWatermark(s) /\ w \in Nat
  BY CallTypes DEF ReplaceGrow
<1>2. op' \in OpRecords /\ op'.key = k /\ op'.newSize = w /\ ps' \in Watermarks
  BY <1>1, BeginType, CallTypes DEF IndInv, Ops
<1> QED BY <1>1, <1>2, EnterGrow DEF ReplaceGrow

\* replaceValue when it is not.
LEMMA ReplaceNoGrowthKeeps ==
    ASSUME IndInv, NEW k \in Keys, NEW w \in Weights, NEW s \in Samples,
           ReplaceNoGrowth(k, w, s)
    PROVE  IndInv'
<1> DEFINE b == Begin("Replace", k, w, s)
           z == ShouldEvictOnZeroWeightShrink(SyncZeroWatermark(s), size[k], w)
<1>1. /\ op' = [b EXCEPT !.hadZeroCap = z] /\ z \in BOOLEAN
      /\ ps' = SyncZeroWatermark(s) /\ w \in Nat
  BY CallTypes DEF ReplaceNoGrowth, ShouldEvictOnZeroWeightShrink
<1>2. b \in OpRecords /\ b.key = k /\ b.newSize = w
  BY <1>1, BeginType DEF IndInv, Ops
<1> HIDE DEF b, z
<1>3. op' \in OpRecords /\ op'.key = k /\ op'.newSize = w
  BY <1>1, <1>2 DEF OpRecords
<1>4. ps' \in Watermarks
  BY <1>1, CallTypes
<1>5. /\ pc = "idle" /\ pc' = "grow" /\ k \in index /\ w <= size[k]
      /\ settled' = FALSE
      /\ UNCHANGED <<entries, index, size, currentSize, stats>>
  BY DEF ReplaceNoGrowth
<1>6. w <= MaxSize /\ ~(w > size[k])
  BY <1>1, <1>5, InvWeights
<1> QED BY <1>1, <1>3, <1>4, <1>5, <1>6, EnterGrow

\* replaceValue when the entry itself has to go.
LEMMA ReplaceSelfEvictKeeps ==
    ASSUME IndInv, NEW k \in Keys, NEW w \in Weights, NEW s \in Samples,
           ReplaceSelfEvict(k, w, s)
    PROVE  IndInv'
<1> DEFINE b == Begin("Replace", k, w, s)
           o == [b EXCEPT !.selfEvicted = TRUE]
<1>1. /\ pc = "idle" /\ k \in index /\ pc' = "deleted" /\ settled' = FALSE
      /\ EraseEntryLocked(k, "Capacity", SyncZeroWatermark(s), o)
  BY DEF ReplaceSelfEvict
<1>2. b \in OpRecords
  BY BeginType, CallTypes DEF IndInv, Ops
<1> HIDE DEF b
<1>3. o \in OpRecords
  BY <1>2 DEF OpRecords
<1>4. SyncZeroWatermark(s) \in Watermarks
  BY CallTypes
<1> HIDE DEF o
<1> QED BY <1>1, <1>3, <1>4, EraseToQuiet DEF Quiet, Reasons

\* The eviction loop of a Replace: the entry's newer part is not touched.
LEMMA ReplaceEvictKeeps ==
    ASSUME IndInv, ReplaceEvict
    PROVE  IndInv'
<1> DEFINE o == [op EXCEPT !.evictedPre = TRUE]
           n == Len(entries)
<1>1. /\ pc = "grow" /\ UNCHANGED <<pc, settled>> /\ n > 0 /\ Back # op.key
      /\ EraseEntryLocked(Back, "Capacity", ps, o)
  BY DEF ReplaceEvict, ReplaceNeedsRoom
<1>2. Back \in index /\ Back \in Keys
  BY <1>1, BackProperties
<1>3. op.key \in index /\ op.key \in Keys /\ op.newSize <= MaxSize
  BY <1>1 DEF IndInv, Shape
<1>4. o \in OpRecords
  BY <1>2, CallTypes, EvictedType DEF Reasons
<1>5. op'.key = op.key /\ op'.newSize = op.newSize
  BY <1>1, <1>2, CallTypes, EvictedType DEF EraseEntryLocked, Reasons
<1> HIDE DEF o
<1>6. TypeOK' /\ ListMatchesIndex' /\ SizeParity' /\ CapacityBound'
  BY <1>1, <1>2, <1>4, CallTypes, EraseKeeps DEF Reasons
<1>7. index' = index \ {Back}
  BY <1>1 DEF EraseEntryLocked
<1>8. Shape'
  BY <1>1, <1>3, <1>5, <1>7 DEF Shape
<1>9. /\ Len(entries') = n - 1 /\ n \in Nat
      /\ \A j \in Keys : j # Back => size'[j] = size[j]
  BY <1>1, <1>2, <1>4, CallTypes, EraseEffect DEF Reasons
<1>10. \A i \in 1..(n - 1) : entries'[i] = entries[i]
  <2>1. entries' = Remove(entries, entries[n])
    BY <1>1 DEF EraseEntryLocked, Back
  <2> QED BY <2>1, <1>1, InvLinked, RemoveBack
<1>11. ReplaceGrowthFits'
  <2> SUFFICES ASSUME op.newSize > size[op.key], NEW i \in 1..(n - 1),
                      entries'[i] = op.key
               PROVE  TotalWeight(FirstKeys(entries', i - 1), size') + op.newSize
                        <= MaxSize
    BY <1>1, <1>3, <1>5, <1>9 DEF ReplaceGrowthFits
  <2>1. entries[i] = op.key /\ i \in 1..n
    BY <1>9, <1>10
  <2>2. TotalWeight(FirstKeys(entries, i - 1), size) + op.newSize <= MaxSize
    BY <2>1, <1>1 DEF IndInv, ReplaceGrowthFits
  <2>3. FirstKeys(entries', i - 1) = FirstKeys(entries, i - 1)
    BY <1>9, <1>10 DEF FirstKeys
  <2>4. FirstKeys(entries, i - 1) \in SUBSET Keys
    BY <1>9, InvLinked DEF FirstKeys
  <2>5. Back \notin FirstKeys(entries, i - 1)
    BY <1>9, InvLinked DEF FirstKeys, Back, Linked
  <2>6. TotalWeight(FirstKeys(entries, i - 1), size')
          = TotalWeight(FirstKeys(entries, i - 1), size)
    <3>1. \A j \in FirstKeys(entries, i - 1) : size'[j] = size[j]
      BY <2>4, <2>5, <1>9
    <3> QED BY <3>1, <2>4, WeightCongruence
  <2>7. TotalWeight(FirstKeys(entries', i - 1), size')
          = TotalWeight(FirstKeys(entries, i - 1), size')
    BY <2>3, Zenon
  <2> QED BY <2>2, <2>6, <2>7
<1> QED BY <1>6, <1>8, <1>11 DEF IndInv

\* The end of a Replace: there is room, or only newer entries are left.
LEMMA ReplaceStoreKeeps ==
    ASSUME IndInv, ReplaceStore
    PROVE  IndInv'
<1> DEFINE new == currentSize + op.newSize - size[op.key]
           p == OnEntrySizeUpdated(ps, size[op.key], op.newSize)
<1>1. /\ pc = "grow" /\ ~ReplaceNeedsRoom /\ UNCHANGED <<entries, index, settled>>
      /\ op.key \in index /\ op.key \in Keys /\ op.newSize <= MaxSize
  BY DEF ReplaceStore, IndInv, Shape
<1>2. PICK elevated \in BOOLEAN, r \in BOOLEAN :
        /\ ps' = p
        /\ StoreReplacement(new, [stats EXCEPT !.replaceUpdated = Add(@, 1)])
        /\ op' = [Enqueue(op, op.key, "Replaced") EXCEPT
                    !.reclaimedPre = r, !.protected = op.key]
        /\ pc' = AfterMutation(r, new)
  <2>1. Elevated(op.sample.pressure) \subseteq BOOLEAN
    BY DEF Elevated
  <2>2. \A q, n, e, z, x, y, elevated :
          ShouldReclaimSingleSurvivorOnMutation(q, n, e, z, x, y, elevated)
            \in BOOLEAN
    BY DEF ShouldReclaimSingleSurvivorOnMutation
  <2> DEFINE R(elevated) == ShouldReclaimSingleSurvivorOnMutation(
                              p, Len(entries), p.dirtyIndex, op.evictedPre,
                              new, op.sizeBefore, elevated)
  <2>3. PICK elevated \in Elevated(op.sample.pressure) :
          /\ ps' = p
          /\ StoreReplacement(new, [stats EXCEPT !.replaceUpdated = Add(@, 1)])
          /\ op' = [Enqueue(op, op.key, "Replaced") EXCEPT
                      !.reclaimedPre = R(elevated), !.protected = op.key]
          /\ pc' = AfterMutation(R(elevated), new)
    BY Zenon DEF ReplaceStore
  <2>4. R(elevated) \in BOOLEAN /\ elevated \in BOOLEAN
    BY <2>1, <2>2
  <2> HIDE DEF new, p, R
  <2> QED BY <2>3, <2>4, Zenon
<1>3. [stats EXCEPT !.replaceUpdated = Add(@, 1)] \in StatRecords
  BY CallTypes, StatTypes
<1>4. op' \in OpRecords
  BY <1>1, <1>2, CallTypes, StoredType
<1>5. pc' \in Quiet
  BY <1>2 DEF AfterMutation, Quiet
<1>6. /\ currentSize \in Nat /\ size[op.key] \in Nat /\ op.newSize \in Nat
      /\ MaxSize \in Nat /\ Len(entries) \in Nat /\ size \in Sizes
  BY <1>1, InvWeights, CallTypes DEF OpRecords
<1>7. currentSize = TotalWeight(index, size)
  BY <1>1, InvParity
<1>8. ps' \in Watermarks
  BY <1>2, <1>6, CallTypes, WatermarkTypes
<1>9. currentSize <= MaxSize /\ Len(entries) > 0
  <2>1. PICK i \in 1..Len(entries) : entries[i] = op.key
    BY <1>1, InvWeights
  <2> QED BY <2>1, <1>6 DEF IndInv, CapacityBound
<1>10. new <= MaxSize
  <2>1. CASE op.newSize <= size[op.key]
    BY <2>1, <1>6, <1>9
  <2>2. CASE op.newSize - size[op.key] <= MaxSize - currentSize
    BY <2>2, <1>6
  <2>3. CASE op.newSize > size[op.key] /\ Back = op.key
    <3> DEFINE n == Len(entries)
               newer == FirstKeys(entries, n - 1)
    <3>1. TotalWeight(newer, size) + op.newSize <= MaxSize
      BY <2>3, <1>1, <1>6, <1>9 DEF IndInv, ReplaceGrowthFits, Back
    <3>2. newer \in SUBSET Keys /\ newer = index \ {op.key}
      <4>1. newer \subseteq index \ {op.key}
        BY <2>3, <1>6, InvLinked DEF FirstKeys, Back, Linked
      <4>2. ASSUME NEW k \in index \ {op.key} PROVE k \in newer
        <5>1. PICK i \in 1..n : entries[i] = k
          BY InvWeights
        <5>2. i \in 1..(n - 1)
          BY <5>1, <2>3, <1>6 DEF Back
        <5> QED BY <5>1, <5>2 DEF FirstKeys
      <4> QED BY <4>1, <4>2, InvLinked
    <3>3. currentSize = TotalWeight(index \ {op.key}, size) + size[op.key]
      BY <1>1, <1>6, <1>7, InvLinked, WeightWithout
    <3>4. TotalWeight(newer, size) = TotalWeight(index \ {op.key}, size)
      BY <3>2, Zenon
    <3>5. TotalWeight(newer, size) \in Nat
      BY <3>2, <1>6, CellsFinite
    <3> HIDE DEF newer
    <3> QED BY <3>1, <3>3, <3>4, <3>5, <1>6
  <2> QED BY <2>1, <2>2, <2>3, <1>1, <1>6, <1>9 DEF ReplaceNeedsRoom
<1>11. new = TotalWeight(index, size) - size[op.key] + op.newSize
  BY <1>6, <1>7
<1> HIDE DEF new, p
<1> QED BY <1>1, <1>2, <1>3, <1>4, <1>5, <1>8, <1>10, <1>11, StoreKeeps

\* Get only moves its key.
LEMMA GetKeeps ==
    ASSUME IndInv, NEW k \in Keys, Get(k)
    PROVE  IndInv'
<1>1. /\ pc = "idle" /\ k \in index /\ entries' = MoveToFront(entries, k)
      /\ UNCHANGED <<index, size, currentSize, ps, stats, pc, op, settled>>
  BY DEF Get
<1>2. k \in FirstKeys(entries, Len(entries))
  BY <1>1, InvLinked, Zenon
<1>3. /\ Linked(entries')
      /\ FirstKeys(entries', Len(entries')) = FirstKeys(entries, Len(entries))
  BY <1>1, <1>2, InvLinked, MoveToFrontLinks
<1>4. FirstKeys(entries', Len(entries')) = index
  BY <1>3, InvLinked, Zenon
<1>5. TypeOK'
  BY <1>1, <1>3 DEF IndInv, TypeOK, Linked
<1>6. ListMatchesIndex'
  BY <1>1, <1>3, <1>4 DEF ListMatchesIndex, Linked
<1>7. SizeParity' /\ CapacityBound'
  BY <1>1 DEF IndInv, SizeParity, CapacityBound
<1>8. ReplaceGrowthFits' /\ Shape'
  BY <1>1 DEF ReplaceGrowthFits, Shape
<1> QED BY <1>5, <1>6, <1>7, <1>8 DEF IndInv

\* Delete.
LEMMA DeleteKeeps ==
    ASSUME IndInv, NEW k \in Keys, NEW s \in Samples, Delete(k, s)
    PROVE  IndInv'
<1> DEFINE o == Begin("Delete", k, 0, s)
<1>1. /\ pc = "idle" /\ k \in index /\ pc' = "deleted" /\ settled' = FALSE
      /\ EraseEntryLocked(k, "Deleted", SyncZeroWatermark(s), o)
  BY DEF Delete
<1>2. o \in OpRecords /\ SyncZeroWatermark(s) \in Watermarks
  BY BeginType, CallTypes DEF IndInv, Ops
<1> HIDE DEF o
<1> QED BY <1>1, <1>2, EraseToQuiet DEF Quiet, Reasons

\* DeletePrefix finds the entries to erase,
LEMMA DeletePrefixKeeps ==
    ASSUME IndInv, NEW P \in Prefixes, NEW s \in Samples, DeletePrefix(P, s)
    PROVE  IndInv'
<1> DEFINE b == Begin("DeletePrefix", NoKey, 0, s)
<1>1. /\ pc = "idle" /\ pc' = "prefix" /\ settled' = FALSE
      /\ op' = [b EXCEPT !.todo = P \cap index] /\ ps' = SyncZeroWatermark(s)
      /\ UNCHANGED <<entries, index, size, currentSize, stats>>
  BY DEF DeletePrefix
<1>2. b \in OpRecords /\ ps' \in Watermarks
  BY <1>1, BeginType, CallTypes DEF IndInv, Ops
<1> HIDE DEF b
<1>3. op' \in OpRecords /\ op'.todo = P \cap index
  BY <1>1, <1>2, InvLinked DEF OpRecords
<1>4. TypeOK'
  BY <1>1, <1>2, <1>3 DEF IndInv, TypeOK, Stage
<1>5. ListMatchesIndex' /\ SizeParity' /\ CapacityBound'
  BY <1>1 DEF IndInv, ListMatchesIndex, SizeParity, CapacityBound
<1>6. ReplaceGrowthFits' /\ Shape'
  BY <1>1, <1>3 DEF ReplaceGrowthFits, Shape
<1> QED BY <1>4, <1>5, <1>6 DEF IndInv

\* and erases them one by one.
LEMMA PrefixEraseKeeps ==
    ASSUME IndInv, NEW k \in Keys, PrefixErase(k)
    PROVE  IndInv'
<1> DEFINE o == [op EXCEPT !.todo = @ \ {k}]
<1>1. /\ pc = "prefix" /\ k \in op.todo /\ UNCHANGED <<pc, settled>>
      /\ EraseEntryLocked(k, "Deleted", ps, o)
  BY DEF PrefixErase
<1>2. op.todo \subseteq index /\ k \in index
  BY <1>1 DEF IndInv, Shape
<1>3. o \in OpRecords /\ o.todo = op.todo \ {k}
  BY CallTypes DEF OpRecords
<1> HIDE DEF o
<1>4. TypeOK' /\ ListMatchesIndex' /\ SizeParity' /\ CapacityBound'
  BY <1>1, <1>2, <1>3, CallTypes, EraseKeeps DEF Reasons
<1>5. op'.todo = o.todo /\ index' = index \ {k}
  BY <1>1, <1>3 DEF EraseEntryLocked, Enqueue, OpRecords
<1>6. ReplaceGrowthFits' /\ Shape'
  BY <1>1, <1>2, <1>3, <1>5 DEF ReplaceGrowthFits, Shape
<1> QED BY <1>4, <1>6 DEF IndInv

\* DeletePrefix("") empties everything at once.
LEMMA DeleteAllKeeps ==
    ASSUME IndInv, NEW s \in Samples, DeleteAll(s)
    PROVE  IndInv'
<1> DEFINE n == Len(entries)
           q == [i \in 1..n |-> [key |-> entries[i], reason |-> "Deleted"]]
           b == Begin("DeleteAll", NoKey, 0, s)
           o == [b EXCEPT !.evictQ = q]
<1>1. /\ entries' = <<>> /\ index' = {} /\ size' = [k \in Keys |-> 0]
      /\ currentSize' = 0 /\ ps' = Clean /\ pc' = "unlock" /\ settled' = FALSE
      /\ stats' = RecordEvictions(stats, "Deleted", n, currentSize)
  BY DEF DeleteAll
<1>2. b \in OpRecords
  BY BeginType, CallTypes DEF IndInv, Ops
<1>3. q \in Seq(Events)
  <2>1. n \in Nat /\ \A i \in 1..n : entries[i] \in Keys
    BY InvLinked
  <2> QED BY <2>1 DEF Events, Reasons
<1> HIDE DEF q, b
<1>4. o \in OpRecords
  BY <1>2, <1>3 DEF OpRecords
<1>5. \E recorded, marked : op' = MarkReclaimed(RecordCompaction(o, recorded), marked)
  <2> DEFINE dirty == \/ ps.dirtyIndex
                      \/ ps.peakEntryLen > MinPeakSlackEntries
                      \/ ps.deletedSinceCompact > 0
             slack == HasEmptyDeleteSlack(
                        [ps EXCEPT !.deletedSinceCompact = CountDeleted(ps, n)])
  <2>1. PICK invalidate \in Elevated(s.pressure) :
          op' = MarkReclaimed(RecordCompaction(o, slack),
                  (slack \/ currentSize > 0 \/ dirty) /\ invalidate)
    BY Zenon DEF DeleteAll, b, q
  <2> QED BY <2>1, Zenon
<1> HIDE DEF o
<1>6. op' \in OpRecords
  <2>1. PICK recorded, marked :
          op' = MarkReclaimed(RecordCompaction(o, recorded), marked)
    BY <1>5
  <2>2. RecordCompaction(o, recorded) \in OpRecords
    BY <1>4, RecordTypes
  <2> QED BY <2>1, <2>2, RecordTypes
<1>7. stats' \in StatRecords
  BY <1>1, CallTypes, InvWeights, StatTypes DEF Reasons
<1>8. ps' \in Watermarks
  BY <1>1, CallTypes, WatermarkTypes
<1>9. TypeOK'
  <2>1. entries' \in Seq(Keys)
    BY <1>1
  <2>2. size' \in [Keys -> 0..MaxSize]
    BY <1>1, MaxSizeAssumption
  <2>3. index' \in SUBSET Keys /\ currentSize' \in Nat
        /\ pc' \in Stage /\ settled' \in BOOLEAN
    BY <1>1 DEF Stage
  <2> QED BY <2>1, <2>2, <2>3, <1>6, <1>7, <1>8 DEF TypeOK
<1>10. ListMatchesIndex'
  BY <1>1 DEF ListMatchesIndex, FirstKeys
<1>11. TotalWeight(index', size') = 0
  <2>1. TotalWeight(index', size') = TotalWeight({}, size')
    BY <1>1, Zenon
  <2> QED BY <2>1, WeightOfNothing
<1>12. SizeParity' /\ CapacityBound'
  BY <1>1, <1>11, MaxSizeAssumption DEF SizeParity, CapacityBound
<1>13. ReplaceGrowthFits' /\ Shape'
  BY <1>1 DEF ReplaceGrowthFits, Shape
<1> QED BY <1>9, <1>10, <1>12, <1>13 DEF IndInv

\* The operations and stages that leave every entry alone.
LEMMA QuietCallsKeep ==
    ASSUME IndInv, NEW s \in Samples,
           \/ MissUnderLock(s) \/ EvaluateMemoryPressure(s) \/ Compact
           \/ PrefixDone \/ ShedStop \/ Unlock
    PROVE  IndInv'
<1>1. ps \in Watermarks /\ stats \in StatRecords /\ op \in OpRecords
      /\ settled \in BOOLEAN /\ Len(entries) \in Nat
      /\ SyncZeroWatermark(s) \in Watermarks
  BY CallTypes
<1>2. CASE MissUnderLock(s)
  <2>1. /\ pc = "idle" /\ pc' = "idle" /\ settled' = FALSE
        /\ UNCHANGED <<entries, index, size, currentSize, stats, op>>
        /\ ps' \in Watermarks
    BY <1>1, <1>2 DEF MissUnderLock
  <2> QED BY <2>1, <1>1, QuietStep DEF Quiet
<1>3. CASE EvaluateMemoryPressure(s)
  <2>1. /\ pc = "idle" /\ pc' = "reclaim" /\ settled' = FALSE
        /\ UNCHANGED <<entries, index, size, currentSize, stats>>
        /\ ps' \in Watermarks /\ op' = Begin("Evaluate", NoKey, 0, s)
    BY <1>1, <1>3 DEF EvaluateMemoryPressure
  <2>2. op' \in OpRecords
    BY <2>1, BeginType DEF IndInv, Ops
  <2> QED BY <2>1, <2>2, <1>1, QuietStep DEF Quiet
<1>4. CASE Compact
  <2>1. /\ pc = "idle" /\ ps' = OnCompacted(ps, Len(entries))
        /\ UNCHANGED <<entries, index, size, currentSize, stats, pc, op, settled>>
    BY <1>4 DEF Compact
  <2>2. ps' \in Watermarks
    BY <2>1, <1>1, WatermarkTypes
  <2> QED BY <2>1, <2>2, <1>1, QuietStep DEF Quiet
<1>5. CASE PrefixDone
  <2>1. /\ pc = "prefix" /\ pc' = "deleted"
        /\ UNCHANGED <<entries, index, size, currentSize, ps, stats, op, settled>>
    BY <1>5 DEF PrefixDone
  <2> QED BY <2>1, <1>1, QuietStep DEF Quiet
<1>6. CASE ShedStop
  <2>1. /\ pc = "shed" /\ pc' = "completeShed"
        /\ UNCHANGED <<entries, index, size, currentSize, ps, stats, op, settled>>
    BY <1>6 DEF ShedStop
  <2> QED BY <2>1, <1>1, QuietStep DEF Quiet
<1>7. CASE Unlock
  <2>1. /\ pc = "unlock" /\ pc' = "idle" /\ op' = NoOp /\ settled' \in BOOLEAN
        /\ UNCHANGED <<entries, index, size, currentSize, ps, stats>>
    BY <1>7 DEF Unlock
  <2>2. op' \in OpRecords
    BY <2>1, BeginType DEF IndInv, Ops
  <2> QED BY <2>1, <2>2, <1>1, QuietStep DEF Quiet
<1> QED BY <1>2, <1>3, <1>4, <1>5, <1>6, <1>7

\* The locals after a compaction and a reclaim have been recorded, or not.
LEMMA MarkedType ==
    ASSUME NEW o \in OpRecords, NEW recorded, NEW marked
    PROVE  MarkReclaimed(RecordCompaction(o, recorded), marked) \in OpRecords
<1>1. RecordCompaction(o, recorded) \in OpRecords
  BY RecordTypes
<1> QED BY <1>1, RecordTypes

\* The end of a deletion, up to the pressure reclamation.
LEMMA FinishDeleteKeeps ==
    ASSUME IndInv, FinishDeleteEmpty \/ FinishDelete
    PROVE  IndInv'
<1>1. ps \in Watermarks /\ stats \in StatRecords /\ op \in OpRecords
      /\ settled \in BOOLEAN /\ Len(entries) \in Nat
  BY CallTypes
<1>2. CASE FinishDeleteEmpty
  <2>1. /\ pc = "deleted" /\ pc' = "unlock" /\ ps' = Clean
        /\ UNCHANGED <<entries, index, size, currentSize, stats, settled>>
    BY <1>2 DEF FinishDeleteEmpty
  <2>2. op' \in OpRecords
    BY <1>1, <1>2, MarkedType DEF FinishDeleteEmpty
  <2> QED BY <2>1, <2>2, <1>1, WatermarkTypes, QuietStep DEF Quiet
<1>3. CASE FinishDelete
  <2> DEFINE n == Len(entries)
             single == ShouldReclaimSingleSurvivorOnDelete(ps, n, HasSlack(ps, n))
             p == IF single THEN OnCompacted(ps, n) ELSE ps
  <2>1. /\ pc = "deleted" /\ pc' \in {"reclaim", "finish"}
        /\ UNCHANGED <<entries, index, size, currentSize, stats, settled>>
        /\ op' = [RecordCompaction(op, single) EXCEPT !.reclaimedPre = single]
        /\ \/ ps' = p
           \/ ps' = ResetZeroWatermarkBelowTier2(p, op.sample.pressure,
                                                 op.sample.valid)
    BY <1>3 DEF FinishDelete
  <2>2. p \in Watermarks
    BY <1>1, WatermarkTypes
  <2>3. single \in BOOLEAN /\ RecordCompaction(op, single) \in OpRecords
    BY <1>1, RecordTypes DEF ShouldReclaimSingleSurvivorOnDelete
  <2> HIDE DEF single, p
  <2>4. op' \in OpRecords
    BY <2>1, <2>3 DEF OpRecords
  <2>5. ps' \in Watermarks
    BY <2>1, <2>2, WatermarkTypes
  <2> QED BY <2>1, <2>4, <2>5, <1>1, QuietStep DEF Quiet
<1> QED BY <1>2, <1>3

\* Pressure reclamation other than the erasures of Tier 2.
LEMMA ReclaimKeeps ==
    ASSUME IndInv, ReclaimTier1 \/ CompleteShedEmpty \/ CompleteShed
    PROVE  IndInv'
<1>1. ps \in Watermarks /\ stats \in StatRecords /\ op \in OpRecords
      /\ settled \in BOOLEAN /\ Len(entries) \in Nat /\ AfterReclaim \in Quiet
  BY CallTypes DEF AfterReclaim, Quiet
<1>2. CASE ReclaimTier1
  <2> DEFINE n == Len(entries)
             p == ResetZeroWatermarkBelowTier2(ps, op.sample.pressure,
                                               op.sample.valid)
  <2>1. /\ pc = "reclaim" /\ pc' = AfterReclaim
        /\ UNCHANGED <<entries, index, size, currentSize, stats, settled>>
        /\ ps' \in {p, OnCompacted(p, n)}
    BY <1>2 DEF ReclaimTier1
  <2>2. op' \in OpRecords
    BY <1>1, <1>2, MarkedType DEF ReclaimTier1
  <2>3. p \in Watermarks
    BY <1>1, WatermarkTypes
  <2>4. ps' \in Watermarks
    BY <2>1, <2>3, <1>1, WatermarkTypes
  <2> QED BY <2>1, <2>2, <2>4, <1>1, QuietStep
<1>3. CASE CompleteShedEmpty
  <2>1. /\ pc = "completeShed" /\ pc' = AfterReclaim /\ ps' = Clean
        /\ UNCHANGED <<entries, index, size, currentSize, stats, settled>>
    BY <1>3 DEF CompleteShedEmpty
  <2>2. op' \in OpRecords
    BY <1>1, <1>3, MarkedType DEF CompleteShedEmpty
  <2> QED BY <2>1, <2>2, <1>1, WatermarkTypes, QuietStep
<1>4. CASE CompleteShed
  <2> DEFINE n == Len(entries)
             unadjusted == ~HasProtected \/ op.targets.effective <= TargetSize
             p == IF op.shed
                  THEN UpdateZeroWatermarkAfterShed(ps, n, unadjusted, op.targets)
                  ELSE ps
  <2>1. /\ pc = "completeShed" /\ pc' = AfterReclaim
        /\ UNCHANGED <<entries, index, size, currentSize, stats, settled>>
        /\ ps' \in {p, OnCompacted(p, n)}
    BY <1>4 DEF CompleteShed
  <2>2. op' \in OpRecords
    BY <1>1, <1>4, MarkedType DEF CompleteShed
  <2>3. op.targets \in ShedTargets
    BY <1>1 DEF OpRecords
  <2>4. p \in Watermarks
    BY <2>3, <1>1, ShedTypes
  <2>5. ps' \in Watermarks
    BY <2>1, <2>4, <1>1, WatermarkTypes
  <2> QED BY <2>1, <2>2, <2>5, <1>1, QuietStep
<1> QED BY <1>2, <1>3, <1>4

\* The last stage of a mutation or of a deletion.
LEMMA FinishKeeps ==
    ASSUME IndInv, FinishMutation \/ FinishDeleteReclaim
    PROVE  IndInv'
<1>1. ps \in Watermarks /\ stats \in StatRecords /\ op \in OpRecords
      /\ settled \in BOOLEAN /\ Len(entries) \in Nat
  BY CallTypes
<1>2. CASE FinishMutation
  <2>1. /\ pc = "finish" /\ pc' = "unlock"
        /\ UNCHANGED <<entries, index, size, currentSize, stats, settled>>
        /\ ps' \in {ps, OnCompacted(ps, Len(entries))}
    BY <1>2 DEF FinishMutation
  <2>2. op' \in OpRecords
    BY <1>1, <1>2, MarkedType DEF FinishMutation
  <2>3. ps' \in Watermarks
    BY <2>1, <1>1, WatermarkTypes
  <2> QED BY <2>1, <2>2, <2>3, <1>1, QuietStep DEF Quiet
<1>3. CASE FinishDeleteReclaim
  <2>1. /\ pc = "finish" /\ pc' = "unlock"
        /\ UNCHANGED <<entries, index, size, currentSize, ps, stats, settled>>
    BY <1>3 DEF FinishDeleteReclaim
  <2>2. op' \in OpRecords
    BY <1>1, <1>3, RecordTypes DEF FinishDeleteReclaim
  <2> QED BY <2>1, <2>2, <1>1, QuietStep DEF Quiet
<1> QED BY <1>2, <1>3

\* The cursor of the shedding loop never runs past the tail.
LEMMA ShedKeeps ==
    ASSUME IndInv, ReclaimTier2 \/ ShedEvict \/ ShedSkip
    PROVE  IndInv'
<1>1. ps \in Watermarks /\ stats \in StatRecords /\ op \in OpRecords
      /\ settled \in BOOLEAN /\ Len(entries) \in Nat /\ op.cursor \in Nat
      /\ op.protected \in Keys \cup {NoKey}
  BY CallTypes DEF OpRecords
<1>2. CASE ReclaimTier2
  <2> DEFINE t == ComputeShedTargets(ps, Len(entries), HasProtected, ProtectedSize)
  <2>1. /\ pc = "reclaim" /\ pc' = "shed"
        /\ UNCHANGED <<entries, index, size, currentSize, ps, stats, settled>>
        /\ op' = [op EXCEPT !.targets = t, !.cursor = Len(entries)]
    BY <1>2 DEF ReclaimTier2
  <2>2. ProtectedSize \in Nat /\ HasProtected \in BOOLEAN
    BY <1>1, InvWeights DEF ProtectedSize, HasProtected
  <2>3. t \in ShedTargets
    BY <2>2, <1>1, ShedTypes
  <2> HIDE DEF t
  <2>4. op' \in OpRecords /\ op'.cursor = Len(entries)
    BY <2>1, <2>3, <1>1 DEF OpRecords
  <2>5. TypeOK'
    BY <2>1, <2>4 DEF IndInv, TypeOK, Stage
  <2>6. ListMatchesIndex' /\ SizeParity' /\ CapacityBound'
    BY <2>1 DEF IndInv, ListMatchesIndex, SizeParity, CapacityBound
  <2>7. ReplaceGrowthFits' /\ Shape'
    BY <2>1, <2>4, <1>1 DEF ReplaceGrowthFits, Shape
  <2> QED BY <2>5, <2>6, <2>7 DEF IndInv
<1>3. CASE ShedSkip
  <2>1. /\ pc = "shed" /\ op.cursor > 0 /\ op' = [op EXCEPT !.cursor = @ - 1]
        /\ UNCHANGED <<entries, index, size, currentSize, ps, stats, pc, settled>>
        /\ op.cursor <= Len(entries)
    BY <1>3 DEF ShedSkip, ShedContinues, IndInv, Shape
  <2> DEFINE c == op.cursor - 1
  <2>2. c \in Nat /\ c <= Len(entries)
    BY <2>1, <1>1
  <2>3. op' = [op EXCEPT !.cursor = c]
    BY <2>1
  <2> HIDE DEF c
  <2>4. op' \in OpRecords /\ op'.cursor = c
    BY <2>2, <2>3, <1>1 DEF OpRecords
  <2>5. TypeOK'
    BY <2>1, <2>4 DEF IndInv, TypeOK, Stage
  <2>6. ListMatchesIndex' /\ SizeParity' /\ CapacityBound'
    BY <2>1 DEF IndInv, ListMatchesIndex, SizeParity, CapacityBound
  <2>7. ReplaceGrowthFits' /\ Shape'
    BY <2>1, <2>2, <2>4 DEF ReplaceGrowthFits, Shape
  <2> QED BY <2>5, <2>6, <2>7 DEF IndInv
<1>4. CASE ShedEvict
  <2> DEFINE c == op.cursor - 1
             o == [op EXCEPT !.cursor = c, !.shed = TRUE]
             k == entries[op.cursor]
  <2>1. /\ pc = "shed" /\ op.cursor > 0 /\ op.cursor <= Len(entries)
        /\ EraseEntryLocked(k, "Pressure", ps, o) /\ UNCHANGED <<pc, settled>>
    BY <1>4 DEF ShedEvict, ShedContinues, IndInv, Shape
  <2>2. c \in Nat /\ c <= Len(entries) - 1 /\ k \in index
    BY <2>1, <1>1, InvLinked
  <2> HIDE DEF c
  <2>3. o \in OpRecords /\ o.cursor = c
    BY <2>2, <1>1 DEF OpRecords
  <2> HIDE DEF o, k
  <2>4. TypeOK' /\ ListMatchesIndex' /\ SizeParity' /\ CapacityBound'
    BY <2>1, <2>2, <2>3, <1>1, CallTypes, EraseKeeps DEF Reasons
  <2>5. Len(entries') = Len(entries) - 1 /\ op' = Enqueue(o, k, "Pressure")
    BY <2>1, <2>2, <2>3, <1>1, EraseEffect DEF Reasons
  <2>6. op'.cursor = c
    BY <2>3, <2>5 DEF Enqueue, OpRecords
  <2>7. ReplaceGrowthFits' /\ Shape'
    BY <2>1, <2>2, <2>5, <2>6 DEF ReplaceGrowthFits, Shape
  <2> QED BY <2>4, <2>7 DEF IndInv
<1> QED BY <1>2, <1>3, <1>4

-----------------------------------------------------------------------------
(* The theorems                                                            *)

\* The empty cache satisfies the invariant.
LEMMA InitEstablishes ==
    ASSUME Init
    PROVE  IndInv
<1> USE DEF Init
<1>1. NoStats \in StatRecords
  BY ModulusAssumption DEF NoStats, StatRecords, Counter
<1>2. NoOp \in OpRecords
  <2>1. [pressure |-> Normal, valid |-> FALSE, recovered |-> FALSE] \in Samples
    BY DEF Samples, Levels, Normal, Tier1, Tier2
  <2> QED BY <2>1 DEF NoOp, OpRecords, Ops, NoTargets, ShedTargets
<1>3. Clean \in Watermarks
  BY SlackAssumption DEF Clean, Watermarks
<1>4. size \in [Keys -> 0..MaxSize]
  BY MaxSizeAssumption
<1>5. TypeOK
  <2>1. entries \in Seq(Keys) /\ index \in SUBSET Keys /\ currentSize \in Nat
    OBVIOUS
  <2>2. pc \in Stage /\ settled \in BOOLEAN
    BY DEF Stage
  <2>3. ps \in Watermarks /\ stats \in StatRecords /\ op \in OpRecords
    <3>1. ps = Clean /\ stats = NoStats /\ op = NoOp
      OBVIOUS
    <3> HIDE DEF Init
    <3> QED BY <3>1, <1>1, <1>2, <1>3
  <2> HIDE DEF Init
  <2> QED BY <2>1, <2>2, <2>3, <1>4 DEF TypeOK
<1>6. ListMatchesIndex
  BY DEF ListMatchesIndex, FirstKeys
<1>7. TotalWeight(index, size) = 0
  <2>1. TotalWeight(index, size) = TotalWeight({}, size)
    BY Zenon
  <2> QED BY <2>1, WeightOfNothing
<1>8. SizeParity /\ CapacityBound
  BY <1>7, MaxSizeAssumption DEF SizeParity, CapacityBound
<1>9. ReplaceGrowthFits /\ Shape
  BY DEF ReplaceGrowthFits, Shape
<1> QED BY <1>5, <1>6, <1>8, <1>9 DEF IndInv

\* Every step of every operation keeps the invariant.
LEMMA NextKeeps ==
    ASSUME IndInv, [Next]_vars
    PROVE  IndInv'
<1>1. CASE UNCHANGED vars
  BY <1>1 DEF vars, IndInv, TypeOK, ListMatchesIndex, SizeParity, CapacityBound,
              ReplaceGrowthFits, Shape
<1>2. ASSUME NEW k \in Keys, NEW w \in Weights, NEW s \in Samples,
             \/ PutExisting(k, w, s) \/ PutNew(k, w, s) \/ ReplaceGrow(k, w, s)
             \/ ReplaceSelfEvict(k, w, s) \/ ReplaceNoGrowth(k, w, s)
      PROVE  IndInv'
  BY <1>2, PutExistingKeeps, PutNewKeeps, ReplaceGrowKeeps, ReplaceSelfEvictKeeps,
     ReplaceNoGrowthKeeps
<1>3. ASSUME NEW k \in Keys, NEW s \in Samples, Delete(k, s)
      PROVE  IndInv'
  BY <1>3, DeleteKeeps
<1>4. ASSUME NEW k \in Keys, Get(k) \/ PrefixErase(k)
      PROVE  IndInv'
  BY <1>4, GetKeeps, PrefixEraseKeeps
<1>5. ASSUME NEW P \in Prefixes, NEW s \in Samples, DeletePrefix(P, s)
      PROVE  IndInv'
  BY <1>5, DeletePrefixKeeps
<1>6. ASSUME NEW s \in Samples, DeleteAll(s)
      PROVE  IndInv'
  BY <1>6, DeleteAllKeeps
<1>7. ASSUME NEW s \in Samples,
             \/ MissUnderLock(s) \/ EvaluateMemoryPressure(s) \/ Compact
             \/ PrefixDone \/ ShedStop \/ Unlock
      PROVE  IndInv'
  BY <1>7, QuietCallsKeep
<1>8. ASSUME \/ UpdateEvict \/ UpdateStore \/ InsertEvict \/ InsertStore
             \/ ReplaceEvict \/ ReplaceStore \/ FinishDeleteEmpty \/ FinishDelete
             \/ ReclaimTier1 \/ ReclaimTier2 \/ ShedEvict \/ ShedSkip
             \/ CompleteShedEmpty \/ CompleteShed
             \/ FinishMutation \/ FinishDeleteReclaim
      PROVE  IndInv'
  BY <1>8, UpdateEvictKeeps, UpdateStoreKeeps, InsertEvictKeeps, InsertStoreKeeps,
     ReplaceEvictKeeps, ReplaceStoreKeeps, FinishDeleteKeeps, ReclaimKeeps,
     ShedKeeps, FinishKeeps
<1>9. Samples # {}
  <2>1. [pressure |-> Normal, valid |-> FALSE, recovered |-> FALSE] \in Samples
    BY DEF Samples, Levels, Normal, Tier1, Tier2
  <2> QED BY <2>1
<1>10. CASE Call
  BY <1>10, <1>2, <1>3, <1>4, <1>5, <1>6, <1>7, <1>9 DEF Call
<1>11. CASE Step
  BY <1>11, <1>4, <1>7, <1>8, <1>9 DEF Step
<1> QED BY <1>1, <1>10, <1>11 DEF Next

\* The invariant holds in every state of every behaviour of the map backend.
LEMMA Invariance == Spec => []IndInv
<1>1. Init => IndInv
  BY InitEstablishes
<1>2. IndInv /\ [Next]_vars => IndInv'
  BY NextKeeps
<1> QED BY <1>1, <1>2, PTL DEF Spec

\* Every variable keeps its type; no size, total or watermark underflows, whatever
\* the keys, the weigher, the budget and the pressure samples are.
THEOREM TypeCorrect == Spec => []TypeOK
<1>1. IndInv => TypeOK
  BY DEF IndInv
<1> QED BY <1>1, Invariance, PTL

\* Between any two steps of any operation the intrusive list links exactly the
\* keys of the index, each once (invariants 3 and 5 of checkInvariants).
THEOREM ListAlwaysMatchesIndex == Spec => []ListMatchesIndex
<1>1. IndInv => ListMatchesIndex
  BY DEF IndInv
<1> QED BY <1>1, Invariance, PTL

\* currentSize is always the sum of the entry sizes (invariant 6).
THEOREM SizeAlwaysExact == Spec => []SizeParity
<1>1. IndInv => SizeParity
  BY DEF IndInv
<1> QED BY <1>1, Invariance, PTL

\* The byte budget is never exceeded, not even between the evictions and the
\* store of one operation (invariant 2).
THEOREM CapacityNeverExceeded == Spec => []CapacityBound
<1>1. IndInv => CapacityBound
  BY DEF IndInv
<1> QED BY <1>1, Invariance, PTL

\* A Replace that decided to grow its entry finds the room it was promised.
THEOREM ReplaceKeepsItsPromise == Spec => []ReplaceGrowthFits
<1>1. IndInv => ReplaceGrowthFits
  BY DEF IndInv
<1> QED BY <1>1, Invariance, PTL
=============================================================================
