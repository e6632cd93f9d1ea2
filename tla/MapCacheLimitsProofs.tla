------------------------ MODULE MapCacheLimitsProofs ------------------------
(***************************************************************************)
(* The limits of MapCache that count: what Tier 2 leaves, how many entries *)
(* there can be although weightless ones use none of the byte budget, and  *)
(* the balance of the telemetry counters.                                  *)
(***************************************************************************)
EXTENDS MapCacheOutcomeProofs

-----------------------------------------------------------------------------
(* Shedding                                                                *)

\* The byte target.  While it is not met, the victims behind the cursor have left,
\* or may not: the entry being written, and weightless entries, which no byte
\* target can ask for.
BytesReached ==
    pc = "completeShed" =>
        /\ currentSize <= AtLeast(TargetSize, ProtectedSize)
        /\ FullFlush => index \subseteq {op.protected}

ShedInv ==
    /\ pc = "shed" =>
         /\ ~FullFlush => op.targets.effective = AtLeast(TargetSize, ProtectedSize)
         /\ NeedByteShed(currentSize, op.targets) =>
              \A i \in (op.cursor + 1)..Len(entries) :
                 entries[i] = op.protected \/ (~FullFlush /\ size[entries[i]] = 0)
    /\ BytesReached

\* Keys without weight add nothing.
LEMMA WeightlessAddNothing ==
    ASSUME NEW S \in SUBSET Keys, NEW sz \in Sizes, \A k \in S : sz[k] = 0
    PROVE  TotalWeight(S, sz) = 0
<1>1. Cells(S, sz) = {}
  BY MaxSizeAssumption DEF Cells
<1> QED BY <1>1, FS_EmptySet DEF TotalWeight

\* The numbers the shedding compares.
LEMMA ShedNumbers ==
    ASSUME IndInv
    PROVE  /\ TargetSize \in Nat /\ ProtectedSize \in Nat /\ currentSize \in Nat
           /\ HasProtected => op.protected \in Keys
           /\ op.targets \in ShedTargets /\ op.cursor \in Nat
           /\ Linked(entries) /\ Len(entries) \in Nat /\ ps \in Watermarks
<1>1. MaxSize \in Nat
  BY InvWeights
<1>2. TargetSize \in Nat
  BY <1>1, RetainedType DEF TargetSize, AtLeast
<1>3. op \in OpRecords /\ ps \in Watermarks
  BY CallTypes
<1>4. HasProtected => op.protected \in Keys
  BY <1>3 DEF HasProtected, OpRecords
<1> QED BY <1>2, <1>3, <1>4, InvWeights, InvLinked DEF ProtectedSize, OpRecords

\* The first step of the shedding sets its targets.
LEMMA ShedInvStarts ==
    ASSUME IndInv, ReclaimTier2
    PROVE  ShedInv'
<1> DEFINE n == Len(entries)
           t == ComputeShedTargets(ps, n, HasProtected, ProtectedSize)
<1>1. /\ TargetSize \in Nat /\ ProtectedSize \in Nat /\ n \in Nat
      /\ op \in OpRecords
  BY ShedNumbers, CallTypes
<1>2. /\ op' = [op EXCEPT !.targets = t, !.cursor = n] /\ pc' = "shed"
      /\ UNCHANGED <<entries, size, currentSize>>
  BY DEF ReclaimTier2
<1>3. ~FullFlush => t.effective = AtLeast(TargetSize, ProtectedSize)
  BY <1>1 DEF ComputeShedTargets, ProtectedSize, AtLeast
<1> HIDE DEF t, n
<1>4. op'.targets = t /\ op'.cursor = n /\ op'.protected = op.protected
  BY <1>1, <1>2 DEF OpRecords
<1>5. ProtectedSize' = ProtectedSize
  BY <1>2, <1>4 DEF ProtectedSize, HasProtected
<1>6. (op'.cursor + 1)..Len(entries') = {}
  BY <1>1, <1>2, <1>4 DEF n
<1> QED BY <1>2, <1>3, <1>4, <1>5, <1>6 DEF ShedInv, BytesReached

\* A victim leaves, and the entries behind it move up.
LEMMA ShedVictimLeaves ==
    ASSUME IndInv, ShedEvict
    PROVE  /\ pc = "shed" /\ pc' = "shed" /\ op'.targets = op.targets
           /\ op'.protected = op.protected /\ ProtectedSize' = ProtectedSize
           /\ \E k \in index :
                /\ currentSize' = currentSize - size[k]
                /\ ps' = OnEntryDeleted(ps, size[k])
           /\ \A i \in (op'.cursor + 1)..Len(entries') :
                \E j \in (op.cursor + 1)..Len(entries) :
                   /\ entries'[i] = entries[j]
                   /\ size'[entries'[i]] = size[entries[j]]
<1> DEFINE c == op.cursor
           k == entries[c]
<1>1. /\ Evicts(k, "Pressure") /\ pc = "shed" /\ pc' = "shed"
      /\ c \in 1..Len(entries) /\ op'.cursor = c - 1 /\ op'.targets = op.targets
      /\ k # op.protected /\ op'.protected = op.protected
  BY ShedErasure DEF Evicts
<1>2. Linked(entries) /\ Len(entries) \in Nat
  BY ShedNumbers
<1> HIDE DEF c
<1>3. PICK o \in OpRecords : EraseEntryLocked(k, "Pressure", ps, o)
  BY <1>1 DEF Evicts
<1>4. /\ entries' = Remove(entries, k)
      /\ currentSize' = currentSize - size[k]
      /\ ps' = OnEntryDeleted(ps, size[k])
      /\ \A j \in Keys : j # k => size'[j] = size[j]
      /\ k \in index /\ k \in Keys
  BY <1>1, <1>3, CallTypes, EraseEffect DEF Evicts, EraseEntryLocked, Reasons
<1>5. ProtectedSize' = ProtectedSize
  BY <1>1, <1>4, ShedNumbers DEF ProtectedSize, HasProtected
<1>6. ASSUME NEW i \in c..(Len(entries) - 1)
      PROVE  /\ i + 1 \in (c + 1)..Len(entries) /\ entries'[i] = entries[i + 1]
             /\ size'[entries[i + 1]] = size[entries[i + 1]]
  <2>1. Position(entries, k) = c
    BY <1>1, <1>2, PositionFound DEF Linked, FirstKeys
  <2>2. entries'[i] = entries[i + 1]
    BY <1>1, <1>2, <1>4, <2>1 DEF Remove
  <2>3. i + 1 \in 1..Len(entries) /\ i + 1 # c /\ i + 1 \in (c + 1)..Len(entries)
    BY <1>1, <1>2
  <2>4. entries[i + 1] \in Keys /\ entries[i + 1] # k
    BY <1>1, <1>2, <2>3 DEF Linked
  <2> QED BY <1>4, <2>2, <2>3, <2>4
<1>7. Len(entries') = Len(entries) - 1
  BY <1>1, <1>2, <1>4, RemoveKeepsOrder
<1>8. (op'.cursor + 1)..Len(entries') = c..(Len(entries) - 1)
  BY <1>1, <1>2, <1>7
<1>9. \A i \in (op'.cursor + 1)..Len(entries') :
        \E j \in (op.cursor + 1)..Len(entries) :
           entries'[i] = entries[j] /\ size'[entries'[i]] = size[entries[j]]
  BY <1>6, <1>8 DEF c
<1> HIDE DEF k
<1> QED BY <1>1, <1>4, <1>5, <1>9

LEMMA ShedInvEvicts ==
    ASSUME IndInv, ShedInv, ShedEvict
    PROVE  ShedInv'
<1>1. PICK k \in index : currentSize' = currentSize - size[k]
  BY ShedVictimLeaves
<1>2. size[k] \in Nat /\ currentSize \in Nat /\ op.targets.effective \in Nat
  BY ShedNumbers, InvWeights, InvLinked DEF ShedTargets
<1>3. NeedByteShed(currentSize', op.targets) => NeedByteShed(currentSize, op.targets)
  BY <1>1, <1>2 DEF NeedByteShed
<1> QED BY <1>3, ShedVictimLeaves DEF ShedInv, BytesReached

\* A victim stays, for one of the reasons.
LEMMA ShedInvSkips ==
    ASSUME IndInv, ShedInv, ShedSkip
    PROVE  ShedInv'
<1>1. /\ pc = "shed" /\ pc' = "shed" /\ ~ShedTakesVictim /\ op.cursor > 0
      /\ op' = [op EXCEPT !.cursor = @ - 1]
      /\ UNCHANGED <<entries, size, currentSize>>
  BY DEF ShedSkip, ShedContinues
<1>2. op \in OpRecords /\ op.cursor \in Nat /\ Len(entries) \in Nat
  BY ShedNumbers, CallTypes
<1>3. /\ op'.cursor = op.cursor - 1 /\ op'.targets = op.targets
      /\ op'.protected = op.protected
  BY <1>1, <1>2 DEF OpRecords
<1>4. NeedByteShed(currentSize, op.targets) =>
        \/ entries[op.cursor] = op.protected
        \/ ~FullFlush /\ ~(size[entries[op.cursor]] > 0)
  BY <1>1 DEF ShedTakesVictim, ShouldEvictShedVictim
<1>5. op.cursor \in 1..Len(entries) /\ size[entries[op.cursor]] \in Nat
  <2>1. op.cursor \in 1..Len(entries)
    BY <1>1, <1>2 DEF IndInv, Shape
  <2> QED BY <2>1, InvLinked, InvWeights
<1>6. \A i \in op.cursor..Len(entries) : i = op.cursor \/ i \in (op.cursor + 1)..Len(entries)
  BY <1>2
<1>7. (op'.cursor + 1)..Len(entries') = op.cursor..Len(entries)
  BY <1>1, <1>2, <1>3
<1>8. ProtectedSize' = ProtectedSize
  BY <1>1, <1>3 DEF ProtectedSize, HasProtected
<1> QED BY <1>1, <1>3, <1>4, <1>5, <1>6, <1>7, <1>8 DEF ShedInv, BytesReached

\* When the shedding stops the target is reached, or nothing else could leave.
LEMMA ShedInvStops ==
    ASSUME IndInv, ShedInv, ShedStop
    PROVE  ShedInv'
<1>1. /\ pc = "shed" /\ pc' = "completeShed" /\ ~ShedContinues
      /\ UNCHANGED <<entries, index, size, currentSize, op>>
  BY DEF ShedStop
<1>2. /\ TargetSize \in Nat /\ ProtectedSize \in Nat /\ currentSize \in Nat
      /\ op.targets.effective \in Nat /\ op.cursor \in Nat
  BY ShedNumbers DEF ShedTargets
<1>3. CASE ~NeedByteShed(currentSize, op.targets)
  <2>1. ~FullFlush /\ ~(currentSize > op.targets.effective)
    BY <1>3 DEF NeedByteShed
  <2>2. currentSize <= AtLeast(TargetSize, ProtectedSize)
    BY <2>1, <1>1, <1>2 DEF ShedInv, AtLeast
  <2>3. ProtectedSize' = ProtectedSize
    BY <1>1 DEF ProtectedSize, HasProtected
  <2> QED BY <1>1, <2>1, <2>2, <2>3 DEF ShedInv, BytesReached
<1>4. CASE NeedByteShed(currentSize, op.targets)
  <2>1. op.cursor = 0
    BY <1>1, <1>2, <1>4 DEF ShedContinues
  <2>2. \A i \in 1..Len(entries) :
           entries[i] = op.protected \/ (~FullFlush /\ size[entries[i]] = 0)
    BY <1>1, <1>4, <2>1 DEF ShedInv
  <2>3. \A k \in index : k = op.protected \/ (~FullFlush /\ size[k] = 0)
    BY <2>2, InvWeights
  <2>4. /\ currentSize = TotalWeight(index, size) /\ index \in SUBSET Keys
        /\ size \in Sizes
    BY <1>1, InvParity, InvLinked, InvWeights
  <2>5. currentSize <= ProtectedSize
    <3>1. CASE op.protected \in index
      <4> DEFINE p == op.protected
      <4>1. HasProtected /\ ProtectedSize = size[p]
        BY <3>1, <2>4, KeysAssumption DEF HasProtected, ProtectedSize
      <4>2. TotalWeight(index \ {p}, size) = 0
        BY <2>3, <2>4, WeightlessAddNothing
      <4>3. TotalWeight(index, size) = TotalWeight(index \ {p}, size) + size[p]
        BY <2>4, <3>1, WeightWithout
      <4> HIDE DEF p
      <4> QED BY <4>1, <4>2, <4>3, <2>4, <1>2
    <3>2. CASE op.protected \notin index
      <4>1. TotalWeight(index, size) = 0
        BY <2>3, <2>4, <3>2, WeightlessAddNothing
      <4> QED BY <4>1, <2>4, <1>2
    <3> QED BY <3>1, <3>2
  <2>6. currentSize <= AtLeast(TargetSize, ProtectedSize)
    BY <2>5, <1>2 DEF AtLeast
  <2>7. FullFlush => index \subseteq {op.protected}
    BY <2>3
  <2>8. ProtectedSize' = ProtectedSize
    BY <1>1 DEF ProtectedSize, HasProtected
  <2> QED BY <1>1, <2>6, <2>7, <2>8 DEF ShedInv, BytesReached
<1> QED BY <1>3, <1>4

\* Only the steps of the shedding lead into it.
LEMMA SheddingSteps ==
    ASSUME [Next]_vars, pc' \in {"shed", "completeShed"}
    PROVE  \/ UNCHANGED vars
           \/ ReclaimTier2 \/ ShedEvict \/ ShedSkip \/ ShedStop
<1>1. ASSUME Call PROVE pc' \notin {"shed", "completeShed"}
  <2>1. CASE \E k \in Keys, w \in Weights, s \in Samples :
               \/ PutExisting(k, w, s) \/ PutNew(k, w, s) \/ ReplaceGrow(k, w, s)
               \/ ReplaceSelfEvict(k, w, s) \/ ReplaceNoGrowth(k, w, s)
    BY <2>1 DEF PutExisting, PutNew, ReplaceGrow, ReplaceSelfEvict, ReplaceNoGrowth
  <2>2. CASE \/ \E k \in Keys, s \in Samples : Delete(k, s)
             \/ \E k \in Keys : Get(k)
             \/ \E P \in Prefixes, s \in Samples : DeletePrefix(P, s)
    BY <2>2 DEF Delete, Get, DeletePrefix
  <2>3. CASE \/ \E s \in Samples :
                  MissUnderLock(s) \/ DeleteAll(s) \/ EvaluateMemoryPressure(s)
             \/ Compact
    BY <2>3 DEF MissUnderLock, DeleteAll, EvaluateMemoryPressure, Compact
  <2> QED BY <1>1, <2>1, <2>2, <2>3 DEF Call
<1>2. CASE Step
  BY <1>2 DEF Step, UpdateEvict, UpdateStore, InsertEvict, InsertStore,
     ReplaceEvict, ReplaceStore, PrefixErase, PrefixDone, FinishDeleteEmpty,
     FinishDelete, ReclaimTier1, CompleteShedEmpty, CompleteShed,
     FinishMutation, FinishDeleteReclaim, Unlock, AfterMutation, AfterReclaim
<1> QED BY <1>1, <1>2 DEF Next

LEMMA ShedInvKeeps ==
    ASSUME IndInv, ShedInv, [Next]_vars
    PROVE  ShedInv'
<1>1. CASE UNCHANGED vars
  BY <1>1 DEF vars, ShedInv, BytesReached, ProtectedSize, HasProtected
<1>2. CASE pc' \notin {"shed", "completeShed"}
  BY <1>2 DEF ShedInv, BytesReached
<1>3. CASE ReclaimTier2 \/ ShedEvict \/ ShedSkip \/ ShedStop
  BY <1>3, ShedInvStarts, ShedInvEvicts, ShedInvSkips, ShedInvStops
<1> QED BY <1>1, <1>2, <1>3, SheddingSteps

-----------------------------------------------------------------------------
(* Counters that wrap around                                               *)

\* A remainder is determined by its number.
LEMMA RemainderUnique ==
    ASSUME NEW y \in Int, NEW q \in Int, NEW r \in 0..(CounterModulus - 1),
           y = CounterModulus * q + r
    PROVE  y % CounterModulus = r
<1> DEFINE M == CounterModulus
           a == y \div M
           b == y % M
<1>1. M \in Nat /\ M > 0
  BY ModulusAssumption
<1>2. a \in Int /\ b \in 0..(M - 1) /\ y = M * a + b
  BY <1>1, SMT
<1> HIDE DEF a, b, M
<1>3. M * q + r = M * a + b /\ r \in 0..(M - 1)
  BY <1>2 DEF M
<1>4. CASE q > a
  <2>1. M * q >= M * (a + 1)
    BY <1>1, <1>2, <1>4, SMT
  <2>2. M * (a + 1) = M * a + M
    BY <1>1, <1>2, SMT
  <2>3. M * a \in Int /\ M * q \in Int
    BY <1>1, <1>2, SMT
  <2> HIDE DEF a
  <2> QED BY <1>1, <1>2, <1>3, <2>1, <2>2, <2>3
<1>5. CASE q < a
  <2>1. M * a >= M * (q + 1)
    BY <1>1, <1>2, <1>5, SMT
  <2>2. M * (q + 1) = M * q + M
    BY <1>1, <1>2, SMT
  <2>3. M * a \in Int /\ M * q \in Int
    BY <1>1, <1>2, SMT
  <2> QED BY <1>1, <1>2, <1>3, <2>1, <2>2, <2>3
<1>6. CASE q = a
  <2>1. M * a \in Int
    BY <1>1, <1>2, SMT
  <2> QED BY <2>1, <1>2, <1>3, <1>6 DEF b, M
<1> QED BY <1>2, <1>4, <1>5, <1>6

\* A counter that has wrapped around adds up like the one that has not.
LEMMA WrappedAdds ==
    ASSUME NEW a \in Nat, NEW x \in Nat
    PROVE  (a + (x % CounterModulus)) % CounterModulus = (a + x) % CounterModulus
<1> DEFINE M == CounterModulus
           r == x % M
           q == x \div M
           t == (a + r) % M
           u == (a + r) \div M
<1>1. M \in Nat /\ M > 0
  BY ModulusAssumption
<1>2. r \in 0..(M - 1) /\ q \in Int /\ x = M * q + r
  BY <1>1, SMT
<1> HIDE DEF r, q
<1>3. t \in 0..(M - 1) /\ u \in Int /\ a + r = M * u + t
  BY <1>1, <1>2, SMT
<1> HIDE DEF t, u, M
<1>4. M * (q + u) = M * q + M * u /\ M * q \in Int /\ M * u \in Int
  BY <1>1, <1>2, <1>3, SMT
<1>5. a + x = M * (q + u) + t
  BY <1>1, <1>2, <1>3, <1>4
<1>6. a + x \in Int /\ q + u \in Int /\ t \in 0..(CounterModulus - 1)
      /\ a + x = CounterModulus * (q + u) + t
  BY <1>2, <1>3, <1>5 DEF M
<1>7. (a + x) % CounterModulus = t
  BY <1>6, RemainderUnique
<1>8. t = (a + (x % CounterModulus)) % CounterModulus
  BY DEF t, r, M
<1> QED BY <1>7, <1>8


\* CountersBalance of n entries of total weight t.
Balanced(n, t, s) ==
    /\ (n + Removals(s)) % CounterModulus = s.putInserted
    /\ (s.putUpdated + s.replaceUpdated) % CounterModulus = s.evictions["Replaced"]
    /\ (t + s.evictedWeight) % CounterModulus = s.admittedWeight

\* What RecordEvictions writes.
LEMMA EvictionFields ==
    ASSUME NEW s \in StatRecords, NEW r \in Reasons, NEW n \in Nat, NEW w \in Nat,
           NEW q, q = RecordEvictions(s, r, n, w)
    PROVE  /\ q.putInserted = s.putInserted /\ q.putUpdated = s.putUpdated
           /\ q.replaceUpdated = s.replaceUpdated
           /\ q.admittedWeight = s.admittedWeight
           /\ q.evictedWeight = Add(s.evictedWeight, w)
           /\ q.evictions[r] = Add(s.evictions[r], n)
           /\ \A x \in Reasons \ {r} : q.evictions[x] = s.evictions[x]
  BY DEF RecordEvictions, StatRecords

\* What Admit writes.
LEMMA AdmitFields ==
    ASSUME NEW s \in StatRecords, NEW w \in Nat, NEW q, q = Admit(s, w)
    PROVE  /\ q.putInserted = s.putInserted /\ q.putUpdated = s.putUpdated
           /\ q.replaceUpdated = s.replaceUpdated
           /\ q.admittedWeight = Add(s.admittedWeight, w)
           /\ q.evictedWeight = s.evictedWeight /\ q.evictions = s.evictions
  BY DEF Admit, StatRecords

\* The counters are natural numbers.
LEMMA CounterTypes ==
    ASSUME NEW s \in StatRecords
    PROVE  /\ s.putInserted \in Nat /\ s.putUpdated \in Nat
           /\ s.replaceUpdated \in Nat /\ s.evictedWeight \in Nat
           /\ s.admittedWeight \in Nat
           /\ \A r \in Reasons : s.evictions[r] \in Nat
  BY ModulusAssumption DEF StatRecords, Counter

\* Entries leave.
LEMMA BalanceAfterLeaving ==
    ASSUME NEW n \in Nat, NEW t \in Nat, NEW s \in StatRecords, Balanced(n, t, s),
           NEW r \in Reasons \ {"Replaced"}, NEW m \in Nat, m <= n,
           NEW w \in Nat, w <= t
    PROVE  Balanced(n - m, t - w, RecordEvictions(s, r, m, w))
<1> DEFINE q == RecordEvictions(s, r, m, w)
<1>1. /\ q.putInserted = s.putInserted /\ q.putUpdated = s.putUpdated
      /\ q.replaceUpdated = s.replaceUpdated /\ q.admittedWeight = s.admittedWeight
      /\ q.evictedWeight = Add(s.evictedWeight, w)
      /\ q.evictions[r] = Add(s.evictions[r], m)
      /\ \A x \in Reasons \ {r} : q.evictions[x] = s.evictions[x]
  BY EvictionFields DEF Reasons
<1>2. /\ s.evictedWeight \in Nat /\ \A x \in Reasons : s.evictions[x] \in Nat
  BY CounterTypes
<1> HIDE DEF q
<1> DEFINE rest == Removals(s) - s.evictions[r]
<1>21. q.evictions[r] \in Nat
  <2>1. Add(s.evictions[r], m) \in Counter
    BY <1>2, AddType
  <2> QED BY <1>1, <2>1, ModulusAssumption DEF Counter
<1>3. /\ rest \in Nat /\ Removals(s) = rest + s.evictions[r]
      /\ Removals(q) = rest + q.evictions[r]
  <2> DEFINE a == s.evictions["Capacity"]
             b == s.evictions["Pressure"]
             d == s.evictions["Deleted"]
  <2>1. a \in Nat /\ b \in Nat /\ d \in Nat /\ Removals(s) = a + b + d
    BY <1>2 DEF Removals, Reasons
  <2>2. CASE r = "Capacity"
    <3>1. /\ q.evictions["Pressure"] = b /\ q.evictions["Deleted"] = d
          /\ s.evictions[r] = a
          /\ Removals(q) = q.evictions[r] + b + d
      BY <2>2, <1>1 DEF Removals, Reasons
    <3> HIDE DEF a, b, d
    <3> QED BY <2>1, <3>1, <1>21 DEF rest
  <2>3. CASE r = "Pressure"
    <3>1. /\ q.evictions["Capacity"] = a /\ q.evictions["Deleted"] = d
          /\ s.evictions[r] = b
          /\ Removals(q) = a + q.evictions[r] + d
      BY <2>3, <1>1 DEF Removals, Reasons
    <3> HIDE DEF a, b, d
    <3> QED BY <2>1, <3>1, <1>21 DEF rest
  <2>4. CASE r = "Deleted"
    <3>1. /\ q.evictions["Capacity"] = a /\ q.evictions["Pressure"] = b
          /\ s.evictions[r] = d
          /\ Removals(q) = a + b + q.evictions[r]
      BY <2>4, <1>1 DEF Removals, Reasons
    <3> HIDE DEF a, b, d
    <3> QED BY <2>1, <3>1, <1>21 DEF rest
  <2> QED BY <2>2, <2>3, <2>4 DEF Reasons
<1> HIDE DEF rest
<1>4. (n - m + Removals(q)) % CounterModulus = (n + Removals(s)) % CounterModulus
  <2> DEFINE a == n - m + rest
             e == s.evictions[r] + m
  <2>1. a \in Nat /\ e \in Nat /\ a + e = n + Removals(s)
    BY <1>2, <1>3
  <2>2. n - m + Removals(q) = a + (e % CounterModulus)
    <3>2. q.evictions[r] = e % CounterModulus
      BY <1>1 DEF Add
    <3>3. n - m + (rest + q.evictions[r]) = a + q.evictions[r]
      BY <1>3, <1>21
    <3> QED BY <1>3, <3>2, <3>3
  <2> HIDE DEF a, e
  <2>3. (a + (e % CounterModulus)) % CounterModulus = (a + e) % CounterModulus
    BY <2>1, WrappedAdds
  <2> QED BY <2>1, <2>2, <2>3
<1>5. (t - w + q.evictedWeight) % CounterModulus
        = (t + s.evictedWeight) % CounterModulus
  <2> DEFINE a == t - w
             e == s.evictedWeight + w
  <2>1. a \in Nat /\ e \in Nat /\ a + e = t + s.evictedWeight
    BY <1>2
  <2>2. q.evictedWeight = e % CounterModulus
    BY <1>1 DEF Add
  <2> HIDE DEF e
  <2>3. (a + (e % CounterModulus)) % CounterModulus = (a + e) % CounterModulus
    BY <2>1, WrappedAdds
  <2> QED BY <2>1, <2>2, <2>3
<1>6. q.evictions["Replaced"] = s.evictions["Replaced"]
  BY <1>1 DEF Reasons
<1> QED BY <1>1, <1>4, <1>5, <1>6 DEF Balanced, q

\* An entry of weight w is linked.
LEMMA BalanceAfterInsert ==
    ASSUME NEW n \in Nat, NEW t \in Nat, NEW s \in StatRecords, Balanced(n, t, s),
           NEW w \in Nat
    PROVE  Balanced(n + 1, t + w, Admit([s EXCEPT !.putInserted = Add(@, 1)], w))
<1> DEFINE p == [s EXCEPT !.putInserted = Add(@, 1)]
           q == Admit(p, w)
<1>1. p \in StatRecords
  BY StatTypes
<1>2. /\ p.putInserted = Add(s.putInserted, 1) /\ p.putUpdated = s.putUpdated
      /\ p.replaceUpdated = s.replaceUpdated /\ p.admittedWeight = s.admittedWeight
      /\ p.evictedWeight = s.evictedWeight /\ p.evictions = s.evictions
  BY DEF StatRecords
<1> HIDE DEF p
<1>3. /\ q.putInserted = p.putInserted /\ q.putUpdated = p.putUpdated
      /\ q.replaceUpdated = p.replaceUpdated
      /\ q.admittedWeight = Add(p.admittedWeight, w)
      /\ q.evictedWeight = p.evictedWeight /\ q.evictions = p.evictions
  BY <1>1, AdmitFields
<1> HIDE DEF q
<1>4. Removals(s) \in Nat /\ s.evictedWeight \in Nat /\ Removals(q) = Removals(s)
  BY <1>2, <1>3, CounterTypes DEF Removals, Reasons
<1>5. (n + 1 + Removals(q)) % CounterModulus = q.putInserted
  <2>1. 1 + (n + Removals(s)) = n + 1 + Removals(q)
    BY <1>4
  <2>2. (1 + ((n + Removals(s)) % CounterModulus)) % CounterModulus
          = (1 + (n + Removals(s))) % CounterModulus
    <3> DEFINE x == n + Removals(s)
    <3>1. x \in Nat /\ 1 \in Nat
      BY <1>4
    <3> HIDE DEF x
    <3>2. (1 + (x % CounterModulus)) % CounterModulus = (1 + x) % CounterModulus
      BY <3>1, WrappedAdds
    <3> QED BY <3>2 DEF x
  <2>3. q.putInserted = (1 + s.putInserted) % CounterModulus
    BY <1>2, <1>3, CounterTypes DEF Add
  <2>4. s.putInserted = (n + Removals(s)) % CounterModulus
    BY DEF Balanced
  <2> QED BY <2>1, <2>2, <2>3, <2>4
<1>6. (t + w + q.evictedWeight) % CounterModulus = q.admittedWeight
  <2>1. w + (t + s.evictedWeight) = t + w + q.evictedWeight
    BY <1>2, <1>3, <1>4
  <2>2. (w + ((t + s.evictedWeight) % CounterModulus)) % CounterModulus
          = (w + (t + s.evictedWeight)) % CounterModulus
    <3> DEFINE x == t + s.evictedWeight
    <3>1. x \in Nat
      BY <1>4
    <3> HIDE DEF x
    <3>2. (w + (x % CounterModulus)) % CounterModulus = (w + x) % CounterModulus
      BY <3>1, WrappedAdds
    <3> QED BY <3>2 DEF x
  <2>3. q.admittedWeight = (w + s.admittedWeight) % CounterModulus
    BY <1>2, <1>3, CounterTypes DEF Add
  <2>4. s.admittedWeight = (t + s.evictedWeight) % CounterModulus
    BY DEF Balanced
  <2> QED BY <2>1, <2>2, <2>3, <2>4
<1> QED BY <1>2, <1>3, <1>5, <1>6 DEF Balanced, q, p

\* A weight v is overwritten by w.
LEMMA BalanceAfterStore ==
    ASSUME NEW n \in Nat, NEW t \in Nat, NEW s \in StatRecords, Balanced(n, t, s),
           NEW v \in Nat, v <= t, NEW w \in Nat,
           NEW c, \/ c = [s EXCEPT !.putUpdated = Add(@, 1)]
                  \/ c = [s EXCEPT !.replaceUpdated = Add(@, 1)]
    PROVE  Balanced(n, t - v + w, Admit(RecordEvictions(c, "Replaced", 1, v), w))
<1> DEFINE p == RecordEvictions(c, "Replaced", 1, v)
           q == Admit(p, w)
<1>1. c \in StatRecords /\ p \in StatRecords
  BY StatTypes DEF Reasons
<1>2. /\ c.putInserted = s.putInserted
      /\ \/ c.putUpdated = Add(s.putUpdated, 1) /\ c.replaceUpdated = s.replaceUpdated
         \/ c.replaceUpdated = Add(s.replaceUpdated, 1) /\ c.putUpdated = s.putUpdated
      /\ c.admittedWeight = s.admittedWeight
      /\ c.evictedWeight = s.evictedWeight /\ c.evictions = s.evictions
  BY DEF StatRecords
<1>3. /\ p.putInserted = c.putInserted /\ p.putUpdated = c.putUpdated
      /\ p.replaceUpdated = c.replaceUpdated /\ p.admittedWeight = c.admittedWeight
      /\ p.evictedWeight = Add(c.evictedWeight, v)
      /\ p.evictions["Replaced"] = Add(c.evictions["Replaced"], 1)
      /\ \A x \in Reasons \ {"Replaced"} : p.evictions[x] = c.evictions[x]
  <2>1. \A r \in Reasons, m \in Nat : p = RecordEvictions(c, r, m, v) =>
          /\ p.putInserted = c.putInserted /\ p.putUpdated = c.putUpdated
          /\ p.replaceUpdated = c.replaceUpdated
          /\ p.admittedWeight = c.admittedWeight
          /\ p.evictedWeight = Add(c.evictedWeight, v)
          /\ p.evictions[r] = Add(c.evictions[r], m)
          /\ \A x \in Reasons \ {r} : p.evictions[x] = c.evictions[x]
    <3> HIDE DEF p
    <3> QED BY <1>1, EvictionFields
  <2>2. "Replaced" \in Reasons /\ 1 \in Nat
    BY DEF Reasons
  <2>3. p = RecordEvictions(c, "Replaced", 1, v)
    OBVIOUS
  <2> HIDE DEF p
  <2> QED BY <2>1, <2>2, <2>3
<1> HIDE DEF p
<1>4. /\ q.putInserted = p.putInserted /\ q.putUpdated = p.putUpdated
      /\ q.replaceUpdated = p.replaceUpdated
      /\ q.admittedWeight = Add(p.admittedWeight, w)
      /\ q.evictedWeight = p.evictedWeight /\ q.evictions = p.evictions
  BY <1>1, AdmitFields
<1> HIDE DEF q
<1>5. /\ s.putUpdated \in Nat /\ s.replaceUpdated \in Nat /\ s.evictedWeight \in Nat
      /\ s.evictions["Replaced"] \in Nat
  BY CounterTypes DEF Reasons
<1>6. (n + Removals(q)) % CounterModulus = q.putInserted
  <2>1. Removals(q) = Removals(s)
    BY <1>2, <1>3, <1>4 DEF Removals, Reasons
  <2> QED BY <2>1, <1>2, <1>3, <1>4 DEF Balanced
<1>7. (q.putUpdated + q.replaceUpdated) % CounterModulus = q.evictions["Replaced"]
  <2> DEFINE x == s.putUpdated
             y == s.replaceUpdated
  <2>1. q.evictions["Replaced"] = (1 + ((x + y) % CounterModulus)) % CounterModulus
    <3>1. q.evictions["Replaced"]
            = (1 + s.evictions["Replaced"]) % CounterModulus
      BY <1>2, <1>3, <1>4, <1>5 DEF Add
    <3> QED BY <3>1 DEF Balanced
  <2>2. (1 + ((x + y) % CounterModulus)) % CounterModulus
          = (1 + (x + y)) % CounterModulus
    <3> DEFINE z == x + y
    <3>1. z \in Nat /\ 1 \in Nat
      BY <1>5
    <3> HIDE DEF z
    <3>2. (1 + (z % CounterModulus)) % CounterModulus = (1 + z) % CounterModulus
      BY <3>1, WrappedAdds
    <3> QED BY <3>2 DEF z
  <2>3. (y + ((x + 1) % CounterModulus)) % CounterModulus
          = (y + (x + 1)) % CounterModulus
    BY <1>5, WrappedAdds
  <2>4. (x + ((y + 1) % CounterModulus)) % CounterModulus
          = (x + (y + 1)) % CounterModulus
    BY <1>5, WrappedAdds
  <2>5. /\ Add(x, 1) = (x + 1) % CounterModulus /\ Add(x, 1) \in Nat
        /\ Add(y, 1) = (y + 1) % CounterModulus /\ Add(y, 1) \in Nat
    BY <1>5, AddType DEF Add, Counter
  <2>6. 1 + (x + y) = y + (x + 1) /\ 1 + (x + y) = x + (y + 1)
    BY <1>5
  <2>7. CASE c.putUpdated = Add(x, 1) /\ c.replaceUpdated = y
    <3>1. q.putUpdated + q.replaceUpdated = y + ((x + 1) % CounterModulus)
      BY <2>5, <2>7, <1>3, <1>4, <1>5
    <3> QED BY <3>1, <2>1, <2>2, <2>3, <2>6
  <2>8. CASE c.replaceUpdated = Add(y, 1) /\ c.putUpdated = x
    <3>1. q.putUpdated + q.replaceUpdated = x + ((y + 1) % CounterModulus)
      BY <2>5, <2>8, <1>3, <1>4, <1>5
    <3> QED BY <3>1, <2>1, <2>2, <2>4, <2>6
  <2> QED BY <2>7, <2>8, <1>2
<1>8. (t - v + w + q.evictedWeight) % CounterModulus = q.admittedWeight
  <2> DEFINE e == s.evictedWeight + v
             a == t - v + w
  <2>1. /\ e \in Nat /\ a \in Nat /\ a + e = w + (t + s.evictedWeight)
        /\ t + s.evictedWeight \in Nat
    BY <1>5
  <2>2. q.evictedWeight = e % CounterModulus
    BY <1>2, <1>3, <1>4 DEF Add
  <2>3. q.admittedWeight
          = (w + ((t + s.evictedWeight) % CounterModulus)) % CounterModulus
    <3>1. q.admittedWeight = (w + s.admittedWeight) % CounterModulus
      BY <1>2, <1>3, <1>4, CounterTypes DEF Add
    <3> QED BY <3>1 DEF Balanced
  <2>4. (w + ((t + s.evictedWeight) % CounterModulus)) % CounterModulus
          = (w + (t + s.evictedWeight)) % CounterModulus
    BY <2>1, WrappedAdds
  <2> HIDE DEF e, a
  <2>5. (a + (e % CounterModulus)) % CounterModulus = (a + e) % CounterModulus
    BY <2>1, WrappedAdds
  <2> QED BY <2>1, <2>2, <2>3, <2>4, <2>5 DEF a
<1> QED BY <1>6, <1>7, <1>8 DEF Balanced, q, p

\* The numbers CountersBalance relates.
LEMMA BalanceNumbers ==
    ASSUME IndInv
    PROVE  /\ Len(entries) \in Nat /\ TotalWeight(index, size) \in Nat
           /\ stats \in StatRecords
           /\ \A k \in index : size[k] \in Nat /\ size[k] <= TotalWeight(index, size)
           /\ \A k \in index : Len(entries) >= 1
           /\ CountersBalance <=> Balanced(Len(entries), TotalWeight(index, size), stats)
<1>1. /\ Len(entries) \in Nat /\ stats \in StatRecords /\ index \in SUBSET Keys
      /\ size \in Sizes /\ \A k \in Keys : size[k] \in Nat
      /\ \A k \in index : \E i \in 1..Len(entries) : entries[i] = k
  BY CallTypes, InvLinked, InvWeights
<1>2. TotalWeight(index, size) \in Nat
  BY <1>1, CellsFinite
<1>3. \A k \in index : size[k] \in Nat /\ size[k] <= TotalWeight(index, size)
  BY <1>1, WeightWithout
<1>4. \A k \in index : Len(entries) >= 1
  BY <1>1
<1> QED BY <1>1, <1>2, <1>3, <1>4 DEF CountersBalance, Balanced

\* An erased entry is counted under its reason.
LEMMA BalanceErases ==
    ASSUME IndInv, CountersBalance, Erasure
    PROVE  CountersBalance'
<1> DEFINE n == Len(entries)
           t == TotalWeight(index, size)
<1>1. PICK k \in index, reason \in Reasons \ {"Replaced"},
           p \in {ps, ClearZeroWatermark(ps)}, o \in OpRecords :
        EraseEntryLocked(k, reason, p, o)
  BY ErasureForm
<1>2. p \in Watermarks /\ reason \in Reasons
  BY CallTypes, WatermarkTypes
<1>3. /\ Len(entries') = n - 1 /\ TotalWeight(index', size') = t - size[k]
  BY <1>1, <1>2, EraseEffect
<1>4. stats' = RecordEvictions(stats, reason, 1, size[k])
  BY <1>1 DEF EraseEntryLocked
<1>5. /\ n \in Nat /\ t \in Nat /\ stats \in StatRecords /\ Balanced(n, t, stats)
      /\ size[k] \in Nat /\ size[k] <= t /\ 1 \in Nat /\ 1 <= n
  BY BalanceNumbers
<1> HIDE DEF n, t
<1>6. Balanced(n - 1, t - size[k], RecordEvictions(stats, reason, 1, size[k]))
  BY <1>5, BalanceAfterLeaving
<1> QED BY <1>3, <1>4, <1>6 DEF CountersBalance, Balanced

\* A new entry is counted as inserted.
LEMMA BalanceInserts ==
    ASSUME IndInv, CountersBalance, InsertStore
    PROVE  CountersBalance'
<1> DEFINE n == Len(entries)
           t == TotalWeight(index, size)
           w == op.newSize
<1>1. /\ pc = "insert" /\ op.key \in Keys /\ op.key \notin index
      /\ index' = index \cup {op.key} /\ size' = [size EXCEPT ![op.key] = w]
      /\ Len(entries') = n + 1
  BY InsertForm
<1>2. w \in 0..MaxSize /\ w \in Nat
  BY <1>1, CallTypes, InvWeights DEF IndInv, Shape, OpRecords
<1>3. stats' = Admit([stats EXCEPT !.putInserted = Add(@, 1)], w)
  BY DEF InsertStore
<1>4. size' \in Sizes /\ size'[op.key] = w /\ \A k \in index : size'[k] = size[k]
  BY <1>1, <1>2, InvWeights, InvLinked DEF Sizes
<1>5. /\ index \in SUBSET Keys /\ {op.key} \in SUBSET Keys
      /\ index \cap {op.key} = {}
  BY <1>1, InvLinked
<1>6. TotalWeight(index', size') = t + w
  <2>1. TotalWeight(index \cup {op.key}, size')
          = TotalWeight(index, size') + TotalWeight({op.key}, size')
    BY <1>4, <1>5, WeightOfUnion
  <2>2. TotalWeight(index, size') = TotalWeight(index, size)
    BY <1>4, <1>5, InvWeights, WeightCongruence
  <2>3. TotalWeight({op.key}, size') = w
    BY <1>1, <1>4, WeightOfKey
  <2>4. TotalWeight(index', size') = TotalWeight(index \cup {op.key}, size')
    BY <1>1, Zenon
  <2> QED BY <2>1, <2>2, <2>3, <2>4
<1>7. n \in Nat /\ t \in Nat /\ stats \in StatRecords /\ Balanced(n, t, stats)
  BY BalanceNumbers
<1> HIDE DEF n, t, w
<1>8. Balanced(n + 1, t + w, Admit([stats EXCEPT !.putInserted = Add(@, 1)], w))
  BY <1>2, <1>7, BalanceAfterInsert
<1> QED BY <1>1, <1>3, <1>6, <1>8 DEF CountersBalance, Balanced

\* An overwrite is counted once, and its old weight as evicted.
LEMMA BalanceStores ==
    ASSUME IndInv, CountersBalance, UpdateStore \/ ReplaceStore
    PROVE  CountersBalance'
<1> DEFINE n == Len(entries)
           t == TotalWeight(index, size)
           v == size[op.key]
           w == op.newSize
<1>1. /\ pc \in {"update", "grow"} /\ op.key \in Keys /\ op.key \in index
      /\ index' = index /\ size' = [size EXCEPT ![op.key] = w]
      /\ entries' = entries
  BY StoreForm
<1>2. w \in 0..MaxSize /\ w \in Nat
  BY <1>1, CallTypes, InvWeights DEF IndInv, Shape, OpRecords
<1>3. PICK c : /\ \/ c = [stats EXCEPT !.putUpdated = Add(@, 1)]
                  \/ c = [stats EXCEPT !.replaceUpdated = Add(@, 1)]
               /\ stats' = Admit(RecordEvictions(c, "Replaced", 1, v), w)
  <2>1. CASE UpdateStore
    BY <2>1, Zenon DEF UpdateStore, StoreReplacement
  <2>2. CASE ReplaceStore
    BY <2>2, Zenon DEF ReplaceStore, StoreReplacement
  <2> QED BY <2>1, <2>2
<1>4. TotalWeight(index', size') = t - v + w
  <2>1. TotalWeight(index, [size EXCEPT ![op.key] = w]) = t - v + w
    <3>1. index \in SUBSET Keys /\ size \in Sizes
      BY InvLinked, InvWeights
    <3> QED BY <3>1, <1>1, <1>2, WeightUpdate
  <2> HIDE DEF t, v, w
  <2> QED BY <1>1, <2>1, Zenon
<1>5. /\ n \in Nat /\ t \in Nat /\ stats \in StatRecords /\ Balanced(n, t, stats)
      /\ v \in Nat /\ v <= t
  BY <1>1, BalanceNumbers
<1> HIDE DEF n, t, v, w
<1>6. Balanced(n, t - v + w, Admit(RecordEvictions(c, "Replaced", 1, v), w))
  BY <1>2, <1>3, <1>5, BalanceAfterStore
<1> QED BY <1>1, <1>3, <1>4, <1>6 DEF CountersBalance, Balanced, n

\* DeletePrefix("") counts all entries and their weight at once.
LEMMA BalanceEmpties ==
    ASSUME IndInv, CountersBalance, NEW s \in Samples, DeleteAll(s)
    PROVE  CountersBalance'
<1> DEFINE n == Len(entries)
           t == TotalWeight(index, size)
<1>1. /\ pc = "idle" /\ entries' = <<>> /\ index' = {}
      /\ size' = [k \in Keys |-> 0]
      /\ stats' = RecordEvictions(stats, "Deleted", n, currentSize)
  BY DEF DeleteAll
<1>2. currentSize = t
  BY <1>1, InvParity
<1>3. size' \in Sizes
  BY <1>1, MaxSizeAssumption DEF Sizes
<1>4. Len(entries') = 0 /\ TotalWeight(index', size') = 0
  <2>1. TotalWeight({}, size') = 0
    BY <1>3, WeightOfNothing
  <2>2. Len(entries') = 0
    BY <1>1
  <2> QED BY <1>1, <2>1, <2>2, Zenon
<1>5. n \in Nat /\ t \in Nat /\ stats \in StatRecords /\ Balanced(n, t, stats)
  BY BalanceNumbers
<1> HIDE DEF n, t
<1>6. "Deleted" \in Reasons \ {"Replaced"} /\ n <= n /\ t <= t
  BY <1>5 DEF Reasons
<1>7. Balanced(n - n, t - t, RecordEvictions(stats, "Deleted", n, t))
  BY <1>5, <1>6, BalanceAfterLeaving
<1>8. n - n = 0 /\ t - t = 0
  BY <1>5
<1>9. Balanced(0, 0, stats')
  BY <1>1, <1>2, <1>7, <1>8
<1> QED BY <1>4, <1>9 DEF CountersBalance, Balanced

\* The other steps touch neither the counters nor what they count.
LEMMA BalanceRests ==
    ASSUME CountersBalance, Len(entries') = Len(entries),
           UNCHANGED <<index, size, stats>>
    PROVE  CountersBalance'
<1>1. TotalWeight(index', size') = TotalWeight(index, size)
  BY Zenon
<1>2. Removals(stats') = Removals(stats)
  BY Zenon
<1> QED BY <1>1, <1>2 DEF CountersBalance

\* Every step keeps the balance.
LEMMA BalanceKeeps ==
    ASSUME IndInv, CountersBalance, [Next]_vars
    PROVE  CountersBalance'
<1>0. Linked(entries) /\ FirstKeys(entries, Len(entries)) = index
  BY InvLinked
<1>1. CASE UNCHANGED vars
  BY <1>1, BalanceRests DEF vars
<1>2. CASE Erasure
  BY <1>2, BalanceErases
<1>3. CASE Entry
  BY <1>3, EntryForm, BalanceRests
<1>4. CASE Settling
  BY <1>4, SettlingForm, BalanceRests
<1>5. CASE Unlock
  BY <1>5, BalanceRests DEF Unlock
<1>6. ASSUME NEW k \in Keys, \/ \E w \in Weights, s \in Samples : PutExisting(k, w, s)
                             \/ Get(k)
      PROVE  CountersBalance'
  <2>1. /\ k \in index /\ entries' = MoveToFront(entries, k)
        /\ UNCHANGED <<index, size, stats>>
    BY <1>6 DEF PutExisting, Get
  <2>2. k \in FirstKeys(entries, Len(entries))
    BY <1>0, <2>1, Zenon
  <2>3. Len(entries') = Len(entries)
    BY <1>0, <2>1, <2>2, MoveToFrontLinks
  <2> QED BY <2>1, <2>3, BalanceRests
<1>7. CASE UpdateStore \/ ReplaceStore
  BY <1>7, BalanceStores
<1>8. CASE InsertStore
  BY <1>8, BalanceInserts
<1>9. CASE (\E s \in Samples : MissUnderLock(s)) \/ Compact
  BY <1>9, BalanceRests DEF MissUnderLock, Compact
<1>10. CASE \E s \in Samples : DeleteAll(s)
  BY <1>10, BalanceEmpties
<1> QED BY <1>1, <1>2, <1>3, <1>4, <1>5, <1>6, <1>7, <1>8, <1>9, <1>10, StepKinds
        DEF Settling

\* The counters of checkCounterInvariants, of any width, balance after every step:
\* entries are those inserted and not removed, each overwrite is counted once, and
\* the admitted weight is held or reported evicted.
THEOREM CountersAlwaysBalance == Spec => []CountersBalance
<1>1. Init => CountersBalance
  <2> SUFFICES ASSUME Init PROVE CountersBalance
    OBVIOUS
  <2>1. size \in Sizes /\ Len(entries) = 0 /\ index = {}
    BY MaxSizeAssumption DEF Init, Sizes
  <2>2. TotalWeight({}, size) = 0
    BY <2>1, WeightOfNothing
  <2>3. TotalWeight(index, size) = 0
    BY <2>1, <2>2, Zenon
  <2>4. Removals(stats) = 0 /\ stats.putInserted = 0 /\ stats.putUpdated = 0
        /\ stats.replaceUpdated = 0 /\ stats.evictions["Replaced"] = 0
        /\ stats.evictedWeight = 0 /\ stats.admittedWeight = 0
    BY DEF Init, NoStats, Removals, Reasons
  <2>5. 0 % CounterModulus = 0
    BY ModulusAssumption
  <2> QED BY <2>1, <2>3, <2>4, <2>5 DEF CountersBalance
<1>2. IndInv /\ CountersBalance /\ [Next]_vars => CountersBalance'
  BY BalanceKeeps
<1> QED BY <1>1, <1>2, Invariance, PTL DEF Spec

-----------------------------------------------------------------------------
(* How many entries there can be                                           *)

\* Weightless keys are finite in number.
LEMMA ZeroFinite ==
    ASSUME NEW S \in SUBSET Keys, NEW sz
    PROVE  /\ IsFiniteSet(S) /\ IsFiniteSet(ZeroKeys(S, sz))
           /\ Cardinality(S) \in Nat /\ Cardinality(ZeroKeys(S, sz)) \in Nat
           /\ ZeroKeys(S, sz) \in SUBSET S
<1>1. IsFiniteSet(S)
  BY KeysAssumption, FS_Subset
<1>2. ZeroKeys(S, sz) \in SUBSET S
  BY DEF ZeroKeys
<1>3. IsFiniteSet(ZeroKeys(S, sz))
  BY <1>1, <1>2, FS_Subset
<1> QED BY <1>1, <1>2, <1>3, FS_CardinalityType

\* Only the sizes of the keys of S matter.
LEMMA ZeroCongruence ==
    ASSUME NEW S, NEW sz, NEW sy, \A k \in S : sz[k] = sy[k]
    PROVE  ZeroKeys(S, sz) = ZeroKeys(S, sy)
  BY DEF ZeroKeys

\* A key that has weight uses at least one byte.
LEMMA HeavyBound ==
    ASSUME NEW S \in SUBSET Keys, NEW sz \in Sizes
    PROVE  Cardinality(S) <= Cardinality(ZeroKeys(S, sz)) + TotalWeight(S, sz)
<1> DEFINE H == S \ ZeroKeys(S, sz)
           f == [k \in H |-> <<k, 1>>]
<1>1. /\ IsFiniteSet(S) /\ Cardinality(S) \in Nat
      /\ Cardinality(ZeroKeys(S, sz)) \in Nat /\ ZeroKeys(S, sz) \in SUBSET S
  BY ZeroFinite
<1>2. IsFiniteSet(Cells(S, sz)) /\ TotalWeight(S, sz) \in Nat
  BY CellsFinite
<1>3. \A k \in H : <<k, 1>> \in Cells(S, sz)
  BY MaxSizeAssumption DEF ZeroKeys, Cells, Sizes
<1>4. f \in Injection(H, Cells(S, sz))
  <2>1. f \in [H -> Cells(S, sz)]
    BY <1>3
  <2>2. IsInjective(f)
    BY DEF IsInjective
  <2> QED BY <2>1, <2>2 DEF Injection
<1> HIDE DEF f
<1>5. Cardinality(H) <= Cardinality(Cells(S, sz))
  BY <1>2, <1>4, FS_Injection
<1>6. Cardinality(H) = Cardinality(S) - Cardinality(S \cap ZeroKeys(S, sz))
  BY <1>1, FS_Difference
<1>7. S \cap ZeroKeys(S, sz) = ZeroKeys(S, sz)
  BY <1>1
<1>8. Cardinality(H) = Cardinality(S) - Cardinality(ZeroKeys(S, sz))
  BY <1>6, <1>7, Zenon
<1> HIDE DEF H
<1> QED BY <1>1, <1>2, <1>5, <1>8 DEF TotalWeight

\* The list has one entry for each key of the index.
LEMMA EntryCount ==
    ASSUME IndInv
    PROVE  Len(entries) = Cardinality(index)
<1>1. Linked(entries) /\ Len(entries) \in Nat
  BY InvLinked
<1> DEFINE T == FirstKeys(entries, Len(entries))
<1>2. entries \in Bijection(1..Len(entries), T)
  BY <1>1 DEF Linked, FirstKeys, Bijection, Injection, Surjection, IsInjective
<1>3. ExistsBijection(1..Len(entries), T)
  BY <1>2 DEF ExistsBijection
<1> HIDE DEF T
<1>4. Cardinality(T) = Len(entries)
  BY <1>1, <1>3, FS_CountingElements
<1>5. T = index
  BY InvLinked DEF T
<1> QED BY <1>4, <1>5, Zenon

\* The number of weightless entries that the watermark updates leave as it is.
LEMMA ZeroCountKept ==
    ASSUME NEW p \in Watermarks, NEW n \in Nat
    PROVE  /\ ClearZeroWatermark(p).zeroSizeCount = p.zeroSizeCount
           /\ OnCompacted(p, n).zeroSizeCount = p.zeroSizeCount
           /\ \A pressure, valid :
                ResetZeroWatermarkBelowTier2(p, pressure, valid).zeroSizeCount
                  = p.zeroSizeCount
           /\ \A u : \A t \in ShedTargets :
                UpdateZeroWatermarkAfterShed(p, n, u, t).zeroSizeCount
                  = p.zeroSizeCount
<1>1. ClearZeroWatermark(p).zeroSizeCount = p.zeroSizeCount
  BY DEF ClearZeroWatermark, Watermarks
<1>2. OnCompacted(p, n).zeroSizeCount = p.zeroSizeCount
  BY DEF OnCompacted, Watermarks
<1>3. ASSUME NEW u, NEW t \in ShedTargets
      PROVE  UpdateZeroWatermarkAfterShed(p, n, u, t).zeroSizeCount
               = p.zeroSizeCount
  <2> DEFINE y == AtMost(p.zeroSizeCount, t.unprotectedZero)
             z == IF u /\ n > p.zeroSizeCount THEN AtMost(n, t.len) ELSE 0
  <2>1. UpdateZeroWatermarkAfterShed(p, n, u, t) =
          IF ~FullFlush /\ p.zeroSizeCount > 0
          THEN [p EXCEPT !.lastReclaimedZeroCount = y, !.lastReclaimedLen = z]
          ELSE ClearZeroWatermark(p)
    BY DEF UpdateZeroWatermarkAfterShed
  <2> HIDE DEF y, z
  <2>2. [p EXCEPT !.lastReclaimedZeroCount = y,
                  !.lastReclaimedLen = z].zeroSizeCount = p.zeroSizeCount
    BY DEF Watermarks
  <2> QED BY <2>1, <2>2, <1>1
<1> QED BY <1>1, <1>2, <1>3 DEF ResetZeroWatermarkBelowTier2

\* How the others change it.
LEMMA ZeroCountMoves ==
    ASSUME NEW p \in Watermarks, NEW v \in Nat, NEW w \in Nat, NEW n \in Nat
    PROVE  /\ OnEntryPut(p, n, w).zeroSizeCount
                = IF w = 0 THEN p.zeroSizeCount + 1 ELSE p.zeroSizeCount
           /\ OnEntryDeleted(p, w).zeroSizeCount
                = IF w = 0 /\ p.zeroSizeCount > 0 THEN p.zeroSizeCount - 1
                  ELSE p.zeroSizeCount
           /\ OnEntrySizeUpdated(p, v, w).zeroSizeCount
                = IF v = 0 /\ w > 0 /\ p.zeroSizeCount > 0 THEN p.zeroSizeCount - 1
                  ELSE IF v > 0 /\ w = 0 THEN p.zeroSizeCount + 1
                  ELSE p.zeroSizeCount
<1>1. OnEntryPut(p, n, w).zeroSizeCount
        = IF w = 0 THEN p.zeroSizeCount + 1 ELSE p.zeroSizeCount
  BY DEF OnEntryPut, Watermarks
<1>2. \A q \in Watermarks : OneZeroFewer(q).zeroSizeCount = q.zeroSizeCount - 1
  BY DEF OneZeroFewer, Watermarks
<1>3. OnEntryDeleted(p, w).zeroSizeCount
        = IF w = 0 /\ p.zeroSizeCount > 0 THEN p.zeroSizeCount - 1
          ELSE p.zeroSizeCount
  <2> DEFINE q == [p EXCEPT !.deletedSinceCompact = CountDeleted(p, 1),
                            !.dirtyIndex = TRUE]
  <2>1. CountDeleted(p, 1) \in 0..DeletedCap
    BY SlackAssumption DEF CountDeleted, AtMost, Watermarks
  <2>2. q \in Watermarks /\ q.zeroSizeCount = p.zeroSizeCount
    BY <2>1 DEF Watermarks
  <2>3. OnEntryDeleted(p, w) =
          IF w = 0 /\ p.zeroSizeCount > 0 THEN OneZeroFewer(q)
          ELSE IF w > 0 THEN [q EXCEPT !.lastReclaimedLen = 0] ELSE q
    BY DEF OnEntryDeleted
  <2> HIDE DEF q
  <2>4. [q EXCEPT !.lastReclaimedLen = 0].zeroSizeCount = q.zeroSizeCount
    BY <2>2 DEF Watermarks
  <2> QED BY <2>2, <2>3, <2>4, <1>2
<1>4. OnEntrySizeUpdated(p, v, w).zeroSizeCount
        = IF v = 0 /\ w > 0 /\ p.zeroSizeCount > 0 THEN p.zeroSizeCount - 1
          ELSE IF v > 0 /\ w = 0 THEN p.zeroSizeCount + 1
          ELSE p.zeroSizeCount
  <2>1. [p EXCEPT !.zeroSizeCount = @ + 1, !.lastReclaimedLen = 0].zeroSizeCount
          = p.zeroSizeCount + 1
    BY DEF Watermarks
  <2> QED BY <2>1, <1>2 DEF OnEntrySizeUpdated
<1> QED BY <1>1, <1>3, <1>4

\* Erasing k, of whatever weight, the count follows the keys.
LEMMA ZeroErased ==
    ASSUME NEW S \in SUBSET Keys, NEW sz \in Sizes, NEW k \in S,
           NEW p \in Watermarks, p.zeroSizeCount = Cardinality(ZeroKeys(S, sz))
    PROVE  OnEntryDeleted(p, sz[k]).zeroSizeCount
             = Cardinality(ZeroKeys(S \ {k}, sz))
<1>1. sz[k] \in Nat /\ k \in Keys
  BY DEF Sizes
<1>2. IsFiniteSet(ZeroKeys(S, sz)) /\ Cardinality(ZeroKeys(S, sz)) \in Nat
  BY ZeroFinite
<1>3. CASE sz[k] = 0
  <2>1. k \in ZeroKeys(S, sz) /\ ZeroKeys(S \ {k}, sz) = ZeroKeys(S, sz) \ {k}
    BY <1>3 DEF ZeroKeys
  <2>2. Cardinality(ZeroKeys(S, sz) \ {k}) = Cardinality(ZeroKeys(S, sz)) - 1
    BY <1>2, <2>1, FS_RemoveElement
  <2>3. Cardinality(ZeroKeys(S, sz)) > 0
    BY <1>2, <2>1, FS_EmptySet
  <2>4. OnEntryDeleted(p, sz[k]).zeroSizeCount = p.zeroSizeCount - 1
    BY <1>1, <1>3, <2>3, ZeroCountMoves
  <2>5. Cardinality(ZeroKeys(S \ {k}, sz)) = Cardinality(ZeroKeys(S, sz) \ {k})
    BY <2>1, Zenon
  <2> QED BY <2>2, <2>4, <2>5
<1>4. CASE sz[k] # 0
  <2>1. ZeroKeys(S \ {k}, sz) = ZeroKeys(S, sz)
    BY <1>4 DEF ZeroKeys
  <2>2. OnEntryDeleted(p, sz[k]).zeroSizeCount = p.zeroSizeCount
    BY <1>1, <1>4, ZeroCountMoves
  <2> QED BY <2>1, <2>2, Zenon
<1> QED BY <1>3, <1>4

\* Linking k.
LEMMA ZeroInserted ==
    ASSUME NEW S \in SUBSET Keys, NEW sz, NEW k, k \notin S, sz[k] \in Nat,
           NEW n \in Nat,
           NEW p \in Watermarks, p.zeroSizeCount = Cardinality(ZeroKeys(S, sz))
    PROVE  OnEntryPut(p, n, sz[k]).zeroSizeCount
             = Cardinality(ZeroKeys(S \cup {k}, sz))
<1>1. IsFiniteSet(ZeroKeys(S, sz)) /\ Cardinality(ZeroKeys(S, sz)) \in Nat
      /\ k \notin ZeroKeys(S, sz)
  BY ZeroFinite
<1>2. CASE sz[k] = 0
  <2>1. ZeroKeys(S \cup {k}, sz) = ZeroKeys(S, sz) \cup {k}
    BY <1>2 DEF ZeroKeys
  <2>2. Cardinality(ZeroKeys(S, sz) \cup {k}) = Cardinality(ZeroKeys(S, sz)) + 1
    BY <1>1, FS_AddElement
  <2>3. OnEntryPut(p, n, sz[k]).zeroSizeCount = p.zeroSizeCount + 1
    BY <1>2, ZeroCountMoves
  <2>4. Cardinality(ZeroKeys(S \cup {k}, sz)) = Cardinality(ZeroKeys(S, sz) \cup {k})
    BY <2>1, Zenon
  <2> QED BY <2>2, <2>3, <2>4
<1>3. CASE sz[k] # 0
  <2>1. ZeroKeys(S \cup {k}, sz) = ZeroKeys(S, sz)
    BY <1>3 DEF ZeroKeys
  <2>2. OnEntryPut(p, n, sz[k]).zeroSizeCount = p.zeroSizeCount
    BY <1>3, ZeroCountMoves
  <2> QED BY <2>1, <2>2, Zenon
<1> QED BY <1>2, <1>3

\* Storing w over the weight of k.
LEMMA ZeroUpdated ==
    ASSUME NEW S \in SUBSET Keys, NEW sz, NEW k \in S, NEW v \in Nat, NEW w \in Nat,
           NEW p \in Watermarks, p.zeroSizeCount = Cardinality(ZeroKeys(S, sz)),
           NEW sy, v = sz[k], w = sy[k], \A j \in S \ {k} : sy[j] = sz[j]
    PROVE  OnEntrySizeUpdated(p, v, w).zeroSizeCount
             = Cardinality(ZeroKeys(S, sy))
<1> DEFINE Z == ZeroKeys(S, sz)
<1>1. sz[k] \in Nat /\ sy[k] = w /\ \A j \in S \ {k} : sy[j] = sz[j]
  OBVIOUS
<1>2. IsFiniteSet(Z) /\ Cardinality(Z) \in Nat
  BY ZeroFinite
<1>3. CASE sz[k] = 0 /\ w > 0
  <2>1. k \in Z /\ ZeroKeys(S, sy) = Z \ {k}
    BY <1>1, <1>3 DEF ZeroKeys
  <2> HIDE DEF Z
  <2>2. Cardinality(Z \ {k}) = Cardinality(Z) - 1 /\ Cardinality(Z) > 0
    BY <1>2, <2>1, FS_RemoveElement, FS_EmptySet
  <2>3. OnEntrySizeUpdated(p, v, w).zeroSizeCount = p.zeroSizeCount - 1
    BY <1>1, <1>3, <2>2, ZeroCountMoves DEF Z
  <2>4. Cardinality(ZeroKeys(S, sy)) = Cardinality(Z \ {k})
    BY <2>1, Zenon
  <2> QED BY <2>2, <2>3, <2>4 DEF Z
<1>4. CASE sz[k] > 0 /\ w = 0
  <2>1. k \notin Z /\ ZeroKeys(S, sy) = Z \cup {k}
    <3>1. sz[k] # 0 /\ sy[k] = 0
      BY <1>1, <1>4
    <3>2. \A j \in S : sy[j] = 0 <=> sz[j] = 0 \/ j = k
      BY <1>1, <3>1
    <3> QED BY <3>1, <3>2 DEF ZeroKeys
  <2> HIDE DEF Z
  <2>2. Cardinality(Z \cup {k}) = Cardinality(Z) + 1
    BY <1>2, <2>1, FS_AddElement
  <2>3. OnEntrySizeUpdated(p, v, w).zeroSizeCount = p.zeroSizeCount + 1
    BY <1>1, <1>4, ZeroCountMoves
  <2>4. Cardinality(ZeroKeys(S, sy)) = Cardinality(Z \cup {k})
    BY <2>1, Zenon
  <2> QED BY <2>2, <2>3, <2>4 DEF Z
<1>5. CASE sz[k] = 0 <=> w = 0
  <2>1. ZeroKeys(S, sy) = Z
    BY <1>1, <1>5 DEF ZeroKeys
  <2>2. OnEntrySizeUpdated(p, v, w).zeroSizeCount = p.zeroSizeCount
    BY <1>1, <1>5, ZeroCountMoves
  <2> QED BY <2>1, <2>2, Zenon
<1> QED BY <1>1, <1>3, <1>4, <1>5

\* The two parts of EntryCountBound: the bound, and the exact count of the
\* weightless entries on which it rests.
CountBound == Len(entries) <= 2 * MaxSize
ZeroParity == ps.zeroSizeCount = Cardinality(ZeroKeys(index, NowSize))

\* Once the loop of an insert has evicted, there is a place left.
CountInv ==
    /\ ZeroParity
    /\ CountBound
    /\ pc = "insert" /\ op.evictedPre => Len(entries) < 2 * MaxSize

\* The state the count is about.
LEMMA CountNumbers ==
    ASSUME IndInv
    PROVE  /\ ps \in Watermarks /\ op \in OpRecords /\ op.newSize \in Nat
           /\ index \in SUBSET Keys /\ size \in Sizes /\ NowSize \in Sizes
           /\ Len(entries) \in Nat /\ MaxSize \in Nat /\ MaxSize > 0
           /\ currentSize \in Nat /\ currentSize <= MaxSize
<1>1. /\ ps \in Watermarks /\ op \in OpRecords /\ op.newSize \in Nat
      /\ index \in SUBSET Keys /\ size \in Sizes /\ Len(entries) \in Nat
      /\ MaxSize \in Nat /\ MaxSize > 0 /\ currentSize \in Nat
  BY CallTypes, InvLinked, InvWeights, MaxSizeAssumption DEF OpRecords
<1>2. currentSize <= MaxSize
  BY DEF IndInv, CapacityBound
<1>3. pc = "update" => op.key \in Keys /\ op.newSize \in 0..MaxSize
  BY <1>1 DEF IndInv, Shape
<1>4. NowSize \in Sizes
  BY <1>1, <1>3 DEF NowSize, Sizes
<1> QED BY <1>1, <1>2, <1>4

\* Outside the loop of an insert nothing more is asked than the bound itself.
LEMMA CountRests ==
    ASSUME IndInv, CountInv, ps'.zeroSizeCount = ps.zeroSizeCount,
           Len(entries') = Len(entries),
           UNCHANGED <<index, size>>, pc # "update", pc' # "update",
           pc' = "insert" => ~op'.evictedPre
    PROVE  CountInv'
<1>1. NowSize' = NowSize
  BY DEF NowSize
<1>2. ZeroKeys(index', NowSize') = ZeroKeys(index, NowSize)
  BY <1>1, Zenon
<1>3. Cardinality(ZeroKeys(index', NowSize')) = Cardinality(ZeroKeys(index, NowSize))
  BY <1>2, Zenon
<1> QED BY <1>3 DEF CountInv, ZeroParity, CountBound

\* What an erasure leaves of the operation.
LEMMA ErasureNow ==
    ASSUME IndInv, Erasure
    PROVE  \E k \in index, reason \in Reasons,
              p \in {ps, ClearZeroWatermark(ps)}, o \in OpRecords :
             /\ EraseEntryLocked(k, reason, p, o)
             /\ \/ /\ pc' = pc /\ op'.key = op.key /\ op'.newSize = op.newSize
                   /\ pc = "update" => k # op.key
                \/ pc = "idle" /\ pc' = "deleted"
<1>1. ASSUME NEW k, NEW r, Evicts(k, r), pc = "update" => k # op.key
      PROVE  \E reason \in Reasons, p \in {ps, ClearZeroWatermark(ps)}, o \in OpRecords :
               /\ k \in index
               /\ EraseEntryLocked(k, reason, p, o)
               /\ pc' = pc /\ op'.key = op.key /\ op'.newSize = op.newSize
  BY <1>1 DEF Evicts, Kept
<1>2. CASE UpdateEvict \/ InsertEvict \/ ReplaceEvict
  BY <1>1, <1>2, CapacityErasure
<1>3. CASE ShedEvict
  <2>1. Evicts(entries[op.cursor], "Pressure") /\ pc = "shed"
    BY <1>3, ShedErasure
  <2> QED BY <1>1, <2>1
<1>4. CASE \E k \in Keys : PrefixErase(k)
  BY <1>1, <1>4, PrefixErasure
<1>5. ASSUME NEW k, NEW r, BeganErasing(k, r)
      PROVE  \E reason \in Reasons, p \in {ps, ClearZeroWatermark(ps)}, o \in OpRecords :
               /\ k \in index
               /\ EraseEntryLocked(k, reason, p, o)
               /\ pc = "idle" /\ pc' = "deleted"
  BY <1>5 DEF BeganErasing
<1>6. CASE \E k \in Keys, s \in Samples : Delete(k, s)
  BY <1>5, <1>6, FirstErasure
<1>7. CASE \E k \in Keys, w \in Weights, s \in Samples : ReplaceSelfEvict(k, w, s)
  BY <1>5, <1>7, FirstErasure
<1> QED BY <1>2, <1>3, <1>4, <1>6, <1>7 DEF Erasure

\* An entry leaves.
LEMMA CountErases ==
    ASSUME IndInv, CountInv, Erasure
    PROVE  CountInv'
<1>1. PICK k \in index, reason \in Reasons,
           p \in {ps, ClearZeroWatermark(ps)}, o \in OpRecords :
        /\ EraseEntryLocked(k, reason, p, o)
        /\ \/ /\ pc' = pc /\ op'.key = op.key /\ op'.newSize = op.newSize
              /\ pc = "update" => k # op.key
           \/ pc = "idle" /\ pc' = "deleted"
  BY ErasureNow
<1>2. /\ p \in Watermarks /\ p.zeroSizeCount = Cardinality(ZeroKeys(index, NowSize))
      /\ k \in Keys /\ index \in SUBSET Keys /\ NowSize \in Sizes /\ size \in Sizes
      /\ Len(entries) \in Nat /\ MaxSize \in Nat
  <2>1. /\ ps \in Watermarks /\ index \in SUBSET Keys /\ NowSize \in Sizes
        /\ size \in Sizes /\ Len(entries) \in Nat /\ MaxSize \in Nat
    BY CountNumbers
  <2>2. ClearZeroWatermark(ps) \in Watermarks
    BY <2>1, WatermarkTypes
  <2>3. p.zeroSizeCount = ps.zeroSizeCount
    BY <2>1, ZeroCountKept
  <2> QED BY <2>1, <2>2, <2>3 DEF CountInv, ZeroParity
<1>3. /\ Len(entries') = Len(entries) - 1 /\ index' = index \ {k}
      /\ \A j \in Keys : j # k => size'[j] = size[j]
      /\ ps' = OnEntryDeleted(p, size[k])
      /\ size' = [size EXCEPT ![k] = 0]
  BY <1>1, <1>2, EraseEffect DEF EraseEntryLocked
<1>4. NowSize[k] = size[k]
  BY <1>1, <1>2 DEF NowSize, Sizes
<1>5. \A j \in index \ {k} : NowSize'[j] = NowSize[j]
  BY <1>1, <1>2, <1>3 DEF NowSize, Sizes
<1>6. ps'.zeroSizeCount = Cardinality(ZeroKeys(index \ {k}, NowSize))
  <2>1. OnEntryDeleted(p, NowSize[k]).zeroSizeCount
          = Cardinality(ZeroKeys(index \ {k}, NowSize))
    BY <1>2, ZeroErased
  <2> QED BY <2>1, <1>3, <1>4
<1>7. ZeroKeys(index', NowSize') = ZeroKeys(index \ {k}, NowSize)
  <2>1. ZeroKeys(index \ {k}, NowSize') = ZeroKeys(index \ {k}, NowSize)
    BY <1>5 DEF ZeroKeys
  <2> QED BY <2>1, <1>3, Zenon
<1>8. ZeroParity'
  BY <1>6, <1>7, Zenon DEF ZeroParity
<1>9. Len(entries') < 2 * MaxSize
  BY <1>2, <1>3 DEF CountInv, CountBound
<1>10. Len(entries') <= 2 * MaxSize
  BY <1>2, <1>3, <1>9
<1> QED BY <1>8, <1>9, <1>10 DEF CountInv, CountBound

\* Before a new entry is linked there is a place for it: either a weightless one
\* is welcome, or the bytes left bound the entries that have weight.
LEMMA InsertLeavesPlace ==
    ASSUME IndInv, CountInv, pc = "insert", ~InsertNeedsRoom
    PROVE  Len(entries) < 2 * MaxSize
<1> DEFINE n == Len(entries)
           z == ps.zeroSizeCount
           w == op.newSize
<1>1. /\ n \in Nat /\ MaxSize \in Nat /\ MaxSize > 0 /\ currentSize \in Nat
      /\ currentSize <= MaxSize /\ w \in Nat /\ ps \in Watermarks
  BY CountNumbers
<1>2. z \in Nat
  BY <1>1 DEF Watermarks
<1>3. n <= z + currentSize
  <2>1. /\ index \in SUBSET Keys /\ size \in Sizes /\ NowSize = size
        /\ currentSize = TotalWeight(index, size)
    BY CountNumbers, InvParity DEF NowSize
  <2>2. z = Cardinality(ZeroKeys(index, size))
    BY <2>1 DEF CountInv, ZeroParity
  <2>3. Cardinality(index) <= Cardinality(ZeroKeys(index, size)) + TotalWeight(index, size)
    BY <2>1, HeavyBound
  <2>4. n = Cardinality(index)
    BY EntryCount
  <2> QED BY <2>1, <2>2, <2>3, <2>4
<1>4. CASE n = 0
  BY <1>1, <1>4
<1>5. CASE n > 0
  <2>1. ~ShouldEvictPreInsertOnPut(ps, w, currentSize, n, op.evictedPre)
    BY <1>5 DEF InsertNeedsRoom
  <2>2. w <= MaxSize - currentSize
    BY <2>1, <1>1 DEF ShouldEvictPreInsertOnPut
  <2>3. CASE w = 0 /\ op.evictedPre
    BY <2>3 DEF CountInv
  <2>4. CASE ~(w = 0 /\ op.evictedPre)
    <3>1. ~ShouldEvictZeroWeightOnInsert(ps, w, currentSize, n)
      BY <2>1, <2>4 DEF ShouldEvictPreInsertOnPut
    <3>2. CASE w = 0
      <4>1. ~(z >= MaxSize)
        BY <1>5, <3>1, <3>2 DEF ShouldEvictZeroWeightOnInsert
      <4> HIDE DEF n, z, w
      <4> QED BY <4>1, <1>1, <1>2, <1>3 DEF n
    <3>3. CASE w # 0
      <4>1. ~(z > MaxSize /\ z - MaxSize > MaxSize - currentSize - w)
        BY <1>5, <3>1, <3>3 DEF ShouldEvictZeroWeightOnInsert
      <4> HIDE DEF n, z, w
      <4> QED BY <4>1, <3>3, <2>2, <1>1, <1>2, <1>3 DEF n
    <3> QED BY <3>2, <3>3
  <2> QED BY <2>3, <2>4
<1> QED BY <1>1, <1>4, <1>5

\* A new entry is linked.
LEMMA CountInserts ==
    ASSUME IndInv, CountInv, InsertStore
    PROVE  CountInv'
<1> DEFINE k == op.key
           n == Len(entries)
<1>1. /\ pc = "insert" /\ pc' \notin {"update", "insert"} /\ k \in Keys
      /\ k \notin index
      /\ index' = index \cup {k} /\ size' = [size EXCEPT ![k] = op.newSize]
      /\ Len(entries') = n + 1
  BY InsertForm
<1>2. /\ ps \in Watermarks /\ index \in SUBSET Keys /\ size \in Sizes
      /\ n \in Nat /\ op.newSize \in Nat /\ MaxSize \in Nat
      /\ Clean \in Watermarks
  BY CountNumbers, WatermarkTypes
<1>3. PICK emptied \in BOOLEAN :
        /\ ps' = OnEntryPut(IF emptied THEN Clean ELSE ps, n + 1, op.newSize)
        /\ emptied => n = 0
  BY InsertForm
<1> DEFINE p == IF emptied THEN Clean ELSE ps
<1>4. /\ size'[k] = op.newSize /\ \A j \in index : size'[j] = size[j]
  BY <1>1, <1>2 DEF Sizes
<1>5. NowSize = size /\ NowSize' = size'
  BY <1>1 DEF NowSize
<1> HIDE DEF k
<1>6. ZeroKeys(index, size') = ZeroKeys(index, size)
  BY <1>4 DEF ZeroKeys
<1>7. p \in Watermarks /\ p.zeroSizeCount = Cardinality(ZeroKeys(index, size'))
  <2>1. ps.zeroSizeCount = Cardinality(ZeroKeys(index, size'))
    <3>1. ps.zeroSizeCount = Cardinality(ZeroKeys(index, size))
      BY <1>5 DEF CountInv, ZeroParity
    <3> QED BY <3>1, <1>6, Zenon
  <2>2. CASE emptied
    <3>1. n = 0 /\ p = Clean
      BY <2>2, <1>3
    <3>2. index = {}
      BY <3>1, InvWeights
    <3>3. ZeroKeys(index, size') = {}
      BY <3>2 DEF ZeroKeys
    <3>4. Cardinality(ZeroKeys(index, size')) = 0
      BY <3>3, FS_EmptySet
    <3>5. Clean.zeroSizeCount = 0
      BY DEF Clean
    <3> QED BY <3>1, <3>4, <3>5, <1>2
  <2> QED BY <2>1, <2>2, <1>2
<1>8. p.zeroSizeCount = Cardinality(ZeroKeys(index, size')) /\ size'[k] \in Nat
      /\ n + 1 \in Nat
  BY <1>2, <1>4, <1>7
<1> HIDE DEF p
<1>9. OnEntryPut(p, n + 1, size'[k]).zeroSizeCount
        = Cardinality(ZeroKeys(index \cup {k}, size'))
  <2> DEFINE m == n + 1
             sz == size'
  <2>1. /\ m \in Nat /\ sz[k] \in Nat /\ k \notin index /\ index \in SUBSET Keys
        /\ p \in Watermarks /\ p.zeroSizeCount = Cardinality(ZeroKeys(index, sz))
    BY <1>1, <1>2, <1>7, <1>8
  <2> HIDE DEF m, sz
  <2>2. OnEntryPut(p, m, sz[k]).zeroSizeCount
          = Cardinality(ZeroKeys(index \cup {k}, sz))
    BY <2>1, ZeroInserted
  <2> QED BY <2>2 DEF m, sz
<1>10. ps' = OnEntryPut(p, n + 1, size'[k])
  BY <1>3, <1>4 DEF p
<1>11. ZeroKeys(index \cup {k}, size') = ZeroKeys(index', NowSize')
  BY <1>1, <1>5, Zenon
<1>12. ZeroParity'
  BY <1>9, <1>10, <1>11, Zenon DEF ZeroParity
<1>13. n < 2 * MaxSize
  <2>1. ~InsertNeedsRoom
    BY DEF InsertStore
  <2> QED BY <2>1, <1>1, InsertLeavesPlace
<1>14. CountBound'
  BY <1>1, <1>2, <1>13 DEF CountBound
<1> QED BY <1>1, <1>12, <1>14 DEF CountInv

\* A weight is replaced: the watermarks follow when a Put starts to make room for
\* it, or when a Replace stores it.
LEMMA CountUpdates ==
    ASSUME IndInv, CountInv,
           \/ \E k \in Keys, w \in Weights, s \in Samples : PutExisting(k, w, s)
           \/ ReplaceStore
    PROVE  CountInv'
<1>1. /\ ps \in Watermarks /\ index \in SUBSET Keys /\ size \in Sizes
      /\ op.newSize \in Nat /\ \A w \in Weights : w \in Nat
      /\ Linked(entries) /\ FirstKeys(entries, Len(entries)) = index
  BY CountNumbers, CallTypes, InvLinked
<1>2. PICK k \in index, w \in Nat, p \in {ps, ClearZeroWatermark(ps)} :
        /\ ps' = OnEntrySizeUpdated(p, size[k], w)
        /\ NowSize = size /\ NowSize' = [size EXCEPT ![k] = w]
        /\ index' = index /\ pc' # "insert" /\ Len(entries') = Len(entries)
  <2>1. CASE ReplaceStore
    <3>1. /\ op.key \in index /\ pc = "grow" /\ pc' \notin {"insert", "update"}
          /\ size' = [size EXCEPT ![op.key] = op.newSize]
          /\ index' = index /\ entries' = entries
          /\ ps' = OnEntrySizeUpdated(ps, size[op.key], op.newSize)
      BY <2>1, StoreForm DEF ReplaceStore
    <3>2. NowSize = size /\ NowSize' = [size EXCEPT ![op.key] = op.newSize]
      BY <3>1 DEF NowSize
    <3> QED BY <3>1, <3>2, <1>1
  <2>2. CASE \E k \in Keys, w \in Weights, s \in Samples : PutExisting(k, w, s)
    <3>1. PICK k \in Keys, w \in Weights, s \in Samples : PutExisting(k, w, s)
      BY <2>2
    <3>2. /\ k \in index /\ index' = index /\ size' = size
          /\ entries' = MoveToFront(entries, k)
          /\ ps' = OnEntrySizeUpdated(SyncZeroWatermark(s), size[k], w)
      BY <3>1 DEF PutExisting
    <3>3. op'.key = k /\ op'.newSize = w /\ pc = "idle" /\ pc' = "update"
      BY <3>1, PutExistingForm
    <3>4. SyncZeroWatermark(s) \in {ps, ClearZeroWatermark(ps)}
      BY SyncedType
    <3>5. NowSize = size /\ NowSize' = [size EXCEPT ![k] = w]
      BY <3>2, <3>3 DEF NowSize
    <3>6. k \in FirstKeys(entries, Len(entries))
      BY <3>2, <1>1, Zenon
    <3>7. Len(entries') = Len(entries)
      BY <3>2, <3>6, <1>1, MoveToFrontLinks
    <3> QED BY <3>2, <3>3, <3>4, <3>5, <3>7, <1>1
  <2> QED BY <2>1, <2>2
<1>3. p \in Watermarks /\ p.zeroSizeCount = Cardinality(ZeroKeys(index, size))
  <2>1. ClearZeroWatermark(ps) \in Watermarks
    BY <1>1, WatermarkTypes
  <2>2. p.zeroSizeCount = ps.zeroSizeCount
    BY <1>1, CountNumbers, ZeroCountKept
  <2>3. ps.zeroSizeCount = Cardinality(ZeroKeys(index, size))
    BY <1>2 DEF CountInv, ZeroParity
  <2> QED BY <1>1, <2>1, <2>2, <2>3
<1>4. ps'.zeroSizeCount = Cardinality(ZeroKeys(index, [size EXCEPT ![k] = w]))
  <2>1. OnEntrySizeUpdated(p, size[k], w).zeroSizeCount
          = Cardinality(ZeroKeys(index, [size EXCEPT ![k] = w]))
    <3>1. /\ index \in SUBSET Keys /\ size \in Sizes /\ p \in Watermarks
          /\ p.zeroSizeCount = Cardinality(ZeroKeys(index, size))
      BY <1>1, <1>3
    <3> DEFINE sy == [size EXCEPT ![k] = w]
               v == size[k]
    <3>2. w = sy[k] /\ v \in Nat /\ \A j \in index \ {k} : sy[j] = size[j]
      BY <3>1 DEF Sizes
    <3> HIDE DEF sy
    <3>3. OnEntrySizeUpdated(p, v, w).zeroSizeCount
            = Cardinality(ZeroKeys(index, sy))
      BY <3>1, <3>2, ZeroUpdated
    <3> QED BY <3>3, Zenon DEF sy
  <2> QED BY <2>1, <1>2, Zenon
<1>5. ZeroParity'
  BY <1>2, <1>4, Zenon DEF ZeroParity
<1> QED BY <1>2, <1>5 DEF CountInv, CountBound

\* An emptied cache has no weightless entry.
LEMMA CountEmpties ==
    ASSUME index' = {}, entries' = <<>>, ps' = Clean, pc' # "insert"
    PROVE  CountInv'
<1>1. ZeroKeys(index', NowSize') = {}
  BY DEF ZeroKeys
<1>2. Cardinality(ZeroKeys(index', NowSize')) = 0
  BY <1>1, FS_EmptySet
<1>3. ps'.zeroSizeCount = 0 /\ Len(entries') = 0
  BY DEF Clean
<1>4. Len(entries') <= 2 * MaxSize
  BY <1>3, MaxSizeAssumption
<1> QED BY <1>2, <1>3, <1>4 DEF CountInv, ZeroParity, CountBound

\* The reclaiming steps move the watermarks, not the count.
LEMMA ReclaimingCount ==
    ASSUME IndInv, Reclaiming
    PROVE  ps'.zeroSizeCount = ps.zeroSizeCount
<1> DEFINE n == Len(entries)
<1>1. n \in Nat /\ ps \in Watermarks /\ op.targets \in ShedTargets
  BY CallTypes DEF OpRecords
<1>2. \A q \in Watermarks :
        /\ OnCompacted(q, n) \in Watermarks
        /\ OnCompacted(q, n).zeroSizeCount = q.zeroSizeCount
        /\ \A pressure, valid :
             /\ ResetZeroWatermarkBelowTier2(q, pressure, valid) \in Watermarks
             /\ ResetZeroWatermarkBelowTier2(q, pressure, valid).zeroSizeCount
                  = q.zeroSizeCount
  <2>1. ASSUME NEW q \in Watermarks
        PROVE  /\ OnCompacted(q, n) \in Watermarks
               /\ ClearZeroWatermark(q) \in Watermarks
    BY <1>1, WatermarkTypes
  <2>2. ASSUME NEW q \in Watermarks, NEW pressure, NEW valid
        PROVE  ResetZeroWatermarkBelowTier2(q, pressure, valid) \in Watermarks
    BY <2>1 DEF ResetZeroWatermarkBelowTier2
  <2> QED BY <1>1, <2>1, <2>2, ZeroCountKept
<1>3. \A u : /\ UpdateZeroWatermarkAfterShed(ps, n, u, op.targets) \in Watermarks
             /\ UpdateZeroWatermarkAfterShed(ps, n, u, op.targets).zeroSizeCount
                  = ps.zeroSizeCount
  BY <1>1, ZeroCountKept, ShedTypes
<1>4. CASE FinishDelete
  <2> DEFINE single == ShouldReclaimSingleSurvivorOnDelete(ps, n, HasSlack(ps, n))
             p == IF single THEN OnCompacted(ps, n) ELSE ps
  <2>1. p \in Watermarks /\ p.zeroSizeCount = ps.zeroSizeCount
    BY <1>1, <1>2
  <2>2. ps' \in {p, ResetZeroWatermarkBelowTier2(p, op.sample.pressure,
                                                 op.sample.valid)}
    BY <1>4 DEF FinishDelete
  <2> HIDE DEF p
  <2> QED BY <2>1, <2>2, <1>2
<1>5. CASE ReclaimTier1
  <2> DEFINE p == ResetZeroWatermarkBelowTier2(ps, op.sample.pressure,
                                               op.sample.valid)
  <2>1. ps' \in {p, OnCompacted(p, n)}
    BY <1>5 DEF ReclaimTier1
  <2>2. p \in Watermarks /\ p.zeroSizeCount = ps.zeroSizeCount
    <3>1. \A pressure, valid :
            /\ ResetZeroWatermarkBelowTier2(ps, pressure, valid) \in Watermarks
            /\ ResetZeroWatermarkBelowTier2(ps, pressure, valid).zeroSizeCount
                 = ps.zeroSizeCount
      BY <1>1, <1>2
    <3> QED BY <3>1
  <2> HIDE DEF p
  <2> QED BY <2>1, <2>2, <1>2
<1>6. CASE CompleteShed
  <2> DEFINE unadjusted == ~HasProtected \/ op.targets.effective <= TargetSize
             p == IF op.shed
                  THEN UpdateZeroWatermarkAfterShed(ps, n, unadjusted, op.targets)
                  ELSE ps
  <2>1. ps' \in {p, OnCompacted(p, n)}
    BY <1>6 DEF CompleteShed
  <2>2. p \in Watermarks /\ p.zeroSizeCount = ps.zeroSizeCount
    BY <1>1, <1>3
  <2> HIDE DEF p
  <2> QED BY <2>1, <2>2, <1>2
<1>7. CASE FinishMutation
  BY <1>7, <1>1, <1>2 DEF FinishMutation
<1> QED BY <1>4, <1>5, <1>6, <1>7 DEF Reclaiming

\* Every step keeps the count.
LEMMA CountKeeps ==
    ASSUME IndInv, CountInv, [Next]_vars
    PROVE  CountInv'
<1>1. ps \in Watermarks /\ Len(entries) \in Nat
  BY CountNumbers
<1>2. ClearZeroWatermark(ps).zeroSizeCount = ps.zeroSizeCount
      /\ OnCompacted(ps, Len(entries)).zeroSizeCount = ps.zeroSizeCount
  BY <1>1, ZeroCountKept
<1>3. CASE UNCHANGED vars
  <2>1. NowSize' = NowSize
    BY <1>3 DEF vars, NowSize
  <2>2. ZeroKeys(index', NowSize') = ZeroKeys(index, NowSize)
    BY <1>3, <2>1, Zenon DEF vars
  <2>3. ZeroParity'
    BY <1>3, <2>2, Zenon DEF vars, CountInv, ZeroParity
  <2> QED BY <1>3, <2>3 DEF vars, CountInv, CountBound
<1>4. CASE Erasure
  BY <1>4, CountErases
<1>5. CASE Entry
  <2>1. /\ UNCHANGED <<entries, index, size>> /\ pc = "idle" /\ pc' # "update"
        /\ ps' \in {ps, ClearZeroWatermark(ps)} /\ ~op'.evictedPre
    BY <1>5, EntryForm, EntryLocals DEF Fresh
  <2> QED BY <2>1, <1>2, CountRests
<1>6. CASE Reclaiming \/ Moving
  <2>1. UNCHANGED <<entries, index, size>>
    BY <1>6, SettlingForm DEF Settling
  <2>2. ps'.zeroSizeCount = ps.zeroSizeCount
    BY <1>6, ReclaimingCount, MovingForm
  <2>3. pc \notin {"update", "insert"} /\ pc' \notin {"update", "insert"}
    BY <1>6 DEF Reclaiming, Moving, FinishDelete, ReclaimTier1, CompleteShed,
       FinishMutation, PrefixDone, ReclaimTier2, ShedSkip, ShedStop,
       FinishDeleteReclaim, AfterReclaim
  <2> QED BY <2>1, <2>2, <2>3, CountRests
<1>7. CASE Unlock
  <2>1. /\ UNCHANGED <<entries, index, size, ps>> /\ pc = "unlock" /\ pc' = "idle"
    BY <1>7 DEF Unlock
  <2> QED BY <2>1, CountRests
<1>8. CASE (\E k \in Keys, w \in Weights, s \in Samples : PutExisting(k, w, s))
           \/ ReplaceStore
  BY <1>8, CountUpdates
<1>9. CASE UpdateStore
  <2>1. /\ pc = "update" /\ pc' \notin {"update", "insert"}
        /\ size' = [size EXCEPT ![op.key] = op.newSize]
        /\ UNCHANGED <<entries, index, ps>>
    BY <1>9, StoreForm DEF UpdateStore
  <2>2. NowSize' = NowSize
    BY <2>1 DEF NowSize
  <2>3. ZeroKeys(index', NowSize') = ZeroKeys(index, NowSize)
    BY <2>1, <2>2, Zenon
  <2>4. ZeroParity'
    BY <2>1, <2>3, Zenon DEF CountInv, ZeroParity
  <2> QED BY <2>1, <2>4 DEF CountInv, CountBound
<1>10. CASE InsertStore
  BY <1>10, CountInserts
<1>11. CASE \E k \in Keys : Get(k)
  <2>1. PICK k \in index : /\ entries' = MoveToFront(entries, k) /\ pc = "idle"
                           /\ UNCHANGED <<index, size, ps, pc>>
    BY <1>11 DEF Get
  <2>2. k \in FirstKeys(entries, Len(entries))
    BY InvLinked, Zenon
  <2>3. Len(entries') = Len(entries)
    BY <2>1, <2>2, InvLinked, MoveToFrontLinks
  <2> QED BY <2>1, <2>3, CountRests
<1>12. CASE (\E s \in Samples : MissUnderLock(s)) \/ Compact
  <2>1. /\ UNCHANGED <<entries, index, size, pc>> /\ pc = "idle"
        /\ ps'.zeroSizeCount = ps.zeroSizeCount
    BY <1>2, <1>12, SyncedType DEF MissUnderLock, Compact
  <2> QED BY <2>1, CountRests
<1>13. CASE \/ \E s \in Samples : DeleteAll(s)
            \/ FinishDeleteEmpty \/ CompleteShedEmpty
  <2>1. entries' = <<>> /\ ps' = Clean /\ pc' # "insert"
    BY <1>13 DEF DeleteAll, FinishDeleteEmpty, CompleteShedEmpty, AfterReclaim
  <2>2. index' = {}
    <3>1. entries = <<>> => index = {}
      BY InvWeights
    <3> QED BY <1>13, <3>1 DEF DeleteAll, FinishDeleteEmpty, CompleteShedEmpty
  <2> QED BY <2>1, <2>2, CountEmpties
<1> QED BY <1>3, <1>4, <1>5, <1>6, <1>7, <1>8, <1>9, <1>10, <1>11, <1>12, <1>13,
           StepKinds

\* The count and the bound hold always.
LEMMA CountInvariance == Spec => []CountInv
<1>1. Init => CountInv
  <2> SUFFICES ASSUME Init PROVE CountInv
    OBVIOUS
  <2>1. index = {} /\ entries = <<>> /\ ps = Clean /\ pc = "idle"
    BY DEF Init
  <2>2. ZeroKeys(index, NowSize) = {}
    BY <2>1 DEF ZeroKeys
  <2>3. Cardinality(ZeroKeys(index, NowSize)) = 0
    BY <2>2, FS_EmptySet
  <2>4. ps.zeroSizeCount = 0 /\ Len(entries) = 0
    BY <2>1 DEF Clean
  <2>5. Len(entries) <= 2 * MaxSize
    BY <2>4, MaxSizeAssumption
  <2> QED BY <2>1, <2>3, <2>4, <2>5 DEF CountInv, ZeroParity, CountBound
<1>2. IndInv /\ CountInv /\ [Next]_vars => CountInv'
  BY CountKeeps
<1> QED BY <1>1, <1>2, Invariance, PTL DEF Spec

\* The capacity rules of evictForInsertLocked bound the entries, weightless ones
\* included, by twice the byte budget, although a weightless entry uses none of it;
\* and zeroSizeCount, by which they go, is exact at every step of every operation.
THEOREM EntriesAlwaysBounded == Spec => []EntryCountBound
<1>1. CountInv => EntryCountBound
  BY DEF CountInv, ZeroParity, CountBound, EntryCountBound
<1> QED BY <1>1, CountInvariance, PTL

-----------------------------------------------------------------------------
(* What Tier 2 leaves, weightless entries included                         *)

\* The weightless target.  While it is not met, every entry behind the cursor has
\* weight or is the entry being written, which the target has a place for.
ZeroShedInv ==
    ~FullFlush =>
      /\ pc = "shed" /\ ps.zeroSizeCount > op.targets.zero =>
           /\ HasProtected /\ ProtectedSize = 0 => op.targets.zero >= 1
           /\ \A i \in (op.cursor + 1)..Len(entries) :
                 entries[i] = op.protected \/ size[entries[i]] > 0
      /\ pc = "completeShed" => ~NeedZeroShed(ps, Len(entries), op.targets)

LEMMA ZeroShedStarts ==
    ASSUME IndInv, ReclaimTier2
    PROVE  ZeroShedInv'
<1> DEFINE n == Len(entries)
           t == ComputeShedTargets(ps, n, HasProtected, ProtectedSize)
<1>1. n \in Nat /\ op \in OpRecords /\ ps \in Watermarks
  BY ShedNumbers, CallTypes
<1>2. /\ op' = [op EXCEPT !.targets = t, !.cursor = n] /\ pc' = "shed"
      /\ UNCHANGED <<entries, size, ps>>
  BY DEF ReclaimTier2
<1>3. ~FullFlush /\ ps.zeroSizeCount > 0 /\ HasProtected /\ ProtectedSize = 0 =>
        t.zero >= 1
  <2>1. /\ Retained(ps.zeroSizeCount) \in Nat /\ ps.zeroSizeCount \in Nat
        /\ ps.lastReclaimedZeroCount \in Nat
    BY <1>1, RetainedType DEF Watermarks
  <2>2. ~FullFlush /\ ps.zeroSizeCount > 0 /\ HasProtected /\ ProtectedSize = 0 =>
          t.zero = AtLeast(AtLeast(Retained(ps.zeroSizeCount),
                                   ps.lastReclaimedZeroCount), 1)
    BY <2>1 DEF ComputeShedTargets
  <2> HIDE DEF t
  <2> QED BY <2>1, <2>2 DEF AtLeast
<1>4. t \in ShedTargets
  <2>1. HasProtected \in BOOLEAN
    BY DEF HasProtected
  <2> QED BY <1>1, <2>1, ShedNumbers, ShedTypes
<1> HIDE DEF t, n
<1>5. op'.targets = t /\ op'.cursor = n /\ op'.protected = op.protected
  BY <1>1, <1>2 DEF OpRecords
<1>6. ProtectedSize' = ProtectedSize /\ HasProtected' = HasProtected
  BY <1>2, <1>5 DEF ProtectedSize, HasProtected
<1>7. (op'.cursor + 1)..Len(entries') = {}
  BY <1>1, <1>2, <1>5 DEF n
<1>8. t.zero \in Nat /\ ps.zeroSizeCount \in Nat
  BY <1>1, <1>4 DEF ShedTargets, Watermarks
<1> QED BY <1>2, <1>3, <1>5, <1>6, <1>7, <1>8 DEF ZeroShedInv

LEMMA ZeroShedEvicts ==
    ASSUME IndInv, ZeroShedInv, ShedEvict
    PROVE  ZeroShedInv'
<1>1. PICK k \in index : ps' = OnEntryDeleted(ps, size[k])
  BY ShedVictimLeaves
<1>2. size[k] \in Nat /\ ps \in Watermarks /\ ps.zeroSizeCount \in Nat
      /\ op.targets.zero \in Nat
  BY ShedNumbers, InvWeights, InvLinked DEF ShedTargets, Watermarks
<1>3. ps'.zeroSizeCount \in Nat /\ ps'.zeroSizeCount <= ps.zeroSizeCount
  BY <1>1, <1>2, ZeroCountMoves
<1>4. HasProtected' = HasProtected
  BY ShedVictimLeaves DEF HasProtected
<1>5. ps'.zeroSizeCount > op.targets.zero => ps.zeroSizeCount > op.targets.zero
  BY <1>2, <1>3
<1> QED BY <1>4, <1>5, ShedVictimLeaves DEF ZeroShedInv

LEMMA ZeroShedSkips ==
    ASSUME IndInv, ZeroShedInv, ShedSkip
    PROVE  ZeroShedInv'
<1>1. /\ pc = "shed" /\ pc' = "shed" /\ ~ShedTakesVictim /\ op.cursor > 0
      /\ op' = [op EXCEPT !.cursor = @ - 1]
      /\ UNCHANGED <<entries, size, ps>>
  BY DEF ShedSkip, ShedContinues
<1>2. op \in OpRecords /\ op.cursor \in Nat /\ Len(entries) \in Nat
  BY ShedNumbers, CallTypes
<1>3. /\ op'.cursor = op.cursor - 1 /\ op'.targets = op.targets
      /\ op'.protected = op.protected
  BY <1>1, <1>2 DEF OpRecords
<1>4. op.cursor \in 1..Len(entries) /\ size[entries[op.cursor]] \in Nat
  <2>1. op.cursor \in 1..Len(entries)
    BY <1>1, <1>2 DEF IndInv, Shape
  <2> QED BY <2>1, InvLinked, InvWeights
<1>5. ps.zeroSizeCount > op.targets.zero =>
        entries[op.cursor] = op.protected \/ size[entries[op.cursor]] > 0
  BY <1>1, <1>4 DEF ShedTakesVictim, ShouldEvictShedVictim
<1>6. \A i \in op.cursor..Len(entries) : i = op.cursor \/ i \in (op.cursor + 1)..Len(entries)
  BY <1>2
<1>7. (op'.cursor + 1)..Len(entries') = op.cursor..Len(entries)
  BY <1>1, <1>2, <1>3
<1>8. ProtectedSize' = ProtectedSize /\ HasProtected' = HasProtected
  BY <1>1, <1>3 DEF ProtectedSize, HasProtected
<1> QED BY <1>1, <1>3, <1>5, <1>6, <1>7, <1>8 DEF ZeroShedInv

\* If the scan has passed every entry, the only weightless one that can be left is
\* the entry being written, and the target allows for it.
LEMMA ZeroShedStops ==
    ASSUME IndInv, CountInv, ZeroShedInv, ShedStop
    PROVE  ZeroShedInv'
<1>1. /\ pc = "shed" /\ pc' = "completeShed" /\ ~ShedContinues
      /\ UNCHANGED <<entries, index, size, ps, op>>
  BY DEF ShedStop
<1>2. op.targets.zero \in Nat /\ op.cursor \in Nat /\ ps.zeroSizeCount \in Nat
  BY ShedNumbers DEF ShedTargets, Watermarks
<1>3. ASSUME NeedZeroShed(ps, Len(entries), op.targets) PROVE FALSE
  <2>1. op.cursor = 0 /\ ps.zeroSizeCount > op.targets.zero /\ ~FullFlush
    BY <1>1, <1>2, <1>3 DEF ShedContinues, NeedZeroShed
  <2>2. /\ HasProtected /\ ProtectedSize = 0 => op.targets.zero >= 1
        /\ \A i \in 1..Len(entries) :
              entries[i] = op.protected \/ size[entries[i]] > 0
    BY <1>1, <2>1 DEF ZeroShedInv
  <2>3. index \in SUBSET Keys /\ size \in Sizes
    BY CountNumbers
  <2>4. \A k \in index : k = op.protected \/ size[k] > 0
    BY <2>2, InvWeights
  <2>5. ps.zeroSizeCount = Cardinality(ZeroKeys(index, size))
    <3>1. NowSize = size
      BY <1>1 DEF NowSize
    <3> QED BY <3>1, Zenon DEF CountInv, ZeroParity
  <2>6. PICK k : k \in ZeroKeys(index, size)
    <3>1. ZeroKeys(index, size) # {}
      BY <1>2, <2>1, <2>5, FS_EmptySet
    <3> QED BY <3>1
  <2>7. k \in index /\ size[k] = 0 /\ k = op.protected
    BY <2>4, <2>6 DEF ZeroKeys
  <2>8. ZeroKeys(index, size) = {k}
    BY <2>4, <2>6, <2>7 DEF ZeroKeys
  <2>9. Cardinality({k}) = 1
    BY FS_Singleton
  <2>10. ps.zeroSizeCount = 1
    BY <2>5, <2>8, <2>9, Zenon
  <2>11. HasProtected /\ ProtectedSize = 0
    BY <2>3, <2>7, KeysAssumption DEF HasProtected, ProtectedSize
  <2> QED BY <1>2, <2>1, <2>2, <2>10, <2>11
<1> QED BY <1>1, <1>3 DEF ZeroShedInv, NeedZeroShed

LEMMA ZeroShedKeeps ==
    ASSUME IndInv, CountInv, ZeroShedInv, [Next]_vars
    PROVE  ZeroShedInv'
<1>1. CASE UNCHANGED vars
  BY <1>1 DEF vars, ZeroShedInv, ProtectedSize, HasProtected, NeedZeroShed
<1>2. CASE pc' \notin {"shed", "completeShed"}
  BY <1>2 DEF ZeroShedInv
<1>3. CASE ReclaimTier2 \/ ShedEvict \/ ShedSkip \/ ShedStop
  BY <1>3, ZeroShedStarts, ZeroShedEvicts, ZeroShedSkips, ZeroShedStops
<1> QED BY <1>1, <1>2, <1>3, SheddingSteps

\* When the shedding of shedAndCompactLocked is over, at most the retained share
\* of the budget is left, or the entry being written alone; the weightless target
\* or the length target is met as well; and a ratio of 0 has flushed everything
\* else.
THEOREM SheddingReachesTarget == Spec => []ShedReachesTarget
<1>1. Init => ShedInv /\ ZeroShedInv
  BY DEF Init, ShedInv, BytesReached, ZeroShedInv
<1>2. IndInv /\ ShedInv /\ [Next]_vars => ShedInv'
  BY ShedInvKeeps
<1>3. IndInv /\ CountInv /\ ZeroShedInv /\ [Next]_vars => ZeroShedInv'
  BY ZeroShedKeeps
<1>4. ShedInv /\ ZeroShedInv => ShedReachesTarget
  BY DEF ShedInv, BytesReached, ZeroShedInv, ShedReachesTarget, NeedZeroShed
<1> QED BY <1>1, <1>2, <1>3, <1>4, Invariance, CountInvariance, PTL DEF Spec

=============================================================================
