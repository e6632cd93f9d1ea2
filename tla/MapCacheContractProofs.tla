----------------------- MODULE MapCacheContractProofs -----------------------
(***************************************************************************)
(* MapCache implements LRUCache, for every set of keys, weights and        *)
(* prefixes and every budget: between lock and unlock an operation removes *)
(* what it was told to and, of its own accord, only ever the oldest of     *)
(* each class; what stays keeps its weight and its place.                  *)
(***************************************************************************)
EXTENDS MapCacheContract, MapCacheOutcomeProofs

-----------------------------------------------------------------------------
(* What the operation that holds the lock has done so far                  *)

\* The entry that a Put moves to the front, or inserts there.
Lifted == IF op.kind = "Put" THEN op.key ELSE NoKey

\* A Put or a Replace that writes its entry; any other operation has only
\* entries to remove.
Writing == op.kind \in {"Put", "Replace"} /\ ~op.selfEvicted

\* Which entry the operation is about, and at which stages.
RoleOK ==
    /\ Linked(op.before)
    /\ op.kind # "None"
    /\ pc \in {"update", "insert"} => op.kind = "Put"
    /\ pc = "grow" => op.kind = "Replace"
    /\ op.selfEvicted => op.kind = "Replace"
    /\ op.kind \in {"Put", "Replace"} => op.key \in Keys /\ op.newSize \in Weights
    /\ Writing =>
         /\ pc \notin {"prefix", "deleted"}
         /\ pc \notin {"update", "insert", "grow"} =>
              op.protected = op.key /\ op.key \in index
         /\ op.kind = "Replace" => op.key \in index /\ op.key \in BeforeKeys
         /\ op.kind = "Put" /\ pc # "insert" =>
              Len(entries) > 0 /\ entries[1] = op.key
    /\ ~Writing => /\ op.protected = NoKey
                   /\ pc \notin {"update", "insert", "grow"}
    /\ op.kind \in {"Evaluate", "DeletePrefix"} => op.key = NoKey

\* Only the entry being written has another weight than when the lock was taken.
SizesOK ==
    \A k \in index :
        size[k] = IF k = op.protected THEN op.newSize ELSE op.sizesBefore[k]

\* The caller asked for the keys in X to be removed, and they are gone, or are
\* those that DeletePrefix has still to visit.
Cause(X) ==
    /\ \/ /\ op.kind \in {"Put", "Replace", "Evaluate"} /\ ~op.selfEvicted
          /\ X = {}
       \/ (op.kind = "Delete" \/ op.selfEvicted) /\ op.key \in Keys /\ X = {op.key}
       \/ op.kind = "DeletePrefix" /\ X \in Prefixes
       \/ op.kind = "DeleteAll" /\ X = Keys
    /\ IF pc = "prefix" THEN op.kind = "DeletePrefix" /\ op.todo = X \cap index
                        ELSE X \cap index = {}

\* Of the entries that left unasked, none left before an older one of its class.
OldestLeft(X) ==
    \A a \in (BeforeKeys \ index) \ X, b \in (BeforeKeys \cap index) \ {op.key} :
        Position(op.before, a) < Position(op.before, b) =>
            ~((op.sizesBefore[a] = 0) <=> (op.sizesBefore[b] = 0))

\* What the shedding loop has passed over it will not ask for again: by then there
\* was no need to shed bytes, or the weightless entries were down to their target.
PassedOver ==
    pc = "shed" =>
        \A i \in (op.cursor + 1)..Len(entries) :
            entries[i] # op.protected =>
                IF size[entries[i]] > 0
                THEN ~NeedByteShed(currentSize, op.targets)
                ELSE ~FullFlush /\ ps.zeroSizeCount <= op.targets.zero

ContractInv ==
    /\ \A k \in Keys \ index : size[k] = 0
    /\ pc # "idle" =>
         /\ RoleOK
         /\ SizesOK
         /\ ListOrder(entries, op.before, Lifted)
         /\ PassedOver
         /\ \E X : Cause(X) /\ OldestLeft(X)

-----------------------------------------------------------------------------
(* Erasing an entry                                                        *)

\* What an erasure changes, field by field.
LEMMA Erased ==
    ASSUME IndInv, NEW c \in 1..Len(entries), NEW r, Evicts(entries[c], r)
    PROVE  /\ entries' = Remove(entries, entries[c])
           /\ Len(entries') = Len(entries) - 1
           /\ \A i \in 1..(c - 1) : entries'[i] = entries[i]
           /\ \A i \in c..(Len(entries) - 1) : entries'[i] = entries[i + 1]
           /\ index' = index \ {entries[c]}
           /\ \A k \in Keys : size'[k] = IF k = entries[c] THEN 0 ELSE size[k]
           /\ currentSize' = currentSize - size[entries[c]]
           /\ ps' = OnEntryDeleted(ps, size[entries[c]])
<1> DEFINE k == entries[c]
           at == Position(entries, k)
<1>1. k \in index /\ k \in Keys /\ size \in Sizes /\ Linked(entries)
      /\ Len(entries) \in Nat
  BY InvLinked, InvWeights DEF Evicts
<1>2. PICK o : EraseEntryLocked(k, r, ps, o)
  BY DEF Evicts
<1>3. /\ entries' = Remove(entries, k)
      /\ index' = index \ {k}
      /\ size' = [size EXCEPT ![k] = 0]
      /\ currentSize' = currentSize - size[k]
      /\ ps' = OnEntryDeleted(ps, size[k])
  BY <1>2 DEF EraseEntryLocked
<1>4. at = c
  <2>1. k \in FirstKeys(entries, Len(entries))
    BY DEF FirstKeys
  <2>2. at \in 1..Len(entries) /\ entries[at] = k
    BY <1>1, <2>1, PositionFound DEF Linked
  <2> QED BY <1>1, <2>2 DEF Linked
<1>5. entries' = [i \in 1..(Len(entries) - 1) |->
                    IF i < c THEN entries[i] ELSE entries[i + 1]]
  BY <1>3, <1>4 DEF Remove
<1>6. Len(entries') = Len(entries) - 1
  BY <1>1, <1>3, RemoveKeepsOrder
<1>7. \A j \in Keys : size'[j] = IF j = k THEN 0 ELSE size[j]
  BY <1>1, <1>3 DEF Sizes
<1> QED BY <1>1, <1>3, <1>5, <1>6, <1>7

\* Everything but the question of who goes first is kept by an erasure, unless
\* it is of the entry being written.
LEMMA ErasingKeeps ==
    ASSUME IndInv, ContractInv, pc # "idle", NEW c \in 1..Len(entries), NEW r,
           Evicts(entries[c], r), Writing => entries[c] # op.key
    PROVE  /\ \A k \in Keys \ index' : size'[k] = 0
           /\ RoleOK' /\ SizesOK' /\ ListOrder(entries, op.before, Lifted)'
<1> DEFINE k == entries[c]
<1>1. /\ index' = index \ {k} /\ k \in index /\ index \in SUBSET Keys
      /\ entries' = Remove(entries, k)
      /\ Len(entries') = Len(entries) - 1
      /\ \A i \in 1..(c - 1) : entries'[i] = entries[i]
      /\ \A j \in Keys : size'[j] = IF j = k THEN 0 ELSE size[j]
      /\ Linked(entries) /\ Len(entries) \in Nat
  BY Erased, InvLinked
<1>2. Kept(op, op') /\ op'.protected = op.protected /\ pc' = pc
  BY DEF Evicts
<1>3. RoleOK /\ SizesOK /\ ListOrder(entries, op.before, Lifted)
  BY DEF ContractInv
<1>4. BeforeKeys' = BeforeKeys /\ Writing' = Writing /\ Lifted' = Lifted
  BY <1>2 DEF Kept, BeforeKeys, Writing, Lifted
<1>5. ListOrder(entries, op.before, Lifted)'
  <2>1. ListOrder(Remove(entries, k), op.before, Lifted)
    BY <1>1, <1>3, RemoveKeepsOrder
  <2> QED BY <1>1, <1>2, <1>4, <2>1 DEF Kept
<1>6. SizesOK'
  BY <1>1, <1>2, <1>3 DEF SizesOK, Kept
<1>7. \A j \in Keys \ index' : size'[j] = 0
  BY <1>1 DEF ContractInv
<1>8. RoleOK'
  <2>1. Writing => op.key # k
    OBVIOUS
  <2>2. ASSUME Writing, op.kind = "Put", pc # "insert"
        PROVE  Len(entries') > 0 /\ entries'[1] = op.key
    <3>1. Len(entries) > 0 /\ entries[1] = op.key
      BY <1>3, <2>2 DEF RoleOK
    <3>2. c > 1
      BY <2>1, <2>2, <3>1
    <3> QED BY <1>1, <3>1, <3>2
  <2> QED BY <1>1, <1>2, <1>3, <1>4, <2>1, <2>2 DEF RoleOK, Kept
<1> QED BY <1>5, <1>6, <1>7, <1>8

\* An erasure that was asked for, or after which no older entry of the class is
\* left, keeps the order of the departures.
LEMMA OldestKept ==
    ASSUME IndInv, NEW c \in 1..Len(entries), NEW r, Evicts(entries[c], r),
           NEW X, OldestLeft(X),
           \/ entries[c] \in X
           \/ \A b \in (BeforeKeys \cap index) \ {op.key, entries[c]} :
                Position(op.before, entries[c]) < Position(op.before, b) =>
                  ~((op.sizesBefore[entries[c]] = 0) <=> (op.sizesBefore[b] = 0))
    PROVE  OldestLeft(X)'
<1>1. index' = index \ {entries[c]}
  BY Erased
<1>2. Kept(op, op') /\ BeforeKeys' = BeforeKeys
  BY DEF Evicts, Kept, BeforeKeys
<1> QED BY <1>1, <1>2 DEF OldestLeft, Kept

\* An entry that was older than the one at c is behind it in the list.
LEMMA OlderIsBehind ==
    ASSUME IndInv, NotifyInv, pc # "idle", Linked(op.before),
           ListOrder(entries, op.before, Lifted),
           NEW c \in 1..Len(entries), entries[c] # op.protected,
           entries[c] # Lifted, NEW b \in BeforeKeys \cap index, b # Lifted,
           Position(op.before, entries[c]) < Position(op.before, b)
    PROVE  \E i \in (c + 1)..Len(entries) : entries[i] = b
<1>1. entries[c] \in BeforeKeys /\ Len(entries) \in Nat
  BY InvLinked DEF NotifyInv
<1>2. Position(op.before, entries[c]) \in Int /\ Position(op.before, b) \in Int
  <2>1. op.before \in Seq(Keys) /\ Len(op.before) \in Nat
    BY DEF Linked
  <2> QED BY <1>1, <2>1, PositionFound DEF BeforeKeys
<1>3. PICK i \in 1..Len(entries) : entries[i] = b
  BY InvWeights
<1>4. i # c /\ ~(i < c)
  BY <1>2, <1>3 DEF ListOrder
<1> QED BY <1>1, <1>3, <1>4

\* The capacity takes the last entry: none of the others is older.
LEMMA CapacityTakesOldest ==
    ASSUME IndInv, NotifyInv, ContractInv,
           UpdateEvict \/ InsertEvict \/ ReplaceEvict
    PROVE  ContractInv'
<1> DEFINE n == Len(entries)
<1>1. /\ n > 0 /\ Evicts(Back, "Capacity") /\ Back # op.key
      /\ pc \in {"update", "insert", "grow"}
  BY CapacityErasure
<1>2. n \in 1..Len(entries) /\ Back = entries[n] /\ Len(entries) \in Nat
  BY <1>1, InvLinked DEF Back
<1>3. /\ \A k \in Keys \ index' : size'[k] = 0
      /\ RoleOK' /\ SizesOK' /\ ListOrder(entries, op.before, Lifted)'
  BY <1>1, <1>2, ErasingKeeps
<1>4. PICK X : Cause(X) /\ OldestLeft(X)
  BY <1>1 DEF ContractInv
<1>5. pc' = pc /\ Kept(op, op') /\ index' = index \ {Back}
  BY <1>1, <1>2, Erased DEF Evicts
<1>6. Cause(X)'
  BY <1>1, <1>4, <1>5 DEF Cause, Kept
<1>7. OldestLeft(X)'
  <2>1. /\ op.protected = NoKey /\ RoleOK
        /\ ListOrder(entries, op.before, Lifted)
    BY <1>1 DEF NotifyInv, ContractInv
  <2>2. Back \in Keys /\ Back # op.protected /\ Back # Lifted
    BY <1>1, <2>1, KeysAssumption DEF Evicts, Lifted
  <2>3. ASSUME NEW b \in (BeforeKeys \cap index) \ {op.key, Back}
        PROVE  ~(Position(op.before, Back) < Position(op.before, b))
    <3>1. b # Lifted
      BY <2>3, InvLinked, KeysAssumption DEF Lifted
    <3>2. ASSUME Position(op.before, Back) < Position(op.before, b)
          PROVE  FALSE
      <4>1. \E i \in (n + 1)..Len(entries) : entries[i] = b
        BY <1>1, <1>2, <2>1, <2>2, <2>3, <3>1, <3>2, OlderIsBehind DEF RoleOK
      <4> QED BY <1>2, <4>1
    <3> QED BY <3>2
  <2> QED BY <1>1, <1>2, <1>4, <2>3, OldestKept
<1>8. PassedOver'
  BY <1>1, <1>5 DEF PassedOver
<1> QED BY <1>3, <1>6, <1>7, <1>8 DEF ContractInv

\* The numbers the shedding loop compares.
LEMMA SheddingNumbers ==
    ASSUME IndInv
    PROVE  /\ currentSize \in Nat /\ op.targets.effective \in Nat
           /\ op.targets.zero \in Nat /\ op.targets.len \in Nat
           /\ op.cursor \in Nat /\ ps.zeroSizeCount \in Nat
           /\ \A k \in Keys : size[k] \in Nat
           /\ \A w \in Nat : OnEntryDeleted(ps, w).zeroSizeCount <= ps.zeroSizeCount
<1>1. op \in OpRecords /\ ps \in Watermarks
  BY CallTypes
<1>2. op.targets \in ShedTargets /\ op.cursor \in Nat
  BY <1>1 DEF OpRecords
<1>3. ps.zeroSizeCount \in Nat
  BY <1>1 DEF Watermarks
<1>4. ASSUME NEW w \in Nat
      PROVE  OnEntryDeleted(ps, w).zeroSizeCount \in {ps.zeroSizeCount, ps.zeroSizeCount - 1}
  BY <1>1 DEF Watermarks, OnEntryDeleted, OneZeroFewer
<1>5. ASSUME NEW w \in Nat
      PROVE  OnEntryDeleted(ps, w).zeroSizeCount <= ps.zeroSizeCount
  BY <1>3, <1>4
<1> QED BY <1>2, <1>3, <1>5, InvWeights DEF ShedTargets

\* The pressure takes an entry only when no older one of its class was passed over.
LEMMA SheddingTakesOldest ==
    ASSUME IndInv, NotifyInv, ContractInv, ShedEvict
    PROVE  ContractInv'
<1> DEFINE c == op.cursor
           v == entries[c]
<1>1. /\ Evicts(v, "Pressure") /\ pc = "shed" /\ c \in 1..Len(entries)
      /\ op'.cursor = c - 1 /\ op'.targets = op.targets /\ v # op.protected
  BY ShedErasure
<1>2. RoleOK /\ SizesOK /\ ListOrder(entries, op.before, Lifted) /\ PassedOver
  BY <1>1 DEF ContractInv
<1>3. Writing => op.protected = op.key
  BY <1>1, <1>2 DEF RoleOK
<1>4. /\ \A k \in Keys \ index' : size'[k] = 0
      /\ RoleOK' /\ SizesOK' /\ ListOrder(entries, op.before, Lifted)'
  BY <1>1, <1>3, ErasingKeeps
<1>5. PICK X : Cause(X) /\ OldestLeft(X)
  BY <1>1 DEF ContractInv
<1>6. /\ pc' = pc /\ Kept(op, op') /\ op'.protected = op.protected
      /\ index' = index \ {v} /\ v \in index /\ v \in Keys
      /\ Len(entries') = Len(entries) - 1
      /\ \A i \in c..(Len(entries) - 1) : entries'[i] = entries[i + 1]
      /\ \A k \in Keys : size'[k] = IF k = v THEN 0 ELSE size[k]
      /\ currentSize' = currentSize - size[v]
      /\ ps' = OnEntryDeleted(ps, size[v])
  BY <1>1, Erased DEF Evicts
<1>7. Cause(X)'
  BY <1>1, <1>5, <1>6 DEF Cause, Kept
<1>8. /\ Len(entries) \in Nat /\ Linked(entries) /\ index \in SUBSET Keys
      /\ \A i \in 1..Len(entries) : entries[i] \in index
  BY InvLinked
<1>9. PassedOver'
  <2>1. SUFFICES ASSUME NEW i \in c..(Len(entries) - 1),
                        entries[i + 1] # op.protected
                 PROVE  IF size'[entries[i + 1]] > 0
                        THEN ~NeedByteShed(currentSize', op.targets)
                        ELSE ~FullFlush /\ ps'.zeroSizeCount <= op.targets.zero
    BY <1>1, <1>6, <1>8 DEF PassedOver
  <2>2. i + 1 \in (c + 1)..Len(entries) /\ entries[i + 1] \in Keys
        /\ entries[i + 1] # v
    BY <1>1, <1>8 DEF Linked
  <2>3. size'[entries[i + 1]] = size[entries[i + 1]]
    BY <1>6, <2>2
  <2>4. IF size[entries[i + 1]] > 0
        THEN ~NeedByteShed(currentSize, op.targets)
        ELSE ~FullFlush /\ ps.zeroSizeCount <= op.targets.zero
    BY <1>1, <1>2, <2>1, <2>2 DEF PassedOver
  <2>5. /\ currentSize' <= currentSize
        /\ ps'.zeroSizeCount <= ps.zeroSizeCount
        /\ ps'.zeroSizeCount \in Nat
    <3>1. size[v] \in Nat
      BY <1>6, SheddingNumbers
    <3>2. ps' \in Watermarks
      BY <1>6, <3>1, CallTypes, WatermarkTypes
    <3>3. ps'.zeroSizeCount \in Nat
      BY <3>2 DEF Watermarks
    <3> QED BY <1>6, <3>1, <3>3, SheddingNumbers
  <2>6. currentSize' \in Int
    BY <1>6, SheddingNumbers
  <2> QED BY <2>3, <2>4, <2>5, <2>6, SheddingNumbers DEF NeedByteShed
<1>10. OldestLeft(X)'
  <2>1. v # Lifted
    BY <1>1, <1>2, <1>3, <1>6, KeysAssumption DEF Lifted, Writing, RoleOK
  <2>2. ASSUME NEW b \in (BeforeKeys \cap index) \ {op.key, v},
               Position(op.before, v) < Position(op.before, b)
        PROVE  ~((op.sizesBefore[v] = 0) <=> (op.sizesBefore[b] = 0))
    <3>1. b # Lifted /\ b # op.protected /\ b \in Keys
      BY <1>2, <1>3, <1>8, <2>2, KeysAssumption DEF Lifted, RoleOK
    <3>2. PICK i \in (c + 1)..Len(entries) : entries[i] = b
      BY <1>1, <1>2, <2>1, <2>2, <3>1, OlderIsBehind DEF RoleOK
    <3>3. IF size[b] > 0
          THEN ~NeedByteShed(currentSize, op.targets)
          ELSE ~FullFlush /\ ps.zeroSizeCount <= op.targets.zero
      BY <1>1, <1>2, <3>1, <3>2 DEF PassedOver
    <3>4. size[b] = op.sizesBefore[b] /\ size[v] = op.sizesBefore[v]
      BY <1>1, <1>2, <1>6, <2>2, <3>1 DEF SizesOK
    <3>5. size[b] \in Nat /\ size[v] \in Nat
      BY <1>6, <3>1, SheddingNumbers
    <3>6. /\ \/ NeedByteShed(currentSize, op.targets)
             \/ NeedZeroShed(ps, Len(entries), op.targets)
          /\ \/ FullFlush
             \/ /\ NeedByteShed(currentSize, op.targets)
                /\ ps.zeroSizeCount > op.targets.zero \/ size[v] > 0
             \/ ~NeedByteShed(currentSize, op.targets) /\ size[v] = 0
      BY DEF ShedEvict, ShedContinues, ShedTakesVictim, ShouldEvictShedVictim
    <3>7. CASE size[v] > 0
      <4>1. NeedByteShed(currentSize, op.targets)
        BY <3>5, <3>6, <3>7 DEF NeedByteShed
      <4> QED BY <3>3, <3>4, <3>5, <3>7, <4>1
    <3>8. CASE size[v] = 0
      <4>1. FullFlush \/ ps.zeroSizeCount > op.targets.zero
        BY <3>6, <3>8 DEF NeedZeroShed
      <4>2. ~(size[b] = 0)
        BY <3>3, <4>1, SheddingNumbers
      <4> QED BY <3>4, <3>8, <4>2
    <3> QED BY <3>5, <3>7, <3>8
  <2> QED BY <1>1, <1>5, <2>2, OldestKept
<1> QED BY <1>4, <1>7, <1>9, <1>10 DEF ContractInv

\* DeletePrefix takes what it was asked for.
LEMMA PrefixTakesItsOwn ==
    ASSUME IndInv, NotifyInv, ContractInv, NEW k \in Keys, PrefixErase(k)
    PROVE  ContractInv'
<1>1. Evicts(k, "Deleted") /\ pc = "prefix"
  BY PrefixErasure
<1>2. PICK c \in 1..Len(entries) : entries[c] = k
  BY <1>1, InvWeights DEF Evicts
<1>3. /\ \A j \in Keys \ index' : size'[j] = 0
      /\ RoleOK' /\ SizesOK' /\ ListOrder(entries, op.before, Lifted)'
  <2>1. ~Writing
    BY <1>1 DEF ContractInv, RoleOK
  <2> QED BY <1>1, <1>2, <2>1, ErasingKeeps
<1>4. PICK X : Cause(X) /\ OldestLeft(X)
  BY <1>1 DEF ContractInv
<1>5. pc' = pc /\ Kept(op, op') /\ index' = index \ {k}
  BY <1>1, <1>2, Erased DEF Evicts
<1>6. op.todo = X \cap index /\ k \in op.todo /\ op'.todo = op.todo \ {k}
  <2>1. op \in OpRecords
    BY CallTypes
  <2>2. op' = Enqueue([op EXCEPT !.todo = @ \ {k}], k, "Deleted")
    BY DEF PrefixErase, EraseEntryLocked
  <2> QED BY <1>1, <1>4, <2>1, <2>2 DEF PrefixErase, Cause, Enqueue, OpRecords
<1>7. Cause(X)'
  BY <1>1, <1>4, <1>5, <1>6 DEF Cause, Kept
<1>8. OldestLeft(X)'
  BY <1>1, <1>2, <1>4, <1>6, OldestKept
<1>9. PassedOver'
  BY <1>1, <1>5 DEF PassedOver
<1> QED BY <1>3, <1>7, <1>8, <1>9 DEF ContractInv

-----------------------------------------------------------------------------
(* Taking the lock                                                         *)

\* An operation that has removed nothing yet.
LEMMA NothingTakenYet ==
    ASSUME IndInv, ContractInv, op' \in OpRecords, Fresh(op'), index' = index,
           size' = size, NEW X, Cause(X)', RoleOK',
           ListOrder(entries', entries, Lifted'), pc' # "shed"
    PROVE  ContractInv'
<1>1. /\ op'.before = entries /\ op'.sizesBefore = size /\ op'.protected = NoKey
      /\ index \in SUBSET Keys
  BY InvLinked DEF Fresh
<1>2. BeforeKeys' = index
  BY <1>1, InvLinked DEF BeforeKeys
<1>3. SizesOK'
  BY <1>1, KeysAssumption DEF SizesOK
<1>4. OldestLeft(X)'
  BY <1>2 DEF OldestLeft
<1>5. PassedOver'
  BY DEF PassedOver
<1>6. \A k \in Keys \ index' : size'[k] = 0
  BY DEF ContractInv
<1> QED BY <1>1, <1>3, <1>4, <1>5, <1>6 DEF ContractInv

\* Put of a cached key: its entry is already in front.
LEMMA PutExistingStarts ==
    ASSUME IndInv, ContractInv, NEW k \in Keys, NEW w \in Weights, NEW s \in Samples,
           PutExisting(k, w, s)
    PROVE  ContractInv'
<1>1. /\ op' \in OpRecords /\ Fresh(op') /\ op'.kind = "Put" /\ op'.key = k
      /\ op'.newSize = w /\ pc = "idle" /\ pc' = "update"
  BY PutExistingForm
<1>2. entries' = MoveToFront(entries, k) /\ index' = index /\ size' = size /\ k \in index
  BY DEF PutExisting
<1>3. Linked(entries) /\ k \in FirstKeys(entries, Len(entries)) /\ Len(entries) \in Nat
  BY <1>2, InvLinked
<1>4. Len(entries') = Len(entries) /\ entries'[1] = k
  BY <1>2, <1>3, MoveToFrontLinks
<1>5. Len(entries) > 0
  BY <1>3 DEF FirstKeys
<1>6. Lifted' = k
  BY <1>1 DEF Lifted
<1>7. ListOrder(entries', entries, k)
  <2>1. PICK c \in 1..Len(entries) : entries[c] = k
    BY <1>3 DEF FirstKeys
  <2>2. ListOrder(Remove(entries, k), entries, k) /\ Len(Remove(entries, k)) \in Nat
    BY <1>3, <1>5, <2>1, OwnOrder, RemoveKeepsOrder
  <2> QED BY <1>2, <2>2, PushKeepsOrder DEF MoveToFront
<1>8. RoleOK'
  <2>1. op'.before = entries /\ ~op'.selfEvicted
    BY <1>1 DEF Fresh
  <2> QED BY <1>1, <1>2, <1>3, <1>4, <1>5, <2>1 DEF RoleOK, Writing
<1>9. Cause({})'
  BY <1>1, <1>2 DEF Cause, Fresh
<1> QED BY <1>1, <1>2, <1>6, <1>7, <1>8, <1>9, NothingTakenYet

\* The other starts: Put of a new key, Replace, DeletePrefix, evaluation.
LEMMA EntryStarts ==
    ASSUME IndInv, ContractInv, Entry
    PROVE  ContractInv'
<1>1. /\ UNCHANGED <<entries, index, size>> /\ pc = "idle"
      /\ pc' \in {"insert", "grow", "prefix", "reclaim"}
      /\ op' \in OpRecords /\ Fresh(op')
  BY EntryForm, EntryLocals
<1>2. /\ Linked(entries) /\ FirstKeys(entries, Len(entries)) = index
      /\ op'.before = entries /\ op'.protected = NoKey /\ ~op'.selfEvicted
  BY <1>1, InvLinked DEF Fresh
<1>3. ListOrder(entries', entries, Lifted')
  BY <1>1, <1>2, OwnOrder
<1>4. BeforeKeys' = index
  BY <1>2 DEF BeforeKeys
<1>5. ASSUME NEW k \in Keys, NEW w \in Weights, NEW s \in Samples,
             PutNew(k, w, s) \/ ReplaceGrow(k, w, s) \/ ReplaceNoGrowth(k, w, s)
      PROVE  ContractInv'
  <2>1. w \in Nat /\ k \in Keys \cup {NoKey} /\ "Put" \in Ops /\ "Replace" \in Ops
    BY CallTypes DEF Ops
  <2>2. /\ op'.key = k /\ op'.newSize = w
        /\ \/ op'.kind = "Put" /\ pc' = "insert"
           \/ op'.kind = "Replace" /\ pc' = "grow" /\ k \in index
    <3>1. ASSUME NEW kind \in {"Put", "Replace"}
          PROVE  LET o == Begin(kind, k, w, s)
                 IN  o \in OpRecords /\ o.kind = kind /\ o.key = k /\ o.newSize = w
      BY <2>1, BeginFields
    <3>2. CASE PutNew(k, w, s)
      BY <3>1, <3>2 DEF PutNew
    <3>3. CASE ReplaceGrow(k, w, s)
      BY <3>1, <3>3 DEF ReplaceGrow
    <3>4. CASE ReplaceNoGrowth(k, w, s)
      BY <3>1, <3>4 DEF ReplaceNoGrowth, OpRecords
    <3> QED BY <1>5, <3>2, <3>3, <3>4
  <2>3. RoleOK'
    BY <1>1, <1>2, <1>4, <2>2 DEF RoleOK, Writing
  <2>4. Cause({})'
    BY <1>2, <2>2 DEF Cause
  <2> QED BY <1>1, <1>3, <2>3, <2>4, NothingTakenYet
<1>6. ASSUME NEW P \in Prefixes, NEW s \in Samples, DeletePrefix(P, s)
      PROVE  ContractInv'
  <2>1. "DeletePrefix" \in Ops /\ NoKey \in Keys \cup {NoKey} /\ 0 \in Nat
    BY DEF Ops
  <2> DEFINE o == Begin("DeletePrefix", NoKey, 0, s)
             t == P \cap index
  <2>2. o \in OpRecords /\ o.kind = "DeletePrefix" /\ o.key = NoKey
    <3>1. o \in OpRecords /\ o.kind = "DeletePrefix"
      BY <2>1, BeginFields
    <3>2. o.key = NoKey
      BY <2>1, BeginFields
    <3> QED BY <3>1, <3>2
  <2>3. /\ op'.kind = "DeletePrefix" /\ op'.key = NoKey
        /\ op'.todo = P \cap index /\ pc' = "prefix"
    <3>1. op' = [o EXCEPT !.todo = t] /\ pc' = "prefix"
      BY <1>6 DEF DeletePrefix
    <3>2. op'.kind = "DeletePrefix" /\ op'.key = NoKey /\ op'.todo = t
      <4> HIDE DEF o, t
      <4> QED BY <2>2, <3>1 DEF OpRecords
    <3> QED BY <3>1, <3>2
  <2>4. RoleOK'
    BY <1>2, <2>3 DEF RoleOK, Writing
  <2>5. Cause(P)'
    BY <1>1, <2>3 DEF Cause
  <2> QED BY <1>1, <1>3, <2>4, <2>5, NothingTakenYet
<1>7. ASSUME NEW s \in Samples, EvaluateMemoryPressure(s)
      PROVE  ContractInv'
  <2>1. "Evaluate" \in Ops /\ NoKey \in Keys \cup {NoKey} /\ 0 \in Nat
    BY DEF Ops
  <2> DEFINE o == Begin("Evaluate", NoKey, 0, s)
  <2>2. op'.kind = "Evaluate" /\ op'.key = NoKey /\ pc' = "reclaim"
    <3>1. o.kind = "Evaluate" /\ o.key = NoKey
      BY <2>1, BeginFields
    <3>2. op' = o /\ pc' = "reclaim"
      BY <1>7 DEF EvaluateMemoryPressure
    <3> QED BY <3>1, <3>2
  <2>3. RoleOK'
    BY <1>2, <2>2 DEF RoleOK, Writing
  <2>4. Cause({})'
    BY <1>2, <2>2 DEF Cause
  <2> QED BY <1>1, <1>3, <2>2, <2>3, <2>4, NothingTakenYet
<1> QED BY <1>5, <1>6, <1>7 DEF Entry

\* Delete, and a Replace that evicts its own entry, erase it as they start.
LEMMA ErasureStarts ==
    ASSUME IndInv, ContractInv, NEW k \in Keys, NEW s \in Samples,
           \/ Delete(k, s)
           \/ \E w \in Weights : ReplaceSelfEvict(k, w, s)
    PROVE  ContractInv'
<1>1. PICK r : BeganErasing(k, r)
  BY FirstErasure
<1>2. /\ op'.key = k
      /\ op'.kind = "Delete" \/ (op'.kind = "Replace" /\ op'.newSize \in Weights)
      /\ op'.kind = "Delete" => ~op'.selfEvicted
      /\ op'.kind = "Replace" => op'.selfEvicted
  <2>1. CASE Delete(k, s)
    <3>1. "Delete" \in Ops /\ k \in Keys \cup {NoKey} /\ 0 \in Nat
      BY DEF Ops
    <3> DEFINE o == Begin("Delete", k, 0, s)
    <3>2. o \in OpRecords /\ Fresh(o) /\ o.kind = "Delete" /\ o.key = k
      BY <3>1, BeginFields
    <3>3. op' = Enqueue(o, k, "Deleted")
      BY <2>1 DEF Delete, EraseEntryLocked
    <3>4. Kept(o, op')
      BY <3>2, <3>3, EnqueueFields
    <3>5. ~op'.selfEvicted /\ op'.kind = "Delete" /\ op'.key = k
      <4> HIDE DEF o
      <4> QED BY <3>2, <3>4 DEF Kept, Fresh
    <3> QED BY <3>5
  <2>2. CASE \E w \in Weights : ReplaceSelfEvict(k, w, s)
    BY <2>2, FirstErasure
  <2> QED BY <2>1, <2>2
<1>3. PICK p, o : EraseEntryLocked(k, r, p, o)
  BY <1>1 DEF BeganErasing
<1>4. /\ index' = index \ {k} /\ entries' = Remove(entries, k)
      /\ size' = [size EXCEPT ![k] = 0] /\ k \in index
      /\ op'.before = entries /\ op'.sizesBefore = size /\ op'.protected = NoKey
      /\ pc' = "deleted"
  BY <1>1, <1>3 DEF EraseEntryLocked, BeganErasing
<1>5. /\ Linked(entries) /\ FirstKeys(entries, Len(entries)) = index
      /\ index \in SUBSET Keys /\ size \in Sizes
  BY InvLinked, InvWeights
<1>6. BeforeKeys' = index
  BY <1>4, <1>5 DEF BeforeKeys
<1>7. RoleOK'
  BY <1>2, <1>4, <1>5, <1>6 DEF RoleOK, Writing
<1>8. SizesOK'
  BY <1>4, <1>5, KeysAssumption DEF SizesOK, Sizes
<1>9. ListOrder(entries, op.before, Lifted)'
  <2>1. PICK c \in 1..Len(entries) : entries[c] = k
    BY <1>4, InvWeights
  <2> QED BY <1>4, <1>5, <2>1, OwnOrder, RemoveKeepsOrder
<1>10. PassedOver'
  BY <1>4 DEF PassedOver
<1>11. Cause({k})' /\ OldestLeft({k})'
  BY <1>2, <1>4, <1>6 DEF Cause, OldestLeft
<1>12. \A j \in Keys \ index' : size'[j] = 0
  BY <1>4, <1>5 DEF ContractInv, Sizes
<1> QED BY <1>7, <1>8, <1>9, <1>10, <1>11, <1>12 DEF ContractInv

-----------------------------------------------------------------------------
(* Writing the entry, settling, and operations that are one step           *)

\* An update or a Replace stores the new weight where the entry stands.
LEMMA StoreContinues ==
    ASSUME IndInv, NotifyInv, ContractInv, UpdateStore \/ ReplaceStore
    PROVE  ContractInv'
<1>1. /\ op' \in OpRecords /\ Kept(op, op') /\ op'.protected = op.key
      /\ pc \in {"update", "grow"} /\ pc' \in {"reclaim", "unlock"}
      /\ entries' = entries /\ index' = index /\ op.key \in index
      /\ op.key \in Keys
      /\ size' = [size EXCEPT ![op.key] = op.newSize]
  BY StoreForm
<1>2. RoleOK /\ SizesOK /\ ListOrder(entries, op.before, Lifted)
  BY <1>1 DEF ContractInv
<1>3. PICK X : Cause(X) /\ OldestLeft(X)
  BY <1>1 DEF ContractInv
<1>4. Writing' = Writing /\ Lifted' = Lifted /\ BeforeKeys' = BeforeKeys
  BY <1>1 DEF Writing, Lifted, BeforeKeys, Kept
<1>5. Writing
  BY <1>1, <1>2 DEF RoleOK
<1>6. RoleOK'
  BY <1>1, <1>2, <1>4, <1>5 DEF RoleOK, Kept
<1>7. op.protected = NoKey /\ size \in Sizes /\ index \in SUBSET Keys
  BY <1>1, InvWeights, InvLinked DEF NotifyInv
<1>8. SizesOK'
  BY <1>1, <1>2, <1>7, KeysAssumption DEF SizesOK, Kept, Sizes
<1>9. \A k \in Keys \ index' : size'[k] = 0
  BY <1>1, <1>7 DEF ContractInv, Sizes
<1>10. ListOrder(entries, op.before, Lifted)'
  BY <1>1, <1>2, <1>4 DEF Kept
<1>11. PassedOver' /\ Cause(X)' /\ OldestLeft(X)'
  BY <1>1, <1>3, <1>4 DEF PassedOver, Cause, OldestLeft, Kept
<1> QED BY <1>6, <1>8, <1>9, <1>10, <1>11 DEF ContractInv

\* An insert puts the new entry in front of what is left.
LEMMA InsertContinues ==
    ASSUME IndInv, NotifyInv, ContractInv, InsertStore
    PROVE  ContractInv'
<1>1. /\ op' \in OpRecords /\ Kept(op, op') /\ op'.protected = op.key
      /\ pc = "insert" /\ pc' \in {"reclaim", "unlock"}
      /\ op.key \in Keys /\ op.key \notin index
      /\ entries' = PushFront(entries, op.key)
      /\ index' = index \cup {op.key}
      /\ size' = [size EXCEPT ![op.key] = op.newSize]
      /\ Len(entries') = Len(entries) + 1
  BY InsertForm
<1>2. RoleOK /\ SizesOK /\ ListOrder(entries, op.before, Lifted)
  BY <1>1 DEF ContractInv
<1>3. PICK X : Cause(X) /\ OldestLeft(X)
  BY <1>1 DEF ContractInv
<1>4. /\ op.protected = NoKey /\ size \in Sizes /\ index \in SUBSET Keys
      /\ Linked(entries) /\ FirstKeys(entries, Len(entries)) = index
      /\ Len(entries) \in Nat /\ op.key \notin BeforeKeys
  BY <1>1, InvWeights, InvLinked DEF NotifyInv
<1>5. /\ op.kind = "Put" /\ Writing /\ Writing' = Writing /\ Lifted' = Lifted
      /\ Lifted = op.key /\ BeforeKeys' = BeforeKeys
  BY <1>1, <1>2 DEF Writing, Lifted, BeforeKeys, Kept, RoleOK
<1>6. entries'[1] = op.key
  BY <1>1, <1>4, PushFrontLinks
<1>7. RoleOK'
  BY <1>1, <1>2, <1>4, <1>5, <1>6 DEF RoleOK, Kept
<1>8. SizesOK'
  BY <1>1, <1>2, <1>4, KeysAssumption DEF SizesOK, Kept, Sizes
<1>9. \A k \in Keys \ index' : size'[k] = 0
  BY <1>1, <1>4 DEF ContractInv, Sizes
<1>10. ListOrder(entries, op.before, Lifted)'
  <2>1. ListOrder(PushFront(entries, op.key), op.before, op.key)
    BY <1>2, <1>4, <1>5, PushKeepsOrder
  <2> QED BY <1>1, <1>5, <2>1 DEF Kept
<1>11. Cause(X)'
  BY <1>1, <1>3, <1>5 DEF Cause, Kept, Writing
<1>12. OldestLeft(X)' /\ PassedOver'
  BY <1>1, <1>3, <1>5, <1>4 DEF OldestLeft, PassedOver, Kept
<1> QED BY <1>7, <1>8, <1>9, <1>10, <1>11, <1>12 DEF ContractInv

\* The stages between the last erasure and the unlock change nothing of the kind;
\* the shedding loop, when it passes an entry over, has a reason that lasts.
LEMMA SettlingContinues ==
    ASSUME IndInv, NotifyInv, ContractInv, Settling
    PROVE  ContractInv'
<1>1. /\ op' \in OpRecords /\ Kept(op, op') /\ op'.protected = op.protected
      /\ UNCHANGED <<entries, index, size, currentSize>>
  BY SettlingForm
<1>2. /\ pc \in {"prefix", "deleted", "reclaim", "shed", "completeShed", "finish"}
      /\ pc' \in {"deleted", "reclaim", "shed", "completeShed", "finish", "unlock"}
      /\ pc' = "deleted" => pc = "prefix"
      /\ pc = "prefix" => PrefixDone
      /\ pc' = "shed" => ReclaimTier2 \/ ShedSkip
  BY DEF Settling, Reclaiming, Moving, FinishDeleteEmpty, CompleteShedEmpty,
     FinishDelete, ReclaimTier1, CompleteShed, FinishMutation, PrefixDone,
     ReclaimTier2, ShedSkip, ShedStop, FinishDeleteReclaim, AfterReclaim
<1>3. RoleOK /\ SizesOK /\ ListOrder(entries, op.before, Lifted) /\ PassedOver
      /\ \A k \in Keys \ index : size[k] = 0
  BY <1>2 DEF ContractInv
<1>4. PICK X : Cause(X) /\ OldestLeft(X)
  BY <1>2 DEF ContractInv
<1>5. Writing' = Writing /\ Lifted' = Lifted /\ BeforeKeys' = BeforeKeys
  BY <1>1 DEF Writing, Lifted, BeforeKeys, Kept
<1>6. RoleOK'
  BY <1>1, <1>2, <1>3, <1>5 DEF RoleOK, Kept
<1>7. SizesOK' /\ ListOrder(entries, op.before, Lifted)'
      /\ \A k \in Keys \ index' : size'[k] = 0
  BY <1>1, <1>3, <1>5 DEF SizesOK, Kept
<1>8. Cause(X)'
  <2>1. X \cap index = {}
    BY <1>2, <1>4 DEF Cause, PrefixDone
  <2> QED BY <1>1, <1>2, <1>4, <2>1 DEF Cause, Kept
<1>9. OldestLeft(X)'
  BY <1>1, <1>4, <1>5 DEF OldestLeft, Kept
<1>10. PassedOver'
  <2>1. CASE pc' # "shed"
    BY <2>1 DEF PassedOver
  <2>2. CASE ReclaimTier2
    <3>1. op \in OpRecords /\ Len(entries) \in Nat
      BY CallTypes
    <3> DEFINE t == ComputeShedTargets(ps, Len(entries), HasProtected, ProtectedSize)
               n == Len(entries)
    <3>2. op' = [op EXCEPT !.targets = t, !.cursor = n]
      BY <2>2 DEF ReclaimTier2
    <3>3. op'.cursor = n
      <4> HIDE DEF t, n
      <4> QED BY <3>1, <3>2 DEF OpRecords
    <3> QED BY <1>1, <3>1, <3>3 DEF PassedOver
  <2>3. CASE ShedSkip
    <3>1. op \in OpRecords /\ op.cursor \in Nat /\ op.cursor > 0
      BY <2>3, CallTypes, SheddingNumbers DEF ShedSkip, ShedContinues
    <3> DEFINE n == op.cursor - 1
    <3>2. op' = [op EXCEPT !.cursor = n] /\ n \in Nat
      BY <2>3, <3>1 DEF ShedSkip
    <3>3. op'.cursor = n /\ op'.targets = op.targets
      <4> HIDE DEF n
      <4> QED BY <3>1, <3>2 DEF OpRecords
    <3>4. pc = "shed" /\ ps' = ps /\ ~ShedTakesVictim
      BY <2>3 DEF ShedSkip
    <3> DEFINE v == entries[op.cursor]
    <3>5. op.cursor \in 1..Len(entries) /\ v \in Keys
      BY <3>1, <3>4, InvLinked DEF IndInv, Shape
    <3>6. v # op.protected =>
            IF size[v] > 0
            THEN ~NeedByteShed(currentSize, op.targets)
            ELSE ~FullFlush /\ ps.zeroSizeCount <= op.targets.zero
      <4>1. size[v] \in Nat
        BY <3>5, SheddingNumbers
      <4>2. ASSUME v # op.protected
            PROVE  /\ ~FullFlush
                   /\ NeedByteShed(currentSize, op.targets) =>
                        ~(ps.zeroSizeCount > op.targets.zero) /\ ~(size[v] > 0)
                   /\ ~NeedByteShed(currentSize, op.targets) => size[v] # 0
        BY <3>4, <4>2 DEF ShedTakesVictim, ShouldEvictShedVictim
      <4> QED BY <4>1, <4>2, SheddingNumbers
    <3>7. \A i \in (n + 1)..Len(entries) :
            i = op.cursor \/ i \in (op.cursor + 1)..Len(entries)
      BY <3>1, InvLinked
    <3> QED BY <1>1, <1>3, <3>3, <3>4, <3>6, <3>7 DEF PassedOver
  <2> QED BY <1>2, <2>1, <2>2, <2>3
<1> QED BY <1>6, <1>7, <1>8, <1>9, <1>10 DEF ContractInv

\* DeletePrefix("") takes everything.
LEMMA DeleteAllTakesAll ==
    ASSUME IndInv, ContractInv, NEW s \in Samples, DeleteAll(s)
    PROVE  ContractInv' /\ op'.sizesBefore = size /\ op'.before = entries
<1>1. /\ op' \in OpRecords /\ op'.kind = "DeleteAll" /\ op'.before = entries
      /\ op'.protected = NoKey /\ ~op'.selfEvicted
      /\ pc = "idle" /\ pc' = "unlock" /\ entries' = <<>> /\ index' = {}
  BY DeleteAllForm
<1>2. size' = [k \in Keys |-> 0]
  BY DEF DeleteAll
<1>3. op'.sizesBefore = size
  <2> DEFINE b == Begin("DeleteAll", NoKey, 0, s)
             q == [i \in 1..Len(entries) |-> [key |-> entries[i], reason |-> "Deleted"]]
             o == [b EXCEPT !.evictQ = q]
  <2>1. PICK recorded, marked :
          op' = MarkReclaimed(RecordCompaction(o, recorded), marked)
    BY Zenon DEF DeleteAll
  <2>2. b \in OpRecords /\ Fresh(b)
    BY BeginFields DEF Ops
  <2>3. q \in Seq(Events)
    <3>1. \A i \in 1..Len(entries) : entries[i] \in Keys
      BY InvLinked
    <3>2. Len(entries) \in Nat
      BY InvLinked
    <3>3. \A i \in 1..Len(entries) :
            [key |-> entries[i], reason |-> "Deleted"] \in Events
      BY <3>1 DEF Events, Reasons
    <3> QED BY <3>2, <3>3
  <2>4. o \in OpRecords /\ o.sizesBefore = size
    <3> HIDE DEF b, q
    <3> QED BY <2>2, <2>3 DEF OpRecords, Fresh
  <2>5. Kept(o, op')
    <3> HIDE DEF o
    <3> QED BY <2>1, <2>4, MarkedFields
  <2> QED
    <3> HIDE DEF o
    <3> QED BY <2>4, <2>5 DEF Kept
<1>4. Linked(entries) /\ Len(<<>>) = 0
  BY InvLinked
<1>5. RoleOK'
  BY <1>1, <1>4 DEF RoleOK, Writing
<1>6. SizesOK' /\ ListOrder(entries, op.before, Lifted)' /\ PassedOver'
  BY <1>1, <1>4 DEF SizesOK, ListOrder, PassedOver
<1>7. Cause(Keys)' /\ OldestLeft(Keys)'
  BY <1>1 DEF Cause, OldestLeft
<1> QED BY <1>1, <1>2, <1>3, <1>5, <1>6, <1>7 DEF ContractInv

\* The invariant holds of the empty cache, before any operation.
LEMMA ContractInit ==
    ASSUME Init
    PROVE  ContractInv
  BY DEF Init, ContractInv

\* Every step keeps what the contract rests on.
LEMMA ContractKeeps ==
    ASSUME IndInv, NotifyInv, ContractInv, [Next]_vars
    PROVE  ContractInv'
<1>1. CASE Erasure
  BY <1>1, CapacityTakesOldest, SheddingTakesOldest, PrefixTakesItsOwn,
     ErasureStarts DEF Erasure
<1>2. CASE Entry
  BY <1>2, EntryStarts
<1>3. CASE Settling
  BY <1>3, SettlingContinues
<1>4. CASE \E k \in Keys, w \in Weights, s \in Samples : PutExisting(k, w, s)
  BY <1>4, PutExistingStarts
<1>5. CASE UpdateStore \/ InsertStore \/ ReplaceStore
  BY <1>5, StoreContinues, InsertContinues
<1>6. CASE \E s \in Samples : DeleteAll(s)
  BY <1>6, DeleteAllTakesAll
<1>7. ASSUME pc' = "idle", index' = index, size' = size
      PROVE  ContractInv'
  BY <1>7 DEF ContractInv
<1>8. CASE \/ Unlock \/ Compact \/ \E k \in Keys : Get(k)
           \/ \E s \in Samples : MissUnderLock(s)
  BY <1>7, <1>8 DEF Unlock, Compact, Get, MissUnderLock
<1>9. CASE UNCHANGED vars
  <2>1. UNCHANGED <<entries, index, size, currentSize, ps, pc, op>>
    BY <1>9 DEF vars
  <2>2. BeforeKeys' = BeforeKeys /\ Writing' = Writing /\ Lifted' = Lifted
    BY <2>1 DEF BeforeKeys, Writing, Lifted
  <2>3. RoleOK => RoleOK'
    BY <2>1, <2>2 DEF RoleOK
  <2>4. SizesOK => SizesOK'
    BY <2>1 DEF SizesOK
  <2>5. ListOrder(entries, op.before, Lifted) => ListOrder(entries, op.before, Lifted)'
    BY <2>1, <2>2
  <2>6. PassedOver => PassedOver'
    BY <2>1 DEF PassedOver
  <2>7. \A X : Cause(X) /\ OldestLeft(X) => Cause(X)' /\ OldestLeft(X)'
    BY <2>1, <2>2 DEF Cause, OldestLeft
  <2> QED BY <2>1, <2>3, <2>4, <2>5, <2>6, <2>7 DEF ContractInv
<1> QED BY <1>1, <1>2, <1>3, <1>4, <1>5, <1>6, <1>8, <1>9, StepKinds DEF Settling

-----------------------------------------------------------------------------
(* The refinement                                                          *)

\* While the lock is held the contents are those the operation found.
LEMMA HeldContents ==
    ASSUME pc # "idle"
    PROVE  /\ Promise!Cached = BeforeKeys
           /\ \A a, b : Promise!Older(a, b) <=>
                \E i, j \in 1..Len(op.before) :
                   i > j /\ op.before[i] = a /\ op.before[j] = b
           /\ \A a, b : Promise!SameClass(a, b) <=>
                ((op.sizesBefore[a] = 0) <=> (op.sizesBefore[b] = 0))
BY DEF Promise!Cached, Promise!Older, Promise!SameClass, BeforeKeys, FirstKeys

\* In a list that links each key once, older means at a higher position.
LEMMA OlderByPosition ==
    ASSUME pc # "idle", Linked(op.before), NEW a \in BeforeKeys, NEW b \in BeforeKeys
    PROVE  Promise!Older(a, b) <=> Position(op.before, b) < Position(op.before, a)
<1>1. op.before \in Seq(Keys) /\ Len(op.before) \in Nat
  BY DEF Linked
<1>2. /\ Position(op.before, a) \in 1..Len(op.before)
      /\ op.before[Position(op.before, a)] = a
      /\ Position(op.before, b) \in 1..Len(op.before)
      /\ op.before[Position(op.before, b)] = b
  BY <1>1, PositionFound DEF BeforeKeys
<1> QED BY <1>1, <1>2, HeldContents DEF Linked

\* The units of all the weights are the cells of the entries.
LEMMA TotalIsCurrentSize ==
    ASSUME IndInv, pc # "update", \A k \in Keys \ index : size[k] = 0
    PROVE  Promise!Total(size) = currentSize
<1>1. /\ index \in SUBSET Keys /\ size \in Sizes /\ MaxSize \in Nat
      /\ currentSize = TotalWeight(index, size)
  BY InvLinked, InvWeights, InvParity
<1> DEFINE U == UNION {{k} \X (1..size[k]) : k \in Keys}
<1>2. U = Cells(index, size)
  <2>1. ASSUME NEW x \in U
        PROVE  x \in Cells(index, size)
    <3>1. PICK k \in Keys : x \in {k} \X (1..size[k])
      OBVIOUS
    <3>2. PICK u \in 1..size[k] : x = <<k, u>>
      BY <3>1
    <3>3. size[k] \in Nat /\ size[k] <= MaxSize /\ k \in index
      BY <1>1, <3>2 DEF Sizes
    <3> QED BY <1>1, <3>2, <3>3 DEF Cells
  <2>2. ASSUME NEW x \in Cells(index, size)
        PROVE  x \in U
    <3>1. PICK k \in index, u \in 1..MaxSize : x = <<k, u>> /\ u <= size[k]
      BY <2>2 DEF Cells
    <3>2. size[k] \in Nat /\ k \in Keys
      BY <1>1 DEF Sizes
    <3>3. u \in 1..size[k]
      BY <1>1, <3>1, <3>2
    <3>4. x \in {k} \X (1..size[k])
      BY <3>1, <3>3
    <3> QED BY <3>2, <3>4
  <2> QED BY <2>1, <2>2
<1>3. Promise!Total(size) = Cardinality(U)
  BY Zenon DEF Promise!Total, Promise!Cardinality, Cardinality
<1> HIDE DEF U
<1> QED BY <1>1, <1>2, <1>3 DEF TotalWeight

\* At the unlock the list is arranged as the contract says.
LEMMA UnlockArranged ==
    ASSUME IndInv, NotifyInv, ContractInv, pc = "unlock"
    PROVE  Promise!Arranged(entries, index, IF op.kind = "Put" THEN {op.key} ELSE {})
<1> DEFINE top == IF op.kind = "Put" THEN {op.key} ELSE {}
<1>1. /\ RoleOK /\ ListOrder(entries, op.before, Lifted)
      /\ index \subseteq BeforeKeys \cup {op.protected}
  BY DEF ContractInv, NotifyInv
<1>2. /\ Linked(entries) /\ FirstKeys(entries, Len(entries)) = index
      /\ index \in SUBSET Keys /\ Len(entries) \in Nat
      /\ \A i \in 1..Len(entries) : entries[i] \in index
  BY InvLinked
<1>3. entries \in Seq(index)
  BY <1>2 DEF Linked
<1>4. index \subseteq {entries[i] : i \in 1..Len(entries)}
  BY <1>2 DEF FirstKeys
<1>5. op.selfEvicted => op.kind = "Replace"
  BY <1>1 DEF RoleOK
<1>6. \A k \in index : k = Lifted \/ k \in BeforeKeys
  BY <1>1, <1>2, KeysAssumption DEF RoleOK, Lifted, Writing
<1>7. ASSUME NEW i \in 1..Len(entries), NEW j \in 1..Len(entries), i < j
      PROVE  /\ entries[j] \notin top
             /\ entries[i] \in top \/ Promise!Older(entries[j], entries[i])
  <2>1. entries[j] \notin top /\ entries[j] # Lifted
    <3>1. CASE op.kind = "Put"
      <4>1. entries[1] = op.key
        BY <1>1, <1>5, <3>1 DEF RoleOK, Writing
      <4>2. entries[j] # op.key
        BY <1>2, <1>7, <4>1 DEF Linked
      <4> QED BY <3>1, <4>2 DEF Lifted
    <3>2. CASE op.kind # "Put"
      BY <1>2, <3>2, KeysAssumption DEF Lifted
    <3> QED BY <3>1, <3>2
  <2>2. ASSUME entries[i] \notin top
        PROVE  Promise!Older(entries[j], entries[i])
    <3>1. entries[i] # Lifted
      BY <1>2, <2>2, KeysAssumption DEF Lifted
    <3>2. entries[i] \in BeforeKeys /\ entries[j] \in BeforeKeys
      BY <1>2, <1>6, <2>1, <3>1
    <3>3. Position(op.before, entries[i]) < Position(op.before, entries[j])
      BY <1>1, <1>7, <2>1, <3>1 DEF ListOrder
    <3> QED BY <1>1, <3>2, <3>3, OlderByPosition DEF RoleOK
  <2> QED BY <2>1, <2>2
<1> QED BY <1>3, <1>4, <1>7 DEF Promise!Arranged

\* What left unasked is what the contract lets go.
LEMMA UnlockEvictable ==
    ASSUME IndInv, NotifyInv, ContractInv, pc = "unlock", NEW X, OldestLeft(X),
           NEW kept, kept \cap index \subseteq {op.key},
           \/ X = {} /\ op.key \in kept
           \/ kept = X /\ (op.key \in X \/ op.key \notin index)
    PROVE  Promise!Evictable((BeforeKeys \ index) \ X, kept)
<1> DEFINE S == (BeforeKeys \ index) \ X
<1>1. RoleOK
  BY DEF ContractInv
<1>2. SUFFICES ASSUME NEW a \in S, NEW b \in BeforeKeys \ kept,
                      Promise!Older(b, a), Promise!SameClass(a, b), b \notin S
               PROVE  FALSE
  BY HeldContents DEF Promise!Evictable
<1>3. Position(op.before, a) < Position(op.before, b)
  BY <1>1, <1>2, OlderByPosition DEF RoleOK
<1>4. b \in (BeforeKeys \cap index) \ {op.key}
  BY <1>2
<1> QED BY <1>2, <1>3, <1>4, HeldContents DEF OldestLeft

\* The refinement's variables after the unlock.
LEMMA UnlockSettles ==
    ASSUME IndInv, NotifyInv, ContractInv, Unlock, NEW kept, kept = index,
           NEW top, top = IF op.kind = "Put" THEN {op.key} ELSE {},
           NEW weights \in [Keys -> Nat],
           \A k \in index : size[k] = weights[k]
    PROVE  Promise!Settle(kept, top, weights)
<1>1. pc = "unlock" /\ pc' = "idle" /\ UNCHANGED <<entries, index, size, currentSize>>
  BY DEF Unlock
<1>2. Promise!Arranged(entries, kept, top)
  BY <1>1, UnlockArranged
<1>3. size = [k \in Keys |-> IF k \in kept THEN weights[k] ELSE 0]
  <2>1. size \in [Keys -> 0..MaxSize]
    BY DEF IndInv, TypeOK
  <2> QED BY <2>1, InvLinked DEF ContractInv
<1>4. Promise!Total(size) <= MaxSize
  <2>1. Promise!Total(size) = currentSize
    BY <1>1, TotalIsCurrentSize DEF ContractInv
  <2> QED BY <2>1 DEF IndInv, CapacityBound
<1>5. (IF pc = "idle" THEN entries ELSE op.before)' = entries
  BY <1>1
<1>6. (IF pc = "idle" THEN size ELSE op.sizesBefore)' = size
  BY <1>1
<1> QED BY <1>2, <1>3, <1>4, <1>5, <1>6 DEF Promise!Settle

\* Each operation, when it unlocks, is an operation of the contract.
LEMMA UnlockRefines ==
    ASSUME IndInv, NotifyInv, ContractInv, Unlock
    PROVE  Promise!Next
<1>1. pc = "unlock"
  BY DEF Unlock
<1>2. /\ RoleOK /\ SizesOK /\ index \subseteq BeforeKeys \cup {op.protected}
      /\ index \in SUBSET Keys /\ op \in OpRecords
  BY <1>1, InvLinked, CallTypes DEF ContractInv, NotifyInv
<1>3. PICK X : Cause(X) /\ OldestLeft(X)
  BY <1>1 DEF ContractInv
<1>4. X \cap index = {}
  BY <1>1, <1>3 DEF Cause
<1>5. Promise!Cached = BeforeKeys /\ op.sizesBefore \in [Keys -> Nat]
  BY <1>1, <1>2, HeldContents DEF OpRecords
<1> DEFINE S == (BeforeKeys \ index) \ X
<1>6. CASE Writing
  <2>1. /\ X = {} /\ op.key \in index /\ op.protected = op.key
        /\ op.key \in Keys /\ op.newSize \in Weights
    BY <1>1, <1>2, <1>3, <1>6 DEF Cause, RoleOK, Writing
  <2> DEFINE weights == [op.sizesBefore EXCEPT ![op.key] = op.newSize]
  <2>2. weights \in [Keys -> Nat] /\ \A k \in index : size[k] = weights[k]
    BY <1>2, <1>5, <2>1, CallTypes DEF SizesOK
  <2>3. Promise!Evictable(S, {op.key})
    BY <1>1, <1>3, <2>1, UnlockEvictable
  <2>4. S \in SUBSET (Promise!Cached \ {op.key})
    BY <1>5, <2>1
  <2>5. CASE op.kind = "Put"
    <3>1. (Promise!Cached \ S) \cup {op.key} = index
      BY <1>2, <1>5, <2>1
    <3>2. Promise!Settle((Promise!Cached \ S) \cup {op.key}, {op.key}, weights)
      BY <2>2, <2>5, <3>1, UnlockSettles
    <3>3. Promise!Put(op.key, op.newSize)
      BY <1>1, <2>3, <2>4, <3>2 DEF Promise!Put
    <3> QED BY <2>1, <3>3 DEF Promise!Next
  <2>6. CASE op.kind = "Replace"
    <3>1. op.key \in BeforeKeys
      BY <1>2, <1>6, <2>6 DEF RoleOK
    <3>2. Promise!Cached \ S = index
      BY <1>2, <1>5, <2>1, <3>1
    <3>3. Promise!Settle(Promise!Cached \ S, {}, weights)
      BY <2>2, <2>6, <3>2, UnlockSettles
    <3>4. Promise!Replace(op.key, op.newSize)
      BY <1>1, <1>5, <2>3, <2>4, <3>1, <3>3 DEF Promise!Replace
    <3> QED BY <2>1, <3>4 DEF Promise!Next
  <2> QED BY <1>6, <2>5, <2>6 DEF Writing
<1>7. CASE ~Writing
  <2>1. op.protected = NoKey /\ op.kind # "Put"
    BY <1>2, <1>7 DEF RoleOK, Writing
  <2>2. index \subseteq BeforeKeys
    BY <1>2, <2>1, KeysAssumption
  <2>3. \A k \in index : size[k] = op.sizesBefore[k]
    BY <1>2, <2>1, KeysAssumption DEF SizesOK
  <2>4. op.key \in X \/ op.key \notin index
    BY <1>2, <1>3, <1>4, <1>7, KeysAssumption DEF Cause, RoleOK, Writing
  <2>5. Promise!Evictable(S, X)
    BY <1>1, <1>3, <1>4, <2>4, UnlockEvictable
  <2>6. S \in SUBSET (Promise!Cached \ X)
    BY <1>5
  <2>7. Promise!Cached \ (X \cup S) = index
    BY <1>4, <1>5, <2>2
  <2>8. Promise!Settle(Promise!Cached \ (X \cup S), {}, op.sizesBefore)
    BY <1>5, <2>1, <2>3, <2>7, UnlockSettles
  <2>9. Promise!Discard(X)
    BY <1>1, <2>5, <2>6, <2>8 DEF Promise!Discard
  <2>10. \/ \E k \in Keys : X = {k}
         \/ X \in Prefixes \cup {Keys}
         \/ X = {}
    BY <1>3 DEF Cause
  <2> QED BY <2>9, <2>10 DEF Promise!Next
<1> QED BY <1>6, <1>7

\* Get takes effect at once: the entry moves to the front, the others keep their
\* order.
LEMMA GetRefines ==
    ASSUME IndInv, NEW k \in Keys, Get(k)
    PROVE  Promise!Get(k)
<1>1. /\ pc = "idle" /\ pc' = "idle" /\ k \in index
      /\ entries' = MoveToFront(entries, k) /\ size' = size
  BY DEF Get
<1>2. /\ Linked(entries) /\ FirstKeys(entries, Len(entries)) = index
      /\ Len(entries) \in Nat /\ index \in SUBSET Keys
      /\ \A i \in 1..Len(entries) : entries[i] \in index
  BY InvLinked
<1>3. PICK c \in 1..Len(entries) : entries[c] = k
  BY <1>1, InvWeights
<1>4. Promise!Cached = index
  BY <1>1, <1>2 DEF Promise!Cached, FirstKeys
<1>5. \A a, b : Promise!Older(a, b) <=>
        \E i, j \in 1..Len(entries) : i > j /\ entries[i] = a /\ entries[j] = b
  BY <1>1 DEF Promise!Older
<1>6. /\ Linked(entries') /\ Len(entries') = Len(entries) /\ entries'[1] = k
      /\ FirstKeys(entries', Len(entries')) = index
  BY <1>1, <1>2, MoveToFrontLinks
<1>7. ListOrder(entries', entries, k)
  <2>1. ListOrder(Remove(entries, k), entries, k)
        /\ Len(Remove(entries, k)) = Len(entries) - 1
    BY <1>2, <1>3, OwnOrder, RemoveKeepsOrder
  <2>2. Len(Remove(entries, k)) \in Nat
    BY <1>2, <1>3, <2>1
  <2> QED BY <1>1, <2>1, <2>2, PushKeepsOrder DEF MoveToFront
<1>8. \A i \in 1..Len(entries') : entries'[i] \in index
  BY <1>6 DEF FirstKeys
<1>9. entries' \in Seq(index) /\ index \subseteq {entries'[i] : i \in 1..Len(entries')}
  BY <1>6, <1>8 DEF Linked, FirstKeys
<1>10. ASSUME NEW i \in 1..Len(entries'), NEW j \in 1..Len(entries'), i < j
       PROVE  /\ entries'[j] \notin {k}
              /\ entries'[i] \in {k} \/ Promise!Older(entries'[j], entries'[i])
  <2>1. entries'[j] # k
    BY <1>2, <1>6, <1>10 DEF Linked
  <2>2. ASSUME entries'[i] # k
        PROVE  Promise!Older(entries'[j], entries'[i])
    <3>1. Position(entries, entries'[i]) < Position(entries, entries'[j])
      BY <1>7, <1>10, <2>1, <2>2 DEF ListOrder
    <3>2. /\ Position(entries, entries'[i]) \in 1..Len(entries)
          /\ entries[Position(entries, entries'[i])] = entries'[i]
          /\ Position(entries, entries'[j]) \in 1..Len(entries)
          /\ entries[Position(entries, entries'[j])] = entries'[j]
      BY <1>2, <1>8, PositionFound DEF Linked
    <3> QED BY <1>2, <1>5, <3>1, <3>2
  <2> QED BY <2>1, <2>2
<1>11. Promise!Arranged(entries', index, {k})
  BY <1>9, <1>10 DEF Promise!Arranged
<1> QED BY <1>1, <1>4, <1>11 DEF Promise!Get

\* Taking the lock and working under it change nothing the contract can see.
LEMMA WorkIsInvisible ==
    ASSUME IndInv, ContractInv, [Next]_vars, ~Unlock,
           ~\E k \in Keys : Get(k)
    PROVE  UNCHANGED Promise!vars
<1>1. ASSUME pc = "idle", pc' # "idle", op'.before = entries, op'.sizesBefore = size
      PROVE  UNCHANGED Promise!vars
  BY <1>1 DEF Promise!vars
<1>2. ASSUME pc # "idle", pc' # "idle", Kept(op, op')
      PROVE  UNCHANGED Promise!vars
  BY <1>2 DEF Promise!vars, Kept
<1>3. CASE UNCHANGED vars
  BY <1>3 DEF vars, Promise!vars
<1>4. CASE Compact \/ \E s \in Samples : MissUnderLock(s)
  BY <1>4 DEF Compact, MissUnderLock, Promise!vars
<1>5. CASE Entry
  BY <1>1, <1>5, EntryForm, EntryLocals DEF Fresh
<1>6. CASE \E k \in Keys, w \in Weights, s \in Samples : PutExisting(k, w, s)
  BY <1>1, <1>6, PutExistingForm DEF Fresh
<1>7. CASE \E s \in Samples : DeleteAll(s)
  BY <1>1, <1>7, DeleteAllForm, DeleteAllTakesAll
<1>8. CASE Settling
  <2>1. pc # "idle" /\ pc' # "idle"
    BY <1>8 DEF Settling, Reclaiming, Moving, FinishDeleteEmpty, CompleteShedEmpty,
       FinishDelete, ReclaimTier1, CompleteShed, FinishMutation, PrefixDone,
       ReclaimTier2, ShedSkip, ShedStop, FinishDeleteReclaim, AfterReclaim
  <2> QED BY <1>2, <1>8, <2>1, SettlingForm
<1>9. CASE UpdateStore \/ ReplaceStore \/ InsertStore
  BY <1>2, <1>9, StoreForm, InsertForm
<1>10. CASE Erasure
  <2>1. CASE UpdateEvict \/ InsertEvict \/ ReplaceEvict
    BY <1>2, <2>1, CapacityErasure DEF Evicts
  <2>2. CASE ShedEvict
    BY <1>2, <2>2, ShedErasure DEF Evicts
  <2>3. CASE \E k \in Keys : PrefixErase(k)
    BY <1>2, <2>3, PrefixErasure DEF Evicts
  <2>4. ASSUME NEW k \in Keys, NEW s \in Samples,
               \/ Delete(k, s)
               \/ \E w \in Weights : ReplaceSelfEvict(k, w, s)
        PROVE  UNCHANGED Promise!vars
    <3>1. \E r : BeganErasing(k, r)
      BY <2>4, FirstErasure
    <3> QED BY <1>1, <3>1 DEF BeganErasing
  <2> QED BY <1>10, <2>1, <2>2, <2>3, <2>4 DEF Erasure
<1> QED BY <1>3, <1>4, <1>5, <1>6, <1>7, <1>8, <1>9, <1>10, StepKinds DEF Settling

\* The empty map cache is an empty bounded cache.
LEMMA InitRefines ==
    ASSUME Init
    PROVE  Promise!Init
BY DEF Init, Promise!Init

\* Every step of the map backend is a step of the contract or shows nothing.
LEMMA StepRefines ==
    ASSUME IndInv, NotifyInv, ContractInv, [Next]_vars
    PROVE  [Promise!Next]_(Promise!vars)
<1>1. CASE Unlock
  BY <1>1, UnlockRefines
<1>2. ASSUME NEW k \in Keys, Get(k)
      PROVE  Promise!Next
  BY <1>2, GetRefines DEF Promise!Next
<1> QED BY <1>1, <1>2, WorkIsInvisible

\* The invariants the refinement needs.
LEMMA ContractHolds == Spec => [](IndInv /\ NotifyInv /\ ContractInv)
<1>1. Init => NotifyInv /\ ContractInv
  BY ContractInit DEF Init, NotifyInv
<1>2. IndInv /\ (NotifyInv /\ ContractInv) /\ [Next]_vars
        => (NotifyInv /\ ContractInv)'
  BY NotifyKeeps, ContractKeeps
<1> QED BY <1>1, <1>2, Invariance, PTL DEF Spec

\* The map backend keeps the promise of LRUCache for every set of keys, weights
\* and prefixes, every budget and every retention ratio: what lockWithPressure to
\* unlock does, evictions and shedding included, is one operation of a bounded
\* cache that gives up the oldest of each class first and never the entry being
\* written.
THEOREM MapCacheImplementsLRU == Spec => ImplementsLRU
<1>1. Init => Promise!Init
  BY InitRefines
<1>2. (IndInv /\ NotifyInv /\ ContractInv) /\ [Next]_vars
        => [Promise!Next]_(Promise!vars)
  BY StepRefines
<1> QED BY <1>1, <1>2, ContractHolds, PTL DEF Spec, ImplementsLRU, Promise!Spec

=============================================================================
