------------------------- MODULE CachedSampleProofs -------------------------
(***************************************************************************)
(* Proof that the sequence-numbered publication of the cached sample       *)
(* implements the atomic cell of FreshSample, for any number of readers,   *)
(* epochs, publications and values.                                        *)
(*                                                                         *)
(* The argument has two halves.  A writer stores to the fields of the      *)
(* sample only while the publication number is odd, and never lets the     *)
(* number fall (WriterInv).  So what a reader loaded at an even number is   *)
(* what is stored, as long as the number is still the one it started from  *)
(* (ReaderInv).                                                            *)
(***************************************************************************)
EXTENDS CachedSample, TLAPS

FieldNames == DataFields \cup {"seq", "init", "refresh", "reclaim"}

Memory ==
    [seq : Nat, init : BOOLEAN, refresh : BOOLEAN, epoch : Nat, bits : Nat,
     bt1 : Nat, bt2 : Nat, invoke : Nat, reclaim : Nat]

\* The values a store to the field may have.
ValuesOf(name) == IF name \in {"init", "refresh"} THEN BOOLEAN ELSE Nat

\* One store: a script element whose value suits its field.
Stores == {s \in [name : FieldNames, value : Nat \cup BOOLEAN] :
             s.value \in ValuesOf(s.name)}

\* What is left of a critical section: the number never falls, it becomes odd
\* before anything else is stored and even with the last store only; readers'
\* data and init are stored while it is odd.
Orderly(sc, seq) ==
    \A i \in 1..Len(sc) :
        /\ sc[i].name = "seq" =>
              /\ sc[i].value >= seq
              /\ sc[1].name = "seq" => sc[i].value >= sc[1].value
              /\ Odd(sc[i].value) => i = 1
              /\ ~Odd(sc[i].value) => i = Len(sc)
        /\ sc[i].name \in DataFields \cup {"init"} =>
              Odd(seq) \/ (i > 1 /\ sc[1].name = "seq" /\ Odd(sc[1].value))

WriterInv ==
    /\ f \in Memory
    /\ script \in Seq(Stores)
    /\ Orderly(script, f.seq)

\* The fields of the sample that a reader at load i has already loaded.
LoadedBy(i) == {Program[j] : j \in 2..(i - 1)} \ {"refresh"}

ReaderInv(r) ==
    /\ at[r] \in 0..13 /\ got[r] \in Memory
    /\ asked[r] \in Epochs \cup {NoSample}
    /\ at[r] = 0 <=> asked[r] = NoSample
    /\ got[r].seq <= f.seq
    /\ at[r] > 1 => got[r].seq # 0 /\ ~Odd(got[r].seq)
    /\ at[r] > 2 => got[r].init
    /\ at[r] > 4 => got[r].epoch = asked[r]
    /\ at[r] \in 1..Recheck /\ got[r].seq = f.seq =>
          \A n \in LoadedBy(at[r]) : got[r][n] = f[n]

IndInv ==
    /\ WriterInv
    /\ got \in [Readers -> Memory] /\ at \in [Readers -> 0..13]
    /\ asked \in [Readers -> Epochs \cup {NoSample}]
    /\ DOMAIN result = Readers
    /\ \A r \in Readers : ReaderInv(r)

-----------------------------------------------------------------------------
(* Lemmas on the shared memory                                             *)

\* What a sample is made of, and that a missing one is not a sample.
LEMMA SampleFacts ==
    ASSUME NEW g \in Memory
    PROVE  /\ Sample(g) \in [DataFields -> Nat]
           /\ Sample(g) # NoSample
           /\ Sample(g).epoch = g.epoch
  BY AbsentAssumption DEF Memory, Sample, DataFields

\* Every store writes a field a value of its type, and leaves the others.
LEMMA StoreFacts ==
    ASSUME NEW g \in Memory, NEW s \in Stores
    PROVE  /\ [g EXCEPT ![s.name] = s.value] \in Memory
           /\ [g EXCEPT ![s.name] = s.value][s.name] = s.value
           /\ \A n \in FieldNames \ {s.name} :
                 [g EXCEPT ![s.name] = s.value][n] = g[n]
  BY DEF Memory, Stores, ValuesOf, FieldNames, DataFields

\* A sample depends on the data fields only.
LEMMA SameSample ==
    ASSUME NEW g \in Memory, NEW h \in Memory,
           \A n \in DataFields : g[n] = h[n]
    PROVE  Sample(g) = Sample(h)
  BY DEF Sample, DataFields

\* The publication number after beginCachedPublishLocked.
LEMMA BeginSeqFacts ==
    ASSUME f \in Memory
    PROVE  /\ BeginSeq \in Nat /\ BeginSeq >= f.seq /\ Odd(BeginSeq)
           /\ BeginSeq + 1 \in Nat /\ ~Odd(BeginSeq + 1)
  BY DEF BeginSeq, Odd, Memory

-----------------------------------------------------------------------------
(* The writer                                                              *)

\* Tuples of the lengths the critical sections have.
LEMMA TypedTuples ==
    ASSUME NEW S, NEW a \in S, NEW b \in S, NEW c \in S, NEW d \in S, NEW e \in S,
           NEW g \in S, NEW h \in S, NEW i \in S, NEW j \in S
    PROVE  /\ <<a>> \in Seq(S) /\ <<a, b, c>> \in Seq(S) /\ <<a, b, c, d>> \in Seq(S)
           /\ <<a, b, c, d, e>> \in Seq(S)
           /\ <<a, b, c, d, e, g, h, i, j>> \in Seq(S)
  OBVIOUS

\* Stores of typed values.
LEMMA SetFacts ==
    ASSUME f \in Memory
    PROVE  /\ Set("seq", BeginSeq) \in Stores
           /\ Set("seq", BeginSeq + 1) \in Stores
           /\ \A n \in {"seq", "epoch", "bits", "bt1", "bt2", "invoke", "reclaim"} :
                 \A v \in Nat : Set(n, v) \in Stores
           /\ \A n \in {"init", "refresh"} :
                 \A v \in BOOLEAN : Set(n, v) \in Stores
  BY BeginSeqFacts DEF Set, Stores, ValuesOf, FieldNames, DataFields

\* A critical section that makes the number odd first, if anything, stores an even
\* one last, and in between stores to other fields only.
LEMMA SectionOrderly ==
    ASSUME f \in Memory, NEW sc \in Seq(Stores), Len(sc) > 0,
           sc[1].name = "seq", sc[1].value = BeginSeq,
           \A i \in 2..Len(sc) :
              sc[i].name = "seq" => i = Len(sc) /\ sc[i].value = BeginSeq + 1
    PROVE  Orderly(sc, f.seq)
<1>. DEFINE b == BeginSeq
            n == Len(sc)
<1>1. /\ b \in Nat /\ b >= f.seq /\ Odd(b) /\ ~Odd(b + 1) /\ f.seq \in Nat
      /\ sc[1].value = b
  BY BeginSeqFacts DEF Memory
<1>. HIDE DEF b
<1>2. ASSUME NEW i \in 1..n, sc[i].name = "seq"
      PROVE  /\ sc[i].value >= f.seq /\ sc[i].value >= sc[1].value
             /\ Odd(sc[i].value) => i = 1
             /\ ~Odd(sc[i].value) => i = n
  <2>1. CASE i = 1
    BY <1>1, <2>1 DEF b
  <2>2. CASE i # 1
    <3>1. i = n /\ sc[i].value = b + 1
      BY <1>2, <2>2 DEF b
    <3>. QED  BY <1>1, <3>1
  <2>. QED  BY <2>1, <2>2
<1>3. ASSUME NEW i \in 1..n, sc[i].name \in DataFields \cup {"init"}
      PROVE  i > 1 /\ sc[1].name = "seq" /\ Odd(sc[1].value)
  BY <1>1, <1>3 DEF DataFields, b
<1>. QED  BY <1>2, <1>3 DEF Orderly

\* The critical sections store to fields in an orderly way.
LEMMA PublicationOrderly ==
    ASSUME f \in Memory,
           NEW epoch \in Nat, NEW bt1 \in Nat, NEW bt2 \in Nat,
           NEW invoke \in Nat, NEW val \in Nat, NEW stale \in BOOLEAN
    PROVE  /\ Publication(epoch, bt1, bt2, invoke, val, stale) \in Seq(Stores)
           /\ Orderly(Publication(epoch, bt1, bt2, invoke, val, stale), f.seq)
<1>1. Publication(epoch, bt1, bt2, invoke, val, stale) \in Seq(Stores)
  <2>1. /\ Set("epoch", epoch) \in Stores /\ Set("bt1", bt1) \in Stores
        /\ Set("bt2", bt2) \in Stores /\ Set("invoke", invoke) \in Stores
        /\ Set("bits", val) \in Stores /\ Set("init", TRUE) \in Stores
        /\ Set("refresh", stale) \in Stores
    BY SetFacts
  <2>2. Set("seq", BeginSeq) \in Stores /\ Set("seq", BeginSeq + 1) \in Stores
    BY SetFacts
  <2>. QED  BY <2>1, <2>2, TypedTuples DEF Publication
<1>2. Orderly(Publication(epoch, bt1, bt2, invoke, val, stale), f.seq)
  <2>. DEFINE sc == Publication(epoch, bt1, bt2, invoke, val, stale)
  <2>1. /\ Len(sc) = 9 /\ sc[1].name = "seq" /\ sc[1].value = BeginSeq
        /\ \A i \in 2..9 : sc[i].name = "seq" => i = 9 /\ sc[i].value = BeginSeq + 1
    BY DEF Publication, Set
  <2>2. sc \in Seq(Stores)
    BY <1>1
  <2>. HIDE DEF sc
  <2>3. Len(sc) > 0 /\ 2..Len(sc) = 2..9 /\ Len(sc) = 9
    BY <2>1
  <2>4. Orderly(sc, f.seq)
    BY <2>1, <2>2, <2>3, SectionOrderly
  <2>. QED  BY <2>4 DEF sc
<1>. QED  BY <1>1, <1>2

\* markReclaimedFromShard: the publication it leaves unfinished is in order.
LEMMA ReclaimOrderly ==
    ASSUME f \in Memory
    PROVE  LET sc == <<Set("seq", BeginSeq), Set("refresh", TRUE),
                       Set("init", FALSE), Set("bits", 0),
                       Set("reclaim", f.reclaim + 1)>>
           IN  sc \in Seq(Stores) /\ Orderly(sc, f.seq)
<1>. DEFINE sc == <<Set("seq", BeginSeq), Set("refresh", TRUE),
                    Set("init", FALSE), Set("bits", 0),
                    Set("reclaim", f.reclaim + 1)>>
<1>1. sc \in Seq(Stores)
  <2>1. /\ Set("refresh", TRUE) \in Stores /\ Set("init", FALSE) \in Stores
        /\ Set("bits", 0) \in Stores /\ Set("seq", BeginSeq) \in Stores
    BY SetFacts
  <2>2. f.reclaim + 1 \in Nat
    BY DEF Memory
  <2>3. Set("reclaim", f.reclaim + 1) \in Stores
    BY <2>2, SetFacts
  <2>. QED  BY <2>1, <2>3, TypedTuples
<1>2. Orderly(sc, f.seq)
  <2>1. /\ Len(sc) = 5 /\ sc[1].name = "seq" /\ sc[1].value = BeginSeq
        /\ \A i \in 2..5 : sc[i].name # "seq"
    BY DEF Set
  <2>. HIDE DEF sc
  <2>. QED  BY <1>1, <2>1, SectionOrderly
<1>. QED  BY <1>1, <1>2

\* syncCachedRecoveryEpochsLocked: a whole section, in order.
LEMMA SyncOrderly ==
    ASSUME f \in Memory, NEW bt1 \in Nat, NEW bt2 \in Nat
    PROVE  /\ RaiseStores(bt1, bt2) \in Seq(Stores)
           /\ Orderly(RaiseStores(bt1, bt2), f.seq)
           /\ LET sc == <<Set("seq", BeginSeq), Set("refresh", TRUE),
                          Set("seq", BeginSeq + 1)>>
              IN  sc \in Seq(Stores) /\ Orderly(sc, f.seq)
<1>. DEFINE sc == <<Set("seq", BeginSeq), Set("refresh", TRUE),
                    Set("seq", BeginSeq + 1)>>
            v1 == IF bt1 > f.bt1 THEN bt1 ELSE f.bt1
            v2 == IF bt2 > f.bt2 THEN bt2 ELSE f.bt2
            raise == <<Set("seq", BeginSeq), Set("bt1", v1), Set("bt2", v2),
                       Set("seq", BeginSeq + 1)>>
<1>1. v1 \in Nat /\ v2 \in Nat
  BY DEF Memory
<1>2. raise \in Seq(Stores) /\ Orderly(raise, f.seq)
  <2>. HIDE DEF v1, v2
  <2>1. raise \in Seq(Stores)
    <3>1. Set("bt1", v1) \in Stores /\ Set("bt2", v2) \in Stores
      BY <1>1, SetFacts
    <3>2. Set("seq", BeginSeq) \in Stores /\ Set("seq", BeginSeq + 1) \in Stores
      BY SetFacts
    <3>. QED  BY <3>1, <3>2, TypedTuples
  <2>2. Orderly(raise, f.seq)
    <3>1. /\ Len(raise) = 4 /\ raise[1].name = "seq" /\ raise[1].value = BeginSeq
          /\ \A i \in 2..4 :
                raise[i].name = "seq" => i = 4 /\ raise[i].value = BeginSeq + 1
      BY DEF Set
    <3>. HIDE DEF raise
    <3>2. Len(raise) > 0 /\ 2..Len(raise) = 2..4 /\ Len(raise) = 4
      BY <3>1
    <3>. QED  BY <2>1, <3>1, <3>2, SectionOrderly
  <2>. QED  BY <2>1, <2>2
<1>3. <<>> \in Seq(Stores) /\ Orderly(<<>>, f.seq)
  BY DEF Orderly
<1>4. RaiseStores(bt1, bt2) \in {<<>>, raise}
  BY DEF RaiseStores
<1>5. RaiseStores(bt1, bt2) \in Seq(Stores) /\ Orderly(RaiseStores(bt1, bt2), f.seq)
  BY <1>2, <1>3, <1>4
<1>6. sc \in Seq(Stores)
  <2>1. /\ Set("refresh", TRUE) \in Stores
        /\ Set("seq", BeginSeq) \in Stores /\ Set("seq", BeginSeq + 1) \in Stores
    BY SetFacts
  <2>. QED  BY <2>1, TypedTuples
<1>7. Orderly(sc, f.seq)
  <2>1. /\ Len(sc) = 3 /\ sc[1].name = "seq" /\ sc[1].value = BeginSeq
        /\ \A i \in 2..3 : sc[i].name = "seq" => i = 3 /\ sc[i].value = BeginSeq + 1
    BY DEF Set
  <2>. HIDE DEF sc
  <2>2. Len(sc) > 0 /\ 2..Len(sc) = 2..3 /\ Len(sc) = 3
    BY <2>1
  <2>. QED  BY <1>6, <2>1, <2>2, SectionOrderly
<1>. QED  BY <1>5, <1>6, <1>7

\* A critical section that begins leaves the shared fields alone.
LEMMA WriterBegins ==
    ASSUME IndInv, Writer
    PROVE  /\ script' \in Seq(Stores) /\ Orderly(script', f.seq)
           /\ UNCHANGED <<f, at, asked, got, result>>
<1>. f \in Memory
  BY DEF IndInv, WriterInv
<1>1. ASSUME NEW bt1 \in Counts, NEW bt2 \in Counts, NEW invoke \in Counts,
             NEW val \in Levels, NEW stale \in BOOLEAN,
             Publish(bt1, bt2, invoke, val, stale)
      PROVE  script' \in Seq(Stores) /\ Orderly(script', f.seq)
  <2>1. /\ bt1 \in Nat /\ bt2 \in Nat /\ invoke \in Nat /\ val \in Nat
        /\ f.reclaim \in Nat
    BY BoundsAssumption DEF Levels, Memory
  <2>2. script' = Publication(f.reclaim, bt1, bt2, invoke, val, stale)
    BY <1>1 DEF Publish, WriteSection
  <2>. QED  BY <2>1, <2>2, PublicationOrderly
<1>2. ASSUME NEW bt1 \in Counts, NEW bt2 \in Counts, SyncRecovery(bt1, bt2)
      PROVE  script' \in Seq(Stores) /\ Orderly(script', f.seq)
  <2>1. bt1 \in Nat /\ bt2 \in Nat
    BY BoundsAssumption
  <2>2. \/ script' = <<Set("seq", BeginSeq), Set("refresh", TRUE),
                       Set("seq", BeginSeq + 1)>>
        \/ script' = RaiseStores(bt1, bt2)
    BY <1>2, Zenon DEF SyncRecovery, WriteSection
  <2>. QED  BY <2>1, <2>2, SyncOrderly
<1>3. ASSUME RequestRefresh
      PROVE  script' \in Seq(Stores) /\ Orderly(script', f.seq)
  <2>1. script' = <<Set("refresh", TRUE)>>
    BY <1>3 DEF RequestRefresh, WriteSection
  <2>2. Set("refresh", TRUE) \in Stores
    BY SetFacts
  <2>3. script' \in Seq(Stores)
    BY <2>1, <2>2, TypedTuples
  <2>4. \A i \in 1..Len(script') : script'[i].name = "refresh"
    BY <2>1 DEF Set
  <2>. QED  BY <2>3, <2>4 DEF Orderly, DataFields
<1>4. ASSUME Reclaim
      PROVE  script' \in Seq(Stores) /\ Orderly(script', f.seq)
  BY <1>4, ReclaimOrderly DEF Reclaim, WriteSection
<1>5. UNCHANGED <<f, at, asked, got, result>>
  BY DEF Writer, Publish, SyncRecovery, RequestRefresh, Reclaim, WriteSection
<1>. QED  BY <1>1, <1>2, <1>3, <1>4, <1>5 DEF Writer

\* What one store does: the number never falls, and the data and init change at
\* an odd number only.
LEMMA StoreStep ==
    ASSUME IndInv, Store
    PROVE  /\ WriterInv'
           /\ f'.seq >= f.seq
           /\ ~Odd(f.seq) => \A n \in DataFields \cup {"init"} : f'[n] = f[n]
           /\ f'.seq # f.seq => \A n \in FieldNames \ {"seq"} : f'[n] = f[n]
<1>. DEFINE s == Head(script)
<1>1. /\ script \in Seq(Stores) /\ script # <<>>
      /\ s \in Stores /\ s = script[1] /\ Len(script) >= 1
      /\ script' = Tail(script) /\ script' \in Seq(Stores)
      /\ f \in Memory /\ f' = [f EXCEPT ![s.name] = s.value]
  BY DEF IndInv, WriterInv, Store
<1>2. /\ f' \in Memory
      /\ f'[s.name] = s.value
      /\ \A n \in FieldNames \ {s.name} : f'[n] = f[n]
  BY <1>1, StoreFacts
<1>3. /\ s.name = "seq" => /\ s.value >= f.seq
                           /\ ~Odd(s.value) => Len(script) = 1
      /\ s.name \in DataFields \cup {"init"} => Odd(f.seq)
  <2>1. Orderly(script, f.seq) /\ 1 \in 1..Len(script)
    BY <1>1 DEF IndInv, WriterInv
  <2>2. /\ script[1].name = "seq" => /\ script[1].value >= f.seq
                                     /\ ~Odd(script[1].value) => 1 = Len(script)
        /\ script[1].name \in DataFields \cup {"init"} =>
              Odd(f.seq) \/ (1 > 1 /\ script[1].name = "seq" /\ Odd(script[1].value))
    BY <2>1, Zenon DEF Orderly
  <2>. QED  BY <1>1, <2>2
<1>4. f'.seq >= f.seq
  <2>1. CASE s.name = "seq"
    BY <1>2, <1>3, <2>1
  <2>2. CASE s.name # "seq"
    BY <1>1, <1>2, <2>2 DEF FieldNames, Memory
  <2>. QED  BY <2>1, <2>2
<1>5. ~Odd(f.seq) => \A n \in DataFields \cup {"init"} : f'[n] = f[n]
  BY <1>2, <1>3 DEF FieldNames
<1>6. f'.seq # f.seq => \A n \in FieldNames \ {"seq"} : f'[n] = f[n]
  BY <1>2 DEF FieldNames
<1>7. Orderly(script', f'.seq)
  <2>. SUFFICES ASSUME NEW i \in 1..Len(script')
                PROVE  /\ script'[i].name = "seq" =>
                            /\ script'[i].value >= f'.seq
                            /\ script'[1].name = "seq" => script'[i].value >= script'[1].value
                            /\ Odd(script'[i].value) => i = 1
                            /\ ~Odd(script'[i].value) => i = Len(script')
                       /\ script'[i].name \in DataFields \cup {"init"} =>
                            \/ Odd(f'.seq)
                            \/ /\ i > 1 /\ script'[1].name = "seq"
                               /\ Odd(script'[1].value)
    BY DEF Orderly
  <2>1. /\ i + 1 \in 1..Len(script) /\ script'[i] = script[i + 1]
        /\ Len(script') = Len(script) - 1
    BY <1>1
  <2>2. script'[i].name = "seq" =>
            /\ script[i + 1].value >= f.seq
            /\ s.name = "seq" => script[i + 1].value >= s.value
            /\ ~Odd(script'[i].value)
            /\ i = Len(script')
    BY <2>1 DEF IndInv, WriterInv, Orderly
  <2>3. ASSUME script'[i].name = "seq" PROVE script'[i].value >= f'.seq
    <3>1. CASE s.name # "seq"
      BY <1>2, <2>1, <2>2, <2>3, <3>1 DEF FieldNames
    <3>2. CASE s.name = "seq"
      <4>. QED  BY <1>1, <1>2, <2>1, <2>2, <2>3, <3>2
    <3>. QED  BY <3>1, <3>2
  <2>4. ASSUME script'[i].name \in DataFields \cup {"init"} PROVE Odd(f'.seq)
    <3>1. Odd(f.seq) \/ (s.name = "seq" /\ Odd(s.value))
      BY <1>1, <2>1, <2>4 DEF IndInv, WriterInv, Orderly
    <3>2. CASE s.name = "seq"
      <4>1. Odd(s.value)
        BY <1>3, <2>1, <3>2
      <4>. QED  BY <1>2, <3>2, <4>1
    <3>3. CASE s.name # "seq"
      BY <1>2, <3>1, <3>3 DEF FieldNames
    <3>. QED  BY <3>2, <3>3
  <2>5. ASSUME script'[i].name = "seq", script'[1].name = "seq"
        PROVE  script'[i].value >= script'[1].value
    <3>1. 1 \in 1..Len(script') /\ script'[1] = script[2] /\ 2 \in 1..Len(script)
      BY <1>1, <2>1
    <3>2. i = Len(script') /\ 1 = Len(script')
      BY <2>2, <2>5, <3>1, <2>1 DEF IndInv, WriterInv, Orderly
    <3>3. script'[1].value \in Nat
      BY <2>5, <3>1, <1>1 DEF Stores, ValuesOf
    <3>4. \A v \in Nat : v >= v
      OBVIOUS
    <3>5. script'[i].value = script'[1].value
      BY <3>2
    <3>. QED  BY <3>3, <3>4, <3>5
  <2>. QED  BY <2>2, <2>3, <2>4, <2>5
<1>. QED  BY <1>1, <1>2, <1>4, <1>5, <1>6, <1>7 DEF WriterInv

-----------------------------------------------------------------------------
(* The readers                                                             *)

\* The loads of readValidCachedSampleWithPubSeq, in their order.
LEMMA ProgramFacts ==
    /\ Len(Program) = 13 /\ Recheck = 9
    /\ \A i \in 1..9 : Program[i] \in FieldNames
    /\ Program[1] = "seq" /\ Program[2] = "init" /\ Program[3] = "refresh"
    /\ Program[4] = "epoch" /\ Program[5] = "bits" /\ Program[6] = "bt1"
    /\ Program[7] = "bt2" /\ Program[8] = "invoke" /\ Program[9] = "seq"
    /\ \A i \in 2..8 :
          /\ Program[i] # "seq"
          /\ LoadedBy(i + 1) \subseteq LoadedBy(i) \cup {Program[i]}
<1>1. /\ Len(Program) = 13 /\ Recheck = 9
      /\ Program[1] = "seq" /\ Program[2] = "init" /\ Program[3] = "refresh"
      /\ Program[4] = "epoch" /\ Program[5] = "bits" /\ Program[6] = "bt1"
      /\ Program[7] = "bt2" /\ Program[8] = "invoke" /\ Program[9] = "seq"
  BY DEF Program, Recheck
<1>2. ASSUME NEW i \in 1..9
      PROVE  Program[i] \in FieldNames
  <2>1. i \in {1, 2, 3, 4, 5, 6, 7, 8, 9}
    OBVIOUS
  <2>. QED  BY <1>1, <2>1 DEF FieldNames, DataFields
<1>3. ASSUME NEW i \in 2..8
      PROVE  /\ Program[i] # "seq"
             /\ LoadedBy(i + 1) \subseteq LoadedBy(i) \cup {Program[i]}
  <2>1. i \in {2, 3, 4, 5, 6, 7, 8}
    OBVIOUS
  <2>2. Program[i] # "seq"
    BY <1>1, <2>1
  <2>3. \A j \in 2..i : j \in 2..(i - 1) \/ j = i
    OBVIOUS
  <2>. QED  BY <2>2, <2>3 DEF LoadedBy
<1>. QED  BY <1>1, <1>2, <1>3

\* What a reader that has loaded the sample holds of it.
LEMMA LoadedFacts ==
    /\ \A i \in 0..2 : LoadedBy(i) = {}
    /\ \A i \in 3..9 : "init" \in LoadedBy(i)
    /\ DataFields \subseteq LoadedBy(9)
    /\ \A i \in 0..9 : LoadedBy(i) \subseteq DataFields \cup {"init"}
<1>1. \A i \in 0..2 : LoadedBy(i) = {}
  BY DEF LoadedBy
<1>2. ASSUME NEW i \in 3..9
      PROVE  "init" \in LoadedBy(i)
  <2>1. 2 \in 2..(i - 1) /\ Program[2] = "init"
    BY ProgramFacts
  <2>. QED  BY <2>1 DEF LoadedBy
<1>3. DataFields \subseteq LoadedBy(9)
  <2>1. /\ 4 \in 2..8 /\ 5 \in 2..8 /\ 6 \in 2..8 /\ 7 \in 2..8 /\ 8 \in 2..8
        /\ 9 - 1 = 8
    OBVIOUS
  <2>. QED  BY <2>1, ProgramFacts DEF LoadedBy, DataFields
<1>4. ASSUME NEW i \in 0..9
      PROVE  LoadedBy(i) \subseteq DataFields \cup {"init"}
  <2>1. \A j \in 2..(i - 1) : j \in {2, 3, 4, 5, 6, 7, 8}
    OBVIOUS
  <2>. QED  BY <2>1, ProgramFacts DEF LoadedBy, DataFields
<1>. QED  BY <1>1, <1>2, <1>3, <1>4

\* What one load changes.
LEMMA LoadFacts ==
    ASSUME IndInv, NEW r \in Readers, Load(r)
    PROVE  /\ at[r] \in 1..12 /\ at'[r] = at[r] + 1
           /\ at[r] > 9 => got' = got
           /\ at[r] \in 1..9 =>
                /\ Acceptable(r, at[r], f[Program[at[r]]])
                /\ got'[r] = [got[r] EXCEPT ![Program[at[r]]] = f[Program[at[r]]]]
           /\ \A q \in Readers \ {r} : at'[q] = at[q] /\ got'[q] = got[q]
           /\ got' \in [Readers -> Memory] /\ at' \in [Readers -> 0..13]
           /\ UNCHANGED <<f, script, asked, result>>
<1>1. f \in Memory /\ got \in [Readers -> Memory] /\ at \in [Readers -> 0..13]
  BY DEF IndInv, WriterInv
<1>2. /\ at[r] \in 1..12
      /\ at' = [at EXCEPT ![r] = at[r] + 1]
      /\ Acceptable(r, at[r], f[Program[at[r]]])
      /\ got' = IF at[r] <= 9
                THEN [got EXCEPT ![r][Program[at[r]]] = f[Program[at[r]]]] ELSE got
      /\ UNCHANGED <<f, script, asked, result>>
  BY ProgramFacts DEF Load
<1>3. ASSUME at[r] \in 1..9
      PROVE  [got[r] EXCEPT ![Program[at[r]]] = f[Program[at[r]]]] \in Memory
  <2>. DEFINE n == Program[at[r]]
  <2>1. n \in FieldNames
    BY <1>3, ProgramFacts
  <2>. HIDE DEF n
  <2>2. [got[r] EXCEPT ![n] = f[n]] \in Memory
    BY <1>1, <2>1 DEF Memory, FieldNames, DataFields
  <2>. QED  BY <2>2 DEF n
<1>4. got' \in [Readers -> Memory]
  BY <1>1, <1>2, <1>3
<1>5. at[r] \in 1..9 =>
        got'[r] = [got[r] EXCEPT ![Program[at[r]]] = f[Program[at[r]]]]
  BY <1>1, <1>2
<1>6. /\ at'[r] = at[r] + 1 /\ at[r] > 9 => got' = got
      /\ \A q \in Readers \ {r} : at'[q] = at[q] /\ got'[q] = got[q]
      /\ at' \in [Readers -> 0..13]
  BY <1>1, <1>2
<1>. QED  BY <1>2, <1>4, <1>5, <1>6

\* What the invariant says of a reader depends on the shared memory and on the
\* state of that reader only.
LEMMA OthersUntouched ==
    ASSUME NEW q \in Readers, ReaderInv(q),
           f' = f, at'[q] = at[q], got'[q] = got[q], asked'[q] = asked[q]
    PROVE  ReaderInv(q)'
  BY DEF ReaderInv, LoadedBy, Program

\* A load that goes on keeps what the reader knows.
LEMMA LoadKeeps ==
    ASSUME IndInv, NEW r \in Readers, Load(r)
    PROVE  ReaderInv(r)'
<1>. DEFINE n == Program[at[r]]
<1>1. /\ f \in Memory /\ got[r] \in Memory /\ got'[r] \in Memory
      /\ at[r] \in 1..12 /\ at'[r] = at[r] + 1 /\ f' = f
      /\ asked' = asked /\ asked[r] \in Epochs /\ asked[r] # NoSample
      /\ at'[r] \in 2..13
  <2>1. /\ f \in Memory /\ got \in [Readers -> Memory]
        /\ asked \in [Readers -> Epochs \cup {NoSample}]
        /\ at[r] = 0 <=> asked[r] = NoSample
    BY DEF IndInv, WriterInv, ReaderInv
  <2>2. /\ at[r] \in 1..12 /\ at'[r] = at[r] + 1 /\ got' \in [Readers -> Memory]
        /\ f' = f /\ asked' = asked
    BY LoadFacts
  <2>3. at'[r] \in 2..13 /\ at[r] # 0
    BY <2>2
  <2>. QED  BY <2>1, <2>2, <2>3
<1>2. ReaderInv(r)
  BY DEF IndInv
<1>3. CASE at[r] = 1
  <2>1. got'[r] = [got[r] EXCEPT !.seq = f.seq] /\ f.seq # 0 /\ ~Odd(f.seq)
    BY <1>1, <1>3, LoadFacts, ProgramFacts DEF Acceptable
  <2>2. got'[r].seq = f.seq
    BY <1>1, <2>1 DEF Memory
  <2>3. LoadedBy(at'[r]) = {}
    BY <1>1, <1>3, LoadedFacts
  <2>. QED  BY <1>1, <1>3, <2>1, <2>2, <2>3 DEF ReaderInv, Recheck, Memory
<1>4. CASE at[r] \in 2..8
  <2>1. /\ got'[r] = [got[r] EXCEPT ![n] = f[n]]
        /\ n \in FieldNames /\ n # "seq"
        /\ LoadedBy(at'[r]) \subseteq LoadedBy(at[r]) \cup {n}
    <3>1. at[r] \in 1..9 /\ at[r] \in 2..8
      BY <1>4
    <3>2. LoadedBy(at[r] + 1) \subseteq LoadedBy(at[r]) \cup {n}
      BY <3>1, ProgramFacts
    <3>. QED  BY <1>1, <3>1, <3>2, LoadFacts, ProgramFacts
  <2>2. LoadedBy(at'[r]) \subseteq FieldNames
    BY <1>1, <1>4, LoadedFacts DEF FieldNames
  <2>3. Acceptable(r, at[r], f[n]) /\ at[r] # 1 /\ at[r] # Recheck
    <3>1. at[r] \in 1..9 /\ at[r] # 1 /\ at[r] # 9
      BY <1>4
    <3>. QED  BY <3>1, LoadFacts, ProgramFacts
  <2>4. at[r] = 2 => n = "init" /\ f.init
    <3>1. SUFFICES ASSUME at[r] = 2 PROVE n = "init" /\ f.init
      OBVIOUS
    <3>. QED  BY <2>3, <3>1, ProgramFacts DEF Acceptable
  <2>5. at[r] = 4 => n = "epoch" /\ f.epoch = asked[r]
    <3>1. SUFFICES ASSUME at[r] = 4 PROVE n = "epoch" /\ f.epoch = asked[r]
      OBVIOUS
    <3>. QED  BY <2>3, <3>1, ProgramFacts DEF Acceptable
  <2>6. (at[r] > 2 => n # "init") /\ (at[r] > 4 => n # "epoch")
    <3>1. at[r] \in {2, 3, 4, 5, 6, 7, 8}
      BY <1>4
    <3>. QED  BY <3>1, ProgramFacts
  <2>. HIDE DEF n
  <2>7. /\ got'[r][n] = f[n] /\ got'[r].seq = got[r].seq
        /\ \A m \in FieldNames \ {n} : got'[r][m] = got[r][m]
    BY <1>1, <2>1 DEF Memory, FieldNames, DataFields
  <2>8. \A m \in LoadedBy(at'[r]) :
           got[r].seq = f.seq => got'[r][m] = f[m]
    BY <1>1, <1>2, <1>4, <2>1, <2>2, <2>7 DEF ReaderInv, Recheck
  <2>9. got'[r].init
    <3>1. CASE at[r] = 2
      BY <2>4, <2>7, <3>1
    <3>2. CASE at[r] > 2
      BY <1>2, <2>6, <2>7, <3>2 DEF ReaderInv, FieldNames
    <3>. QED  BY <1>4, <3>1, <3>2
  <2>10. at'[r] > 4 => got'[r].epoch = asked[r]
    <3>1. CASE at[r] = 4
      BY <2>5, <2>7, <3>1
    <3>2. CASE at[r] > 4
      BY <1>2, <2>6, <2>7, <3>2 DEF ReaderInv, FieldNames, DataFields
    <3>. QED  BY <1>1, <1>4, <3>1, <3>2
  <2>11. got[r].seq <= f.seq /\ got[r].seq # 0 /\ ~Odd(got[r].seq)
    BY <1>2, <1>4 DEF ReaderInv
  <2>. QED  BY <1>1, <2>7, <2>8, <2>9, <2>10, <2>11 DEF ReaderInv
<1>5. CASE at[r] = 9
  <2>1. f.seq = got[r].seq /\ got'[r] = [got[r] EXCEPT !.seq = f.seq]
    BY <1>1, <1>5, LoadFacts, ProgramFacts DEF Acceptable
  <2>2. got'[r] = got[r]
    BY <1>1, <2>1 DEF Memory
  <2>. QED  BY <1>1, <1>2, <1>5, <2>2 DEF ReaderInv, Recheck
<1>6. CASE at[r] \in 10..12
  <2>1. got' = got
    <3>1. at[r] > 9
      BY <1>6
    <3>. QED  BY <3>1, LoadFacts
  <2>. QED  BY <1>1, <1>2, <1>6, <2>1 DEF ReaderInv, Recheck
<1>. QED  BY <1>1, <1>3, <1>4, <1>5, <1>6

\* A load of the reader, readValidCachedSampleWithPubSeq.
LEMMA LoadInductive ==
    ASSUME IndInv, NEW r \in Readers, Load(r)
    PROVE  IndInv'
<1>1. /\ got' \in [Readers -> Memory] /\ at' \in [Readers -> 0..13]
      /\ UNCHANGED <<f, script, asked, result>>
      /\ \A q \in Readers \ {r} : at'[q] = at[q] /\ got'[q] = got[q]
  BY LoadFacts
<1>2. \A q \in Readers : ReaderInv(q)'
  BY <1>1, LoadKeeps, OthersUntouched DEF IndInv
<1>3. WriterInv'
  BY <1>1 DEF IndInv, WriterInv, Orderly
<1>. QED  BY <1>1, <1>2, <1>3 DEF IndInv

\* A store changes what a reader has loaded only once the number has moved on.
LEMMA StoreInductive ==
    ASSUME IndInv, Store
    PROVE  IndInv'
<1>1. /\ WriterInv' /\ f'.seq >= f.seq
      /\ ~Odd(f.seq) => \A n \in DataFields \cup {"init"} : f'[n] = f[n]
      /\ UNCHANGED <<at, asked, got, result>>
  BY StoreStep DEF Store
<1>2. ASSUME NEW r \in Readers
      PROVE  ReaderInv(r)'
  <2>1. /\ ReaderInv(r) /\ f.seq \in Nat /\ f'.seq \in Nat /\ got[r].seq \in Nat
        /\ at[r] \in 0..13
    BY <1>1 DEF IndInv, WriterInv, Memory
  <2>2. got[r].seq <= f'.seq
    BY <1>1, <2>1 DEF ReaderInv
  <2>3. ASSUME at[r] \in 1..Recheck, got[r].seq = f'.seq, NEW n \in LoadedBy(at[r])
        PROVE  got[r][n] = f'[n]
    <3>1. f.seq = got[r].seq /\ at[r] \in 1..9 /\ at[r] # 1 /\ at[r] > 1
      <4>1. f.seq = got[r].seq
        BY <1>1, <2>1, <2>3 DEF ReaderInv
      <4>2. at[r] \in 1..9
        BY <2>3, ProgramFacts
      <4>3. at[r] # 1
        BY <2>3, LoadedFacts
      <4>. QED  BY <4>1, <4>2, <4>3
    <3>2. ~Odd(f.seq) /\ got[r][n] = f[n]
      BY <2>1, <2>3, <3>1 DEF ReaderInv
    <3>3. n \in DataFields \cup {"init"}
      BY <2>3, <3>1, LoadedFacts
    <3>. QED  BY <1>1, <3>2, <3>3
  <2>. QED  BY <1>1, <2>1, <2>2, <2>3 DEF ReaderInv
<1>. QED  BY <1>1, <1>2 DEF IndInv

\* The call of a reader begins, and ends.
LEMMA CallInductive ==
    ASSUME IndInv, NEW r \in Readers, NEW e \in Epochs, Call(r, e)
    PROVE  IndInv'
<1>1. /\ at[r] = 0 /\ e # NoSample
      /\ at' = [at EXCEPT ![r] = 1] /\ asked' = [asked EXCEPT ![r] = e]
      /\ DOMAIN result' = DOMAIN result /\ UNCHANGED <<f, script, got>>
  BY AbsentAssumption DEF Call
<1>2. ReaderInv(r)'
  <2>1. at'[r] = 1 /\ asked'[r] = e /\ ReaderInv(r) /\ LoadedBy(1) = {}
    BY <1>1, LoadedFacts DEF IndInv
  <2>. QED  BY <1>1, <2>1 DEF ReaderInv
<1>3. \A q \in Readers \ {r} : ReaderInv(q)'
  BY <1>1, OthersUntouched DEF IndInv
<1>4. WriterInv'
  BY <1>1 DEF IndInv, WriterInv, Orderly
<1>. QED  BY <1>1, <1>2, <1>3, <1>4 DEF IndInv

\* The reader returns.
LEMMA FinishInductive ==
    ASSUME IndInv, NEW r \in Readers, NEW res, Finish(r, res)
    PROVE  IndInv'
<1>1. /\ at' = [at EXCEPT ![r] = 0] /\ asked' = [asked EXCEPT ![r] = NoSample]
      /\ got' = [got EXCEPT ![r] = Blank]
      /\ DOMAIN result' = DOMAIN result /\ UNCHANGED <<f, script>>
  BY DEF Finish
<1>2. Blank \in Memory /\ Blank.seq = 0
  BY DEF Blank, Memory
<1>3. ReaderInv(r)'
  <2>1. at'[r] = 0 /\ asked'[r] = NoSample /\ got'[r] = Blank /\ f.seq \in Nat
    BY <1>1 DEF IndInv, WriterInv, Memory
  <2>. QED  BY <1>1, <1>2, <2>1, ProgramFacts DEF ReaderInv
<1>4. \A q \in Readers \ {r} : ReaderInv(q)'
  BY <1>1, OthersUntouched DEF IndInv
<1>5. WriterInv'
  BY <1>1 DEF IndInv, WriterInv, Orderly
<1>. QED  BY <1>1, <1>2, <1>3, <1>4, <1>5 DEF IndInv

\* A writer enters its critical section.
LEMMA WriterInductive ==
    ASSUME IndInv, Writer
    PROVE  IndInv'
<1>1. /\ script' \in Seq(Stores) /\ Orderly(script', f.seq)
      /\ UNCHANGED <<f, at, asked, got, result>>
  BY WriterBegins
<1>2. WriterInv'
  BY <1>1 DEF IndInv, WriterInv
<1>3. \A q \in Readers : ReaderInv(q)'
  BY <1>1, OthersUntouched DEF IndInv
<1>. QED  BY <1>1, <1>2, <1>3 DEF IndInv

\* newPressureState: no section is under way and nothing is cached.
LEMMA InitIndInv == Init => IndInv
<1>. SUFFICES ASSUME Init PROVE IndInv
  OBVIOUS
<1>1. Blank \in Memory /\ Blank.seq = 0 /\ script = <<>> /\ f = Blank
  BY DEF Init, Blank, Memory
<1>2. WriterInv
  BY <1>1 DEF WriterInv, Orderly
<1>3. /\ got \in [Readers -> Memory] /\ at \in [Readers -> 0..13]
      /\ asked \in [Readers -> Epochs \cup {NoSample}]
      /\ DOMAIN result = Readers
  BY <1>1 DEF Init
<1>4. ASSUME NEW r \in Readers
      PROVE  ReaderInv(r)
  <2>1. at[r] = 0 /\ asked[r] = NoSample /\ got[r] = Blank
    BY DEF Init
  <2>. QED  BY <1>1, <2>1, ProgramFacts DEF ReaderInv
<1>. QED  BY <1>2, <1>3, <1>4 DEF IndInv

\* Every step of writer and reader keeps the invariant.
LEMMA NextIndInv == IndInv /\ [Next]_vars => IndInv'
<1>. SUFFICES ASSUME IndInv, [Next]_vars PROVE IndInv'
  OBVIOUS
<1>1. CASE Writer
  BY <1>1, WriterInductive
<1>2. CASE Store
  BY <1>2, StoreInductive
<1>3. ASSUME NEW r \in Readers, NEW e \in Epochs, Call(r, e)
      PROVE  IndInv'
  BY <1>3, CallInductive
<1>4. ASSUME NEW r \in Readers, Reader(r)
      PROVE  IndInv'
  <2>1. CASE Load(r)
    BY <2>1, LoadInductive
  <2>2. CASE Miss(r)
    BY <2>2, FinishInductive DEF Miss
  <2>3. CASE Hit(r)
    BY <2>3, FinishInductive DEF Hit
  <2>. QED  BY <1>4, <2>1, <2>2, <2>3 DEF Reader
<1>5. CASE UNCHANGED vars
  <2>1. WriterInv'
    BY <1>5 DEF vars, IndInv, WriterInv, Orderly
  <2>2. \A q \in Readers : ReaderInv(q)'
    BY <1>5, OthersUntouched DEF vars, IndInv
  <2>. QED  BY <1>5, <2>1, <2>2 DEF vars, IndInv
<1>. QED  BY <1>1, <1>2, <1>3, <1>4, <1>5 DEF Next

-----------------------------------------------------------------------------
(* The refinement                                                          *)

\* What a reader holds, by how far it has come.
LEMMA HeldFacts ==
    ASSUME IndInv, NEW r \in Readers
    PROVE  /\ at[r] < 4 => Held(r) = NoSample
           /\ at[r] \in 4..9 /\ f.seq = got[r].seq => Held(r) = Sample(f)
           /\ at[r] \in 4..9 /\ f.seq # got[r].seq => Held(r) = NoSample
           /\ at[r] > 9 => Held(r) = Sample(got[r])
           /\ at[r] \in 0..13
  BY ProgramFacts DEF IndInv, Held

\* At the second look at the number the reader has the sample that is stored.
LEMMA HeldAtRecheck ==
    ASSUME IndInv, NEW r \in Readers, at[r] = 9, f.seq = got[r].seq
    PROVE  Sample(f) = Sample(got[r])
<1>1. /\ f \in Memory /\ got[r] \in Memory /\ at[r] \in 1..Recheck
      /\ \A n \in LoadedBy(9) : got[r][n] = f[n]
  BY ProgramFacts DEF IndInv, WriterInv, ReaderInv
<1>. QED  BY <1>1, LoadedFacts, SameSample

\* A store is a write of the abstract cell.
LEMMA StoreRefines ==
    ASSUME IndInv, IndInv', Store
    PROVE  Abstract!Write
<1>1. /\ f \in Memory /\ f' \in Memory /\ f'.seq >= f.seq
      /\ ~Odd(f.seq) => \A n \in DataFields : f'[n] = f[n]
      /\ UNCHANGED <<at, asked, got, result>>
  BY StoreStep DEF Store, IndInv, WriterInv
<1>2. Offered' \in [DataFields -> Nat] \cup {NoSample}
  BY <1>1, SampleFacts DEF Offered
<1>3. ASSUME NEW r \in Readers
      PROVE  Held(r)' \in {NoSample, Held(r)}
  <2>1. at'[r] = at[r] /\ got'[r] = got[r] /\ at[r] \in 0..13 /\ ReaderInv(r)
    BY <1>1 DEF IndInv
  <2>2. CASE at[r] < 4
    BY <2>1, <2>2, ProgramFacts DEF Held
  <2>3. CASE at[r] > 9
    BY <2>1, <2>3, ProgramFacts DEF Held
  <2>4. CASE at[r] \in 4..9 /\ f'.seq = got[r].seq
    <3>1. f.seq = got[r].seq /\ ~Odd(f.seq)
      <4>1. got[r].seq <= f.seq /\ ~Odd(got[r].seq)
        BY <2>1, <2>4 DEF ReaderInv
      <4>2. f.seq \in Nat /\ f'.seq \in Nat
        BY <1>1 DEF Memory
      <4>. QED  BY <1>1, <2>4, <4>1, <4>2
    <3>2. Sample(f') = Sample(f)
      BY <1>1, <3>1, SameSample
    <3>. QED  BY <2>1, <2>4, <3>1, <3>2, ProgramFacts DEF Held
  <2>5. CASE at[r] \in 4..9 /\ f'.seq # got[r].seq
    BY <2>1, <2>5, ProgramFacts DEF Held
  <2>. QED  BY <2>1, <2>2, <2>3, <2>4, <2>5
<1>4. \E lost \in SUBSET Readers :
         [r \in Readers |-> Held(r)']
           = [r \in Readers |-> IF r \in lost THEN NoSample
                                ELSE [q \in Readers |-> Held(q)][r]]
  <2>. DEFINE gone == {r \in Readers : Held(r)' = NoSample}
  <2>1. gone \in SUBSET Readers
    OBVIOUS
  <2>2. \A r \in Readers : Held(r)' = IF r \in gone THEN NoSample
                                      ELSE [q \in Readers |-> Held(q)][r]
    BY <1>3
  <2>. QED  BY <2>1, <2>2
<1>. QED  BY <1>1, <1>2, <1>4 DEF Abstract!Write

\* A step that leaves every other reader and the shared memory alone leaves what
\* those readers hold alone.
LEMMA OthersHold ==
    ASSUME NEW q \in Readers, f' = f, at'[q] = at[q], got'[q] = got[q]
    PROVE  Held(q)' = Held(q)
  BY DEF Held

\* A reader begins: the cell is read at some moment from here on.
LEMMA CallRefines ==
    ASSUME IndInv, IndInv', NEW r \in Readers, NEW e \in Epochs, Call(r, e)
    PROVE  Abstract!Ask(r, e)
<1>1. /\ at[r] = 0 /\ at' = [at EXCEPT ![r] = 1]
      /\ asked' = [asked EXCEPT ![r] = e]
      /\ result' = [result EXCEPT ![r] = NoSample]
      /\ UNCHANGED <<f, got>>
  BY DEF Call
<1>2. asked[r] = NoSample /\ at'[r] = 1 /\ at \in [Readers -> 0..13]
  BY <1>1 DEF IndInv, ReaderInv
<1>3. Held(r) = NoSample /\ Held(r)' = NoSample
  BY <1>1, <1>2, ProgramFacts DEF Held
<1>4. \A q \in Readers : Held(q)' = Held(q)
  BY <1>1, <1>2, <1>3, OthersHold
<1>5. Offered' = Offered
  BY <1>1 DEF Offered
<1>. QED  BY <1>1, <1>2, <1>4, <1>5 DEF Abstract!Ask

\* The load of the refresh flag is the moment the reader looks at the cell; the
\* other loads change nothing a caller can tell.
LEMMA LoadRefines ==
    ASSUME IndInv, IndInv', NEW r \in Readers, Load(r)
    PROVE  Abstract!Look(r) \/ UNCHANGED Abstract!vars
<1>1. /\ at[r] \in 1..12 /\ at'[r] = at[r] + 1
      /\ \A q \in Readers \ {r} : at'[q] = at[q] /\ got'[q] = got[q]
      /\ UNCHANGED <<f, script, asked, result>>
  BY LoadFacts
<1>2. /\ f \in Memory /\ got[r] \in Memory /\ got'[r] \in Memory /\ ReaderInv(r)
  BY DEF IndInv, WriterInv
<1>3. \A q \in Readers \ {r} : Held(q)' = Held(q)
  BY <1>1, OthersHold
<1>4. Offered' = Offered
  BY <1>1 DEF Offered
<1>5. ASSUME Held(r)' = Held(r)
      PROVE  UNCHANGED Abstract!vars
  BY <1>1, <1>3, <1>4, <1>5 DEF Abstract!vars
<1>6. CASE at[r] \in 1..2
  BY <1>1, <1>5, <1>6, ProgramFacts DEF Held
<1>7. CASE at[r] = 3
  <2>1. /\ got'[r] = [got[r] EXCEPT !.refresh = f.refresh] /\ ~f.refresh
        /\ at'[r] = 4
    BY <1>1, <1>7, LoadFacts, ProgramFacts DEF Acceptable
  <2>2. got'[r].seq = got[r].seq
    BY <1>2, <2>1 DEF Memory
  <2>3. Held(r) = NoSample
    BY <1>7, ProgramFacts DEF Held
  <2>4. CASE f.seq = got[r].seq
    <3>1. f.init
      <4>1. "init" \in LoadedBy(3)
        BY LoadedFacts
      <4>2. got[r]["init"] = f["init"] /\ got[r].init
        BY <1>2, <1>7, <2>4, <4>1, ProgramFacts DEF ReaderInv
      <4>. QED  BY <4>2
    <3>2. f.seq # 0 /\ ~Odd(f.seq)
      BY <1>2, <1>7, <2>4 DEF ReaderInv
    <3>3. Offered = Sample(f)
      BY <2>1, <3>1, <3>2 DEF Offered
    <3>4. Held(r)' = Sample(f)
      BY <1>1, <2>1, <2>2, <2>4, ProgramFacts DEF Held
    <3>5. [q \in Readers |-> Held(q)'] = [[q \in Readers |-> Held(q)] EXCEPT ![r] = Offered]
      BY <1>3, <3>3, <3>4
    <3>6. asked[r] # NoSample /\ Offered # NoSample
      BY <1>2, <1>7, <3>3, SampleFacts DEF ReaderInv
    <3>. QED  BY <1>1, <1>4, <2>3, <3>5, <3>6 DEF Abstract!Look
  <2>5. CASE f.seq # got[r].seq
    <3>1. Held(r)' = NoSample
      BY <1>1, <2>1, <2>2, <2>5, ProgramFacts DEF Held
    <3>. QED  BY <1>5, <2>3, <3>1
  <2>. QED  BY <2>4, <2>5
<1>8. CASE at[r] \in 4..8
  <2>1. got'[r] = [got[r] EXCEPT ![Program[at[r]]] = f[Program[at[r]]]]
    <3>1. at[r] \in 1..9
      BY <1>8
    <3>. QED  BY <3>1, LoadFacts
  <2>2. Program[at[r]] # "seq"
    BY <1>8, ProgramFacts
  <2>3. got'[r].seq = got[r].seq
    BY <1>2, <2>1, <2>2 DEF Memory
  <2>. QED  BY <1>1, <1>5, <1>8, <2>3, ProgramFacts DEF Held
<1>9. CASE at[r] = 9
  <2>1. f.seq = got[r].seq /\ got'[r] = [got[r] EXCEPT !.seq = f.seq]
    BY <1>1, <1>9, LoadFacts, ProgramFacts DEF Acceptable
  <2>2. got'[r] = got[r]
    BY <1>2, <2>1 DEF Memory
  <2>3. Sample(f) = Sample(got[r])
    BY <1>9, <2>1, HeldAtRecheck
  <2>4. Held(r) = Sample(f) /\ Held(r)' = Sample(got[r])
    BY <1>1, <1>9, <2>1, <2>2, ProgramFacts DEF Held
  <2>. QED  BY <1>5, <2>3, <2>4
<1>10. CASE at[r] \in 10..12
  <2>1. got' = got
    <3>1. at[r] > 9
      BY <1>10
    <3>. QED  BY <3>1, LoadFacts
  <2>. QED  BY <1>1, <1>5, <1>10, <2>1, ProgramFacts DEF Held
<1>. QED  BY <1>1, <1>6, <1>7, <1>8, <1>9, <1>10

\* What the end of a call does to the abstract state.
LEMMA FinishRefines ==
    ASSUME IndInv, NEW r \in Readers, NEW res, at[r] # 0, Finish(r, res)
    PROVE  /\ asked[r] # NoSample
           /\ asked' = [asked EXCEPT ![r] = NoSample]
           /\ result' = [result EXCEPT ![r] = res]
           /\ [q \in Readers |-> Held(q)'] =
                [[q \in Readers |-> Held(q)] EXCEPT ![r] = NoSample]
           /\ Offered' = Offered
<1>1. /\ at' = [at EXCEPT ![r] = 0] /\ asked' = [asked EXCEPT ![r] = NoSample]
      /\ got' = [got EXCEPT ![r] = Blank] /\ result' = [result EXCEPT ![r] = res]
      /\ f' = f
  BY DEF Finish
<1>2. asked[r] # NoSample /\ at'[r] = 0
  BY <1>1 DEF IndInv, ReaderInv
<1>3. Held(r)' = NoSample
  BY <1>2, ProgramFacts DEF Held
<1>4. \A q \in Readers \ {r} : Held(q)' = Held(q)
  BY <1>1, OthersHold DEF IndInv
<1>5. Offered' = Offered
  BY <1>1 DEF Offered
<1>. QED  BY <1>1, <1>2, <1>3, <1>4, <1>5

\* A read that succeeds returns what the cell held at one moment of the call.
LEMMA HitRefines ==
    ASSUME IndInv, NEW r \in Readers, Hit(r)
    PROVE  Abstract!Return(r)
<1>1. at[r] = 13 /\ Finish(r, Sample(got[r]))
  BY ProgramFacts DEF Hit
<1>2. Held(r) = Sample(got[r])
  BY <1>1, ProgramFacts DEF Held
<1>3. got[r] \in Memory /\ got[r].epoch = asked[r]
  BY <1>1 DEF IndInv, ReaderInv
<1>4. Held(r) # NoSample /\ Held(r).epoch = asked[r]
  BY <1>2, <1>3, SampleFacts
<1>. QED  BY <1>1, <1>2, <1>4, FinishRefines DEF Abstract!Return

\* A read that fails returns no sample.
LEMMA MissRefines ==
    ASSUME IndInv, NEW r \in Readers, Miss(r)
    PROVE  Abstract!Miss(r)
  BY FinishRefines DEF Miss, Abstract!Miss

\* Every step is one of the cell, or leaves it alone.
LEMMA StepRefines ==
    ASSUME IndInv, IndInv', [Next]_vars
    PROVE  [Abstract!Next]_(Abstract!vars)
<1>1. CASE Writer
  <2>1. UNCHANGED <<f, at, asked, got, result>>
    BY <1>1, WriterBegins
  <2>. QED  BY <2>1 DEF Abstract!vars, Offered, Held
<1>2. CASE Store
  BY <1>2, StoreRefines DEF Abstract!Next
<1>3. ASSUME NEW r \in Readers, NEW e \in Epochs, Call(r, e)
      PROVE  Abstract!Next
  BY <1>3, CallRefines DEF Abstract!Next
<1>4. ASSUME NEW r \in Readers, Reader(r)
      PROVE  [Abstract!Next]_(Abstract!vars)
  <2>1. CASE Load(r)
    BY <2>1, LoadRefines DEF Abstract!Next
  <2>2. CASE Miss(r)
    BY <2>2, MissRefines DEF Abstract!Next
  <2>3. CASE Hit(r)
    BY <2>3, HitRefines DEF Abstract!Next
  <2>. QED  BY <1>4, <2>1, <2>2, <2>3 DEF Reader
<1>5. CASE UNCHANGED vars
  BY <1>5 DEF vars, Abstract!vars, Offered, Held
<1>. QED  BY <1>1, <1>2, <1>3, <1>4, <1>5 DEF Next

\* At the start both hold no sample.
LEMMA InitRefines == Init => Abstract!Init
<1>. SUFFICES ASSUME Init PROVE Abstract!Init
  OBVIOUS
<1>1. Offered = NoSample
  BY DEF Init, Blank, Offered
<1>2. ASSUME NEW r \in Readers
      PROVE  Held(r) = NoSample
  <2>1. at[r] = 0
    BY DEF Init
  <2>. QED  BY <2>1, ProgramFacts DEF Held
<1>. QED  BY <1>1, <1>2 DEF Init, Abstract!Init

\* The memory and every reader stay as IndInv says (the writers of pressure.go
\* under pressureWriteMu, readValidCachedSampleWithPubSeq).
THEOREM SampleMemoryInvariant == Spec => []IndInv
  BY InitIndInv, NextIndInv, PTL DEF Spec

\* For any number of readers, epochs and values, the ten atomics behind
\* cachedPublishSeq implement one cell that is read and written in one step: a
\* reader returns a whole sample of the epoch it asked for, offered at one moment
\* of its call, or nothing (readValidCachedSampleWithPubSeq).
THEOREM CachedSampleImplementsCell == Spec => ImplementsFreshSample
<1>1. Init => Abstract!Init
  BY InitRefines
<1>2. IndInv /\ IndInv' /\ [Next]_vars => [Abstract!Next]_(Abstract!vars)
  BY StepRefines
<1>. QED  BY <1>1, <1>2, SampleMemoryInvariant, PTL
          DEF Spec, ImplementsFreshSample, Abstract!Spec
=============================================================================
