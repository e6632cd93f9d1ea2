--------------------------- MODULE ArenaHashProofs ---------------------------
(***************************************************************************)
(* Theorems about ArenaHash, for any keys, hashes, tags and table sizes.   *)
(*                                                                         *)
(* The inductive invariant is HashInv: there is a set S of nodes such that *)
(* the table holds exactly the slots of the nodes in S, one for each hash  *)
(* there is, each where probing reaches it, in a table at most four fifths *)
(* full, and each other entry is in the peer list of its hash, once.       *)
(*                                                                         *)
(* The lemmas come in the order of the model: loops and probing, placing,  *)
(* backshift deletion, copying, the table with its nodes, the lists, the   *)
(* operations on both, erasing, rebuilding and compaction, and at last the *)
(* actions.  Helpers such as With and Without name a function or a set     *)
(* with one element changed.                                               *)
(***************************************************************************)
EXTENDS ArenaHash, FiniteSetTheorems, SequenceTheorems, WellFoundedInduction, TLAPS

\* A set of natural numbers that is not empty has a least element.
LEMMA LeastNatural ==
    ASSUME NEW T \in SUBSET Nat, T # {}
    PROVE  \E x \in T : \A y \in T : x <= y
<1>1. PICK x \in T : \A y \in T : ~(<<y, x>> \in OpToRel(<, Nat))
  BY WFMin, NatLessThanWellFounded
<1>2. \A y \in T : ~(y < x)
  BY <1>1 DEF OpToRel
<1> QED BY <1>2

\* What holds of 0 and passes from each number below n to the next holds up to n.
LEMMA Counting ==
    ASSUME NEW n \in Nat, NEW S, 0 \in S,
           \A d \in 0..n : d \in S /\ d < n => d + 1 \in S
    PROVE  \A d \in 0..n : d \in S
<1> SUFFICES ASSUME NEW d \in 0..n, d \notin S PROVE FALSE
  OBVIOUS
<1> DEFINE T == {e \in 0..n : e \notin S}
<1>1. T \in SUBSET Nat /\ T # {}
  OBVIOUS
<1>2. PICK x \in T : \A y \in T : x <= y
  BY <1>1, LeastNatural
<1>3. x # 0 /\ x - 1 \in 0..n /\ x - 1 < x
  BY <1>2
<1>4. x - 1 \in S
  BY <1>2, <1>3
<1> QED BY <1>2, <1>3, <1>4

\* The states of a loop that starts at init and steps by F, n times.
IsRun(f, n, init, F) ==
    f = [d \in 0..n |-> IF d = 0 THEN init ELSE F[<<d, f[d - 1]>>]]

\* A loop that keeps within R has a run: the states it goes through.
LEMMA RunExists ==
    ASSUME NEW n \in Nat, NEW R, NEW F, NEW init, <<0, init>> \in R,
           \A d \in 0..n : \A s : <<d, s>> \in R /\ d < n => <<d + 1, F[<<d + 1, s>>]>> \in R
    PROVE  \E f : /\ IsRun(f, n, init, F)
                  /\ \A d \in 0..n : <<d, f[d]>> \in R
<1> DEFINE Run(f, m) ==
             /\ f = [d \in 0..m |-> IF d = 0 THEN init ELSE F[<<d, f[d - 1]>>]]
             /\ \A d \in 0..m : <<d, f[d]>> \in R
           S == {m \in 0..n : \E f : Run(f, m)}
<1>1. 0 \in S
  <2> DEFINE g == [d \in 0..0 |-> init]
  <2>1. g[0] = init
    OBVIOUS
  <2>2. Run(g, 0)
    BY <2>1
  <2>3. \E f : Run(f, 0)
    <3> HIDE DEF Run, g
    <3> QED BY <2>2
  <2> QED BY <2>3
<1>2. ASSUME NEW d \in 0..n, d \in S, d < n PROVE d + 1 \in S
  <2>1. PICK f : Run(f, d)
    BY <1>2
  <2> DEFINE g == [e \in 0..(d + 1) |-> IF e = d + 1 THEN F[<<d + 1, f[d]>>] ELSE f[e]]
  <2>2. g = [e \in 0..(d + 1) |-> IF e = 0 THEN init ELSE F[<<e, g[e - 1]>>]]
    <3>1. ASSUME NEW e \in 0..(d + 1)
          PROVE  g[e] = IF e = 0 THEN init ELSE F[<<e, g[e - 1]>>]
      <4>1. CASE e = d + 1
        BY <4>1
      <4>2. CASE e # d + 1
        <5>1. e \in 0..d
          BY <4>2
        <5>2. f[e] = IF e = 0 THEN init ELSE F[<<e, f[e - 1]>>]
          BY <2>1, <5>1
        <5>3. g[e] = f[e] /\ (e # 0 => g[e - 1] = f[e - 1])
          BY <5>1, <4>2
        <5> QED BY <5>2, <5>3
      <4> QED BY <4>1, <4>2
    <3> QED BY <3>1
  <2>3. \A e \in 0..(d + 1) : <<e, g[e]>> \in R
    <3> TAKE e \in 0..(d + 1)
    <3>1. CASE e = d + 1
      <4>1. <<d, f[d]>> \in R
        BY <2>1
      <4>2. g[e] = F[<<d + 1, f[d]>>]
        BY <3>1
      <4> QED BY <4>1, <4>2, <3>1, <1>2
    <3>2. CASE e # d + 1
      BY <3>2, <2>1
    <3> QED BY <3>1, <3>2
  <2>4. Run(g, d + 1)
    BY <2>2, <2>3
  <2>5. \E h : Run(h, d + 1)
    <3> HIDE DEF Run, g
    <3> QED BY <2>4
  <2>6. d + 1 \in 0..n
    BY <1>2
  <2> QED BY <2>5, <2>6
<1>3. n \in S
  <2> HIDE DEF S
  <2> QED BY <1>1, <1>2, Counting
<1> QED BY <1>3 DEF IsRun


\* The powers of two, as a loop: each is twice the one before, and they grow.
LEMMA PowersGrow ==
    ASSUME NEW n \in Nat
    PROVE  /\ Powers(n) = [i \in 0..n |-> IF i = 0 THEN 1 ELSE 2 * Powers(n)[i - 1]]
           /\ \A i \in 0..n : Powers(n)[i] \in Nat /\ Powers(n)[i] > i
<1> DEFINE F == [x \in Nat \X Nat |-> 2 * x[2]]
           R == {x \in Nat \X Nat : x[2] > x[1]}
<1>1. PICK f : /\ IsRun(f, n, 1, F)
               /\ \A d \in 0..n : <<d, f[d]>> \in R
  <2>1. <<0, 1>> \in R
    OBVIOUS
  <2>2. \A d \in 0..n : \A s : <<d, s>> \in R /\ d < n => <<d + 1, F[<<d + 1, s>>]>> \in R
    <3> SUFFICES ASSUME NEW d \in 0..n, NEW s, <<d, s>> \in R
                 PROVE  <<d + 1, F[<<d + 1, s>>]>> \in R
      OBVIOUS
    <3>1. s \in Nat /\ s > d /\ d \in Nat
      OBVIOUS
    <3>2. F[<<d + 1, s>>] = 2 * s
      BY <3>1
    <3> QED BY <3>1, <3>2
  <2> HIDE DEF F, R
  <2> QED BY <2>1, <2>2, RunExists
<1>2. f = [i \in 0..n |-> IF i = 0 THEN 1 ELSE 2 * f[i - 1]]
  <2>1. ASSUME NEW i \in 0..n PROVE f[i] = IF i = 0 THEN 1 ELSE 2 * f[i - 1]
    <3>1. CASE i = 0
      BY <1>1, <3>1 DEF IsRun
    <3>2. CASE i # 0
      <4>1. <<i - 1, f[i - 1]>> \in R
        BY <1>1, <3>2
      <4>2. f[i - 1] \in Nat
        BY <4>1
      <4>3. f[i] = F[<<i, f[i - 1]>>]
        BY <1>1, <3>2 DEF IsRun
      <4> QED BY <4>2, <4>3, <3>2
    <3> QED BY <3>1, <3>2
  <2> QED BY <2>1, <1>1 DEF IsRun
<1>3. Powers(n) = [i \in 0..n |-> IF i = 0 THEN 1 ELSE 2 * Powers(n)[i - 1]]
  BY <1>2 DEF Powers
<1> DEFINE S == {i \in 0..n : Powers(n)[i] \in Nat /\ Powers(n)[i] > i}
<1>4. \A i \in 0..n : i \in S
  <2>1. 0 \in S
    BY <1>3
  <2>2. \A d \in 0..n : d \in S /\ d < n => d + 1 \in S
    BY <1>3
  <2> HIDE DEF S
  <2> QED BY <2>1, <2>2, Counting
<1> QED BY <1>3, <1>4


-----------------------------------------------------------------------------
(* Tables and probing                                                      *)

Slot == [tag : Nat, id : Nat]
Table(n) == [0..(n - 1) -> Slot]
Occ(t) == {i \in DOMAIN t : t[i] # Empty}

\* Probing for the slot at i passes no empty slot.
Reached(t, i) ==
    \A j \in DOMAIN t :
        Distance(Cap(t), t[i].tag % Cap(t), j) < Distance(Cap(t), t[i].tag % Cap(t), i)
            => t[j] # Empty

\* Each slot is found by probing from its home.
Reachable(t) == \A i \in Occ(t) : Reached(t, i)

\* The capacity of a table is the number of its indices.
LEMMA CapIs ==
    ASSUME NEW n \in Nat \ {0}, NEW t \in Table(n)
    PROVE  Cap(t) = n /\ DOMAIN t = 0..(n - 1) /\ IsFiniteSet(DOMAIN t)
<1>1. DOMAIN t = 0..(n - 1)
  BY DEF Table
<1>2. IsFiniteSet(0..(n - 1)) /\ Cardinality(0..(n - 1)) = n
  BY FS_Interval
<1> QED BY <1>1, <1>2 DEF Cap

\* Every tag has its home in the table.
LEMMA HomeType ==
    ASSUME NEW n \in Nat \ {0}, NEW tag \in Nat
    PROVE  tag % n \in 0..(n - 1)
  OBVIOUS

\* Probing takes less than n steps from any home to any index.
LEMMA DistanceType ==
    ASSUME NEW n \in Nat \ {0}, NEW h \in 0..(n - 1), NEW i \in 0..(n - 1)
    PROVE  Distance(n, h, i) \in Nat /\ Distance(n, h, i) < n
  BY DEF Distance

\* Probing reaches a different index after each number of steps.
LEMMA DistanceInjective ==
    ASSUME NEW n \in Nat \ {0}, NEW h \in 0..(n - 1), NEW i \in 0..(n - 1),
           NEW j \in 0..(n - 1), Distance(n, h, i) = Distance(n, h, j)
    PROVE  i = j
  BY DEF Distance

\* A table with fewer entries than slots has an empty one.
LEMMA EmptyExists ==
    ASSUME NEW n \in Nat \ {0}, NEW t \in Table(n), Cardinality(Occ(t)) < n
    PROVE  \E i \in 0..(n - 1) : t[i] = Empty
<1>1. SUFFICES ASSUME \A i \in 0..(n - 1) : t[i] # Empty PROVE FALSE
  OBVIOUS
<1>2. Occ(t) = 0..(n - 1)
  BY <1>1, CapIs DEF Occ
<1> QED BY <1>2, FS_Interval

\* Probing ends at an empty slot or at a stop, and passes over neither.
LEMMA ProbeEnds ==
    ASSUME NEW n \in Nat \ {0}, NEW t \in Table(n), NEW tag \in Nat,
           NEW S \in SUBSET (0..(n - 1)), \E i \in 0..(n - 1) : t[i] = Empty
    PROVE  /\ Probe(t, tag, S) \in 0..(n - 1)
           /\ t[Probe(t, tag, S)] = Empty \/ Probe(t, tag, S) \in S
           /\ \A j \in 0..(n - 1) :
                Distance(n, tag % n, j) < Distance(n, tag % n, Probe(t, tag, S))
                    => t[j] # Empty /\ j \notin S
<1> DEFINE h == tag % n
           ends == {i \in DOMAIN t : t[i] = Empty} \cup S
           T == {Distance(n, h, i) : i \in ends}
<1>1. h \in 0..(n - 1)
  BY HomeType
<1>2. ends \subseteq 0..(n - 1) /\ ends # {}
  BY CapIs
<1>3. PICK i \in ends : \A j \in ends : Distance(n, h, i) <= Distance(n, h, j)
  <2> HIDE DEF h, ends
  <2>1. T \in SUBSET Nat /\ T # {}
    BY <1>1, <1>2, DistanceType
  <2>2. PICK x \in T : \A y \in T : x <= y
    BY <2>1, LeastNatural
  <2> QED BY <2>2
<1>4. Probe(t, tag, S) = CHOOSE x \in ends : \A j \in ends :
                             Distance(n, h, x) <= Distance(n, h, j)
  BY CapIs DEF Probe
<1> DEFINE p == Probe(t, tag, S)
<1>5. p \in ends /\ \A j \in ends : Distance(n, h, p) <= Distance(n, h, j)
  <2> HIDE DEF ends, h
  <2> QED BY <1>3, <1>4
<1>6. p \in 0..(n - 1)
  BY <1>2, <1>5
<1>7. ASSUME NEW j \in 0..(n - 1), Distance(n, h, j) < Distance(n, h, p)
      PROVE  j \notin ends
  <2> HIDE DEF ends, h, p
  <2>1. Distance(n, h, j) \in Nat /\ Distance(n, h, p) \in Nat
    BY <1>1, <1>6, DistanceType
  <2> QED BY <2>1, <1>7, <1>5
<1>8. DOMAIN t = 0..(n - 1)
  BY CapIs
<1> HIDE DEF p
<1> QED BY <1>5, <1>6, <1>7, <1>8 DEF p

\* An index that probing may end at, with nothing to end at before it, is where
\* probing ends.
LEMMA ProbeIs ==
    ASSUME NEW n \in Nat \ {0}, NEW t \in Table(n), NEW tag \in Nat,
           NEW S \in SUBSET (0..(n - 1)), \E i \in 0..(n - 1) : t[i] = Empty,
           NEW i \in 0..(n - 1), t[i] = Empty \/ i \in S,
           \A j \in 0..(n - 1) : Distance(n, tag % n, j) < Distance(n, tag % n, i)
                                     => t[j] # Empty /\ j \notin S
    PROVE  Probe(t, tag, S) = i
<1> DEFINE p == Probe(t, tag, S)
           h == tag % n
<1>1. /\ p \in 0..(n - 1)
      /\ t[p] = Empty \/ p \in S
      /\ \A j \in 0..(n - 1) : Distance(n, h, j) < Distance(n, h, p)
                                   => t[j] # Empty /\ j \notin S
  BY ProbeEnds
<1>2. h \in 0..(n - 1)
  BY HomeType
<1>3. Distance(n, h, p) \in Nat /\ Distance(n, h, i) \in Nat
  BY <1>1, <1>2, DistanceType
<1>4. Distance(n, h, p) = Distance(n, h, i)
  <2> HIDE DEF p, h
  <2>0. \A j \in 0..(n - 1) : Distance(n, h, j) < Distance(n, h, i)
                                     => t[j] # Empty /\ j \notin S
    BY DEF h
  <2>1. ~(Distance(n, h, p) < Distance(n, h, i))
    BY <1>1, <2>0
  <2>2. ~(Distance(n, h, i) < Distance(n, h, p))
    BY <1>1
  <2> QED BY <2>1, <2>2, <1>3
<1> HIDE DEF p, h
<1>5. p = i
  BY <1>1, <1>2, <1>4, DistanceInjective
<1> QED BY <1>5 DEF p


-----------------------------------------------------------------------------
(* Filling and overwriting slots                                           *)

\* The slots in the places D are different from each other.
Distinct(t, D) == \A i, j \in D : t[i] = t[j] => i = j

\* The slots in the places D.
Held(t, D) == {t[i] : i \in D}

\* The occupied indices are finitely many.
LEMMA OccFinite ==
    ASSUME NEW n \in Nat \ {0}, NEW t \in Table(n)
    PROVE  IsFiniteSet(Occ(t)) /\ Occ(t) \subseteq 0..(n - 1) /\ Cardinality(Occ(t)) \in Nat
<1>1. Occ(t) \subseteq 0..(n - 1)
  BY CapIs DEF Occ
<1>2. IsFiniteSet(Occ(t))
  BY <1>1, CapIs, FS_Subset DEF Occ
<1> QED BY <1>1, <1>2, FS_CardinalityType

\* Table t with slot s at index i.
With(t, i, s) == [t EXCEPT ![i] = s]

\* Index i is the first empty one from the home of tag on.
FirstFree(n, t, tag, i) ==
    /\ i \in 0..(n - 1) /\ t[i] = Empty
    /\ \A j \in 0..(n - 1) : Distance(n, tag % n, j) < Distance(n, tag % n, i)
                                 => t[j] # Empty

\* An empty slot at the end of a probing may be filled.
LEMMA FillingKeeps ==
    ASSUME NEW n \in Nat \ {0}, NEW t \in Table(n), Reachable(t),
           NEW s \in Slot, s # Empty, NEW i, FirstFree(n, t, s.tag, i),
           NEW u, u = With(t, i, s)
    PROVE  /\ u \in Table(n)
           /\ Reachable(u)
           /\ Occ(u) = Occ(t) \cup {i}
           /\ i \notin Occ(t)
           /\ Cardinality(Occ(u)) = Cardinality(Occ(t)) + 1
<1>0. /\ i \in 0..(n - 1) /\ t[i] = Empty
      /\ \A j \in 0..(n - 1) :
           Distance(n, s.tag % n, j) < Distance(n, s.tag % n, i) => t[j] # Empty
  BY DEF FirstFree
<1>1. u \in Table(n) /\ \A j \in 0..(n - 1) : u[j] = IF j = i THEN s ELSE t[j]
  BY <1>0 DEF Table, With
<1>2. DOMAIN t = 0..(n - 1) /\ DOMAIN u = 0..(n - 1) /\ Cap(t) = n /\ Cap(u) = n
  BY <1>1, CapIs
<1>3. Occ(u) = Occ(t) \cup {i} /\ i \notin Occ(t)
  BY <1>0, <1>1, <1>2 DEF Occ
<1>4. Cardinality(Occ(u)) = Cardinality(Occ(t)) + 1
  BY <1>3, OccFinite, FS_AddElement
<1>5. ASSUME NEW k \in Occ(u) PROVE Reached(u, k)
  <2>1. CASE k = i
    <3>1. u[k] = s
      BY <1>0, <1>1, <2>1
    <3> QED BY <3>1, <2>1, <1>0, <1>1, <1>2 DEF Reached
  <2>2. CASE k # i
    <3>1. k \in Occ(t) /\ u[k] = t[k]
      BY <1>5, <1>3, <2>2, <1>1, <1>2 DEF Occ
    <3>2. Reached(t, k)
      BY <3>1 DEF Reachable
    <3> QED BY <3>1, <3>2, <1>1, <1>2 DEF Reached
  <2> QED BY <2>1, <2>2
<1> QED BY <1>1, <1>3, <1>4, <1>5 DEF Reachable

\* A slot may be given to another node of the same tag.
LEMMA OverwritingKeeps ==
    ASSUME NEW n \in Nat \ {0}, NEW t \in Table(n), Reachable(t),
           NEW s \in Slot, s # Empty, NEW i \in Occ(t), t[i].tag = s.tag,
           NEW u, u = With(t, i, s)
    PROVE  u \in Table(n) /\ Reachable(u) /\ Occ(u) = Occ(t)
<1>0. i \in 0..(n - 1)
  BY OccFinite
<1>1. u \in Table(n) /\ \A j \in 0..(n - 1) : u[j] = IF j = i THEN s ELSE t[j]
  BY <1>0 DEF Table, With
<1>2. DOMAIN t = 0..(n - 1) /\ DOMAIN u = 0..(n - 1) /\ Cap(t) = n /\ Cap(u) = n
  BY <1>1, CapIs
<1>3. Occ(u) = Occ(t)
  BY <1>1, <1>2 DEF Occ
<1>4. ASSUME NEW k \in Occ(u) PROVE Reached(u, k)
  <2>1. k \in Occ(t) /\ u[k].tag = t[k].tag
    BY <1>4, <1>3, <1>1, <1>2 DEF Occ
  <2>2. Reached(t, k)
    BY <2>1 DEF Reachable
  <2>3. \A j \in 0..(n - 1) : t[j] # Empty => u[j] # Empty
    BY <1>1
  <2> QED BY <2>1, <2>2, <2>3, <1>2 DEF Reached
<1> QED BY <1>1, <1>3, <1>4 DEF Reachable

\* Where Place puts a slot.
LEMMA PlaceFills ==
    ASSUME NEW n \in Nat \ {0}, NEW t \in Table(n), Reachable(t),
           NEW s \in Slot, s # Empty, \E i \in 0..(n - 1) : t[i] = Empty
    PROVE  \E i \in 0..(n - 1) :
               /\ Place(t, s) = With(t, i, s)
               /\ Place(t, s) \in Table(n)
               /\ Reachable(Place(t, s))
               /\ i \notin Occ(t)
               /\ Occ(Place(t, s)) = Occ(t) \cup {i}
               /\ Cardinality(Occ(Place(t, s))) = Cardinality(Occ(t)) + 1
<1> DEFINE i == Probe(t, s.tag, {})
<1>0. s.tag \in Nat
  BY DEF Slot
<1>1. /\ i \in 0..(n - 1) /\ t[i] = Empty
      /\ \A j \in 0..(n - 1) :
           Distance(n, s.tag % n, j) < Distance(n, s.tag % n, i) => t[j] # Empty
  BY <1>0, ProbeEnds
<1>a. FirstFree(n, t, s.tag, i)
  BY <1>1 DEF FirstFree
<1>2. Place(t, s) = With(t, i, s)
  BY DEF Place, With
<1> HIDE DEF i
<1>3. QED
  BY <1>1, <1>a, <1>2, FillingKeeps

-----------------------------------------------------------------------------
(* Backshift deletion                                                      *)

\* What lies between the gap and a slot, around the table.
LEMMA Between ==
    ASSUME NEW n \in Nat \ {0}, NEW h \in 0..(n - 1), NEW del \in 0..(n - 1),
           NEW gap \in 0..(n - 1), NEW i \in 0..(n - 1), NEW m \in Nat, m + 1 < n,
           Distance(n, del, gap) <= m, Distance(n, h, gap) < Distance(n, h, i),
           \/ Distance(n, del, i) < Distance(n, del, gap)
           \/ Distance(n, del, i) > m + 1
    PROVE  Distance(n, h, Ahead(n, del, m + 1)) < Distance(n, h, i)
  BY DEF Distance, Ahead

\* The index d places ahead is reached after d steps.
LEMMA AheadIs ==
    ASSUME NEW n \in Nat \ {0}, NEW del \in 0..(n - 1), NEW d \in 0..(n - 1)
    PROVE  /\ Ahead(n, del, d) \in 0..(n - 1)
           /\ Distance(n, del, Ahead(n, del, d)) = d
  BY DEF Distance, Ahead

SweepState(n) == [table : Table(n), gap : 0..(n - 1), done : BOOLEAN]

\* After d iterations of the loop, of which the first m found slots: the gap holds
\* a slot that is elsewhere too or was deleted, the other slots are those there
\* should be, each behind places that are taken, and those between the gap and the
\* place reached do not lie behind the gap.
Sweeping(n, t, del, m, d, r) ==
    /\ ~r.done => m = d
    /\ r.done => m + 1 < n /\ r.table[Ahead(n, del, m + 1)] = Empty
    /\ \A i \in 0..(n - 1) : Distance(n, del, i) <= m => i \in Occ(t)
    /\ Occ(r.table) = Occ(t)
    /\ Distance(n, del, r.gap) <= m
    /\ Held(r.table, Occ(t) \ {r.gap}) = Held(t, Occ(t) \ {del})
    /\ Distinct(r.table, Occ(t) \ {r.gap})
    /\ \A i \in Occ(t) \ {r.gap} : Reached(r.table, i)
    /\ \A i \in Occ(t) :
         LET h == r.table[i].tag % n
         IN  /\ Distance(n, del, r.gap) < Distance(n, del, i)
             /\ Distance(n, del, i) <= m
             => Distance(n, h, i) < Distance(n, h, r.gap)

\* The loop of backshiftDeleteSlot starts with the deleted slot as its gap.
LEMMA SweepStarts ==
    ASSUME NEW n \in Nat \ {0}, NEW t \in Table(n), Reachable(t), NEW del \in Occ(t),
           Distinct(t, Occ(t))
    PROVE  LET r == [table |-> t, gap |-> del, done |-> FALSE]
           IN  r \in SweepState(n) /\ Sweeping(n, t, del, 0, 0, r)
<1> DEFINE r == [table |-> t, gap |-> del, done |-> FALSE]
<1>0. del \in 0..(n - 1) /\ Occ(t) \subseteq 0..(n - 1)
  BY OccFinite
<1>1. r \in SweepState(n) /\ r.table = t /\ r.gap = del /\ r.done = FALSE
  BY <1>0 DEF SweepState
<1> HIDE DEF r
<1>2. Distance(n, del, del) = 0
  BY <1>0 DEF Distance
<1>3. \A i \in 0..(n - 1) : Distance(n, del, i) <= 0 => i = del
  BY <1>0 DEF Distance
<1>4. \A i \in Occ(t) : ~(0 < Distance(n, del, i) /\ Distance(n, del, i) <= 0)
  BY <1>0, DistanceType
<1>5. Distinct(t, Occ(t) \ {del})
  BY DEF Distinct
<1>6. \A i \in Occ(t) \ {del} : Reached(t, i)
  BY DEF Reachable
<1>7. Sweeping(n, t, del, 0, 0, r)
  BY <1>0, <1>1, <1>2, <1>3, <1>4, <1>5, <1>6 DEF Sweeping
<1> QED BY <1>1, <1>7 DEF r


\* Each iteration keeps this.
LEMMA SweepSteps ==
    ASSUME NEW n \in Nat \ {0}, NEW t \in Table(n), NEW del \in Occ(t),
           NEW d \in Nat, d + 1 < n, NEW r \in SweepState(n),
           NEW m \in Nat, m <= d, Sweeping(n, t, del, m, d, r)
    PROVE  /\ ShiftAt(r, Ahead(n, del, d + 1)) \in SweepState(n)
           /\ \E k \in 0..(d + 1) :
                Sweeping(n, t, del, k, d + 1, ShiftAt(r, Ahead(n, del, d + 1)))
<1> DEFINE at == Ahead(n, del, d + 1)
           slot == r.table[at]
           q == ShiftAt(r, at)
<1>0. del \in 0..(n - 1) /\ Occ(t) \subseteq 0..(n - 1)
  BY OccFinite
<1>a. d + 1 \in 0..(n - 1)
  OBVIOUS
<1>1. at \in 0..(n - 1) /\ Distance(n, del, at) = d + 1
  BY <1>0, <1>a, AheadIs
<1>2. r.table \in Table(n) /\ r.gap \in 0..(n - 1) /\ r.done \in BOOLEAN
  BY DEF SweepState
<1>3. Cap(r.table) = n /\ DOMAIN r.table = 0..(n - 1)
  BY <1>2, CapIs
<1>4. r.gap \in Occ(t)
  BY <1>2 DEF Sweeping
<1> HIDE DEF at
<1>5. CASE r.done \/ slot = Empty
  <2>1. q = [r EXCEPT !.done = TRUE]
    BY <1>5 DEF ShiftAt
  <2>2. q \in SweepState(n) /\ q.table = r.table /\ q.gap = r.gap /\ q.done = TRUE
    BY <2>1 DEF SweepState
  <2>3. m + 1 < n /\ r.table[Ahead(n, del, m + 1)] = Empty
    <3>1. CASE r.done
      BY <3>1 DEF Sweeping
    <3>2. CASE ~r.done
      BY <3>2, <1>5 DEF Sweeping, at
    <3> QED BY <3>1, <3>2
  <2> HIDE DEF q
  <2>4. Sweeping(n, t, del, m, d + 1, q)
    BY <2>2, <2>3 DEF Sweeping
  <2> QED BY <2>2, <2>4 DEF q, at
<1>6. CASE ~(r.done \/ slot = Empty)
  <2> DEFINE h == slot.tag % n
  <2>0. ~r.done /\ slot # Empty /\ m = d
    BY <1>6 DEF Sweeping
  <2>1. at \in Occ(t)
    BY <1>1, <1>3, <2>0 DEF Sweeping, Occ
  <2>2. \A i \in 0..(n - 1) : Distance(n, del, i) <= d + 1 => i \in Occ(t)
    <3> TAKE i \in 0..(n - 1)
    <3>1. Distance(n, del, i) \in Nat
      BY <1>0, DistanceType
    <3>2. CASE Distance(n, del, i) = d + 1
      <4>1. i = at
        BY <3>2, <1>0, <1>1, DistanceInjective
      <4> QED BY <4>1, <2>1
    <3>3. CASE Distance(n, del, i) # d + 1
      BY <3>1, <3>3, <2>0 DEF Sweeping
    <3> QED BY <3>2, <3>3
  <2>3. Distance(n, del, r.gap) \in Nat /\ Distance(n, del, r.gap) <= d /\ r.gap # at
    <3>1. Distance(n, del, r.gap) \in Nat
      BY <1>0, <1>2, DistanceType
    <3>2. Distance(n, del, r.gap) <= d
      BY <2>0 DEF Sweeping
    <3> QED BY <3>1, <3>2, <1>1
  <2>4. CASE ShiftsBack(n, h, r.gap, at)
    <3>1. q = [r EXCEPT !.table[r.gap] = slot, !.gap = at]
      BY <2>4, <1>6, <1>3 DEF ShiftAt
    <3>2. slot \in Slot
      BY <1>1, <1>2 DEF Table
    <3>3. /\ q \in SweepState(n) /\ q.gap = at /\ q.done = FALSE
          /\ \A i \in 0..(n - 1) : q.table[i] = IF i = r.gap THEN slot ELSE r.table[i]
      <4> DEFINE u == [r.table EXCEPT ![r.gap] = slot]
      <4>1. u \in Table(n) /\ \A i \in 0..(n - 1) : u[i] = IF i = r.gap THEN slot ELSE r.table[i]
        BY <3>2, <1>2 DEF Table
      <4>2. q = [r EXCEPT !.table = u, !.gap = at]
        BY <3>1
      <4> HIDE DEF u, slot, q
      <4>3. q.table = u /\ q.gap = at /\ q.done = r.done /\ q \in SweepState(n)
        BY <4>1, <4>2, <1>1 DEF SweepState
      <4> QED BY <4>1, <4>3, <2>0, <1>2
    <3> HIDE DEF q, slot
    <3>4. q.table \in Table(n) /\ Cap(q.table) = n /\ DOMAIN q.table = 0..(n - 1)
      BY <3>3, CapIs DEF SweepState
    <3>5. Occ(q.table) = Occ(t)
      <4>1. Occ(r.table) = Occ(t)
        BY DEF Sweeping
      <4> QED BY <4>1, <3>3, <3>4, <1>3, <1>4, <2>0 DEF Occ
    <3>6. Held(q.table, Occ(t) \ {at}) = Held(t, Occ(t) \ {del})
      <4>1. Held(q.table, Occ(t) \ {at}) = Held(r.table, Occ(t) \ {r.gap})
        BY <3>3, <1>0, <1>1, <1>2, <1>4, <2>1, <2>3 DEF Held, slot
      <4> QED BY <4>1 DEF Sweeping
    <3>7. Distinct(q.table, Occ(t) \ {at})
      <4>1. Distinct(r.table, Occ(t) \ {r.gap})
        BY DEF Sweeping
      <4> QED BY <4>1, <3>3, <1>0, <1>1, <1>2, <1>4, <2>1, <2>3 DEF Distinct, slot
    <3>8. ASSUME NEW i \in Occ(t) \ {at} PROVE Reached(q.table, i)
      <4>0. \A j \in 0..(n - 1) : r.table[j] # Empty => q.table[j] # Empty
        BY <3>3, <2>0
      <4>1. CASE i = r.gap
        <5>1. Reached(r.table, at)
          BY <2>1, <2>3 DEF Sweeping
        <5>2. q.table[i] = slot
          BY <3>3, <4>1, <1>2
        <5>3. Distance(n, h, i) <= Distance(n, h, at)
          BY <2>4, <4>1 DEF ShiftsBack
        <5>4. ASSUME NEW j \in 0..(n - 1), Distance(n, h, j) < Distance(n, h, i)
              PROVE  q.table[j] # Empty
          <6>1. slot.tag \in Nat
            BY <3>2 DEF Slot
          <6>2. h \in 0..(n - 1)
            BY <6>1, HomeType
          <6>3. /\ Distance(n, h, j) \in Nat /\ Distance(n, h, i) \in Nat
                /\ Distance(n, h, at) \in Nat
            BY <6>2, <1>0, <1>1, DistanceType
          <6>4. Distance(n, h, j) < Distance(n, h, at)
            <7> HIDE DEF h
            <7> QED BY <6>3, <5>4, <5>3
          <6>5. r.table[j] # Empty
            BY <6>4, <5>1, <1>3 DEF Reached, slot
          <6> QED BY <6>5, <4>0
        <5> QED BY <5>2, <5>4, <3>4 DEF Reached
      <4>2. CASE i # r.gap
        <5>1. Reached(r.table, i)
          BY <3>8, <4>2 DEF Sweeping
        <5>2. q.table[i] = r.table[i]
          BY <3>3, <4>2, <1>0
        <5> QED BY <5>1, <5>2, <4>0, <3>4, <1>3 DEF Reached
      <4> QED BY <4>1, <4>2
    <3>9. \A i \in Occ(t) : ~(d + 1 < Distance(n, del, i) /\ Distance(n, del, i) <= d + 1)
      BY <1>0, DistanceType
    <3>10. Sweeping(n, t, del, d + 1, d + 1, q)
      BY <3>3, <3>5, <3>6, <3>7, <3>8, <3>9, <2>2, <1>1 DEF Sweeping
    <3> QED BY <3>3, <3>10 DEF q, at
  <2>5. CASE ~ShiftsBack(n, h, r.gap, at)
    <3>1. q = r
      BY <2>5, <1>6, <1>3 DEF ShiftAt
    <3> HIDE DEF q
    <3>2. ASSUME NEW i \in Occ(t), Distance(n, del, r.gap) < Distance(n, del, i),
                 Distance(n, del, i) <= d + 1
          PROVE  Distance(n, r.table[i].tag % n, i) < Distance(n, r.table[i].tag % n, r.gap)
      <4>1. CASE Distance(n, del, i) = d + 1
        <5>1. i = at
          BY <4>1, <1>0, <1>1, DistanceInjective
        <5>2. slot.tag \in Nat
          BY <1>1, <1>2 DEF Table, Slot
        <5>3. h \in 0..(n - 1)
          BY <5>2, HomeType
        <5>4. Distance(n, h, at) \in Nat /\ Distance(n, h, r.gap) \in Nat
          BY <5>3, <1>1, <1>2, DistanceType
        <5>5. ~(Distance(n, h, r.gap) <= Distance(n, h, at))
          BY <2>5 DEF ShiftsBack
        <5>6. Distance(n, h, at) < Distance(n, h, r.gap)
          <6> HIDE DEF h
          <6> QED BY <5>4, <5>5
        <5> QED BY <5>6, <5>1
      <4>2. CASE Distance(n, del, i) # d + 1
        <5>1. Distance(n, del, i) \in Nat
          BY <1>0, DistanceType
        <5>2. Distance(n, del, i) <= d
          BY <5>1, <4>2, <3>2
        <5> QED BY <5>2, <3>2, <2>0 DEF Sweeping
      <4> QED BY <4>1, <4>2
    <3>3. Distance(n, del, r.gap) <= d + 1
      BY <2>3
    <3>4. Sweeping(n, t, del, d + 1, d + 1, r)
      BY <3>2, <3>3, <2>0, <2>2 DEF Sweeping
    <3> QED BY <3>1, <3>4 DEF q, at
  <2> QED BY <2>4, <2>5
<1> QED BY <1>5, <1>6


\* What the loop ends with.
LEMMA SweepRuns ==
    ASSUME NEW n \in Nat \ {0}, NEW t \in Table(n), Reachable(t), NEW del \in Occ(t),
           Distinct(t, Occ(t))
    PROVE  /\ Swept(t, del) \in SweepState(n)
           /\ \E m \in 0..(n - 1) : Sweeping(n, t, del, m, n - 1, Swept(t, del))
<1> DEFINE init == [table |-> t, gap |-> del, done |-> FALSE]
           R == {x \in Nat \X SweepState(n) :
                    \E m \in 0..x[1] : Sweeping(n, t, del, m, x[1], x[2])}
           F == [x \in Nat \X SweepState(n) |-> ShiftAt(x[2], Ahead(n, del, x[1]))]
<1>1. \A d \in Nat : \A s : <<d, s>> \in R <=>
          /\ s \in SweepState(n)
          /\ \E m \in 0..d : Sweeping(n, t, del, m, d, s)
  OBVIOUS
<1>2. \A d \in Nat, s \in SweepState(n) : F[<<d, s>>] = ShiftAt(s, Ahead(n, del, d))
  OBVIOUS
<1> HIDE DEF F, R, init
<1>3. <<0, init>> \in R
  <2>1. init \in SweepState(n) /\ Sweeping(n, t, del, 0, 0, init)
    BY SweepStarts DEF init
  <2>2. 0 \in Nat /\ 0 \in 0..0
    OBVIOUS
  <2> QED BY <2>1, <2>2, <1>1
<1>4. ASSUME NEW d \in Nat, NEW s, <<d, s>> \in R, d < n - 1
      PROVE  <<d + 1, ShiftAt(s, Ahead(n, del, d + 1))>> \in R
  <2>1. s \in SweepState(n)
    BY <1>4, <1>1
  <2>2. PICK m \in 0..d : Sweeping(n, t, del, m, d, s)
    BY <1>4, <1>1
  <2>3. m \in Nat /\ m <= d /\ d + 1 < n
    BY <1>4
  <2>4. /\ ShiftAt(s, Ahead(n, del, d + 1)) \in SweepState(n)
        /\ \E k \in 0..(d + 1) :
             Sweeping(n, t, del, k, d + 1, ShiftAt(s, Ahead(n, del, d + 1)))
    BY <2>1, <2>2, <2>3, SweepSteps
  <2> QED BY <2>4, <1>1
<1>5. n - 1 \in Nat /\ Cap(t) = n
  BY CapIs
<1>6. PICK f : IsRun(f, n - 1, init, F) /\ \A d \in 0..(n - 1) : <<d, f[d]>> \in R
  <2>1. \A d \in 0..(n - 1) : \A s : <<d, s>> \in R /\ d < n - 1
                                     => <<d + 1, F[<<d + 1, s>>]>> \in R
    <3> SUFFICES ASSUME NEW d \in 0..(n - 1), NEW s, <<d, s>> \in R, d < n - 1
                 PROVE  <<d + 1, F[<<d + 1, s>>]>> \in R
      OBVIOUS
    <3>1. d \in Nat /\ d + 1 \in Nat
      OBVIOUS
    <3>2. F[<<d + 1, s>>] = ShiftAt(s, Ahead(n, del, d + 1))
      BY <3>1, <1>1, <1>2
    <3> QED BY <3>1, <3>2, <1>4
  <2> QED BY <2>1, <1>3, <1>5, RunExists
<1> DEFINE Body(g) == [d \in 0..(n - 1) |->
                          IF d = 0 THEN init ELSE ShiftAt(g[d - 1], Ahead(n, del, d))]
           sweep == CHOOSE g : g = Body(g)
<1>7. f = Body(f)
  <2>1. ASSUME NEW d \in 0..(n - 1)
        PROVE  f[d] = IF d = 0 THEN init ELSE ShiftAt(f[d - 1], Ahead(n, del, d))
    <3>1. CASE d = 0
      BY <1>6, <3>1 DEF IsRun
    <3>2. CASE d # 0
      <4>1. d - 1 \in 0..(n - 1) /\ d \in Nat
        BY <3>2
      <4>2. f[d - 1] \in SweepState(n)
        <5>1. <<d - 1, f[d - 1]>> \in R /\ d - 1 \in Nat
          BY <4>1, <1>6
        <5> QED BY <5>1, <1>1
      <4>3. f[d] = F[<<d, f[d - 1]>>]
        BY <3>2, <1>6 DEF IsRun
      <4> QED BY <4>1, <4>2, <4>3, <3>2, <1>2
    <3> QED BY <3>1, <3>2
  <2> QED BY <2>1, <1>6 DEF IsRun
<1>8. sweep = Body(sweep)
  BY <1>7
<1>9. Swept(t, del) = sweep[n - 1]
  BY <1>5 DEF Swept, init
<1> HIDE DEF sweep
<1>10. \A d \in 0..(n - 1) : <<d, sweep[d]>> \in R
  <2> DEFINE S == {d \in 0..(n - 1) : <<d, sweep[d]>> \in R}
  <2>1. 0 \in S
    BY <1>8, <1>3
  <2>2. ASSUME NEW d \in 0..(n - 1), d \in S, d < n - 1 PROVE d + 1 \in S
    <3>1. d + 1 \in 0..(n - 1) /\ d + 1 # 0 /\ (d + 1) - 1 = d
      BY <2>2
    <3>2. sweep[d + 1] = ShiftAt(sweep[d], Ahead(n, del, d + 1))
      BY <3>1, <1>8
    <3> QED BY <3>1, <3>2, <2>2, <1>4
  <2> HIDE DEF S
  <2>3. \A d \in 0..(n - 1) : d \in S
    BY <2>1, <2>2, <1>5, Counting
  <2> QED BY <2>3 DEF S
<1>11. <<n - 1, sweep[n - 1]>> \in R
  BY <1>10, <1>5
<1> QED BY <1>11, <1>9, <1>1, <1>5

\* backshiftDeleteSlot: the table without the slot at del, every other slot being
\* found from its home as before.
LEMMA BackshiftDeletes ==
    ASSUME NEW n \in Nat \ {0}, NEW t \in Table(n), Reachable(t), NEW del \in Occ(t),
           Distinct(t, Occ(t)), \E i \in 0..(n - 1) : t[i] = Empty,
           NEW u, u = With(Swept(t, del).table, Swept(t, del).gap, Empty)
    PROVE  /\ u \in Table(n)
           /\ Reachable(u)
           /\ Held(u, Occ(u)) = Held(t, Occ(t) \ {del})
           /\ Distinct(u, Occ(u))
           /\ Cardinality(Occ(u)) = Cardinality(Occ(t)) - 1
<1> DEFINE r == Swept(t, del)
<1>0. del \in 0..(n - 1) /\ Occ(t) \subseteq 0..(n - 1)
  BY OccFinite
<1>1. r \in SweepState(n) /\ \E m \in 0..(n - 1) : Sweeping(n, t, del, m, n - 1, r)
  BY SweepRuns
<1> HIDE DEF r
<1>2. PICK m \in 0..(n - 1) : Sweeping(n, t, del, m, n - 1, r)
  BY <1>1
<1>3. r.table \in Table(n) /\ r.gap \in 0..(n - 1) /\ r.done \in BOOLEAN
  BY <1>1 DEF SweepState
<1>4. r.gap \in Occ(t) /\ Occ(r.table) = Occ(t)
  BY <1>2, <1>3 DEF Sweeping
<1>5. m + 1 < n /\ r.table[Ahead(n, del, m + 1)] = Empty
  <2>1. SUFFICES ASSUME ~r.done PROVE FALSE
    BY <1>2 DEF Sweeping
  <2>2. \A i \in 0..(n - 1) : i \in Occ(t)
    BY <2>1, <1>0, <1>2, DistanceType DEF Sweeping
  <2> QED BY <2>2 DEF Occ
<1>6. Empty \in Slot
  BY DEF Empty, Slot
<1>7. u \in Table(n) /\ \A j \in 0..(n - 1) : u[j] = IF j = r.gap THEN Empty ELSE r.table[j]
  BY <1>3, <1>6 DEF With, Table, r
<1>8. DOMAIN u = 0..(n - 1) /\ Cap(u) = n /\ DOMAIN r.table = 0..(n - 1) /\ Cap(r.table) = n
  BY <1>3, <1>7, CapIs
<1>9. Occ(u) = Occ(t) \ {r.gap}
  BY <1>4, <1>7, <1>8 DEF Occ
<1>10. Cardinality(Occ(u)) = Cardinality(Occ(t)) - 1
  <2>1. IsFiniteSet(Occ(t))
    BY OccFinite
  <2>2. Cardinality(Occ(t) \ {r.gap}) = Cardinality(Occ(t)) - 1
    BY <2>1, <1>4, FS_RemoveElement
  <2> QED BY <2>2, <1>9
<1>11. \A i \in Occ(u) : u[i] = r.table[i]
  BY <1>9, <1>7, <1>0
<1>12. Held(u, Occ(u)) = Held(t, Occ(t) \ {del})
  <2>1. Held(u, Occ(u)) = Held(r.table, Occ(t) \ {r.gap})
    BY <1>9, <1>11 DEF Held
  <2> QED BY <2>1, <1>2 DEF Sweeping
<1>13. Distinct(u, Occ(u))
  <2>1. Distinct(r.table, Occ(t) \ {r.gap})
    BY <1>2 DEF Sweeping
  <2> QED BY <2>1, <1>9, <1>11 DEF Distinct
<1>14. ASSUME NEW i \in Occ(u) PROVE Reached(u, i)
  <2> DEFINE h == r.table[i].tag % n
             e == Ahead(n, del, m + 1)
  <2>1. i \in Occ(t) /\ i # r.gap /\ i \in 0..(n - 1) /\ u[i] = r.table[i]
    BY <1>14, <1>9, <1>11, <1>0
  <2>2. r.table[i].tag \in Nat
    BY <2>1, <1>3 DEF Table, Slot
  <2>3. h \in 0..(n - 1)
    BY <2>2, HomeType
  <2>4. Reached(r.table, i)
    BY <2>1, <1>2 DEF Sweeping
  <2>5. e \in 0..(n - 1) /\ Distance(n, del, e) = m + 1
    <3>1. m + 1 \in 0..(n - 1)
      BY <1>5
    <3> QED BY <3>1, <1>0, AheadIs
  <2>6. ~(Distance(n, h, r.gap) < Distance(n, h, i))
    <3> SUFFICES ASSUME Distance(n, h, r.gap) < Distance(n, h, i) PROVE FALSE
      OBVIOUS
    <3>1. i # e
      BY <2>1, <2>5, <1>4, <1>5 DEF Occ
    <3>2. Distance(n, del, i) # m + 1
      BY <3>1, <2>1, <2>5, <1>0, DistanceInjective
    <3>3. Distance(n, del, i) # Distance(n, del, r.gap)
      BY <2>1, <1>3, <1>0, DistanceInjective
    <3>4. /\ Distance(n, del, i) \in Nat /\ Distance(n, del, r.gap) \in Nat
          /\ Distance(n, h, i) \in Nat /\ Distance(n, h, r.gap) \in Nat
      <4> HIDE DEF h
      <4> QED BY <2>1, <2>3, <1>0, <1>3, DistanceType
    <3>5. CASE Distance(n, del, r.gap) < Distance(n, del, i) /\ Distance(n, del, i) <= m
      <4>1. Distance(n, h, i) < Distance(n, h, r.gap)
        BY <3>5, <2>1, <1>2 DEF Sweeping
      <4> HIDE DEF h
      <4> QED BY <4>1, <3>4
    <3>6. CASE ~(Distance(n, del, r.gap) < Distance(n, del, i) /\ Distance(n, del, i) <= m)
      <4>1. \/ Distance(n, del, i) < Distance(n, del, r.gap)
            \/ Distance(n, del, i) > m + 1
        BY <3>6, <3>2, <3>3, <3>4
      <4>2. m \in Nat /\ Distance(n, del, r.gap) <= m
        BY <1>2 DEF Sweeping
      <4> HIDE DEF h
      <4>3. Distance(n, h, e) < Distance(n, h, i)
        BY <4>1, <4>2, <2>1, <2>3, <1>0, <1>3, <1>5, Between
      <4>4. r.table[e] # Empty
        BY <4>3, <2>4, <2>5, <1>8 DEF Reached, h
      <4> QED BY <4>4, <1>5
    <3> QED BY <3>5, <3>6
  <2>7. \A j \in 0..(n - 1) : Distance(n, h, j) < Distance(n, h, i) => u[j] # Empty
    BY <2>4, <2>6, <1>7, <1>8 DEF Reached
  <2> QED BY <2>7, <2>1, <1>8 DEF Reached
<1> QED BY <1>7, <1>10, <1>12, <1>13, <1>14 DEF Reachable


-----------------------------------------------------------------------------
(* Capacity                                                                *)

\* hashSlotsCapFor rounds up.
LEMMA PowerOf2AtLeast ==
    ASSUME NEW n \in Nat \ {0}
    PROVE  PowerOf2(n) \in Nat /\ PowerOf2(n) >= n
<1> DEFINE p == Powers(n)
           T == {i \in 0..n : p[i] >= n}
<1>1. /\ p = [i \in 0..n |-> IF i = 0 THEN 1 ELSE 2 * p[i - 1]]
      /\ \A i \in 0..n : p[i] \in Nat /\ p[i] > i
  BY PowersGrow
<1> HIDE DEF p
<1>2. T \in SUBSET Nat /\ T # {}
  <2>1. n \in T
    BY <1>1
  <2> QED BY <2>1
<1>3. PICK i \in T : \A j \in T : i <= j
  BY <1>2, LeastNatural
<1>4. p[i] >= n /\ p[i] < 2 * n
  <2>1. CASE i = 0
    BY <2>1, <1>1, <1>3
  <2>2. CASE i # 0
    <3>1. i - 1 \in 0..n /\ i - 1 < i /\ i - 1 \notin T
      BY <2>2, <1>3
    <3>2. p[i - 1] \in Nat /\ p[i - 1] < n
      BY <3>1, <1>1
    <3>3. p[i] = 2 * p[i - 1]
      BY <2>2, <1>1, <1>3
    <3> QED BY <3>2, <3>3, <1>3
  <2> QED BY <2>1, <2>2
<1>5. \E x \in {p[j] : j \in 0..n} : x >= n /\ x < 2 * n
  BY <1>3, <1>4
<1>6. PowerOf2(n) \in {p[j] : j \in 0..n} /\ PowerOf2(n) >= n
  BY <1>5 DEF PowerOf2, p
<1> QED BY <1>6, <1>1

\* hashSlotsCapFor leaves a slot in five free.
LEMMA CapForSuffices ==
    ASSUME NEW e \in Nat
    PROVE  CapFor(e) \in Nat \ {0} /\ e * 5 <= CapFor(e) * 4
<1>0. MinCap \in Nat \ {0}
  BY HashAssumption
<1>1. CASE e <= (MinCap * 4) \div 5
  <2>1. CapFor(e) = MinCap
    BY <1>1 DEF CapFor
  <2> QED BY <2>1, <1>0, <1>1
<1>2. CASE ~(e <= (MinCap * 4) \div 5)
  <2> DEFINE k == (e * 5 + 3) \div 4
  <2>1. e # 0
    BY <1>0, <1>2
  <2>2. k \in Nat \ {0} /\ e * 5 <= k * 4
    BY <2>1
  <2>3. CapFor(e) = PowerOf2(k)
    BY <1>2 DEF CapFor
  <2> HIDE DEF k
  <2> QED BY <2>2, <2>3, PowerOf2AtLeast
<1> QED BY <1>1, <1>2

-----------------------------------------------------------------------------
(* Copying a table                                                         *)

Renamed(slot, newId) == [slot EXCEPT !.id = newId[@]]
Before(t, i) == {j \in Occ(t) : j < i}

\* Renumbering keeps the tag of a slot.
LEMMA RenamedIs ==
    ASSUME NEW s \in Slot, NEW newId, newId[s.id] \in Nat
    PROVE  /\ Renamed(s, newId) \in Slot
           /\ Renamed(s, newId).tag = s.tag
           /\ Renamed(s, newId).id = newId[s.id]
  BY DEF Renamed, Slot

\* A table just allocated holds nothing.
LEMMA EmptyTable ==
    ASSUME NEW n \in Nat \ {0}
    PROVE  /\ EmptySlots(n) \in Table(n)
           /\ Occ(EmptySlots(n)) = {}
           /\ Reachable(EmptySlots(n))
<1>1. Empty \in Slot
  BY DEF Empty, Slot
<1>2. EmptySlots(n) \in Table(n) /\ Occ(EmptySlots(n)) = {}
  BY <1>1 DEF EmptySlots, Table, Occ
<1> QED BY <1>2 DEF Reachable

\* After i iterations the new table holds the first i slots.
Copied(t, newId, i, u) ==
    /\ Reachable(u)
    /\ Held(u, Occ(u)) = {Renamed(t[j], newId) : j \in Before(t, i)}
    /\ Distinct(u, Occ(u))
    /\ Cardinality(Occ(u)) = Cardinality(Before(t, i))

\* What a copy needs: room, nodes with a new id, and different slots that stay
\* different.
Copies(n, t, cap, newId) ==
    /\ Cardinality(Occ(t)) < cap
    /\ \A i \in Occ(t) : t[i].tag # 0 /\ newId[t[i].id] \in Nat
    /\ \A i, j \in Occ(t) : Renamed(t[i], newId) = Renamed(t[j], newId) => i = j

\* One iteration of resizeHashSlotsLocked copies one more slot.
LEMMA CopyStep ==
    ASSUME NEW n \in Nat \ {0}, NEW t \in Table(n), NEW cap \in Nat \ {0}, NEW newId,
           Copies(n, t, cap, newId), NEW i \in 0..(n - 1), NEW u \in Table(cap),
           Copied(t, newId, i, u),
           NEW v, v = IF t[i] = Empty THEN u ELSE Place(u, Renamed(t[i], newId))
    PROVE  v \in Table(cap) /\ Copied(t, newId, i + 1, v)
<1>0. Occ(t) \subseteq 0..(n - 1) /\ IsFiniteSet(Occ(t)) /\ DOMAIN t = 0..(n - 1)
  BY OccFinite, CapIs
<1>1. CASE t[i] = Empty
  <2>1. Before(t, i + 1) = Before(t, i)
    BY <1>0, <1>1 DEF Before, Occ
  <2> QED BY <2>1, <1>1 DEF Copied
<1>2. CASE t[i] # Empty
  <2> DEFINE s == Renamed(t[i], newId)
  <2>1. i \in Occ(t) /\ i \notin Before(t, i) /\ Before(t, i + 1) = Before(t, i) \cup {i}
    BY <1>0, <1>2 DEF Before, Occ
  <2>2. IsFiniteSet(Before(t, i)) /\ IsFiniteSet(Before(t, i + 1))
    BY <1>0, FS_Subset DEF Before
  <2>3. Cardinality(Before(t, i + 1)) = Cardinality(Before(t, i)) + 1
    BY <2>1, <2>2, FS_AddElement
  <2>4. Cardinality(Before(t, i + 1)) <= Cardinality(Occ(t))
    BY <1>0, FS_Subset DEF Before
  <2>5. Cardinality(Before(t, i)) \in Nat /\ Cardinality(Occ(t)) \in Nat
    BY <2>2, <1>0, FS_CardinalityType
  <2>6. \E j \in 0..(cap - 1) : u[j] = Empty
    <3>1. Cardinality(Occ(u)) < cap
      BY <2>3, <2>4, <2>5 DEF Copied, Copies
    <3> QED BY <3>1, EmptyExists
  <2>7. t[i] \in Slot /\ newId[t[i].id] \in Nat /\ t[i].tag # 0
    BY <2>1 DEF Copies, Table
  <2>8. s \in Slot /\ s # Empty
    <3>1. s \in Slot /\ s.tag = t[i].tag
      BY <2>7, RenamedIs
    <3>2. Empty.tag = 0
      BY DEF Empty
    <3> HIDE DEF s
    <3> QED BY <3>1, <3>2, <2>7
  <2>9. v = Place(u, s)
    BY <1>2
  <2> HIDE DEF s
  <2>10. PICK k \in 0..(cap - 1) :
               /\ v = With(u, k, s) /\ v \in Table(cap) /\ Reachable(v) /\ k \notin Occ(u)
               /\ Occ(v) = Occ(u) \cup {k}
               /\ Cardinality(Occ(v)) = Cardinality(Occ(u)) + 1
    BY <2>6, <2>8, <2>9, PlaceFills DEF Copied
  <2>11. v[k] = s /\ \A j \in Occ(u) : v[j] = u[j]
    <3>1. DOMAIN u = 0..(cap - 1)
      BY CapIs
    <3> QED BY <2>10, <3>1 DEF With, Occ
  <2>12. s \notin Held(u, Occ(u))
    BY <2>1 DEF Copied, Copies, Before, s
  <2>13. Held(v, Occ(v)) = Held(u, Occ(u)) \cup {s}
    BY <2>10, <2>11 DEF Held
  <2>14. Held(v, Occ(v)) = {Renamed(t[j], newId) : j \in Before(t, i + 1)}
    BY <2>13, <2>1 DEF Copied, s
  <2>15. Distinct(v, Occ(v))
    BY <2>10, <2>11, <2>12 DEF Distinct, Held, Copied
  <2> QED BY <2>3, <2>10, <2>14, <2>15 DEF Copied
<1> QED BY <1>1, <1>2


\* resizeHashSlotsLocked and compactHashSlotsLocked copy every slot.
LEMMA ReinsertCopies ==
    ASSUME NEW n \in Nat \ {0}, NEW t \in Table(n), NEW cap \in Nat \ {0}, NEW newId,
           Copies(n, t, cap, newId)
    PROVE  /\ Reinsert(t, cap, newId) \in Table(cap)
           /\ Copied(t, newId, n, Reinsert(t, cap, newId))
<1> DEFINE init == EmptySlots(cap)
           Put1(i, u) == IF t[i - 1] = Empty THEN u
                         ELSE Place(u, Renamed(t[i - 1], newId))
           R == {x \in Nat \X Table(cap) : Copied(t, newId, x[1], x[2])}
           F == [x \in Nat \X Table(cap) |-> Put1(x[1], x[2])]
<1>1. \A i \in Nat : \A u : <<i, u>> \in R <=> u \in Table(cap) /\ Copied(t, newId, i, u)
  OBVIOUS
<1>2. \A i \in Nat, u \in Table(cap) : F[<<i, u>>] = Put1(i, u)
  OBVIOUS
<1> HIDE DEF F, R, init
<1>3. <<0, init>> \in R
  <2>1. init \in Table(cap) /\ Occ(init) = {} /\ Reachable(init)
    BY EmptyTable DEF init
  <2>2. Before(t, 0) = {}
    BY OccFinite DEF Before
  <2>3. Copied(t, newId, 0, init)
    BY <2>1, <2>2 DEF Copied, Held, Distinct
  <2> QED BY <2>1, <2>3, <1>1
<1>4. ASSUME NEW i \in Nat, NEW u, <<i, u>> \in R, i < n
      PROVE  <<i + 1, Put1(i + 1, u)>> \in R
  <2>1. u \in Table(cap) /\ Copied(t, newId, i, u) /\ i \in 0..(n - 1)
    BY <1>1, <1>4
  <2>2. Put1(i + 1, u) = IF t[i] = Empty THEN u ELSE Place(u, Renamed(t[i], newId))
    BY <1>4
  <2>3. Put1(i + 1, u) \in Table(cap) /\ Copied(t, newId, i + 1, Put1(i + 1, u))
    <3> HIDE DEF Put1
    <3> QED BY <2>1, <2>2, CopyStep
  <2> HIDE DEF Put1
  <2> QED BY <2>3, <1>1, <1>4
<1>5. Cap(t) = n
  BY CapIs
<1>6. PICK f : IsRun(f, n, init, F) /\ \A i \in 0..n : <<i, f[i]>> \in R
  <2>1. \A i \in 0..n : \A u : <<i, u>> \in R /\ i < n => <<i + 1, F[<<i + 1, u>>]>> \in R
    <3> SUFFICES ASSUME NEW i \in 0..n, NEW u, <<i, u>> \in R, i < n
                 PROVE  <<i + 1, F[<<i + 1, u>>]>> \in R
      OBVIOUS
    <3>1. i \in Nat /\ i + 1 \in Nat
      OBVIOUS
    <3> HIDE DEF Put1
    <3>2. F[<<i + 1, u>>] = Put1(i + 1, u)
      BY <3>1, <1>1, <1>2
    <3> QED BY <3>1, <3>2, <1>4
  <2> QED BY <2>1, <1>3, RunExists
<1> DEFINE Body(g) == [i \in 0..n |-> IF i = 0 THEN init ELSE Put1(i, g[i - 1])]
           new == CHOOSE g : g = Body(g)
<1>7. f = Body(f)
  <2> HIDE DEF Put1
  <2>1. ASSUME NEW i \in 0..n
        PROVE  f[i] = IF i = 0 THEN init ELSE Put1(i, f[i - 1])
    <3>1. CASE i = 0
      BY <1>6, <3>1 DEF IsRun
    <3>2. CASE i # 0
      <4>1. i - 1 \in 0..n /\ i - 1 \in Nat /\ i \in Nat
        BY <3>2
      <4>2. <<i - 1, f[i - 1]>> \in R
        BY <4>1, <1>6
      <4>3. f[i] = F[<<i, f[i - 1]>>]
        BY <3>2, <1>6 DEF IsRun
      <4> QED BY <4>1, <4>2, <4>3, <3>2, <1>1, <1>2
    <3> QED BY <3>1, <3>2
  <2> QED BY <2>1, <1>6 DEF IsRun
<1>8. new = Body(new)
  BY <1>7
<1>9. Reinsert(t, cap, newId) = new[n]
  BY <1>5 DEF Reinsert, init, Renamed
<1> HIDE DEF new
<1>10. \A i \in 0..n : <<i, new[i]>> \in R
  <2> DEFINE S == {i \in 0..n : <<i, new[i]>> \in R}
  <2>1. 0 \in S
    BY <1>8, <1>3
  <2>2. ASSUME NEW i \in 0..n, i \in S, i < n PROVE i + 1 \in S
    <3>1. i + 1 \in 0..n /\ i + 1 # 0 /\ (i + 1) - 1 = i /\ i \in Nat
      BY <2>2
    <3> HIDE DEF Put1
    <3>2. new[i + 1] = Put1(i + 1, new[i])
      BY <3>1, <1>8
    <3> QED BY <3>1, <3>2, <2>2, <1>4
  <2> HIDE DEF S
  <2>3. \A i \in 0..n : i \in S
    BY <2>1, <2>2, Counting
  <2> QED BY <2>3 DEF S
<1>11. <<n, new[n]>> \in R /\ n \in Nat
  BY <1>10
<1> QED BY <1>11, <1>9, <1>1


-----------------------------------------------------------------------------
(* A table that holds the slots of a set of nodes                          *)

Valid(nodes_) == {m \in Node : nodes_[m] \in Key}
NodeHash(nodes_, m) == Hash[nodes_[m]]
SlotFor(nodes_, m) == [tag |-> Tag[NodeHash(nodes_, m)], id |-> m]

\* No two of the nodes in S have the same hash.
OnePerHash(nodes_, S) ==
    \A m, k \in S : NodeHash(nodes_, m) = NodeHash(nodes_, k) => m = k

\* Table t holds exactly the slots of the nodes in S, each once and where probing
\* finds it; count is their number and leaves a slot in five free.
Tabled(nodes_, t, count, S) ==
    /\ S \subseteq Valid(nodes_)
    /\ OnePerHash(nodes_, S)
    /\ \E n \in Nat \ {0} : t \in Table(n) /\ count * 5 <= n * 4
    /\ Reachable(t)
    /\ Distinct(t, Occ(t))
    /\ Held(t, Occ(t)) = {SlotFor(nodes_, m) : m \in S}
    /\ count = Cardinality(Occ(t))

\* Tag 0 and node 0 are free to mean an empty slot.
LEMMA ZeroFacts ==
    /\ \A h \in Hashes : Tag[h] \in Nat /\ Tag[h] # 0
    /\ 0 \notin Node /\ Node \subseteq Nat
    /\ Empty \in Slot /\ Empty.tag = 0 /\ Empty.id = 0
<1>1. \A h \in Hashes : Tag[h] \in Nat /\ Tag[h] # 0
  BY HashAssumption
<1>2. 0 \notin Node /\ Node \subseteq Nat
  BY HashAssumption DEF Node
<1> QED BY <1>1, <1>2 DEF Empty, Slot

\* A node's slot is not the empty one and names the node.
LEMMA SlotForType ==
    ASSUME NEW nodes_, NEW m \in Valid(nodes_)
    PROVE  /\ NodeHash(nodes_, m) \in Hashes
           /\ SlotFor(nodes_, m) \in Slot
           /\ SlotFor(nodes_, m) # Empty
           /\ SlotFor(nodes_, m).id = m
           /\ SlotFor(nodes_, m).tag = Tag[NodeHash(nodes_, m)]
<1>1. NodeHash(nodes_, m) \in Hashes
  BY DEF Valid, NodeHash, Hashes
<1>2. Tag[NodeHash(nodes_, m)] \in Nat /\ Tag[NodeHash(nodes_, m)] # 0
  BY <1>1, ZeroFacts
<1>3. m \in Nat
  BY ZeroFacts DEF Valid
<1> QED BY <1>1, <1>2, <1>3 DEF SlotFor, Slot, Empty

\* What an occupied place holds.
LEMMA HeldIs ==
    ASSUME NEW nodes_, NEW t, NEW count, NEW S, Tabled(nodes_, t, count, S)
    PROVE  /\ \A i \in Occ(t) : /\ t[i].id \in S
                                /\ t[i] = SlotFor(nodes_, t[i].id)
           /\ \A m \in S : \E i \in Occ(t) : t[i] = SlotFor(nodes_, m)
<1>1. Held(t, Occ(t)) = {SlotFor(nodes_, m) : m \in S} /\ S \subseteq Valid(nodes_)
  BY DEF Tabled
<1>2. ASSUME NEW i \in Occ(t) PROVE t[i].id \in S /\ t[i] = SlotFor(nodes_, t[i].id)
  <2>1. t[i] \in {SlotFor(nodes_, m) : m \in S}
    BY <1>1 DEF Held
  <2>2. PICK m \in S : t[i] = SlotFor(nodes_, m)
    BY <2>1
  <2>3. t[i].id = m
    BY <2>2, <1>1, SlotForType
  <2> QED BY <2>2, <2>3
<1>3. ASSUME NEW m \in S PROVE \E i \in Occ(t) : t[i] = SlotFor(nodes_, m)
  <2>1. SlotFor(nodes_, m) \in Held(t, Occ(t))
    BY <1>1
  <2> QED BY <2>1 DEF Held
<1> QED BY <1>2, <1>3

\* A table in use is at most four fifths full, so probing it ends.
LEMMA TableShape ==
    ASSUME NEW nodes_, NEW t, NEW count, NEW S, Tabled(nodes_, t, count, S)
    PROVE  /\ Cap(t) \in Nat \ {0}
           /\ t \in Table(Cap(t))
           /\ DOMAIN t = 0..(Cap(t) - 1)
           /\ count \in Nat
           /\ count * 5 <= Cap(t) * 4
           /\ count < Cap(t)
           /\ IsFiniteSet(S)
           /\ Cardinality(S) = count
           /\ \E i \in 0..(Cap(t) - 1) : t[i] = Empty
<1>1. PICK n \in Nat \ {0} : t \in Table(n) /\ count * 5 <= n * 4
  BY DEF Tabled
<1>2. Cap(t) = n /\ DOMAIN t = 0..(n - 1)
  BY <1>1, CapIs
<1>3. IsFiniteSet(Occ(t)) /\ Cardinality(Occ(t)) \in Nat /\ count = Cardinality(Occ(t))
  BY <1>1, OccFinite DEF Tabled
<1>4. count < n
  BY <1>1, <1>3
<1>5. \E i \in 0..(n - 1) : t[i] = Empty
  BY <1>1, <1>3, <1>4, EmptyExists
<1>6. IsFiniteSet(S) /\ Cardinality(S) = count
  <2> DEFINE f == [i \in Occ(t) |-> t[i].id]
  <2>1. f \in [Occ(t) -> S]
    BY HeldIs
  <2>2. ASSUME NEW i \in Occ(t), NEW j \in Occ(t), f[i] = f[j] PROVE i = j
    <3>1. t[i] = t[j]
      BY <2>2, HeldIs
    <3> QED BY <3>1 DEF Tabled, Distinct
  <2>3. ASSUME NEW m \in S PROVE \E i \in Occ(t) : f[i] = m
    <3>1. PICK i \in Occ(t) : t[i] = SlotFor(nodes_, m)
      BY HeldIs
    <3>2. m \in Valid(nodes_)
      BY DEF Tabled
    <3>3. t[i].id = m
      BY <3>1, <3>2, SlotForType
    <3> QED BY <3>3
  <2> HIDE DEF f
  <2>4. f \in Bijection(Occ(t), S)
    BY <2>1, <2>2, <2>3 DEF Bijection, Injection, Surjection, IsInjective
  <2>5. ExistsBijection(Occ(t), S)
    BY <2>4 DEF ExistsBijection
  <2> QED BY <2>5, <1>3, FS_Bijection
<1> QED BY <1>1, <1>2, <1>3, <1>4, <1>5, <1>6


NodesType(nodes_) == nodes_ \in [Node -> Key \cup {NoKey}]

\* The live nodes are those that bear a key.
LEMMA LiveIs ==
    ASSUME NEW c, NodesType(c.nodes)
    PROVE  Live(c) = Valid(c.nodes)
  BY HashAssumption DEF Live, Valid, NodesType

\* The slot of h's node is the only one that h's probing takes for its own.
LEMMA SlotsOfIs ==
    ASSUME NEW c, NodesType(c.nodes), NEW count, NEW S,
           Tabled(c.nodes, c.slots, count, S), NEW h \in Hashes
    PROVE  SlotsOf(c, h) = {i \in Occ(c.slots) : NodeHash(c.nodes, c.slots[i].id) = h}
<1> DEFINE t == c.slots
<1>0. Tag[h] # 0 /\ Empty.tag = 0
  BY ZeroFacts
<1>1. ASSUME NEW i \in SlotsOf(c, h)
      PROVE  i \in Occ(t) /\ NodeHash(c.nodes, t[i].id) = h
  <2>1. i \in DOMAIN t /\ t[i].tag = Tag[h] /\ ~OtherHash(c, t[i], h)
    BY DEF SlotsOf
  <2>2. i \in Occ(t)
    BY <2>1, <1>0 DEF Occ
  <2>3. t[i].id \in S /\ t[i] = SlotFor(c.nodes, t[i].id)
    BY <2>2, HeldIs
  <2>4. t[i].id \in Valid(c.nodes)
    BY <2>3 DEF Tabled
  <2>5. t[i].id \in Live(c) /\ Tag[HashOf(c, t[i].id)] = t[i].tag
    <3>1. t[i].id \in Live(c)
      BY <2>4, LiveIs
    <3>2. t[i].tag = Tag[NodeHash(c.nodes, t[i].id)]
      BY <2>3, <2>4, SlotForType
    <3> QED BY <3>1, <3>2 DEF HashOf, NodeHash
  <2> QED BY <2>1, <2>2, <2>5 DEF OtherHash, HashOf, NodeHash
<1>2. ASSUME NEW i \in Occ(t), NodeHash(c.nodes, t[i].id) = h
      PROVE  i \in SlotsOf(c, h)
  <2>1. t[i].id \in S /\ t[i] = SlotFor(c.nodes, t[i].id) /\ i \in DOMAIN t
    BY HeldIs DEF Occ
  <2>2. t[i].id \in Valid(c.nodes)
    BY <2>1 DEF Tabled
  <2>3. t[i].tag = Tag[h]
    BY <2>1, <2>2, <1>2, SlotForType
  <2> QED BY <2>1, <2>3, <1>2 DEF SlotsOf, OtherHash, HashOf, NodeHash
<1> QED BY <1>1, <1>2

\* findHashSlotIndex finds the slot of h's node.
LEMMA FindSlotFinds ==
    ASSUME NEW c, NodesType(c.nodes), NEW count, NEW S,
           Tabled(c.nodes, c.slots, count, S), NEW m \in S
    PROVE  /\ FindSlot(c, NodeHash(c.nodes, m)) \in Occ(c.slots)
           /\ c.slots[FindSlot(c, NodeHash(c.nodes, m))] = SlotFor(c.nodes, m)
<1> DEFINE t == c.slots
           n == Cap(t)
           h == NodeHash(c.nodes, m)
           T == SlotsOf(c, h)
<1>1. m \in Valid(c.nodes) /\ h \in Hashes /\ Tag[h] \in Nat
  BY SlotForType, ZeroFacts DEF Tabled
<1>2. /\ n \in Nat \ {0} /\ t \in Table(n) /\ DOMAIN t = 0..(n - 1)
      /\ \E i \in 0..(n - 1) : t[i] = Empty
  BY TableShape
<1>3. PICK i \in Occ(t) : t[i] = SlotFor(c.nodes, m)
  BY HeldIs
<1>4. t[i].id = m /\ t[i].tag = Tag[h] /\ i \in 0..(n - 1)
  BY <1>1, <1>2, <1>3, SlotForType DEF Occ
<1>5. T = {j \in Occ(t) : NodeHash(c.nodes, t[j].id) = h}
  BY <1>1, SlotsOfIs
<1>6. ASSUME NEW j \in T PROVE j = i
  <2>1. j \in Occ(t) /\ NodeHash(c.nodes, t[j].id) = h
    BY <1>5
  <2>2. t[j].id \in S /\ t[j] = SlotFor(c.nodes, t[j].id)
    BY <2>1, HeldIs
  <2>3. t[j].id = m
    BY <2>1, <2>2 DEF Tabled, OnePerHash
  <2> QED BY <2>1, <2>2, <2>3, <1>3 DEF Tabled, Distinct
<1>7. i \in T
  BY <1>3, <1>4, <1>5
<1>8. Reached(t, i)
  BY <1>3 DEF Tabled, Reachable
<1>9. \A j \in 0..(n - 1) : Distance(n, Tag[h] % n, j) < Distance(n, Tag[h] % n, i)
                                => t[j] # Empty /\ j \notin T
  <2> TAKE j \in 0..(n - 1)
  <2> HAVE Distance(n, Tag[h] % n, j) < Distance(n, Tag[h] % n, i)
  <2>1. t[j] # Empty
    BY <1>8, <1>4, <1>2 DEF Reached
  <2>2. Tag[h] % n \in 0..(n - 1)
    BY <1>1, <1>2, HomeType
  <2>3. Distance(n, Tag[h] % n, i) \in Nat
    BY <2>2, <1>2, <1>4, DistanceType
  <2>4. j # i
    BY <2>3
  <2> QED BY <2>1, <2>4, <1>6
<1>10. T \in SUBSET (0..(n - 1))
  BY <1>2, <1>5 DEF Occ
<1> HIDE DEF T, n, h
<1>11. Probe(t, Tag[h], T) = i
  BY <1>1, <1>2, <1>4, <1>7, <1>9, <1>10, ProbeIs
<1> QED BY <1>3, <1>11 DEF FindSlot, T, h

\* When no node in the table has the hash h, the search ends at a free slot.
LEMMA FindSlotMisses ==
    ASSUME NEW c, NodesType(c.nodes), NEW count, NEW S,
           Tabled(c.nodes, c.slots, count, S), NEW h \in Hashes,
           \A m \in S : NodeHash(c.nodes, m) # h
    PROVE  FirstFree(Cap(c.slots), c.slots, Tag[h], FindSlot(c, h))
<1> DEFINE t == c.slots
           n == Cap(t)
           T == SlotsOf(c, h)
<1>1. Tag[h] \in Nat
  BY ZeroFacts
<1>2. /\ n \in Nat \ {0} /\ t \in Table(n) /\ DOMAIN t = 0..(n - 1)
      /\ \E i \in 0..(n - 1) : t[i] = Empty
  BY TableShape
<1>3. T = {}
  <2>1. T = {i \in Occ(t) : NodeHash(c.nodes, t[i].id) = h}
    BY SlotsOfIs
  <2>2. \A i \in Occ(t) : t[i].id \in S
    BY HeldIs
  <2> QED BY <2>1, <2>2
<1>4. T \in SUBSET (0..(n - 1))
  BY <1>3
<1> HIDE DEF n, T
<1>5. /\ Probe(t, Tag[h], T) \in 0..(n - 1)
      /\ t[Probe(t, Tag[h], T)] = Empty \/ Probe(t, Tag[h], T) \in T
      /\ \A j \in 0..(n - 1) :
           Distance(n, Tag[h] % n, j) < Distance(n, Tag[h] % n, Probe(t, Tag[h], T))
               => t[j] # Empty /\ j \notin T
  BY <1>1, <1>2, <1>4, ProbeEnds
<1>6. FindSlot(c, h) = Probe(t, Tag[h], T)
  BY DEF FindSlot, T
<1> QED BY <1>3, <1>5, <1>6 DEF FirstFree, n


OneMore(count) == count + 1
OneLess(count) == count - 1
Joined(S, n) == S \cup {n}
Without(S, n) == S \ {n}

\* A node whose hash has no slot yet takes a free one.
LEMMA TableAdds ==
    ASSUME NEW nodes_, NEW t, NEW count, NEW S, Tabled(nodes_, t, count, S),
           NEW m \in Valid(nodes_),
           \A k \in S : NodeHash(nodes_, k) # NodeHash(nodes_, m),
           NEW at, FirstFree(Cap(t), t, Tag[NodeHash(nodes_, m)], at),
           (count + 1) * 5 <= Cap(t) * 4,
           NEW u, u = With(t, at, SlotFor(nodes_, m))
    PROVE  /\ Tabled(nodes_, u, count + 1, S \cup {m})
           /\ Cap(u) = Cap(t)
<1> DEFINE n == Cap(t)
           s == SlotFor(nodes_, m)
<1>1. n \in Nat \ {0} /\ t \in Table(n) /\ DOMAIN t = 0..(n - 1)
  BY TableShape
<1>2. s \in Slot /\ s # Empty /\ s.id = m /\ s.tag = Tag[NodeHash(nodes_, m)]
  BY SlotForType
<1> HIDE DEF s, n
<1>3. u = With(t, at, s) /\ FirstFree(n, t, s.tag, at)
  BY <1>2 DEF s, n
<1>4. /\ u \in Table(n) /\ Reachable(u) /\ Occ(u) = Occ(t) \cup {at} /\ at \notin Occ(t)
      /\ Cardinality(Occ(u)) = Cardinality(Occ(t)) + 1
  BY <1>1, <1>2, <1>3, FillingKeeps DEF Tabled
<1>5. u[at] = s /\ \A j \in Occ(t) : u[j] = t[j]
  BY <1>1, <1>3, <1>4 DEF With, FirstFree, Occ
<1>6. Held(u, Occ(u)) = {SlotFor(nodes_, k) : k \in S \cup {m}}
  <2>1. Held(u, Occ(u)) = Held(t, Occ(t)) \cup {s}
    BY <1>4, <1>5 DEF Held
  <2> QED BY <2>1 DEF Tabled, s
<1>7. \A j \in Occ(t) : t[j] # s
  <2> SUFFICES ASSUME NEW j \in Occ(t), t[j] = s PROVE FALSE
    OBVIOUS
  <2>1. t[j].id \in S
    BY HeldIs
  <2> QED BY <2>1, <1>2
<1>8. Distinct(u, Occ(u))
  BY <1>4, <1>5, <1>7 DEF Distinct, Tabled
<1>9. OnePerHash(nodes_, S \cup {m}) /\ S \cup {m} \subseteq Valid(nodes_)
  BY DEF OnePerHash, Tabled
<1>10. Cap(u) = n
  BY <1>1, <1>4, CapIs
<1>11. count + 1 = Cardinality(Occ(u)) /\ (count + 1) * 5 <= n * 4
  BY <1>4 DEF Tabled, n
<1>12. \E k \in Nat \ {0} : u \in Table(k) /\ (count + 1) * 5 <= k * 4
  BY <1>1, <1>4, <1>11
<1> QED BY <1>4, <1>6, <1>8, <1>9, <1>10, <1>11, <1>12 DEF Tabled, n

\* A node takes over the slot of another of the same hash.
LEMMA TableSwaps ==
    ASSUME NEW nodes_, NEW t, NEW count, NEW S, Tabled(nodes_, t, count, S),
           NEW k \in S, NEW m \in Valid(nodes_),
           NodeHash(nodes_, k) = NodeHash(nodes_, m),
           NEW at \in Occ(t), t[at] = SlotFor(nodes_, k),
           NEW u, u = With(t, at, SlotFor(nodes_, m))
    PROVE  /\ Tabled(nodes_, u, count, (S \ {k}) \cup {m})
           /\ Cap(u) = Cap(t)
<1> DEFINE n == Cap(t)
           s == SlotFor(nodes_, m)
<1>1. n \in Nat \ {0} /\ t \in Table(n) /\ DOMAIN t = 0..(n - 1) /\ count * 5 <= n * 4
  BY TableShape
<1>2. k \in Valid(nodes_)
  BY DEF Tabled
<1>3. s \in Slot /\ s # Empty /\ s.id = m /\ s.tag = t[at].tag
  BY <1>2, SlotForType
<1> HIDE DEF s, n
<1>4. u = With(t, at, s)
  BY DEF s
<1>5. u \in Table(n) /\ Reachable(u) /\ Occ(u) = Occ(t)
  BY <1>1, <1>3, <1>4, OverwritingKeeps DEF Tabled
<1>6. u[at] = s /\ \A j \in Occ(t) : j # at => u[j] = t[j]
  BY <1>1, <1>4 DEF With, Occ
<1>7. \A j \in Occ(t) : j # at => t[j].id \in S \ {k} /\ t[j] = SlotFor(nodes_, t[j].id)
  <2> SUFFICES ASSUME NEW j \in Occ(t), j # at
               PROVE  t[j].id \in S \ {k} /\ t[j] = SlotFor(nodes_, t[j].id)
    OBVIOUS
  <2>1. t[j].id \in S /\ t[j] = SlotFor(nodes_, t[j].id)
    BY HeldIs
  <2>2. t[j] # t[at]
    BY DEF Tabled, Distinct
  <2> QED BY <2>1, <2>2
<1>8. \A j \in S \ {k} : \E i \in Occ(t) : i # at /\ t[i] = SlotFor(nodes_, j)
  <2> SUFFICES ASSUME NEW j \in S \ {k}
               PROVE  \E i \in Occ(t) : i # at /\ t[i] = SlotFor(nodes_, j)
    OBVIOUS
  <2>1. PICK i \in Occ(t) : t[i] = SlotFor(nodes_, j)
    BY HeldIs
  <2>2. SlotFor(nodes_, j) # SlotFor(nodes_, k)
    BY DEF SlotFor
  <2> QED BY <2>1, <2>2
<1>9. Held(u, Occ(u)) = {SlotFor(nodes_, j) : j \in (S \ {k}) \cup {m}}
  <2>1. ASSUME NEW x \in Held(u, Occ(u))
        PROVE  x \in {SlotFor(nodes_, j) : j \in (S \ {k}) \cup {m}}
    <3>1. PICK i \in Occ(t) : x = u[i]
      BY <1>5 DEF Held
    <3>2. CASE i = at
      BY <3>1, <3>2, <1>6 DEF s
    <3>3. CASE i # at
      BY <3>1, <3>3, <1>6, <1>7
    <3> QED BY <3>2, <3>3
  <2>2. ASSUME NEW j \in (S \ {k}) \cup {m} PROVE SlotFor(nodes_, j) \in Held(u, Occ(u))
    <3>1. CASE j = m
      BY <3>1, <1>5, <1>6 DEF Held, s
    <3>2. CASE j \in S \ {k}
      BY <3>2, <1>5, <1>6, <1>8 DEF Held
    <3> QED BY <3>1, <3>2
  <2> QED BY <2>1, <2>2
<1>10. \A j \in Occ(t) : j # at => u[j] # s
  <2> SUFFICES ASSUME NEW j \in Occ(t), j # at, t[j] = s PROVE FALSE
    BY <1>6
  <2>1. t[j].id = m /\ m \in S \ {k}
    BY <1>3, <1>7
  <2> QED BY <2>1 DEF Tabled, OnePerHash
<1>11. Distinct(u, Occ(u))
  BY <1>5, <1>6, <1>10 DEF Distinct, Tabled
<1>12. OnePerHash(nodes_, (S \ {k}) \cup {m}) /\ (S \ {k}) \cup {m} \subseteq Valid(nodes_)
  BY DEF OnePerHash, Tabled
<1>13. Cap(u) = n
  BY <1>1, <1>5, CapIs
<1>14. \E x \in Nat \ {0} : u \in Table(x) /\ count * 5 <= x * 4
  BY <1>1, <1>5
<1> QED BY <1>5, <1>9, <1>11, <1>12, <1>13, <1>14 DEF Tabled, n

\* Backshift deletion takes one node out of the table.
LEMMA TableDeletes ==
    ASSUME NEW nodes_, NEW t, NEW count, NEW S, Tabled(nodes_, t, count, S),
           NEW at \in Occ(t),
           NEW u, u = With(Swept(t, at).table, Swept(t, at).gap, Empty)
    PROVE  /\ Tabled(nodes_, u, OneLess(count), Without(S, t[at].id))
           /\ Cap(u) = Cap(t)
           /\ t[at].id \in S
<1> DEFINE n == Cap(t)
           k == t[at].id
<1>1. /\ n \in Nat \ {0} /\ t \in Table(n) /\ count \in Nat /\ count * 5 <= n * 4
      /\ \E i \in 0..(n - 1) : t[i] = Empty
  BY TableShape
<1> HIDE DEF n
<1>2. /\ u \in Table(n) /\ Reachable(u) /\ Held(u, Occ(u)) = Held(t, Occ(t) \ {at})
      /\ Distinct(u, Occ(u)) /\ Cardinality(Occ(u)) = Cardinality(Occ(t)) - 1
  <2>1. Reachable(t) /\ Distinct(t, Occ(t))
    BY DEF Tabled
  <2> QED BY <1>1, <2>1, BackshiftDeletes
<1>3. k \in S /\ t[at] = SlotFor(nodes_, k)
  BY HeldIs
<1>4. Held(t, Occ(t) \ {at}) = {SlotFor(nodes_, j) : j \in S \ {k}}
  <2>1. ASSUME NEW i \in Occ(t) \ {at} PROVE t[i] \in {SlotFor(nodes_, j) : j \in S \ {k}}
    <3>1. t[i].id \in S /\ t[i] = SlotFor(nodes_, t[i].id)
      BY HeldIs
    <3>2. t[i] # t[at]
      BY DEF Tabled, Distinct
    <3> QED BY <3>1, <3>2, <1>3
  <2>2. ASSUME NEW j \in S \ {k} PROVE SlotFor(nodes_, j) \in Held(t, Occ(t) \ {at})
    <3>1. PICK i \in Occ(t) : t[i] = SlotFor(nodes_, j)
      BY HeldIs
    <3>2. SlotFor(nodes_, j) # SlotFor(nodes_, k)
      BY DEF SlotFor
    <3> QED BY <3>1, <3>2, <1>3 DEF Held
  <2> QED BY <2>1, <2>2 DEF Held
<1>5. OnePerHash(nodes_, S \ {k}) /\ S \ {k} \subseteq Valid(nodes_)
  BY DEF OnePerHash, Tabled
<1>6. count - 1 = Cardinality(Occ(u)) /\ (count - 1) * 5 <= n * 4
  BY <1>1, <1>2 DEF Tabled
<1>7. Cap(u) = n
  BY <1>1, <1>2, CapIs
<1>8. \E x \in Nat \ {0} : u \in Table(x) /\ (count - 1) * 5 <= x * 4
  BY <1>1, <1>2, <1>6
<1>9. Tabled(nodes_, u, count - 1, S \ {k})
  BY <1>2, <1>4, <1>5, <1>6, <1>8 DEF Tabled
<1> QED BY <1>3, <1>7, <1>9 DEF n, OneLess, Without


\* The table depends on the nodes it holds only.
LEMMA TableIgnores ==
    ASSUME NEW nodes_, NEW t, NEW count, NEW S, Tabled(nodes_, t, count, S),
           NEW new, \A m \in S : new[m] = nodes_[m]
    PROVE  Tabled(new, t, count, S)
<1>1. \A m \in S : NodeHash(new, m) = NodeHash(nodes_, m)
  BY DEF NodeHash
<1>2. \A m \in S : SlotFor(new, m) = SlotFor(nodes_, m)
  BY <1>1 DEF SlotFor
<1>3. S \subseteq Valid(new)
  BY DEF Tabled, Valid
<1>4. OnePerHash(new, S)
  BY <1>1 DEF Tabled, OnePerHash
<1>5. Held(t, Occ(t)) = {SlotFor(new, m) : m \in S}
  BY <1>2 DEF Tabled
<1> QED BY <1>3, <1>4, <1>5 DEF Tabled

\* A new table is empty.
LEMMA TableEmpties ==
    ASSUME NEW nodes_, NEW n \in Nat \ {0}
    PROVE  Tabled(nodes_, EmptySlots(n), 0, {}) /\ Cap(EmptySlots(n)) = n
<1> DEFINE t == EmptySlots(n)
<1>1. t \in Table(n) /\ Occ(t) = {} /\ Reachable(t)
  BY EmptyTable
<1> HIDE DEF t
<1>2. Cap(t) = n
  BY <1>1, CapIs
<1>3. 0 * 5 <= n * 4 /\ Cardinality(Occ(t)) = 0
  BY <1>1, FS_EmptySet
<1>4. \E k \in Nat \ {0} : t \in Table(k) /\ 0 * 5 <= k * 4
  BY <1>1, <1>3
<1>5. Held(t, Occ(t)) = {} /\ Distinct(t, Occ(t)) /\ OnePerHash(nodes_, {})
  BY <1>1 DEF Held, Distinct, OnePerHash
<1>6. Tabled(nodes_, t, 0, {})
  BY <1>1, <1>3, <1>4, <1>5 DEF Tabled
<1> QED BY <1>2, <1>6 DEF t

\* What renumbering must respect: nodes keep their keys' hashes.
Renumbers(nodes_, new, newId, S) ==
    \A m \in S : /\ newId[m] \in Valid(new)
                 /\ NodeHash(new, newId[m]) = NodeHash(nodes_, m)

Image(f, S) == {f[m] : m \in S}

\* Two nodes never have the same slot.
LEMMA SlotForInjective ==
    ASSUME NEW nodes_, NEW m, NEW k, SlotFor(nodes_, m) = SlotFor(nodes_, k)
    PROVE  m = k
  BY DEF SlotFor

\* The slot of a node that moves, renumbered, is the slot of its new id.
LEMMA RenamedSlot ==
    ASSUME NEW nodes_, NEW new, NEW newId, NEW m \in Valid(nodes_),
           newId[m] \in Valid(new), NodeHash(new, newId[m]) = NodeHash(nodes_, m)
    PROVE  Renamed(SlotFor(nodes_, m), newId) = SlotFor(new, newId[m])
  BY DEF Renamed, SlotFor

\* Renumbering turns the slots of the nodes into those of their new ids.
LEMMA RenamedTable ==
    ASSUME NEW nodes_, NEW t, NEW count, NEW S, Tabled(nodes_, t, count, S),
           NEW new, NEW newId, Renumbers(nodes_, new, newId, S)
    PROVE  /\ \A i \in Occ(t) :
                /\ t[i].id \in S
                /\ Renamed(t[i], newId) = SlotFor(new, newId[t[i].id])
           /\ \A i, j \in Occ(t) : Renamed(t[i], newId) = Renamed(t[j], newId) => i = j
           /\ \A k \in Image(newId, S) :
                \E i \in Occ(t) : Renamed(t[i], newId) = SlotFor(new, k)
           /\ Image(newId, S) \subseteq Valid(new)
           /\ OnePerHash(new, Image(newId, S))
<1>1. ASSUME NEW i \in Occ(t)
      PROVE  /\ t[i].id \in S
             /\ Renamed(t[i], newId) = SlotFor(new, newId[t[i].id])
  <2>1. t[i].id \in S /\ t[i] = SlotFor(nodes_, t[i].id)
    BY HeldIs
  <2>2. t[i].id \in Valid(nodes_)
    BY <2>1 DEF Tabled
  <2> QED BY <2>1, <2>2, RenamedSlot DEF Renumbers
<1>2. ASSUME NEW m \in S, NEW k \in S, newId[m] = newId[k] PROVE m = k
  BY <1>2 DEF Renumbers, Tabled, OnePerHash
<1>3. ASSUME NEW i \in Occ(t), NEW j \in Occ(t), Renamed(t[i], newId) = Renamed(t[j], newId)
      PROVE  i = j
  <2>1. newId[t[i].id] = newId[t[j].id]
    BY <1>1, <1>3, SlotForInjective
  <2>2. t[i].id = t[j].id
    BY <2>1, <1>1, <1>2
  <2>3. t[i] = t[j]
    BY <2>2, HeldIs
  <2> QED BY <2>3 DEF Tabled, Distinct
<1>4. ASSUME NEW k \in Image(newId, S)
      PROVE  \E i \in Occ(t) : Renamed(t[i], newId) = SlotFor(new, k)
  <2>1. PICK m \in S : k = newId[m]
    BY DEF Image
  <2>2. PICK i \in Occ(t) : t[i] = SlotFor(nodes_, m)
    BY HeldIs
  <2>3. t[i].id = m
    BY <2>2 DEF SlotFor
  <2> QED BY <2>1, <2>3, <1>1
<1>5. Image(newId, S) \subseteq Valid(new)
  BY DEF Renumbers, Image
<1>6. OnePerHash(new, Image(newId, S))
  BY DEF Renumbers, OnePerHash, Tabled, Image
<1> QED BY <1>1, <1>3, <1>4, <1>5, <1>6

\* A copy into a table of another capacity.
LEMMA TableCopies ==
    ASSUME NEW nodes_, NEW t, NEW count, NEW S, Tabled(nodes_, t, count, S),
           NEW new, NEW newId, Renumbers(nodes_, new, newId, S),
           NEW cap \in Nat \ {0}, count * 5 <= cap * 4,
           NEW u, u = Reinsert(t, cap, newId)
    PROVE  Tabled(new, u, count, Image(newId, S)) /\ Cap(u) = cap
<1> DEFINE n == Cap(t)
           T == Image(newId, S)
<1>1. /\ n \in Nat \ {0} /\ t \in Table(n) /\ count \in Nat /\ DOMAIN t = 0..(n - 1)
      /\ count = Cardinality(Occ(t))
  BY TableShape DEF Tabled
<1>2. /\ \A i \in Occ(t) : t[i].id \in S /\ Renamed(t[i], newId) = SlotFor(new, newId[t[i].id])
      /\ \A i, j \in Occ(t) : Renamed(t[i], newId) = Renamed(t[j], newId) => i = j
      /\ \A k \in T : \E i \in Occ(t) : Renamed(t[i], newId) = SlotFor(new, k)
      /\ T \subseteq Valid(new) /\ OnePerHash(new, T)
  BY RenamedTable
<1> HIDE DEF n, T
<1>a. {Renamed(t[i], newId) : i \in Occ(t)} = {SlotFor(new, k) : k \in T}
  BY <1>2 DEF T, Image
<1>3. \A i \in Occ(t) : t[i].tag # 0 /\ newId[t[i].id] \in Nat
  <2> SUFFICES ASSUME NEW i \in Occ(t) PROVE t[i].tag # 0 /\ newId[t[i].id] \in Nat
    OBVIOUS
  <2>1. t[i].id \in S /\ t[i] = SlotFor(nodes_, t[i].id)
    BY HeldIs
  <2>2. t[i].id \in Valid(nodes_)
    BY <2>1 DEF Tabled
  <2>3. t[i].tag = Tag[NodeHash(nodes_, t[i].id)] /\ NodeHash(nodes_, t[i].id) \in Hashes
    BY <2>1, <2>2, SlotForType
  <2>4. newId[t[i].id] \in Node
    BY <2>1 DEF Renumbers, Valid
  <2> QED BY <2>3, <2>4, ZeroFacts
<1>4. Copies(n, t, cap, newId)
  <2>1. Cardinality(Occ(t)) < cap
    BY <1>1
  <2> QED BY <2>1, <1>2, <1>3 DEF Copies
<1>5. u \in Table(cap) /\ Copied(t, newId, n, u)
  BY <1>1, <1>4, ReinsertCopies
<1>6. Before(t, n) = Occ(t)
  BY <1>1 DEF Before, Occ
<1>7. Cap(u) = cap
  BY <1>5, CapIs
<1>8. /\ Reachable(u) /\ Distinct(u, Occ(u)) /\ Cardinality(Occ(u)) = count
      /\ Held(u, Occ(u)) = {SlotFor(new, k) : k \in T}
  BY <1>1, <1>a, <1>5, <1>6 DEF Copied
<1>9. \E x \in Nat \ {0} : u \in Table(x) /\ count * 5 <= x * 4
  BY <1>5
<1> QED BY <1>2, <1>7, <1>8, <1>9 DEF Tabled, T

\* Renumbering in place.
Remapped(t, newId) ==
    [i \in DOMAIN t |-> IF t[i] = Empty THEN Empty ELSE [t[i] EXCEPT !.id = newId[@]]]

\* compactHashSlotsLocked in place keeps the table sound.
LEMMA TableRemaps ==
    ASSUME NEW nodes_, NEW t, NEW count, NEW S, Tabled(nodes_, t, count, S),
           NEW new, NEW newId, Renumbers(nodes_, new, newId, S),
           NEW u, u = Remapped(t, newId)
    PROVE  Tabled(new, u, count, Image(newId, S)) /\ Cap(u) = Cap(t)
<1> DEFINE n == Cap(t)
           T == Image(newId, S)
<1>1. /\ n \in Nat \ {0} /\ t \in Table(n) /\ count \in Nat /\ DOMAIN t = 0..(n - 1)
      /\ count = Cardinality(Occ(t)) /\ count * 5 <= n * 4
  BY TableShape DEF Tabled
<1>2. /\ \A i \in Occ(t) : t[i].id \in S /\ Renamed(t[i], newId) = SlotFor(new, newId[t[i].id])
      /\ \A i, j \in Occ(t) : Renamed(t[i], newId) = Renamed(t[j], newId) => i = j
      /\ \A k \in T : \E i \in Occ(t) : Renamed(t[i], newId) = SlotFor(new, k)
      /\ T \subseteq Valid(new) /\ OnePerHash(new, T)
  BY RenamedTable
<1> HIDE DEF n, T
<1>a. {Renamed(t[i], newId) : i \in Occ(t)} = {SlotFor(new, k) : k \in T}
  BY <1>2 DEF T, Image
<1>3. u = [i \in 0..(n - 1) |-> IF t[i] = Empty THEN Empty ELSE Renamed(t[i], newId)]
  BY <1>1 DEF Renamed, Remapped
<1>4. \A i \in Occ(t) : /\ Renamed(t[i], newId) \in Slot /\ Renamed(t[i], newId) # Empty
                        /\ Renamed(t[i], newId).tag = t[i].tag
  <2> SUFFICES ASSUME NEW i \in Occ(t)
               PROVE  /\ Renamed(t[i], newId) \in Slot /\ Renamed(t[i], newId) # Empty
                      /\ Renamed(t[i], newId).tag = t[i].tag
    OBVIOUS
  <2>1. t[i].id \in S /\ t[i] = SlotFor(nodes_, t[i].id)
    BY HeldIs
  <2>2. t[i].id \in Valid(nodes_) /\ newId[t[i].id] \in Valid(new)
    BY <2>1 DEF Tabled, Renumbers
  <2>3. NodeHash(new, newId[t[i].id]) = NodeHash(nodes_, t[i].id)
    BY <2>1 DEF Renumbers
  <2>4. t[i].tag = Tag[NodeHash(nodes_, t[i].id)]
    BY <2>1, <2>2, SlotForType
  <2>5. LET s == SlotFor(new, newId[t[i].id])
        IN  s \in Slot /\ s # Empty /\ s.tag = Tag[NodeHash(new, newId[t[i].id])]
    BY <2>2, SlotForType
  <2> QED BY <2>3, <2>4, <2>5, <1>2
<1>5. u \in Table(n)
  BY <1>1, <1>3, <1>4, ZeroFacts DEF Table, Occ
<1>6. Cap(u) = n /\ DOMAIN u = 0..(n - 1) /\ Cap(t) = n
  BY <1>1, <1>5, CapIs DEF n
<1>7. Occ(u) = Occ(t) /\ \A i \in Occ(t) : u[i] = Renamed(t[i], newId)
  BY <1>1, <1>3, <1>4, <1>6 DEF Occ
<1>8. Held(u, Occ(u)) = {SlotFor(new, k) : k \in T} /\ Distinct(u, Occ(u))
  <2>1. Held(u, Occ(u)) = {Renamed(t[i], newId) : i \in Occ(t)}
    BY <1>7 DEF Held
  <2>2. Distinct(u, Occ(u))
    BY <1>2, <1>7 DEF Distinct
  <2> QED BY <2>1, <2>2, <1>a
<1>9. ASSUME NEW i \in Occ(u) PROVE Reached(u, i)
  <2>1. i \in Occ(t) /\ u[i].tag = t[i].tag
    BY <1>4, <1>7
  <2>2. Reached(t, i)
    BY <2>1 DEF Tabled, Reachable
  <2>3. \A j \in 0..(n - 1) : t[j] # Empty => u[j] # Empty
    BY <1>1, <1>4, <1>7 DEF Occ
  <2> QED BY <2>1, <2>2, <2>3, <1>1, <1>6 DEF Reached
<1>10. \E x \in Nat \ {0} : u \in Table(x) /\ count * 5 <= x * 4
  BY <1>1, <1>5
<1>11. count = Cardinality(Occ(u))
  BY <1>1, <1>7
<1> QED BY <1>2, <1>6, <1>8, <1>9, <1>10, <1>11 DEF Tabled, T, Reachable


-----------------------------------------------------------------------------
(* The lists of nodes of equal hash                                        *)

Listed(peers_) == UNION {ToSet(peers_[h]) : h \in Hashes}

\* A list l of nodes that hash to h and have no slot, while some node of h has one.
ListOK(nodes_, S, h, l) ==
    /\ IsInjective(l)
    /\ \A m \in ToSet(l) : m \in Valid(nodes_) /\ m \notin S /\ NodeHash(nodes_, m) = h
    /\ l # <<>> => \E m \in S : NodeHash(nodes_, m) = h

Lists(nodes_, S, peers_, count) ==
    /\ peers_ \in [Hashes -> Seq(Node)]
    /\ \A h \in Hashes : ListOK(nodes_, S, h, peers_[h])
    /\ count = Cardinality(Listed(peers_))

\* The nodes are finitely many.
LEMMA NodeFinite == IsFiniteSet(Node)
  BY HashAssumption, FS_Interval DEF Node

\* The nodes in the peer lists are finitely many.
LEMMA ListedType ==
    ASSUME NEW peers_ \in [Hashes -> Seq(Node)]
    PROVE  /\ Listed(peers_) \subseteq Node
           /\ IsFiniteSet(Listed(peers_))
           /\ Cardinality(Listed(peers_)) \in Nat
<1>1. \A h \in Hashes : ToSet(peers_[h]) \subseteq Node
  BY DEF ToSet
<1>2. Listed(peers_) \subseteq Node
  BY <1>1 DEF Listed
<1>3. IsFiniteSet(Listed(peers_))
  BY <1>2, NodeFinite, FS_Subset
<1> QED BY <1>2, <1>3, FS_CardinalityType

PeersWith(peers_, h, l) == [peers_ EXCEPT ![h] = l]

\* A list is changed, and slots of its hash only.
LEMMA ListChanges ==
    ASSUME NEW nodes_, NEW S, NEW peers_, NEW count, Lists(nodes_, S, peers_, count),
           NEW h \in Hashes, NEW l \in Seq(Node), NEW T, ListOK(nodes_, T, h, l),
           \A m \in Valid(nodes_) : NodeHash(nodes_, m) # h => (m \in S <=> m \in T),
           S \subseteq Valid(nodes_),
           NEW new, new = PeersWith(peers_, h, l)
    PROVE  /\ Lists(nodes_, T, new, Cardinality(Listed(new)))
           /\ Listed(new) = (Listed(peers_) \ ToSet(peers_[h])) \cup ToSet(l)
<1>1. new \in [Hashes -> Seq(Node)] /\ \A k \in Hashes : new[k] = IF k = h THEN l ELSE peers_[k]
  BY DEF Lists, PeersWith
<1>2. ASSUME NEW k \in Hashes PROVE ListOK(nodes_, T, k, new[k])
  <2>1. CASE k = h
    BY <2>1, <1>1
  <2>2. CASE k # h
    <3>1. ListOK(nodes_, S, k, peers_[k]) /\ new[k] = peers_[k]
      BY <2>2, <1>1 DEF Lists
    <3> QED BY <3>1, <2>2 DEF ListOK
  <2> QED BY <2>1, <2>2
<1>3. Listed(new) = (Listed(peers_) \ ToSet(peers_[h])) \cup ToSet(l)
  <2>1. ASSUME NEW x \in Listed(new)
        PROVE  x \in (Listed(peers_) \ ToSet(peers_[h])) \cup ToSet(l)
    <3>1. PICK k \in Hashes : x \in ToSet(new[k])
      BY DEF Listed
    <3>2. CASE k = h
      BY <3>1, <3>2, <1>1
    <3>3. CASE k # h
      <4>1. x \in ToSet(peers_[k]) /\ x \in Listed(peers_)
        BY <3>1, <3>3, <1>1 DEF Listed
      <4>2. x \notin ToSet(peers_[h])
        BY <4>1, <3>3 DEF Lists, ListOK
      <4> QED BY <4>1, <4>2
    <3> QED BY <3>2, <3>3
  <2>2. ASSUME NEW x \in Listed(peers_), x \notin ToSet(peers_[h]) PROVE x \in Listed(new)
    <3>1. PICK k \in Hashes : x \in ToSet(peers_[k])
      BY DEF Listed
    <3> QED BY <3>1, <2>2, <1>1 DEF Listed
  <2>3. ToSet(l) \subseteq Listed(new)
    BY <1>1 DEF Listed
  <2> QED BY <2>1, <2>2, <2>3
<1> QED BY <1>1, <1>2, <1>3 DEF Lists

\* The first occurrence of n leaves a list without repetitions.
LEMMA RemoveFirstIs ==
    ASSUME NEW l \in Seq(Node), IsInjective(l), NEW n \in ToSet(l)
    PROVE  /\ RemoveFirst(l, n) \in Seq(Node)
           /\ IsInjective(RemoveFirst(l, n))
           /\ ToSet(RemoveFirst(l, n)) = ToSet(l) \ {n}
<1> DEFINE I == {i \in 1..Len(l) : l[i] = n}
           at == Min(I)
           r == SubSeq(l, 1, at - 1) \o SubSeq(l, at + 1, Len(l))
<1>1. PICK k \in 1..Len(l) : l[k] = n
  BY DEF ToSet
<1>2. I = {k}
  BY <1>1 DEF IsInjective
<1>3. at = k
  <2>1. \A x, y \in {k} : x =< y
    BY <1>1
  <2> QED BY <1>2, <2>1 DEF Min
<1>4. RemoveFirst(l, n) = r
  BY <1>1, <1>2 DEF RemoveFirst, RemoveAt, SelectInSeq
<1>5. /\ r \in Seq(Node) /\ Len(r) = Len(l) - 1
      /\ \A i \in 1..(Len(l) - 1) : r[i] = IF i < k THEN l[i] ELSE l[i + 1]
  <2> DEFINE a == SubSeq(l, 1, k - 1)
             b == SubSeq(l, k + 1, Len(l))
  <2>1. a \in Seq(Node) /\ Len(a) = k - 1 /\ \A i \in 1..(k - 1) : a[i] = l[i]
    BY <1>1
  <2>2. b \in Seq(Node) /\ Len(b) = Len(l) - k /\ \A i \in 1..(Len(l) - k) : b[i] = l[k + i]
    BY <1>1
  <2>3. r = a \o b
    BY <1>3
  <2> HIDE DEF a, b, r
  <2>4. r \in Seq(Node) /\ Len(r) = Len(l) - 1
    BY <2>1, <2>2, <2>3, <1>1
  <2>5. ASSUME NEW i \in 1..(Len(l) - 1) PROVE r[i] = IF i < k THEN l[i] ELSE l[i + 1]
    <3>1. CASE i < k
      BY <3>1, <2>1, <2>2, <2>3, <1>1
    <3>2. CASE ~(i < k)
      <4>1. i - (k - 1) \in 1..(Len(l) - k) /\ k + (i - (k - 1)) = i + 1
        BY <3>2, <1>1
      <4>2. r[i] = b[i - (k - 1)]
        BY <3>2, <2>1, <2>2, <2>3, <1>1
      <4> QED BY <4>1, <4>2, <3>2, <2>2
    <3> QED BY <3>1, <3>2
  <2> QED BY <2>4, <2>5
<1> HIDE DEF r, at
<1>6. /\ r \in Seq(Node) /\ Len(r) = Len(l) - 1
      /\ \A i \in 1..(Len(l) - 1) : r[i] = IF i < k THEN l[i] ELSE l[i + 1]
  BY <1>5
<1>7. IsInjective(r)
  <2>1. SUFFICES ASSUME NEW i \in 1..(Len(l) - 1), NEW j \in 1..(Len(l) - 1), r[i] = r[j]
                 PROVE  i = j
    BY <1>6 DEF IsInjective
  <2> DEFINE x == IF i < k THEN i ELSE i + 1
             y == IF j < k THEN j ELSE j + 1
  <2>2. x \in 1..Len(l) /\ y \in 1..Len(l) /\ r[i] = l[x] /\ r[j] = l[y]
    BY <1>1, <1>6
  <2>3. x = y
    <3> HIDE DEF x, y
    <3>0. DOMAIN l = 1..Len(l)
      OBVIOUS
    <3>1. l[x] = l[y] /\ x \in DOMAIN l /\ y \in DOMAIN l
      <4>1. l[x] = r[i] /\ l[y] = r[j]
        BY <2>2
      <4>2. l[x] = l[y]
        BY <4>1, <2>1
      <4> QED BY <4>2, <2>2, <3>0
    <3>2. \A a, b \in DOMAIN l : l[a] = l[b] => a = b
      BY DEF IsInjective
    <3> QED BY <3>1, <3>2
  <2> QED BY <2>3, <1>1
<1>8. ToSet(r) = ToSet(l) \ {n}
  <2>1. ASSUME NEW i \in 1..Len(r) PROVE r[i] \in ToSet(l) \ {n}
    <3> DEFINE x == IF i < k THEN i ELSE i + 1
    <3>1. x \in 1..Len(l) /\ r[i] = l[x] /\ x # k
      BY <2>1, <1>1, <1>6
    <3> HIDE DEF x
    <3>2. DOMAIN l = 1..Len(l)
      OBVIOUS
    <3>3. l[x] \in ToSet(l)
      BY <3>1, <3>2 DEF ToSet
    <3>4. l[x] # n
      BY <3>1, <3>2, <1>1 DEF IsInjective
    <3> QED BY <3>1, <3>3, <3>4
  <2>2. ASSUME NEW i \in 1..Len(l), l[i] # n PROVE l[i] \in ToSet(r)
    <3>1. CASE i < k
      <4>1. i \in 1..Len(r) /\ r[i] = l[i]
        BY <3>1, <1>1, <1>6
      <4> QED BY <4>1, <1>6 DEF ToSet
    <3>2. CASE i > k
      <4>1. i - 1 \in 1..Len(r) /\ r[i - 1] = l[i]
        BY <3>2, <1>1, <1>6
      <4> QED BY <4>1, <1>6 DEF ToSet
    <3> QED BY <3>1, <3>2, <2>2, <1>1
  <2> QED BY <2>1, <2>2, <1>6 DEF ToSet
<1> QED BY <1>4, <1>6, <1>7, <1>8


-----------------------------------------------------------------------------
(* The index as a whole                                                    *)

Records ==
    [nodes : [Node -> Key \cup {NoKey}], short : [Node -> Nat],
     slots : UNION {Table(n) : n \in Nat \ {0}}, hashCount : Nat,
     peers : [Hashes -> Seq(Node)], collisionCount : Nat]

Rec(nd, sh, sl, hc, pe, cc) ==
    [nodes |-> nd, short |-> sh, slots |-> sl, hashCount |-> hc, peers |-> pe,
     collisionCount |-> cc]

\* No key has two nodes.
KeysOnce(nodes_) == \A m, k \in Valid(nodes_) : nodes_[m] = nodes_[k] => m = k

\* The index c has the slots of the nodes in S and in all the nodes in X: those and
\* the listed ones.  Between operations X is the set of live nodes; in the midst of
\* one a node may be live and not yet, or no longer, indexed.
Indexed(c, S, X) ==
    /\ c \in Records
    /\ KeysOnce(c.nodes)
    /\ Tabled(c.nodes, c.slots, c.hashCount, S)
    /\ Lists(c.nodes, S, c.peers, c.collisionCount)
    /\ X = S \cup Listed(c.peers)

ShortOK(sh) == sh \in [Node -> Nat]
Both(S, peers_) == S \cup Listed(peers_)

\* A well-typed state is made of its six fields.
LEMMA RecordFields ==
    ASSUME NEW c \in Records
    PROVE  /\ c = Rec(c.nodes, c.short, c.slots, c.hashCount, c.peers, c.collisionCount)
           /\ NodesType(c.nodes) /\ c.nodes \in [Node -> Key \cup {NoKey}]
           /\ c.short \in [Node -> Nat] /\ c.hashCount \in Nat /\ c.collisionCount \in Nat
           /\ c.peers \in [Hashes -> Seq(Node)] /\ ShortOK(c.short)
  BY DEF Records, Rec, NodesType, ShortOK

\* An index is built from its parts.
LEMMA IndexedFrom ==
    ASSUME NEW nd, NodesType(nd), NEW sh, ShortOK(sh),
           NEW sl, NEW hc, NEW pe, NEW cc, NEW S,
           KeysOnce(nd), Tabled(nd, sl, hc, S), Lists(nd, S, pe, cc),
           NEW e, e = Rec(nd, sh, sl, hc, pe, cc)
    PROVE  /\ Indexed(e, S, Both(S, pe))
           /\ e.nodes = nd /\ e.short = sh /\ e.slots = sl /\ e.hashCount = hc
           /\ e.peers = pe /\ e.collisionCount = cc
<1>1. /\ e.nodes = nd /\ e.short = sh /\ e.slots = sl /\ e.hashCount = hc
      /\ e.peers = pe /\ e.collisionCount = cc
  BY DEF Rec
<1>2. hc \in Nat /\ sl \in UNION {Table(n) : n \in Nat \ {0}}
  BY TableShape
<1>3. pe \in [Hashes -> Seq(Node)] /\ cc \in Nat
  BY ListedType DEF Lists
<1>4. e \in Records
  BY <1>2, <1>3 DEF Records, Rec, NodesType, ShortOK
<1> QED BY <1>1, <1>4 DEF Indexed, Both

\* What a sound index says of slots, lists and entries.
LEMMA IndexedParts ==
    ASSUME NEW c, NEW S, NEW X, Indexed(c, S, X)
    PROVE  /\ c \in Records
           /\ NodesType(c.nodes)
           /\ Live(c) = Valid(c.nodes)
           /\ S \subseteq X
           /\ X \subseteq Valid(c.nodes)
           /\ Listed(c.peers) \cap S = {}
           /\ \A m \in Listed(c.peers) : /\ NodeHash(c.nodes, m) \in Hashes
                                         /\ m \in ToSet(c.peers[NodeHash(c.nodes, m)])
           /\ \A m \in X : \E k \in S : NodeHash(c.nodes, k) = NodeHash(c.nodes, m)
<1>1. c \in Records /\ NodesType(c.nodes) /\ Live(c) = Valid(c.nodes)
  BY RecordFields, LiveIs DEF Indexed
<1>2. S \subseteq Valid(c.nodes)
  BY DEF Indexed, Tabled
<1>3. ASSUME NEW m \in Listed(c.peers)
      PROVE  /\ m \in Valid(c.nodes) /\ m \notin S /\ NodeHash(c.nodes, m) \in Hashes
             /\ m \in ToSet(c.peers[NodeHash(c.nodes, m)])
             /\ \E k \in S : NodeHash(c.nodes, k) = NodeHash(c.nodes, m)
  <2>1. PICK h \in Hashes : m \in ToSet(c.peers[h])
    BY DEF Listed
  <2>2. ListOK(c.nodes, S, h, c.peers[h])
    BY DEF Indexed, Lists
  <2>3. c.peers[h] # <<>>
    BY <2>1 DEF ToSet
  <2> QED BY <2>1, <2>2, <2>3 DEF ListOK
<1> QED BY <1>1, <1>2, <1>3 DEF Indexed

\* setHashTag21 stores a value that is well typed.
LEMMA ShortType ==
    ASSUME NEW sh, ShortOK(sh), NEW n \in Node, NEW h \in Hashes
    PROVE  ShortOK(With(sh, n, Tag[h] % ShortModulus))
<1>1. Tag[h] % ShortModulus \in Nat
  BY ZeroFacts, HashAssumption
<1> QED BY <1>1 DEF ShortOK, With

\* Room is made for one more slot.
LEMMA ResizeKeeps ==
    ASSUME NEW c, NEW S, NEW X, Indexed(c, S, X), NEW d, d = ResizeForOneMore(c)
    PROVE  /\ Indexed(d, S, X)
           /\ d = Rec(c.nodes, c.short, d.slots, c.hashCount, c.peers, c.collisionCount)
           /\ (c.hashCount + 1) * 5 <= Cap(d.slots) * 4
<1>1. /\ c = Rec(c.nodes, c.short, c.slots, c.hashCount, c.peers, c.collisionCount)
      /\ c \in Records /\ c.hashCount \in Nat
  BY RecordFields DEF Indexed
<1>2. Cap(c.slots) \in Nat
  BY TableShape DEF Indexed
<1>3. CASE (c.hashCount + 1) * 5 > Cap(c.slots) * 4
  <2> DEFINE cap == Max({CapFor(c.hashCount + 1), MinCap})
             u == Reinsert(c.slots, cap, SameIds)
  <2>1. d = [c EXCEPT !.slots = u]
    BY <1>3 DEF ResizeForOneMore
  <2>2. d = Rec(c.nodes, c.short, u, c.hashCount, c.peers, c.collisionCount)
    BY <2>1, <1>1 DEF Rec
  <2>3. cap \in Nat \ {0} /\ (c.hashCount + 1) * 5 <= cap * 4
    <3> DEFINE a == CapFor(c.hashCount + 1)
    <3>1. a \in Nat \ {0} /\ (c.hashCount + 1) * 5 <= a * 4
      BY <1>1, CapForSuffices
    <3>2. MinCap \in Nat \ {0}
      BY HashAssumption
    <3> HIDE DEF a
    <3>3. \E x \in {a, MinCap} : \A y \in {a, MinCap} : x >= y
      BY <3>1, <3>2
    <3>4. Max({a, MinCap}) \in {a, MinCap} /\ Max({a, MinCap}) >= a
      BY <3>3 DEF Max
    <3>5. cap = Max({a, MinCap})
      BY DEF a
    <3> HIDE DEF cap
    <3> QED BY <3>1, <3>2, <3>4, <3>5, <1>1
  <2> HIDE DEF cap, u
  <2>4. S \subseteq Node /\ S \subseteq Valid(c.nodes)
    BY DEF Indexed, Tabled, Valid
  <2>5. Renumbers(c.nodes, c.nodes, SameIds, S)
    BY <2>4 DEF Renumbers, SameIds
  <2>6. Image(SameIds, S) = S
    BY <2>4 DEF Image, SameIds
  <2>7. c.hashCount * 5 <= cap * 4
    BY <2>3, <1>1
  <2>8. Tabled(c.nodes, u, c.hashCount, S) /\ Cap(u) = cap
    <3>1. Tabled(c.nodes, c.slots, c.hashCount, S)
      BY DEF Indexed
    <3> QED BY <3>1, <2>3, <2>5, <2>6, <2>7, TableCopies DEF u
  <2>9. NodesType(c.nodes) /\ ShortOK(c.short)
    BY <1>1, RecordFields
  <2>a. KeysOnce(c.nodes) /\ Lists(c.nodes, S, c.peers, c.collisionCount) /\ X = Both(S, c.peers)
    BY DEF Indexed, Both
  <2>10. Indexed(d, S, X) /\ d.slots = u
    BY <2>2, <2>8, <2>9, <2>a, IndexedFrom
  <2> QED BY <2>2, <2>3, <2>8, <2>10
<1>4. CASE ~((c.hashCount + 1) * 5 > Cap(c.slots) * 4)
  <2>1. d = c
    BY <1>4 DEF ResizeForOneMore
  <2> QED BY <2>1, <1>1, <1>2, <1>4
<1> QED BY <1>3, <1>4


\* No node of the hash h has a slot.
Unslotted(nodes_, S, h) == \A k \in S : NodeHash(nodes_, k) # h

Roomy(t, count) == count * 5 <= Cap(t) * 4

\* A node of a hash that has no slot enters the index.
LEMMA AddsNode ==
    ASSUME NEW d, NEW S, NEW X, Indexed(d, S, X), NEW n \in Valid(d.nodes),
           Unslotted(d.nodes, S, NodeHash(d.nodes, n)),
           NEW at, FirstFree(Cap(d.slots), d.slots, Tag[NodeHash(d.nodes, n)], at),
           Roomy(d.slots, OneMore(d.hashCount)), NEW sh, ShortOK(sh),
           NEW e, e = Rec(d.nodes, sh, With(d.slots, at, SlotFor(d.nodes, n)),
                          OneMore(d.hashCount), d.peers, d.collisionCount)
    PROVE  /\ Indexed(e, Joined(S, n), Joined(X, n))
           /\ e.nodes = d.nodes
           /\ Cap(e.slots) = Cap(d.slots)
<1> DEFINE h == NodeHash(d.nodes, n)
           u == With(d.slots, at, SlotFor(d.nodes, n))
           T == S \cup {n}
           Y == X \cup {n}
           hc == OneMore(d.hashCount)
<1>0. Tabled(d.nodes, d.slots, d.hashCount, S)
  BY DEF Indexed
<1>1. Tabled(d.nodes, u, hc, S \cup {n}) /\ Cap(u) = Cap(d.slots)
  BY <1>0, TableAdds DEF Unslotted, Roomy, OneMore
<1> HIDE DEF u
<1>2. Lists(d.nodes, S \cup {n}, d.peers, d.collisionCount)
  <2>0. Lists(d.nodes, S, d.peers, d.collisionCount)
    BY DEF Indexed
  <2>1. ASSUME NEW g \in Hashes PROVE ListOK(d.nodes, S \cup {n}, g, d.peers[g])
    <3>1. ListOK(d.nodes, S, g, d.peers[g])
      BY <2>0 DEF Lists
    <3>2. n \notin ToSet(d.peers[g])
      <4> SUFFICES ASSUME n \in ToSet(d.peers[g]) PROVE FALSE
        OBVIOUS
      <4>1. d.peers[g] # <<>> /\ h = g
        BY <3>1 DEF ToSet, ListOK
      <4> QED BY <4>1, <3>1 DEF ListOK, Unslotted
    <3> QED BY <3>1, <3>2 DEF ListOK
  <2> QED BY <2>0, <2>1 DEF Lists
<1>3. NodesType(d.nodes) /\ KeysOnce(d.nodes) /\ X = S \cup Listed(d.peers)
  BY RecordFields DEF Indexed
<1>4. X \cup {n} = (S \cup {n}) \cup Listed(d.peers)
  BY <1>3
<1>5. e = Rec(d.nodes, sh, u, hc, d.peers, d.collisionCount)
  BY DEF u, hc
<1> HIDE DEF hc
<1>6. /\ Tabled(d.nodes, u, hc, T)
      /\ Lists(d.nodes, T, d.peers, d.collisionCount)
      /\ Y = Both(T, d.peers)
  BY <1>1, <1>2, <1>4 DEF Both
<1> HIDE DEF T, Y
<1>7. Indexed(e, T, Y) /\ e.nodes = d.nodes /\ e.slots = u
  BY <1>3, <1>5, <1>6, IndexedFrom
<1> QED BY <1>1, <1>7 DEF T, Y, Joined

\* The number of listed nodes when one is listed in the place of n, or beside it.
CountWith(d, n) ==
    IF n \in ToSet(d.peers[NodeHash(d.nodes, n)]) THEN d.collisionCount
    ELSE OneMore(d.collisionCount)

\* A node takes the slot of another of its hash, which joins the list.
LEMMA SwapsNode ==
    ASSUME NEW d, NEW S, NEW X, Indexed(d, S, X), NEW n \in Valid(d.nodes),
           NEW k \in S, k # n, NodeHash(d.nodes, k) = NodeHash(d.nodes, n),
           NEW at \in Occ(d.slots), d.slots[at] = SlotFor(d.nodes, k),
           NEW l \in Seq(Node), IsInjective(l),
           ToSet(l) = Joined(Without(ToSet(d.peers[NodeHash(d.nodes, n)]), n), k),
           NEW sh, ShortOK(sh), NEW cc,
           cc = CountWith(d, n),
           NEW e, e = Rec(d.nodes, sh, With(d.slots, at, SlotFor(d.nodes, n)), d.hashCount,
                          PeersWith(d.peers, NodeHash(d.nodes, n), l), cc)
    PROVE  /\ Indexed(e, Joined(Without(S, k), n), Joined(X, n))
           /\ e.nodes = d.nodes
           /\ Cap(e.slots) = Cap(d.slots)
<1> DEFINE h == NodeHash(d.nodes, n)
           u == With(d.slots, at, SlotFor(d.nodes, n))
           T == (S \ {k}) \cup {n}
           new == PeersWith(d.peers, h, l)
           L == Listed(d.peers)
<1>0. /\ Tabled(d.nodes, d.slots, d.hashCount, S)
      /\ Lists(d.nodes, S, d.peers, d.collisionCount)
      /\ S \subseteq Valid(d.nodes) /\ OnePerHash(d.nodes, S)
      /\ NodesType(d.nodes) /\ KeysOnce(d.nodes) /\ X = S \cup L
  BY RecordFields DEF Indexed, Tabled
<1>1. Tabled(d.nodes, u, d.hashCount, T) /\ Cap(u) = Cap(d.slots)
  <2> HIDE DEF L
  <2> QED BY <1>0, TableSwaps
<1>2. h \in Hashes
  BY SlotForType
<1>3. ListOK(d.nodes, S, h, d.peers[h])
  BY <1>0, <1>2 DEF Lists
<1>4. ListOK(d.nodes, T, h, l)
  <2>1. \A m \in ToSet(l) : m \in Valid(d.nodes) /\ m \notin T /\ NodeHash(d.nodes, m) = h
    BY <1>0, <1>3 DEF ListOK, Joined, Without
  <2> QED BY <2>1 DEF ListOK
<1>5. \A m \in Valid(d.nodes) : NodeHash(d.nodes, m) # h => (m \in S <=> m \in T)
  OBVIOUS
<1> HIDE DEF u, T, new, h
<1>6. /\ Lists(d.nodes, T, new, Cardinality(Listed(new)))
      /\ Listed(new) = (L \ ToSet(d.peers[h])) \cup ToSet(l)
  BY <1>0, <1>2, <1>4, <1>5, ListChanges DEF new
<1>7. /\ \A m \in L : NodeHash(d.nodes, m) \in Hashes
                      /\ m \in ToSet(d.peers[NodeHash(d.nodes, m)])
      /\ L \cap S = {} /\ ToSet(d.peers[h]) \subseteq L
  <2>1. ToSet(d.peers[h]) \subseteq L
    BY <1>2 DEF Listed
  <2> HIDE DEF L
  <2>2. /\ \A m \in Listed(d.peers) : NodeHash(d.nodes, m) \in Hashes
                      /\ m \in ToSet(d.peers[NodeHash(d.nodes, m)])
        /\ Listed(d.peers) \cap S = {}
    BY IndexedParts
  <2> QED BY <2>1, <2>2 DEF L
<1>8. Listed(new) = (L \ {n}) \cup {k} /\ (n \in L <=> n \in ToSet(d.peers[h])) /\ k \notin L
  BY <1>6, <1>7 DEF h, Joined, Without
<1>9. cc = Cardinality(Listed(new))
  <2>1. IsFiniteSet(L) /\ d.collisionCount = Cardinality(L) /\ Cardinality(L) \in Nat
    BY <1>0, ListedType DEF Lists
  <2>2. CASE n \in L
    <3>1. Cardinality(L \ {n}) = Cardinality(L) - 1 /\ IsFiniteSet(L \ {n})
      BY <2>1, <2>2, FS_RemoveElement
    <3>2. k \notin L \ {n}
      BY <1>8
    <3>3. Cardinality((L \ {n}) \cup {k}) = Cardinality(L \ {n}) + 1
      BY <3>1, <3>2, FS_AddElement
    <3>4. cc = d.collisionCount
      BY <2>2, <1>8 DEF h, CountWith
    <3> QED BY <3>1, <3>3, <3>4, <2>1, <1>8
  <2>3. CASE n \notin L
    <3>1. Listed(new) = L \cup {k}
      BY <2>3, <1>8
    <3>2. Cardinality(L \cup {k}) = Cardinality(L) + 1
      BY <2>1, <1>8, FS_AddElement
    <3>3. cc = d.collisionCount + 1
      BY <2>3, <1>8 DEF h, OneMore, CountWith
    <3> QED BY <3>1, <3>2, <3>3, <2>1
  <2> QED BY <2>2, <2>3
<1>10. X \cup {n} = T \cup Listed(new)
  BY <1>0, <1>8 DEF T
<1>11. e = Rec(d.nodes, sh, u, d.hashCount, new, cc)
  BY DEF u, new, h
<1>12. Lists(d.nodes, T, new, cc)
  BY <1>6, <1>9
<1> DEFINE Y == X \cup {n}
<1>13. Y = Both(T, new)
  BY <1>10 DEF Both
<1> HIDE DEF Y, L
<1>14. Indexed(e, T, Y) /\ e.nodes = d.nodes /\ e.slots = u
  BY <1>0, <1>1, <1>11, <1>12, <1>13, IndexedFrom
<1> QED BY <1>1, <1>14 DEF T, Y, Joined, Without

\* Some set of nodes has slots in an index of the nodes in X.
Sound(c, X) == \E S : Indexed(c, S, X)

\* An index with known slots is sound.
LEMMA IndexedIsSound ==
    ASSUME NEW c, NEW S, NEW X, Indexed(c, S, X)
    PROVE  Sound(c, X)
  BY DEF Sound

\* The slot that probing for h finds is free if and only if no node of h has a slot.
LEMMA HashSlot ==
    ASSUME NEW c, NEW S, NEW X, Indexed(c, S, X), NEW h \in Hashes
    PROVE  \/ /\ c.slots[FindSlot(c, h)] = Empty
              /\ Unslotted(c.nodes, S, h)
              /\ FirstFree(Cap(c.slots), c.slots, Tag[h], FindSlot(c, h))
           \/ \E k \in S : /\ NodeHash(c.nodes, k) = h
                           /\ FindSlot(c, h) \in Occ(c.slots)
                           /\ c.slots[FindSlot(c, h)] = SlotFor(c.nodes, k)
                           /\ c.slots[FindSlot(c, h)].id = k
                           /\ c.slots[FindSlot(c, h)] # Empty
<1>1. NodesType(c.nodes) /\ Tabled(c.nodes, c.slots, c.hashCount, S) /\ S \subseteq Valid(c.nodes)
  BY RecordFields DEF Indexed, Tabled
<1>2. CASE \E k \in S : NodeHash(c.nodes, k) = h
  <2>1. PICK k \in S : NodeHash(c.nodes, k) = h
    BY <1>2
  <2>2. FindSlot(c, h) \in Occ(c.slots) /\ c.slots[FindSlot(c, h)] = SlotFor(c.nodes, k)
    BY <1>1, <2>1, FindSlotFinds
  <2>3. SlotFor(c.nodes, k).id = k /\ SlotFor(c.nodes, k) # Empty
    BY <1>1, <2>1, SlotForType
  <2> QED BY <2>1, <2>2, <2>3
<1>3. CASE \A k \in S : NodeHash(c.nodes, k) # h
  <2>1. FirstFree(Cap(c.slots), c.slots, Tag[h], FindSlot(c, h))
    BY <1>1, <1>3, FindSlotMisses
  <2> QED BY <2>1, <1>3 DEF FirstFree, Unslotted
<1> QED BY <1>2, <1>3

\* A slot of a node whose hash is h is one of h's.
LEMMA PeerSlotIs ==
    ASSUME NEW c, NEW S, NEW X, Indexed(c, S, X), NEW n \in Valid(c.nodes),
           NEW h, h = NodeHash(c.nodes, n)
    PROVE  PeerSlot(c, h, n) = FindSlot(c, h)
<1> DEFINE own == {i \in DOMAIN c.slots : c.slots[i] = [tag |-> Tag[h], id |-> n]}
<1>1. Live(c) = Valid(c.nodes)
  BY IndexedParts
<1>2. own \subseteq SlotsOf(c, h)
  <2> SUFFICES ASSUME NEW i \in own PROVE i \in SlotsOf(c, h)
    OBVIOUS
  <2>1. i \in DOMAIN c.slots /\ c.slots[i].tag = Tag[h] /\ c.slots[i].id = n
    OBVIOUS
  <2>2. HashOf(c, n) = h
    BY DEF HashOf, NodeHash
  <2> HIDE DEF own
  <2> QED BY <2>1, <2>2 DEF SlotsOf, OtherHash
<1>3. SlotsOf(c, h) \cup own = SlotsOf(c, h)
  BY <1>2
<1> QED BY <1>3 DEF PeerSlot, FindSlot

\* A list contains what is in its range.
LEMMA ContainsIs ==
    ASSUME NEW l \in Seq(Node), NEW n
    PROVE  Contains(l, n) <=> n \in ToSet(l)
  BY DEF Contains, ToSet

\* A node leaves the list of its hash.
LEMMA RemovePeerRemoves ==
    ASSUME NEW c, NEW S, NEW X, Indexed(c, S, X), NEW n \in Valid(c.nodes), n \notin S,
           NEW h, h = NodeHash(c.nodes, n), NEW e, e = RemovePeer(c, h, n)
    PROVE  Indexed(e, S, Without(X, n)) /\ e.nodes = c.nodes
<1> DEFINE l == c.peers[h]
           L == Listed(c.peers)
           Y == X \ {n}
<1>1. /\ c = Rec(c.nodes, c.short, c.slots, c.hashCount, c.peers, c.collisionCount)
      /\ NodesType(c.nodes) /\ ShortOK(c.short) /\ c.collisionCount \in Nat
      /\ c.peers \in [Hashes -> Seq(Node)]
  BY RecordFields DEF Indexed
<1>2. h \in Hashes
  BY SlotForType
<1>3. l \in Seq(Node)
  BY <1>1, <1>2
<1>4. Contains(l, n) <=> n \in ToSet(l)
  BY <1>3, ContainsIs
<1>5. /\ KeysOnce(c.nodes) /\ Tabled(c.nodes, c.slots, c.hashCount, S)
      /\ Lists(c.nodes, S, c.peers, c.collisionCount) /\ X = S \cup L
      /\ S \subseteq Valid(c.nodes)
  BY DEF Indexed, Tabled
<1>6. n \in L <=> n \in ToSet(l)
  <2>1. n \in ToSet(l) => n \in L
    BY <1>2 DEF Listed
  <2>2. \A m \in Listed(c.peers) : m \in ToSet(c.peers[NodeHash(c.nodes, m)])
    BY IndexedParts
  <2> QED BY <2>1, <2>2
<1>7. CASE ~Contains(l, n)
  <2>1. e = c
    BY <1>7 DEF RemovePeer
  <2>2. Without(X, n) = X
    BY <1>4, <1>5, <1>6, <1>7 DEF Without
  <2> QED BY <2>1, <2>2
<1>8. CASE Contains(l, n)
  <2> DEFINE r == RemoveFirst(l, n)
             new == PeersWith(c.peers, h, r)
  <2>0. ListOK(c.nodes, S, h, l)
    BY <1>2, <1>5 DEF Lists
  <2>1. r \in Seq(Node) /\ IsInjective(r) /\ ToSet(r) = ToSet(l) \ {n}
    BY <1>3, <1>4, <1>8, <2>0, RemoveFirstIs DEF ListOK
  <2>2. ListOK(c.nodes, S, h, r)
    <3>1. l # <<>>
      BY <1>4, <1>8 DEF ToSet
    <3> HIDE DEF r
    <3> QED BY <2>0, <2>1, <3>1 DEF ListOK
  <2>3. e = Rec(c.nodes, c.short, c.slots, c.hashCount, new, CountDown(c.collisionCount))
    BY <1>1, <1>8 DEF RemovePeer, Rec, PeersWith
  <2> HIDE DEF r, new, L
  <2>4. /\ Lists(c.nodes, S, new, Cardinality(Listed(new)))
        /\ Listed(new) = (L \ ToSet(l)) \cup ToSet(r)
    <3>1. /\ Lists(c.nodes, S, new, Cardinality(Listed(new)))
          /\ Listed(new) = (Listed(c.peers) \ ToSet(c.peers[h])) \cup ToSet(r)
      BY <1>2, <1>5, <2>1, <2>2, ListChanges DEF new
    <3> QED BY <3>1 DEF L
  <2>5. Listed(new) = L \ {n} /\ n \in L
    <3>1. ToSet(l) \subseteq L
      BY <1>2 DEF Listed, L
    <3> QED BY <3>1, <2>1, <2>4, <1>4, <1>6, <1>8 DEF L
  <2>6. CountDown(c.collisionCount) = Cardinality(Listed(new))
    <3>1. IsFiniteSet(L) /\ c.collisionCount = Cardinality(L) /\ Cardinality(L) \in Nat
      BY <1>5, ListedType DEF Lists, L
    <3>2. Cardinality(L \ {n}) = Cardinality(L) - 1 /\ IsFiniteSet(L \ {n})
      BY <3>1, <2>5, FS_RemoveElement
    <3>3. Cardinality(L \ {n}) \in Nat
      BY <3>2, FS_CardinalityType
    <3> QED BY <3>1, <3>2, <3>3, <2>5 DEF CountDown
  <2>7. Y = Both(S, new)
    BY <1>5, <2>5 DEF Both
  <2>8. Lists(c.nodes, S, new, CountDown(c.collisionCount))
    BY <2>4, <2>6
  <2> HIDE DEF Y
  <2>9. Indexed(e, S, Y) /\ e.nodes = c.nodes
    BY <1>1, <1>5, <2>3, <2>7, <2>8, IndexedFrom
  <2> QED BY <2>9 DEF Y, Without
<1> QED BY <1>7, <1>8

\* nodeMapSet and insertNewHashSlotLocked of a node whose hash has no slot.
LEMMA InsertsNode ==
    ASSUME NEW c, NEW S, NEW X, Indexed(c, S, X), NEW n \in Valid(c.nodes),
           NEW h, h = NodeHash(c.nodes, n), Unslotted(c.nodes, S, h),
           NEW e, e = NodeMapSet(c, h, n) \/ e = InsertNewSlot(c, h, n)
    PROVE  Indexed(e, Joined(S, n), Joined(X, n)) /\ e.nodes = c.nodes
<1> DEFINE d == ResizeForOneMore(c)
           at == FindSlot(d, h)
           s == SlotFor(c.nodes, n)
           sh == With(c.short, n, Tag[h] % ShortModulus)
           u == With(d.slots, at, s)
<1>1. /\ Indexed(d, S, X)
      /\ d = Rec(c.nodes, c.short, d.slots, c.hashCount, c.peers, c.collisionCount)
      /\ (c.hashCount + 1) * 5 <= Cap(d.slots) * 4
  BY ResizeKeeps
<1>2. h \in Hashes /\ n \in Node /\ s = [tag |-> Tag[h], id |-> n] /\ s.tag = Tag[h]
  BY SlotForType DEF SlotFor, Valid
<1> HIDE DEF d
<1>3. /\ d.nodes = c.nodes /\ d.short = c.short /\ d.hashCount = c.hashCount
      /\ d.peers = c.peers /\ d.collisionCount = c.collisionCount
  BY <1>1 DEF Rec
<1>4. FirstFree(Cap(d.slots), d.slots, Tag[h], at) /\ d.slots[at] = Empty
  <2>1. \A k \in S : NodeHash(d.nodes, k) # h
    BY <1>3 DEF Unslotted
  <2> QED BY <1>1, <1>2, <2>1, HashSlot
<1>5. ShortOK(sh) /\ c.hashCount \in Nat
  <2>1. ShortOK(c.short) /\ c.hashCount \in Nat
    BY RecordFields DEF Indexed
  <2> QED BY <2>1, <1>2, ShortType
<1>6. Probe(d.slots, Tag[h], {}) = at
  <2>1. SlotsOf(d, h) = {}
    <3>1. NodesType(d.nodes) /\ Tabled(d.nodes, d.slots, d.hashCount, S)
      BY <1>1, RecordFields DEF Indexed
    <3>2. SlotsOf(d, h) = {i \in Occ(d.slots) : NodeHash(d.nodes, d.slots[i].id) = h}
      BY <1>2, <3>1, SlotsOfIs
    <3>3. \A i \in Occ(d.slots) : d.slots[i].id \in S
      BY <3>1, HeldIs
    <3> QED BY <3>2, <3>3, <1>3 DEF Unslotted
  <2> QED BY <2>1 DEF FindSlot
<1>7. e = Rec(d.nodes, sh, u, d.hashCount + 1, d.peers, d.collisionCount)
  <2> HIDE DEF at, s
  <2>1. CASE e = NodeMapSet(c, h, n)
    <3>1. e = SetShort([d EXCEPT !.slots[at] = s, !.hashCount = @ + 1], n, Tag[h])
      BY <2>1, <1>2, <1>4 DEF NodeMapSet, d, at
    <3> QED BY <3>1, <1>1, <1>3 DEF SetShort, Rec, With
  <2>2. CASE e = InsertNewSlot(c, h, n)
    <3>1. e = SetShort([d EXCEPT !.slots = Place(@, s), !.hashCount = @ + 1], n, Tag[h])
      BY <2>2, <1>2 DEF InsertNewSlot, d
    <3>2. Place(d.slots, s) = u
      BY <1>2, <1>6 DEF Place, With
    <3> QED BY <3>1, <3>2, <1>1, <1>3 DEF SetShort, Rec, With
  <2> QED BY <2>1, <2>2
<1> HIDE DEF at, sh
<1>8. Indexed(e, Joined(S, n), Joined(X, n)) /\ e.nodes = d.nodes
  <2>1. n \in Valid(d.nodes) /\ Unslotted(d.nodes, S, NodeHash(d.nodes, n))
    BY <1>3
  <2>2. FirstFree(Cap(d.slots), d.slots, Tag[NodeHash(d.nodes, n)], at)
    BY <1>3, <1>4
  <2>3. Roomy(d.slots, OneMore(d.hashCount))
    BY <1>1, <1>3 DEF Roomy, OneMore
  <2>4. e = Rec(d.nodes, sh, With(d.slots, at, SlotFor(d.nodes, n)), OneMore(d.hashCount),
                d.peers, d.collisionCount)
    BY <1>7, <1>3 DEF OneMore
  <2> QED BY <1>1, <1>5, <2>1, <2>2, <2>3, <2>4, AddsNode
<1> QED BY <1>3, <1>8

\* A list in which k takes the place of n.
LEMMA ReplaceAllIs ==
    ASSUME NEW l \in Seq(Node), IsInjective(l), NEW n, NEW k \in Node,
           n \in ToSet(l), k \notin ToSet(l), NEW r, r = ReplaceAll(l, n, k)
    PROVE  r \in Seq(Node) /\ IsInjective(r) /\ ToSet(r) = Joined(Without(ToSet(l), n), k)
<1>1. r \in Seq(Node) /\ Len(r) = Len(l)
  BY DEF ReplaceAll
<1>2. \A i \in 1..Len(l) : r[i] = IF l[i] = n THEN k ELSE l[i]
  BY DEF ReplaceAll
<1>3. \A i \in 1..Len(l) : l[i] # k
  BY DEF ToSet
<1>4. \A i, j \in 1..Len(l) : l[i] = l[j] => i = j
  BY DEF IsInjective
<1>5. PICK p \in 1..Len(l) : l[p] = n
  BY DEF ToSet
<1>6. IsInjective(r)
  <2>1. \A i, j \in 1..Len(r) : r[i] = r[j] => i = j
    BY <1>1, <1>2, <1>3, <1>4
  <2> QED BY <2>1, <1>1 DEF IsInjective
<1>7. ASSUME NEW x PROVE x \in ToSet(r) <=> (x \in ToSet(l) /\ x # n) \/ x = k
  <2>1. x \in ToSet(r) <=> \E i \in 1..Len(l) : r[i] = x
    BY <1>1 DEF ToSet
  <2>2. x \in ToSet(l) <=> \E i \in 1..Len(l) : l[i] = x
    BY DEF ToSet
  <2> QED BY <2>1, <2>2, <1>2, <1>5
<1> QED BY <1>1, <1>6, <1>7 DEF Joined, Without

\* A list to which k is appended.
LEMMA AppendIs ==
    ASSUME NEW l \in Seq(Node), IsInjective(l), NEW n, NEW k \in Node,
           n \notin ToSet(l), k \notin ToSet(l), NEW r, r = Append(l, k)
    PROVE  r \in Seq(Node) /\ IsInjective(r) /\ ToSet(r) = Joined(Without(ToSet(l), n), k)
<1>1. /\ r \in Seq(Node) /\ Len(r) = Len(l) + 1 /\ r[Len(l) + 1] = k
      /\ \A i \in 1..Len(l) : r[i] = l[i]
  OBVIOUS
<1>3. \A i \in 1..Len(l) : l[i] # k /\ l[i] # n
  BY DEF ToSet
<1>4. \A i, j \in 1..Len(l) : l[i] = l[j] => i = j
  BY DEF IsInjective
<1>5. \A i \in 1..Len(r) : i \in 1..Len(l) \/ i = Len(l) + 1
  BY <1>1
<1>6. IsInjective(r)
  <2>1. \A i, j \in 1..Len(r) : r[i] = r[j] => i = j
    BY <1>1, <1>3, <1>4, <1>5
  <2> QED BY <2>1, <1>1 DEF IsInjective
<1>7. ASSUME NEW x PROVE x \in ToSet(r) <=> (x \in ToSet(l) /\ x # n) \/ x = k
  <2>1. x \in ToSet(r) <=> \E i \in 1..Len(r) : r[i] = x
    BY <1>1 DEF ToSet
  <2>2. x \in ToSet(l) <=> \E i \in 1..Len(l) : l[i] = x
    BY DEF ToSet
  <2>3. Len(l) + 1 \in 1..Len(r) /\ \A i \in 1..Len(l) : i \in 1..Len(r)
    BY <1>1
  <2> QED BY <2>1, <2>2, <2>3, <1>1, <1>3, <1>5
<1> QED BY <1>1, <1>6, <1>7 DEF Joined, Without

\* promoteNodeIntoHashSlotAtLocked and the iteration of the rebuild that meets a node
\* of the same hash: the node in the slot joins the list in the place of n, or at its
\* end.
LEMMA PromoteSwaps ==
    ASSUME NEW c, NEW S, NEW X, Indexed(c, S, X), NEW n \in Valid(c.nodes),
           NEW h, h = NodeHash(c.nodes, n), NEW k \in S, k # n, NodeHash(c.nodes, k) = h,
           NEW at \in Occ(c.slots), c.slots[at] = SlotFor(c.nodes, k),
           NEW e, e = PromoteAt(c, at, h, n)
    PROVE  Sound(e, Joined(X, n)) /\ e.nodes = c.nodes /\ Cap(e.slots) = Cap(c.slots)
<1> DEFINE l == c.peers[h]
           s == SlotFor(c.nodes, n)
           sh == With(c.short, n, Tag[h] % ShortModulus)
           u == With(c.slots, at, s)
           known == n \in ToSet(l)
           r == IF known THEN ReplaceAll(l, n, k) ELSE Append(l, k)
           cc == IF known THEN c.collisionCount ELSE OneMore(c.collisionCount)
<1>1. /\ c = Rec(c.nodes, c.short, c.slots, c.hashCount, c.peers, c.collisionCount)
      /\ ShortOK(c.short) /\ c.peers \in [Hashes -> Seq(Node)]
      /\ Lists(c.nodes, S, c.peers, c.collisionCount) /\ S \subseteq Valid(c.nodes)
  BY RecordFields DEF Indexed, Tabled
<1>2. h \in Hashes /\ n \in Node /\ k \in Node /\ s = [tag |-> Tag[h], id |-> n]
  BY <1>1, SlotForType DEF SlotFor, Valid
<1>3. l \in Seq(Node) /\ ListOK(c.nodes, S, h, l)
  BY <1>1, <1>2 DEF Lists
<1>4. IsInjective(l) /\ k \notin ToSet(l) /\ (Contains(l, n) <=> known)
  BY <1>3, ContainsIs DEF ListOK
<1>5. r \in Seq(Node) /\ IsInjective(r) /\ ToSet(r) = Joined(Without(ToSet(l), n), k)
  <2> HIDE DEF l
  <2>1. CASE known
    BY <2>1, <1>2, <1>3, <1>4, ReplaceAllIs
  <2>2. CASE ~known
    BY <2>2, <1>2, <1>3, <1>4, AppendIs
  <2> QED BY <2>1, <2>2
<1>6. ShortOK(sh)
  BY <1>1, <1>2, ShortType
<1>7. HasHash(c, c.slots[at].id, h) /\ c.slots[at].id = k
  <2>1. c.slots[at].id = k
    BY DEF SlotFor
  <2>2. k \in Live(c)
    BY <1>1, IndexedParts
  <2> QED BY <2>1, <2>2 DEF HasHash, HashOf, NodeHash
<1>8. e = Rec(c.nodes, sh, u, c.hashCount, PeersWith(c.peers, h, r), cc)
  <2> DEFINE d == IF known THEN [c EXCEPT !.peers[h] = ReplaceAll(@, n, k)]
                  ELSE [c EXCEPT !.peers[h] = Append(@, k), !.collisionCount = @ + 1]
  <2>1. e = SetShort([d EXCEPT !.slots[at] = [tag |-> Tag[h], id |-> n]], n, Tag[h])
    BY <1>4, <1>7 DEF PromoteAt
  <2>2. d = Rec(c.nodes, c.short, c.slots, c.hashCount, PeersWith(c.peers, h, r), cc)
    <3>1. CASE known
      BY <3>1, <1>1 DEF Rec, PeersWith
    <3>2. CASE ~known
      BY <3>2, <1>1 DEF Rec, PeersWith, OneMore
    <3> QED BY <3>1, <3>2
  <2> HIDE DEF d, r, cc
  <2> QED BY <2>1, <2>2, <1>2 DEF Rec, SetShort, With
<1> HIDE DEF r, sh
<1>9. /\ Indexed(e, Joined(Without(S, k), n), Joined(X, n)) /\ e.nodes = c.nodes
      /\ Cap(e.slots) = Cap(c.slots)
  <2>1. /\ ToSet(r) = Joined(Without(ToSet(c.peers[NodeHash(c.nodes, n)]), n), k)
        /\ cc = CountWith(c, n)
        /\ e = Rec(c.nodes, sh, With(c.slots, at, SlotFor(c.nodes, n)), c.hashCount,
                   PeersWith(c.peers, NodeHash(c.nodes, n), r), cc)
    BY <1>5, <1>8 DEF CountWith
  <2>2. NodeHash(c.nodes, k) = NodeHash(c.nodes, n) /\ r \in Seq(Node) /\ IsInjective(r)
    BY <1>5
  <2> HIDE DEF cc
  <2> QED BY <2>1, <2>2, <1>6, SwapsNode
<1> QED BY <1>9, IndexedIsSound

\* promoteCollisionPeerLocked brings a node into the index, and keeps one that is.
LEMMA PromoteIndexes ==
    ASSUME NEW c, NEW X, Sound(c, X), NEW n \in Valid(c.nodes),
           NEW h, h = NodeHash(c.nodes, n), NEW e, e = Promote(c, h, n)
    PROVE  Sound(e, Joined(X, n)) /\ e.nodes = c.nodes
<1> DEFINE at == FindSlot(c, h)
<1>1. PICK S : Indexed(c, S, X)
  BY DEF Sound
<1>2. h \in Hashes
  BY SlotForType
<1>3. PeerSlot(c, h, n) = at
  BY <1>1, PeerSlotIs
<1>4. \A m \in X : \E k \in S : NodeHash(c.nodes, k) = NodeHash(c.nodes, m)
  BY <1>1, IndexedParts
<1>5. CASE c.slots[at] = Empty
  <2>1. Unslotted(c.nodes, S, h)
    BY <1>1, <1>2, <1>5, HashSlot
  <2>2. n \notin X /\ n \notin S
    BY <2>1, <1>4 DEF Unslotted
  <2> DEFINE d == RemovePeer(c, h, n)
  <2>3. Indexed(d, S, Without(X, n)) /\ d.nodes = c.nodes
    BY <1>1, <2>2, RemovePeerRemoves
  <2>4. Without(X, n) = X
    BY <2>2 DEF Without
  <2>5. e = NodeMapSet(d, h, n)
    BY <1>3, <1>5 DEF Promote
  <2> HIDE DEF d
  <2>6. Indexed(d, S, X) /\ n \in Valid(d.nodes) /\ h = NodeHash(d.nodes, n) /\ Unslotted(d.nodes, S, h)
    BY <2>1, <2>3, <2>4
  <2>7. Indexed(e, Joined(S, n), Joined(X, n)) /\ e.nodes = d.nodes
    BY <2>5, <2>6, InsertsNode
  <2> QED BY <2>3, <2>7, IndexedIsSound
<1>6. CASE c.slots[at] # Empty
  <2>1. PICK k \in S : /\ NodeHash(c.nodes, k) = h /\ at \in Occ(c.slots)
                       /\ c.slots[at] = SlotFor(c.nodes, k) /\ c.slots[at].id = k
    BY <1>1, <1>2, <1>6, HashSlot
  <2>2. CASE k = n
    <3>1. e = c
      BY <1>3, <1>6, <2>1, <2>2 DEF Promote
    <3>2. Joined(X, n) = X
      BY <1>1, <2>1, <2>2 DEF Indexed, Joined
    <3> QED BY <3>1, <3>2
  <2>3. CASE k # n
    <3>1. e = PromoteAt(c, at, h, n)
      BY <1>3, <1>6, <2>1, <2>3 DEF Promote
    <3> HIDE DEF at
    <3> QED BY <1>1, <2>1, <2>3, <3>1, PromoteSwaps
  <2> QED BY <2>2, <2>3
<1> QED BY <1>5, <1>6

\* The greatest index of a list is its length.
LEMMA MaxTo ==
    ASSUME NEW n \in Nat \ {0}
    PROVE  Max(1..n) = n
<1>1. n \in 1..n /\ \A y \in 1..n : n >= y
  OBVIOUS
<1>2. \A x \in 1..n : (\A y \in 1..n : x >= y) => x = n
  BY <1>1
<1>3. Max(1..n) \in 1..n /\ \A y \in 1..n : Max(1..n) >= y
  BY <1>1 DEF Max
<1> QED BY <1>2, <1>3

\* A natural number is its own maximum with 0.
LEMMA MaxZero ==
    ASSUME NEW n \in Nat
    PROVE  Max({n, 0}) = n
<1>1. n \in {n, 0} /\ \A y \in {n, 0} : n >= y
  OBVIOUS
<1>2. Max({n, 0}) \in {n, 0} /\ \A y \in {n, 0} : Max({n, 0}) >= y
  BY <1>1 DEF Max
<1> QED BY <1>2

\* A list without its last node.
LEMMA FrontIs ==
    ASSUME NEW l \in Seq(Node), IsInjective(l), l # <<>>,
           NEW r, r = Front(l), NEW p, p = l[Len(l)]
    PROVE  /\ r \in Seq(Node) /\ IsInjective(r) /\ ToSet(r) = Without(ToSet(l), p)
           /\ p \in ToSet(l)
<1>1. Len(l) \in Nat \ {0}
  OBVIOUS
<1>2. /\ r \in Seq(Node) /\ Len(r) = Len(l) - 1
      /\ \A i \in 1..(Len(l) - 1) : r[i] = l[i]
  <2> DEFINE k == Len(l)
             a == SubSeq(l, 1, k - 1)
  <2>1. k \in 1..Len(l)
    BY <1>1
  <2>2. a \in Seq(Node) /\ Len(a) = k - 1 /\ \A i \in 1..(k - 1) : a[i] = l[i]
    <3> HIDE DEF k
    <3> QED BY <2>1
  <2>3. r = a
    BY DEF Front
  <2> QED BY <2>2, <2>3
<1>3. \A i, j \in 1..Len(l) : l[i] = l[j] => i = j
  BY DEF IsInjective
<1>4. IsInjective(r)
  <2>1. \A i, j \in 1..Len(r) : r[i] = r[j] => i = j
    BY <1>1, <1>2, <1>3
  <2> QED BY <2>1, <1>2 DEF IsInjective
<1>5. ASSUME NEW x PROVE x \in ToSet(r) <=> x \in ToSet(l) /\ x # p
  <2>0. x \in ToSet(r) <=> \E i \in 1..Len(r) : r[i] = x
    BY <1>2 DEF ToSet
  <2>1. x \in ToSet(r) <=> \E i \in 1..(Len(l) - 1) : l[i] = x
    BY <2>0, <1>2
  <2>2. x \in ToSet(l) <=> \E i \in 1..Len(l) : l[i] = x
    BY DEF ToSet
  <2>3. \A i \in 1..Len(l) : i \in 1..(Len(l) - 1) \/ i = Len(l)
    BY <1>1
  <2>4. \A i \in 1..(Len(l) - 1) : i \in 1..Len(l) /\ i # Len(l)
    BY <1>1
  <2>5. Len(l) \in 1..Len(l)
    BY <1>1
  <2> QED BY <2>1, <2>2, <2>3, <2>4, <2>5, <1>3
<1>6. p \in ToSet(l)
  <2>1. Len(l) \in DOMAIN l
    BY <1>1
  <2> QED BY <2>1 DEF ToSet
<1> QED BY <1>2, <1>4, <1>5, <1>6 DEF Without

\* popValidCollisionPeerLocked for a node n in a slot: every listed node is valid, and
\* the last one is taken.
LEMMA PopPeerIs ==
    ASSUME NEW c, NEW S, NEW X, Indexed(c, S, X), NEW n \in S,
           NEW h, h = NodeHash(c.nodes, n), NEW l, l = c.peers[h]
    PROVE  /\ l = <<>> => PopPeer(c, h, n).id = 0 /\ PopPeer(c, h, n).c = c
           /\ l # <<>> =>
                /\ PopPeer(c, h, n).id = l[Len(l)]
                /\ PopPeer(c, h, n).c =
                     Rec(c.nodes, c.short, c.slots, c.hashCount,
                         PeersWith(c.peers, h, Front(l)), OneLess(c.collisionCount))
<1> DEFINE valid == {i \in 1..Len(l) : l[i] # n /\ HasHash(c, l[i], h)}
           last  == IF valid = {} THEN 0 ELSE Max(valid)
           num == Len(l) - (IF last = 0 THEN 0 ELSE last - 1)
           left  == [c EXCEPT !.peers[h] = SubSeq(@, 1, last - 1),
                              !.collisionCount = Max({@ - num, 0})]
<1>1. /\ c = Rec(c.nodes, c.short, c.slots, c.hashCount, c.peers, c.collisionCount)
      /\ c.peers \in [Hashes -> Seq(Node)] /\ c.collisionCount \in Nat
      /\ Lists(c.nodes, S, c.peers, c.collisionCount) /\ S \subseteq Valid(c.nodes)
  BY RecordFields DEF Indexed, Tabled
<1>2. h \in Hashes
  BY <1>1, SlotForType
<1>3. l \in Seq(Node) /\ ListOK(c.nodes, S, h, l)
  BY <1>1, <1>2 DEF Lists
<1>4. Live(c) = Valid(c.nodes)
  BY IndexedParts
<1>5. \A i \in 1..Len(l) : l[i] # n /\ HasHash(c, l[i], h)
  <2> SUFFICES ASSUME NEW i \in 1..Len(l) PROVE l[i] # n /\ HasHash(c, l[i], h)
    OBVIOUS
  <2>1. l[i] \in ToSet(l)
    BY DEF ToSet
  <2> QED BY <2>1, <1>3, <1>4 DEF ListOK, HasHash, HashOf, NodeHash
<1>6. valid = 1..Len(l)
  BY <1>5
<1>7. PopPeer(c, h, n) =
        [id |-> IF last = 0 THEN 0 ELSE l[last],
         c |-> IF last = 0 /\ left.peers = NoPeers
               THEN [left EXCEPT !.collisionCount = 0] ELSE left]
  BY DEF PopPeer
<1> HIDE DEF valid
<1>8. CASE l = <<>>
  <2>1. valid = {} /\ last = 0 /\ num = 0
    BY <1>6, <1>8
  <2>2. SubSeq(l, 1, last - 1) = <<>>
    BY <1>8, <2>1
  <2>3. Max({c.collisionCount - num, 0}) = c.collisionCount
    <3>1. c.collisionCount - num = c.collisionCount
      BY <1>1, <2>1
    <3> HIDE DEF num
    <3> QED BY <3>1, <1>1, MaxZero
  <2> HIDE DEF num, last
  <2>4. left = c
    BY <1>1, <1>2, <1>8, <2>2, <2>3 DEF Rec
  <2>5. c.peers = NoPeers => c.collisionCount = 0
    <3>1. c.peers = NoPeers => Listed(c.peers) = {}
      BY DEF NoPeers, Listed, ToSet
    <3> QED BY <3>1, <1>1, FS_EmptySet DEF Lists
  <2>6. [c EXCEPT !.collisionCount = c.collisionCount] = c
    BY <1>1 DEF Rec
  <2> HIDE DEF left
  <2> QED BY <1>7, <1>8, <2>1, <2>4, <2>5, <2>6
<1>9. CASE l # <<>>
  <2>1. Len(l) \in Nat \ {0}
    BY <1>3, <1>9
  <2>2. last = Len(l)
    <3>1. Max(1..Len(l)) = Len(l) /\ 1 \in 1..Len(l)
      BY <2>1, MaxTo
    <3> QED BY <3>1, <1>6
  <2>3. num = 1
    <3> HIDE DEF last
    <3> QED BY <2>1, <2>2
  <2> HIDE DEF last, num
  <2>4. c.collisionCount - num \in Nat /\ c.collisionCount - num = c.collisionCount - 1
    <3>1. l[1] \in Listed(c.peers)
      BY <1>2, <1>3, <2>1 DEF Listed, ToSet
    <3>2. c.collisionCount # 0
      BY <3>1, <1>1, ListedType, FS_EmptySet DEF Lists
    <3> QED BY <3>2, <2>3, <1>1
  <2>5. Max({c.collisionCount - num, 0}) = c.collisionCount - 1
    BY <2>4, MaxZero
  <2>6. left = Rec(c.nodes, c.short, c.slots, c.hashCount,
                   PeersWith(c.peers, h, Front(l)), OneLess(c.collisionCount))
    <3> DEFINE cnt == Max({c.collisionCount - num, 0})
               front == SubSeq(l, 1, last - 1)
    <3>1. left = [c EXCEPT !.peers[h] = front, !.collisionCount = cnt]
      OBVIOUS
    <3>2. cnt = OneLess(c.collisionCount) /\ front = Front(l)
      BY <2>2, <2>5 DEF OneLess, Front
    <3>3. c = Rec(c.nodes, c.short, c.slots, c.hashCount, c.peers, c.collisionCount)
      BY <1>1
    <3> HIDE DEF cnt, front, left
    <3>4. left = [c EXCEPT !.peers = PeersWith(c.peers, h, front), !.collisionCount = cnt]
      BY <3>1 DEF PeersWith
    <3>5. left = Rec(c.nodes, c.short, c.slots, c.hashCount, PeersWith(c.peers, h, front), cnt)
      BY <3>3, <3>4 DEF Rec
    <3> QED BY <3>2, <3>5
  <2>7. last # 0
    BY <2>1, <2>2
  <2> HIDE DEF left
  <2> QED BY <1>7, <1>9, <2>2, <2>6, <2>7
<1> QED BY <1>8, <1>9

\* The slot of n goes to the last node of its list.
LEMMA PopSwaps ==
    ASSUME NEW c, NEW S, NEW X, Indexed(c, S, X), NEW n \in S,
           NEW h, h = NodeHash(c.nodes, n), NEW l, l = c.peers[h], l # <<>>,
           NEW p, p = l[Len(l)],
           NEW at \in Occ(c.slots), c.slots[at] = SlotFor(c.nodes, n),
           NEW sh, ShortOK(sh),
           NEW e, e = Rec(c.nodes, sh, With(c.slots, at, SlotFor(c.nodes, p)), c.hashCount,
                          PeersWith(c.peers, h, Front(l)), OneLess(c.collisionCount))
    PROVE  Sound(e, Without(X, n)) /\ e.nodes = c.nodes
<1> DEFINE r == Front(l)
           u == With(c.slots, at, SlotFor(c.nodes, p))
           T == (S \ {n}) \cup {p}
           new == PeersWith(c.peers, h, r)
           L == Listed(c.peers)
           Y == Without(X, n)
           cc == OneLess(c.collisionCount)
<1>1. /\ NodesType(c.nodes) /\ KeysOnce(c.nodes) /\ c.collisionCount \in Nat
      /\ c.peers \in [Hashes -> Seq(Node)] /\ Tabled(c.nodes, c.slots, c.hashCount, S)
      /\ Lists(c.nodes, S, c.peers, c.collisionCount) /\ S \subseteq Valid(c.nodes)
      /\ X = S \cup L
  BY RecordFields DEF Indexed, Tabled
<1>2. h \in Hashes
  BY <1>1, SlotForType
<1>3. l \in Seq(Node) /\ ListOK(c.nodes, S, h, l)
  BY <1>1, <1>2 DEF Lists
<1>4. r \in Seq(Node) /\ IsInjective(r) /\ ToSet(r) = Without(ToSet(l), p) /\ p \in ToSet(l)
  BY <1>3, FrontIs DEF ListOK
<1>5. p \in Valid(c.nodes) /\ p \notin S /\ NodeHash(c.nodes, p) = h
  BY <1>3, <1>4 DEF ListOK
<1>6. Tabled(c.nodes, u, c.hashCount, T)
  <2> HIDE DEF L
  <2>1. NodeHash(c.nodes, n) = NodeHash(c.nodes, p)
    BY <1>5
  <2> QED BY <1>1, <1>5, <2>1, TableSwaps
<1> HIDE DEF r
<1>7. ListOK(c.nodes, T, h, r)
  BY <1>3, <1>4, <1>5 DEF ListOK, Without
<1>8. \A m \in Valid(c.nodes) : NodeHash(c.nodes, m) # h => (m \in S <=> m \in T)
  BY <1>5
<1> HIDE DEF u, T, new, L
<1>9. /\ Lists(c.nodes, T, new, Cardinality(Listed(new)))
      /\ Listed(new) = (Listed(c.peers) \ ToSet(c.peers[h])) \cup ToSet(r)
  BY <1>1, <1>2, <1>4, <1>7, <1>8, ListChanges DEF new
<1>10. Listed(new) = L \ {p} /\ p \in L /\ L \cap S = {}
  <2>1. ToSet(l) \subseteq Listed(c.peers)
    BY <1>2 DEF Listed
  <2>2. Listed(c.peers) \cap S = {}
    BY IndexedParts
  <2> QED BY <2>1, <2>2, <1>4, <1>9 DEF L, Without
<1>11. cc = Cardinality(Listed(new))
  <2>1. IsFiniteSet(L) /\ c.collisionCount = Cardinality(L)
    BY <1>1, ListedType DEF Lists, L
  <2> QED BY <2>1, <1>10, FS_RemoveElement DEF OneLess
<1>12. Y = Both(T, new)
  BY <1>1, <1>10 DEF Both, T, Without
<1>13. Lists(c.nodes, T, new, cc)
  BY <1>9, <1>11
<1>14. e = Rec(c.nodes, sh, u, c.hashCount, new, cc)
  BY DEF u, new, r
<1> HIDE DEF Y, cc
<1>a. NodesType(c.nodes) /\ KeysOnce(c.nodes)
  BY <1>1
<1>15. Indexed(e, T, Y) /\ e.nodes = c.nodes
  BY <1>a, <1>6, <1>12, <1>13, <1>14, IndexedFrom
<1> QED BY <1>15, IndexedIsSound DEF Y

\* backshiftDeleteSlot of a node whose hash has no other node.
LEMMA BackshiftRemoves ==
    ASSUME NEW c, NEW S, NEW X, Indexed(c, S, X), NEW at \in Occ(c.slots),
           NEW n, n = c.slots[at].id, c.peers[NodeHash(c.nodes, n)] = <<>>,
           NEW e, e = Backshift(c, at)
    PROVE  /\ Indexed(e, Without(S, n), Without(X, n)) /\ e.nodes = c.nodes
           /\ e.peers = c.peers /\ e.collisionCount = c.collisionCount
<1> DEFINE u == With(Swept(c.slots, at).table, Swept(c.slots, at).gap, Empty)
           T == S \ {n}
           Y == Without(X, n)
           hc == OneLess(c.hashCount)
<1>1. /\ c = Rec(c.nodes, c.short, c.slots, c.hashCount, c.peers, c.collisionCount)
      /\ ShortOK(c.short) /\ NodesType(c.nodes)
  BY RecordFields DEF Indexed
<1>2. /\ Tabled(c.nodes, c.slots, c.hashCount, S) /\ KeysOnce(c.nodes)
      /\ Lists(c.nodes, S, c.peers, c.collisionCount) /\ X = S \cup Listed(c.peers)
  BY DEF Indexed
<1>3. Tabled(c.nodes, u, hc, T) /\ n \in S
  <2>0. u = With(Swept(c.slots, at).table, Swept(c.slots, at).gap, Empty)
    OBVIOUS
  <2> HIDE DEF u
  <2>1. Tabled(c.nodes, u, OneLess(c.hashCount), Without(S, c.slots[at].id))
        /\ c.slots[at].id \in S
    BY <2>0, <1>2, TableDeletes
  <2> QED BY <2>1 DEF Without
<1>4. ASSUME NEW g \in Hashes PROVE ListOK(c.nodes, T, g, c.peers[g])
  <2>1. ListOK(c.nodes, S, g, c.peers[g])
    BY <1>2 DEF Lists
  <2>2. c.peers[g] # <<>> => g # NodeHash(c.nodes, n)
    OBVIOUS
  <2> QED BY <2>1, <2>2 DEF ListOK
<1>5. Lists(c.nodes, T, c.peers, c.collisionCount)
  BY <1>2, <1>4 DEF Lists
<1>6. n \notin Listed(c.peers)
  <2>1. Listed(c.peers) \cap S = {}
    BY IndexedParts
  <2> QED BY <2>1, <1>3
<1>7. Y = Both(T, c.peers)
  BY <1>2, <1>6 DEF Both, Without
<1>8. e = Rec(c.nodes, c.short, u, hc, c.peers, c.collisionCount)
  <2>1. e = [c EXCEPT !.slots = u, !.hashCount = hc]
    BY DEF Backshift, With, OneLess
  <2> HIDE DEF u, hc
  <2> QED BY <1>1, <2>1 DEF Rec
<1> HIDE DEF u, T, Y, hc
<1>9. /\ Indexed(e, T, Y) /\ e.nodes = c.nodes
      /\ e.peers = c.peers /\ e.collisionCount = c.collisionCount
  BY <1>1, <1>2, <1>3, <1>5, <1>7, <1>8, IndexedFrom
<1> QED BY <1>9 DEF T, Y, Without

\* collisionCount is 0 exactly when every peer list is empty.
LEMMA NoPeersCount ==
    ASSUME NEW c, NEW S, NEW X, Indexed(c, S, X)
    PROVE  /\ c.peers = NoPeers => c.collisionCount = 0
           /\ c.collisionCount = 0 => Listed(c.peers) = {} /\ \A h \in Hashes : c.peers[h] = <<>>
<1>1. Lists(c.nodes, S, c.peers, c.collisionCount) /\ c.peers \in [Hashes -> Seq(Node)]
  BY RecordFields DEF Indexed
<1>2. c.peers = NoPeers => Listed(c.peers) = {}
  BY DEF NoPeers, Listed, ToSet
<1>3. c.collisionCount = 0 <=> Listed(c.peers) = {}
  BY <1>1, ListedType, FS_EmptySet DEF Lists
<1>4. ASSUME Listed(c.peers) = {}, NEW h \in Hashes PROVE c.peers[h] = <<>>
  <2>1. ToSet(c.peers[h]) = {}
    BY <1>4 DEF Listed
  <2>2. c.peers[h] \in Seq(Node)
    BY <1>1
  <2>3. Len(c.peers[h]) = 0
    <3> SUFFICES ASSUME Len(c.peers[h]) # 0 PROVE FALSE
      OBVIOUS
    <3>1. c.peers[h][1] \in ToSet(c.peers[h])
      BY <2>2 DEF ToSet
    <3> QED BY <3>1, <2>1
  <2> QED BY <2>2, <2>3
<1> QED BY <1>2, <1>3, <1>4

\* setHashTag21 changes one field only.
LEMMA SetShortIs ==
    ASSUME NEW nd, NEW sh, NEW sl, NEW hc, NEW pe, NEW cc, NEW n, NEW tag
    PROVE  SetShort(Rec(nd, sh, sl, hc, pe, cc), n, tag)
             = Rec(nd, With(sh, n, tag % ShortModulus), sl, hc, pe, cc)
  BY DEF SetShort, Rec, With

\* removeOrPromoteHashSlotAtLocked takes the node of a slot out of the index.
LEMMA RemoveAtRemoves ==
    ASSUME NEW c, NEW S, NEW X, Indexed(c, S, X), NEW n \in S,
           NEW h, h = NodeHash(c.nodes, n),
           NEW at \in Occ(c.slots), c.slots[at] = SlotFor(c.nodes, n),
           NEW e, e = RemoveOrPromoteAt(c, at, h, n)
    PROVE  Sound(e, Without(X, n)) /\ e.nodes = c.nodes
<1> DEFINE l == c.peers[h]
           pop == PopPeer(c, h, n)
           gone == Backshift(pop.c, at)
<1>1. /\ c = Rec(c.nodes, c.short, c.slots, c.hashCount, c.peers, c.collisionCount)
      /\ ShortOK(c.short) /\ c.peers \in [Hashes -> Seq(Node)]
      /\ Lists(c.nodes, S, c.peers, c.collisionCount) /\ n \in Valid(c.nodes)
  BY RecordFields DEF Indexed, Tabled
<1>2. h \in Hashes
  BY <1>1, SlotForType
<1>3. l \in Seq(Node) /\ ListOK(c.nodes, S, h, l)
  BY <1>1, <1>2 DEF Lists
<1>4. c.slots[at].id = n /\ c.slots[at].tag = Tag[h]
  BY <1>1, SlotForType
<1>5. e = IF pop.id # 0
          THEN SetShort([pop.c EXCEPT !.slots[at].id = pop.id], pop.id, c.slots[at].tag)
          ELSE IF gone.peers = NoPeers THEN [gone EXCEPT !.collisionCount = 0] ELSE gone
  BY DEF RemoveOrPromoteAt
<1>6. CASE l = <<>>
  <2>1. pop.id = 0 /\ pop.c = c
    BY <1>6, PopPeerIs
  <2>2. gone = Backshift(c, at)
    BY <2>1
  <2> HIDE DEF pop, gone
  <2>3. Indexed(gone, Without(S, n), Without(X, n)) /\ gone.nodes = c.nodes
    BY <2>2, <1>4, <1>6, BackshiftRemoves
  <2>4. gone.peers = NoPeers => gone.collisionCount = 0
    BY <2>3, NoPeersCount
  <2>5. gone = Rec(gone.nodes, gone.short, gone.slots, gone.hashCount, gone.peers,
                   gone.collisionCount)
    BY <2>3, RecordFields DEF Indexed
  <2>6. gone.collisionCount = 0 => [gone EXCEPT !.collisionCount = 0] = gone
    BY <2>5 DEF Rec
  <2>7. e = gone
    BY <1>5, <2>1, <2>4, <2>6
  <2> QED BY <2>3, <2>7, IndexedIsSound
<1>7. CASE l # <<>>
  <2> DEFINE p == l[Len(l)]
             new == PeersWith(c.peers, h, Front(l))
             cc == OneLess(c.collisionCount)
             sh == With(c.short, p, Tag[h] % ShortModulus)
             u == With(c.slots, at, SlotFor(c.nodes, p))
  <2>1. /\ pop.id = p
        /\ pop.c = Rec(c.nodes, c.short, c.slots, c.hashCount, new, cc)
    BY <1>7, PopPeerIs
  <2>2. p \in ToSet(l)
    BY <1>3, <1>7, FrontIs DEF ListOK
  <2>3. p \in Valid(c.nodes) /\ NodeHash(c.nodes, p) = h /\ p \in Node /\ p # 0
    <3>1. p \in Valid(c.nodes) /\ NodeHash(c.nodes, p) = h
      BY <2>2, <1>3 DEF ListOK
    <3> QED BY <3>1, ZeroFacts DEF Valid
  <2>4. SlotFor(c.nodes, p) = [c.slots[at] EXCEPT !.id = p]
    BY <2>3 DEF SlotFor
  <2>5. e = SetShort([pop.c EXCEPT !.slots[at].id = p], p, Tag[h])
    BY <1>4, <1>5, <2>1, <2>3
  <2> HIDE DEF p, new, cc
  <2>6. e = Rec(c.nodes, sh, u, c.hashCount, new, cc)
    <3> HIDE DEF pop
    <3>1. [pop.c EXCEPT !.slots[at].id = p] = Rec(c.nodes, c.short, u, c.hashCount, new, cc)
      BY <2>1, <2>4 DEF Rec, With
    <3>2. e = SetShort(Rec(c.nodes, c.short, u, c.hashCount, new, cc), p, Tag[h])
      BY <2>5, <3>1
    <3> QED BY <3>2, SetShortIs
  <2>7. ShortOK(sh)
    BY <1>1, <1>2, <2>3, ShortType
  <2> HIDE DEF sh
  <2> QED BY <1>7, <2>6, <2>7, PopSwaps DEF p, new, cc
<1> QED BY <1>6, <1>7

\* removeOrPromoteNodeMapLocked takes a node out of the index.
LEMMA RemoveRemoves ==
    ASSUME NEW c, NEW X, Sound(c, X), NEW n \in Valid(c.nodes),
           NEW h, h = NodeHash(c.nodes, n), NEW e, e = RemoveOrPromote(c, h, n)
    PROVE  Sound(e, Without(X, n)) /\ e.nodes = c.nodes
<1> DEFINE at == FindSlot(c, h)
<1>1. PICK S : Indexed(c, S, X)
  BY DEF Sound
<1>2. h \in Hashes
  BY SlotForType
<1>3. PeerSlot(c, h, n) = at
  BY <1>1, PeerSlotIs
<1>4. e = IF c.slots[at] # Empty /\ c.slots[at].id = n THEN RemoveOrPromoteAt(c, at, h, n)
          ELSE RemovePeer(c, h, n)
  BY <1>3 DEF RemoveOrPromote
<1>5. OnePerHash(c.nodes, S)
  BY <1>1 DEF Indexed, Tabled
<1> HIDE DEF at
<1>6. CASE n \in S
  <2>1. PICK k \in S : /\ NodeHash(c.nodes, k) = h /\ at \in Occ(c.slots)
                       /\ c.slots[at] = SlotFor(c.nodes, k) /\ c.slots[at].id = k
                       /\ c.slots[at] # Empty
    BY <1>1, <1>2, <1>6, HashSlot DEF Unslotted, at
  <2>2. k = n
    BY <1>5, <1>6, <2>1 DEF OnePerHash
  <2>3. e = RemoveOrPromoteAt(c, at, h, n)
    BY <1>4, <2>1, <2>2
  <2> QED BY <1>1, <1>6, <2>1, <2>2, <2>3, RemoveAtRemoves
<1>7. CASE n \notin S
  <2>1. ~(c.slots[at] # Empty /\ c.slots[at].id = n)
    BY <1>1, <1>2, <1>7, HashSlot DEF at
  <2>2. e = RemovePeer(c, h, n)
    BY <1>4, <2>1
  <2>3. Indexed(e, S, Without(X, n)) /\ e.nodes = c.nodes
    BY <1>1, <1>7, <2>2, RemovePeerRemoves
  <2> QED BY <2>3, IndexedIsSound
<1> QED BY <1>6, <1>7

\* Two assignments of keys to nodes agree on the nodes in X.
Agree(old, new, X) == \A m \in X : new[m] = old[m]

\* An index depends on the nodes in it only.
LEMMA NodesChange ==
    ASSUME NEW c, NEW X, Sound(c, X), NEW nd, NodesType(nd), KeysOnce(nd),
           Agree(c.nodes, nd, X), NEW sh, ShortOK(sh),
           NEW e, e = Rec(nd, sh, c.slots, c.hashCount, c.peers, c.collisionCount)
    PROVE  Sound(e, X) /\ e.nodes = nd
<1>1. PICK S : Indexed(c, S, X)
  BY DEF Sound
<1>2. /\ Tabled(c.nodes, c.slots, c.hashCount, S)
      /\ Lists(c.nodes, S, c.peers, c.collisionCount) /\ X = S \cup Listed(c.peers)
  BY <1>1 DEF Indexed
<1>3. Tabled(nd, c.slots, c.hashCount, S)
  <2>1. \A m \in S : nd[m] = c.nodes[m]
    BY <1>2 DEF Agree
  <2> QED BY <2>1, <1>2, TableIgnores
<1>4. ASSUME NEW g \in Hashes PROVE ListOK(nd, S, g, c.peers[g])
  <2>1. ListOK(c.nodes, S, g, c.peers[g])
    BY <1>2 DEF Lists
  <2>2. \A m \in ToSet(c.peers[g]) : m \in X
    BY <1>2 DEF Listed
  <2>3. \A m \in ToSet(c.peers[g]) \cup S : nd[m] = c.nodes[m]
    BY <2>2, <1>2 DEF Agree
  <2> QED BY <2>1, <2>3 DEF ListOK, Valid, NodeHash
<1>5. Lists(nd, S, c.peers, c.collisionCount)
  BY <1>2, <1>4 DEF Lists
<1>6. X = Both(S, c.peers)
  BY <1>2 DEF Both
<1>7. Indexed(e, S, X) /\ e.nodes = nd
  BY <1>3, <1>5, <1>6, IndexedFrom
<1> QED BY <1>7, IndexedIsSound

\* What a sound index says of nodes and keys.
LEMMA SoundParts ==
    ASSUME NEW c, NEW X, Sound(c, X)
    PROVE  /\ c \in Records
           /\ c = Rec(c.nodes, c.short, c.slots, c.hashCount, c.peers, c.collisionCount)
           /\ NodesType(c.nodes) /\ ShortOK(c.short) /\ KeysOnce(c.nodes)
           /\ Live(c) = Valid(c.nodes) /\ Live(c) \subseteq Node
           /\ X \subseteq Live(c)
<1>1. PICK S : Indexed(c, S, X)
  BY DEF Sound
<1>2. c \in Records /\ KeysOnce(c.nodes) /\ X \subseteq Valid(c.nodes) /\ Live(c) = Valid(c.nodes)
  <2>1. KeysOnce(c.nodes)
    BY <1>1 DEF Indexed
  <2> QED BY <2>1, <1>1, IndexedParts
<1> QED BY <1>2, RecordFields DEF Live

\* Every entry is in the index, and nothing else.
Good(c) == Sound(c, Live(c))

\* A node that is not in the index loses its value.
LEMMA DropKeeps ==
    ASSUME NEW c, NEW X, Sound(c, X), NEW n \in Node, n \notin X,
           NEW e, e = DropValue(c, n)
    PROVE  Sound(e, X) /\ e.nodes = With(c.nodes, n, NoKey)
<1> DEFINE nd == With(c.nodes, n, NoKey)
           sh == With(c.short, n, 0)
<1>1. /\ c = Rec(c.nodes, c.short, c.slots, c.hashCount, c.peers, c.collisionCount)
      /\ NodesType(c.nodes) /\ ShortOK(c.short) /\ KeysOnce(c.nodes) /\ X \subseteq Node
  BY SoundParts
<1>2. NodesType(nd) /\ ShortOK(sh)
  BY <1>1 DEF NodesType, ShortOK, With
<1>3. \A m \in Node : nd[m] = IF m = n THEN NoKey ELSE c.nodes[m]
  BY <1>1 DEF NodesType, With
<1> HIDE DEF nd, sh
<1>4. KeysOnce(nd)
  BY <1>1, <1>3, HashAssumption DEF KeysOnce, Valid
<1>5. Agree(c.nodes, nd, X)
  BY <1>1, <1>3 DEF Agree
<1>6. e = Rec(nd, sh, c.slots, c.hashCount, c.peers, c.collisionCount)
  BY <1>1 DEF DropValue, Rec, nd, sh, With
<1>7. Sound(e, X) /\ e.nodes = nd
  BY <1>2, <1>4, <1>5, <1>6, NodesChange
<1> QED BY <1>7 DEF nd

\* A node whose value is dropped is no longer live, the others are.
LEMMA LiveWithout ==
    ASSUME NEW c, NEW e, NodesType(c.nodes), NEW n \in Node, e.nodes = With(c.nodes, n, NoKey)
    PROVE  Live(e) = Without(Live(c), n)
<1>1. \A m \in Node : e.nodes[m] = IF m = n THEN NoKey ELSE c.nodes[m]
  BY DEF NodesType, With
<1> QED BY <1>1 DEF Live, Without

\* The slot that the short tag leads to is n's own.
LEMMA FastSlotIs ==
    ASSUME NEW c, NEW S, NEW X, Indexed(c, S, X), NEW n \in Node,
           c.slots[FastSlot(c, n)] # Empty
    PROVE  FastSlot(c, n) \in Occ(c.slots) /\ c.slots[FastSlot(c, n)].id = n
<1> DEFINE t == c.slots
           N == Cap(t)
           tag == c.short[n]
           stops == {i \in DOMAIN t : t[i].id = n /\ t[i].tag % ShortModulus = tag}
<1>1. c.short \in [Node -> Nat] /\ Tabled(c.nodes, c.slots, c.hashCount, S)
  BY RecordFields DEF Indexed
<1>2. tag \in Nat
  BY <1>1
<1>3. /\ N \in Nat \ {0} /\ t \in Table(N) /\ DOMAIN t = 0..(N - 1)
      /\ \E i \in 0..(N - 1) : t[i] = Empty
  BY <1>1, TableShape
<1>4. stops \in SUBSET (0..(N - 1)) /\ \A i \in stops : t[i].id = n
  BY <1>3
<1>5. FastSlot(c, n) = Probe(t, tag, stops)
  BY DEF FastSlot
<1> HIDE DEF stops, tag, N
<1>6. /\ Probe(t, tag, stops) \in 0..(N - 1)
      /\ t[Probe(t, tag, stops)] = Empty \/ Probe(t, tag, stops) \in stops
  BY <1>2, <1>3, <1>4, ProbeEnds
<1> QED BY <1>3, <1>4, <1>5, <1>6 DEF Occ

\* eraseInternal: the entry of n leaves the index and the trie.
LEMMA EraseErases ==
    ASSUME NEW c, Good(c), NEW n \in Live(c), NEW e, e = Erase(c, n)
    PROVE  Good(e) /\ e.nodes = With(c.nodes, n, NoKey)
<1> DEFINE X == Live(c)
           h == NodeHash(c.nodes, n)
           at == FastSlot(c, n)
           fast == /\ ~EntryCallback /\ c.collisionCount = 0 /\ Cap(c.slots) <= ShortModulus
                   /\ c.short[n] # 0 /\ c.slots[at] # Empty
           d == IF fast THEN Backshift(c, at) ELSE RemoveOrPromote(c, h, n)
<1>1. /\ Sound(c, X) /\ NodesType(c.nodes) /\ n \in Valid(c.nodes) /\ n \in Node
      /\ X = Valid(c.nodes)
  BY SoundParts DEF Good
<1>2. e = DropValue(d, n)
  BY DEF Erase, HashOf, NodeHash
<1>3. Sound(d, Without(X, n)) /\ d.nodes = c.nodes
  <2> HIDE DEF at, X
  <2>1. CASE fast
    <3>1. PICK S : Indexed(c, S, X)
      BY <1>1 DEF Sound
    <3>2. at \in Occ(c.slots) /\ c.slots[at].id = n
      BY <2>1, <3>1, <1>1, FastSlotIs DEF at
    <3>3. h \in Hashes
      BY <1>1, SlotForType
    <3>4. c.peers[h] = <<>>
      BY <2>1, <3>1, <3>3, NoPeersCount
    <3>5. d = Backshift(c, at)
      BY <2>1
    <3> HIDE DEF d
    <3>6. Indexed(d, Without(S, n), Without(X, n)) /\ d.nodes = c.nodes
      BY <3>1, <3>2, <3>4, <3>5, BackshiftRemoves
    <3> QED BY <3>6, IndexedIsSound
  <2>2. CASE ~fast
    <3>1. d = RemoveOrPromote(c, h, n)
      BY <2>2
    <3> HIDE DEF d
    <3> QED BY <3>1, <1>1, RemoveRemoves
  <2> QED BY <2>1, <2>2
<1>4. n \notin Without(X, n)
  BY DEF Without
<1> HIDE DEF d, X
<1>5. Sound(e, Without(X, n)) /\ e.nodes = With(c.nodes, n, NoKey)
  BY <1>1, <1>2, <1>3, <1>4, DropKeeps
<1>6. Live(e) = Without(X, n)
  BY <1>1, <1>5, LiveWithout DEF X
<1> QED BY <1>5, <1>6 DEF Good

-----------------------------------------------------------------------------
(* Evictions                                                               *)

\* The first i nodes of v have lost their values, the others are as in c.
Gone(c, v, i, d) ==
    \A m \in Node : d.nodes[m] = IF \E j \in 1..i : v[j] = m THEN NoKey ELSE c.nodes[m]

Erasing(c, v, i, d) == Good(d) /\ Gone(c, v, i, d)

\* A list of k different entries.
Victims(c, v, k) ==
    /\ v \in [1..k -> Live(c)]
    /\ \A x, y \in 1..k : v[x] = v[y] => x = y

\* One more victim is erased.
LEMMA ErasingSteps ==
    ASSUME NEW c, NEW k \in Nat, NEW v, Victims(c, v, k), NEW i \in Nat, i < k,
           NEW d, Erasing(c, v, i, d), NEW e, e = Erase(d, v[i + 1])
    PROVE  Erasing(c, v, i + 1, e)
<1> DEFINE n == v[i + 1]
<1>1. i + 1 \in 1..k /\ n \in Live(c) /\ n \in Node
  BY DEF Victims, Live
<1>2. ~\E j \in 1..i : v[j] = n
  BY <1>1 DEF Victims
<1>3. n \in Live(d)
  BY <1>1, <1>2 DEF Erasing, Gone, Live
<1>4. Good(d) /\ NodesType(d.nodes)
  BY SoundParts DEF Erasing, Good
<1> HIDE DEF n
<1>5. Good(e) /\ e.nodes = With(d.nodes, n, NoKey)
  BY <1>3, <1>4, EraseErases DEF n
<1>6. \A m \in Node : e.nodes[m] = IF m = n THEN NoKey ELSE d.nodes[m]
  BY <1>4, <1>5 DEF With, NodesType
<1>7. \A m : (\E j \in 1..(i + 1) : v[j] = m) <=> (m = n \/ \E j \in 1..i : v[j] = m)
  <2>1. 1..(i + 1) = 1..i \cup {i + 1}
    OBVIOUS
  <2> QED BY <2>1 DEF n
<1>8. Gone(c, v, i + 1, e)
  BY <1>6, <1>7 DEF Erasing, Gone
<1> QED BY <1>5, <1>8 DEF Erasing

\* After the whole loop all victims are erased, and nothing else.
LEMMA EraseAllErases ==
    ASSUME NEW c, Good(c), NEW k \in Nat, NEW v, Victims(c, v, k)
    PROVE  Erasing(c, v, k, EraseAll(c, v))
<1> DEFINE R == {x \in Nat \X Records : Erasing(c, v, x[1], x[2])}
           F == [x \in Nat \X Records |-> Erase(x[2], v[x[1]])]
<1>1. \A i \in Nat : \A d : <<i, d>> \in R <=> d \in Records /\ Erasing(c, v, i, d)
  OBVIOUS
<1>2. \A i \in Nat, d \in Records : F[<<i, d>>] = Erase(d, v[i])
  OBVIOUS
<1>a. \A d : Good(d) => d \in Records
  BY SoundParts DEF Good
<1> HIDE DEF F, R
<1>3. <<0, c>> \in R
  <2>1. Gone(c, v, 0, c)
    BY DEF Gone
  <2> QED BY <2>1, <1>1, <1>a DEF Erasing
<1>4. ASSUME NEW i \in Nat, NEW d, <<i, d>> \in R, i < k
      PROVE  <<i + 1, Erase(d, v[i + 1])>> \in R
  <2>1. Erasing(c, v, i, d)
    BY <1>1, <1>4
  <2>2. Erasing(c, v, i + 1, Erase(d, v[i + 1]))
    BY <2>1, <1>4, ErasingSteps
  <2>3. Erase(d, v[i + 1]) \in Records
    BY <2>2, <1>a DEF Erasing
  <2> QED BY <2>2, <2>3, <1>1
<1>5. Len(v) = k
  BY DEF Victims
<1>6. PICK f : IsRun(f, k, c, F) /\ \A i \in 0..k : <<i, f[i]>> \in R
  <2>1. \A i \in 0..k : \A d : <<i, d>> \in R /\ i < k => <<i + 1, F[<<i + 1, d>>]>> \in R
    <3> SUFFICES ASSUME NEW i \in 0..k, NEW d, <<i, d>> \in R, i < k
                 PROVE  <<i + 1, F[<<i + 1, d>>]>> \in R
      OBVIOUS
    <3>1. i \in Nat /\ i + 1 \in Nat
      OBVIOUS
    <3>2. F[<<i + 1, d>>] = Erase(d, v[i + 1])
      BY <3>1, <1>1, <1>2
    <3> QED BY <3>1, <3>2, <1>4
  <2> QED BY <2>1, <1>3, RunExists
<1> DEFINE Body(g) == [i \in 0..k |-> IF i = 0 THEN c ELSE Erase(g[i - 1], v[i])]
           left == CHOOSE g : g = Body(g)
<1>7. f = Body(f)
  <2>1. ASSUME NEW i \in 0..k
        PROVE  f[i] = IF i = 0 THEN c ELSE Erase(f[i - 1], v[i])
    <3>1. CASE i = 0
      BY <1>6, <3>1 DEF IsRun
    <3>2. CASE i # 0
      <4>1. i - 1 \in 0..k /\ i - 1 \in Nat /\ i \in Nat
        BY <3>2
      <4>2. <<i - 1, f[i - 1]>> \in R
        BY <4>1, <1>6
      <4>3. f[i] = F[<<i, f[i - 1]>>]
        BY <3>2, <1>6 DEF IsRun
      <4> QED BY <4>1, <4>2, <4>3, <3>2, <1>1, <1>2
    <3> QED BY <3>1, <3>2
  <2> QED BY <2>1, <1>6 DEF IsRun
<1>8. left = Body(left)
  BY <1>7
<1>9. EraseAll(c, v) = left[k]
  BY <1>5 DEF EraseAll
<1> HIDE DEF left
<1>10. \A i \in 0..k : <<i, left[i]>> \in R
  <2> DEFINE S == {i \in 0..k : <<i, left[i]>> \in R}
  <2>1. 0 \in S
    BY <1>8, <1>3
  <2>2. ASSUME NEW i \in 0..k, i \in S, i < k PROVE i + 1 \in S
    <3>1. i + 1 \in 0..k /\ i + 1 # 0 /\ (i + 1) - 1 = i /\ i \in Nat
      BY <2>2
    <3>2. left[i + 1] = Erase(left[i], v[i + 1])
      BY <3>1, <1>8
    <3> QED BY <3>1, <3>2, <2>2, <1>4
  <2> HIDE DEF S
  <2>3. \A i \in 0..k : i \in S
    BY <2>1, <2>2, Counting
  <2> QED BY <2>3 DEF S
<1>11. <<k, left[k]>> \in R /\ k \in Nat
  BY <1>10
<1> QED BY <1>11, <1>9, <1>1

\* Some of the nodes in T have lost their values.
Thinned(c, d, T) ==
    \A m \in Node : d.nodes[m] = c.nodes[m] \/ (m \in T /\ d.nodes[m] = NoKey)

\* A round of evictions leaves a sound index without its victims.
LEMMA EvictedThins ==
    ASSUME NEW c, Good(c), NEW T \in SUBSET Live(c), NEW d \in Evicted(c, T)
    PROVE  Good(d) /\ Thinned(c, d, T)
<1>1. PICK v \in UNION {Orders(T, i) : i \in 0..MaxVictims} : d = EraseAll(c, v)
  BY DEF Evicted
<1>2. PICK k \in 0..MaxVictims : v \in Orders(T, k)
  BY <1>1
<1>3. k \in Nat /\ v \in [1..k -> T] /\ Victims(c, v, k)
  BY <1>2 DEF Orders, Victims
<1>4. Erasing(c, v, k, d)
  BY <1>1, <1>3, EraseAllErases
<1> QED BY <1>3, <1>4 DEF Erasing, Gone, Thinned

-----------------------------------------------------------------------------
(* Lookups                                                                 *)

\* What the walk of the trie returns.
LEMMA TrieWalkIs ==
    ASSUME NEW c, NEW X, Sound(c, X), NEW key \in Key
    PROVE  /\ \A n \in Live(c) : c.nodes[n] = key => TrieWalk(c, key) = n /\ n # 0
           /\ (\A n \in Live(c) : c.nodes[n] # key) => TrieWalk(c, key) = 0
<1> DEFINE found == {n \in Live(c) : c.nodes[n] = key}
<1>1. TrieWalk(c, key) = IF found = {} THEN 0 ELSE CHOOSE n \in found : TRUE
  BY DEF TrieWalk
<1>2. KeysOnce(c.nodes) /\ Live(c) = Valid(c.nodes) /\ Live(c) \subseteq Node
  BY SoundParts
<1>3. ASSUME NEW n \in Live(c), c.nodes[n] = key PROVE TrieWalk(c, key) = n /\ n # 0
  <2>1. n \in found /\ \A m \in found : m = n
    BY <1>2, <1>3 DEF KeysOnce
  <2>2. n # 0
    BY <1>2, ZeroFacts
  <2> HIDE DEF found
  <2>3. found # {} /\ (CHOOSE m \in found : TRUE) \in found
    BY <2>1
  <2> QED BY <2>1, <2>2, <2>3, <1>1
<1>4. ASSUME \A n \in Live(c) : c.nodes[n] # key PROVE TrieWalk(c, key) = 0
  <2>1. found = {}
    BY <1>4
  <2> QED BY <2>1, <1>1
<1> QED BY <1>3, <1>4

\* The slot a lookup has verified is one of a node that bears the key.
LEMMA VerifiedSlotIs ==
    ASSUME NEW c, NEW S, NEW X, Indexed(c, S, X), NEW key \in Key,
           NEW at, at = VerifiedSlot(c, key), c.slots[at] # Empty
    PROVE  /\ at \in Occ(c.slots) /\ c.slots[at].id \in S
           /\ c.slots[at] = SlotFor(c.nodes, c.slots[at].id)
           /\ c.slots[at].id \in Live(c) /\ c.nodes[c.slots[at].id] = key
<1> DEFINE t == c.slots
           N == Cap(t)
           tag == Tag[Hash[key]]
           stops == {i \in DOMAIN t : /\ t[i].tag = tag /\ t[i].id \in Live(c)
                                      /\ c.nodes[t[i].id] = key}
<1>1. Tabled(c.nodes, c.slots, c.hashCount, S)
  BY DEF Indexed
<1>2. tag \in Nat
  BY ZeroFacts DEF Hashes
<1>3. /\ N \in Nat \ {0} /\ t \in Table(N) /\ DOMAIN t = 0..(N - 1)
      /\ \E i \in 0..(N - 1) : t[i] = Empty
  BY <1>1, TableShape
<1>4. stops \in SUBSET (0..(N - 1)) /\ \A i \in stops : t[i].id \in Live(c) /\ c.nodes[t[i].id] = key
  BY <1>3
<1>5. at = Probe(t, tag, stops)
  BY DEF VerifiedSlot
<1> HIDE DEF stops, tag, N
<1>6. /\ Probe(t, tag, stops) \in 0..(N - 1)
      /\ t[Probe(t, tag, stops)] = Empty \/ Probe(t, tag, stops) \in stops
  BY <1>2, <1>3, <1>4, ProbeEnds
<1>7. at \in Occ(t) /\ t[at].id \in Live(c) /\ c.nodes[t[at].id] = key
  BY <1>3, <1>4, <1>5, <1>6 DEF Occ
<1>8. t[at].id \in S /\ t[at] = SlotFor(c.nodes, t[at].id)
  BY <1>1, <1>7, HeldIs
<1> QED BY <1>7, <1>8

\* A lookup finds the node that bears the key and no other, and it trusts the table
\* only when no entry has the key's hash.
LEMMA LookupIs ==
    ASSUME NEW c, Good(c), NEW key \in Key
    PROVE  /\ Lookup(c, key).id = TrieWalk(c, key)
           /\ Lookup(c, key).id # 0 => /\ Lookup(c, key).id \in Live(c)
                                       /\ c.nodes[Lookup(c, key).id] = key
           /\ Lookup(c, key).id = 0 => \A n \in Live(c) : c.nodes[n] # key
           /\ Lookup(c, key).id = 0 /\ ~Lookup(c, key).walked =>
                \A n \in Live(c) : NodeHash(c.nodes, n) # Hash[key]
<1> DEFINE at == VerifiedSlot(c, key)
           h == Hash[key]
           r == Lookup(c, key)
<1>1. PICK S : Indexed(c, S, Live(c))
  BY DEF Good, Sound
<1>2. Sound(c, Live(c)) /\ h \in Hashes
  BY DEF Good, Hashes
<1>3. /\ \A n \in Live(c) : c.nodes[n] = key => TrieWalk(c, key) = n /\ n # 0
      /\ (\A n \in Live(c) : c.nodes[n] # key) => TrieWalk(c, key) = 0
  BY <1>2, TrieWalkIs
<1>4. \A m \in Live(c) : \E k \in S : NodeHash(c.nodes, k) = NodeHash(c.nodes, m)
  BY <1>1, IndexedParts
<1>5. r = IF c.slots[at] # Empty
          THEN [id |-> c.slots[at].id, walked |-> FALSE]
          ELSE IF ~SlotMatched(c, key) /\ TableIsComplete(c)
          THEN [id |-> 0, walked |-> FALSE]
          ELSE [id |-> TrieWalk(c, key), walked |-> TRUE]
  BY DEF Lookup
<1> HIDE DEF r
<1>6. CASE c.slots[at] # Empty
  <2>1. c.slots[at].id \in Live(c) /\ c.nodes[c.slots[at].id] = key
    BY <1>1, <1>6, VerifiedSlotIs
  <2> HIDE DEF at
  <2>2. r.id = c.slots[at].id
    BY <1>5, <1>6
  <2> QED BY <2>1, <2>2, <1>3 DEF r
<1>7. CASE c.slots[at] = Empty /\ ~SlotMatched(c, key) /\ TableIsComplete(c)
  <2>1. r.id = 0
    BY <1>5, <1>7
  <2>2. Unslotted(c.nodes, S, h)
    BY <1>1, <1>2, <1>7, HashSlot DEF SlotMatched
  <2>3. \A n \in Live(c) : NodeHash(c.nodes, n) # h
    BY <2>2, <1>4 DEF Unslotted
  <2>4. \A n \in Live(c) : c.nodes[n] # key
    BY <2>3 DEF NodeHash
  <2> QED BY <2>1, <2>3, <2>4, <1>3 DEF r
<1>8. CASE c.slots[at] = Empty /\ ~(~SlotMatched(c, key) /\ TableIsComplete(c))
  <2>1. r.id = TrieWalk(c, key) /\ r.walked
    BY <1>5, <1>8
  <2> QED BY <2>1, <1>3 DEF r
<1> QED BY <1>6, <1>7, <1>8

-----------------------------------------------------------------------------
(* Resets and rebuilding                                                   *)

\* An index without nodes.
LEMMA EmptyIndex ==
    ASSUME NEW nd, NodesType(nd), KeysOnce(nd), NEW sh, ShortOK(sh), NEW cap \in Nat \ {0},
           NEW e, e = Rec(nd, sh, EmptySlots(cap), 0, NoPeers, 0)
    PROVE  Indexed(e, {}, {}) /\ e.nodes = nd /\ Cap(e.slots) = cap
<1> DEFINE u == EmptySlots(cap)
<1>1. Tabled(nd, u, 0, {}) /\ Cap(u) = cap
  BY TableEmpties
<1> HIDE DEF u
<1>2. Listed(NoPeers) = {}
  BY DEF Listed, NoPeers, ToSet
<1>3. Lists(nd, {}, NoPeers, 0)
  <2>1. ASSUME NEW h \in Hashes PROVE ListOK(nd, {}, h, NoPeers[h])
    BY DEF NoPeers, ListOK, ToSet, IsInjective
  <2>2. NoPeers \in [Hashes -> Seq(Node)]
    BY DEF NoPeers
  <2> QED BY <2>1, <2>2, <1>2, FS_EmptySet DEF Lists
<1>4. Both({}, NoPeers) = {}
  BY <1>2 DEF Both
<1>5. e = Rec(nd, sh, u, 0, NoPeers, 0)
  BY DEF u
<1>6. Indexed(e, {}, Both({}, NoPeers)) /\ e.nodes = nd /\ e.slots = u
  BY <1>1, <1>3, <1>5, IndexedFrom
<1> QED BY <1>1, <1>4, <1>6

\* clearEmptyArenaStateLocked
LEMMA ClearEmptyIs ==
    ASSUME NEW c \in Records, Live(c) = {}, NEW d \in ClearEmpty(c)
    PROVE  Good(d) /\ d.nodes = c.nodes
<1>1. /\ c = Rec(c.nodes, c.short, c.slots, c.hashCount, c.peers, c.collisionCount)
      /\ NodesType(c.nodes) /\ ShortOK(c.short)
  BY RecordFields
<1>2. PICK cap \in {MinCap, Cap(c.slots)} :
        d = [c EXCEPT !.slots = EmptySlots(cap), !.hashCount = 0, !.peers = NoPeers,
                      !.collisionCount = 0]
  BY DEF ClearEmpty
<1>3. cap \in Nat \ {0}
  <2>1. PICK n \in Nat \ {0} : c.slots \in Table(n)
    BY DEF Records
  <2>2. Cap(c.slots) = n
    BY <2>1, CapIs
  <2> QED BY <2>2, <1>2, HashAssumption
<1>4. d = Rec(c.nodes, c.short, EmptySlots(cap), 0, NoPeers, 0)
  BY <1>1, <1>2 DEF Rec
<1>5. KeysOnce(c.nodes)
  <2>1. Valid(c.nodes) = {}
    BY <1>1, LiveIs
  <2> QED BY <2>1 DEF KeysOnce
<1>6. Indexed(d, {}, {}) /\ d.nodes = c.nodes
  BY <1>1, <1>3, <1>4, <1>5, EmptyIndex
<1>7. Live(d) = {}
  BY <1>6 DEF Live
<1>8. Sound(d, {})
  BY <1>6, IndexedIsSound
<1> QED BY <1>6, <1>7, <1>8 DEF Good

\* One iteration of the rebuild: a node that is not in the index yet enters it.
LEMMA IndexNodeAdds ==
    ASSUME NEW c, NEW S, NEW X, Indexed(c, S, X), NEW n \in Valid(c.nodes), n \notin X,
           Roomy(c.slots, OneMore(c.hashCount)), NEW e, e = IndexNode(c, n)
    PROVE  Sound(e, Joined(X, n)) /\ e.nodes = c.nodes /\ Cap(e.slots) = Cap(c.slots)
<1> DEFINE h == NodeHash(c.nodes, n)
           at == FindSlot(c, h)
           s == SlotFor(c.nodes, n)
           sh == With(c.short, n, Tag[h] % ShortModulus)
           u == With(c.slots, at, s)
           d == SetShort([c EXCEPT !.slots[at] = s], n, Tag[h])
<1>1. /\ c = Rec(c.nodes, c.short, c.slots, c.hashCount, c.peers, c.collisionCount)
      /\ ShortOK(c.short) /\ c.peers \in [Hashes -> Seq(Node)]
      /\ X = S \cup Listed(c.peers)
  BY RecordFields DEF Indexed
<1>2. h \in Hashes /\ n \in Node /\ s = [tag |-> Tag[h], id |-> n]
  BY SlotForType DEF SlotFor, Valid
<1>3. e = IF c.slots[at] = Empty THEN [d EXCEPT !.hashCount = @ + 1]
          ELSE [d EXCEPT !.peers[h] = Append(@, c.slots[at].id), !.collisionCount = @ + 1]
  BY <1>2 DEF IndexNode, HashOf, NodeHash
<1>4. d = Rec(c.nodes, sh, u, c.hashCount, c.peers, c.collisionCount)
  <2>1. [c EXCEPT !.slots[at] = s] = Rec(c.nodes, c.short, u, c.hashCount, c.peers, c.collisionCount)
    BY <1>1 DEF Rec, With
  <2> HIDE DEF u, s, at
  <2> QED BY <2>1, SetShortIs
<1>5. ShortOK(sh)
  BY <1>1, <1>2, ShortType
<1> HIDE DEF d, sh
<1>6. CASE c.slots[at] = Empty
  <2>1. Unslotted(c.nodes, S, h) /\ FirstFree(Cap(c.slots), c.slots, Tag[h], at)
    BY <1>2, <1>6, HashSlot
  <2> HIDE DEF at, u
  <2>2. e = Rec(c.nodes, sh, u, OneMore(c.hashCount), c.peers, c.collisionCount)
    BY <1>3, <1>4, <1>6 DEF Rec, OneMore
  <2>3. Indexed(e, Joined(S, n), Joined(X, n)) /\ e.nodes = c.nodes /\ Cap(e.slots) = Cap(c.slots)
    BY <2>1, <2>2, <1>5, AddsNode DEF u
  <2> QED BY <2>3, IndexedIsSound
<1>7. CASE c.slots[at] # Empty
  <2>1. PICK k \in S : /\ NodeHash(c.nodes, k) = h /\ at \in Occ(c.slots)
                       /\ c.slots[at] = SlotFor(c.nodes, k) /\ c.slots[at].id = k
    BY <1>2, <1>7, HashSlot
  <2>2. k # n /\ k \in Live(c)
    <3>1. S \subseteq Valid(c.nodes) /\ Live(c) = Valid(c.nodes)
      BY IndexedParts
    <3> QED BY <3>1, <1>1
  <2>3. HasHash(c, k, h)
    BY <2>1, <2>2 DEF HasHash, HashOf, NodeHash
  <2>4. ~Contains(c.peers[h], n)
    <3>1. c.peers[h] \in Seq(Node)
      BY <1>1, <1>2
    <3>2. n \notin ToSet(c.peers[h])
      BY <1>1, <1>2 DEF Listed
    <3> QED BY <3>1, <3>2, ContainsIs
  <2> HIDE DEF at
  <2>5. e = PromoteAt(c, at, h, n)
    <3> DEFINE new == PeersWith(c.peers, h, Append(c.peers[h], k))
               cc == OneMore(c.collisionCount)
               b == [c EXCEPT !.peers[h] = Append(@, k), !.collisionCount = @ + 1]
    <3>1. PromoteAt(c, at, h, n) = SetShort([b EXCEPT !.slots[at] = s], n, Tag[h])
      BY <1>2, <2>1, <2>3, <2>4 DEF PromoteAt
    <3>2. b = Rec(c.nodes, c.short, c.slots, c.hashCount, new, cc)
      <4>1. b = [c EXCEPT !.peers = new, !.collisionCount = cc]
        BY DEF PeersWith, OneMore
      <4>2. c = Rec(c.nodes, c.short, c.slots, c.hashCount, c.peers, c.collisionCount)
        BY <1>1
      <4> HIDE DEF b, new, cc
      <4> QED BY <4>1, <4>2 DEF Rec
    <3>3. e = Rec(c.nodes, sh, u, c.hashCount, new, cc)
      <4> HIDE DEF u
      <4> QED BY <1>3, <1>4, <1>7, <2>1 DEF Rec, PeersWith, OneMore
    <3> HIDE DEF b, new, cc, s
    <3>4. [b EXCEPT !.slots[at] = s] = Rec(c.nodes, c.short, u, c.hashCount, new, cc)
      BY <3>2 DEF Rec, With
    <3> HIDE DEF u
    <3> QED BY <3>1, <3>3, <3>4, SetShortIs DEF sh
  <2> HIDE DEF h
  <2> QED BY <2>1, <2>2, <2>5, PromoteSwaps DEF h
<1> QED BY <1>6, <1>7

\* Rebuilding has reached node i.
UpTo(X, i) == {m \in X : m <= i}

Building(c, i, d) ==
    /\ Sound(d, UpTo(Live(c), i))
    /\ d.nodes = c.nodes
    /\ Cap(d.slots) = CapFor(Length(c))

\* The live nodes are finitely many.
LEMMA LiveFinite ==
    ASSUME NEW c
    PROVE  /\ Live(c) \subseteq Node /\ IsFiniteSet(Live(c)) /\ Length(c) \in Nat
           /\ Length(c) = Cardinality(Live(c))
<1>1. Live(c) \subseteq Node
  BY DEF Live
<1>2. IsFiniteSet(Live(c))
  BY <1>1, NodeFinite, FS_Subset
<1> QED BY <1>1, <1>2, FS_CardinalityType DEF Length

\* One iteration of rebuildHashSlotsLocked indexes one more node.
LEMMA BuildingSteps ==
    ASSUME NEW c \in Records, NEW i \in Nat, i < NodeCount, NEW d, Building(c, i, d),
           NEW e, e = IF i + 1 \in Live(c) THEN IndexNode(d, i + 1) ELSE d
    PROVE  Building(c, i + 1, e)
<1> DEFINE n == i + 1
           X == UpTo(Live(c), i)
<1>1. Live(c) \subseteq Nat
  BY LiveFinite, ZeroFacts
<1>2. CASE n \in Live(c)
  <2>1. PICK S : Indexed(d, S, X)
    BY DEF Building, Sound
  <2>2. n \in Valid(d.nodes) /\ n \notin X
    <3>1. NodesType(c.nodes)
      BY RecordFields
    <3>2. n \in Valid(c.nodes)
      BY <1>2, <3>1, LiveIs
    <3> QED BY <3>2 DEF Building, UpTo
  <2>3. UpTo(Live(c), n) = Joined(X, n)
    BY <1>1, <1>2 DEF UpTo, Joined
  <2>4. Roomy(d.slots, OneMore(d.hashCount))
    <3>1. d.hashCount = Cardinality(S) /\ d.hashCount \in Nat /\ S \subseteq X
      BY <2>1, TableShape DEF Indexed
    <3>2. IsFiniteSet(Live(c)) /\ Length(c) = Cardinality(Live(c)) /\ Length(c) \in Nat
      BY LiveFinite
    <3>3. S \subseteq Live(c) \ {n}
      BY <3>1, <2>2 DEF UpTo
    <3>4. IsFiniteSet(Live(c) \ {n}) /\ Cardinality(Live(c) \ {n}) = Length(c) - 1
      BY <3>2, <1>2, FS_RemoveElement
    <3>5. Cardinality(S) <= Length(c) - 1
      BY <3>3, <3>4, FS_Subset
    <3>6. CapFor(Length(c)) \in Nat \ {0} /\ Length(c) * 5 <= CapFor(Length(c)) * 4
      BY <3>2, CapForSuffices
    <3>7. Cap(d.slots) = CapFor(Length(c))
      BY DEF Building
    <3> QED BY <3>1, <3>2, <3>5, <3>6, <3>7 DEF Roomy, OneMore
  <2>5. e = IndexNode(d, n)
    BY <1>2
  <2> HIDE DEF n, X
  <2>6. Sound(e, Joined(X, n)) /\ e.nodes = d.nodes /\ Cap(e.slots) = Cap(d.slots)
    BY <2>1, <2>2, <2>4, <2>5, IndexNodeAdds
  <2>7. Building(c, n, e)
    BY <2>3, <2>6 DEF Building
  <2> QED BY <2>7 DEF n
<1>3. CASE n \notin Live(c)
  <2>1. UpTo(Live(c), n) = X
    BY <1>1, <1>3 DEF UpTo
  <2>2. e = d
    BY <1>3
  <2> QED BY <2>1, <2>2 DEF Building
<1> QED BY <1>2, <1>3

\* rebuildHashSlotsLocked indexes every entry, whatever the index was before.
LEMMA RebuildBuilds ==
    ASSUME NEW c \in Records, KeysOnce(c.nodes)
    PROVE  Good(Rebuild(c)) /\ Rebuild(c).nodes = c.nodes
<1> DEFINE k == NodeCount
           init == [c EXCEPT !.slots = EmptySlots(CapFor(Length(c))), !.hashCount = 0,
                             !.peers = NoPeers, !.collisionCount = 0]
           Step(i, d) == IF i \in Live(c) THEN IndexNode(d, i) ELSE d
           R == {x \in Nat \X Records : Building(c, x[1], x[2])}
           F == [x \in Nat \X Records |-> Step(x[1], x[2])]
<1>0. k \in Nat
  BY HashAssumption
<1>1. \A i \in Nat : \A d : <<i, d>> \in R <=> d \in Records /\ Building(c, i, d)
  OBVIOUS
<1>2. \A i \in Nat, d \in Records : F[<<i, d>>] = Step(i, d)
  OBVIOUS
<1>a. \A i, d : Building(c, i, d) => d \in Records
  BY SoundParts DEF Building
<1>b. /\ c = Rec(c.nodes, c.short, c.slots, c.hashCount, c.peers, c.collisionCount)
      /\ NodesType(c.nodes) /\ ShortOK(c.short)
  BY RecordFields
<1> HIDE DEF F, R, Step
<1>3. <<0, init>> \in R
  <2> DEFINE cap == CapFor(Length(c))
  <2>1. cap \in Nat \ {0}
    BY LiveFinite, CapForSuffices
  <2> HIDE DEF cap
  <2>a. init = [c EXCEPT !.slots = EmptySlots(cap), !.hashCount = 0, !.peers = NoPeers,
                         !.collisionCount = 0]
    BY DEF cap
  <2> HIDE DEF init
  <2>2. init = Rec(c.nodes, c.short, EmptySlots(cap), 0, NoPeers, 0)
    BY <1>b, <2>a DEF Rec
  <2>3. Indexed(init, {}, {}) /\ init.nodes = c.nodes /\ Cap(init.slots) = cap
    BY <1>b, <2>1, <2>2, EmptyIndex
  <2>4. UpTo(Live(c), 0) = {}
    BY HashAssumption DEF UpTo, Live, Node
  <2>5. Building(c, 0, init)
    BY <2>3, <2>4, IndexedIsSound DEF Building, cap
  <2> QED BY <2>5, <1>1, <1>a
<1>4. ASSUME NEW i \in Nat, NEW d, <<i, d>> \in R, i < k
      PROVE  <<i + 1, Step(i + 1, d)>> \in R
  <2>1. Building(c, i, d)
    BY <1>1, <1>4
  <2>2. Building(c, i + 1, Step(i + 1, d))
    BY <2>1, <1>4, BuildingSteps DEF Step
  <2>3. Step(i + 1, d) \in Records
    BY <2>2, <1>a
  <2> QED BY <2>2, <2>3, <1>1
<1> HIDE DEF init
<1>6. PICK f : IsRun(f, k, init, F) /\ \A i \in 0..k : <<i, f[i]>> \in R
  <2>1. \A i \in 0..k : \A d : <<i, d>> \in R /\ i < k => <<i + 1, F[<<i + 1, d>>]>> \in R
    <3> SUFFICES ASSUME NEW i \in 0..k, NEW d, <<i, d>> \in R, i < k
                 PROVE  <<i + 1, F[<<i + 1, d>>]>> \in R
      OBVIOUS
    <3>1. i \in Nat /\ i + 1 \in Nat
      BY <1>0
    <3>2. F[<<i + 1, d>>] = Step(i + 1, d)
      BY <3>1, <1>1, <1>2
    <3> QED BY <3>1, <3>2, <1>4
  <2> HIDE DEF k
  <2> QED BY <2>1, <1>0, <1>3, RunExists
<1> DEFINE Body(g) == [i \in 0..k |-> IF i = 0 THEN init ELSE Step(i, g[i - 1])]
           built == CHOOSE g : g = Body(g)
<1>7. f = Body(f)
  <2>1. ASSUME NEW i \in 0..k
        PROVE  f[i] = IF i = 0 THEN init ELSE Step(i, f[i - 1])
    <3>1. CASE i = 0
      BY <1>6, <3>1 DEF IsRun
    <3>2. CASE i # 0
      <4>1. i - 1 \in 0..k /\ i - 1 \in Nat /\ i \in Nat
        BY <3>2, <1>0
      <4>2. <<i - 1, f[i - 1]>> \in R
        BY <4>1, <1>6
      <4>3. f[i] = F[<<i, f[i - 1]>>]
        BY <3>2, <1>6 DEF IsRun
      <4> QED BY <4>1, <4>2, <4>3, <3>2, <1>1, <1>2
    <3> QED BY <3>1, <3>2
  <2> QED BY <2>1, <1>6 DEF IsRun
<1>8. built = Body(built)
  BY <1>7
<1>9. Rebuild(c) = built[k]
  BY DEF Rebuild, init, Step
<1> HIDE DEF built
<1>10. \A i \in 0..k : <<i, built[i]>> \in R
  <2> DEFINE S == {i \in 0..k : <<i, built[i]>> \in R}
  <2>1. 0 \in S
    BY <1>0, <1>8, <1>3
  <2>2. ASSUME NEW i \in 0..k, i \in S, i < k PROVE i + 1 \in S
    <3>1. i + 1 \in 0..k /\ i + 1 # 0 /\ (i + 1) - 1 = i /\ i \in Nat
      BY <2>2, <1>0
    <3>2. built[i + 1] = Step(i + 1, built[i])
      BY <3>1, <1>8
    <3> QED BY <3>1, <3>2, <2>2, <1>4
  <2> HIDE DEF S, k
  <2>3. \A i \in 0..k : i \in S
    BY <1>0, <2>1, <2>2, Counting
  <2> QED BY <2>3 DEF S
<1>11. <<k, built[k]>> \in R /\ k \in 0..k
  BY <1>0, <1>10
<1>12. Building(c, k, built[k])
  BY <1>0, <1>11, <1>1
<1>13. UpTo(Live(c), k) = Live(c)
  BY HashAssumption DEF UpTo, Live, Node
<1>14. Live(built[k]) = Live(c)
  BY <1>12 DEF Building, Live
<1> QED BY <1>9, <1>12, <1>13, <1>14 DEF Building, Good

-----------------------------------------------------------------------------
(* Compaction                                                              *)

\* What a renumbering of the live nodes must be.
Renumbering(c, newId) ==
    /\ \A m \in Live(c) : newId[m] \in Node
    /\ \A m, k \in Live(c) : newId[m] = newId[k] => m = k

\* compactDataStructuresLocked gives different nodes different ids.
LEMMA RenumberingsAre ==
    ASSUME NEW c, NEW newId \in Renumberings(c)
    PROVE  Renumbering(c, newId)
<1>0. Live(c) \subseteq Node /\ NodeCount \in Nat
  BY LiveFinite, HashAssumption
<1>1. PICK linked \in SUBSET Node :
        /\ Live(c) \subseteq linked
        /\ newId = [n \in Live(c) |-> Cardinality({m \in linked : m <= n})]
  BY DEF Renumberings
<1>11. Live(c) \subseteq linked /\ linked \subseteq Node
  BY <1>1
<1> DEFINE Rank(n) == {m \in linked : m <= n}
<1>12. \A n \in Node : n \in Nat /\ n >= 1 /\ n <= NodeCount
  BY <1>0 DEF Node
<1>2. ASSUME NEW n \in Live(c)
      PROVE  /\ n \in Rank(n) /\ Rank(n) \subseteq 1..n /\ n \in 1..NodeCount
             /\ n \in Nat
  <2>1. n \in linked /\ n \in Nat /\ n >= 1 /\ n <= NodeCount
    BY <1>11, <1>12
  <2>2. \A m \in linked : m \in Nat /\ m >= 1
    BY <1>11, <1>12
  <2>3. n \in Rank(n)
    BY <2>1
  <2>4. ASSUME NEW m \in Rank(n) PROVE m \in 1..n
    <3>1. m \in linked /\ m <= n
      OBVIOUS
    <3>2. m \in Nat /\ m >= 1
      BY <2>2, <3>1
    <3> HIDE DEF Rank
    <3> QED BY <2>1, <3>1, <3>2
  <2> HIDE DEF Rank
  <2>5. Rank(n) \subseteq 1..n
    BY <2>4
  <2> QED BY <1>0, <2>1, <2>3, <2>5
<1>3. ASSUME NEW m \in Live(c), NEW k \in Live(c), m < k
      PROVE  Rank(m) \cup {k} \subseteq Rank(k) /\ k \notin Rank(m)
  <2>1. k \in linked /\ k \in Nat /\ m \in Nat
    BY <1>11, <1>12
  <2>2. \A i \in linked : i \in Nat
    BY <1>11, <1>12
  <2>3. k \in Rank(k)
    BY <2>1
  <2>4. k \notin Rank(m)
    BY <1>3, <2>1
  <2>5. ASSUME NEW i \in Rank(m) PROVE i \in Rank(k)
    <3>1. i \in linked /\ i <= m
      OBVIOUS
    <3>2. i \in Nat
      BY <2>2, <3>1
    <3>3. i <= k
      BY <1>3, <2>1, <3>1, <3>2
    <3> QED BY <3>1, <3>3
  <2> HIDE DEF Rank
  <2> QED BY <2>3, <2>4, <2>5
<1>4. \A n \in Live(c) : newId[n] = Cardinality(Rank(n))
  BY <1>1
<1> HIDE DEF Rank
<1>5. ASSUME NEW n \in Live(c)
      PROVE  /\ IsFiniteSet(Rank(n)) /\ Cardinality(Rank(n)) \in Nat
             /\ Cardinality(Rank(n)) <= n /\ Cardinality(Rank(n)) # 0
  <2>1. IsFiniteSet(1..n) /\ Cardinality(1..n) = n
    BY <1>2, FS_Interval
  <2>2. Rank(n) # {}
    BY <1>2
  <2> QED BY <1>2, <2>1, <2>2, FS_Subset, FS_CardinalityType, FS_EmptySet
<1>6. ASSUME NEW m \in Live(c), NEW k \in Live(c), m < k
      PROVE  Cardinality(Rank(m)) < Cardinality(Rank(k))
  <2>1. Cardinality(Rank(m) \cup {k}) = Cardinality(Rank(m)) + 1
    BY <1>3, <1>5, <1>6, FS_AddElement
  <2>2. Cardinality(Rank(m) \cup {k}) <= Cardinality(Rank(k))
    BY <1>3, <1>5, <1>6, FS_Subset
  <2> QED BY <1>5, <2>1, <2>2
<1>7. \A n \in Live(c) : newId[n] \in Node
  BY <1>0, <1>2, <1>4, <1>5 DEF Node
<1>8. ASSUME NEW m \in Live(c), NEW k \in Live(c), newId[m] = newId[k] PROVE m = k
  <2>1. m \in Nat /\ k \in Nat
    BY <1>2
  <2>2. Cardinality(Rank(m)) = Cardinality(Rank(k)) /\ Cardinality(Rank(m)) \in Nat
    BY <1>4, <1>5, <1>8
  <2>3. ~(m < k) /\ ~(k < m)
    BY <1>6, <2>2
  <2> QED BY <2>1, <2>3
<1> QED BY <1>7, <1>8 DEF Renumbering

\* A field moves with its node.
LEMMA MovedIs ==
    ASSUME NEW c, NEW newId, Renumbering(c, newId), NEW field, NEW none,
           NEW new, new = Moved(c, newId, field, none)
    PROVE  /\ \A m \in Live(c) : new[newId[m]] = field[m]
           /\ \A n \in Node : \/ new[n] = none
                              \/ \E m \in Live(c) : n = newId[m] /\ new[n] = field[m]
           /\ DOMAIN new = Node
<1>1. \A n \in Node : new[n] = IF \E m \in Live(c) : newId[m] = n
                               THEN field[CHOOSE m \in Live(c) : newId[m] = n] ELSE none
  BY DEF Moved
<1>2. ASSUME NEW k \in Live(c) PROVE (CHOOSE m \in Live(c) : newId[m] = newId[k]) = k
  <2>1. \E m \in Live(c) : newId[m] = newId[k]
    OBVIOUS
  <2>2. LET x == CHOOSE m \in Live(c) : newId[m] = newId[k]
        IN  x \in Live(c) /\ newId[x] = newId[k]
    BY <2>1
  <2> QED BY <2>2 DEF Renumbering
<1>3. ASSUME NEW k \in Live(c) PROVE new[newId[k]] = field[k]
  <2>1. newId[k] \in Node
    BY DEF Renumbering
  <2> QED BY <2>1, <1>1, <1>2
<1>4. ASSUME NEW n \in Node
      PROVE  new[n] = none \/ \E m \in Live(c) : n = newId[m] /\ new[n] = field[m]
  BY <1>1, <1>3
<1>5. DOMAIN new = Node
  BY DEF Moved
<1> QED BY <1>3, <1>4, <1>5

\* The nodes keep their keys under other ids.
LEMMA NodesMove ==
    ASSUME NEW c, Good(c), NEW newId, Renumbering(c, newId),
           NEW nd, nd = Moved(c, newId, c.nodes, NoKey),
           NEW sh, sh = Moved(c, newId, c.short, 0)
    PROVE  /\ NodesType(nd) /\ ShortOK(sh) /\ KeysOnce(nd)
           /\ Valid(nd) = Image(newId, Live(c))
           /\ Renumbers(c.nodes, nd, newId, Live(c))
<1>1. /\ NodesType(c.nodes) /\ ShortOK(c.short) /\ KeysOnce(c.nodes)
      /\ Live(c) = Valid(c.nodes) /\ Live(c) \subseteq Node
  BY SoundParts DEF Good
<1>2. /\ \A m \in Live(c) : nd[newId[m]] = c.nodes[m]
      /\ \A n \in Node : nd[n] = NoKey \/ \E m \in Live(c) : n = newId[m] /\ nd[n] = c.nodes[m]
      /\ DOMAIN nd = Node /\ nd = [n \in DOMAIN nd |-> nd[n]]
  <2>1. /\ \A m \in Live(c) : nd[newId[m]] = c.nodes[m]
        /\ \A n \in Node : nd[n] = NoKey \/ \E m \in Live(c) : n = newId[m] /\ nd[n] = c.nodes[m]
        /\ DOMAIN nd = Node
    BY MovedIs
  <2>2. nd = [n \in DOMAIN nd |-> nd[n]]
    BY DEF Moved
  <2> QED BY <2>1, <2>2
<1>3. /\ \A n \in Node : sh[n] = 0 \/ \E m \in Live(c) : n = newId[m] /\ sh[n] = c.short[m]
      /\ DOMAIN sh = Node /\ sh = [n \in DOMAIN sh |-> sh[n]]
  BY MovedIs DEF Moved
<1>4. NodesType(nd)
  <2>1. \A n \in Node : nd[n] \in Key \cup {NoKey}
    BY <1>1, <1>2 DEF NodesType
  <2> QED BY <2>1, <1>2 DEF NodesType
<1>5. ShortOK(sh)
  <2>1. \A n \in Node : sh[n] \in Nat
    BY <1>1, <1>3 DEF ShortOK
  <2> QED BY <2>1, <1>3 DEF ShortOK
<1>6. ASSUME NEW n \in Valid(nd) PROVE \E m \in Live(c) : n = newId[m] /\ nd[n] = c.nodes[m]
  BY <1>2, HashAssumption DEF Valid
<1>7. \A m \in Live(c) : newId[m] \in Valid(nd)
  BY <1>1, <1>2 DEF Valid, Renumbering
<1>8. Valid(nd) = Image(newId, Live(c))
  BY <1>6, <1>7 DEF Image
<1>9. KeysOnce(nd)
  BY <1>1, <1>6 DEF KeysOnce
<1>10. Renumbers(c.nodes, nd, newId, Live(c))
  BY <1>2, <1>7 DEF Renumbers, NodeHash
<1> QED BY <1>4, <1>5, <1>8, <1>9, <1>10

\* compactDataStructuresLocked
LEMMA CompactedKeeps ==
    ASSUME NEW c, Good(c), NEW newId, Renumbering(c, newId), NEW e, e = Compacted(c, newId)
    PROVE  Good(e)
<1> DEFINE nd == Moved(c, newId, c.nodes, NoKey)
           sh == Moved(c, newId, c.short, 0)
           d == [c EXCEPT !.nodes = nd, !.short = sh]
           cap == CapFor(Length(c))
           u == RemapSlots(c.slots, cap, newId)
<1>1. /\ NodesType(nd) /\ ShortOK(sh) /\ KeysOnce(nd)
      /\ Valid(nd) = Image(newId, Live(c)) /\ Renumbers(c.nodes, nd, newId, Live(c))
  BY NodesMove
<1>2. /\ c = Rec(c.nodes, c.short, c.slots, c.hashCount, c.peers, c.collisionCount)
      /\ c \in Records
  BY SoundParts DEF Good
<1>3. e = IF c.collisionCount # 0 \/ c.hashCount # Length(c) THEN Rebuild(d)
          ELSE [d EXCEPT !.slots = u]
  BY DEF Compacted
<1> HIDE DEF nd, sh
<1>4. d = Rec(nd, sh, c.slots, c.hashCount, c.peers, c.collisionCount)
  <2>1. c = Rec(c.nodes, c.short, c.slots, c.hashCount, c.peers, c.collisionCount)
    BY <1>2
  <2>2. d = [c EXCEPT !.nodes = nd, !.short = sh]
    OBVIOUS
  <2> HIDE DEF d
  <2> QED BY <2>1, <2>2 DEF Rec
<1>5. CASE c.collisionCount # 0 \/ c.hashCount # Length(c)
  <2>1. d \in Records /\ d.nodes = nd
    BY <1>1, <1>2, <1>4 DEF Records, Rec, NodesType, ShortOK
  <2> HIDE DEF d
  <2>2. Good(Rebuild(d))
    BY <2>1, <1>1, RebuildBuilds
  <2> QED BY <2>2, <1>3, <1>5
<1>6. CASE c.collisionCount = 0 /\ c.hashCount = Length(c)
  <2> DEFINE T == Image(newId, Live(c))
  <2>1. PICK S : Indexed(c, S, Live(c))
    BY DEF Good, Sound
  <2>2. Listed(c.peers) = {} /\ \A h \in Hashes : c.peers[h] = <<>>
    BY <2>1, <1>6, NoPeersCount
  <2>3. S = Live(c) /\ c.peers \in [Hashes -> Seq(Node)]
    BY <2>1, <2>2, RecordFields DEF Indexed
  <2>4. Tabled(c.nodes, c.slots, c.hashCount, Live(c))
    BY <2>1, <2>3 DEF Indexed
  <2>5. cap \in Nat \ {0} /\ c.hashCount * 5 <= cap * 4
    BY <1>6, LiveFinite, CapForSuffices
  <2> HIDE DEF cap, T
  <2>6. Tabled(nd, u, c.hashCount, T)
    <3>1. CASE cap = Cap(c.slots)
      <4>1. u = Remapped(c.slots, newId)
        BY <3>1 DEF RemapSlots, Remapped
      <4> HIDE DEF u
      <4> QED BY <4>1, <2>4, <1>1, TableRemaps DEF T
    <3>2. CASE cap # Cap(c.slots)
      <4>1. u = Reinsert(c.slots, cap, newId)
        BY <3>2 DEF RemapSlots
      <4> HIDE DEF u
      <4> QED BY <4>1, <2>4, <2>5, <1>1, TableCopies DEF T
    <3> QED BY <3>1, <3>2
  <2>7. Lists(nd, T, c.peers, c.collisionCount)
    <3>1. ASSUME NEW h \in Hashes PROVE ListOK(nd, T, h, c.peers[h])
      BY <2>2 DEF ListOK, ToSet, IsInjective
    <3> QED BY <3>1, <2>2, <2>3, <1>6, FS_EmptySet DEF Lists
  <2> HIDE DEF d, u
  <2>8. e = Rec(nd, sh, u, c.hashCount, c.peers, c.collisionCount)
    <3>1. e = [d EXCEPT !.slots = u]
      BY <1>3, <1>6
    <3> QED BY <3>1, <1>4 DEF Rec
  <2>9. Indexed(e, T, Both(T, c.peers)) /\ e.nodes = nd
    BY <1>1, <2>6, <2>7, <2>8, IndexedFrom
  <2>10. Both(T, c.peers) = T
    BY <2>2 DEF Both
  <2>11. Live(e) = T
    BY <1>1, <2>9, LiveIs DEF T
  <2> QED BY <2>9, <2>10, <2>11, IndexedIsSound DEF Good
<1> QED BY <1>5, <1>6

\* maybeReclaimUnderPressureLocked and what surrounds it
LEMMA ReclaimedKeeps ==
    ASSUME NEW c, Good(c), NEW kept, NEW e \in Reclaimed(c, kept)
    PROVE  Good(e)
<1>1. PICK d \in Evicted(c, Live(c) \ kept) :
        e \in IF Live(d) = {} THEN ClearEmpty(d) ELSE MaybeCompacted(d)
  BY DEF Reclaimed
<1>2. Good(d) /\ d \in Records
  <2>1. Good(d)
    BY EvictedThins
  <2> QED BY <2>1, SoundParts DEF Good
<1>3. CASE Live(d) = {}
  BY <1>1, <1>2, <1>3, ClearEmptyIs
<1>4. CASE Live(d) # {}
  <2>1. e = d \/ \E newId \in Renumberings(d) : e = Compacted(d, newId)
    BY <1>1, <1>4 DEF MaybeCompacted
  <2> QED BY <2>1, <1>2, RenumberingsAre, CompactedKeeps
<1> QED BY <1>3, <1>4

-----------------------------------------------------------------------------
(* Operations                                                              *)

\* Promoting an entry that is indexed already.
LEMMA PromoteKeeps ==
    ASSUME NEW c, Good(c), NEW n \in Live(c), NEW h, h = NodeHash(c.nodes, n),
           NEW e, e = Promote(c, h, n)
    PROVE  Good(e) /\ e.nodes = c.nodes
<1>1. Sound(c, Live(c)) /\ n \in Valid(c.nodes)
  BY SoundParts DEF Good
<1>2. Sound(e, Joined(Live(c), n)) /\ e.nodes = c.nodes
  BY <1>1, PromoteIndexes
<1>3. Joined(Live(c), n) = Live(c) /\ Live(e) = Live(c)
  BY <1>2 DEF Joined, Live
<1> QED BY <1>2, <1>3 DEF Good

\* walkNodeKeyFallback with heal
LEMMA HealedKeeps ==
    ASSUME NEW c, Good(c), NEW key \in Key, NEW e, e = Healed(c, key, Lookup(c, key))
    PROVE  Good(e) /\ e.nodes = c.nodes
<1> DEFINE n == Lookup(c, key).id
<1>1. CASE Lookup(c, key).walked /\ n # 0
  <2>1. n \in Live(c) /\ c.nodes[n] = key
    BY <1>1, LookupIs
  <2>2. Hash[key] = NodeHash(c.nodes, n)
    BY <2>1 DEF NodeHash
  <2>3. e = Promote(c, Hash[key], n)
    BY <1>1 DEF Healed
  <2> HIDE DEF n
  <2> QED BY <2>1, <2>2, <2>3, PromoteKeeps
<1>2. CASE ~(Lookup(c, key).walked /\ n # 0)
  BY <1>2 DEF Healed
<1> QED BY <1>1, <1>2

\* An entry that left the index loses its value.
LEMMA DropsEntry ==
    ASSUME NEW c, Good(c), NEW n \in Live(c), NEW d, Sound(d, Without(Live(c), n)),
           d.nodes = c.nodes, NEW e, e = DropValue(d, n)
    PROVE  Good(e)
<1>1. n \in Node /\ n \notin Without(Live(c), n) /\ NodesType(c.nodes)
  BY SoundParts DEF Good, Without
<1>2. Sound(e, Without(Live(c), n)) /\ e.nodes = With(c.nodes, n, NoKey)
  BY <1>1, DropKeeps
<1>3. Live(e) = Without(Live(c), n)
  BY <1>1, <1>2, LiveWithout
<1> QED BY <1>2, <1>3 DEF Good

\* The entry that Replace evicts itself.
LEMMA SelfEvicted ==
    ASSUME NEW c, Good(c), NEW n \in Live(c), NEW h, h = NodeHash(c.nodes, n)
    PROVE  Good(DropValue(RemoveOrPromote(c, h, n), n))
<1> DEFINE d == RemoveOrPromote(c, h, n)
<1>1. Sound(c, Live(c)) /\ n \in Valid(c.nodes)
  BY SoundParts DEF Good
<1>2. Sound(d, Without(Live(c), n)) /\ d.nodes = c.nodes
  BY <1>1, RemoveRemoves
<1> HIDE DEF d
<1>3. Good(DropValue(d, n))
  BY <1>2, DropsEntry
<1> QED BY <1>3 DEF d

\* A key that is not cached takes node n.
Keyed(d, n, key) == [d EXCEPT !.nodes[n] = key]

Inserted(c, d, key, n) ==
    IF ~Lookup(c, key).walked THEN InsertNewSlot(Keyed(d, n, key), Hash[key], n)
    ELSE Promote(Keyed(d, n, key), Hash[key], n)

\* A new entry is indexed, by whichever path the lookup before the evictions chose.
LEMMA InsertedIndexes ==
    ASSUME NEW c, Good(c), NEW key \in Key, Lookup(c, key).id = 0,
           NEW n \in Node \ Live(c), NEW d, Good(d), Thinned(c, d, Live(c)),
           NEW e, e = Inserted(c, d, key, n)
    PROVE  Good(e)
<1> DEFINE nd == With(d.nodes, n, key)
           b == Keyed(d, n, key)
           h == Hash[key]
           X == Live(d)
<1>1. /\ d = Rec(d.nodes, d.short, d.slots, d.hashCount, d.peers, d.collisionCount)
      /\ NodesType(d.nodes) /\ ShortOK(d.short) /\ KeysOnce(d.nodes)
      /\ X = Valid(d.nodes) /\ X \subseteq Node /\ Sound(d, X)
  BY SoundParts DEF Good
<1>2. \A m \in X : m \in Live(c) /\ d.nodes[m] = c.nodes[m] /\ m # n
  <2>1. \A m \in X : m \in Node /\ d.nodes[m] # NoKey
    BY DEF Live
  <2>2. \A m \in Node : d.nodes[m] = c.nodes[m] \/ d.nodes[m] = NoKey
    BY DEF Thinned
  <2>3. \A m \in X : d.nodes[m] = c.nodes[m] /\ m \in Live(c)
    BY <2>1, <2>2 DEF Live
  <2> QED BY <2>3
<1>3. \A m \in X : d.nodes[m] # key
  <2>1. \A m \in Live(c) : c.nodes[m] # key
    BY LookupIs
  <2> QED BY <2>1, <1>2
<1>4. \A m \in Node : nd[m] = IF m = n THEN key ELSE d.nodes[m]
  BY <1>1 DEF NodesType, With
<1>5. NodesType(nd)
  BY <1>1 DEF NodesType, With
<1> HIDE DEF nd
<1>6. Valid(nd) = Joined(X, n) /\ n \in Valid(nd)
  BY <1>1, <1>4 DEF Valid, Joined
<1>7. KeysOnce(nd)
  <2>1. \A m \in X : nd[m] = d.nodes[m]
    BY <1>1, <1>2, <1>4
  <2>2. nd[n] = key
    BY <1>4
  <2> HIDE DEF X
  <2> QED BY <1>1, <1>3, <1>6, <2>1, <2>2 DEF KeysOnce, Joined
<1>8. Agree(d.nodes, nd, X)
  BY <1>1, <1>2, <1>4 DEF Agree
<1>9. b = Rec(nd, d.short, d.slots, d.hashCount, d.peers, d.collisionCount)
  <2>1. b = [d EXCEPT !.nodes = nd]
    BY DEF Keyed, nd, With
  <2>2. d = Rec(d.nodes, d.short, d.slots, d.hashCount, d.peers, d.collisionCount)
    BY <1>1
  <2> HIDE DEF b
  <2> QED BY <2>1, <2>2 DEF Rec
<1> HIDE DEF b, X
<1>10. Sound(b, X) /\ b.nodes = nd
  BY <1>1, <1>5, <1>7, <1>8, <1>9, NodesChange
<1>11. h = NodeHash(b.nodes, n) /\ n \in Valid(b.nodes)
  BY <1>4, <1>6, <1>10 DEF NodeHash
<1>12. Sound(e, Joined(X, n)) /\ e.nodes = b.nodes
  <2>1. CASE ~Lookup(c, key).walked
    <3>1. e = InsertNewSlot(b, h, n)
      BY <2>1 DEF Inserted, b
    <3>2. PICK S : Indexed(b, S, X)
      BY <1>10 DEF Sound
    <3>3. S \subseteq X
      BY <3>2, IndexedParts
    <3>4. \A m \in Live(c) : NodeHash(c.nodes, m) # Hash[key]
      BY <2>1, LookupIs
    <3>5. \A m \in X : nd[m] = c.nodes[m] /\ m \in Live(c)
      BY <1>1, <1>2, <1>4
    <3>6. Unslotted(b.nodes, S, h)
      BY <1>10, <3>3, <3>4, <3>5 DEF Unslotted, NodeHash
    <3>7. Indexed(e, Joined(S, n), Joined(X, n)) /\ e.nodes = b.nodes
      BY <1>11, <3>1, <3>2, <3>6, InsertsNode
    <3> QED BY <3>7, IndexedIsSound
  <2>2. CASE Lookup(c, key).walked
    <3>1. e = Promote(b, h, n)
      BY <2>2 DEF Inserted, b
    <3> QED BY <3>1, <1>10, <1>11, PromoteIndexes
  <2> QED BY <2>1, <2>2
<1>13. Live(e) = Joined(X, n)
  <2>1. e.nodes = nd
    BY <1>10, <1>12
  <2> QED BY <2>1, <1>5, <1>6, LiveIs
<1> QED BY <1>12, <1>13 DEF Good

\* putWithHash of a new key
LEMMA PutInsertKeeps ==
    ASSUME NEW c, Good(c), NEW key \in Key, Lookup(c, key).id = 0,
           NEW n \in Node \ Live(c), NEW e \in PutInsert(c, key, n)
    PROVE  Good(e)
<1> DEFINE Room(d) == {d} \cup IF Live(d) = {} THEN ClearEmpty(d) ELSE {}
<1>1. PutInsert(c, key, n) =
        {Inserted(c, d, key, n) : d \in UNION {Room(d) : d \in Evicted(c, Live(c))}}
  BY DEF PutInsert, Inserted, Keyed
<1>2. PICK d \in UNION {Room(d) : d \in Evicted(c, Live(c))} : e = Inserted(c, d, key, n)
  BY <1>1
<1>3. PICK b \in Evicted(c, Live(c)) : d \in Room(b)
  BY <1>2
<1>4. Good(b) /\ Thinned(c, b, Live(c)) /\ b \in Records
  <2>1. Good(b) /\ Thinned(c, b, Live(c))
    BY <1>3, EvictedThins
  <2> QED BY <2>1, SoundParts DEF Good
<1>5. Good(d) /\ d.nodes = b.nodes
  <2>1. CASE d = b
    BY <2>1, <1>4
  <2>2. CASE Live(b) = {} /\ d \in ClearEmpty(b)
    BY <2>2, <1>4, ClearEmptyIs
  <2> QED BY <2>1, <2>2, <1>3
<1>6. Thinned(c, d, Live(c))
  BY <1>4, <1>5 DEF Thinned
<1> QED BY <1>2, <1>5, <1>6, InsertedIndexes

\* Evictions that spare n, and then n takes its hash's slot.
LEMMA MakesRoom ==
    ASSUME NEW b, NEW key \in Key, NEW c, Good(c), NEW n \in Live(c),
           c.nodes[n] = key, Live(b) = Live(c),
           NEW d \in Evicted(c, Live(b) \ {n}), NEW e, e = Promote(d, Hash[key], n)
    PROVE  Good(e)
<1>1. Good(d) /\ Thinned(c, d, Live(b) \ {n})
  BY EvictedThins
<1>2. n \in Node
  BY DEF Live
<1>3. d.nodes[n] = key
  BY <1>1, <1>2 DEF Thinned
<1>4. n \in Live(d) /\ Hash[key] = NodeHash(d.nodes, n)
  BY <1>2, <1>3, HashAssumption DEF Live, NodeHash
<1> QED BY <1>1, <1>4, PromoteKeeps

\* updateExistingOnPutLocked
LEMMA PutUpdateKeeps ==
    ASSUME NEW c, Good(c), NEW key \in Key, Lookup(c, key).id # 0,
           NEW e \in PutUpdate(c, key, Lookup(c, key))
    PROVE  Good(e)
<1> DEFINE healed == Healed(c, key, Lookup(c, key))
           n == Lookup(c, key).id
<1>1. Good(healed) /\ healed.nodes = c.nodes
  BY HealedKeeps
<1>2. n \in Live(c) /\ c.nodes[n] = key
  BY LookupIs
<1>3. Live(healed) = Live(c)
  BY <1>1 DEF Live
<1>4. e = healed \/ \E d \in Evicted(healed, Live(c) \ {n}) : e = Promote(d, Hash[key], n)
  BY DEF PutUpdate
<1> HIDE DEF healed, n
<1>5. ASSUME NEW d \in Evicted(healed, Live(c) \ {n}), e = Promote(d, Hash[key], n)
      PROVE  Good(e)
  <2>1. n \in Live(healed) /\ healed.nodes[n] = key /\ Live(c) = Live(healed)
    BY <1>1, <1>2, <1>3
  <2> QED BY <2>1, <1>1, <1>5, MakesRoom
<1> QED BY <1>1, <1>4, <1>5

-----------------------------------------------------------------------------
(* The inductive invariant                                                 *)

HashInv == Good(Locked)

\* The state left at unlock is the next state.
LEMMA UnlockIs ==
    ASSUME NEW e, Good(e), Unlock(e)
    PROVE  HashInv'
<1>1. e = Rec(e.nodes, e.short, e.slots, e.hashCount, e.peers, e.collisionCount)
  BY SoundParts DEF Good
<1>2. Locked' = e
  BY <1>1 DEF Unlock, Locked, Rec
<1> QED BY <1>2 DEF HashInv

\* The empty cache has a sound index.
LEMMA InitIndexes == Init => HashInv
<1> SUFFICES ASSUME Init PROVE HashInv
  OBVIOUS
<1> DEFINE nd == [n \in Node |-> NoKey]
           sh == [n \in Node |-> 0]
<1>1. NodesType(nd) /\ ShortOK(sh)
  BY DEF NodesType, ShortOK
<1>2. Valid(nd) = {} /\ KeysOnce(nd)
  BY HashAssumption DEF Valid, KeysOnce
<1>3. MinCap \in Nat \ {0}
  BY HashAssumption
<1>4. Locked = Rec(nd, sh, EmptySlots(MinCap), 0, NoPeers, 0)
  BY DEF Init, Locked, Rec
<1> HIDE DEF nd, sh
<1>5. Indexed(Locked, {}, {}) /\ Locked.nodes = nd
  BY <1>1, <1>2, <1>3, <1>4, EmptyIndex
<1>6. Live(Locked) = {}
  BY <1>1, <1>2, <1>5, LiveIs
<1>7. Sound(Locked, {})
  BY <1>5, IndexedIsSound
<1> QED BY <1>6, <1>7 DEF HashInv, Good

\* putWithHash keeps the index sound.
LEMMA PutKeeps ==
    ASSUME HashInv, NEW key \in Key, Put(key)
    PROVE  HashInv'
<1> DEFINE c == Locked
<1>1. Good(c)
  BY DEF HashInv
<1>2. CASE \E d \in PutUpdate(c, key, Lookup(c, key)) :
             /\ Lookup(c, key).id # 0
             /\ \E e \in Reclaimed(d, {Lookup(c, key).id}) : Unlock(e)
  <2> HIDE DEF c
  <2>1. PICK d \in PutUpdate(c, key, Lookup(c, key)) :
             /\ Lookup(c, key).id # 0
             /\ \E e \in Reclaimed(d, {Lookup(c, key).id}) : Unlock(e)
    BY <1>2
  <2>2. PICK e \in Reclaimed(d, {Lookup(c, key).id}) : Unlock(e)
    BY <2>1
  <2>3. Good(d)
    BY <1>1, <2>1, PutUpdateKeeps
  <2>4. Good(e)
    BY <2>2, <2>3, ReclaimedKeeps
  <2> QED BY <2>2, <2>4, UnlockIs
<1>3. CASE \E n \in Node \ Live(c) : \E d \in PutInsert(c, key, n) :
             /\ Lookup(c, key).id = 0
             /\ \E e \in Reclaimed(d, {n}) : Unlock(e)
  <2> HIDE DEF c
  <2>a. PICK n \in Node \ Live(c) : \E d \in PutInsert(c, key, n) :
             /\ Lookup(c, key).id = 0
             /\ \E e \in Reclaimed(d, {n}) : Unlock(e)
    BY <1>3
  <2>1. PICK d \in PutInsert(c, key, n) :
             /\ Lookup(c, key).id = 0
             /\ \E e \in Reclaimed(d, {n}) : Unlock(e)
    BY <2>a
  <2>2. PICK e \in Reclaimed(d, {n}) : Unlock(e)
    BY <2>1
  <2>3. Good(d)
    BY <1>1, <2>1, PutInsertKeeps
  <2>4. Good(e)
    BY <2>2, <2>3, ReclaimedKeeps
  <2> QED BY <2>2, <2>4, UnlockIs
<1> QED BY <1>2, <1>3 DEF Put

\* replaceWithHash keeps the index sound.
LEMMA ReplaceKeeps ==
    ASSUME HashInv, NEW key \in Key, Replace(key)
    PROVE  HashInv'
<1> DEFINE c == Locked
           n == Lookup(c, key).id
           h == Hash[key]
           kept == IF Lookup(c, key).walked THEN Promote(c, h, n) ELSE c
           self == DropValue(RemoveOrPromote(c, h, n), n)
<1>1. Good(c)
  BY DEF HashInv
<1>2. /\ n # 0
      /\ \E d, e : /\ e \in Reclaimed(d, {n}) \/ e \in Reclaimed(d, {})
                   /\ Unlock(e)
                   /\ \/ d = kept
                      \/ \E b \in Evicted(c, Live(c) \ {n}) : d = Promote(b, h, n)
                      \/ d = self
  BY DEF Replace
<1> HIDE DEF c
<1>3. n \in Live(c) /\ c.nodes[n] = key
  BY <1>1, <1>2, LookupIs
<1>4. h = NodeHash(c.nodes, n)
  BY <1>3 DEF NodeHash
<1>5. Good(kept)
  <2> HIDE DEF n, h
  <2> QED BY <1>1, <1>3, <1>4, PromoteKeeps
<1>6. Good(self)
  <2> HIDE DEF n, h
  <2> QED BY <1>1, <1>3, <1>4, SelfEvicted
<1>7. ASSUME NEW b \in Evicted(c, Live(c) \ {n}) PROVE Good(Promote(b, h, n))
  <2> HIDE DEF n
  <2> QED BY <1>1, <1>3, MakesRoom
<1> HIDE DEF n, h, kept, self
<1>8. PICK d, e : /\ e \in Reclaimed(d, {n}) \/ e \in Reclaimed(d, {})
                  /\ Unlock(e)
                  /\ \/ d = kept
                     \/ \E b \in Evicted(c, Live(c) \ {n}) : d = Promote(b, h, n)
                     \/ d = self
  BY <1>2
<1>9. Good(d)
  BY <1>5, <1>6, <1>7, <1>8
<1>10. Good(e)
  BY <1>8, <1>9, ReclaimedKeeps
<1> QED BY <1>8, <1>10, UnlockIs

\* getWithHash, which may heal the index, keeps it sound.
LEMMA GetKeeps ==
    ASSUME HashInv, NEW key \in Key, Get(key)
    PROVE  HashInv'
<1> DEFINE e == Healed(Locked, key, Lookup(Locked, key))
<1>1. Good(e)
  BY HealedKeeps DEF HashInv
<1>2. Unlock(e)
  BY DEF Get
<1> HIDE DEF e
<1> QED BY <1>1, <1>2, UnlockIs

\* deleteWithHash keeps the index sound.
LEMMA DeleteKeeps ==
    ASSUME HashInv, NEW key \in Key, Delete(key)
    PROVE  HashInv'
<1> DEFINE c == Locked
           at == VerifiedSlot(c, key)
           n == Lookup(c, key).id
           h == Hash[key]
           d == IF c.slots[at] # Empty THEN RemoveOrPromoteAt(c, at, h, n)
                ELSE RemoveOrPromote(c, h, n)
<1>1. Good(c)
  BY DEF HashInv
<1>2. n # 0 /\ \E e \in Reclaimed(DropValue(d, n), {}) : Unlock(e)
  BY DEF Delete
<1> HIDE DEF c
<1>3. n \in Live(c) /\ c.nodes[n] = key
  BY <1>1, <1>2, LookupIs
<1>4. h = NodeHash(c.nodes, n)
  BY <1>3 DEF NodeHash
<1>5. Sound(d, Without(Live(c), n)) /\ d.nodes = c.nodes
  <2>1. CASE c.slots[at] # Empty
    <3>1. PICK S : Indexed(c, S, Live(c))
      BY <1>1 DEF Good, Sound
    <3>2. n = c.slots[at].id
      BY <2>1 DEF Lookup
    <3>3. /\ at \in Occ(c.slots) /\ c.slots[at].id \in S
          /\ c.slots[at] = SlotFor(c.nodes, c.slots[at].id)
      BY <2>1, <3>1, VerifiedSlotIs
    <3>4. d = RemoveOrPromoteAt(c, at, h, n)
      BY <2>1
    <3> HIDE DEF at, n, h, d
    <3> QED BY <1>4, <3>1, <3>2, <3>3, <3>4, RemoveAtRemoves
  <2>2. CASE c.slots[at] = Empty
    <3>1. d = RemoveOrPromote(c, h, n)
      BY <2>2
    <3>2. Sound(c, Live(c)) /\ n \in Valid(c.nodes)
      BY <1>1, <1>3, SoundParts DEF Good
    <3> HIDE DEF at, n, h, d
    <3> QED BY <1>4, <3>1, <3>2, RemoveRemoves
  <2> QED BY <2>1, <2>2
<1> HIDE DEF d, n
<1>6. Good(DropValue(d, n))
  BY <1>1, <1>3, <1>5, DropsEntry
<1>7. PICK e \in Reclaimed(DropValue(d, n), {}) : Unlock(e)
  BY <1>2
<1>8. Good(e)
  BY <1>6, <1>7, ReclaimedKeeps
<1> QED BY <1>7, <1>8, UnlockIs

\* deleteNonEmptyPrefixLocked keeps the index sound.
LEMMA DeletePrefixKeeps ==
    ASSUME HashInv, NEW P, DeletePrefix(P)
    PROVE  HashInv'
<1> DEFINE c == Locked
           gone == {n \in Live(c) : c.nodes[n] \in P}
           k == Cardinality(gone)
<1>1. Good(c)
  BY DEF HashInv
<1>2. \E v \in Orders(gone, k) : \E e \in Reclaimed(EraseAll(c, v), {}) : Unlock(e)
  BY DEF DeletePrefix
<1> HIDE DEF c
<1>3. PICK v \in Orders(gone, k) : \E e \in Reclaimed(EraseAll(c, v), {}) : Unlock(e)
  BY <1>2
<1>4. PICK e \in Reclaimed(EraseAll(c, v), {}) : Unlock(e)
  BY <1>3
<1>5. k \in Nat /\ gone \subseteq Live(c)
  <2>1. gone \subseteq Live(c) /\ IsFiniteSet(Live(c))
    BY LiveFinite
  <2> HIDE DEF gone
  <2> QED BY <2>1, FS_Subset, FS_CardinalityType
<1> HIDE DEF gone, k
<1>6. Victims(c, v, k)
  BY <1>3, <1>5 DEF Orders, Victims
<1>7. Good(EraseAll(c, v))
  BY <1>1, <1>5, <1>6, EraseAllErases DEF Erasing
<1>8. Good(e)
  BY <1>4, <1>7, ReclaimedKeeps
<1> QED BY <1>4, <1>8, UnlockIs

\* deleteAllPrefixLocked keeps the index sound.
LEMMA DeleteAllKeeps ==
    ASSUME HashInv, DeleteAll
    PROVE  HashInv'
<1> DEFINE c == Locked
           nd == [n \in Node |-> NoKey]
           sh == [n \in Node |-> 0]
           d == [c EXCEPT !.nodes = nd, !.short = sh]
<1>1. c \in Records
  BY SoundParts DEF HashInv, Good
<1>2. PICK e \in ClearEmpty(d) : Unlock(e)
  BY DEF DeleteAll
<1>3. nd \in [Node -> Key \cup {NoKey}] /\ sh \in [Node -> Nat] /\ \A n \in Node : nd[n] = NoKey
  OBVIOUS
<1> HIDE DEF c, nd, sh
<1>4. d \in Records /\ d.nodes = nd
  BY <1>1, <1>3 DEF Records
<1>5. Live(d) = {}
  BY <1>3, <1>4 DEF Live
<1> HIDE DEF d
<1>6. Good(e)
  BY <1>2, <1>4, <1>5, ClearEmptyIs
<1> QED BY <1>2, <1>6, UnlockIs

\* Compact and EvaluateMemoryPressure keep the index sound.
LEMMA EvaluateKeeps ==
    ASSUME HashInv, Evaluate
    PROVE  HashInv'
<1>1. PICK e \in Reclaimed(Locked, {}) : Unlock(e)
  BY DEF Evaluate
<1>2. Good(e)
  BY <1>1, ReclaimedKeeps DEF HashInv
<1> QED BY <1>1, <1>2, UnlockIs

\* The invariant is inductive.
LEMMA NextKeeps == HashInv /\ [Next]_vars => HashInv'
<1> SUFFICES ASSUME HashInv, [Next]_vars PROVE HashInv'
  OBVIOUS
<1>1. ASSUME NEW key \in Key, Put(key) PROVE HashInv'
  BY <1>1, PutKeeps
<1>2. ASSUME NEW key \in Key, Replace(key) PROVE HashInv'
  BY <1>2, ReplaceKeeps
<1>3. ASSUME NEW key \in Key, Get(key) PROVE HashInv'
  BY <1>3, GetKeeps
<1>4. ASSUME NEW key \in Key, Delete(key) PROVE HashInv'
  BY <1>4, DeleteKeeps
<1>5. ASSUME NEW P \in Subtrees, DeletePrefix(P) PROVE HashInv'
  BY <1>5, DeletePrefixKeeps
<1>6. CASE DeleteAll
  BY <1>6, DeleteAllKeeps
<1>7. CASE Evaluate
  BY <1>7, EvaluateKeeps
<1>8. CASE UNCHANGED vars
  <2>1. Locked' = Locked
    BY <1>8 DEF vars, Locked
  <2> QED BY <2>1 DEF HashInv
<1> QED BY <1>1, <1>2, <1>3, <1>4, <1>5, <1>6, <1>7, <1>8 DEF Next

\* The index is sound in every reachable state.
LEMMA SpecIndexes == Spec => []HashInv
  BY InitIndexes, NextKeeps, PTL DEF Spec

-----------------------------------------------------------------------------
(* The properties                                                          *)

\* A sound index partitions the entries between slots and lists.
LEMMA PartitionFollows ==
    ASSUME HashInv
    PROVE  IndexIsPartition
<1> DEFINE c == Locked
           slotted == {slots[i].id : i \in Occupied}
<1>0. /\ c.nodes = nodes /\ c.slots = slots /\ c.hashCount = hashCount /\ c.peers = peers
      /\ c.collisionCount = collisionCount /\ Occupied = Occ(slots)
  BY DEF Locked, Occupied, Occ
<1> HIDE DEF c
<1>1. PICK S : Indexed(c, S, Live(c))
  BY DEF HashInv, Good, Sound, c
<1>2. /\ Tabled(nodes, slots, hashCount, S) /\ Lists(nodes, S, peers, collisionCount)
      /\ Live(c) = S \cup Listed(peers) /\ S \subseteq Valid(nodes)
  BY <1>0, <1>1 DEF Indexed, Tabled
<1>3. /\ \A i \in Occ(slots) : slots[i].id \in S /\ slots[i] = SlotFor(nodes, slots[i].id)
      /\ \A m \in S : \E i \in Occ(slots) : slots[i] = SlotFor(nodes, m)
  BY <1>2, HeldIs
<1>4. \A m \in S : SlotFor(nodes, m).id = m
  BY DEF SlotFor
<1>5. slotted = S
  BY <1>0, <1>3, <1>4
<1>6. Listed(peers) \cap S = {}
  BY <1>0, <1>1, IndexedParts
<1>7. hashCount = Cardinality(S) /\ hashCount = Cardinality(Occ(slots))
  BY <1>2, TableShape DEF Tabled
<1>8. collisionCount = Cardinality(Listed(peers))
  BY <1>2 DEF Lists
<1>9. ASSUME NEW i \in Occ(slots)
      PROVE  /\ slots[i].tag = Tag[HashOf(c, slots[i].id)]
             /\ Probe(slots, slots[i].tag, {i}) = i
  <2> DEFINE t == slots
             n == Cap(t)
             tag == t[i].tag
  <2>1. t[i].id \in Valid(nodes) /\ t[i] = SlotFor(nodes, t[i].id)
    BY <1>2, <1>3
  <2>2. tag = Tag[NodeHash(nodes, t[i].id)] /\ NodeHash(nodes, t[i].id) \in Hashes
    BY <2>1, SlotForType
  <2>3. tag = Tag[HashOf(c, t[i].id)] /\ tag \in Nat
    BY <2>2, <1>0, ZeroFacts DEF HashOf, NodeHash
  <2>4. /\ n \in Nat \ {0} /\ t \in Table(n) /\ DOMAIN t = 0..(n - 1)
        /\ \E j \in 0..(n - 1) : t[j] = Empty
    BY <1>2, TableShape
  <2>5. i \in 0..(n - 1) /\ Reached(t, i)
    BY <1>2, <2>4 DEF Occ, Tabled, Reachable
  <2>6. \A j \in 0..(n - 1) : Distance(n, tag % n, j) < Distance(n, tag % n, i)
                                  => t[j] # Empty /\ j \notin {i}
    <3> TAKE j \in 0..(n - 1)
    <3> HAVE Distance(n, tag % n, j) < Distance(n, tag % n, i)
    <3>1. t[j] # Empty
      BY <2>4, <2>5 DEF Reached
    <3>2. tag % n \in 0..(n - 1)
      BY <2>3, <2>4, HomeType
    <3>3. Distance(n, tag % n, i) \in Nat
      BY <3>2, <2>4, <2>5, DistanceType
    <3> QED BY <3>1, <3>3
  <2> DEFINE T == {i}
  <2>7. T \in SUBSET (0..(n - 1)) /\ i \in T
    BY <2>5
  <2>8. \A j \in 0..(n - 1) : Distance(n, tag % n, j) < Distance(n, tag % n, i)
                                  => t[j] # Empty /\ j \notin T
    BY <2>6
  <2> HIDE DEF T, n, tag
  <2>9. Probe(t, tag, T) = i
    BY <2>3, <2>4, <2>5, <2>7, <2>8, ProbeIs
  <2> QED BY <2>3, <2>9 DEF T, tag
<1>10. ASSUME NEW h \in Hashes PROVE IsInjective(peers[h])
  BY <1>2 DEF Lists, ListOK
<1>11. ASSUME NEW h \in Hashes, NEW n \in ToSet(peers[h])
       PROVE  HashOf(c, n) = h /\ \E i \in Occ(slots) : HashOf(c, slots[i].id) = h
  <2>1. ListOK(nodes, S, h, peers[h])
    BY <1>2 DEF Lists
  <2>2. NodeHash(nodes, n) = h /\ peers[h] # <<>>
    BY <2>1 DEF ListOK, ToSet
  <2>3. PICK m \in S : NodeHash(nodes, m) = h
    BY <2>1, <2>2 DEF ListOK
  <2>4. PICK i \in Occ(slots) : slots[i] = SlotFor(nodes, m)
    BY <1>3
  <2>5. slots[i].id = m
    BY <2>4, <1>4
  <2> QED BY <2>2, <2>3, <2>5, <1>0 DEF HashOf, NodeHash
<1> HIDE DEF slotted
<1>12. /\ slotted \cup Listed(peers) = Live(c) /\ slotted \cap Listed(peers) = {}
       /\ hashCount = Cardinality(slotted) /\ hashCount = Cardinality(Occupied)
  BY <1>0, <1>2, <1>5, <1>6, <1>7
<1> QED BY <1>0, <1>8, <1>9, <1>10, <1>11, <1>12 DEF IndexIsPartition, slotted, Listed, c

\* In a sound index a lookup is exact.
LEMMA ExactnessFollows ==
    ASSUME HashInv
    PROVE  LookupsExact
<1>1. PICK S : Indexed(Locked, S, Live(Locked))
  BY DEF HashInv, Good, Sound
<1>2. Tabled(nodes, slots, hashCount, S)
  BY <1>1 DEF Indexed, Locked
<1>3. \E i \in DOMAIN slots : slots[i] = Empty
  BY <1>2, TableShape
<1>4. \A key \in Key : Lookup(Locked, key).id = TrieWalk(Locked, key)
  BY LookupIs DEF HashInv
<1> QED BY <1>3, <1>4 DEF LookupsExact

\* Whatever keys share a hash or a tag, and whatever evictions, backshift deletions,
\* resets and compactions came before, lookupNodeKeyWithHash and the lookups like it
\* find the node of every cached key and no node for any other key: a miss in
\* hashSlots is trusted only when it is one.  No probing loop of arena_radix.go runs
\* around a full table.
THEOREM LookupsAreExact == Spec => []LookupsExact
<1>1. HashInv => LookupsExact
  BY ExactnessFollows
<1> QED BY <1>1, SpecIndexes, PTL

\* hashSlots and collisionPeers hold each entry exactly once, every slot where probing
\* from its tag's home reaches it and every peer beside a slot of its own hash, and
\* hashCount and collisionCount are their sizes: the sixth invariant of
\* checkInvariants, as an equality.
THEOREM IndexPartitionsEntries == Spec => []IndexIsPartition
<1>1. HashInv => IndexIsPartition
  BY PartitionFollows
<1> QED BY <1>1, SpecIndexes, PTL

=============================================================================
