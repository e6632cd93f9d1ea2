----------------------- MODULE PressureSamplerProofs ------------------------
(***************************************************************************)
(* Proofs about the pressure sampling protocol, for any number of          *)
(* goroutines, shards and operations and any retry limits.                 *)
(*                                                                         *)
(* A sample is a reading with the numbers that date it.  Wherever the      *)
(* protocol keeps one (a goroutine's locals, the coordinator's cache and   *)
(* its last recorded reading, a shard, the carry of an operation over all  *)
(* shards) two things hold: if the recovery epoch it was taken in is not   *)
(* over then no later reading below its tier was recorded (RecoveryOK),    *)
(* and if it is elevated and the reclamation epoch it names is the current *)
(* one then nobody has reclaimed since it was read (EpochOK).              *)
(***************************************************************************)
EXTENDS PressureSampler, FiniteSetTheorems, WellFoundedInduction, TLAPS

-----------------------------------------------------------------------------
(* Types                                                                   *)

Counts == [Threads -> Nat]

SampleRecs ==
    [epoch : Nat, shardEpoch : Nat, shardExt : Nat, ext : Nat, seq : Nat,
     bt1 : Nat, bt2 : Nat, val : Levels, seen : Counts]

CarryRecs ==
    [has : BOOLEAN, val : Levels, epoch : Nat, bt1 : Nat, bt2 : Nat, seq : Nat,
     seen : Counts]

CoordinatorRecs ==
    [bt1 : Nat, bt2 : Nat, invokeSeq : Nat, panics : Nat,
     lastSeq : Nat, lastEpoch : Nat, lastVal : Levels, lastSeen : Counts,
     pubSeq : Nat, init : BOOLEAN, refresh : BOOLEAN, cEpoch : Nat,
     cBt1 : Nat, cBt2 : Nat, cSeq : Nat, cVal : Levels, cSeen : Counts,
     low1 : Nat, low2 : Nat]

ShardRecs ==
    [holder : Threads \cup {Nobody}, valid : BOOLEAN, epoch : Nat, bt1 : Nat, bt2 : Nat,
     seq : Nat, appPub : Nat, appSeq : Nat, appVal : {0}, writes : Nat,
     due : BOOLEAN]

Reading == {"capture", "hook", "lock"}
Stages == {"idle", "enter", "fast", "carry", "holding"} \cup Reading

ThreadRecs ==
    [pc : Stages, kind : {"none", "write", "prefix", "evaluate"}, at : Nodes,
     todo : SUBSET Shards, load : 0..4, s : SampleRecs, prePanics : Nat,
     path : {"slow", "miss"}, same : Nat, cross : Nat, samplings : Nat,
     pressure : Levels, seq : Nat, seen : Counts, fallback : BOOLEAN,
     carry : CarryRecs]

TypeInv ==
    /\ reclaimEpoch \in [Nodes -> Nat] /\ externalEpoch \in [Nodes -> Nat]
    /\ reentrant \in [Nodes -> SUBSET Threads]
    /\ lastReentrant \in [Nodes -> Threads \cup {Nobody}]
    /\ co \in CoordinatorRecs
    /\ shard \in [Shards -> ShardRecs]
    /\ th \in [Threads -> ThreadRecs]
    /\ reclaims \in Counts /\ atReading \in [Threads -> Counts]
    /\ started \in Nat

-----------------------------------------------------------------------------
(* The inductive invariant                                                 *)

\* If no reading below the tier of the sample was recorded by the coordinator c in
\* a recovery epoch after the sample's, then none with a later invocation number.
RecoveryOK(c, val, bt1, bt2, seq) ==
    /\ bt1 <= c.bt1 /\ bt2 <= c.bt2
    /\ val = Tier2 /\ bt2 = c.bt2 => c.low2 <= seq
    /\ val = Tier1 /\ bt1 = c.bt1 => c.low1 <= seq

\* An elevated sample that names the current epoch has seen all reclamations,
EpochOK(current, made, val, epoch, seen) ==
    epoch <= current /\ (val >= Tier1 /\ epoch = current => seen = made)

\* or, of an operation that goes on after its own, all but its own.
OthersOK(current, made, t, val, epoch, seen) ==
    /\ epoch <= current
    /\ val >= Tier1 /\ epoch = current => \A u \in Threads \ {t} : made[u] = seen[u]

\* Invocation numbers are handed out in order, and what the coordinator keeps of
\* the last readings is dated as any sample.
CoInv ==
    /\ co.low1 <= co.lastSeq /\ co.low2 <= co.lastSeq
    /\ co.lastSeq <= co.invokeSeq /\ co.cSeq <= co.invokeSeq
    /\ RecoveryOK(co, co.cVal, co.cBt1, co.cBt2, co.cSeq)
    /\ EpochOK(CurEpoch, reclaims, co.cVal, co.cEpoch, co.cSeen)
    /\ EpochOK(CurEpoch, reclaims, co.lastVal, co.lastEpoch, co.lastSeen)
    /\ \A n \in Nodes : lastReentrant[n] = Nobody => reentrant[n] = {}

ShardInv == \A x \in Shards : shard[x].bt1 <= co.bt1 /\ shard[x].bt2 <= co.bt2

\* A shard lock is held by the goroutine that is in the body of an operation there.
LockInv(t) ==
    /\ th[t].pc # "idle" => th[t].at \in Shards
    /\ \A x \in Shards : shard[x].holder = t <=> th[t].pc = "holding" /\ th[t].at = x

\* The retry budgets, and how many readings they explain.
BudgetInv(t) ==
    /\ th[t].pc \in {"idle", "enter", "fast", "carry"} =>
          th[t].samplings = 0 /\ th[t].same = 0 /\ th[t].cross = 0
    /\ th[t].same <= MaxSameShardRetries /\ th[t].cross <= MaxCrossShardRetries
    /\ th[t].pc = "capture" => th[t].load \in 1..4
    /\ th[t].pc = "fast" => ~Custom /\ ~Fresh(t)
    /\ th[t].pc \in Reading /\ th[t].path = "miss" =>
          ~Custom /\ ~Fresh(t) /\ th[t].samplings = 1 /\ th[t].same = 0 /\ th[t].cross = 0
    /\ th[t].samplings <= (IF Custom \/ Fresh(t) THEN 1 ELSE 2) + th[t].same + th[t].cross

\* The sample a goroutine has, or is about to get.  The one that last reclaimed
\* inside its PressureFunc has seen all reclamations unless one came from outside.
SampleInv(t) ==
    LET s == th[t].s IN
    /\ s.seq <= co.invokeSeq
    /\ RecoveryOK(co, s.val, s.bt1, s.bt2, s.seq)
    /\ EpochOK(CurEpoch, reclaims, s.val, s.epoch, s.seen)
    /\ (th[t].pc = "capture" /\ th[t].load > 2) \/ th[t].pc = "hook" =>
          /\ s.epoch = CurEpoch => atReading[t] = reclaims
          /\ s.ext <= externalEpoch[Coord]
    /\ th[t].pc = "capture" => s.val = 0
    /\ th[t].pc = "hook" => \A v \in Levels : RecoveryOK(co, v, s.bt1, s.bt2, s.seq)
    /\ \A n \in Nodes : t \in reentrant[n] => th[t].pc = "hook"
    /\ t \in reentrant[Coord] /\ lastReentrant[Coord] = t /\ externalEpoch[Coord] = s.ext =>
          atReading[t] = reclaims

\* The sample an operation carries from shard to shard.
CarryInv(t) ==
    LET c == th[t].carry IN
    RecoveryOK(co, c.val, c.bt1, c.bt2, c.seq) /\ OthersOK(CurEpoch, reclaims, t, c.val, c.epoch, c.seen)

\* The sample applied under the lock.
HoldInv(t) ==
    LET sh == shard[th[t].at] IN
    th[t].pc = "holding" /\ sh.valid =>
        /\ RecoveryOK(co, th[t].pressure, sh.bt1, sh.bt2, sh.seq)
        /\ OthersOK(CurEpoch, reclaims, t, th[t].pressure, sh.epoch, th[t].seen)

ThreadInv(t) ==
    LockInv(t) /\ BudgetInv(t) /\ SampleInv(t) /\ CarryInv(t) /\ HoldInv(t)

IndInv == TypeInv /\ CoInv /\ ShardInv /\ \A t \in Threads : ThreadInv(t)

-----------------------------------------------------------------------------
(* Steps of one goroutine beside the others                                *)

\* Nothing the coordinator keeps goes back, and a reading recorded below a tier
\* begins a recovery epoch of that tier.
CoAdvances ==
    /\ co.bt1 <= co'.bt1 /\ co.bt2 <= co'.bt2 /\ co.invokeSeq <= co'.invokeSeq
    /\ co'.bt1 = co.bt1 => co'.low1 = co.low1
    /\ co'.bt2 = co.bt2 => co'.low2 = co.low2

\* A reclamation begins an epoch.
EpochAdvances ==
    /\ CurEpoch <= CurEpoch' /\ externalEpoch[Coord] <= externalEpoch'[Coord]
    /\ CurEpoch' = CurEpoch => reclaims' = reclaims

\* What a step of t leaves to the other goroutines.
Beside(t) ==
    \A u \in Threads \ {t} :
        /\ th'[u] = th[u] /\ atReading'[u] = atReading[u]
        /\ \A n \in Nodes : u \in reentrant'[n] => u \in reentrant[n]
        /\ lastReentrant'[Coord] = u => lastReentrant[Coord] = u /\ reclaims' = reclaims
        /\ \A x \in Shards :
             /\ shard'[x].holder = u <=> shard[x].holder = u
             /\ shard[x].holder = u =>
                   /\ shard'[x].valid = shard[x].valid /\ shard'[x].epoch = shard[x].epoch
                   /\ shard'[x].bt1 = shard[x].bt1 /\ shard'[x].bt2 = shard[x].bt2
                   /\ shard'[x].seq = shard[x].seq

\* A sample keeps its place among the recoveries while the coordinator moves on,
LEMMA RecoveryKept ==
    ASSUME TypeInv, TypeInv', CoAdvances, NEW v, NEW b1 \in Nat, NEW b2 \in Nat, NEW q \in Nat,
           RecoveryOK(co, v, b1, b2, q)
    PROVE  RecoveryOK(co', v, b1, b2, q)
<1>1. /\ co.bt1 \in Nat /\ co.bt2 \in Nat /\ co.low1 \in Nat /\ co.low2 \in Nat
      /\ co'.bt1 \in Nat /\ co'.bt2 \in Nat /\ co'.low1 \in Nat /\ co'.low2 \in Nat
  BY DEF TypeInv, CoordinatorRecs
<1>. QED  BY <1>1 DEF CoAdvances, RecoveryOK

\* and among the reclamations.
LEMMA EpochKept ==
    ASSUME TypeInv, TypeInv', EpochAdvances, NEW t \in Threads, NEW v, NEW e \in Nat, NEW seen
    PROVE  /\ EpochOK(CurEpoch, reclaims, v, e, seen) => EpochOK(CurEpoch', reclaims', v, e, seen)
           /\ OthersOK(CurEpoch, reclaims, t, v, e, seen) =>
                 OthersOK(CurEpoch', reclaims', t, v, e, seen)
<1>1. CurEpoch \in Nat /\ CurEpoch' \in Nat
  BY SamplerAssumption DEF TypeInv, CurEpoch, Nodes
<1>. QED  BY <1>1 DEF EpochAdvances, EpochOK, OthersOK

\* So the part of the invariant that is about another goroutine survives a step.
LEMMA OthersKept ==
    ASSUME IndInv, TypeInv', CoAdvances, EpochAdvances, NEW t \in Threads, Beside(t),
           NEW u \in Threads \ {t}
    PROVE  ThreadInv(u)'
<1>1. /\ th'[u] = th[u] /\ atReading'[u] = atReading[u]
      /\ \A n \in Nodes : u \in reentrant'[n] => u \in reentrant[n]
      /\ lastReentrant'[Coord] = u => lastReentrant[Coord] = u /\ reclaims' = reclaims
      /\ \A x \in Shards :
             /\ shard'[x].holder = u <=> shard[x].holder = u
             /\ shard[x].holder = u =>
                   /\ shard'[x].valid = shard[x].valid /\ shard'[x].epoch = shard[x].epoch
                   /\ shard'[x].bt1 = shard[x].bt1 /\ shard'[x].bt2 = shard[x].bt2
                   /\ shard'[x].seq = shard[x].seq
  BY DEF Beside
<1>2. TypeInv /\ ThreadInv(u) /\ th[u] \in ThreadRecs /\ Coord \in Nodes
  BY DEF IndInv, TypeInv, Nodes
<1>3. LockInv(u)'
  BY <1>1, <1>2 DEF ThreadInv, LockInv
<1>4. BudgetInv(u)'
  BY <1>1, <1>2 DEF ThreadInv, BudgetInv, Fresh
<1>5. /\ th[u].s \in SampleRecs /\ th[u].carry \in CarryRecs
      /\ co.invokeSeq \in Nat /\ co'.invokeSeq \in Nat /\ CurEpoch \in Nat /\ CurEpoch' \in Nat
      /\ externalEpoch[Coord] \in Nat /\ externalEpoch'[Coord] \in Nat
  BY <1>2 DEF ThreadRecs, TypeInv, CoordinatorRecs, CurEpoch
<1>6. SampleInv(u)'
  <2>. DEFINE s == th[u].s
  <2>1. s.epoch \in Nat /\ s.ext \in Nat /\ s.seq \in Nat /\ s.bt1 \in Nat /\ s.bt2 \in Nat
    BY <1>5 DEF SampleRecs
  <2>2. /\ s.seq <= co.invokeSeq /\ RecoveryOK(co, s.val, s.bt1, s.bt2, s.seq)
        /\ EpochOK(CurEpoch, reclaims, s.val, s.epoch, s.seen)
        /\ (th[u].pc = "capture" /\ th[u].load > 2) \/ th[u].pc = "hook" =>
              /\ s.epoch = CurEpoch => atReading[u] = reclaims
              /\ s.ext <= externalEpoch[Coord]
        /\ th[u].pc = "capture" => s.val = 0
        /\ th[u].pc = "hook" => \A v \in Levels : RecoveryOK(co, v, s.bt1, s.bt2, s.seq)
        /\ \A n \in Nodes : u \in reentrant[n] => th[u].pc = "hook"
        /\ u \in reentrant[Coord] /\ lastReentrant[Coord] = u /\ externalEpoch[Coord] = s.ext =>
              atReading[u] = reclaims
    BY <1>2 DEF ThreadInv, SampleInv
  <2>. HIDE DEF s
  <2>3. /\ RecoveryOK(co', s.val, s.bt1, s.bt2, s.seq)
        /\ EpochOK(CurEpoch', reclaims', s.val, s.epoch, s.seen)
    BY <1>2, <2>1, <2>2, RecoveryKept, EpochKept
  <2>4. th[u].pc = "hook" => \A v \in Levels : RecoveryOK(co', v, s.bt1, s.bt2, s.seq)
    BY <1>2, <2>1, <2>2, RecoveryKept
  <2>5. s.epoch = CurEpoch' => s.epoch = CurEpoch /\ reclaims' = reclaims
    BY <1>5, <2>1, <2>2 DEF EpochOK, EpochAdvances
  <2>6. (th[u].pc = "capture" /\ th[u].load > 2) \/ th[u].pc = "hook" =>
              /\ s.epoch = CurEpoch' => atReading[u] = reclaims'
              /\ s.ext <= externalEpoch'[Coord]
    BY <1>5, <2>1, <2>2, <2>5 DEF EpochAdvances
  <2>7. /\ u \in reentrant'[Coord] /\ lastReentrant'[Coord] = u /\ externalEpoch'[Coord] = s.ext =>
              atReading[u] = reclaims'
        /\ s.seq <= co'.invokeSeq
    BY <1>1, <1>2, <1>5, <2>1, <2>2 DEF EpochAdvances, CoAdvances
  <2>8. s = th'[u].s
    BY <1>1 DEF s
  <2>. QED  BY <1>1, <2>2, <2>3, <2>4, <2>6, <2>7, <2>8 DEF SampleInv
<1>7. CarryInv(u)'
  <2>. DEFINE c == th[u].carry
  <2>1. c.epoch \in Nat /\ c.seq \in Nat /\ c.bt1 \in Nat /\ c.bt2 \in Nat
    BY <1>5 DEF CarryRecs
  <2>2. /\ RecoveryOK(co, c.val, c.bt1, c.bt2, c.seq)
        /\ OthersOK(CurEpoch, reclaims, u, c.val, c.epoch, c.seen)
    BY <1>2 DEF ThreadInv, CarryInv
  <2>3. c = th'[u].carry
    BY <1>1
  <2>. HIDE DEF c
  <2>4. /\ RecoveryOK(co', c.val, c.bt1, c.bt2, c.seq)
        /\ OthersOK(CurEpoch', reclaims', u, c.val, c.epoch, c.seen)
    BY <1>2, <2>1, <2>2, RecoveryKept, EpochKept
  <2>. QED  BY <2>3, <2>4 DEF CarryInv
<1>8. HoldInv(u)'
  <2>. DEFINE sh == shard[th[u].at]
  <2>. SUFFICES ASSUME th[u].pc = "holding", sh.valid, shard'[th[u].at].valid
                PROVE  HoldInv(u)'
    <3>1. th[u].pc = "holding" => th[u].at \in Shards /\ shard[th[u].at].holder = u
      BY <1>2 DEF ThreadInv, LockInv
    <3>. QED  BY <1>1, <3>1 DEF HoldInv
  <2>1. th[u].at \in Shards /\ sh.holder = u
    BY <1>2 DEF ThreadInv, LockInv
  <2>2. /\ sh.epoch \in Nat /\ sh.seq \in Nat /\ sh.bt1 \in Nat /\ sh.bt2 \in Nat
    BY <1>2, <2>1 DEF TypeInv, ShardRecs
  <2>3. /\ shard'[th[u].at].epoch = sh.epoch
        /\ shard'[th[u].at].bt1 = sh.bt1 /\ shard'[th[u].at].bt2 = sh.bt2
        /\ shard'[th[u].at].seq = sh.seq
    BY <1>1, <2>1
  <2>4. /\ RecoveryOK(co, th[u].pressure, sh.bt1, sh.bt2, sh.seq)
        /\ OthersOK(CurEpoch, reclaims, u, th[u].pressure, sh.epoch, th[u].seen)
    BY <1>2 DEF ThreadInv, HoldInv
  <2>. HIDE DEF sh
  <2>5. /\ RecoveryOK(co', th[u].pressure, sh.bt1, sh.bt2, sh.seq)
        /\ OthersOK(CurEpoch', reclaims', u, th[u].pressure, sh.epoch, th[u].seen)
    BY <1>2, <2>2, <2>4, RecoveryKept, EpochKept
  <2>. QED  BY <1>1, <2>3, <2>5 DEF HoldInv
<1>. QED  BY <1>3, <1>4, <1>6, <1>7, <1>8 DEF ThreadInv


-----------------------------------------------------------------------------
(* What the operators return                                               *)

\* A reading below neither tier's last recovery: acting on it undoes none.
NotUndone(c, val, seq) ==
    (val = Tier2 => c.low2 <= seq) /\ (val = Tier1 => c.low1 <= seq)

\* The fields of a shard that date the sample it has applied.
SameSample(a, b) ==
    /\ a.holder = b.holder /\ a.valid = b.valid /\ a.epoch = b.epoch
    /\ a.bt1 = b.bt1 /\ a.bt2 = b.bt2 /\ a.seq = b.seq

\* The null samples are well typed.
LEMMA NullTypes ==
    /\ NeverSeen \in Counts /\ NoSample \in SampleRecs /\ NoCarry \in CarryRecs
    /\ Idle \in ThreadRecs /\ NoShardSample \in ShardRecs /\ Coordinator \in CoordinatorRecs
<1>1. NeverSeen \in Counts
  BY DEF NeverSeen, Counts
<1>2. NoSample \in SampleRecs
  BY <1>1 DEF NoSample, SampleRecs, Levels
<1>3. NoCarry \in CarryRecs
  BY <1>1 DEF NoCarry, CarryRecs, Levels
<1>4. Idle \in ThreadRecs
  BY <1>1, <1>2, <1>3 DEF Idle, ThreadRecs, Levels, Nodes, Stages
<1>5. NoShardSample \in ShardRecs
  BY DEF NoShardSample, ShardRecs
<1>6. Coordinator \in CoordinatorRecs
  BY <1>1 DEF Coordinator, CoordinatorRecs, Levels
<1>. QED  BY <1>1, <1>2, <1>3, <1>4, <1>5, <1>6

\* A null sample is never elevated, so nothing can be wrong with acting on it.
LEMMA NullOK ==
    ASSUME TypeInv, NEW t \in Threads
    PROVE  /\ RecoveryOK(co, NoSample.val, NoSample.bt1, NoSample.bt2, NoSample.seq)
           /\ EpochOK(CurEpoch, reclaims, NoSample.val, NoSample.epoch, NoSample.seen)
           /\ RecoveryOK(co, NoCarry.val, NoCarry.bt1, NoCarry.bt2, NoCarry.seq)
           /\ OthersOK(CurEpoch, reclaims, t, NoCarry.val, NoCarry.epoch, NoCarry.seen)
<1>1. co.bt1 \in Nat /\ co.bt2 \in Nat /\ CurEpoch \in Nat
  BY DEF TypeInv, CoordinatorRecs, CurEpoch, Nodes
<1>. QED  BY <1>1 DEF NoSample, NoCarry, RecoveryOK, EpochOK, OthersOK, Tier1, Tier2

\* syncZeroWatermarkLocked: a sample older than the shard's leaves it without one.
LEMMA AppliedFacts ==
    ASSUME shard \in [Shards -> ShardRecs], NEW x \in Shards, NEW epoch \in Nat,
           NEW bt1 \in Nat, NEW bt2 \in Nat, NEW seq \in Nat
    PROVE  LET a == Applied(x, epoch, bt1, bt2, seq) IN
           /\ a \in ShardRecs /\ a.holder = shard[x].holder /\ a.epoch = epoch
           /\ a.valid => a.seq = seq
           /\ a.bt1 \in {shard[x].bt1, bt1} /\ a.bt2 \in {shard[x].bt2, bt2}
<1>. DEFINE o == shard[x]
<1>1. o \in ShardRecs
  OBVIOUS
<1>2. /\ o.bt1 \in Nat /\ o.bt2 \in Nat /\ o.seq \in Nat
  BY <1>1 DEF ShardRecs
<1>. HIDE DEF o
<1>3. CASE seq < o.seq
  <2>1. Applied(x, epoch, bt1, bt2, seq) = [o EXCEPT !.valid = FALSE, !.epoch = epoch, !.appPub = 0]
    BY <1>3 DEF Applied, o
  <2>2. [o EXCEPT !.valid = FALSE, !.epoch = epoch, !.appPub = 0] \in ShardRecs
    BY <1>1 DEF ShardRecs
  <2>3. LET a == [o EXCEPT !.valid = FALSE, !.epoch = epoch, !.appPub = 0] IN
        /\ a.holder = o.holder /\ a.epoch = epoch /\ a.valid = FALSE /\ a.bt1 = o.bt1 /\ a.bt2 = o.bt2
    BY <1>1 DEF ShardRecs
  <2>. QED  BY <2>1, <2>2, <2>3 DEF o
<1>4. CASE ~(seq < o.seq)
  <2>. DEFINE b1 == Larger(o.bt1, bt1)
              b2 == Larger(o.bt2, bt2)
              a == [o EXCEPT !.valid = TRUE, !.epoch = epoch, !.appPub = 0,
                             !.bt1 = b1, !.bt2 = b2, !.seq = seq]
  <2>1. Applied(x, epoch, bt1, bt2, seq) = a
    BY <1>4 DEF Applied, o
  <2>2. b1 \in {o.bt1, bt1} /\ b2 \in {o.bt2, bt2} /\ b1 \in Nat /\ b2 \in Nat
    BY <1>2 DEF Larger
  <2>. HIDE DEF b1, b2
  <2>3. a \in ShardRecs
    BY <1>1, <2>2 DEF ShardRecs
  <2>4. /\ a.holder = o.holder /\ a.epoch = epoch /\ a.seq = seq /\ a.bt1 = b1 /\ a.bt2 = b2
    BY <1>1 DEF ShardRecs
  <2>. QED  BY <2>1, <2>2, <2>3, <2>4 DEF o
<1>. QED  BY <1>3, <1>4

\* The publication reused later is bookkeeping beside the sample itself.
LEMMA ReusableFacts ==
    ASSUME NEW sh \in ShardRecs, co.pubSeq \in Nat, NEW m, NEW seq \in Nat, NEW val \in Levels
    PROVE  /\ Reusable(sh, m, seq, val) \in ShardRecs
           /\ SameSample(Reusable(sh, m, seq, val), sh)
<1>1. CASE val < Tier1
  <2>1. val = 0
    BY <1>1 DEF Levels, Tier1
  <2>. DEFINE a == [sh EXCEPT !.appPub = co.pubSeq, !.appSeq = seq, !.appVal = val]
              b == [sh EXCEPT !.appPub = 0]
  <2>2. a \in ShardRecs /\ b \in ShardRecs
    BY <2>1 DEF ShardRecs
  <2>3. SameSample(a, sh) /\ SameSample(b, sh)
    BY DEF ShardRecs, SameSample
  <2>4. Reusable(sh, m, seq, val) \in {a, b}
    BY DEF Reusable
  <2>. QED  BY <2>2, <2>3, <2>4
<1>2. CASE ~(val < Tier1)
  <2>1. Reusable(sh, m, seq, val) = [sh EXCEPT !.appPub = 0]
    BY <1>2 DEF Reusable
  <2>. QED  BY <2>1 DEF ShardRecs, SameSample
<1>. QED  BY <1>1, <1>2

\* advanceLocalWriteSeqLocked leaves the sample alone, as does clearing the flag.
LEMMA AdvanceFacts ==
    ASSUME NEW sh \in ShardRecs
    PROVE  /\ AdvanceWrites(sh) \in ShardRecs /\ SameSample(AdvanceWrites(sh), sh)
           /\ [sh EXCEPT !.due = FALSE] \in ShardRecs /\ SameSample([sh EXCEPT !.due = FALSE], sh)
<1>. DEFINE n == (sh.writes + 1) % Window
            d == sh.due \/ n = 0
<1>1. sh.writes \in Nat /\ Window \in Nat \ {0}
  BY SamplerAssumption DEF ShardRecs
<1>2. n \in Nat
  BY <1>1
<1>3. d \in BOOLEAN
  OBVIOUS
<1>4. AdvanceWrites(sh) = [sh EXCEPT !.writes = n, !.due = d]
  BY DEF AdvanceWrites
<1>. HIDE DEF n, d
<1>5. [sh EXCEPT !.writes = n, !.due = d] \in ShardRecs /\ [sh EXCEPT !.due = FALSE] \in ShardRecs
  BY <1>2, <1>3 DEF ShardRecs
<1>6. SameSample([sh EXCEPT !.writes = n, !.due = d], sh) /\ SameSample([sh EXCEPT !.due = FALSE], sh)
  BY DEF ShardRecs, SameSample
<1>. QED  BY <1>4, <1>5, <1>6

\* The goroutine that has the lock, with the sample it was given.
LEMMA HoldingFacts ==
    ASSUME TypeInv, NEW t \in Threads, NEW s, s.val \in Levels, s.seq \in Nat, s.seen \in Counts,
           NEW fb \in BOOLEAN
    PROVE  LET h == Holding(t, s, fb) IN
           /\ h \in ThreadRecs
           /\ h.pc = "holding" /\ h.kind = th[t].kind /\ h.at = th[t].at /\ h.todo = th[t].todo
           /\ h.s = NoSample /\ h.path = th[t].path /\ h.load = th[t].load
           /\ h.same = th[t].same /\ h.cross = th[t].cross /\ h.samplings = th[t].samplings
           /\ h.pressure = s.val /\ h.seq = s.seq /\ h.seen = s.seen /\ h.fallback = fb
           /\ h.carry = th[t].carry
<1>1. th[t] \in ThreadRecs
  BY DEF TypeInv
<1>2. "holding" \in Stages
  BY DEF Stages
<1>. DEFINE a == s.val
            b == s.seq
            c == s.seen
            h == [th[t] EXCEPT !.pc = "holding", !.s = NoSample, !.pressure = a,
                  !.seq = b, !.seen = c, !.fallback = fb]
<1>3. Holding(t, s, fb) = h
  BY DEF Holding
<1>4. a \in Levels /\ b \in Nat /\ c \in Counts /\ a = s.val /\ b = s.seq /\ c = s.seen
  OBVIOUS
<1>. HIDE DEF a, b, c
<1>5. h \in ThreadRecs
  BY <1>1, <1>2, <1>4, NullTypes DEF ThreadRecs
<1>6. /\ h.pc = "holding" /\ h.kind = th[t].kind /\ h.at = th[t].at /\ h.todo = th[t].todo
      /\ h.s = NoSample /\ h.path = th[t].path /\ h.load = th[t].load
      /\ h.same = th[t].same /\ h.cross = th[t].cross /\ h.samplings = th[t].samplings
      /\ h.pressure = a /\ h.seq = b /\ h.seen = c /\ h.fallback = fb
      /\ h.carry = th[t].carry
  BY <1>1 DEF ThreadRecs
<1>. QED  BY <1>3, <1>4, <1>5, <1>6

\* The goroutine that goes for a reading.
LEMMA SamplingFacts ==
    ASSUME TypeInv, NEW t \in Threads, NEW path \in {"slow", "miss"}
    PROVE  LET h == Sampling(t, path) IN
           /\ h \in ThreadRecs
           /\ h.pc = "capture" /\ h.kind = th[t].kind /\ h.at = th[t].at /\ h.todo = th[t].todo
           /\ h.s = NoSample /\ h.path = path /\ h.load = 1
           /\ h.same = th[t].same /\ h.cross = th[t].cross
           /\ h.samplings = th[t].samplings + 1 /\ h.carry = th[t].carry
<1>1. th[t] \in ThreadRecs
  BY DEF TypeInv
<1>2. "capture" \in Stages /\ 1 \in 0..4
  BY DEF Stages, Reading
<1>. DEFINE a == th[t].samplings + 1
            h == [th[t] EXCEPT !.pc = "capture", !.load = 1, !.path = path, !.s = NoSample,
                  !.samplings = a]
<1>3. Sampling(t, path) = h
  BY DEF Sampling
<1>4. a \in Nat
  BY <1>1 DEF ThreadRecs
<1>5. a = th[t].samplings + 1
  OBVIOUS
<1>. HIDE DEF a
<1>6. h \in ThreadRecs
  BY <1>1, <1>2, <1>4, NullTypes DEF ThreadRecs
<1>7. /\ h.pc = "capture" /\ h.kind = th[t].kind /\ h.at = th[t].at /\ h.todo = th[t].todo
      /\ h.s = NoSample /\ h.path = path /\ h.load = 1
      /\ h.same = th[t].same /\ h.cross = th[t].cross
      /\ h.samplings = a /\ h.carry = th[t].carry
  BY <1>1 DEF ThreadRecs
<1>. QED  BY <1>3, <1>5, <1>6, <1>7


-----------------------------------------------------------------------------
(* Steps                                                                   *)

\* What a step of t may do to the shards: it leaves the sample of a held one alone,
\* and takes none on behalf of another goroutine.
ShardStep(t) ==
    /\ shard' \in [Shards -> ShardRecs]
    /\ \A x \in Shards :
         /\ shard'[x].bt1 <= co'.bt1 /\ shard'[x].bt2 <= co'.bt2
         /\ shard[x].holder # Nobody => SameSample(shard'[x], shard[x])
         /\ shard[x].holder = Nobody => shard'[x].holder \in {Nobody, t}

\* The coordinator's part of a step.
CoStep == co' \in CoordinatorRecs /\ CoAdvances /\ CoInv'

\* A step of one goroutine preserves the invariant if it preserves that goroutine's
\* part and the shared part and goes by the others.
LEMMA Assemble ==
    ASSUME IndInv, NEW t \in Threads, TypeInv', CoInv', ShardInv', CoAdvances, EpochAdvances,
           Beside(t), ThreadInv(t)'
    PROVE  IndInv'
<1>1. \A u \in Threads \ {t} : ThreadInv(u)'
  BY OthersKept
<1>. QED  BY <1>1 DEF IndInv

\* The same for a step that reclaims nothing.
LEMMA LocalStep ==
    ASSUME IndInv, NEW t \in Threads, NEW r \in ThreadRecs, UNCHANGED epochs, CoStep,
           started' \in Nat, th' = [th EXCEPT ![t] = r], ShardStep(t), ThreadInv(t)'
    PROVE  IndInv'
<1>1. TypeInv
  BY DEF IndInv
<1>2. th' \in [Threads -> ThreadRecs]
  BY <1>1 DEF TypeInv
<1>3. TypeInv'
  BY <1>1, <1>2 DEF TypeInv, epochs, CoStep, ShardStep
<1>4. ShardInv'
  BY DEF ShardStep, ShardInv
<1>5. CurEpoch \in Nat /\ externalEpoch[Coord] \in Nat /\ CurEpoch' = CurEpoch
  BY <1>1 DEF TypeInv, CurEpoch, Nodes, epochs
<1>6. EpochAdvances
  BY <1>5 DEF EpochAdvances, epochs
<1>7. Beside(t)
  <2>. SUFFICES ASSUME NEW u \in Threads \ {t}
                PROVE  /\ th'[u] = th[u] /\ atReading'[u] = atReading[u]
                       /\ \A n \in Nodes : u \in reentrant'[n] => u \in reentrant[n]
                       /\ lastReentrant'[Coord] = u => lastReentrant[Coord] = u /\ reclaims' = reclaims
                       /\ \A x \in Shards :
                            /\ shard'[x].holder = u <=> shard[x].holder = u
                            /\ shard[x].holder = u => SameSample(shard'[x], shard[x])
    BY DEF Beside, SameSample
  <2>1. th'[u] = th[u]
    BY <1>1 DEF TypeInv
  <2>2. u # Nobody
    BY SamplerAssumption
  <2>3. ASSUME NEW x \in Shards
        PROVE  /\ shard'[x].holder = u <=> shard[x].holder = u
               /\ shard[x].holder = u => SameSample(shard'[x], shard[x])
    <3>1. /\ shard[x].holder # Nobody => SameSample(shard'[x], shard[x])
          /\ shard[x].holder = Nobody => shard'[x].holder \in {Nobody, t}
      BY DEF ShardStep
    <3>. QED  BY <2>2, <3>1 DEF SameSample
  <2>. QED  BY <2>1, <2>3 DEF epochs
<1>. QED  BY <1>3, <1>4, <1>6, <1>7, Assemble DEF CoStep

\* The null sample stays harmless whatever the coordinator does.
LEMMA NullKept ==
    ASSUME TypeInv, TypeInv', CoAdvances, EpochAdvances, NEW t \in Threads
    PROVE  /\ RecoveryOK(co', NoSample.val, NoSample.bt1, NoSample.bt2, NoSample.seq)
           /\ EpochOK(CurEpoch', reclaims', NoSample.val, NoSample.epoch, NoSample.seen)
           /\ RecoveryOK(co', NoCarry.val, NoCarry.bt1, NoCarry.bt2, NoCarry.seq)
           /\ OthersOK(CurEpoch', reclaims', t, NoCarry.val, NoCarry.epoch, NoCarry.seen)
<1>1. /\ NoSample.bt1 \in Nat /\ NoSample.bt2 \in Nat /\ NoSample.seq \in Nat /\ NoSample.epoch \in Nat
      /\ NoCarry.bt1 \in Nat /\ NoCarry.bt2 \in Nat /\ NoCarry.seq \in Nat /\ NoCarry.epoch \in Nat
  BY DEF NoSample, NoCarry
<1>2. /\ RecoveryOK(co, NoSample.val, NoSample.bt1, NoSample.bt2, NoSample.seq)
      /\ EpochOK(CurEpoch, reclaims, NoSample.val, NoSample.epoch, NoSample.seen)
      /\ RecoveryOK(co, NoCarry.val, NoCarry.bt1, NoCarry.bt2, NoCarry.seq)
      /\ OthersOK(CurEpoch, reclaims, t, NoCarry.val, NoCarry.epoch, NoCarry.seen)
  BY NullOK
<1>3. /\ RecoveryOK(co', NoSample.val, NoSample.bt1, NoSample.bt2, NoSample.seq)
      /\ RecoveryOK(co', NoCarry.val, NoCarry.bt1, NoCarry.bt2, NoCarry.seq)
  BY <1>1, <1>2, RecoveryKept
<1>4. /\ EpochOK(CurEpoch', reclaims', NoSample.val, NoSample.epoch, NoSample.seen)
      /\ OthersOK(CurEpoch', reclaims', t, NoCarry.val, NoCarry.epoch, NoCarry.seen)
  BY <1>1, <1>2, EpochKept
<1>. QED  BY <1>3, <1>4

\* A goroutine that is not inside PressureFunc, and has no sample.
LEMMA NoSampleInv ==
    ASSUME TypeInv, TypeInv', CoAdvances, EpochAdvances, NEW t \in Threads, th'[t].s = NoSample,
           th'[t].pc # "hook", th'[t].pc = "capture" => th'[t].load = 1,
           \A n \in Nodes : t \notin reentrant'[n]
    PROVE  SampleInv(t)'
<1>1. /\ RecoveryOK(co', NoSample.val, NoSample.bt1, NoSample.bt2, NoSample.seq)
      /\ EpochOK(CurEpoch', reclaims', NoSample.val, NoSample.epoch, NoSample.seen)
  BY NullKept
<1>2. NoSample.seq <= co'.invokeSeq
  BY DEF NoSample, TypeInv, CoordinatorRecs
<1>3. ~(th'[t].pc = "capture" /\ th'[t].load > 2)
  OBVIOUS
<1>4. NoSample.val = 0 /\ Coord \in Nodes
  BY DEF NoSample, Nodes
<1>. QED  BY <1>1, <1>2, <1>3, <1>4 DEF SampleInv

\* Only a goroutine inside PressureFunc has reclaimed from there.
LEMMA NotInside ==
    ASSUME IndInv, NEW t \in Threads, th[t].pc # "hook"
    PROVE  \A n \in Nodes : t \notin reentrant[n]
BY DEF IndInv, ThreadInv, SampleInv

\* What a goroutine that takes a shard lock with the sample s becomes, c being the
\* sample it carries.
HoldsWith(t, r, s, c) ==
    /\ r \in ThreadRecs
    /\ r.pc = "holding" /\ r.kind = th[t].kind /\ r.at = th[t].at /\ r.todo = th[t].todo
    /\ r.s = NoSample /\ r.same = th[t].same /\ r.cross = th[t].cross
    /\ r.samplings = th[t].samplings
    /\ r.pressure = s.val /\ r.seq = s.seq /\ r.seen = s.seen /\ r.carry = c

\* A goroutine takes a shard lock with a sample that no recovery and no reclamation
\* of another goroutine has overtaken.
LEMMA AcquireStep ==
    ASSUME IndInv, NEW t \in Threads, NEW r, NEW a \in ShardRecs, NEW s, NEW c \in CarryRecs,
           th[t].pc \notin {"idle", "holding", "hook"},
           UNCHANGED <<epochs, started>>, CoStep,
           Acquire(th[t].at, t, a), th' = [th EXCEPT ![t] = r], HoldsWith(t, r, s, c),
           a.bt1 <= co'.bt1 /\ a.bt2 <= co'.bt2,
           a.valid => /\ NotUndone(co', s.val, a.seq)
                      /\ OthersOK(CurEpoch, reclaims, t, s.val, a.epoch, s.seen),
           RecoveryOK(co, c.val, c.bt1, c.bt2, c.seq),
           OthersOK(CurEpoch, reclaims, t, c.val, c.epoch, c.seen)
    PROVE  IndInv'
<1>. DEFINE x == th[t].at
            b == [a EXCEPT !.holder = t]
<1>1. TypeInv /\ ThreadInv(t) /\ th'[t] = r /\ r \in ThreadRecs
  BY DEF IndInv, TypeInv, HoldsWith
<1>2. x \in Shards
  BY <1>1 DEF ThreadInv, LockInv
<1>3. /\ b \in ShardRecs /\ b.holder = t /\ b.valid = a.valid /\ b.epoch = a.epoch
      /\ b.bt1 = a.bt1 /\ b.bt2 = a.bt2 /\ b.seq = a.seq
  BY DEF ShardRecs
<1>4. shard' = [shard EXCEPT ![x] = b] /\ shard[x].holder = Nobody
  BY DEF Acquire
<1>. HIDE DEF b
<1>5. shard' \in [Shards -> ShardRecs] /\ shard'[x] = b /\ \A y \in Shards \ {x} : shard'[y] = shard[y]
  BY <1>1, <1>2, <1>3, <1>4 DEF TypeInv
<1>6. ShardStep(t)
  <2>1. shard'[x].bt1 <= co'.bt1 /\ shard'[x].bt2 <= co'.bt2
    BY <1>3, <1>5
  <2>2. ASSUME NEW y \in Shards \ {x}
        PROVE  shard'[y].bt1 <= co'.bt1 /\ shard'[y].bt2 <= co'.bt2
    <3>1. shard[y].bt1 <= co.bt1 /\ shard[y].bt2 <= co.bt2 /\ shard[y] \in ShardRecs
      BY <1>1 DEF IndInv, ShardInv, TypeInv
    <3>2. shard[y].bt1 \in Nat /\ shard[y].bt2 \in Nat /\ co.bt1 \in Nat /\ co.bt2 \in Nat
          /\ co'.bt1 \in Nat /\ co'.bt2 \in Nat /\ co.bt1 <= co'.bt1 /\ co.bt2 <= co'.bt2
      BY <1>1, <3>1 DEF ShardRecs, CoStep, TypeInv, CoordinatorRecs, CoAdvances
    <3>. QED  BY <1>5, <3>1, <3>2
  <2>3. ASSUME NEW y \in Shards
        PROVE  /\ shard[y].holder # Nobody => SameSample(shard'[y], shard[y])
               /\ shard[y].holder = Nobody => shard'[y].holder \in {Nobody, t}
    BY <1>3, <1>4, <1>5 DEF SameSample
  <2>. QED  BY <1>5, <2>1, <2>2, <2>3 DEF ShardStep
<1>7. TypeInv'
  <2>1. th' \in [Threads -> ThreadRecs]
    BY <1>1 DEF TypeInv
  <2>. QED  BY <1>1, <1>5, <2>1 DEF TypeInv, epochs, CoStep
<1>8. CurEpoch' = CurEpoch /\ reclaims' = reclaims /\ EpochAdvances
  <2>1. CurEpoch \in Nat /\ externalEpoch[Coord] \in Nat /\ CurEpoch' = CurEpoch
    BY <1>1 DEF TypeInv, CurEpoch, Nodes, epochs
  <2>. QED  BY <2>1 DEF epochs, EpochAdvances
<1>9. LockInv(t)'
  <2>1. \A y \in Shards \ {x} : shard[y].holder # t
    BY <1>1 DEF ThreadInv, LockInv
  <2>2. r.at = x /\ r.pc = "holding"
    BY DEF HoldsWith
  <2>. QED  BY <1>1, <1>2, <1>3, <1>5, <2>1, <2>2 DEF LockInv
<1>10. BudgetInv(t)'
  <2>1. /\ th[t].same <= MaxSameShardRetries /\ th[t].cross <= MaxCrossShardRetries
        /\ th[t].samplings <= (IF Custom \/ Fresh(t) THEN 1 ELSE 2) + th[t].same + th[t].cross
    BY <1>1 DEF ThreadInv, BudgetInv
  <2>2. /\ r.pc = "holding" /\ r.kind = th[t].kind /\ r.same = th[t].same /\ r.cross = th[t].cross
        /\ r.samplings = th[t].samplings
    BY DEF HoldsWith
  <2>. QED  BY <1>1, <2>1, <2>2 DEF BudgetInv, Reading, Fresh
<1>11. SampleInv(t)'
  <2>1. \A n \in Nodes : t \notin reentrant'[n]
    BY NotInside DEF epochs
  <2>2. r.s = NoSample /\ r.pc = "holding"
    BY DEF HoldsWith
  <2>. QED  BY <1>1, <1>7, <1>8, <2>1, <2>2, NoSampleInv DEF CoStep
<1>12. CarryInv(t)'
  <2>1. c.bt1 \in Nat /\ c.bt2 \in Nat /\ c.seq \in Nat
    BY DEF CarryRecs
  <2>2. RecoveryOK(co', c.val, c.bt1, c.bt2, c.seq)
    BY <1>1, <1>7, <2>1, RecoveryKept DEF CoStep
  <2>3. r.carry = c
    BY DEF HoldsWith
  <2>. QED  BY <1>1, <1>8, <2>2, <2>3 DEF CarryInv
<1>13. HoldInv(t)'
  <2>1. r.at = x /\ r.pressure = s.val /\ r.seen = s.seen
    BY DEF HoldsWith
  <2>2. a.valid => RecoveryOK(co', s.val, a.bt1, a.bt2, a.seq)
    BY DEF RecoveryOK, NotUndone
  <2>. QED  BY <1>1, <1>2, <1>3, <1>5, <1>8, <2>1, <2>2 DEF HoldInv
<1>14. ThreadInv(t)'
  BY <1>9, <1>10, <1>11, <1>12, <1>13 DEF ThreadInv
<1>15. started' \in Nat /\ UNCHANGED epochs
  BY <1>1 DEF TypeInv
<1>. QED  BY <1>1, <1>6, <1>14, <1>15, LocalStep


-----------------------------------------------------------------------------
(* Taking a shard lock                                                     *)

\* What ElevatedIsCurrent, RecoveryNotUndone and SamplesAdvance say of t.
NotOvertaken(t) ==
    \/ \A u \in Threads \ {t} : reclaims[u] = th'[t].seen[u]
    \/ /\ th'[t].fallback
       /\ th[t].cross = MaxCrossShardRetries
       /\ reclaimEpoch[th[t].at] = th[t].s.shardEpoch

AcquireFacts(t) ==
    Acquires(t) =>
        /\ th'[t].seq # 0 => th'[t].seq >= shard[th[t].at].seq
        /\ NotUndone(co, th'[t].pressure, th'[t].seq)
        /\ th'[t].pressure >= Tier1 => NotOvertaken(t)

\* A step that leaves the coordinator alone.
LEMMA CoSame ==
    ASSUME IndInv, UNCHANGED <<epochs, co>>
    PROVE  CoStep
<1>1. co \in CoordinatorRecs
  BY DEF IndInv, TypeInv
<1>2. CoAdvances
  BY <1>1 DEF CoAdvances, CoordinatorRecs
<1>3. CoInv'
  BY DEF IndInv, CoInv, epochs, CurEpoch
<1>. QED  BY <1>1, <1>2, <1>3 DEF CoStep

\* isSampleRecoveryStale: a sample whose recovery epoch is not over undoes nothing.
LEMMA NotStale ==
    ASSUME TypeInv, NEW v, NEW b1 \in Nat, NEW b2 \in Nat, NEW q \in Nat,
           RecoveryOK(co, v, b1, b2, q), ~IsSampleRecoveryStale(v, b1, b2)
    PROVE  NotUndone(co, v, q)
<1>1. co.bt1 \in Nat /\ co.bt2 \in Nat
  BY DEF TypeInv, CoordinatorRecs
<1>. QED  BY <1>1 DEF RecoveryOK, IsSampleRecoveryStale, NotUndone

\* A sample that has seen every reclamation has seen those of the others.
LEMMA EpochOthers ==
    ASSUME NEW cur, NEW made, NEW t, NEW v, NEW e, NEW seen, EpochOK(cur, made, v, e, seen)
    PROVE  OthersOK(cur, made, t, v, e, seen)
BY DEF EpochOK, OthersOK

\* A valid cached sample.
LEMMA CachedFacts ==
    ASSUME IndInv, NEW t \in Threads
    PROVE  /\ Cached.val = co.cVal /\ Cached.seq = co.cSeq /\ Cached.seen = co.cSeen
           /\ Cached.epoch = co.cEpoch /\ Cached.bt1 = co.cBt1 /\ Cached.bt2 = co.cBt2
           /\ co.cVal \in Levels /\ co.cSeq \in Nat /\ co.cSeen \in Counts /\ co.cBt1 \in Nat
           /\ co.cBt2 \in Nat /\ co.cEpoch \in Nat /\ CurEpoch \in Nat
           /\ co.cBt1 <= co.bt1 /\ co.cBt2 <= co.bt2
           /\ RecoveryOK(co, co.cVal, co.cBt1, co.cBt2, co.cSeq)
           /\ ~IsSampleRecoveryStale(co.cVal, co.cBt1, co.cBt2) => NotUndone(co, co.cVal, co.cSeq)
           /\ EpochOK(CurEpoch, reclaims, co.cVal, co.cEpoch, co.cSeen)
           /\ OthersOK(CurEpoch, reclaims, t, co.cVal, co.cEpoch, co.cSeen)
<1>1. /\ Cached.val = co.cVal /\ Cached.seq = co.cSeq /\ Cached.seen = co.cSeen
      /\ Cached.epoch = co.cEpoch /\ Cached.bt1 = co.cBt1 /\ Cached.bt2 = co.cBt2
  BY DEF Cached
<1>2. /\ co.cVal \in Levels /\ co.cSeq \in Nat /\ co.cSeen \in Counts /\ co.cBt1 \in Nat
      /\ co.cBt2 \in Nat /\ co.cEpoch \in Nat /\ CurEpoch \in Nat /\ TypeInv
  BY DEF IndInv, TypeInv, CoordinatorRecs, CurEpoch, Nodes
<1>3. /\ RecoveryOK(co, co.cVal, co.cBt1, co.cBt2, co.cSeq)
      /\ EpochOK(CurEpoch, reclaims, co.cVal, co.cEpoch, co.cSeen)
  BY DEF IndInv, CoInv
<1>4. co.cBt1 <= co.bt1 /\ co.cBt2 <= co.bt2
  BY <1>3 DEF RecoveryOK
<1>5. ~IsSampleRecoveryStale(co.cVal, co.cBt1, co.cBt2) => NotUndone(co, co.cVal, co.cSeq)
  BY <1>2, <1>3, NotStale
<1>6. OthersOK(CurEpoch, reclaims, t, co.cVal, co.cEpoch, co.cSeen)
  BY <1>3, EpochOthers
<1>. QED  BY <1>1, <1>2, <1>3, <1>4, <1>5, <1>6

\* A goroutine takes its shard's lock and applies the sample s, dated epoch, bt1, bt2.
LEMMA ApplyStep ==
    ASSUME IndInv, NEW t \in Threads, NEW r, NEW a \in ShardRecs, NEW s, NEW c \in CarryRecs,
           NEW epoch \in Nat, NEW bt1 \in Nat, NEW bt2 \in Nat, s.seq \in Nat,
           th[t].pc \notin {"idle", "holding", "hook"},
           UNCHANGED <<epochs, started>>, CoStep,
           SameSample(a, Applied(th[t].at, epoch, bt1, bt2, s.seq)),
           Acquire(th[t].at, t, a), th' = [th EXCEPT ![t] = r], HoldsWith(t, r, s, c),
           bt1 <= co'.bt1 /\ bt2 <= co'.bt2, NotUndone(co', s.val, s.seq),
           OthersOK(CurEpoch, reclaims, t, s.val, epoch, s.seen),
           RecoveryOK(co, c.val, c.bt1, c.bt2, c.seq),
           OthersOK(CurEpoch, reclaims, t, c.val, c.epoch, c.seen)
    PROVE  IndInv'
<1>. DEFINE x == th[t].at
            b == Applied(x, epoch, bt1, bt2, s.seq)
<1>1. TypeInv /\ x \in Shards
  BY DEF IndInv, ThreadInv, LockInv
<1>2. /\ b.epoch = epoch
      /\ b.valid => b.seq = s.seq
      /\ b.bt1 \in {shard[x].bt1, bt1} /\ b.bt2 \in {shard[x].bt2, bt2}
  <2>1. shard \in [Shards -> ShardRecs]
    BY <1>1 DEF TypeInv
  <2>2. PICK q \in Nat : q = s.seq
    OBVIOUS
  <2>. HIDE DEF x
  <2>3. LET d == Applied(x, epoch, bt1, bt2, q) IN
        /\ d.epoch = epoch
        /\ d.valid => d.seq = q
        /\ d.bt1 \in {shard[x].bt1, bt1} /\ d.bt2 \in {shard[x].bt2, bt2}
    BY <1>1, <2>1, AppliedFacts, SMTT(40)
  <2>. QED  BY <2>2, <2>3
<1>. HIDE DEF b
<1>3. /\ shard[x].bt1 \in Nat /\ shard[x].bt2 \in Nat /\ co.bt1 \in Nat /\ co.bt2 \in Nat
      /\ co'.bt1 \in Nat /\ co'.bt2 \in Nat /\ co.bt1 <= co'.bt1 /\ co.bt2 <= co'.bt2
      /\ shard[x].bt1 <= co.bt1 /\ shard[x].bt2 <= co.bt2
  BY <1>1 DEF TypeInv, ShardRecs, CoordinatorRecs, CoStep, CoAdvances, IndInv, ShardInv
<1>4. /\ a.valid = b.valid /\ a.epoch = b.epoch /\ a.bt1 = b.bt1 /\ a.bt2 = b.bt2 /\ a.seq = b.seq
  BY DEF SameSample, b
<1>5. a.bt1 <= co'.bt1 /\ a.bt2 <= co'.bt2
  BY <1>2, <1>3, <1>4
<1>6. a.valid => /\ NotUndone(co', s.val, a.seq)
                 /\ OthersOK(CurEpoch, reclaims, t, s.val, a.epoch, s.seen)
  <2>1. a.epoch = epoch
    BY <1>2, <1>4
  <2>2. a.valid => a.seq = s.seq
    BY <1>2, <1>4
  <2>. QED  BY <2>1, <2>2
<1>. QED  BY <1>5, <1>6, AcquireStep

\* AcquireFacts from the sample a goroutine takes its lock with.
LEMMA AcquireFactsFrom ==
    ASSUME NEW t \in Threads, NEW r, NEW s, NEW c, HoldsWith(t, r, s, c), th'[t] = r,
           s.seq # 0 => s.seq >= shard[th[t].at].seq, NotUndone(co, s.val, s.seq),
           s.val >= Tier1 => \/ \A u \in Threads \ {t} : reclaims[u] = s.seen[u]
                             \/ /\ r.fallback /\ th[t].cross = MaxCrossShardRetries
                                /\ reclaimEpoch[th[t].at] = th[t].s.shardEpoch
    PROVE  AcquireFacts(t)
<1>1. r.pressure = s.val /\ r.seq = s.seq /\ r.seen = s.seen
  BY DEF HoldsWith
<1>. QED  BY <1>1 DEF AcquireFacts, NotOvertaken

\* A goroutine's own carry is as dated as it was.
LEMMA OwnCarry ==
    ASSUME IndInv, NEW t \in Threads
    PROVE  LET c == th[t].carry IN
           /\ c \in CarryRecs /\ RecoveryOK(co, c.val, c.bt1, c.bt2, c.seq)
           /\ OthersOK(CurEpoch, reclaims, t, c.val, c.epoch, c.seen)
<1>1. th[t].carry \in CarryRecs
  BY DEF IndInv, TypeInv, ThreadRecs
<1>. QED  BY <1>1 DEF IndInv, ThreadInv, CarryInv

\* Holding is what HoldsWith says.
LEMMA HoldingWith ==
    ASSUME TypeInv, NEW t \in Threads, NEW s, s.val \in Levels, s.seq \in Nat, s.seen \in Counts,
           NEW fb \in BOOLEAN
    PROVE  HoldsWith(t, Holding(t, s, fb), s, th[t].carry) /\ Holding(t, s, fb).fallback = fb
BY HoldingFacts DEF HoldsWith

\* What a lock step of t preserves and, if it takes the lock, what it acts on.
LockStep(t) == IndInv' /\ AcquireFacts(t)

\* canReuseAppliedLowPressureLocked: the sample of the window is used once more.
LEMMA FastReuseInductive ==
    ASSUME IndInv, NEW t \in Threads, FastReuse(t)
    PROVE  LockStep(t)
<1>. DEFINE x == th[t].at
            s == [val |-> shard[x].appVal, seq |-> shard[x].appSeq, seen |-> co.cSeen]
            a == AdvanceWrites(shard[x])
            c == th[t].carry
            r == Holding(t, s, FALSE)
<1>1. /\ th[t].pc = "fast" /\ CanReuse(x) /\ Acquire(x, t, a)
      /\ th' = [th EXCEPT ![t] = r] /\ UNCHANGED <<epochs, co, started>>
  BY DEF FastReuse
<1>2. TypeInv /\ x \in Shards /\ shard[x] \in ShardRecs /\ CoStep
  BY <1>1, CoSame DEF IndInv, TypeInv, ThreadInv, LockInv
<1>3. s.val = 0 /\ s.seq \in Nat /\ s.seen \in Counts /\ s.seq = shard[x].seq
  BY <1>1, <1>2, CachedFacts DEF ShardRecs, CanReuse
<1>4. HoldsWith(t, r, s, c)
  <2>. HIDE DEF s
  <2>1. s.val \in Levels
    BY <1>3 DEF Levels
  <2>. QED  BY <1>2, <1>3, <2>1, HoldingWith
<1>5. a \in ShardRecs /\ SameSample(a, shard[x])
  BY <1>2, AdvanceFacts
<1>6. c \in CarryRecs /\ RecoveryOK(co, c.val, c.bt1, c.bt2, c.seq)
      /\ OthersOK(CurEpoch, reclaims, t, c.val, c.epoch, c.seen)
  BY OwnCarry
<1>7. shard[x].bt1 <= co'.bt1 /\ shard[x].bt2 <= co'.bt2 /\ shard[x].epoch <= CurEpoch /\ th'[t] = r
  BY <1>1, <1>2 DEF IndInv, ShardInv, CanReuse, TypeInv, ShardRecs
<1>. HIDE DEF s, a, c, r
<1>8. /\ a.bt1 <= co'.bt1 /\ a.bt2 <= co'.bt2 /\ NotUndone(co', s.val, a.seq) /\ NotUndone(co, s.val, s.seq)
      /\ OthersOK(CurEpoch, reclaims, t, s.val, a.epoch, s.seen)
  BY <1>3, <1>5, <1>7 DEF SameSample, NotUndone, OthersOK, Tier1, Tier2
<1>9. IndInv'
  BY <1>1, <1>2, <1>4, <1>5, <1>6, <1>8, AcquireStep
<1>10. AcquireFacts(t)
  <2>1. s.val >= Tier1 => FALSE
    BY <1>3 DEF Tier1
  <2>2. s.seq # 0 => s.seq >= shard[x].seq
    BY <1>3
  <2>. QED  BY <1>4, <1>7, <1>8, <2>1, <2>2, AcquireFactsFrom
<1>. QED  BY <1>9, <1>10 DEF LockStep


\* The lock is taken with a sample s that is dated, current and not stale, co unchanged.
LEMMA TakeStep ==
    ASSUME IndInv, NEW t \in Threads, NEW r, NEW a \in ShardRecs, NEW s, NEW c \in CarryRecs,
           NEW epoch \in Nat, NEW bt1 \in Nat, NEW bt2 \in Nat, s.seq \in Nat,
           th[t].pc \notin {"idle", "holding", "hook"},
           UNCHANGED <<epochs, co, started>>,
           SameSample(a, Applied(th[t].at, epoch, bt1, bt2, s.seq)),
           Acquire(th[t].at, t, a), th' = [th EXCEPT ![t] = r], HoldsWith(t, r, s, c),
           epoch = CurEpoch, RecoveryOK(co, s.val, bt1, bt2, s.seq),
           ~IsSampleRecoveryStale(s.val, bt1, bt2),
           OthersOK(CurEpoch, reclaims, t, s.val, epoch, s.seen),
           s.seq # 0 => s.seq >= shard[th[t].at].seq,
           RecoveryOK(co, c.val, c.bt1, c.bt2, c.seq),
           OthersOK(CurEpoch, reclaims, t, c.val, c.epoch, c.seen)
    PROVE  LockStep(t)
<1>1. TypeInv /\ CoStep /\ co' = co
  BY CoSame DEF IndInv
<1>2. NotUndone(co, s.val, s.seq)
  <2>1. PICK q \in Nat : q = s.seq
    OBVIOUS
  <2>. QED  BY <1>1, <2>1, NotStale
<1>3. bt1 <= co'.bt1 /\ bt2 <= co'.bt2 /\ NotUndone(co', s.val, s.seq)
  BY <1>1, <1>2 DEF RecoveryOK
<1>4. IndInv'
  BY <1>1, <1>3, ApplyStep
<1>5. th'[t] = r
  BY <1>1 DEF TypeInv
<1>6. s.val >= Tier1 => \A u \in Threads \ {t} : reclaims[u] = s.seen[u]
  BY DEF OthersOK
<1>7. AcquireFacts(t)
  BY <1>2, <1>5, <1>6, AcquireFactsFrom
<1>. QED  BY <1>4, <1>7 DEF LockStep

\* The cached sample is adopted under the lock.
LEMMA AdoptStep ==
    ASSUME IndInv, NEW t \in Threads, NEW a \in ShardRecs,
           th[t].pc \notin {"idle", "holding", "hook"}, UNCHANGED <<epochs, co, started>>,
           SameSample(a, Applied(th[t].at, CurEpoch, co.cBt1, co.cBt2, co.cSeq)),
           Acquire(th[t].at, t, a), th' = [th EXCEPT ![t] = Holding(t, Cached, FALSE)],
           co.cEpoch = CurEpoch, ~IsSampleRecoveryStale(co.cVal, co.cBt1, co.cBt2),
           co.cSeq # 0 => co.cSeq >= shard[th[t].at].seq
    PROVE  LockStep(t)
<1>. DEFINE s == Cached
            c == th[t].carry
            r == Holding(t, s, FALSE)
<1>1. /\ s.val = co.cVal /\ s.seq = co.cSeq /\ s.seen = co.cSeen
      /\ co.cVal \in Levels /\ co.cSeq \in Nat /\ co.cSeen \in Counts
      /\ RecoveryOK(co, co.cVal, co.cBt1, co.cBt2, co.cSeq)
      /\ OthersOK(CurEpoch, reclaims, t, co.cVal, co.cEpoch, co.cSeen) /\ TypeInv
  BY CachedFacts DEF IndInv
<1>2. c \in CarryRecs /\ RecoveryOK(co, c.val, c.bt1, c.bt2, c.seq)
      /\ OthersOK(CurEpoch, reclaims, t, c.val, c.epoch, c.seen)
  BY OwnCarry
<1>3. PICK b1 \in Nat, b2 \in Nat, e \in Nat : b1 = co.cBt1 /\ b2 = co.cBt2 /\ e = CurEpoch
  BY CachedFacts
<1>. HIDE DEF s, c
<1>4. HoldsWith(t, r, s, c)
  BY <1>1, HoldingWith DEF c
<1>5. /\ th' = [th EXCEPT ![t] = r] /\ s.seq \in Nat
      /\ SameSample(a, Applied(th[t].at, e, b1, b2, s.seq))
      /\ RecoveryOK(co, s.val, b1, b2, s.seq) /\ ~IsSampleRecoveryStale(s.val, b1, b2)
      /\ OthersOK(CurEpoch, reclaims, t, s.val, e, s.seen) /\ e = CurEpoch
      /\ s.seq # 0 => s.seq >= shard[th[t].at].seq
  BY <1>1, <1>3 DEF s
<1>. HIDE DEF r
<1>. QED  BY <1>2, <1>4, <1>5, TakeStep

\* Adopting the cached sample, with the publication that later writes may reuse.
LEMMA AdoptedCachedFacts ==
    ASSUME IndInv, NEW x \in Shards
    PROVE  /\ AdoptedCached(x) \in ShardRecs
           /\ SameSample(AdoptedCached(x), Applied(x, CurEpoch, co.cBt1, co.cBt2, co.cSeq))
<1>. DEFINE b == Applied(x, CurEpoch, co.cBt1, co.cBt2, co.cSeq)
<1>1. PICK b1 \in Nat, b2 \in Nat, e \in Nat, q \in Nat, v \in Levels :
        b1 = co.cBt1 /\ b2 = co.cBt2 /\ e = CurEpoch /\ q = co.cSeq /\ v = co.cVal
  BY DEF IndInv, TypeInv, CoordinatorRecs, CurEpoch, Nodes
<1>2. shard \in [Shards -> ShardRecs] /\ co.pubSeq \in Nat
  BY DEF IndInv, TypeInv, CoordinatorRecs
<1>3. Applied(x, e, b1, b2, q) \in ShardRecs
  BY <1>2, AppliedFacts
<1>4. b \in ShardRecs /\ AdoptedCached(x) = Reusable(b, TRUE, q, v)
  BY <1>1, <1>3 DEF AdoptedCached
<1>. HIDE DEF b
<1>5. Reusable(b, TRUE, q, v) \in ShardRecs /\ SameSample(Reusable(b, TRUE, q, v), b)
  BY <1>2, <1>4, ReusableFacts
<1>. QED  BY <1>4, <1>5 DEF b

\* SameSample is transitive.
LEMMA SameSampleTrans ==
    ASSUME NEW a, NEW b, NEW d, SameSample(a, b), SameSample(b, d)
    PROVE  SameSample(a, d)
BY DEF SameSample

\* ~IsSampleCausallyStale, for a valid cached sample.
LEMMA CanAdoptCachedFacts ==
    ASSUME IndInv, NEW x \in Shards, CanAdoptCached(x)
    PROVE  /\ co.cEpoch = CurEpoch /\ ~IsSampleRecoveryStale(co.cVal, co.cBt1, co.cBt2)
           /\ co.cSeq # 0 => co.cSeq >= shard[x].seq
<1>1. /\ Cached.val = co.cVal /\ Cached.seq = co.cSeq /\ Cached.bt1 = co.cBt1 /\ Cached.bt2 = co.cBt2
  BY DEF Cached
<1>2. co.cSeq \in Nat /\ shard[x].seq \in Nat
  BY DEF IndInv, TypeInv, CoordinatorRecs, ShardRecs
<1>. QED  BY <1>1, <1>2 DEF CanAdoptCached, CachedValid, IsSampleCausallyStale

\* adoptCoordCachedSampleLocked on the fast path.
LEMMA FastAdoptInductive ==
    ASSUME IndInv, NEW t \in Threads, FastAdopt(t)
    PROVE  LockStep(t)
<1>. DEFINE x == th[t].at
            b == AdoptedCached(x)
            a == AdvanceWrites(b)
<1>1. /\ th[t].pc = "fast" /\ CanAdoptCached(x) /\ Acquire(x, t, a)
      /\ th' = [th EXCEPT ![t] = Holding(t, Cached, FALSE)] /\ UNCHANGED <<epochs, co, started>>
  BY DEF FastAdopt
<1>2. x \in Shards
  BY <1>1 DEF IndInv, ThreadInv, LockInv
<1>3. b \in ShardRecs /\ SameSample(b, Applied(x, CurEpoch, co.cBt1, co.cBt2, co.cSeq))
  BY <1>2, AdoptedCachedFacts
<1>. HIDE DEF b
<1>4. a \in ShardRecs /\ SameSample(a, b)
  BY <1>3, AdvanceFacts
<1>. HIDE DEF a
<1>5. SameSample(a, Applied(x, CurEpoch, co.cBt1, co.cBt2, co.cSeq))
  BY <1>3, <1>4, SameSampleTrans
<1>6. /\ co.cEpoch = CurEpoch /\ ~IsSampleRecoveryStale(co.cVal, co.cBt1, co.cBt2)
      /\ co.cSeq # 0 => co.cSeq >= shard[x].seq
  BY <1>1, <1>2, CanAdoptCachedFacts
<1>. QED  BY <1>1, <1>4, <1>5, <1>6, AdoptStep

\* The same after a reading that came too late.
LEMMA MissAdoptInductive ==
    ASSUME IndInv, NEW t \in Threads, MissAdopt(t)
    PROVE  LockStep(t)
<1>. DEFINE x == th[t].at
            b == AdoptedCached(x)
            d == [b EXCEPT !.due = FALSE]
            a == AdvanceWrites(d)
<1>1. /\ th[t].pc = "lock" /\ CanAdoptCached(x) /\ Acquire(x, t, a)
      /\ th' = [th EXCEPT ![t] = Holding(t, Cached, FALSE)] /\ UNCHANGED <<epochs, co, started>>
  BY DEF MissAdopt, AtMiss
<1>2. x \in Shards
  BY <1>1 DEF IndInv, ThreadInv, LockInv
<1>3. b \in ShardRecs /\ SameSample(b, Applied(x, CurEpoch, co.cBt1, co.cBt2, co.cSeq))
  BY <1>2, AdoptedCachedFacts
<1>. HIDE DEF b
<1>4. d \in ShardRecs /\ SameSample(d, b)
  BY <1>3, AdvanceFacts
<1>. HIDE DEF d
<1>5. a \in ShardRecs /\ SameSample(a, d)
  BY <1>4, AdvanceFacts
<1>. HIDE DEF a
<1>6. SameSample(a, Applied(x, CurEpoch, co.cBt1, co.cBt2, co.cSeq))
  BY <1>3, <1>4, <1>5, SameSampleTrans
<1>7. /\ co.cEpoch = CurEpoch /\ ~IsSampleRecoveryStale(co.cVal, co.cBt1, co.cBt2)
      /\ co.cSeq # 0 => co.cSeq >= shard[x].seq
  BY <1>1, <1>2, CanAdoptCachedFacts
<1>. QED  BY <1>1, <1>5, <1>6, <1>7, AdoptStep

\* A goroutine's own sample.
LEMMA OwnSample ==
    ASSUME IndInv, NEW t \in Threads
    PROVE  LET s == th[t].s IN
           /\ s \in SampleRecs /\ s.seq \in Nat /\ s.bt1 \in Nat /\ s.bt2 \in Nat /\ s.epoch \in Nat
           /\ s.val \in Levels /\ s.seen \in Counts /\ s.seq <= co.invokeSeq
           /\ RecoveryOK(co, s.val, s.bt1, s.bt2, s.seq)
           /\ EpochOK(CurEpoch, reclaims, s.val, s.epoch, s.seen)
           /\ OthersOK(CurEpoch, reclaims, t, s.val, s.epoch, s.seen)
<1>1. th[t].s \in SampleRecs
  BY DEF IndInv, TypeInv, ThreadRecs
<1>2. /\ RecoveryOK(co, th[t].s.val, th[t].s.bt1, th[t].s.bt2, th[t].s.seq)
      /\ EpochOK(CurEpoch, reclaims, th[t].s.val, th[t].s.epoch, th[t].s.seen)
      /\ th[t].s.seq <= co.invokeSeq
  BY DEF IndInv, ThreadInv, SampleInv
<1>. QED  BY <1>1, <1>2, EpochOthers DEF SampleRecs

\* lockWithPressureFastMiss: the reading is applied.
LEMMA MissApplyInductive ==
    ASSUME IndInv, NEW t \in Threads, MissApply(t)
    PROVE  LockStep(t)
<1>. DEFINE x == th[t].at
            s == th[t].s
            m == co.cSeq = s.seq /\ co.cEpoch = s.epoch /\ ~co.refresh
            b == Applied(x, s.epoch, s.bt1, s.bt2, s.seq)
            d == [b EXCEPT !.due = FALSE]
            e == AdvanceWrites(d)
            a == Reusable(e, m, s.seq, s.val)
            c == th[t].carry
            r == Holding(t, s, FALSE)
<1>1. /\ th[t].pc = "lock" /\ MissFresh(t) /\ Acquire(x, t, a)
      /\ th' = [th EXCEPT ![t] = r] /\ UNCHANGED <<epochs, co, started>>
  BY DEF MissApply, AtMiss
<1>2. x \in Shards /\ TypeInv /\ shard \in [Shards -> ShardRecs] /\ co.pubSeq \in Nat
  BY <1>1 DEF IndInv, ThreadInv, LockInv, TypeInv, CoordinatorRecs
<1>3. /\ s \in SampleRecs /\ s.seq \in Nat /\ s.bt1 \in Nat /\ s.bt2 \in Nat /\ s.epoch \in Nat
      /\ s.val \in Levels /\ s.seen \in Counts /\ s.seq <= co.invokeSeq
      /\ RecoveryOK(co, s.val, s.bt1, s.bt2, s.seq)
      /\ OthersOK(CurEpoch, reclaims, t, s.val, s.epoch, s.seen)
  BY OwnSample
<1>4. c \in CarryRecs /\ RecoveryOK(co, c.val, c.bt1, c.bt2, c.seq)
      /\ OthersOK(CurEpoch, reclaims, t, c.val, c.epoch, c.seen)
  BY OwnCarry
<1>5. /\ s.epoch = CurEpoch /\ ~IsSampleRecoveryStale(s.val, s.bt1, s.bt2)
      /\ s.seq # 0 => s.seq >= shard[x].seq
  <2>1. shard[x].seq \in Nat
    BY <1>2 DEF ShardRecs
  <2>. QED  BY <1>1, <1>3, <2>1 DEF MissFresh, IsSampleCausallyStale
<1>. HIDE DEF s, c, m
<1>6. HoldsWith(t, r, s, c)
  BY <1>2, <1>3, HoldingWith DEF c
<1>7. PICK b1 \in Nat, b2 \in Nat, ep \in Nat, q \in Nat :
        b1 = s.bt1 /\ b2 = s.bt2 /\ ep = s.epoch /\ q = s.seq
  BY <1>3
<1>8. Applied(x, ep, b1, b2, q) \in ShardRecs
  BY <1>2, AppliedFacts
<1>9. b \in ShardRecs
  BY <1>7, <1>8
<1>. HIDE DEF b
<1>10. d \in ShardRecs /\ SameSample(d, b)
  BY <1>9, AdvanceFacts
<1>. HIDE DEF d
<1>11. e \in ShardRecs /\ SameSample(e, d)
  BY <1>10, AdvanceFacts
<1>. HIDE DEF e
<1>12. a \in ShardRecs /\ SameSample(a, e)
  BY <1>2, <1>3, <1>11, ReusableFacts
<1>. HIDE DEF a, r
<1>13. SameSample(a, b)
  BY <1>10, <1>11, <1>12, SameSampleTrans
<1>14. SameSample(a, Applied(x, ep, b1, b2, s.seq))
  BY <1>7, <1>13 DEF b
<1>. QED  BY <1>1, <1>3, <1>4, <1>5, <1>6, <1>7, <1>12, <1>14, TakeStep


\* The carry made of a sample.
LEMMA CarryOf ==
    ASSUME NEW s, s.val \in Levels, s.epoch \in Nat, s.bt1 \in Nat, s.bt2 \in Nat, s.seq \in Nat,
           s.seen \in Counts
    PROVE  LET c == [n \in DOMAIN NoCarry |-> IF n = "has" THEN TRUE ELSE s[n]] IN
           /\ c \in CarryRecs /\ c.val = s.val /\ c.epoch = s.epoch /\ c.bt1 = s.bt1
           /\ c.bt2 = s.bt2 /\ c.seq = s.seq /\ c.seen = s.seen
<1>1. DOMAIN NoCarry = {"has", "val", "epoch", "bt1", "bt2", "seq", "seen"}
  BY DEF NoCarry
<1>. DEFINE c == [n \in DOMAIN NoCarry |-> IF n = "has" THEN TRUE ELSE s[n]]
<1>2. /\ c.has = TRUE /\ c.val = s.val /\ c.epoch = s.epoch /\ c.bt1 = s.bt1
      /\ c.bt2 = s.bt2 /\ c.seq = s.seq /\ c.seen = s.seen
  BY <1>1
<1>3. c \in CarryRecs
  <2>1. c = [n \in {"has", "val", "epoch", "bt1", "bt2", "seq", "seen"} |->
               IF n = "has" THEN TRUE ELSE s[n]]
    BY <1>1
  <2>. HIDE DEF c
  <2>. QED  BY <2>1, Zenon DEF CarryRecs
<1>. QED  BY <1>2, <1>3

\* tryApplyShardSampleLocked: the carried sample, or the cached one, is applied.
LEMMA CarryApplyInductive ==
    ASSUME IndInv, NEW t \in Threads, CarryApply(t)
    PROVE  LockStep(t)
<1>. DEFINE x == th[t].at
            s == IF CarryApplies(t) THEN th[t].carry ELSE Cached
            c == [n \in DOMAIN NoCarry |-> IF n = "has" THEN TRUE ELSE s[n]]
            h == Holding(t, s, FALSE)
            r == [h EXCEPT !.carry = c]
            a == Applied(x, s.epoch, s.bt1, s.bt2, s.seq)
<1>1. /\ th[t].pc = "carry" /\ (CarryApplies(t) \/ CarryAdopts(t)) /\ Acquire(x, t, a)
      /\ th' = [th EXCEPT ![t] = r] /\ UNCHANGED <<epochs, co, started>>
  BY DEF CarryApply
<1>2. x \in Shards /\ TypeInv /\ shard \in [Shards -> ShardRecs] /\ shard[x].seq \in Nat
  <2>1. x \in Shards /\ TypeInv
    BY <1>1 DEF IndInv, ThreadInv, LockInv
  <2>. QED  BY <2>1 DEF TypeInv, ShardRecs
<1>3. /\ s.seq \in Nat /\ s.bt1 \in Nat /\ s.bt2 \in Nat /\ s.epoch \in Nat
      /\ s.val \in Levels /\ s.seen \in Counts
      /\ RecoveryOK(co, s.val, s.bt1, s.bt2, s.seq)
      /\ OthersOK(CurEpoch, reclaims, t, s.val, s.epoch, s.seen)
      /\ s.epoch = CurEpoch /\ ~IsSampleRecoveryStale(s.val, s.bt1, s.bt2)
      /\ s.seq # 0 => s.seq >= shard[x].seq
  <2>1. CASE CarryApplies(t)
    <3>1. s = th[t].carry
      BY <2>1
    <3>2. s \in CarryRecs /\ RecoveryOK(co, s.val, s.bt1, s.bt2, s.seq)
          /\ OthersOK(CurEpoch, reclaims, t, s.val, s.epoch, s.seen)
      BY <3>1, OwnCarry
    <3>3. CurEpoch = s.epoch /\ ~IsSampleCausallyStale(x, s)
      BY <2>1, <3>1 DEF CarryApplies, CarryMatches
    <3>. HIDE DEF s
    <3>4. /\ s.seq \in Nat /\ s.bt1 \in Nat /\ s.bt2 \in Nat /\ s.epoch \in Nat
          /\ s.val \in Levels /\ s.seen \in Counts
      BY <3>2 DEF CarryRecs
    <3>. QED  BY <1>2, <3>2, <3>3, <3>4 DEF IsSampleCausallyStale
  <2>2. CASE ~CarryApplies(t)
    <3>1. s = Cached
      BY <2>2
    <3>2. PICK m : CanAdopt(x, m)
      BY <1>1, <2>2 DEF CarryAdopts
    <3>3. /\ co.cEpoch = CurEpoch /\ co.cSeq >= shard[x].seq
          /\ ~IsSampleRecoveryStale(co.cVal, co.cBt1, co.cBt2)
      BY <3>2 DEF CanAdopt, CachedValid
    <3>. HIDE DEF s
    <3>. QED  BY <3>1, <3>3, CachedFacts
  <2>. QED  BY <2>1, <2>2
<1>. HIDE DEF s
<1>4. /\ c \in CarryRecs /\ c.val = s.val /\ c.epoch = s.epoch /\ c.bt1 = s.bt1
      /\ c.bt2 = s.bt2 /\ c.seq = s.seq /\ c.seen = s.seen
  BY <1>3, CarryOf
<1>. HIDE DEF c
<1>5. HoldsWith(t, h, s, th[t].carry)
  BY <1>2, <1>3, HoldingWith
<1>. HIDE DEF h
<1>6. HoldsWith(t, r, s, c)
  <2>1. h \in ThreadRecs
    BY <1>5 DEF HoldsWith
  <2>2. r \in ThreadRecs
    BY <1>4, <2>1 DEF ThreadRecs
  <2>3. /\ r.pc = h.pc /\ r.kind = h.kind /\ r.at = h.at /\ r.todo = h.todo /\ r.s = h.s
        /\ r.same = h.same /\ r.cross = h.cross /\ r.samplings = h.samplings
        /\ r.pressure = h.pressure /\ r.seq = h.seq /\ r.seen = h.seen /\ r.carry = c
    BY <2>1 DEF ThreadRecs
  <2>. QED  BY <1>5, <2>2, <2>3 DEF HoldsWith
<1>. HIDE DEF r
<1>7. PICK b1 \in Nat, b2 \in Nat, ep \in Nat, q \in Nat :
        b1 = s.bt1 /\ b2 = s.bt2 /\ ep = s.epoch /\ q = s.seq
  BY <1>3
<1>8. Applied(x, ep, b1, b2, q) \in ShardRecs
  BY <1>2, AppliedFacts
<1>9. a \in ShardRecs /\ SameSample(a, Applied(x, ep, b1, b2, s.seq))
  BY <1>7, <1>8 DEF SameSample
<1>. HIDE DEF a
<1>10. /\ RecoveryOK(co, c.val, c.bt1, c.bt2, c.seq)
       /\ OthersOK(CurEpoch, reclaims, t, c.val, c.epoch, c.seen)
  BY <1>3, <1>4
<1>. QED  BY <1>1, <1>3, <1>4, <1>6, <1>7, <1>9, <1>10, TakeStep

\* tryFastForwardSampledEpochLocked moves only a sample below Tier 1, and only its epochs.
LEMMA FastForwardFacts ==
    ASSUME IndInv, NEW x \in Shards, NEW s \in SampleRecs,
           EpochOK(CurEpoch, reclaims, s.val, s.epoch, s.seen)
    PROVE  LET f == FastForward(x, s) IN
           /\ f \in SampleRecs /\ EpochOK(CurEpoch, reclaims, f.val, f.epoch, f.seen)
           /\ f.val = s.val /\ f.bt1 = s.bt1 /\ f.bt2 = s.bt2 /\ f.seq = s.seq
           /\ f.val >= Tier1 => f.shardEpoch = s.shardEpoch
<1>. DEFINE e == CurEpoch
            y == reclaimEpoch[x]
            f1 == [s EXCEPT !.epoch = e, !.shardEpoch = y]
            f2 == [s EXCEPT !.shardEpoch = y]
            f == FastForward(x, s)
<1>1. e \in Nat /\ y \in Nat
  BY DEF IndInv, TypeInv, CurEpoch, Nodes
<1>2. f = s \/ (s.val < Tier1 /\ f \in {f1, f2})
  BY DEF FastForward, CanFastForwardLow
<1>3. e = CurEpoch
  OBVIOUS
<1>. HIDE DEF e, y, f
<1>4. /\ f1 \in SampleRecs /\ f1.val = s.val /\ f1.bt1 = s.bt1 /\ f1.bt2 = s.bt2 /\ f1.seq = s.seq
      /\ f1.epoch = e
      /\ f2 \in SampleRecs /\ f2.val = s.val /\ f2.bt1 = s.bt1 /\ f2.bt2 = s.bt2 /\ f2.seq = s.seq
      /\ f2.epoch = s.epoch
  BY <1>1 DEF SampleRecs
<1>5. s.val \in 0..2 /\ s.epoch <= CurEpoch
  BY DEF SampleRecs, Levels, EpochOK
<1>. HIDE DEF f1, f2
<1>6. CASE f = s
  BY <1>6 DEF f
<1>7. CASE s.val < Tier1 /\ f \in {f1, f2}
  <2>1. ~(f.val >= Tier1) /\ f.epoch <= CurEpoch
    BY <1>1, <1>3, <1>4, <1>5, <1>7 DEF Tier1
  <2>. QED  BY <1>4, <1>7, <2>1 DEF f, EpochOK
<1>. QED  BY <1>2, <1>6, <1>7

\* The sample under the lock, in lockWithPressureSlow.
LEMMA JudgedFacts ==
    ASSUME IndInv, NEW t \in Threads, th[t].pc = "lock"
    PROVE  LET x == th[t].at
               j == Judged(x, th[t].s)
               s == j.s
           IN  /\ s \in SampleRecs /\ s.seq <= co.invokeSeq
               /\ RecoveryOK(co, s.val, s.bt1, s.bt2, s.seq)
               /\ EpochOK(CurEpoch, reclaims, s.val, s.epoch, s.seen)
               /\ j.done => s.epoch = CurEpoch
               /\ s.val >= Tier1 /\ s.epoch # CurEpoch => s.shardEpoch = th[t].s.shardEpoch
<1>. DEFINE x == th[t].at
            f == FastForward(x, th[t].s)
            adopts == /\ f.epoch = CurEpoch /\ IsSampleCausallyStale(x, f)
                      /\ CanAdopt(x, f.seq + 1)
            g == [f EXCEPT !.val = co.cVal, !.bt1 = co.cBt1, !.bt2 = co.cBt2, !.seq = co.cSeq,
                           !.seen = co.cSeen]
            j == Judged(x, th[t].s)
<1>1. x \in Shards
  BY DEF IndInv, ThreadInv, LockInv
<1>2. /\ f \in SampleRecs /\ EpochOK(CurEpoch, reclaims, f.val, f.epoch, f.seen)
      /\ f.val = th[t].s.val /\ f.bt1 = th[t].s.bt1 /\ f.bt2 = th[t].s.bt2 /\ f.seq = th[t].s.seq
      /\ f.val >= Tier1 => f.shardEpoch = th[t].s.shardEpoch
  BY <1>1, OwnSample, FastForwardFacts
<1>3. /\ j.s = IF adopts THEN g ELSE f
      /\ j.done => f.epoch = CurEpoch
  BY DEF Judged
<1>4. RecoveryOK(co, f.val, f.bt1, f.bt2, f.seq) /\ f.seq <= co.invokeSeq
  BY <1>2, OwnSample
<1>. HIDE DEF f
<1>5. /\ g \in SampleRecs /\ g.val = co.cVal /\ g.bt1 = co.cBt1 /\ g.bt2 = co.cBt2 /\ g.seq = co.cSeq
      /\ g.seen = co.cSeen /\ g.epoch = f.epoch
  BY <1>2, CachedFacts DEF SampleRecs
<1>. HIDE DEF g, j
<1>6. CASE adopts
  <2>1. j.s = g /\ f.epoch = CurEpoch /\ co.cEpoch = CurEpoch
    BY <1>3, <1>6 DEF CanAdopt, CachedValid
  <2>2. co.cSeq <= co.invokeSeq
    BY DEF IndInv, CoInv
  <2>3. /\ j.s \in SampleRecs /\ j.s.seq <= co.invokeSeq
        /\ RecoveryOK(co, j.s.val, j.s.bt1, j.s.bt2, j.s.seq)
        /\ EpochOK(CurEpoch, reclaims, j.s.val, j.s.epoch, j.s.seen)
        /\ j.s.epoch = CurEpoch
    BY <1>5, <2>1, <2>2, CachedFacts
  <2>. QED  BY <2>3 DEF j
<1>7. CASE ~adopts
  <2>1. j.s = f
    BY <1>3, <1>7
  <2>. QED  BY <1>2, <1>3, <1>4, <2>1 DEF j
<1>. QED  BY <1>6, <1>7


\* syncCachedRecoveryEpochsLocked redates the cached sample only below the tier in
\* question, and never past the coordinator.
LEMMA SyncFacts ==
    ASSUME NEW c \in CoordinatorRecs, NEW bt1 \in Nat, NEW bt2 \in Nat,
           RecoveryOK(c, c.cVal, c.cBt1, c.cBt2, c.cSeq), bt1 <= c.bt1, bt2 <= c.bt2
    PROVE  LET d == SyncCachedRecovery(c, bt1, bt2) IN
           /\ d \in CoordinatorRecs
           /\ d.bt1 = c.bt1 /\ d.bt2 = c.bt2 /\ d.low1 = c.low1 /\ d.low2 = c.low2
           /\ d.invokeSeq = c.invokeSeq /\ d.lastSeq = c.lastSeq /\ d.lastEpoch = c.lastEpoch
           /\ d.lastVal = c.lastVal /\ d.lastSeen = c.lastSeen
           /\ d.cEpoch = c.cEpoch /\ d.cSeq = c.cSeq /\ d.cVal = c.cVal /\ d.cSeen = c.cSeen
           /\ RecoveryOK(d, d.cVal, d.cBt1, d.cBt2, d.cSeq)
<1>. DEFINE p == BeginSeq(c) + 1
            b1 == Larger(c.cBt1, bt1)
            b2 == Larger(c.cBt2, bt2)
            d1 == [c EXCEPT !.pubSeq = p, !.refresh = TRUE]
            d2 == [c EXCEPT !.pubSeq = p, !.cBt1 = b1, !.cBt2 = b2]
            d == SyncCachedRecovery(c, bt1, bt2)
<1>1. c.pubSeq \in Nat /\ c.cBt1 \in Nat /\ c.cBt2 \in Nat /\ c.cVal \in Levels /\ c.bt1 \in Nat /\ c.bt2 \in Nat
  BY DEF CoordinatorRecs
<1>2. p \in Nat
  BY <1>1 DEF BeginSeq
<1>3. /\ b1 \in Nat /\ b2 \in Nat /\ c.cBt1 <= b1 /\ c.cBt2 <= b2
      /\ c.cBt1 <= c.bt1 /\ c.cBt2 <= c.bt2 /\ b1 <= c.bt1 /\ b2 <= c.bt2
      /\ bt1 <= c.cBt1 => b1 = c.cBt1
      /\ bt2 <= c.cBt2 => b2 = c.cBt2
  BY <1>1 DEF Larger, RecoveryOK
<1>4. d = c \/ d = d1
      \/ (/\ d = d2
          /\ ~(bt2 > c.cBt2 /\ c.cVal >= Tier2) /\ ~(bt1 > c.cBt1 /\ c.cVal >= Tier1))
  BY DEF SyncCachedRecovery
<1>5. \/ d = c \/ d = d1
      \/ (c.cVal = Tier2 => b2 = c.cBt2) /\ (c.cVal = Tier1 => b1 = c.cBt1)
  BY <1>1, <1>3, <1>4 DEF Levels, Tier1, Tier2
<1>. HIDE DEF p, b1, b2, d
<1>6. /\ d1 \in CoordinatorRecs
      /\ d1.bt1 = c.bt1 /\ d1.bt2 = c.bt2 /\ d1.low1 = c.low1 /\ d1.low2 = c.low2
      /\ d1.invokeSeq = c.invokeSeq /\ d1.lastSeq = c.lastSeq /\ d1.lastEpoch = c.lastEpoch
      /\ d1.lastVal = c.lastVal /\ d1.lastSeen = c.lastSeen
      /\ d1.cEpoch = c.cEpoch /\ d1.cSeq = c.cSeq /\ d1.cVal = c.cVal /\ d1.cSeen = c.cSeen
      /\ d1.cBt1 = c.cBt1 /\ d1.cBt2 = c.cBt2
  BY <1>2 DEF CoordinatorRecs
<1>7. /\ d2 \in CoordinatorRecs
      /\ d2.bt1 = c.bt1 /\ d2.bt2 = c.bt2 /\ d2.low1 = c.low1 /\ d2.low2 = c.low2
      /\ d2.invokeSeq = c.invokeSeq /\ d2.lastSeq = c.lastSeq /\ d2.lastEpoch = c.lastEpoch
      /\ d2.lastVal = c.lastVal /\ d2.lastSeen = c.lastSeen
      /\ d2.cEpoch = c.cEpoch /\ d2.cSeq = c.cSeq /\ d2.cVal = c.cVal /\ d2.cSeen = c.cSeen
      /\ d2.cBt1 = b1 /\ d2.cBt2 = b2
  BY <1>2, <1>3 DEF CoordinatorRecs
<1>. HIDE DEF d1, d2
<1>8. RecoveryOK(d1, d1.cVal, d1.cBt1, d1.cBt2, d1.cSeq)
  BY <1>6 DEF RecoveryOK
<1>9. CASE d = c
  BY <1>9 DEF d
<1>10. CASE d = d1
  BY <1>6, <1>8, <1>10 DEF d
<1>11. CASE d = d2 /\ d # c /\ d # d1
  <2>1. RecoveryOK(d2, d2.cVal, d2.cBt1, d2.cBt2, d2.cSeq)
    BY <1>3, <1>5, <1>7, <1>11 DEF RecoveryOK
  <2>. QED  BY <1>7, <1>11, <2>1 DEF d
<1>. QED  BY <1>4, <1>9, <1>10, <1>11

\* recordAcceptedFallbackSample: a sample of an epoch that is over is recorded.
LEMMA FallbackFacts ==
    ASSUME IndInv, NEW s \in SampleRecs, s.seq <= co.invokeSeq, s.epoch # CurEpoch,
           RecoveryOK(co, s.val, s.bt1, s.bt2, s.seq), NotUndone(co, s.val, s.seq),
           EpochOK(CurEpoch, reclaims, s.val, s.epoch, s.seen),
           UNCHANGED epochs, co' = FallbackOutcome(s).co
    PROVE  /\ CoStep /\ NotUndone(co', s.val, s.seq)
           /\ FallbackOutcome(s).bt1 \in Nat /\ FallbackOutcome(s).bt2 \in Nat
           /\ FallbackOutcome(s).bt1 <= co'.bt1 /\ FallbackOutcome(s).bt2 <= co'.bt2
<1>. DEFINE newer == s.seq > co.lastSeq
            f == FallbackOutcome(s)
            bt1 == IF newer /\ s.val < Tier1 THEN co.bt1 + 1 ELSE s.bt1
            bt2 == IF newer /\ s.val < Tier2 THEN co.bt2 + 1 ELSE s.bt2
            n1 == IF s.val < Tier1 THEN co.bt1 + 1 ELSE co.bt1
            n2 == IF s.val < Tier2 THEN co.bt2 + 1 ELSE co.bt2
            l1 == IF s.val < Tier1 THEN Larger(co.low1, s.seq) ELSE co.low1
            l2 == IF s.val < Tier2 THEN Larger(co.low2, s.seq) ELSE co.low2
            e == [co EXCEPT !.lastSeq = s.seq, !.lastEpoch = s.epoch, !.lastVal = s.val,
                            !.lastSeen = s.seen, !.bt1 = n1, !.bt2 = n2, !.low1 = l1, !.low2 = l2]
            noted == IF ~newer THEN co ELSE e
<1>1. f.bt1 = bt1 /\ f.bt2 = bt2
      /\ f.co = IF s.seq >= co.lastSeq THEN SyncCachedRecovery(noted, bt1, bt2) ELSE co
  BY DEF FallbackOutcome
<1>2. /\ co \in CoordinatorRecs /\ TypeInv /\ CurEpoch \in Nat /\ CoInv
      /\ s.seq \in Nat /\ s.epoch \in Nat /\ s.val \in Levels /\ s.seen \in Counts
      /\ s.bt1 \in Nat /\ s.bt2 \in Nat
  BY DEF IndInv, TypeInv, CurEpoch, Nodes, SampleRecs
<1>3. /\ co.bt1 \in Nat /\ co.bt2 \in Nat /\ co.low1 \in Nat /\ co.low2 \in Nat
      /\ co.lastSeq \in Nat /\ co.invokeSeq \in Nat
  BY <1>2 DEF CoordinatorRecs
<1>4. /\ co.low1 <= co.lastSeq /\ co.low2 <= co.lastSeq
      /\ co.lastSeq <= co.invokeSeq /\ co.cSeq <= co.invokeSeq
      /\ RecoveryOK(co, co.cVal, co.cBt1, co.cBt2, co.cSeq)
      /\ EpochOK(CurEpoch, reclaims, co.cVal, co.cEpoch, co.cSeen)
      /\ EpochOK(CurEpoch, reclaims, co.lastVal, co.lastEpoch, co.lastSeen)
      /\ \A n \in Nodes : lastReentrant[n] = Nobody => reentrant[n] = {}
  BY <1>2 DEF CoInv
<1>5. /\ n1 \in Nat /\ n2 \in Nat /\ l1 \in Nat /\ l2 \in Nat /\ co.bt1 <= n1 /\ co.bt2 <= n2
      /\ n1 = co.bt1 => l1 = co.low1 /\ ~(s.val < Tier1)
      /\ n2 = co.bt2 => l2 = co.low2 /\ ~(s.val < Tier2)
      /\ l1 \in {co.low1, s.seq} /\ l2 \in {co.low2, s.seq}
      /\ s.val = Tier2 => l2 = co.low2
      /\ s.val = Tier1 => l1 = co.low1
  BY <1>2, <1>3 DEF Larger, Tier1, Tier2, Levels
<1>6. /\ bt1 \in Nat /\ bt2 \in Nat
      /\ newer => bt1 <= n1 /\ bt2 <= n2
      /\ ~newer => bt1 <= co.bt1 /\ bt2 <= co.bt2
  BY <1>2, <1>3 DEF RecoveryOK
<1>. HIDE DEF n1, n2, l1, l2, bt1, bt2, f
<1>7. e \in CoordinatorRecs
  BY <1>2, <1>5 DEF CoordinatorRecs
<1>8. /\ e.lastSeq = s.seq /\ e.lastEpoch = s.epoch /\ e.lastVal = s.val /\ e.lastSeen = s.seen
      /\ e.bt1 = n1 /\ e.bt2 = n2 /\ e.low1 = l1 /\ e.low2 = l2
      /\ e.invokeSeq = co.invokeSeq /\ e.cEpoch = co.cEpoch /\ e.cSeq = co.cSeq /\ e.cVal = co.cVal
      /\ e.cSeen = co.cSeen /\ e.cBt1 = co.cBt1 /\ e.cBt2 = co.cBt2
  BY <1>2 DEF CoordinatorRecs
<1>. HIDE DEF e
\* The coordinator after the note, if one was made.
<1>9. /\ noted \in CoordinatorRecs
      /\ co.bt1 <= noted.bt1 /\ co.bt2 <= noted.bt2 /\ noted.invokeSeq = co.invokeSeq
      /\ noted.bt1 = co.bt1 => noted.low1 = co.low1
      /\ noted.bt2 = co.bt2 => noted.low2 = co.low2
      /\ noted.low1 <= noted.lastSeq /\ noted.low2 <= noted.lastSeq
      /\ noted.lastSeq <= noted.invokeSeq
      /\ noted.cEpoch = co.cEpoch /\ noted.cSeq = co.cSeq /\ noted.cVal = co.cVal
      /\ noted.cSeen = co.cSeen /\ noted.cBt1 = co.cBt1 /\ noted.cBt2 = co.cBt2
      /\ bt1 <= noted.bt1 /\ bt2 <= noted.bt2
  <2>1. CASE newer
    <3>1. noted = e
      BY <2>1
    <3>. HIDE DEF noted
    <3>2. s.seq > co.lastSeq
      BY <2>1
    <3>3. l1 <= s.seq /\ l2 <= s.seq
      BY <1>2, <1>3, <1>4, <1>5, <3>2
    <3>. QED  BY <1>5, <1>6, <1>7, <1>8, <2>1, <3>1, <3>3
  <2>2. CASE ~newer
    <3>1. noted = co
      BY <2>2
    <3>. HIDE DEF noted, newer
    <3>. QED  BY <1>2, <1>3, <1>4, <1>6, <2>2, <3>1
  <2>. QED  BY <2>1, <2>2
<1>10. /\ NotUndone(noted, s.val, s.seq)
       /\ EpochOK(CurEpoch, reclaims, noted.lastVal, noted.lastEpoch, noted.lastSeen)
  <2>1. CASE newer
    <3>1. noted = e
      BY <2>1
    <3>. HIDE DEF noted, newer
    <3>2. NotUndone(noted, s.val, s.seq)
      BY <1>5, <1>8, <3>1 DEF NotUndone
    <3>. QED  BY <1>8, <3>1, <3>2
  <2>2. CASE ~newer
    BY <1>4, <2>2
  <2>. QED  BY <2>1, <2>2
<1>. HIDE DEF noted
<1>11. RecoveryOK(noted, noted.cVal, noted.cBt1, noted.cBt2, noted.cSeq)
  <2>1. /\ noted.bt1 \in Nat /\ noted.bt2 \in Nat /\ co.cBt1 \in Nat /\ co.cBt2 \in Nat
    BY <1>2, <1>9 DEF CoordinatorRecs
  <2>. QED  BY <1>3, <1>4, <1>9, <2>1 DEF RecoveryOK
<1>. DEFINE d == SyncCachedRecovery(noted, bt1, bt2)
<1>12. /\ d \in CoordinatorRecs
       /\ d.bt1 = noted.bt1 /\ d.bt2 = noted.bt2 /\ d.low1 = noted.low1 /\ d.low2 = noted.low2
       /\ d.invokeSeq = noted.invokeSeq /\ d.lastSeq = noted.lastSeq /\ d.lastEpoch = noted.lastEpoch
       /\ d.lastVal = noted.lastVal /\ d.lastSeen = noted.lastSeen
       /\ d.cEpoch = noted.cEpoch /\ d.cSeq = noted.cSeq /\ d.cVal = noted.cVal /\ d.cSeen = noted.cSeen
       /\ RecoveryOK(d, d.cVal, d.cBt1, d.cBt2, d.cSeq)
  <2>1. PICK b1 \in Nat, b2 \in Nat : b1 = bt1 /\ b2 = bt2
    BY <1>6
  <2>. QED  BY <1>9, <1>11, <2>1, SyncFacts
<1>. HIDE DEF d
<1>13. CASE s.seq >= co.lastSeq
  <2>1. co' = d
    BY <1>1, <1>13 DEF d, f
  <2>2. CoAdvances
    BY <1>3, <1>9, <1>12, <2>1 DEF CoAdvances
  <2>3. /\ co'.low1 <= co'.lastSeq /\ co'.low2 <= co'.lastSeq
        /\ co'.lastSeq <= co'.invokeSeq /\ co'.cSeq <= co'.invokeSeq
        /\ RecoveryOK(co', co'.cVal, co'.cBt1, co'.cBt2, co'.cSeq)
        /\ EpochOK(CurEpoch, reclaims, co'.cVal, co'.cEpoch, co'.cSeen)
        /\ EpochOK(CurEpoch, reclaims, co'.lastVal, co'.lastEpoch, co'.lastSeen)
    BY <1>4, <1>9, <1>10, <1>12, <2>1
  <2>4. CoInv'
    <3>1. CurEpoch' = CurEpoch /\ reclaims' = reclaims
      BY DEF epochs, CurEpoch
    <3>2. \A n \in Nodes : lastReentrant'[n] = Nobody => reentrant'[n] = {}
      BY <1>4 DEF epochs
    <3>. QED  BY <2>3, <3>1, <3>2 DEF CoInv
  <2>5. NotUndone(co', s.val, s.seq)
    BY <1>10, <1>12, <2>1 DEF NotUndone
  <2>6. bt1 <= co'.bt1 /\ bt2 <= co'.bt2
    BY <1>9, <1>12, <2>1
  <2>. QED  BY <1>1, <1>6, <1>12, <2>1, <2>2, <2>4, <2>5, <2>6 DEF CoStep, f
<1>14. CASE ~(s.seq >= co.lastSeq)
  <2>1. UNCHANGED <<epochs, co>>
    BY <1>1, <1>14 DEF f
  <2>2. ~newer
    BY <1>2, <1>3, <1>14
  <2>. QED  BY <1>1, <1>6, <2>1, <2>2, CoSame DEF f
<1>. QED  BY <1>13, <1>14


\* resolvePostRetryPressureLocked: one of its four outcomes.
LEMMA ResolveInductive ==
    ASSUME IndInv, NEW t \in Threads, Resolve(t)
    PROVE  LockStep(t)
<1>. DEFINE x == th[t].at
            j == Judged(x, th[t].s)
            s == j.s
            unreclaimed == reclaimEpoch[x] = s.shardEpoch
            isOwn == s.epoch = CurEpoch /\ ~IsSampleCausallyStale(x, s)
            isCached == ~isOwn /\ CanAdopt(x, IF unreclaimed THEN s.seq ELSE 0)
            isFallback == /\ ~isOwn /\ ~isCached /\ unreclaimed
                          /\ s.epoch # CurEpoch /\ s.seq >= shard[x].seq
                          /\ ~IsSampleRecoveryStale(s.val, s.bt1, s.bt2)
            fb == FallbackOutcome(s)
            c == th[t].carry
<1>1. /\ th[t].pc = "lock" /\ (j.done \/ Exhausted(t, x, s)) /\ UNCHANGED <<epochs, started>>
      /\ \/ /\ isOwn
            /\ Acquire(x, t, Applied(x, s.epoch, s.bt1, s.bt2, s.seq))
            /\ th' = [th EXCEPT ![t] = Holding(t, s, FALSE)]
            /\ UNCHANGED co
         \/ /\ isCached
            /\ Acquire(x, t, Applied(x, CurEpoch, co.cBt1, co.cBt2, co.cSeq))
            /\ th' = [th EXCEPT ![t] = Holding(t, Cached, FALSE)]
            /\ UNCHANGED co
         \/ /\ isFallback
            /\ Acquire(x, t, Applied(x, s.epoch, fb.bt1, fb.bt2, s.seq))
            /\ th' = [th EXCEPT ![t] = Holding(t, s, TRUE)]
            /\ co' = fb.co
         \/ /\ ~isOwn /\ ~isCached /\ ~isFallback
            /\ Acquire(x, t, [shard[x] EXCEPT !.valid = FALSE, !.appPub = 0,
                                              !.epoch = CurEpoch])
            /\ th' = [th EXCEPT ![t] = Holding(t, NoSample, FALSE)]
            /\ UNCHANGED co
  BY DEF Resolve
<1>2. x \in Shards /\ TypeInv /\ shard \in [Shards -> ShardRecs] /\ shard[x].seq \in Nat /\ th \in [Threads -> ThreadRecs]
  <2>1. x \in Shards /\ TypeInv
    BY <1>1 DEF IndInv, ThreadInv, LockInv
  <2>. QED  BY <2>1 DEF TypeInv, ShardRecs
<1>3. /\ s \in SampleRecs /\ s.seq <= co.invokeSeq
      /\ RecoveryOK(co, s.val, s.bt1, s.bt2, s.seq)
      /\ EpochOK(CurEpoch, reclaims, s.val, s.epoch, s.seen)
      /\ j.done => s.epoch = CurEpoch
      /\ s.val >= Tier1 /\ s.epoch # CurEpoch => s.shardEpoch = th[t].s.shardEpoch
  BY <1>1, JudgedFacts
<1>4. c \in CarryRecs /\ RecoveryOK(co, c.val, c.bt1, c.bt2, c.seq)
      /\ OthersOK(CurEpoch, reclaims, t, c.val, c.epoch, c.seen)
  BY OwnCarry
<1>. HIDE DEF s, c, j
<1>5. PICK b1 \in Nat, b2 \in Nat, ep \in Nat, q \in Nat :
        b1 = s.bt1 /\ b2 = s.bt2 /\ ep = s.epoch /\ q = s.seq
  BY <1>3 DEF SampleRecs
<1>6. /\ s.val \in Levels /\ s.seen \in Counts /\ s.seq \in Nat
      /\ OthersOK(CurEpoch, reclaims, t, s.val, s.epoch, s.seen)
  BY <1>3, EpochOthers DEF SampleRecs
<1>7. CASE /\ isOwn
           /\ Acquire(x, t, Applied(x, s.epoch, s.bt1, s.bt2, s.seq))
           /\ th' = [th EXCEPT ![t] = Holding(t, s, FALSE)]
           /\ UNCHANGED co
  <2>. DEFINE a == Applied(x, s.epoch, s.bt1, s.bt2, s.seq)
              r == Holding(t, s, FALSE)
  <2>1. HoldsWith(t, r, s, c)
    BY <1>2, <1>6, HoldingWith DEF c
  <2>2. Applied(x, ep, b1, b2, q) \in ShardRecs
    BY <1>2, AppliedFacts
  <2>3. a \in ShardRecs /\ SameSample(a, Applied(x, ep, b1, b2, s.seq))
    BY <1>5, <2>2 DEF SameSample
  <2>4. /\ ep = CurEpoch /\ ~IsSampleRecoveryStale(s.val, b1, b2)
        /\ s.seq # 0 => s.seq >= shard[x].seq
    BY <1>2, <1>5, <1>6, <1>7 DEF IsSampleCausallyStale
  <2>5. Acquire(x, t, a) /\ th' = [th EXCEPT ![t] = r] /\ UNCHANGED <<epochs, co, started>>
    BY <1>1, <1>7
  <2>. HIDE DEF a, r
  <2>6. RecoveryOK(co, s.val, b1, b2, s.seq) /\ OthersOK(CurEpoch, reclaims, t, s.val, ep, s.seen)
    BY <1>3, <1>5, <1>6
  <2>. QED  BY <1>1, <1>4, <1>6, <2>1, <2>3, <2>4, <2>5, <2>6, TakeStep
<1>8. CASE /\ isCached
           /\ Acquire(x, t, Applied(x, CurEpoch, co.cBt1, co.cBt2, co.cSeq))
           /\ th' = [th EXCEPT ![t] = Holding(t, Cached, FALSE)]
           /\ UNCHANGED co
  <2>. DEFINE a == Applied(x, CurEpoch, co.cBt1, co.cBt2, co.cSeq)
  <2>1. PICK m : CanAdopt(x, m)
    BY <1>8
  <2>2. /\ co.cEpoch = CurEpoch /\ co.cSeq >= shard[x].seq
        /\ ~IsSampleRecoveryStale(co.cVal, co.cBt1, co.cBt2)
    BY <2>1 DEF CanAdopt, CachedValid
  <2>3. PICK c1 \in Nat, c2 \in Nat, ce \in Nat, cq \in Nat :
          c1 = co.cBt1 /\ c2 = co.cBt2 /\ ce = CurEpoch /\ cq = co.cSeq
    BY CachedFacts
  <2>4. Applied(x, ce, c1, c2, cq) \in ShardRecs
    BY <1>2, AppliedFacts
  <2>5. a \in ShardRecs /\ SameSample(a, Applied(x, CurEpoch, co.cBt1, co.cBt2, co.cSeq))
    BY <2>3, <2>4 DEF SameSample
  <2>6. Acquire(x, t, a) /\ UNCHANGED <<epochs, co, started>>
    BY <1>1, <1>8
  <2>. HIDE DEF a
  <2>. QED  BY <1>1, <1>8, <2>2, <2>5, <2>6, AdoptStep
<1>9. CASE /\ isFallback
           /\ Acquire(x, t, Applied(x, s.epoch, fb.bt1, fb.bt2, s.seq))
           /\ th' = [th EXCEPT ![t] = Holding(t, s, TRUE)]
           /\ co' = fb.co
  <2>. DEFINE a == Applied(x, s.epoch, fb.bt1, fb.bt2, s.seq)
              r == Holding(t, s, TRUE)
  <2>1. HoldsWith(t, r, s, c) /\ r.fallback = TRUE
    BY <1>2, <1>6, HoldingWith DEF c
  <2>2. NotUndone(co, s.val, s.seq)
    <3>1. RecoveryOK(co, s.val, b1, b2, q) /\ ~IsSampleRecoveryStale(s.val, b1, b2)
      BY <1>3, <1>5, <1>9
    <3>2. NotUndone(co, s.val, q)
      BY <1>2, <3>1, NotStale
    <3>. QED  BY <1>5, <3>2
  <2>3. UNCHANGED epochs /\ s.epoch # CurEpoch /\ co' = FallbackOutcome(s).co
    BY <1>1, <1>9
  <2>4. /\ CoStep /\ NotUndone(co', s.val, s.seq)
        /\ FallbackOutcome(s).bt1 \in Nat /\ FallbackOutcome(s).bt2 \in Nat
        /\ FallbackOutcome(s).bt1 <= co'.bt1 /\ FallbackOutcome(s).bt2 <= co'.bt2
    BY <1>3, <2>2, <2>3, FallbackFacts
  <2>5. PICK f1 \in Nat, f2 \in Nat : f1 = fb.bt1 /\ f2 = fb.bt2
    BY <2>4
  <2>6. Applied(x, ep, f1, f2, q) \in ShardRecs
    BY <1>2, AppliedFacts
  <2>7. a \in ShardRecs /\ SameSample(a, Applied(x, ep, f1, f2, s.seq))
    BY <1>5, <2>5, <2>6 DEF SameSample
  <2>8. Acquire(x, t, a) /\ th' = [th EXCEPT ![t] = r] /\ UNCHANGED <<epochs, started>>
    BY <1>1, <1>9
  <2>9. f1 <= co'.bt1 /\ f2 <= co'.bt2 /\ OthersOK(CurEpoch, reclaims, t, s.val, ep, s.seen)
    BY <1>5, <1>6, <2>4, <2>5
  <2>10. s.seq # 0 => s.seq >= shard[x].seq
    BY <1>9
  <2>11. s.val >= Tier1 => /\ r.fallback /\ th[t].cross = MaxCrossShardRetries
                           /\ reclaimEpoch[x] = th[t].s.shardEpoch
    <3>1. ~j.done /\ unreclaimed
      BY <1>3, <1>9
    <3>2. th[t].cross + 1 > MaxCrossShardRetries
      BY <1>1, <3>1 DEF Exhausted, SameShard
    <3>3. th[t].cross <= MaxCrossShardRetries /\ th[t].cross \in Nat /\ MaxCrossShardRetries \in Nat
      BY <1>2, SamplerAssumption DEF IndInv, ThreadInv, BudgetInv, ThreadRecs
    <3>4. th[t].cross = MaxCrossShardRetries
      BY <3>2, <3>3
    <3>. QED  BY <1>3, <1>9, <2>1, <3>1, <3>4
  <2>12. th'[t] = r
    BY <1>2, <2>8
  <2>. HIDE DEF a, r
  <2>13. IndInv'
    BY <1>1, <1>4, <1>6, <2>1, <2>4, <2>7, <2>8, <2>9, ApplyStep
  <2>14. AcquireFacts(t)
    BY <2>1, <2>2, <2>10, <2>11, <2>12, AcquireFactsFrom
  <2>. QED  BY <2>13, <2>14 DEF LockStep
<1>10. CASE /\ ~isOwn /\ ~isCached /\ ~isFallback
            /\ Acquire(x, t, [shard[x] EXCEPT !.valid = FALSE, !.appPub = 0,
                                              !.epoch = CurEpoch])
            /\ th' = [th EXCEPT ![t] = Holding(t, NoSample, FALSE)]
            /\ UNCHANGED co
  <2>. DEFINE n == NoSample
              a == [shard[x] EXCEPT !.valid = FALSE, !.appPub = 0, !.epoch = CurEpoch]
              r == Holding(t, n, FALSE)
  <2>1. n.val = 0 /\ n.seq = 0 /\ n.seen \in Counts
    BY NullTypes DEF NoSample
  <2>2. CurEpoch \in Nat /\ shard[x] \in ShardRecs
    BY <1>2, CachedFacts
  <2>3. a \in ShardRecs /\ a.valid = FALSE /\ a.bt1 = shard[x].bt1 /\ a.bt2 = shard[x].bt2
    BY <2>2 DEF ShardRecs
  <2>4. Acquire(x, t, a) /\ th' = [th EXCEPT ![t] = r] /\ UNCHANGED <<epochs, co, started>>
    BY <1>1, <1>10
  <2>. HIDE DEF n, a
  <2>5. HoldsWith(t, r, n, c)
    <3>1. n.val \in Levels /\ n.seq \in Nat
      BY <2>1 DEF Levels
    <3>. QED  BY <1>2, <2>1, <3>1, HoldingWith DEF c
  <2>6. CoStep /\ co' = co
    BY <2>4, CoSame
  <2>7. a.bt1 <= co'.bt1 /\ a.bt2 <= co'.bt2
    BY <1>2, <2>3, <2>6 DEF IndInv, ShardInv
  <2>8. th'[t] = r
    BY <1>2, <2>4
  <2>. HIDE DEF r
  <2>9. IndInv'
    BY <1>1, <1>4, <2>3, <2>4, <2>5, <2>6, <2>7, AcquireStep
  <2>10. NotUndone(co, n.val, n.seq) /\ ~(n.val >= Tier1)
    BY <2>1 DEF NotUndone, Tier1, Tier2
  <2>11. AcquireFacts(t)
    BY <2>1, <2>5, <2>8, <2>10, AcquireFactsFrom
  <2>. QED  BY <2>9, <2>11 DEF LockStep
<1>. QED  BY <1>1, <1>7, <1>8, <1>9, <1>10


-----------------------------------------------------------------------------
(* Steps that take no lock                                                 *)

\* The shards keep their samples and their holders.
QuietShards ==
    /\ shard' \in [Shards -> ShardRecs]
    /\ \A x \in Shards : SameSample(shard'[x], shard[x])

\* A step by which a goroutine without a sample moves on, leaving the coordinator alone.
LEMMA QuietStep ==
    ASSUME IndInv, NEW t \in Threads, NEW r \in ThreadRecs, th' = [th EXCEPT ![t] = r],
           UNCHANGED <<epochs, co>>, started' \in Nat, QuietShards,
           th[t].pc \notin {"holding", "hook"}, r.pc \notin {"holding", "hook"},
           r.pc = "capture" => r.load = 1, r.pc # "idle" => r.at \in Shards,
           r.s = NoSample \/ (r.s = th[t].s /\ r.pc # "capture"),
           r.carry \in {th[t].carry, NoCarry}, BudgetInv(t)'
    PROVE  IndInv'
<1>1. TypeInv /\ ThreadInv(t) /\ CoStep /\ co' = co
  BY CoSame DEF IndInv
<1>2. th'[t] = r /\ th' \in [Threads -> ThreadRecs]
  BY <1>1 DEF TypeInv
<1>3. ShardStep(t)
  <2>1. ASSUME NEW x \in Shards
        PROVE  /\ shard'[x].bt1 <= co'.bt1 /\ shard'[x].bt2 <= co'.bt2
               /\ shard[x].holder # Nobody => SameSample(shard'[x], shard[x])
               /\ shard[x].holder = Nobody => shard'[x].holder \in {Nobody, t}
    <3>1. SameSample(shard'[x], shard[x]) /\ shard[x].bt1 <= co.bt1 /\ shard[x].bt2 <= co.bt2
      BY DEF QuietShards, IndInv, ShardInv
    <3>. QED  BY <1>1, <3>1 DEF SameSample
  <2>. QED  BY <2>1 DEF ShardStep, QuietShards
<1>4. TypeInv'
  BY <1>1, <1>2 DEF TypeInv, epochs, CoStep, QuietShards
<1>5. CurEpoch' = CurEpoch /\ reclaims' = reclaims /\ EpochAdvances
  <2>1. CurEpoch \in Nat /\ externalEpoch[Coord] \in Nat /\ CurEpoch' = CurEpoch
    BY <1>1 DEF TypeInv, CurEpoch, Nodes, epochs
  <2>. QED  BY <2>1 DEF epochs, EpochAdvances
<1>6. LockInv(t)'
  <2>1. \A x \in Shards : shard[x].holder # t
    BY <1>1 DEF ThreadInv, LockInv
  <2>2. \A x \in Shards : shard'[x].holder # t
    BY <2>1 DEF QuietShards, SameSample
  <2>. QED  BY <1>2, <2>2 DEF LockInv
<1>7. SampleInv(t)'
  <2>1. \A n \in Nodes : t \notin reentrant'[n]
    BY NotInside DEF epochs
  <2>2. CASE r.s = NoSample
    BY <1>1, <1>2, <1>4, <1>5, <2>1, <2>2, NoSampleInv DEF CoStep
  <2>3. CASE r.s = th[t].s /\ r.pc # "capture"
    <3>1. /\ RecoveryOK(co, r.s.val, r.s.bt1, r.s.bt2, r.s.seq)
          /\ EpochOK(CurEpoch, reclaims, r.s.val, r.s.epoch, r.s.seen)
          /\ r.s.seq <= co.invokeSeq
      BY <2>3, OwnSample
    <3>2. Coord \in Nodes
      BY DEF Nodes
    <3>. QED  BY <1>1, <1>2, <1>5, <2>1, <2>3, <3>1, <3>2 DEF SampleInv
  <2>. QED  BY <2>2, <2>3
<1>8. CarryInv(t)'
  <2>1. CASE r.carry = th[t].carry
    BY <1>1, <1>2, <1>5, <2>1, OwnCarry DEF CarryInv
  <2>2. CASE r.carry = NoCarry
    BY <1>1, <1>2, <1>5, <2>2, NullOK DEF CarryInv
  <2>. QED  BY <2>1, <2>2
<1>9. HoldInv(t)'
  BY <1>2 DEF HoldInv
<1>10. ThreadInv(t)'
  BY <1>6, <1>7, <1>8, <1>9 DEF ThreadInv
<1>. QED  BY <1>1, <1>3, <1>10, LocalStep

\* A goroutine releases its lock, or never had it, and goes for a reading.
LEMMA ReadStep ==
    ASSUME IndInv, NEW t \in Threads, NEW path \in {"slow", "miss"}, NEW r \in ThreadRecs,
           th' = [th EXCEPT ![t] = r],
           UNCHANGED <<epochs, co, started>>, QuietShards,
           th[t].pc \notin {"idle", "holding", "hook"},
           r.pc = "capture" /\ r.load = 1 /\ r.s = NoSample /\ r.path = path,
           r.kind = th[t].kind /\ r.at = th[t].at /\ r.carry = th[t].carry,
           r.same <= MaxSameShardRetries /\ r.cross <= MaxCrossShardRetries,
           path = "miss" => ~Custom /\ ~Fresh(t) /\ r.samplings = 1 /\ r.same = 0 /\ r.cross = 0,
           r.samplings <= (IF Custom \/ Fresh(t) THEN 1 ELSE 2) + r.same + r.cross
    PROVE  LockStep(t)
<1>1. TypeInv /\ ThreadInv(t)
  BY DEF IndInv
<1>2. th'[t] = r /\ started' \in Nat
  BY <1>1 DEF TypeInv
<1>3. Fresh(t)' <=> Fresh(t)
  BY <1>2 DEF Fresh
<1>4. BudgetInv(t)'
  BY <1>2, <1>3 DEF BudgetInv
<1>5. r.at \in Shards
  BY <1>1 DEF ThreadInv, LockInv
<1>6. IndInv'
  BY <1>2, <1>4, <1>5, QuietStep
<1>7. AcquireFacts(t)
  BY <1>2 DEF AcquireFacts, Acquires
<1>. QED  BY <1>6, <1>7 DEF LockStep

\* Clearing or counting on one shard leaves all samples alone.
LEMMA QuietOne ==
    ASSUME TypeInv, NEW x \in Shards, NEW a \in ShardRecs, SameSample(a, shard[x]),
           shard' = [shard EXCEPT ![x] = a]
    PROVE  QuietShards
<1>1. shard \in [Shards -> ShardRecs]
  BY DEF TypeInv
<1>2. shard' \in [Shards -> ShardRecs]
  BY <1>1
<1>3. ASSUME NEW y \in Shards
      PROVE  SameSample(shard'[y], shard[y])
  <2>1. CASE y = x
    BY <1>1, <2>1
  <2>2. CASE y # x
    <3>1. shard'[y] = shard[y]
      BY <1>1, <2>2
    <3>. QED  BY <3>1 DEF SameSample
  <2>. QED  BY <2>1, <2>2
<1>. QED  BY <1>2, <1>3 DEF QuietShards

\* A step that leaves the shards alone.
LEMMA QuietSame ==
    ASSUME TypeInv, UNCHANGED shard
    PROVE  QuietShards
BY DEF TypeInv, QuietShards, SameSample

\* The fast path gives up for a reading.
LEMMA FastFailInductive ==
    ASSUME IndInv, NEW t \in Threads, FastFail(t)
    PROVE  LockStep(t)
<1>. DEFINE x == th[t].at
            r == Sampling(t, "miss")
<1>1. /\ th[t].pc = "fast" /\ shard' = [shard EXCEPT ![x] = [shard[x] EXCEPT !.due = FALSE]]
      /\ th' = [th EXCEPT ![t] = r] /\ UNCHANGED <<epochs, co, started>>
  BY DEF FastFail
<1>2. TypeInv /\ x \in Shards /\ shard[x] \in ShardRecs
  BY <1>1 DEF IndInv, ThreadInv, LockInv, TypeInv
<1>3. QuietShards
  BY <1>1, <1>2, AdvanceFacts, QuietOne
<1>4. /\ r \in ThreadRecs /\ r.pc = "capture" /\ r.kind = th[t].kind /\ r.at = th[t].at
      /\ r.s = NoSample /\ r.path = "miss" /\ r.load = 1
      /\ r.same = th[t].same /\ r.cross = th[t].cross
      /\ r.samplings = th[t].samplings + 1 /\ r.carry = th[t].carry
  BY <1>2, SamplingFacts
<1>. HIDE DEF r
<1>5. th[t].samplings = 0 /\ th[t].same = 0 /\ th[t].cross = 0 /\ ~Custom /\ ~Fresh(t)
  BY <1>1 DEF IndInv, ThreadInv, BudgetInv
<1>6. MaxSameShardRetries \in Nat /\ MaxCrossShardRetries \in Nat
  BY SamplerAssumption
<1>7. /\ r.same <= MaxSameShardRetries /\ r.cross <= MaxCrossShardRetries
      /\ r.samplings = 1 /\ r.same = 0 /\ r.cross = 0
      /\ r.samplings <= (IF Custom \/ Fresh(t) THEN 1 ELSE 2) + r.same + r.cross
  BY <1>4, <1>5, <1>6
<1>. QED  BY <1>1, <1>3, <1>4, <1>5, <1>7, ReadStep


\* The miss path gives up for the slow one.
LEMMA MissFailInductive ==
    ASSUME IndInv, NEW t \in Threads, MissFail(t)
    PROVE  LockStep(t)
<1>. DEFINE x == th[t].at
            b == [shard[x] EXCEPT !.due = FALSE, !.appPub = 0]
            a == AdvanceWrites(b)
            r == Sampling(t, "slow")
<1>1. /\ th[t].pc = "lock" /\ th[t].path = "miss" /\ shard' = [shard EXCEPT ![x] = a]
      /\ th' = [th EXCEPT ![t] = r] /\ UNCHANGED <<epochs, co, started>>
  BY DEF MissFail, AtMiss
<1>2. TypeInv /\ x \in Shards /\ shard[x] \in ShardRecs
  BY <1>1 DEF IndInv, ThreadInv, LockInv, TypeInv
<1>3. b \in ShardRecs /\ SameSample(b, shard[x])
  BY <1>2 DEF ShardRecs, SameSample
<1>. HIDE DEF b
<1>4. a \in ShardRecs /\ SameSample(a, b)
  BY <1>3, AdvanceFacts
<1>5. SameSample(a, shard[x])
  BY <1>3, <1>4, SameSampleTrans
<1>. HIDE DEF a
<1>6. QuietShards
  BY <1>1, <1>2, <1>4, <1>5, QuietOne
<1>7. /\ r \in ThreadRecs /\ r.pc = "capture" /\ r.kind = th[t].kind /\ r.at = th[t].at
      /\ r.s = NoSample /\ r.path = "slow" /\ r.load = 1
      /\ r.same = th[t].same /\ r.cross = th[t].cross
      /\ r.samplings = th[t].samplings + 1 /\ r.carry = th[t].carry
  BY <1>2, SamplingFacts
<1>. HIDE DEF r
<1>8. th[t].samplings = 1 /\ th[t].same = 0 /\ th[t].cross = 0 /\ ~Custom /\ ~Fresh(t)
  BY <1>1 DEF IndInv, ThreadInv, BudgetInv, Reading
<1>9. MaxSameShardRetries \in Nat /\ MaxCrossShardRetries \in Nat
  BY SamplerAssumption
<1>10. /\ r.same <= MaxSameShardRetries /\ r.cross <= MaxCrossShardRetries
       /\ r.samplings <= (IF Custom \/ Fresh(t) THEN 1 ELSE 2) + r.same + r.cross
  BY <1>7, <1>8, <1>9
<1>. QED  BY <1>1, <1>6, <1>7, <1>10, ReadStep

\* advanceLockRetryBudgetLocked: another reading, charged to a budget.
LEMMA RetryInductive ==
    ASSUME IndInv, NEW t \in Threads, Retry(t)
    PROVE  LockStep(t)
<1>. DEFINE x == th[t].at
            j == Judged(x, th[t].s)
            m == SameShard(x, j.s)
            q == Sampling(t, "slow")
            n1 == IF m THEN q.same + 1 ELSE q.same
            n2 == IF m THEN q.cross ELSE q.cross + 1
            r == [q EXCEPT !.same = n1, !.cross = n2]
<1>1. /\ th[t].pc = "lock" /\ th[t].path = "slow" /\ ~Exhausted(t, x, j.s)
      /\ th' = [th EXCEPT ![t] = r] /\ UNCHANGED <<epochs, co, shard, started>>
  BY DEF Retry
<1>2. TypeInv /\ QuietShards /\ th[t] \in ThreadRecs
  BY <1>1, QuietSame DEF IndInv, TypeInv
<1>3. /\ q \in ThreadRecs /\ q.pc = "capture" /\ q.kind = th[t].kind /\ q.at = th[t].at
      /\ q.s = NoSample /\ q.path = "slow" /\ q.load = 1
      /\ q.same = th[t].same /\ q.cross = th[t].cross
      /\ q.samplings = th[t].samplings + 1 /\ q.carry = th[t].carry
  BY <1>2, SamplingFacts
<1>4. /\ th[t].same \in Nat /\ th[t].cross \in Nat /\ th[t].samplings \in Nat
      /\ th[t].same <= MaxSameShardRetries /\ th[t].cross <= MaxCrossShardRetries
      /\ th[t].samplings <= (IF Custom \/ Fresh(t) THEN 1 ELSE 2) + th[t].same + th[t].cross
      /\ MaxSameShardRetries \in Nat /\ MaxCrossShardRetries \in Nat
  BY <1>2, SamplerAssumption DEF IndInv, ThreadInv, BudgetInv, ThreadRecs
<1>5. /\ m => th[t].same + 1 <= MaxSameShardRetries
      /\ ~m => th[t].cross + 1 <= MaxCrossShardRetries
  BY <1>1, <1>4 DEF Exhausted
<1>. HIDE DEF q, m
<1>6. /\ n1 \in Nat /\ n2 \in Nat /\ n1 <= MaxSameShardRetries /\ n2 <= MaxCrossShardRetries
      /\ th[t].samplings + 1 <= (IF Custom \/ Fresh(t) THEN 1 ELSE 2) + n1 + n2
  BY <1>3, <1>4, <1>5
<1>. HIDE DEF n1, n2
<1>7. /\ r \in ThreadRecs /\ r.pc = "capture" /\ r.kind = q.kind /\ r.at = q.at
      /\ r.s = q.s /\ r.path = q.path /\ r.load = 1 /\ r.same = n1 /\ r.cross = n2
      /\ r.samplings = q.samplings /\ r.carry = q.carry
  BY <1>3, <1>6 DEF ThreadRecs
<1>. HIDE DEF r
<1>8. r.samplings <= (IF Custom \/ Fresh(t) THEN 1 ELSE 2) + r.same + r.cross
  BY <1>3, <1>6, <1>7
<1>. QED  BY <1>1, <1>2, <1>3, <1>6, <1>7, <1>8, ReadStep

\* The carried sample no longer applies.
LEMMA CarryFailInductive ==
    ASSUME IndInv, NEW t \in Threads, CarryFail(t)
    PROVE  LockStep(t)
<1>. DEFINE r == [th[t] EXCEPT !.pc = "enter", !.carry = NoCarry]
<1>1. TypeInv /\ th[t] \in ThreadRecs /\ ThreadInv(t) /\ th \in [Threads -> ThreadRecs]
  BY DEF IndInv, TypeInv
<1>2. /\ th[t].pc = "carry" /\ th' = [th EXCEPT ![t] = r]
      /\ UNCHANGED <<epochs, co, shard, started>>
  BY <1>1 DEF CarryFail
<1>3. QuietShards /\ started' \in Nat
  BY <1>1, <1>2, QuietSame DEF TypeInv
<1>4. /\ r \in ThreadRecs /\ r.pc = "enter" /\ r.kind = th[t].kind /\ r.at = th[t].at
      /\ r.s = th[t].s /\ r.same = th[t].same /\ r.cross = th[t].cross
      /\ r.samplings = th[t].samplings /\ r.carry = NoCarry
  BY <1>1, NullTypes DEF ThreadRecs, Stages
<1>5. th'[t] = r
  BY <1>1, <1>2
<1>. HIDE DEF r
<1>6. BudgetInv(t)'
  <2>1. th[t].samplings = 0 /\ th[t].same = 0 /\ th[t].cross = 0
    BY <1>1, <1>2 DEF ThreadInv, BudgetInv
  <2>. QED  BY <1>4, <1>5, <2>1, SamplerAssumption DEF BudgetInv, Reading
<1>7. r.at \in Shards
  BY <1>1, <1>2, <1>4 DEF ThreadInv, LockInv
<1>8. IndInv'
  BY <1>2, <1>3, <1>4, <1>6, <1>7, QuietStep
<1>9. AcquireFacts(t)
  BY <1>4, <1>5 DEF AcquireFacts, Acquires
<1>. QED  BY <1>8, <1>9 DEF LockStep

\* A nonempty set of shards has a first one.
LEMMA FirstIn ==
    ASSUME NEW S \in SUBSET Shards, S # {}
    PROVE  First(S) \in S
<1>1. S \subseteq Nat
  BY SamplerAssumption
<1>2. PICK x \in S : \A y \in S : ~(<<y, x>> \in OpToRel(<, Nat))
  BY <1>1, NatLessThanWellFounded, WFMin
<1>3. \A y \in S : x <= y
  <2>. SUFFICES ASSUME NEW y \in S, ~(x <= y)
                PROVE  FALSE
    OBVIOUS
  <2>1. y < x /\ x \in Nat /\ y \in Nat
    BY <1>1
  <2>2. <<y, x>> \in OpToRel(<, Nat)
    BY <2>1 DEF OpToRel
  <2>. QED  BY <1>2, <2>2
<1>. QED  BY <1>3 DEF First

\* Where the goroutine goes from a shard.
LEMMA MoveOnFacts ==
    ASSUME TypeInv, NEW t \in Threads, NEW c \in CarryRecs
    PROVE  LET m == MoveOn(t, c) IN
           /\ m \in ThreadRecs /\ m.pc \in {"idle", "enter", "carry"} /\ m.s = NoSample
           /\ m.samplings = 0 /\ m.same = 0 /\ m.cross = 0 /\ m.carry \in {c, NoCarry}
           /\ m.pc # "idle" => /\ m.at \in Shards /\ th[t].todo # {} /\ m.kind = th[t].kind
                               /\ \E x \in th[t].todo : m.todo = th[t].todo \ {x}
           /\ m.pc = "idle" => m = Idle
<1>1. th[t] \in ThreadRecs
  BY DEF TypeInv
<1>2. th[t].todo \in SUBSET Shards /\ th[t].kind \in {"none", "write", "prefix", "evaluate"}
  BY <1>1 DEF ThreadRecs
<1>3. CASE th[t].todo = {}
  <2>1. MoveOn(t, c) = Idle
    BY <1>3 DEF MoveOn
  <2>2. /\ Idle.pc = "idle" /\ Idle.s = NoSample /\ Idle.samplings = 0 /\ Idle.same = 0
        /\ Idle.cross = 0 /\ Idle.carry = NoCarry
    BY DEF Idle
  <2>. QED  BY <2>1, <2>2, NullTypes
<1>4. CASE th[t].todo # {}
  <2>. DEFINE f == First(th[t].todo)
              p == IF c.has THEN "carry" ELSE "enter"
              k == th[t].kind
              d == th[t].todo \ {f}
              m == [Idle EXCEPT !.pc = p, !.kind = k, !.at = f, !.todo = d, !.carry = c]
  <2>1. MoveOn(t, c) = m
    BY <1>4 DEF MoveOn
  <2>2. f \in th[t].todo
    BY <1>2, <1>4, FirstIn
  <2>3. /\ f \in Nodes /\ f \in Shards /\ p \in Stages /\ p \in {"enter", "carry"} /\ d \in SUBSET Shards
        /\ k = th[t].kind /\ d = th[t].todo \ {f}
    BY <1>2, <2>2 DEF Nodes, Stages
  <2>. HIDE DEF f, p, k, d
  <2>4. m \in ThreadRecs
    BY <1>2, <2>3, NullTypes DEF ThreadRecs
  <2>5. /\ m.pc = p /\ m.kind = k /\ m.at = f /\ m.todo = d /\ m.carry = c
        /\ m.s = NoSample /\ m.samplings = 0 /\ m.same = 0 /\ m.cross = 0
    BY DEF Idle
  <2>. HIDE DEF m
  <2>. QED  BY <1>4, <2>1, <2>2, <2>3, <2>4, <2>5
<1>. QED  BY <1>3, <1>4

\* DeletePrefix("") passes over a clean and empty shard.
LEMMA SkipEmptyInductive ==
    ASSUME IndInv, NEW t \in Threads, SkipEmpty(t)
    PROVE  LockStep(t)
<1>. DEFINE c == th[t].carry
            r == MoveOn(t, c)
<1>1. TypeInv /\ c \in CarryRecs
  BY OwnCarry DEF IndInv
<1>2. /\ th[t].pc \in {"enter", "carry"} /\ th' = [th EXCEPT ![t] = r]
      /\ UNCHANGED <<epochs, co, shard, started>>
  BY DEF SkipEmpty
<1>3. QuietShards /\ started' \in Nat /\ th'[t] = r
  BY <1>1, <1>2, QuietSame DEF TypeInv
<1>. HIDE DEF c
<1>4. /\ r \in ThreadRecs /\ r.pc \in {"idle", "enter", "carry"} /\ r.s = NoSample
      /\ r.samplings = 0 /\ r.same = 0 /\ r.cross = 0 /\ r.carry \in {c, NoCarry}
      /\ r.pc # "idle" => r.at \in Shards
  BY <1>1, MoveOnFacts
<1>. HIDE DEF r
<1>5. BudgetInv(t)'
  BY <1>3, <1>4, SamplerAssumption DEF BudgetInv, Reading
<1>6. IndInv'
  BY <1>2, <1>3, <1>4, <1>5, QuietStep DEF c
<1>7. AcquireFacts(t)
  BY <1>3, <1>4 DEF AcquireFacts, Acquires
<1>. QED  BY <1>6, <1>7 DEF LockStep


\* lockWithPressure: a path is chosen.
LEMMA EnterInductive ==
    ASSUME IndInv, NEW t \in Threads, Enter(t)
    PROVE  LockStep(t)
<1>. DEFINE x == th[t].at
            r == EnterLock(t)
<1>1. /\ th[t].pc = "enter" /\ th' = [th EXCEPT ![t] = r] /\ shard' = TakeDue(t)
      /\ UNCHANGED <<epochs, co, started>>
  BY DEF Enter
<1>2. /\ TypeInv /\ ThreadInv(t) /\ th[t] \in ThreadRecs /\ x \in Shards /\ shard[x] \in ShardRecs
      /\ started' \in Nat /\ th'[t] = r
  BY <1>1 DEF IndInv, TypeInv, ThreadInv, LockInv
<1>3. QuietShards
  <2>1. CASE Fresh(t) \/ Custom
    BY <1>1, <1>2, <2>1, QuietSame DEF TakeDue
  <2>2. CASE ~(Fresh(t) \/ Custom)
    <3>1. shard' = [shard EXCEPT ![x] = [shard[x] EXCEPT !.due = FALSE]]
      BY <1>1, <2>2 DEF TakeDue
    <3>. QED  BY <1>2, <3>1, AdvanceFacts, QuietOne
  <2>. QED  BY <2>1, <2>2
<1>4. /\ th[t].samplings = 0 /\ th[t].same = 0 /\ th[t].cross = 0
      /\ MaxSameShardRetries \in Nat /\ MaxCrossShardRetries \in Nat
  BY <1>1, <1>2, SamplerAssumption DEF ThreadInv, BudgetInv
<1>5. ASSUME NEW path \in {"slow", "miss"}, r = Sampling(t, path),
             path = "miss" => ~Custom /\ ~Fresh(t)
      PROVE  LockStep(t)
  <2>1. /\ r \in ThreadRecs /\ r.pc = "capture" /\ r.kind = th[t].kind /\ r.at = th[t].at
        /\ r.s = NoSample /\ r.path = path /\ r.load = 1
        /\ r.same = th[t].same /\ r.cross = th[t].cross
        /\ r.samplings = th[t].samplings + 1 /\ r.carry = th[t].carry
    BY <1>2, <1>5, SamplingFacts
  <2>. HIDE DEF r
  <2>2. /\ r.same <= MaxSameShardRetries /\ r.cross <= MaxCrossShardRetries
        /\ path = "miss" => ~Custom /\ ~Fresh(t) /\ r.samplings = 1 /\ r.same = 0 /\ r.cross = 0
        /\ r.samplings <= (IF Custom \/ Fresh(t) THEN 1 ELSE 2) + r.same + r.cross
    BY <1>4, <1>5, <2>1
  <2>. QED  BY <1>1, <1>3, <2>1, <2>2, ReadStep
<1>6. ASSUME r = [th[t] EXCEPT !.pc = "fast"], ~Custom, ~Fresh(t)
      PROVE  LockStep(t)
  <2>1. /\ r \in ThreadRecs /\ r.pc = "fast" /\ r.kind = th[t].kind /\ r.at = th[t].at
        /\ r.s = th[t].s /\ r.same = th[t].same /\ r.cross = th[t].cross
        /\ r.samplings = th[t].samplings /\ r.carry = th[t].carry
    BY <1>2, <1>6 DEF ThreadRecs, Stages
  <2>. HIDE DEF r
  <2>2. Fresh(t)' <=> Fresh(t)
    BY <1>2, <2>1 DEF Fresh
  <2>3. BudgetInv(t)'
    BY <1>2, <1>4, <1>6, <2>1, <2>2 DEF BudgetInv, Reading
  <2>4. IndInv'
    BY <1>1, <1>2, <1>3, <2>1, <2>3, QuietStep
  <2>5. AcquireFacts(t)
    BY <1>2, <2>1 DEF AcquireFacts, Acquires
  <2>. QED  BY <2>4, <2>5 DEF LockStep
<1>7. \/ r = Sampling(t, "slow")
      \/ ~Custom /\ ~Fresh(t) /\ r \in {Sampling(t, "miss"), [th[t] EXCEPT !.pc = "fast"]}
  BY DEF EnterLock
<1>. QED  BY <1>5, <1>6, <1>7

\* An operation begins.
LEMMA BeginInductive ==
    ASSUME IndInv, NEW t \in Threads, NEW k \in Kinds, NEW x \in Shards, Begin(t, k, x)
    PROVE  LockStep(t)
<1>. DEFINE d == IF k = "write" THEN {} ELSE Shards \ {x}
            r == [Idle EXCEPT !.pc = "enter", !.kind = k, !.at = x, !.todo = d]
<1>1. /\ th[t].pc = "idle" /\ th' = [th EXCEPT ![t] = r] /\ started' = started + 1
      /\ UNCHANGED <<epochs, co, shard>>
  BY DEF Begin
<1>2. TypeInv /\ QuietShards /\ started' \in Nat /\ th'[t] = r
  BY <1>1, QuietSame DEF IndInv, TypeInv
<1>3. d \in SUBSET Shards /\ x \in Nodes /\ k \in {"none", "write", "prefix", "evaluate"}
  BY SamplerAssumption DEF Nodes
<1>. HIDE DEF d
<1>4. r \in ThreadRecs
  BY <1>3, NullTypes DEF ThreadRecs, Stages
<1>5. /\ r.pc = "enter" /\ r.at = x /\ r.s = NoSample /\ r.samplings = 0 /\ r.same = 0 /\ r.cross = 0
      /\ r.carry = NoCarry
  BY DEF Idle
<1>. HIDE DEF r
<1>6. BudgetInv(t)'
  BY <1>2, <1>5, SamplerAssumption DEF BudgetInv, Reading
<1>7. IndInv'
  BY <1>1, <1>2, <1>4, <1>5, <1>6, QuietStep
<1>8. AcquireFacts(t)
  BY <1>2, <1>5 DEF AcquireFacts, Acquires
<1>. QED  BY <1>7, <1>8 DEF LockStep

-----------------------------------------------------------------------------
(* Taking a reading                                                        *)

\* The sample and the position after the i-th load.
CaptureSample(t) ==
    LET s == th[t].s
        i == th[t].load
    IN  CASE i = 1 -> [s EXCEPT !.shardExt = externalEpoch[th[t].at],
                                !.shardEpoch = reclaimEpoch[th[t].at]]
          [] i = 2 -> [s EXCEPT !.ext = externalEpoch[Coord], !.epoch = CurEpoch]
          [] i = 3 -> [s EXCEPT !.bt1 = co.bt1, !.bt2 = co.bt2]
          [] i = 4 -> [s EXCEPT !.seq = co.invokeSeq + 1]

\* invokeAndStorePressure: one of the loads before PressureFunc is called.
LEMMA CaptureInductive ==
    ASSUME IndInv, NEW t \in Threads, Capture(t)
    PROVE  LockStep(t)
<1>. DEFINE x == th[t].at
            i == th[t].load
            s == th[t].s
            z == CaptureSample(t)
            ld == IF i = 4 THEN 0 ELSE i + 1
            p == IF i = 4 THEN "hook" ELSE "capture"
            pp == IF i = 1 THEN co.panics ELSE th[t].prePanics
            r == [th[t] EXCEPT !.load = ld, !.pc = p, !.prePanics = pp, !.s = z]
            inv == co.invokeSeq + 1
<1>1. /\ TypeInv /\ ThreadInv(t) /\ th[t] \in ThreadRecs /\ th \in [Threads -> ThreadRecs]
      /\ th[t].pc = "capture" /\ CoInv /\ co \in CoordinatorRecs /\ Coord \in Nodes
      /\ reentrant \in [Nodes -> SUBSET Threads]
  BY DEF IndInv, TypeInv, Capture, Nodes
<1>2. /\ th' = [th EXCEPT ![t].load = ld, ![t].pc = p, ![t].prePanics = IF i = 1 THEN co.panics ELSE @,
                          ![t].s = z]
      /\ co' = IF i = 4 THEN [co EXCEPT !.invokeSeq = inv] ELSE co
      /\ reentrant' = IF i = 1 THEN ClearReentrant(t) ELSE reentrant
      /\ atReading' = IF i = 2 THEN [atReading EXCEPT ![t] = reclaims] ELSE atReading
      /\ UNCHANGED <<reclaimEpoch, externalEpoch, lastReentrant, shard, reclaims, started>>
  BY DEF Capture, CaptureSample
<1>3. th' = [th EXCEPT ![t] = r]
  BY <1>1, <1>2
<1>4. /\ i \in 1..4 /\ x \in Shards /\ x \in Nodes /\ s \in SampleRecs
  BY <1>1 DEF ThreadInv, BudgetInv, LockInv, ThreadRecs, Nodes
<1>5. /\ co.invokeSeq \in Nat /\ co.panics \in Nat /\ co.bt1 \in Nat /\ co.bt2 \in Nat /\ CurEpoch \in Nat
      /\ externalEpoch[x] \in Nat /\ reclaimEpoch[x] \in Nat /\ externalEpoch[Coord] \in Nat
      /\ inv \in Nat /\ co.invokeSeq <= inv
      /\ co.low1 \in Nat /\ co.low2 \in Nat /\ co.lastSeq \in Nat /\ co.cSeq \in Nat
  BY <1>1, <1>4 DEF TypeInv, CoordinatorRecs, CurEpoch
<1>6. s.val = 0 /\ s.seq \in Nat /\ s.bt1 \in Nat /\ s.bt2 \in Nat /\ s.epoch \in Nat /\ s.ext \in Nat
  BY <1>1, <1>4 DEF ThreadInv, SampleInv, SampleRecs
<1>. HIDE DEF inv
<1>7. /\ z \in SampleRecs /\ z.val = s.val
      /\ z.seq = IF i = 4 THEN inv ELSE s.seq
      /\ z.bt1 = IF i = 3 THEN co.bt1 ELSE s.bt1
      /\ z.bt2 = IF i = 3 THEN co.bt2 ELSE s.bt2
      /\ z.epoch = IF i = 2 THEN CurEpoch ELSE s.epoch
      /\ z.ext = IF i = 2 THEN externalEpoch[Coord] ELSE s.ext
  <2>. DEFINE e1 == externalEpoch[x]
              e2 == reclaimEpoch[x]
              e3 == externalEpoch[Coord]
              e4 == CurEpoch
              e5 == co.bt1
              e6 == co.bt2
  <2>1. /\ e1 \in Nat /\ e2 \in Nat /\ e3 \in Nat /\ e4 \in Nat /\ e5 \in Nat /\ e6 \in Nat
        /\ e3 = externalEpoch[Coord] /\ e4 = CurEpoch /\ e5 = co.bt1 /\ e6 = co.bt2
    BY <1>5
  <2>2. CASE i = 1
    <3>1. z = [s EXCEPT !.shardExt = e1, !.shardEpoch = e2]
      BY <2>2 DEF CaptureSample
    <3>. HIDE DEF e1, e2, z, s, i
    <3>2. z \in SampleRecs
      BY <1>4, <2>1, <3>1 DEF SampleRecs
    <3>3. z.val = s.val /\ z.seq = s.seq /\ z.bt1 = s.bt1 /\ z.bt2 = s.bt2 /\ z.epoch = s.epoch /\ z.ext = s.ext
      BY <1>4, <3>1 DEF SampleRecs
    <3>. QED  BY <2>1, <2>2, <3>2, <3>3
  <2>3. CASE i = 2
    <3>1. z = [s EXCEPT !.ext = e3, !.epoch = e4]
      BY <2>3 DEF CaptureSample
    <3>. HIDE DEF e3, e4, z, s, i
    <3>2. z \in SampleRecs
      BY <1>4, <2>1, <3>1 DEF SampleRecs
    <3>3. z.val = s.val /\ z.seq = s.seq /\ z.bt1 = s.bt1 /\ z.bt2 = s.bt2 /\ z.epoch = e4 /\ z.ext = e3
      BY <1>4, <3>1 DEF SampleRecs
    <3>. QED  BY <2>1, <2>3, <3>2, <3>3
  <2>4. CASE i = 3
    <3>1. z = [s EXCEPT !.bt1 = e5, !.bt2 = e6]
      BY <2>4 DEF CaptureSample
    <3>. HIDE DEF e5, e6, z, s, i
    <3>2. z \in SampleRecs
      BY <1>4, <2>1, <3>1 DEF SampleRecs
    <3>3. z.val = s.val /\ z.seq = s.seq /\ z.bt1 = e5 /\ z.bt2 = e6 /\ z.epoch = s.epoch /\ z.ext = s.ext
      BY <1>4, <3>1 DEF SampleRecs
    <3>. QED  BY <2>1, <2>4, <3>2, <3>3
  <2>5. CASE i = 4
    <3>1. z = [s EXCEPT !.seq = inv]
      BY <2>5 DEF CaptureSample, inv
    <3>. HIDE DEF z, s
    <3>. QED  BY <1>4, <1>5, <2>5, <3>1 DEF SampleRecs
  <2>. QED  BY <1>4, <2>2, <2>3, <2>4, <2>5
<1>8. ld \in 0..4 /\ p \in Stages /\ pp \in Nat
  BY <1>1, <1>4, <1>5 DEF Stages, Reading, ThreadRecs
<1>9. /\ p = "hook" <=> i = 4
      /\ p = "capture" <=> i # 4
      /\ p = "capture" => ld = i + 1 /\ ld \in 1..4
  BY <1>4
<1>. HIDE DEF z, ld, p, pp
<1>10. r \in ThreadRecs
  BY <1>1, <1>7, <1>8 DEF ThreadRecs
<1>11. /\ r.pc = p /\ r.load = ld /\ r.s = z /\ r.kind = th[t].kind /\ r.at = x /\ r.carry = th[t].carry
       /\ r.same = th[t].same /\ r.cross = th[t].cross /\ r.samplings = th[t].samplings
       /\ r.path = th[t].path
  BY <1>1 DEF ThreadRecs
<1>12. th'[t] = r /\ th' \in [Threads -> ThreadRecs] /\ \A u \in Threads \ {t} : th'[u] = th[u]
  BY <1>1, <1>3, <1>10
<1>. HIDE DEF r, i, s, x
<1>13. /\ co' \in CoordinatorRecs /\ co.invokeSeq <= co'.invokeSeq
       /\ i = 4 => co'.invokeSeq = inv
       /\ i # 4 => co'.invokeSeq = co.invokeSeq
       /\ co'.bt1 = co.bt1 /\ co'.bt2 = co.bt2 /\ co'.low1 = co.low1 /\ co'.low2 = co.low2
       /\ co'.lastSeq = co.lastSeq /\ co'.lastEpoch = co.lastEpoch /\ co'.lastVal = co.lastVal
       /\ co'.lastSeen = co.lastSeen /\ co'.cEpoch = co.cEpoch /\ co'.cBt1 = co.cBt1 /\ co'.cBt2 = co.cBt2
       /\ co'.cSeq = co.cSeq /\ co'.cVal = co.cVal /\ co'.cSeen = co.cSeen
  BY <1>1, <1>2, <1>5 DEF CoordinatorRecs
<1>14. CoAdvances
  BY <1>5, <1>13 DEF CoAdvances
<1>15. /\ CurEpoch' = CurEpoch /\ reclaims' = reclaims /\ EpochAdvances
  BY <1>2, <1>5 DEF CurEpoch, EpochAdvances
<1>16. reentrant' \in [Nodes -> SUBSET Threads]
       /\ \A n \in Nodes : reentrant'[n] \subseteq reentrant[n] /\ (i = 1 => t \notin reentrant'[n])
  BY <1>1, <1>2 DEF ClearReentrant
<1>17. /\ atReading' \in [Threads -> Counts] /\ (i = 2 => atReading'[t] = reclaims)
       /\ i # 2 => atReading' = atReading
       /\ \A u \in Threads \ {t} : atReading'[u] = atReading[u]
  BY <1>1, <1>2 DEF TypeInv
<1>18. TypeInv'
  BY <1>1, <1>2, <1>12, <1>13, <1>16, <1>17 DEF TypeInv
<1>19. CoInv'
  <2>1. /\ co.low1 <= co.lastSeq /\ co.low2 <= co.lastSeq
        /\ co.lastSeq <= co.invokeSeq /\ co.cSeq <= co.invokeSeq
        /\ RecoveryOK(co, co.cVal, co.cBt1, co.cBt2, co.cSeq)
        /\ EpochOK(CurEpoch, reclaims, co.cVal, co.cEpoch, co.cSeen)
        /\ EpochOK(CurEpoch, reclaims, co.lastVal, co.lastEpoch, co.lastSeen)
        /\ \A n \in Nodes : lastReentrant[n] = Nobody => reentrant[n] = {}
    BY <1>1 DEF CoInv
  <2>2. co'.invokeSeq \in Nat
    BY <1>13 DEF CoordinatorRecs
  <2>3. /\ co'.low1 <= co'.lastSeq /\ co'.low2 <= co'.lastSeq
        /\ co'.lastSeq <= co'.invokeSeq /\ co'.cSeq <= co'.invokeSeq
    BY <1>5, <1>13, <2>1, <2>2
  <2>4. RecoveryOK(co', co'.cVal, co'.cBt1, co'.cBt2, co'.cSeq)
    BY <1>13, <2>1 DEF RecoveryOK
  <2>5. /\ EpochOK(CurEpoch', reclaims', co'.cVal, co'.cEpoch, co'.cSeen)
        /\ EpochOK(CurEpoch', reclaims', co'.lastVal, co'.lastEpoch, co'.lastSeen)
    BY <1>13, <1>15, <2>1
  <2>6. \A n \in Nodes : lastReentrant'[n] = Nobody => reentrant'[n] = {}
    BY <1>2, <1>16, <2>1
  <2>. QED  BY <2>3, <2>4, <2>5, <2>6 DEF CoInv
<1>20. ShardInv'
  BY <1>2, <1>13 DEF IndInv, ShardInv
<1>21. Beside(t)
  BY <1>2, <1>12, <1>16, <1>17 DEF Beside
<1>22. ThreadInv(t)'
  <2>1. LockInv(t)'
    BY <1>1, <1>2, <1>4, <1>9, <1>11, <1>12 DEF ThreadInv, LockInv, x
  <2>2. BudgetInv(t)'
    <3>1. Fresh(t)' <=> Fresh(t)
      BY <1>11, <1>12 DEF Fresh
    <3>. QED  BY <1>1, <1>4, <1>9, <1>11, <1>12, <3>1 DEF ThreadInv, BudgetInv, Reading
  <2>3. SampleInv(t)'
    <3>1. /\ s.seq <= co.invokeSeq /\ RecoveryOK(co, s.val, s.bt1, s.bt2, s.seq)
          /\ EpochOK(CurEpoch, reclaims, s.val, s.epoch, s.seen)
          /\ i > 2 => /\ s.epoch = CurEpoch => atReading[t] = reclaims
                      /\ s.ext <= externalEpoch[Coord]
          /\ \A n \in Nodes : t \notin reentrant[n]
      BY <1>1, NotInside DEF ThreadInv, SampleInv, s, i
    <3>2. z.seq <= co'.invokeSeq
      BY <1>5, <1>6, <1>7, <1>13, <3>1
    <3>3. z.val = 0 /\ z.bt1 <= co'.bt1 /\ z.bt2 <= co'.bt2 /\ z.epoch <= CurEpoch
      BY <1>5, <1>6, <1>7, <1>13, <3>1 DEF RecoveryOK, EpochOK
    <3>4. RecoveryOK(co', z.val, z.bt1, z.bt2, z.seq) /\ EpochOK(CurEpoch', reclaims', z.val, z.epoch, z.seen)
      BY <1>15, <3>3 DEF RecoveryOK, EpochOK, Tier1, Tier2
    <3>5. (p = "capture" /\ ld > 2) \/ p = "hook" =>
             /\ z.epoch = CurEpoch' => atReading'[t] = reclaims'
             /\ z.ext <= externalEpoch'[Coord]
      <4>1. CASE i = 1
        BY <1>9, <4>1
      <4>2. CASE i = 2
        BY <1>2, <1>5, <1>7, <1>15, <1>17, <4>2
      <4>3. CASE i > 2
        BY <1>2, <1>4, <1>7, <1>15, <1>17, <3>1, <4>3
      <4>. QED  BY <1>4, <4>1, <4>2, <4>3
    <3>6. p = "hook" => \A v \in Levels : RecoveryOK(co', v, z.bt1, z.bt2, z.seq)
      <4>1. CASE i = 4
        <5>1. z.seq = inv /\ co'.low1 <= inv /\ co'.low2 <= inv
          BY <1>1, <1>5, <1>7, <1>13, <4>1 DEF CoInv
        <5>. QED  BY <3>3, <5>1 DEF RecoveryOK
      <4>2. CASE i # 4
        BY <1>9, <4>2
      <4>. QED  BY <4>1, <4>2
    <3>7. \A n \in Nodes : t \notin reentrant'[n]
      BY <1>16, <3>1
    <3>. QED  BY <1>1, <1>11, <1>12, <3>2, <3>3, <3>4, <3>5, <3>6, <3>7 DEF SampleInv
  <2>4. CarryInv(t)'
    <3>. DEFINE c == th[t].carry
    <3>1. /\ c \in CarryRecs /\ RecoveryOK(co, c.val, c.bt1, c.bt2, c.seq)
          /\ OthersOK(CurEpoch, reclaims, t, c.val, c.epoch, c.seen)
      BY OwnCarry
    <3>. HIDE DEF c
    <3>2. RecoveryOK(co', c.val, c.bt1, c.bt2, c.seq)
      BY <1>13, <3>1 DEF RecoveryOK
    <3>. QED  BY <1>11, <1>12, <1>15, <3>1, <3>2 DEF CarryInv, c
  <2>5. HoldInv(t)'
    BY <1>9, <1>11, <1>12 DEF HoldInv
  <2>. QED  BY <2>1, <2>2, <2>3, <2>4, <2>5 DEF ThreadInv
<1>23. IndInv'
  BY <1>14, <1>15, <1>18, <1>19, <1>20, <1>21, <1>22, Assemble
<1>24. AcquireFacts(t)
  BY <1>9, <1>11, <1>12 DEF AcquireFacts, Acquires
<1>. QED  BY <1>23, <1>24 DEF LockStep


\* PressureFunc panics: the operation is over, and nothing was learnt.
LEMMA PanicInductive ==
    ASSUME IndInv, NEW t \in Threads, Panic(t)
    PROVE  LockStep(t)
<1>. DEFINE pn == co.panics + 1
<1>1. /\ TypeInv /\ ThreadInv(t) /\ th \in [Threads -> ThreadRecs]
      /\ th[t].pc = "hook" /\ CoInv /\ co \in CoordinatorRecs /\ Coord \in Nodes
      /\ reentrant \in [Nodes -> SUBSET Threads] /\ CurEpoch \in Nat /\ externalEpoch[Coord] \in Nat
  BY DEF IndInv, TypeInv, Panic, Nodes, CurEpoch
<1>2. /\ th' = [th EXCEPT ![t] = Idle] /\ co' = [co EXCEPT !.panics = pn]
      /\ reentrant' = ClearReentrant(t)
      /\ UNCHANGED <<reclaimEpoch, externalEpoch, lastReentrant, shard, reclaims, atReading, started>>
  BY DEF Panic
<1>3. pn \in Nat
  BY <1>1 DEF CoordinatorRecs
<1>. HIDE DEF pn
<1>4. /\ co' \in CoordinatorRecs
      /\ co'.invokeSeq = co.invokeSeq
      /\ co'.bt1 = co.bt1 /\ co'.bt2 = co.bt2 /\ co'.low1 = co.low1 /\ co'.low2 = co.low2
      /\ co'.lastSeq = co.lastSeq /\ co'.lastEpoch = co.lastEpoch /\ co'.lastVal = co.lastVal
      /\ co'.lastSeen = co.lastSeen /\ co'.cEpoch = co.cEpoch /\ co'.cBt1 = co.cBt1 /\ co'.cBt2 = co.cBt2
      /\ co'.cSeq = co.cSeq /\ co'.cVal = co.cVal /\ co'.cSeen = co.cSeen
  BY <1>1, <1>2, <1>3 DEF CoordinatorRecs
<1>5. CoAdvances
  BY <1>1, <1>4 DEF CoAdvances, CoordinatorRecs
<1>6. /\ CurEpoch' = CurEpoch /\ reclaims' = reclaims /\ EpochAdvances
  BY <1>1, <1>2 DEF CurEpoch, EpochAdvances
<1>7. reentrant' \in [Nodes -> SUBSET Threads]
      /\ \A n \in Nodes : reentrant'[n] \subseteq reentrant[n] /\ t \notin reentrant'[n]
  BY <1>1, <1>2 DEF ClearReentrant
<1>8. th' \in [Threads -> ThreadRecs] /\ th'[t] = Idle /\ \A u \in Threads \ {t} : th'[u] = th[u]
  BY <1>1, <1>2, NullTypes
<1>9. TypeInv'
  BY <1>1, <1>2, <1>4, <1>7, <1>8 DEF TypeInv
<1>10. CoInv'
  <2>1. /\ co.low1 <= co.lastSeq /\ co.low2 <= co.lastSeq
        /\ co.lastSeq <= co.invokeSeq /\ co.cSeq <= co.invokeSeq
        /\ RecoveryOK(co, co.cVal, co.cBt1, co.cBt2, co.cSeq)
        /\ EpochOK(CurEpoch, reclaims, co.cVal, co.cEpoch, co.cSeen)
        /\ EpochOK(CurEpoch, reclaims, co.lastVal, co.lastEpoch, co.lastSeen)
        /\ \A n \in Nodes : lastReentrant[n] = Nobody => reentrant[n] = {}
    BY <1>1 DEF CoInv
  <2>2. RecoveryOK(co', co'.cVal, co'.cBt1, co'.cBt2, co'.cSeq)
    BY <1>4, <2>1 DEF RecoveryOK
  <2>3. \A n \in Nodes : lastReentrant'[n] = Nobody => reentrant'[n] = {}
    BY <1>2, <1>7, <2>1
  <2>. QED  BY <1>4, <1>6, <2>1, <2>2, <2>3 DEF CoInv
<1>11. ShardInv'
  BY <1>2, <1>4 DEF IndInv, ShardInv
<1>12. Beside(t)
  BY <1>2, <1>7, <1>8 DEF Beside
<1>13. /\ Idle.pc = "idle" /\ Idle.s = NoSample /\ Idle.carry = NoCarry
       /\ Idle.samplings = 0 /\ Idle.same = 0 /\ Idle.cross = 0
  BY DEF Idle
<1>14. LockInv(t)'
  BY <1>1, <1>2, <1>8, <1>13 DEF ThreadInv, LockInv
<1>15. BudgetInv(t)'
  BY <1>8, <1>13, SamplerAssumption DEF BudgetInv, Reading
<1>16. SampleInv(t)'
  BY <1>1, <1>5, <1>6, <1>7, <1>8, <1>9, <1>13, NoSampleInv
<1>17. CarryInv(t)'
  BY <1>1, <1>5, <1>6, <1>8, <1>9, <1>13, NullKept DEF CarryInv
<1>18. HoldInv(t)'
  BY <1>8, <1>13 DEF HoldInv
<1>19. IndInv'
  BY <1>5, <1>6, <1>9, <1>10, <1>11, <1>12, <1>14, <1>15, <1>16, <1>17, <1>18, Assemble
     DEF ThreadInv
<1>20. AcquireFacts(t)
  BY <1>8, <1>13 DEF AcquireFacts, Acquires
<1>. QED  BY <1>19, <1>20 DEF LockStep

-----------------------------------------------------------------------------
(* Reclamation                                                             *)

\* What t does to the epochs by own reclamations, 0 or 1.
Reclaims(t, own) ==
    /\ co' \in CoordinatorRecs /\ CoAdvances /\ CoInv' /\ EpochAdvances
    /\ CurEpoch' = CurEpoch + own /\ co'.bt1 = co.bt1 /\ co'.bt2 = co.bt2
    /\ co'.low1 = co.low1 /\ co'.low2 = co.low2
    /\ reclaimEpoch' \in [Nodes -> Nat] /\ externalEpoch' \in [Nodes -> Nat]
    /\ reentrant' \in [Nodes -> SUBSET Threads]
    /\ lastReentrant' \in [Nodes -> Threads \cup {Nobody}]
    /\ reclaims' \in Counts /\ atReading' \in [Threads -> Counts]
    /\ \A u \in Threads \ {t} :
         /\ reclaims'[u] = reclaims[u] /\ atReading'[u] = atReading[u]
         /\ \A n \in Nodes : u \in reentrant'[n] => u \in reentrant[n]
         /\ lastReentrant'[Coord] = u => lastReentrant[Coord] = u /\ reclaims' = reclaims

\* An operation that leaves without a reclamation.
LEMMA NoReclaim ==
    ASSUME IndInv, NEW t \in Threads, UNCHANGED <<epochs, co>>
    PROVE  Reclaims(t, 0)
<1>1. TypeInv /\ CoStep /\ CurEpoch' = CurEpoch /\ CurEpoch \in Nat /\ externalEpoch[Coord] \in Nat
  BY CoSame DEF IndInv, TypeInv, CurEpoch, epochs, Nodes
<1>2. EpochAdvances
  BY <1>1 DEF EpochAdvances, epochs
<1>. QED  BY <1>1, <1>2 DEF Reclaims, CoStep, TypeInv, epochs

\* markReclaimedFromShard begins an epoch, and makes no sample current.
LEMMA MarkReclaimedFacts ==
    ASSUME IndInv, NEW t \in Threads, NEW x \in Shards, NEW inside \in BOOLEAN,
           MarkReclaimed(x, t, inside)
    PROVE  /\ Reclaims(t, 1)
           /\ ~inside => \A n \in Nodes : reentrant'[n] \subseteq reentrant[n]
           /\ inside => atReading'[t] = reclaims' /\ externalEpoch' = externalEpoch
<1>. DEFINE ps == BeginSeq(co)
<1>1. /\ TypeInv /\ CoInv /\ co \in CoordinatorRecs /\ Coord \in Nodes /\ x \in Nodes
      /\ reclaimEpoch \in [Nodes -> Nat] /\ externalEpoch \in [Nodes -> Nat]
      /\ reentrant \in [Nodes -> SUBSET Threads] /\ CurEpoch \in Nat
      /\ lastReentrant \in [Nodes -> Threads \cup {Nobody}]
      /\ reclaims \in Counts /\ atReading \in [Threads -> Counts]
  BY DEF IndInv, TypeInv, Nodes, CurEpoch
<1>2. /\ co' = [co EXCEPT !.pubSeq = ps, !.refresh = TRUE, !.init = FALSE, !.cVal = 0]
      /\ reclaimEpoch' = [n \in Nodes |->
           reclaimEpoch[n] + IF n \in {x, Coord} THEN 1 ELSE 0]
      /\ externalEpoch' = [n \in Nodes |->
           externalEpoch[n] + IF n \in {x, Coord} /\ ~inside THEN 1 ELSE 0]
      /\ reentrant' = [n \in Nodes |->
           IF n \notin {x, Coord} THEN reentrant[n]
           ELSE IF inside THEN reentrant[n] \cup {t} ELSE {}]
      /\ lastReentrant' = [n \in Nodes |->
           IF n \notin {x, Coord} THEN lastReentrant[n]
           ELSE IF inside THEN t ELSE Nobody]
      /\ reclaims' = [reclaims EXCEPT ![t] = @ + 1]
      /\ atReading' = IF inside THEN [atReading EXCEPT ![t] = reclaims'] ELSE atReading
  BY DEF MarkReclaimed
<1>3. ps \in Nat
  BY <1>1 DEF BeginSeq, CoordinatorRecs
<1>. HIDE DEF ps
<1>4. co' \in CoordinatorRecs
  <2>1. co' = [co EXCEPT !.pubSeq = ps, !.refresh = TRUE, !.init = FALSE, !.cVal = 0]
    BY <1>2
  <2>2. co \in CoordinatorRecs /\ 0 \in Levels
    BY <1>1 DEF Levels
  <2>. QED  BY <1>3, <2>1, <2>2 DEF CoordinatorRecs
<1>5. /\ co'.invokeSeq = co.invokeSeq
      /\ co'.bt1 = co.bt1 /\ co'.bt2 = co.bt2 /\ co'.low1 = co.low1 /\ co'.low2 = co.low2
      /\ co'.lastSeq = co.lastSeq /\ co'.lastEpoch = co.lastEpoch /\ co'.lastVal = co.lastVal
      /\ co'.lastSeen = co.lastSeen /\ co'.cEpoch = co.cEpoch /\ co'.cBt1 = co.cBt1 /\ co'.cBt2 = co.cBt2
      /\ co'.cSeq = co.cSeq /\ co'.cVal = 0 /\ co'.cSeen = co.cSeen
  BY <1>1, <1>2 DEF CoordinatorRecs
<1>6. CoAdvances
  BY <1>1, <1>5 DEF CoAdvances, CoordinatorRecs
<1>7. reclaimEpoch' \in [Nodes -> Nat] /\ CurEpoch' = CurEpoch + 1
  BY <1>1, <1>2 DEF CurEpoch
<1>8. /\ externalEpoch' \in [Nodes -> Nat]
      /\ \A n \in Nodes : externalEpoch[n] <= externalEpoch'[n]
      /\ inside => externalEpoch' = externalEpoch
  <2>1. externalEpoch' \in [Nodes -> Nat] /\ \A n \in Nodes : externalEpoch[n] <= externalEpoch'[n]
    BY <1>1, <1>2
  <2>2. ASSUME inside
        PROVE  externalEpoch' = externalEpoch
    <3>1. \A n \in Nodes : externalEpoch'[n] = externalEpoch[n]
      BY <1>1, <1>2, <2>2
    <3>. QED  BY <1>1, <2>1, <3>1
  <2>. QED  BY <2>1, <2>2
<1>9. EpochAdvances
  BY <1>1, <1>7, <1>8 DEF EpochAdvances
<1>10. /\ reentrant' \in [Nodes -> SUBSET Threads]
       /\ \A u \in Threads \ {t}, n \in Nodes : u \in reentrant'[n] => u \in reentrant[n]
       /\ ~inside => \A n \in Nodes : reentrant'[n] \subseteq reentrant[n]
  BY <1>1, <1>2
<1>11. /\ lastReentrant' \in [Nodes -> Threads \cup {Nobody}]
       /\ lastReentrant'[Coord] \in {t, Nobody}
       /\ \A n \in Nodes : lastReentrant'[n] = Nobody => reentrant'[n] = {}
  <2>1. Nobody # t /\ \A n \in Nodes : lastReentrant[n] = Nobody => reentrant[n] = {}
    BY <1>1, SamplerAssumption DEF CoInv
  <2>. QED  BY <1>1, <1>2, <2>1
<1>12. /\ reclaims' \in Counts /\ \A u \in Threads \ {t} : reclaims'[u] = reclaims[u]
  BY <1>1, <1>2 DEF Counts
<1>13. /\ atReading' \in [Threads -> Counts] /\ (inside => atReading'[t] = reclaims')
       /\ \A u \in Threads \ {t} : atReading'[u] = atReading[u]
  BY <1>1, <1>2, <1>12
<1>14. CoInv'
  <2>1. /\ co.low1 <= co.lastSeq /\ co.low2 <= co.lastSeq
        /\ co.lastSeq <= co.invokeSeq /\ co.cSeq <= co.invokeSeq
        /\ RecoveryOK(co, co.cVal, co.cBt1, co.cBt2, co.cSeq)
        /\ co.cEpoch <= CurEpoch /\ co.lastEpoch <= CurEpoch
    BY <1>1 DEF CoInv, EpochOK
  <2>2. RecoveryOK(co', co'.cVal, co'.cBt1, co'.cBt2, co'.cSeq)
    BY <1>5, <2>1 DEF RecoveryOK, Tier1, Tier2
  <2>3. co.cEpoch \in Nat /\ co.lastEpoch \in Nat
    BY <1>1 DEF CoordinatorRecs
  <2>4. /\ EpochOK(CurEpoch', reclaims', co'.cVal, co'.cEpoch, co'.cSeen)
        /\ EpochOK(CurEpoch', reclaims', co'.lastVal, co'.lastEpoch, co'.lastSeen)
    BY <1>1, <1>5, <1>7, <2>1, <2>3 DEF EpochOK
  <2>. QED  BY <1>5, <1>11, <2>1, <2>2, <2>4 DEF CoInv
<1>15. \A u \in Threads \ {t} : lastReentrant'[Coord] # u
  BY <1>11, SamplerAssumption
<1>16. Reclaims(t, 1)
  BY <1>4, <1>5, <1>6, <1>7, <1>8, <1>9, <1>10, <1>11, <1>12, <1>13, <1>14, <1>15 DEF Reclaims
<1>. QED  BY <1>8, <1>10, <1>13, <1>16


\* advanceSelfReclaim: what is carried on is dated past the operation's own reclamation,
\* so that it is still current if no other came between.
LEMMA CarriedFacts ==
    ASSUME IndInv, NEW t \in Threads, th[t].pc = "holding", NEW reclaimed \in BOOLEAN, NEW own,
           own = IF reclaimed THEN 1 ELSE 0
    PROVE  LET c == Carried(t, th[t].at, reclaimed) IN
           /\ c \in CarryRecs /\ RecoveryOK(co, c.val, c.bt1, c.bt2, c.seq)
           /\ c.epoch <= CurEpoch + own
           /\ c.val >= Tier1 /\ c.epoch = CurEpoch + own =>
                 \A u \in Threads \ {t} : reclaims[u] = c.seen[u]
<1>. DEFINE x == th[t].at
            k == th[t].carry
            sh == shard[x]
            c == Carried(t, x, reclaimed)
            e == k.epoch + own
            e1 == sh.epoch + own
            v == th[t].pressure
            k1 == [k EXCEPT !.epoch = e]
            k2 == [has |-> TRUE, val |-> v, epoch |-> e1, bt1 |-> sh.bt1, bt2 |-> sh.bt2,
                   seq |-> sh.seq, seen |-> th[t].seen]
<1>1. /\ TypeInv /\ ThreadInv(t) /\ th[t] \in ThreadRecs /\ x \in Shards /\ CurEpoch \in Nat /\ own \in 0..1
  BY DEF IndInv, TypeInv, ThreadInv, LockInv, CurEpoch, Nodes
<1>2. /\ k \in CarryRecs /\ RecoveryOK(co, k.val, k.bt1, k.bt2, k.seq)
      /\ OthersOK(CurEpoch, reclaims, t, k.val, k.epoch, k.seen)
  BY OwnCarry
<1>3. sh \in ShardRecs /\ v \in Levels /\ th[t].seen \in Counts
  BY <1>1 DEF TypeInv, ThreadRecs
<1>4. sh.valid => /\ RecoveryOK(co, v, sh.bt1, sh.bt2, sh.seq)
                  /\ OthersOK(CurEpoch, reclaims, t, v, sh.epoch, th[t].seen)
  BY <1>1 DEF ThreadInv, HoldInv
<1>5. /\ sh.epoch \in Nat /\ sh.bt1 \in Nat /\ sh.bt2 \in Nat /\ sh.seq \in Nat
  BY <1>3 DEF ShardRecs
<1>6. k.epoch \in Nat
  BY <1>2 DEF CarryRecs
<1>7. c = IF k.has THEN k1 ELSE IF ~sh.valid THEN NoCarry ELSE k2
  BY DEF Carried
<1>. HIDE DEF k, sh, c, v
<1>8. CASE k.has
  <2>1. c = k1 /\ e \in Nat
    BY <1>1, <1>6, <1>7, <1>8
  <2>2. k1 \in CarryRecs
    BY <1>2, <2>1 DEF CarryRecs
  <2>3. /\ k1.val = k.val /\ k1.bt1 = k.bt1 /\ k1.bt2 = k.bt2 /\ k1.seq = k.seq /\ k1.seen = k.seen
        /\ k1.epoch = e
    BY <1>2 DEF CarryRecs
  <2>4. e <= CurEpoch + own /\ (e = CurEpoch + own => k.epoch = CurEpoch)
    BY <1>1, <1>2, <1>6 DEF OthersOK
  <2>. HIDE DEF k1, e
  <2>5. k1.val >= Tier1 /\ k1.epoch = CurEpoch + own =>
                 \A u \in Threads \ {t} : reclaims[u] = k1.seen[u]
    BY <1>2, <2>3, <2>4 DEF OthersOK
  <2>. QED  BY <1>2, <2>1, <2>2, <2>3, <2>4, <2>5 DEF c
<1>9. CASE ~k.has /\ sh.valid
  <2>1. c = k2 /\ e1 \in Nat
    BY <1>1, <1>5, <1>7, <1>9
  <2>2. k2 \in CarryRecs
    BY <1>3, <1>5, <2>1 DEF CarryRecs
  <2>3. e1 <= CurEpoch + own /\ (e1 = CurEpoch + own => sh.epoch = CurEpoch)
    BY <1>1, <1>4, <1>5, <1>9 DEF OthersOK
  <2>4. /\ k2.val = v /\ k2.bt1 = sh.bt1 /\ k2.bt2 = sh.bt2 /\ k2.seq = sh.seq
        /\ k2.seen = th[t].seen /\ k2.epoch = e1
    OBVIOUS
  <2>. HIDE DEF k2, e1
  <2>5. k2.val >= Tier1 /\ k2.epoch = CurEpoch + own =>
                 \A u \in Threads \ {t} : reclaims[u] = k2.seen[u]
    BY <1>4, <1>9, <2>3, <2>4 DEF OthersOK
  <2>. QED  BY <1>4, <1>9, <2>1, <2>2, <2>3, <2>4, <2>5 DEF c
<1>10. CASE ~k.has /\ ~sh.valid
  <2>1. c = NoCarry
    BY <1>7, <1>10
  <2>2. NoCarry.epoch = 0 /\ NoCarry.val = 0
    BY DEF NoCarry
  <2>. QED  BY <1>1, <2>1, <2>2, NullTypes, NullOK DEF c, Tier1
<1>. QED  BY <1>8, <1>9, <1>10

\* The body of the operation and the unlock, with a reclamation or without.
LEMMA LeaveInductive ==
    ASSUME IndInv, NEW t \in Threads, NEW reclaimed \in BOOLEAN, Leave(t, reclaimed)
    PROVE  LockStep(t)
<1>. DEFINE x == th[t].at
            own == IF reclaimed THEN 1 ELSE 0
            c == Carried(t, x, reclaimed)
            r == MoveOn(t, c)
            b == [shard[x] EXCEPT !.holder = Nobody]
<1>1. /\ th[t].pc = "holding" /\ th' = [th EXCEPT ![t] = r]
      /\ shard' = [shard EXCEPT ![x] = b] /\ started' = started
      /\ IF reclaimed THEN MarkReclaimed(x, t, FALSE) ELSE UNCHANGED <<epochs, co>>
  BY DEF Leave
<1>2. /\ TypeInv /\ ThreadInv(t) /\ th \in [Threads -> ThreadRecs] /\ x \in Shards /\ CurEpoch \in Nat
      /\ shard \in [Shards -> ShardRecs] /\ shard[x] \in ShardRecs /\ shard[x].holder = t
  BY <1>1 DEF IndInv, TypeInv, ThreadInv, LockInv, CurEpoch, Nodes
<1>3. Reclaims(t, own) /\ \A n \in Nodes : reentrant'[n] \subseteq reentrant[n]
  <2>1. CASE reclaimed
    BY <1>1, <1>2, <2>1, MarkReclaimedFacts
  <2>2. CASE ~reclaimed
    BY <1>1, <2>2, NoReclaim DEF epochs
  <2>. QED  BY <2>1, <2>2
<1>4. own \in 0..1 /\ own = IF reclaimed THEN 1 ELSE 0
  OBVIOUS
<1>. HIDE DEF own
<1>5. /\ c \in CarryRecs /\ RecoveryOK(co, c.val, c.bt1, c.bt2, c.seq)
      /\ c.epoch <= CurEpoch + own
      /\ c.val >= Tier1 /\ c.epoch = CurEpoch + own =>
            \A u \in Threads \ {t} : reclaims[u] = c.seen[u]
  BY <1>1, <1>4, CarriedFacts
<1>. HIDE DEF c
<1>6. /\ r \in ThreadRecs /\ r.pc \in {"idle", "enter", "carry"} /\ r.s = NoSample
      /\ r.samplings = 0 /\ r.same = 0 /\ r.cross = 0 /\ r.carry \in {c, NoCarry}
      /\ r.pc # "idle" => r.at \in Shards
  BY <1>2, <1>5, MoveOnFacts
<1>. HIDE DEF r
<1>7. th' \in [Threads -> ThreadRecs] /\ th'[t] = r /\ \A u \in Threads \ {t} : th'[u] = th[u]
  BY <1>1, <1>2, <1>6
<1>8. /\ b \in ShardRecs /\ b.holder = Nobody /\ b.bt1 = shard[x].bt1 /\ b.bt2 = shard[x].bt2
  BY <1>2 DEF ShardRecs
<1>. HIDE DEF b
<1>9. /\ shard' \in [Shards -> ShardRecs] /\ shard'[x] = b
      /\ \A y \in Shards \ {x} : shard'[y] = shard[y]
  BY <1>1, <1>2, <1>8
<1>10. TypeInv'
  BY <1>1, <1>2, <1>3, <1>7, <1>9 DEF TypeInv, Reclaims
<1>11. CoInv' /\ CoAdvances /\ EpochAdvances /\ CurEpoch' = CurEpoch + own
  BY <1>3 DEF Reclaims
<1>12. ShardInv'
  <2>1. co'.bt1 = co.bt1 /\ co'.bt2 = co.bt2
    BY <1>3 DEF Reclaims
  <2>2. \A y \in Shards : shard'[y].bt1 = shard[y].bt1 /\ shard'[y].bt2 = shard[y].bt2
    BY <1>8, <1>9
  <2>. QED  BY <2>1, <2>2 DEF IndInv, ShardInv
<1>13. Beside(t)
  <2>1. ASSUME NEW u \in Threads \ {t}
        PROVE  /\ th'[u] = th[u] /\ atReading'[u] = atReading[u]
               /\ \A n \in Nodes : u \in reentrant'[n] => u \in reentrant[n]
               /\ lastReentrant'[Coord] = u => lastReentrant[Coord] = u /\ reclaims' = reclaims
    BY <1>3, <1>7 DEF Reclaims
  <2>2. ASSUME NEW u \in Threads \ {t}, NEW y \in Shards
        PROVE  /\ shard'[y].holder = u <=> shard[y].holder = u
               /\ shard[y].holder = u => shard'[y] = shard[y]
    <3>1. u # Nobody
      BY SamplerAssumption
    <3>. QED  BY <1>2, <1>8, <1>9, <3>1
  <2>. QED  BY <2>1, <2>2 DEF Beside
<1>14. LockInv(t)'
  <2>1. Nobody # t
    BY SamplerAssumption
  <2>2. \A y \in Shards \ {x} : shard[y].holder # t
    BY <1>2 DEF ThreadInv, LockInv
  <2>3. \A y \in Shards : shard'[y].holder # t
    BY <1>8, <1>9, <2>1, <2>2
  <2>. QED  BY <1>6, <1>7, <2>3 DEF LockInv
<1>15. BudgetInv(t)'
  BY <1>6, <1>7, SamplerAssumption DEF BudgetInv, Reading
<1>16. SampleInv(t)'
  <2>1. \A n \in Nodes : t \notin reentrant'[n]
    BY <1>1, <1>3, NotInside
  <2>. QED  BY <1>2, <1>6, <1>7, <1>10, <1>11, <2>1, NoSampleInv
<1>17. CarryInv(t)'
  <2>1. CASE r.carry = c
    <3>1. c.bt1 \in Nat /\ c.bt2 \in Nat /\ c.seq \in Nat
      BY <1>5 DEF CarryRecs
    <3>2. RecoveryOK(co', c.val, c.bt1, c.bt2, c.seq)
      BY <1>2, <1>5, <1>10, <1>11, <3>1, RecoveryKept
    <3>3. \A u \in Threads \ {t} : reclaims'[u] = reclaims[u]
      BY <1>3 DEF Reclaims
    <3>4. OthersOK(CurEpoch', reclaims', t, c.val, c.epoch, c.seen)
      BY <1>5, <1>11, <3>3 DEF OthersOK
    <3>. QED  BY <1>7, <2>1, <3>2, <3>4 DEF CarryInv
  <2>2. CASE r.carry = NoCarry
    BY <1>2, <1>7, <1>10, <1>11, <2>2, NullKept DEF CarryInv
  <2>. QED  BY <1>6, <2>1, <2>2
<1>18. HoldInv(t)'
  BY <1>6, <1>7 DEF HoldInv
<1>19. IndInv'
  BY <1>10, <1>11, <1>12, <1>13, <1>14, <1>15, <1>16, <1>17, <1>18, Assemble
     DEF ThreadInv
<1>20. AcquireFacts(t)
  BY <1>6, <1>7 DEF AcquireFacts, Acquires
<1>. QED  BY <1>19, <1>20 DEF LockStep

\* A reclamation from inside PressureFunc: the goroutine's pending sample is dated by
\* loads made before it, and its reading comes after it.
LEMMA NestedReclaimInductive ==
    ASSUME IndInv, NEW t \in Threads, NEW x \in Shards, NestedReclaim(t, x)
    PROVE  LockStep(t)
<1>. DEFINE b == [shard[x] EXCEPT !.valid = FALSE, !.appPub = 0]
            s == th[t].s
<1>1. /\ TypeInv /\ ThreadInv(t) /\ th \in [Threads -> ThreadRecs] /\ CurEpoch \in Nat
      /\ shard \in [Shards -> ShardRecs] /\ shard[x] \in ShardRecs /\ Coord \in Nodes
  BY DEF IndInv, TypeInv, CurEpoch, Nodes
<1>2. /\ th[t].pc = "hook" /\ th' = th /\ started' = started + 1 /\ shard[x].holder = Nobody
      /\ shard' = [shard EXCEPT ![x] = b] /\ MarkReclaimed(x, t, TRUE)
  BY <1>1 DEF NestedReclaim
<1>3. Reclaims(t, 1) /\ atReading'[t] = reclaims' /\ externalEpoch' = externalEpoch
  BY <1>2, MarkReclaimedFacts
<1>4. /\ b \in ShardRecs /\ b.holder = Nobody /\ b.bt1 = shard[x].bt1 /\ b.bt2 = shard[x].bt2
  BY <1>1, <1>2 DEF ShardRecs
<1>. HIDE DEF b
<1>5. /\ shard' \in [Shards -> ShardRecs] /\ shard'[x] = b
      /\ \A y \in Shards \ {x} : shard'[y] = shard[y]
  BY <1>1, <1>2, <1>4
<1>6. TypeInv'
  BY <1>1, <1>2, <1>3, <1>5 DEF TypeInv, Reclaims
<1>7. CoInv' /\ CoAdvances /\ EpochAdvances /\ CurEpoch' = CurEpoch + 1
  BY <1>3 DEF Reclaims
<1>8. ShardInv'
  <2>1. co'.bt1 = co.bt1 /\ co'.bt2 = co.bt2
    BY <1>3 DEF Reclaims
  <2>2. \A y \in Shards : shard'[y].bt1 = shard[y].bt1 /\ shard'[y].bt2 = shard[y].bt2
    BY <1>4, <1>5
  <2>. QED  BY <2>1, <2>2 DEF IndInv, ShardInv
<1>9. Beside(t)
  <2>1. ASSUME NEW u \in Threads \ {t}
        PROVE  /\ th'[u] = th[u] /\ atReading'[u] = atReading[u]
               /\ \A n \in Nodes : u \in reentrant'[n] => u \in reentrant[n]
               /\ lastReentrant'[Coord] = u => lastReentrant[Coord] = u /\ reclaims' = reclaims
    BY <1>2, <1>3 DEF Reclaims
  <2>2. ASSUME NEW u \in Threads \ {t}, NEW y \in Shards
        PROVE  /\ shard'[y].holder = u <=> shard[y].holder = u
               /\ shard[y].holder = u => shard'[y] = shard[y]
    <3>1. u # Nobody
      BY SamplerAssumption
    <3>. QED  BY <1>2, <1>4, <1>5, <3>1
  <2>. QED  BY <2>1, <2>2 DEF Beside
<1>10. LockInv(t)'
  <2>1. Nobody # t
    BY SamplerAssumption
  <2>2. \A y \in Shards : shard[y].holder # t
    BY <1>1, <1>2 DEF ThreadInv, LockInv
  <2>3. \A y \in Shards : shard'[y].holder # t
    BY <1>4, <1>5, <2>1, <2>2
  <2>. QED  BY <1>1, <1>2, <2>3 DEF ThreadInv, LockInv
<1>11. BudgetInv(t)'
  BY <1>1, <1>2 DEF ThreadInv, BudgetInv, Fresh
<1>12. SampleInv(t)'
  <2>1. /\ s.seq \in Nat /\ s.bt1 \in Nat /\ s.bt2 \in Nat /\ s.epoch \in Nat
        /\ s.seq <= co.invokeSeq /\ RecoveryOK(co, s.val, s.bt1, s.bt2, s.seq)
        /\ EpochOK(CurEpoch, reclaims, s.val, s.epoch, s.seen)
    BY OwnSample
  <2>2. /\ s.ext <= externalEpoch[Coord]
        /\ \A v \in Levels : RecoveryOK(co, v, s.bt1, s.bt2, s.seq)
    BY <1>1, <1>2 DEF ThreadInv, SampleInv
  <2>. HIDE DEF s
  <2>3. /\ RecoveryOK(co', s.val, s.bt1, s.bt2, s.seq)
        /\ \A v \in Levels : RecoveryOK(co', v, s.bt1, s.bt2, s.seq)
    BY <1>1, <1>6, <1>7, <2>1, <2>2, RecoveryKept
  <2>4. EpochOK(CurEpoch', reclaims', s.val, s.epoch, s.seen)
    BY <1>1, <1>6, <1>7, <2>1, EpochKept
  <2>5. s.seq <= co'.invokeSeq
    <3>1. co.invokeSeq \in Nat /\ co'.invokeSeq \in Nat
      BY <1>1, <1>6 DEF TypeInv, CoordinatorRecs
    <3>. QED  BY <1>7, <2>1, <3>1 DEF CoAdvances
  <2>6. s.epoch # CurEpoch'
    BY <1>1, <1>7, <2>1 DEF EpochOK
  <2>7. th'[t].s = s /\ th'[t].pc = "hook"
    BY <1>2 DEF s
  <2>. QED  BY <1>3, <2>2, <2>3, <2>4, <2>5, <2>6, <2>7 DEF SampleInv
<1>13. CarryInv(t)'
  <2>. DEFINE c == th[t].carry
  <2>1. /\ c \in CarryRecs /\ RecoveryOK(co, c.val, c.bt1, c.bt2, c.seq)
        /\ OthersOK(CurEpoch, reclaims, t, c.val, c.epoch, c.seen)
    BY OwnCarry
  <2>2. c = th'[t].carry
    BY <1>2
  <2>. HIDE DEF c
  <2>3. c.bt1 \in Nat /\ c.bt2 \in Nat /\ c.seq \in Nat /\ c.epoch \in Nat
    BY <2>1 DEF CarryRecs
  <2>4. /\ RecoveryOK(co', c.val, c.bt1, c.bt2, c.seq)
        /\ OthersOK(CurEpoch', reclaims', t, c.val, c.epoch, c.seen)
    BY <1>1, <1>6, <1>7, <2>1, <2>3, RecoveryKept, EpochKept
  <2>. QED  BY <2>2, <2>4 DEF CarryInv
<1>14. HoldInv(t)'
  BY <1>2 DEF HoldInv
<1>15. IndInv'
  BY <1>6, <1>7, <1>8, <1>9, <1>10, <1>11, <1>12, <1>13, <1>14, Assemble DEF ThreadInv
<1>16. AcquireFacts(t)
  BY <1>2 DEF AcquireFacts, Acquires
<1>. QED  BY <1>15, <1>16 DEF LockStep

-----------------------------------------------------------------------------
(* Storing a reading                                                       *)

\* resolveSampleEpochsLocked: the epoch of a reading is moved past reclamations only
\* for the goroutine that made them all itself, or below Tier 1.
LEMMA ResolvedFacts ==
    ASSUME IndInv, NEW t \in Threads, th[t].pc = "hook", NEW v \in Levels
    PROVE  LET r == ResolvedEpochs(t, v) IN
           /\ r.epoch \in Nat /\ r.shardEpoch \in Nat
           /\ EpochOK(CurEpoch, reclaims, v, r.epoch, atReading[t])
<1>. DEFINE s == th[t].s
            x == th[t].at
            behind == Custom /\ CurEpoch # s.epoch /\ externalEpoch[Coord] = s.ext
            bySole == behind /\ Sole(t, Coord)
            forward == bySole \/ (behind /\ CanFastForwardLow(v))
            shardForward == /\ Custom /\ x # Coord /\ externalEpoch[x] = s.shardExt
                            /\ Sole(t, x) \/ CanFastForwardLow(v)
            r == ResolvedEpochs(t, v)
<1>1. /\ TypeInv /\ ThreadInv(t) /\ CoInv /\ th[t] \in ThreadRecs /\ Coord \in Nodes
      /\ CurEpoch \in Nat
  BY DEF IndInv, TypeInv, CurEpoch, Nodes
<1>2. x \in Nodes /\ reclaimEpoch[x] \in Nat /\ s \in SampleRecs
  BY <1>1 DEF TypeInv, ThreadRecs
<1>3. s.epoch \in Nat /\ s.shardEpoch \in Nat
  BY <1>2 DEF SampleRecs
<1>4. /\ r.epoch = IF forward THEN CurEpoch ELSE s.epoch
      /\ r.shardEpoch = IF forward \/ shardForward THEN reclaimEpoch[x] ELSE s.shardEpoch
      /\ r.epoch \in {CurEpoch, s.epoch} /\ r.shardEpoch \in {reclaimEpoch[x], s.shardEpoch}
  BY DEF ResolvedEpochs
<1>5. /\ s.epoch <= CurEpoch
      /\ s.epoch = CurEpoch => atReading[t] = reclaims
      /\ t \in reentrant[Coord] /\ lastReentrant[Coord] = t /\ externalEpoch[Coord] = s.ext =>
            atReading[t] = reclaims
  BY <1>1 DEF ThreadInv, SampleInv, EpochOK
<1>6. bySole => atReading[t] = reclaims
  <2>1. lastReentrant[Coord] = Nobody => reentrant[Coord] = {}
    BY <1>1 DEF CoInv
  <2>. QED  BY <1>5, <2>1 DEF Sole
<1>7. forward /\ ~bySole => v < Tier1
  BY DEF CanFastForwardLow
<1>. HIDE DEF r, s, x, forward, bySole, behind, shardForward
<1>8. v \in Nat /\ Tier1 \in Nat
  BY DEF Levels, Tier1
<1>9. r.epoch \in Nat /\ r.shardEpoch \in Nat
  BY <1>1, <1>2, <1>3, <1>4
<1>10. EpochOK(CurEpoch, reclaims, v, r.epoch, atReading[t])
  BY <1>1, <1>3, <1>4, <1>5, <1>6, <1>7, <1>8 DEF EpochOK
<1>. QED  BY <1>9, <1>10 DEF r

\* decideSampleStoreLocked: the reading gone on with is dated by the epoch resolved,
\* and numbered no later than the last invocation unless it is numbered anew.
LEMMA TakenFacts ==
    ASSUME IndInv, NEW t \in Threads, th[t].pc = "hook", NEW v \in Levels,
           NEW r, EpochOK(CurEpoch, reclaims, v, r.epoch, atReading[t])
    PROVE  LET mode == StoreMode(th[t].s, r)
               d == Taken(t, v, mode)
           IN  /\ d.val \in Levels /\ d.seq \in Nat /\ d.seen \in Counts
               /\ EpochOK(CurEpoch, reclaims, d.val, r.epoch, d.seen)
               /\ d.seq <= co.invokeSeq \/ (mode = "renumbered" /\ d.seq = co.invokeSeq + 1)
               /\ mode \notin {"adoptedCached", "adoptedLast"} => d.val = v /\ th[t].s.seq <= d.seq
               /\ mode = "adoptedCached" => d.val = co.cVal /\ d.seq = co.cSeq
               /\ mode = "adoptedLast" => d.val = co.lastVal /\ d.seq = co.lastSeq
<1>. DEFINE s == th[t].s
            mode == StoreMode(s, r)
            d == Taken(t, v, mode)
<1>1. /\ TypeInv /\ ThreadInv(t) /\ CoInv /\ th[t] \in ThreadRecs /\ co \in CoordinatorRecs
      /\ atReading[t] \in Counts
  BY DEF IndInv, TypeInv
<1>2. /\ co.cVal \in Levels /\ co.cSeq \in Nat /\ co.cSeen \in Counts
      /\ co.lastVal \in Levels /\ co.lastSeq \in Nat /\ co.lastSeen \in Counts /\ co.invokeSeq \in Nat
  BY <1>1 DEF CoordinatorRecs
<1>3. s.seq \in Nat /\ s.seq <= co.invokeSeq
  BY <1>1 DEF ThreadRecs, SampleRecs, ThreadInv, SampleInv
<1>4. /\ co.lastSeq <= co.invokeSeq /\ co.cSeq <= co.invokeSeq
      /\ EpochOK(CurEpoch, reclaims, co.cVal, co.cEpoch, co.cSeen)
      /\ EpochOK(CurEpoch, reclaims, co.lastVal, co.lastEpoch, co.lastSeen)
  BY <1>1 DEF CoInv
<1>5. /\ mode = "adoptedCached" => co.cEpoch = r.epoch
      /\ mode = "adoptedLast" => co.lastEpoch = r.epoch
  BY DEF StoreMode, HasCachedAt
<1>6. /\ mode = "adoptedCached" => d.val = co.cVal /\ d.seq = co.cSeq /\ d.seen = co.cSeen
      /\ mode = "adoptedLast" => d.val = co.lastVal /\ d.seq = co.lastSeq /\ d.seen = co.lastSeen
      /\ mode \notin {"adoptedCached", "adoptedLast"} =>
            /\ d.val = v /\ d.seen = atReading[t]
            /\ d.seq = IF mode = "renumbered" THEN co.invokeSeq + 1 ELSE s.seq
  BY DEF Taken
<1>. HIDE DEF d, mode, s
<1>7. d.val \in Levels /\ d.seq \in Nat /\ d.seen \in Counts
  BY <1>1, <1>2, <1>3, <1>6
<1>8. EpochOK(CurEpoch, reclaims, d.val, r.epoch, d.seen)
  BY <1>4, <1>5, <1>6
<1>9. d.seq <= co.invokeSeq \/ (mode = "renumbered" /\ d.seq = co.invokeSeq + 1)
  BY <1>2, <1>3, <1>4, <1>6
<1>10. mode \notin {"adoptedCached", "adoptedLast"} => d.val = v /\ s.seq <= d.seq
  BY <1>2, <1>3, <1>6
<1>. QED  BY <1>6, <1>7, <1>8, <1>9, <1>10 DEF s, mode, d

\* What the coordinator c keeps leaves nothing of co behind.
Keeps(c) ==
    /\ c \in CoordinatorRecs
    /\ co.bt1 <= c.bt1 /\ co.bt2 <= c.bt2 /\ co.invokeSeq <= c.invokeSeq
    /\ c.bt1 = co.bt1 => c.low1 = co.low1
    /\ c.bt2 = co.bt2 => c.low2 = co.low2
    /\ c.low1 <= c.lastSeq /\ c.low2 <= c.lastSeq
    /\ EpochOK(CurEpoch, reclaims, c.lastVal, c.lastEpoch, c.lastSeen)

\* recordLastSampledTelemetryLocked: a reading below a tier begins a recovery epoch.
LEMMA RecordedFacts ==
    ASSUME IndInv, NEW d, d.val \in Levels, d.seq \in Nat, d.seen \in Counts, NEW e \in Nat,
           EpochOK(CurEpoch, reclaims, d.val, e, d.seen)
    PROVE  LET c == Recorded(d, e) IN
           /\ Keeps(c)
           /\ c.invokeSeq = co.invokeSeq /\ c.pubSeq = co.pubSeq /\ c.refresh = co.refresh
           /\ c.cEpoch = co.cEpoch /\ c.cBt1 = co.cBt1 /\ c.cBt2 = co.cBt2 /\ c.cSeq = co.cSeq
           /\ c.cVal = co.cVal /\ c.cSeen = co.cSeen
           /\ c.lastSeq = Larger(co.lastSeq, d.seq)
           /\ c.bt1 = IF d.val < Tier1 THEN co.bt1 + 1 ELSE co.bt1
           /\ c.bt2 = IF d.val < Tier2 THEN co.bt2 + 1 ELSE co.bt2
<1>. DEFINE dv == d.val
            dq == d.seq
            ds == d.seen
            ls == Larger(co.lastSeq, dq)
            b1 == IF dv < Tier1 THEN co.bt1 + 1 ELSE co.bt1
            b2 == IF dv < Tier2 THEN co.bt2 + 1 ELSE co.bt2
            l1 == IF dv < Tier1 THEN Larger(co.low1, dq) ELSE co.low1
            l2 == IF dv < Tier2 THEN Larger(co.low2, dq) ELSE co.low2
            c == [co EXCEPT !.lastSeq = ls, !.lastEpoch = e, !.lastVal = dv, !.lastSeen = ds,
                            !.bt1 = b1, !.bt2 = b2, !.low1 = l1, !.low2 = l2]
<1>1. /\ co \in CoordinatorRecs /\ CoInv
  BY DEF IndInv, TypeInv
<1>2. /\ co.bt1 \in Nat /\ co.bt2 \in Nat /\ co.low1 \in Nat /\ co.low2 \in Nat /\ co.lastSeq \in Nat
      /\ co.low1 <= co.lastSeq /\ co.low2 <= co.lastSeq /\ co.invokeSeq \in Nat
  BY <1>1 DEF CoordinatorRecs, CoInv
<1>3. Recorded(d, e) = c
  BY DEF Recorded
<1>4. dv \in Levels /\ dq \in Nat /\ ds \in Counts
  OBVIOUS
<1>. HIDE DEF dv, dq, ds
<1>5. /\ ls \in Nat /\ b1 \in Nat /\ b2 \in Nat /\ l1 \in Nat /\ l2 \in Nat
      /\ co.bt1 <= b1 /\ co.bt2 <= b2 /\ l1 <= ls /\ l2 <= ls
      /\ b1 = co.bt1 => l1 = co.low1
      /\ b2 = co.bt2 => l2 = co.low2
  BY <1>2, <1>4 DEF Larger
<1>6. b1 = (IF d.val < Tier1 THEN co.bt1 + 1 ELSE co.bt1) /\ b2 = (IF d.val < Tier2 THEN co.bt2 + 1 ELSE co.bt2)
      /\ ls = Larger(co.lastSeq, d.seq) /\ dv = d.val /\ ds = d.seen
  BY DEF dv, dq, ds
<1>. HIDE DEF ls, b1, b2, l1, l2
<1>7. c \in CoordinatorRecs
  BY <1>1, <1>4, <1>5 DEF CoordinatorRecs
<1>8. /\ c.lastSeq = ls /\ c.lastEpoch = e /\ c.lastVal = dv /\ c.lastSeen = ds
      /\ c.bt1 = b1 /\ c.bt2 = b2 /\ c.low1 = l1 /\ c.low2 = l2
      /\ c.invokeSeq = co.invokeSeq /\ c.pubSeq = co.pubSeq /\ c.refresh = co.refresh
      /\ c.cEpoch = co.cEpoch /\ c.cBt1 = co.cBt1 /\ c.cBt2 = co.cBt2 /\ c.cSeq = co.cSeq
      /\ c.cVal = co.cVal /\ c.cSeen = co.cSeen
  BY <1>1 DEF CoordinatorRecs
<1>. HIDE DEF c
<1>9. Keeps(c)
  <2>1. co.invokeSeq <= c.invokeSeq
    BY <1>2, <1>8
  <2>2. EpochOK(CurEpoch, reclaims, c.lastVal, c.lastEpoch, c.lastSeen)
    BY <1>6, <1>8
  <2>. QED  BY <1>5, <1>7, <1>8, <2>1, <2>2 DEF Keeps
<1>. QED  BY <1>3, <1>6, <1>8, <1>9

\* The recovery epochs date the sample against what the coordinator keeps then.
LEMMA StoredRecoveryFacts ==
    ASSUME IndInv, NEW t \in Threads, th[t].pc = "hook", NEW v \in Levels, NEW r,
           EpochOK(CurEpoch, reclaims, v, r.epoch, atReading[t]), r.epoch \in Nat,
           NEW records \in BOOLEAN,
           records => StoreMode(th[t].s, r) \notin {"adoptedCached", "adoptedLast"}
    PROVE  LET mode == StoreMode(th[t].s, r)
               d == Taken(t, v, mode)
               c == IF records THEN Recorded(d, r.epoch) ELSE co
               b == StoredRecovery(th[t].s, d, mode, records)
           IN  b.bt1 \in Nat /\ b.bt2 \in Nat /\ RecoveryOK(c, d.val, b.bt1, b.bt2, d.seq)
<1>. DEFINE s == th[t].s
            mode == StoreMode(s, r)
            d == Taken(t, v, mode)
            c == IF records THEN Recorded(d, r.epoch) ELSE co
            b == StoredRecovery(s, d, mode, records)
<1>1. /\ ThreadInv(t) /\ CoInv /\ th[t] \in ThreadRecs /\ co \in CoordinatorRecs
  BY DEF IndInv, TypeInv
<1>2. /\ d.val \in Levels /\ d.seq \in Nat /\ d.seen \in Counts
      /\ EpochOK(CurEpoch, reclaims, d.val, r.epoch, d.seen)
      /\ mode \notin {"adoptedCached", "adoptedLast"} => d.val = v /\ s.seq <= d.seq
      /\ mode = "adoptedCached" => d.val = co.cVal /\ d.seq = co.cSeq
      /\ mode = "adoptedLast" => d.val = co.lastVal /\ d.seq = co.lastSeq
  BY TakenFacts
<1>3. /\ Keeps(Recorded(d, r.epoch))
      /\ Recorded(d, r.epoch).bt1 = IF d.val < Tier1 THEN co.bt1 + 1 ELSE co.bt1
      /\ Recorded(d, r.epoch).bt2 = IF d.val < Tier2 THEN co.bt2 + 1 ELSE co.bt2
  BY <1>2, RecordedFacts
<1>4. /\ s.seq \in Nat /\ s.bt1 \in Nat /\ s.bt2 \in Nat /\ RecoveryOK(co, v, s.bt1, s.bt2, s.seq)
  BY <1>1 DEF ThreadRecs, SampleRecs, ThreadInv, SampleInv
<1>5. /\ co.bt1 \in Nat /\ co.bt2 \in Nat /\ co.cBt1 \in Nat /\ co.cBt2 \in Nat
      /\ co.low1 \in Nat /\ co.low2 \in Nat /\ co.low1 <= co.lastSeq /\ co.low2 <= co.lastSeq
      /\ RecoveryOK(co, co.cVal, co.cBt1, co.cBt2, co.cSeq)
  BY <1>1 DEF CoordinatorRecs, CoInv
<1>6. /\ mode = "adoptedCached" => b.bt1 = co.cBt1 /\ b.bt2 = co.cBt2
      /\ mode = "adoptedLast" => b.bt1 = co.bt1 /\ b.bt2 = co.bt2
      /\ mode \notin {"adoptedCached", "adoptedLast"} =>
            /\ b.bt1 = IF records /\ d.val < Tier1 THEN co.bt1 + 1 ELSE s.bt1
            /\ b.bt2 = IF records /\ d.val < Tier2 THEN co.bt2 + 1 ELSE s.bt2
  BY DEF StoredRecovery
<1>7. /\ records => c = Recorded(d, r.epoch)
      /\ ~records => c = co
  OBVIOUS
<1>. HIDE DEF s, mode, d, c, b
<1>8. b.bt1 \in Nat /\ b.bt2 \in Nat
  BY <1>4, <1>5, <1>6
<1>9. CASE mode = "adoptedCached"
  BY <1>2, <1>5, <1>6, <1>7, <1>8, <1>9 DEF b, c, d, mode, s
<1>10. CASE mode = "adoptedLast"
  <2>1. c = co
    BY <1>7, <1>10 DEF mode, s
  <2>2. RecoveryOK(co, d.val, co.bt1, co.bt2, co.lastSeq)
    BY <1>5 DEF RecoveryOK
  <2>. QED  BY <1>2, <1>6, <1>8, <1>10, <2>1, <2>2 DEF b, c, d, mode, s
<1>11. CASE mode \notin {"adoptedCached", "adoptedLast"} /\ ~records
  <2>1. RecoveryOK(co, d.val, s.bt1, s.bt2, d.seq)
    BY <1>2, <1>4, <1>5, <1>11 DEF RecoveryOK
  <2>2. c = co /\ b.bt1 = s.bt1 /\ b.bt2 = s.bt2
    BY <1>6, <1>7, <1>11
  <2>. QED  BY <1>8, <2>1, <2>2 DEF b, c, d, mode, s
<1>12. CASE mode \notin {"adoptedCached", "adoptedLast"} /\ records
  <2>1. /\ b.bt1 = IF d.val < Tier1 THEN co.bt1 + 1 ELSE s.bt1
        /\ b.bt2 = IF d.val < Tier2 THEN co.bt2 + 1 ELSE s.bt2
        /\ c.bt1 = IF d.val < Tier1 THEN co.bt1 + 1 ELSE co.bt1
        /\ c.bt2 = IF d.val < Tier2 THEN co.bt2 + 1 ELSE co.bt2
        /\ c.bt1 = co.bt1 => c.low1 = co.low1
        /\ c.bt2 = co.bt2 => c.low2 = co.low2
    BY <1>3, <1>6, <1>7, <1>12 DEF Keeps
  <2>2. d.val = v /\ s.seq <= d.seq /\ d.seq \in Nat /\ d.val \in Levels
    BY <1>2, <1>12
  <2>3. b.bt1 <= c.bt1 /\ b.bt2 <= c.bt2
    BY <1>4, <1>5, <2>1 DEF RecoveryOK
  <2>4. d.val = Tier2 /\ b.bt2 = c.bt2 => c.low2 <= d.seq
    BY <1>4, <1>5, <2>1, <2>2 DEF RecoveryOK, Tier2
  <2>5. d.val = Tier1 /\ b.bt1 = c.bt1 => c.low1 <= d.seq
    BY <1>4, <1>5, <2>1, <2>2 DEF RecoveryOK, Tier1, Tier2
  <2>6. RecoveryOK(c, d.val, b.bt1, b.bt2, d.seq)
    BY <2>3, <2>4, <2>5 DEF RecoveryOK
  <2>. QED  BY <1>8, <2>6 DEF b, c, d, mode, s
<1>. QED  BY <1>9, <1>10, <1>11, <1>12

\* storeSampledPressureWithSeq: whatever it does with the reading, the sample the
\* goroutine goes on with and everything the coordinator keeps are dated correctly.
LEMMA StoreFacts ==
    ASSUME IndInv, NEW t \in Threads, th[t].pc = "hook", NEW v \in Levels
    PROVE  LET c == StoreOutcome(t, v).co
               z == StoreOutcome(t, v).s
           IN  /\ Keeps(c) /\ z \in SampleRecs /\ z.seq <= c.invokeSeq
               /\ RecoveryOK(c, z.val, z.bt1, z.bt2, z.seq)
               /\ EpochOK(CurEpoch, reclaims, z.val, z.epoch, z.seen)
               /\ c.lastSeq <= c.invokeSeq /\ c.cSeq <= c.invokeSeq
               /\ RecoveryOK(c, c.cVal, c.cBt1, c.cBt2, c.cSeq)
               /\ EpochOK(CurEpoch, reclaims, c.cVal, c.cEpoch, c.cSeen)
<1>. DEFINE s == th[t].s
            stale == IsSampleRecoveryStale(v, s.bt1, s.bt2)
            r == ResolvedEpochs(t, v)
            mode == StoreMode(s, r)
            d == Taken(t, v, mode)
            records == Records(s, r.epoch, mode, d.seq, stale)
            rc == IF records THEN Recorded(d, r.epoch) ELSE co
            b == StoredRecovery(s, d, mode, records)
            asks == rc.refresh \/ AsksRefresh(mode, r.epoch)
            asked == [rc EXCEPT !.refresh = asks]
            pb == Published(rc, d, b, r.epoch, stale)
            c == StoreOutcome(t, v).co
            z == StoreOutcome(t, v).s
            re == r.epoch
            rs == r.shardEpoch
            dv == d.val
            dq == d.seq
            ds == d.seen
            b1 == b.bt1
            b2 == b.bt2
            is == Larger(rc.invokeSeq, dq)
            ps == BeginSeq(rc) + 1
            full == [rc EXCEPT !.invokeSeq = is, !.pubSeq = ps,
                               !.init = TRUE, !.refresh = stale, !.cEpoch = re,
                               !.cBt1 = b1, !.cBt2 = b2, !.cSeq = dq, !.cVal = dv, !.cSeen = ds]
<1>1. /\ c = IF WillStore(mode) THEN pb ELSE asked
      /\ z = [s EXCEPT !.epoch = re, !.shardEpoch = rs, !.val = dv, !.seq = dq, !.seen = ds,
                       !.bt1 = b1, !.bt2 = b2]
  BY DEF StoreOutcome
<1>2. pb = full
  BY DEF Published
<1>3. re \in Nat /\ rs \in Nat /\ EpochOK(CurEpoch, reclaims, v, re, atReading[t])
  BY ResolvedFacts
<1>4. /\ dv \in Levels /\ dq \in Nat /\ ds \in Counts
      /\ EpochOK(CurEpoch, reclaims, dv, re, ds)
      /\ dq <= co.invokeSeq \/ (mode = "renumbered" /\ dq = co.invokeSeq + 1)
  BY <1>3, TakenFacts
<1>5. /\ records \in BOOLEAN /\ (records => mode \notin {"adoptedCached", "adoptedLast"})
      /\ stale \in BOOLEAN /\ asks \in BOOLEAN
  BY DEF Records, IsSampleRecoveryStale
<1>6. b1 \in Nat /\ b2 \in Nat /\ RecoveryOK(rc, dv, b1, b2, dq)
  BY <1>3, <1>5, StoredRecoveryFacts
<1>7. /\ TypeInv /\ CoInv /\ co \in CoordinatorRecs /\ th[t] \in ThreadRecs /\ s \in SampleRecs
  BY DEF IndInv, TypeInv, ThreadRecs
<1>8. /\ co.invokeSeq \in Nat /\ co.lastSeq \in Nat /\ co.cSeq \in Nat /\ co.bt1 \in Nat /\ co.bt2 \in Nat
      /\ co.cBt1 \in Nat /\ co.cBt2 \in Nat /\ co.low1 \in Nat /\ co.low2 \in Nat
      /\ co.low1 <= co.lastSeq /\ co.low2 <= co.lastSeq
      /\ co.lastSeq <= co.invokeSeq /\ co.cSeq <= co.invokeSeq
      /\ RecoveryOK(co, co.cVal, co.cBt1, co.cBt2, co.cSeq)
      /\ EpochOK(CurEpoch, reclaims, co.cVal, co.cEpoch, co.cSeen)
      /\ EpochOK(CurEpoch, reclaims, co.lastVal, co.lastEpoch, co.lastSeen)
  BY <1>7 DEF CoordinatorRecs, CoInv
<1>9. Keeps(co)
  BY <1>7, <1>8 DEF Keeps
<1>10. /\ Keeps(rc)
       /\ rc.invokeSeq = co.invokeSeq /\ rc.pubSeq = co.pubSeq
       /\ rc.cEpoch = co.cEpoch /\ rc.cBt1 = co.cBt1 /\ rc.cBt2 = co.cBt2 /\ rc.cSeq = co.cSeq
       /\ rc.cVal = co.cVal /\ rc.cSeen = co.cSeen
       /\ rc.lastSeq = IF records THEN Larger(co.lastSeq, dq) ELSE co.lastSeq
  <2>1. CASE records
    <3>1. rc = Recorded(d, r.epoch)
      BY <2>1
    <3>2. d.val \in Levels /\ d.seq \in Nat /\ d.seen \in Counts /\ r.epoch \in Nat
          /\ EpochOK(CurEpoch, reclaims, d.val, r.epoch, d.seen)
      BY <1>3, <1>4
    <3>. HIDE DEF d, r
    <3>. QED  BY <2>1, <3>1, <3>2, RecordedFacts
  <2>2. CASE ~records
    BY <1>9, <2>2
  <2>. QED  BY <2>1, <2>2
<1>. HIDE DEF s, stale, r, mode, d, records, rc, b, asks, pb, c, z, re, rs, dv, dq, ds, b1, b2
<1>11. z \in SampleRecs
  BY <1>1, <1>3, <1>4, <1>6, <1>7 DEF SampleRecs
<1>12. z.epoch = re /\ z.val = dv /\ z.seq = dq /\ z.seen = ds /\ z.bt1 = b1 /\ z.bt2 = b2
  BY <1>1, <1>7 DEF SampleRecs
<1>13. /\ rc \in CoordinatorRecs /\ rc.pubSeq \in Nat /\ rc.lastSeq \in Nat /\ rc.low1 \in Nat /\ rc.low2 \in Nat
       /\ rc.bt1 \in Nat /\ rc.bt2 \in Nat
  BY <1>10 DEF Keeps, CoordinatorRecs
<1>14. RecoveryOK(rc, rc.cVal, rc.cBt1, rc.cBt2, rc.cSeq)
  BY <1>8, <1>10, <1>13 DEF RecoveryOK, Keeps
<1>15. CASE ~WillStore(mode)
  <2>1. c = asked
    BY <1>1, <1>15
  <2>2. /\ asked.bt1 = rc.bt1 /\ asked.bt2 = rc.bt2 /\ asked.low1 = rc.low1 /\ asked.low2 = rc.low2
        /\ asked.invokeSeq = rc.invokeSeq /\ asked.lastSeq = rc.lastSeq /\ asked.lastEpoch = rc.lastEpoch
        /\ asked.lastVal = rc.lastVal /\ asked.lastSeen = rc.lastSeen
        /\ asked.cEpoch = rc.cEpoch /\ asked.cBt1 = rc.cBt1 /\ asked.cBt2 = rc.cBt2
        /\ asked.cSeq = rc.cSeq /\ asked.cVal = rc.cVal /\ asked.cSeen = rc.cSeen
    BY <1>13 DEF CoordinatorRecs
  <2>3. asked \in CoordinatorRecs
    BY <1>5, <1>13 DEF CoordinatorRecs
  <2>. HIDE DEF asked
  <2>4. Keeps(c)
    BY <1>10, <2>1, <2>2, <2>3 DEF Keeps
  <2>5. dq <= co.invokeSeq
    BY <1>4, <1>15 DEF WillStore
  <2>6. /\ RecoveryOK(c, dv, b1, b2, dq) /\ RecoveryOK(c, c.cVal, c.cBt1, c.cBt2, c.cSeq)
    BY <1>6, <1>14, <2>1, <2>2 DEF RecoveryOK
  <2>7. EpochOK(CurEpoch, reclaims, c.cVal, c.cEpoch, c.cSeen)
    BY <1>8, <1>10, <2>1, <2>2
  <2>8. c.lastSeq <= c.invokeSeq /\ c.cSeq <= c.invokeSeq /\ dq <= c.invokeSeq
    BY <1>4, <1>8, <1>10, <2>1, <2>2, <2>5 DEF Larger
  <2>9. /\ Keeps(c) /\ z \in SampleRecs /\ z.seq <= c.invokeSeq
        /\ RecoveryOK(c, z.val, z.bt1, z.bt2, z.seq)
        /\ EpochOK(CurEpoch, reclaims, z.val, z.epoch, z.seen)
    BY <1>4, <1>11, <1>12, <2>4, <2>6, <2>8
  <2>. QED  BY <2>6, <2>7, <2>8, <2>9 DEF c, z
<1>16. CASE WillStore(mode)
  <2>1. c = full
    BY <1>1, <1>2, <1>16
  <2>2. /\ is \in Nat /\ ps \in Nat /\ co.invokeSeq <= is /\ dq <= is /\ rc.lastSeq <= is
    BY <1>4, <1>8, <1>10, <1>13 DEF Larger, BeginSeq
  <2>. HIDE DEF is, ps
  <2>3. /\ full.bt1 = rc.bt1 /\ full.bt2 = rc.bt2 /\ full.low1 = rc.low1 /\ full.low2 = rc.low2
        /\ full.invokeSeq = is /\ full.lastSeq = rc.lastSeq /\ full.lastEpoch = rc.lastEpoch
        /\ full.lastVal = rc.lastVal /\ full.lastSeen = rc.lastSeen
        /\ full.cEpoch = re /\ full.cBt1 = b1 /\ full.cBt2 = b2
        /\ full.cSeq = dq /\ full.cVal = dv /\ full.cSeen = ds
    BY <1>13 DEF CoordinatorRecs
  <2>4. full \in CoordinatorRecs
    <3>. DEFINE dates == [rc EXCEPT !.invokeSeq = is, !.pubSeq = ps, !.cEpoch = re,
                                    !.cBt1 = b1, !.cBt2 = b2]
    <3>1. dates \in CoordinatorRecs
      BY <1>3, <1>6, <1>13, <2>2 DEF CoordinatorRecs
    <3>2. full = [dates EXCEPT !.init = TRUE, !.refresh = stale, !.cSeq = dq, !.cVal = dv,
                               !.cSeen = ds]
      BY <1>13 DEF CoordinatorRecs
    <3>. HIDE DEF dates, full
    <3>. QED  BY <1>4, <1>5, <3>1, <3>2 DEF CoordinatorRecs
  <2>. HIDE DEF full
  <2>5. Keeps(c)
    BY <1>8, <1>10, <2>1, <2>2, <2>3, <2>4 DEF Keeps
  <2>6. RecoveryOK(c, dv, b1, b2, dq)
    BY <1>6, <2>1, <2>3 DEF RecoveryOK
  <2>7. /\ Keeps(c) /\ z \in SampleRecs /\ z.seq <= c.invokeSeq
        /\ RecoveryOK(c, z.val, z.bt1, z.bt2, z.seq)
        /\ EpochOK(CurEpoch, reclaims, z.val, z.epoch, z.seen)
    BY <1>4, <1>11, <1>12, <2>1, <2>2, <2>3, <2>5, <2>6
  <2>8. /\ c.lastSeq <= c.invokeSeq /\ c.cSeq <= c.invokeSeq
        /\ RecoveryOK(c, c.cVal, c.cBt1, c.cBt2, c.cSeq)
        /\ EpochOK(CurEpoch, reclaims, c.cVal, c.cEpoch, c.cSeen)
    BY <1>4, <2>1, <2>2, <2>3, <2>6
  <2>. QED  BY <2>7, <2>8 DEF c, z
<1>. QED  BY <1>15, <1>16

\* storeSampledPressureWithSeq.
LEMMA StoreInductive ==
    ASSUME IndInv, NEW t \in Threads, NEW v \in Levels, Store(t, v)
    PROVE  LockStep(t)
<1>. DEFINE c == StoreOutcome(t, v).co
            z == StoreOutcome(t, v).s
            r == [th[t] EXCEPT !.pc = "lock", !.s = z]
<1>1. /\ TypeInv /\ ThreadInv(t) /\ CoInv /\ th \in [Threads -> ThreadRecs] /\ th[t] \in ThreadRecs
      /\ co \in CoordinatorRecs /\ reentrant \in [Nodes -> SUBSET Threads]
      /\ th[t].pc = "hook" /\ Coord \in Nodes /\ CurEpoch \in Nat /\ externalEpoch[Coord] \in Nat
  BY DEF IndInv, TypeInv, Store, CurEpoch, Nodes
<1>2. /\ co' = c /\ th' = [th EXCEPT ![t].pc = "lock", ![t].s = z]
      /\ reentrant' = ClearReentrant(t)
      /\ UNCHANGED <<reclaimEpoch, externalEpoch, lastReentrant, shard, reclaims, atReading, started>>
  BY DEF Store
<1>3. /\ Keeps(c) /\ z \in SampleRecs /\ z.seq <= c.invokeSeq
      /\ RecoveryOK(c, z.val, z.bt1, z.bt2, z.seq)
      /\ EpochOK(CurEpoch, reclaims, z.val, z.epoch, z.seen)
      /\ c.lastSeq <= c.invokeSeq /\ c.cSeq <= c.invokeSeq
      /\ RecoveryOK(c, c.cVal, c.cBt1, c.cBt2, c.cSeq)
      /\ EpochOK(CurEpoch, reclaims, c.cVal, c.cEpoch, c.cSeen)
  BY <1>1, StoreFacts
<1>4. th' = [th EXCEPT ![t] = r]
  BY <1>1, <1>2
<1>. HIDE DEF c, z
<1>5. r \in ThreadRecs
  BY <1>1, <1>3 DEF ThreadRecs, Stages, Reading
<1>6. /\ r.pc = "lock" /\ r.s = z /\ r.kind = th[t].kind /\ r.at = th[t].at /\ r.carry = th[t].carry
      /\ r.same = th[t].same /\ r.cross = th[t].cross /\ r.samplings = th[t].samplings
      /\ r.path = th[t].path
  BY <1>1 DEF ThreadRecs
<1>7. th'[t] = r /\ th' \in [Threads -> ThreadRecs] /\ \A u \in Threads \ {t} : th'[u] = th[u]
  BY <1>1, <1>4, <1>5
<1>. HIDE DEF r
<1>8. co' \in CoordinatorRecs /\ CoAdvances
  BY <1>2, <1>3 DEF Keeps, CoAdvances
<1>9. CurEpoch' = CurEpoch /\ reclaims' = reclaims /\ EpochAdvances
  BY <1>1, <1>2 DEF CurEpoch, EpochAdvances
<1>10. reentrant' \in [Nodes -> SUBSET Threads]
       /\ \A n \in Nodes : reentrant'[n] \subseteq reentrant[n] /\ t \notin reentrant'[n]
  BY <1>1, <1>2 DEF ClearReentrant
<1>11. TypeInv'
  BY <1>1, <1>2, <1>7, <1>8, <1>10 DEF TypeInv
<1>12. CoInv'
  <2>1. \A n \in Nodes : lastReentrant'[n] = Nobody => reentrant'[n] = {}
    BY <1>1, <1>2, <1>10 DEF CoInv
  <2>. QED  BY <1>2, <1>3, <1>9, <2>1 DEF CoInv, Keeps
<1>13. ShardInv'
  <2>. SUFFICES ASSUME NEW x \in Shards
                PROVE  shard[x].bt1 <= co'.bt1 /\ shard[x].bt2 <= co'.bt2
    BY <1>2 DEF ShardInv
  <2>1. /\ shard[x].bt1 \in Nat /\ shard[x].bt2 \in Nat
        /\ shard[x].bt1 <= co.bt1 /\ shard[x].bt2 <= co.bt2
    BY <1>1 DEF TypeInv, ShardRecs, IndInv, ShardInv
  <2>2. co.bt1 \in Nat /\ co.bt2 \in Nat /\ co'.bt1 \in Nat /\ co'.bt2 \in Nat
    BY <1>1, <1>8 DEF CoordinatorRecs
  <2>. QED  BY <1>8, <2>1, <2>2 DEF CoAdvances
<1>14. Beside(t)
  BY <1>2, <1>7, <1>10 DEF Beside
<1>15. LockInv(t)'
  BY <1>1, <1>2, <1>6, <1>7 DEF ThreadInv, LockInv
<1>16. BudgetInv(t)'
  <2>1. Fresh(t)' <=> Fresh(t)
    BY <1>6, <1>7 DEF Fresh
  <2>. QED  BY <1>1, <1>6, <1>7, <2>1 DEF ThreadInv, BudgetInv, Reading
<1>17. SampleInv(t)'
  BY <1>2, <1>3, <1>6, <1>7, <1>9, <1>10, <1>1 DEF SampleInv
<1>18. CarryInv(t)'
  <2>. DEFINE k == th[t].carry
  <2>1. /\ k \in CarryRecs /\ RecoveryOK(co, k.val, k.bt1, k.bt2, k.seq)
        /\ OthersOK(CurEpoch, reclaims, t, k.val, k.epoch, k.seen)
    BY OwnCarry
  <2>. HIDE DEF k
  <2>2. RecoveryOK(co', k.val, k.bt1, k.bt2, k.seq)
    <3>1. k.bt1 \in Nat /\ k.bt2 \in Nat /\ k.seq \in Nat
      BY <2>1 DEF CarryRecs
    <3>. QED  BY <1>1, <1>8, <1>11, <2>1, <3>1, RecoveryKept
  <2>. QED  BY <1>6, <1>7, <1>9, <2>1, <2>2 DEF CarryInv, k
<1>19. HoldInv(t)'
  BY <1>6, <1>7 DEF HoldInv
<1>20. IndInv'
  BY <1>8, <1>9, <1>11, <1>12, <1>13, <1>14, <1>15, <1>16, <1>17, <1>18, <1>19, Assemble
     DEF ThreadInv
<1>21. AcquireFacts(t)
  BY <1>6, <1>7 DEF AcquireFacts, Acquires
<1>. QED  BY <1>20, <1>21 DEF LockStep

-----------------------------------------------------------------------------
(* The theorems                                                            *)

\* newPressureState: nothing has been sampled and nothing reclaimed.
LEMMA InitIndInv == Init => IndInv
<1>. SUFFICES ASSUME Init PROVE IndInv
  OBVIOUS
<1>1. /\ co = Coordinator /\ shard = [x \in Shards |-> NoShardSample] /\ th = [t \in Threads |-> Idle]
      /\ reclaims = NeverSeen /\ reclaimEpoch = [n \in Nodes |-> 0]
      /\ externalEpoch = [n \in Nodes |-> 0] /\ Coord \in Nodes
      /\ reentrant = [n \in Nodes |-> {}] /\ lastReentrant = [n \in Nodes |-> Nobody]
      /\ atReading = [t \in Threads |-> NeverSeen] /\ started = 0
  BY DEF Init, Nodes
<1>2. TypeInv
  BY <1>1, NullTypes DEF TypeInv
<1>3. CurEpoch = 0
  BY <1>1 DEF CurEpoch
<1>4. CoInv
  BY <1>1, <1>3 DEF CoInv, Coordinator, RecoveryOK, EpochOK, Tier1, Tier2
<1>5. ShardInv
  BY <1>1 DEF ShardInv, NoShardSample, Coordinator
<1>6. ASSUME NEW t \in Threads PROVE ThreadInv(t)
  <2>1. /\ th[t] = Idle /\ Idle.pc = "idle" /\ Idle.s = NoSample /\ Idle.carry = NoCarry
        /\ Idle.samplings = 0 /\ Idle.same = 0 /\ Idle.cross = 0
    BY <1>1 DEF Idle
  <2>2. LockInv(t)
    BY <1>1, <2>1, SamplerAssumption DEF LockInv, NoShardSample
  <2>3. BudgetInv(t)
    BY <2>1, SamplerAssumption DEF BudgetInv, Reading
  <2>4. /\ RecoveryOK(co, NoSample.val, NoSample.bt1, NoSample.bt2, NoSample.seq)
        /\ EpochOK(CurEpoch, reclaims, NoSample.val, NoSample.epoch, NoSample.seen)
        /\ RecoveryOK(co, NoCarry.val, NoCarry.bt1, NoCarry.bt2, NoCarry.seq)
        /\ OthersOK(CurEpoch, reclaims, t, NoCarry.val, NoCarry.epoch, NoCarry.seen)
    BY <1>2, NullOK
  <2>5. NoSample.seq <= co.invokeSeq
    BY <1>1 DEF NoSample, Coordinator
  <2>6. SampleInv(t)
    BY <1>1, <2>1, <2>4, <2>5 DEF SampleInv
  <2>7. CarryInv(t)
    BY <2>1, <2>4 DEF CarryInv
  <2>8. HoldInv(t)
    BY <2>1 DEF HoldInv
  <2>. QED  BY <2>2, <2>3, <2>6, <2>7, <2>8 DEF ThreadInv
<1>. QED  BY <1>2, <1>4, <1>5, <1>6 DEF IndInv

\* A step that changes nothing keeps the invariant, and acquires nothing.
LEMMA StutterIndInv ==
    ASSUME IndInv, UNCHANGED vars
    PROVE  IndInv'
BY DEF IndInv, TypeInv, CoInv, ShardInv, ThreadInv, LockInv, BudgetInv, SampleInv, CarryInv, HoldInv,
       CurEpoch, Fresh, vars

\* The step of one goroutine: the others stay where they are.
StepOf(t) ==
    \/ Run(t) \/ Lock(t)
    \/ \E k \in Kinds, x \in Shards : Begin(t, k, x)
    \/ \E x \in Shards : NestedReclaim(t, x)

\* Whichever step a goroutine takes.
LEMMA StepInductive ==
    ASSUME IndInv, NEW t \in Threads, StepOf(t)
    PROVE  LockStep(t)
<1>1. CASE Run(t)
  <2>1. Readings \subseteq Levels
    BY SamplerAssumption
  <2>. QED
    BY <1>1, <2>1, CaptureInductive, EnterInductive, PanicInductive, StoreInductive, LeaveInductive
       DEF Run
<1>2. CASE Lock(t)
  BY <1>2, FastReuseInductive, FastAdoptInductive, FastFailInductive, MissApplyInductive,
     MissAdoptInductive, MissFailInductive, RetryInductive, ResolveInductive, CarryApplyInductive,
     CarryFailInductive, SkipEmptyInductive DEF Lock
<1>3. CASE \E k \in Kinds, x \in Shards : Begin(t, k, x)
  BY <1>3, BeginInductive
<1>4. CASE \E x \in Shards : NestedReclaim(t, x)
  BY <1>4, NestedReclaimInductive
<1>. QED  BY <1>1, <1>2, <1>3, <1>4 DEF StepOf

\* A step of one goroutine moves no other.
LEMMA OthersStay ==
    ASSUME TypeInv, NEW t \in Threads, StepOf(t), NEW u \in Threads \ {t}
    PROVE  th'[u] = th[u]
<1>1. th \in [Threads -> ThreadRecs]
  BY DEF TypeInv
<1>2. CASE Run(t)
  BY <1>1, <1>2 DEF Run, Capture, Enter, Panic, Store, Leave
<1>3. CASE Lock(t)
  <2>1. CASE FastReuse(t) \/ FastAdopt(t) \/ FastFail(t)
    BY <1>1, <2>1 DEF FastReuse, FastAdopt, FastFail
  <2>2. CASE MissApply(t) \/ MissAdopt(t) \/ MissFail(t)
    BY <1>1, <2>2 DEF MissApply, MissAdopt, MissFail
  <2>3. CASE Retry(t)
    BY <1>1, <2>3 DEF Retry
  <2>4. CASE Resolve(t)
    BY <1>1, <2>4 DEF Resolve
  <2>5. CASE CarryApply(t) \/ CarryFail(t) \/ SkipEmpty(t)
    BY <1>1, <2>5 DEF CarryApply, CarryFail, SkipEmpty
  <2>. QED  BY <1>3, <2>1, <2>2, <2>3, <2>4, <2>5 DEF Lock
<1>4. CASE \E k \in Kinds, x \in Shards : Begin(t, k, x)
  BY <1>1, <1>4 DEF Begin
<1>5. CASE \E x \in Shards : NestedReclaim(t, x)
  BY <1>5 DEF NestedReclaim
<1>. QED  BY <1>2, <1>3, <1>4, <1>5 DEF StepOf

\* Every step keeps the invariant, and every lock acquired in it is acquired with a
\* sample that is not out of date.
LEMMA NextFacts ==
    ASSUME IndInv, [Next]_vars
    PROVE  IndInv' /\ \A t \in Threads : AcquireFacts(t)
<1>1. CASE UNCHANGED vars
  <2>1. \A t \in Threads : ~Acquires(t)
    BY <1>1 DEF Acquires, vars
  <2>. QED  BY <1>1, <2>1, StutterIndInv DEF AcquireFacts
<1>2. CASE \E t \in Threads : StepOf(t)
  <2>1. PICK t \in Threads : StepOf(t)
    BY <1>2
  <2>2. LockStep(t)
    BY <2>1, StepInductive
  <2>3. \A u \in Threads \ {t} : ~Acquires(u)
    BY <2>1, OthersStay DEF Acquires, IndInv
  <2>. QED  BY <2>2, <2>3 DEF LockStep, AcquireFacts
<1>. QED  BY <1>1, <1>2 DEF Next, StepOf, Done

\* The invariant of the sampling protocol: epochs, recoveries and invocation numbers
\* date every sample kept anywhere, under every interleaving.
THEOREM SamplerInvariant == Spec => []IndInv
<1>1. Init => IndInv
  BY InitIndInv
<1>2. IndInv /\ [Next]_vars => IndInv'
  BY NextFacts
<1>. QED  BY <1>1, <1>2, PTL DEF Spec

\* lockWithPressureSlow, lockWithPressureFastMiss: whatever the others reclaim, an
\* operation takes no more readings for one lock than the retry budgets allow.
THEOREM ReadingsBounded == Spec => []RetriesBounded
<1>1. IndInv => RetriesBounded
  <2>. SUFFICES ASSUME IndInv, NEW t \in Threads
                PROVE  th[t].samplings <= MaxReadings(t)
    BY DEF RetriesBounded
  <2>1. BudgetInv(t) /\ th[t] \in ThreadRecs
    BY DEF IndInv, ThreadInv, TypeInv
  <2>2. th[t].same \in Nat /\ th[t].cross \in Nat /\ th[t].samplings \in Nat
    BY <2>1 DEF ThreadRecs
  <2>. QED  BY <2>1, <2>2, SamplerAssumption DEF BudgetInv, MaxReadings
<1>. QED  BY <1>1, SamplerInvariant, PTL

\* isSampleCausallyStaleLocked, canReuseAppliedLowPressureLocked and the adoption of
\* cached samples: no way of coming by a sample takes a shard back to an older one.
THEOREM SamplesNeverGoBack == Spec => SamplesAdvance
<1>. DEFINE A == \A t \in Threads :
                    Acquires(t) /\ th'[t].seq # 0 => th'[t].seq >= shard[th[t].at].seq
<1>1. IndInv /\ [Next]_vars => [A]_vars
  BY NextFacts DEF AcquireFacts
<1>. HIDE DEF A
<1>2. Spec => [][A]_vars
  BY <1>1, SamplerInvariant, PTL DEF Spec
<1>. QED  BY <1>2 DEF SamplesAdvance, A

\* isSampleRecoveryStale: an operation never acts on an elevated reading once a later
\* one below that tier was recorded.
THEOREM RecoveriesStand == Spec => RecoveryNotUndone
<1>. DEFINE A == \A t \in Threads :
                    Acquires(t) =>
                        /\ th'[t].pressure = Tier2 => th'[t].seq >= co.low2
                        /\ th'[t].pressure = Tier1 => th'[t].seq >= co.low1
<1>1. IndInv /\ [Next]_vars => [A]_vars
  <2>. SUFFICES ASSUME IndInv, [Next]_vars, NEW t \in Threads, Acquires(t)
                PROVE  /\ th'[t].pressure = Tier2 => th'[t].seq >= co.low2
                       /\ th'[t].pressure = Tier1 => th'[t].seq >= co.low1
    OBVIOUS
  <2>1. NotUndone(co, th'[t].pressure, th'[t].seq)
    BY NextFacts DEF AcquireFacts
  <2>. QED  BY <2>1 DEF NotUndone
<1>. HIDE DEF A
<1>2. Spec => [][A]_vars
  BY <1>1, SamplerInvariant, PTL DEF Spec
<1>. QED  BY <1>2 DEF RecoveryNotUndone, A

\* reclaimEpoch: an operation that gets its lock with an elevated pressure has not been
\* overtaken by another goroutine's reclamation, unless it has used up its retries and
\* its own shard has not been reclaimed.
THEOREM ElevatedPressureIsCurrent == Spec => ElevatedIsCurrent
<1>. DEFINE A == \A t \in Threads :
                    Acquires(t) /\ th'[t].pressure >= Tier1 =>
                       \/ \A u \in Threads \ {t} : reclaims[u] = th'[t].seen[u]
                       \/ /\ th'[t].fallback
                          /\ th[t].cross = MaxCrossShardRetries
                          /\ reclaimEpoch[th[t].at] = th[t].s.shardEpoch
<1>1. IndInv /\ [Next]_vars => [A]_vars
  BY NextFacts DEF AcquireFacts, NotOvertaken
<1>. HIDE DEF A
<1>2. Spec => [][A]_vars
  BY <1>1, SamplerInvariant, PTL DEF Spec
<1>. QED  BY <1>2 DEF ElevatedIsCurrent, A

-----------------------------------------------------------------------------
(* Every operation ends                                                    *)

\* The ways a step of t goes on with its operation: it leaves, goes on to the next
\* shard, or makes its way towards the lock of the shard it is at.
Ends(t) == th'[t].pc = "idle" /\ th'[t].todo = {}

MovesOn(t) ==
    /\ th'[t].pc \in {"enter", "carry"} /\ th'[t].kind = th[t].kind
    /\ \E x \in th[t].todo : th'[t].todo = th[t].todo \ {x}

Approaches(t) ==
    /\ th'[t].kind = th[t].kind /\ th'[t].todo = th[t].todo
    /\ \/ /\ th'[t].pc = "holding" /\ th[t].pc \in {"fast", "lock", "carry"}
       \/ /\ th'[t].pc = "capture" /\ th'[t].load = 1 /\ th[t].pc \in {"enter", "fast", "lock"}
          /\ th'[t].samplings = th[t].samplings + 1
       \/ /\ th'[t].samplings = th[t].samplings
          /\ \/ th[t].pc = "enter" /\ th'[t].pc = "fast"
             \/ th[t].pc = "carry" /\ th'[t].pc = "enter"
             \/ th[t].pc = "capture" /\ th'[t].pc = "capture" /\ th'[t].load = th[t].load + 1
             \/ th[t].pc = "capture" /\ th[t].load = 4 /\ th'[t].pc = "hook"
             \/ th[t].pc = "hook" /\ th'[t].pc = "lock"

\* A goroutine that gets a lock, or takes another reading, stays at its shard.
LEMMA HoldingGoes ==
    ASSUME TypeInv, NEW t \in Threads, NEW s, NEW fb
    PROVE  LET h == Holding(t, s, fb) IN
           h.pc = "holding" /\ h.kind = th[t].kind /\ h.todo = th[t].todo
<1>1. th[t] \in ThreadRecs
  BY DEF TypeInv
<1>. QED  BY <1>1 DEF ThreadRecs, Holding

\* The next shard is taken off the list.
LEMMA MoveOnGoes ==
    ASSUME TypeInv, NEW t \in Threads, NEW c, th'[t] = MoveOn(t, c)
    PROVE  Ends(t) \/ MovesOn(t)
<1>1. CASE th[t].todo = {}
  BY <1>1 DEF MoveOn, Ends, Idle
<1>2. CASE th[t].todo # {}
  <2>1. th[t].todo \in SUBSET Shards
    BY DEF TypeInv, ThreadRecs
  <2>2. First(th[t].todo) \in th[t].todo
    BY <1>2, <2>1, FirstIn
  <2>3. /\ th'[t].pc \in {"enter", "carry"} /\ th'[t].kind = th[t].kind
        /\ th'[t].todo = th[t].todo \ {First(th[t].todo)}
    BY <1>2 DEF MoveOn, Idle
  <2>. QED  BY <2>2, <2>3 DEF MovesOn
<1>. QED  BY <1>1, <1>2

\* Every step of an operation is one of these.
LEMMA StepProgresses ==
    ASSUME IndInv, NEW t \in Threads, StepOf(t), th[t].pc # "idle", th'[t] # th[t]
    PROVE  Ends(t) \/ MovesOn(t) \/ Approaches(t)
<1>1. /\ TypeInv /\ th \in [Threads -> ThreadRecs] /\ th[t] \in ThreadRecs
  BY DEF IndInv, TypeInv
<1>. DEFINE Gets == \E s, fb : th'[t] = Holding(t, s, fb)
            Rereads == \E path \in {"slow", "miss"} : th'[t] = Sampling(t, path)
<1>2. ASSUME Gets, th[t].pc \in {"fast", "lock", "carry"} PROVE Approaches(t)
  BY <1>1, <1>2, HoldingGoes DEF Approaches
<1>3. ASSUME Rereads, th[t].pc \in {"enter", "fast", "lock"} PROVE Approaches(t)
  BY <1>1, <1>3, SamplingFacts DEF Approaches
<1>4. CASE Capture(t)
  <2>. DEFINE i == th[t].load
  <2>1. /\ th[t].pc = "capture"
        /\ th'[t].pc = IF i = 4 THEN "hook" ELSE "capture"
        /\ th'[t].load = IF i = 4 THEN 0 ELSE i + 1
        /\ th'[t].kind = th[t].kind /\ th'[t].todo = th[t].todo
        /\ th'[t].samplings = th[t].samplings
    BY <1>1, <1>4 DEF Capture, ThreadRecs
  <2>. QED  BY <2>1 DEF Approaches
<1>5. CASE Enter(t)
  <2>1. th[t].pc = "enter" /\ th'[t] = EnterLock(t)
    BY <1>1, <1>5 DEF Enter
  <2>2. CASE Rereads
    BY <1>3, <2>1, <2>2
  <2>3. CASE ~Rereads
    <3>1. th'[t] = [th[t] EXCEPT !.pc = "fast"]
      BY <2>1, <2>3 DEF EnterLock
    <3>2. /\ th'[t].pc = "fast" /\ th'[t].kind = th[t].kind /\ th'[t].todo = th[t].todo
          /\ th'[t].samplings = th[t].samplings
      BY <1>1, <3>1 DEF ThreadRecs
    <3>. QED  BY <2>1, <3>2 DEF Approaches
  <2>. QED  BY <2>2, <2>3
<1>6. CASE Panic(t)
  BY <1>1, <1>6 DEF Panic, Ends, Idle
<1>7. CASE \E v \in Readings : Store(t, v)
  <2>1. PICK v \in Readings : Store(t, v)
    BY <1>7
  <2>2. /\ th[t].pc = "hook" /\ th'[t].pc = "lock" /\ th'[t].kind = th[t].kind
        /\ th'[t].todo = th[t].todo /\ th'[t].samplings = th[t].samplings
    BY <1>1, <2>1 DEF Store, ThreadRecs
  <2>. QED  BY <2>2 DEF Approaches
<1>8. CASE \E reclaimed \in BOOLEAN : Leave(t, reclaimed)
  <2>1. \E c : th'[t] = MoveOn(t, c)
    BY <1>1, <1>8 DEF Leave
  <2>. QED  BY <1>1, <2>1, MoveOnGoes
<1>9. CASE FastReuse(t) \/ FastAdopt(t) \/ MissApply(t) \/ MissAdopt(t)
  <2>1. Gets /\ th[t].pc \in {"fast", "lock"}
    BY <1>1, <1>9 DEF FastReuse, FastAdopt, MissApply, MissAdopt, AtMiss
  <2>. QED  BY <1>2, <2>1
<1>10. CASE FastFail(t) \/ MissFail(t)
  <2>1. Rereads /\ th[t].pc \in {"fast", "lock"}
    BY <1>1, <1>10 DEF FastFail, MissFail, AtMiss
  <2>. QED  BY <1>3, <2>1
<1>11. CASE Retry(t)
  <2>. DEFINE same == SameShard(th[t].at, Judged(th[t].at, th[t].s).s)
              h == Sampling(t, "slow")
              ns == IF same THEN h.same + 1 ELSE h.same
              nc == IF same THEN h.cross ELSE h.cross + 1
  <2>1. th[t].pc = "lock" /\ th'[t] = [h EXCEPT !.same = ns, !.cross = nc]
    BY <1>1, <1>11 DEF Retry
  <2>2. /\ h \in ThreadRecs /\ h.pc = "capture" /\ h.load = 1 /\ h.kind = th[t].kind
        /\ h.todo = th[t].todo /\ h.samplings = th[t].samplings + 1
    BY <1>1, SamplingFacts
  <2>. HIDE DEF h, ns, nc
  <2>3. /\ th'[t].pc = "capture" /\ th'[t].load = 1 /\ th'[t].kind = th[t].kind
        /\ th'[t].todo = th[t].todo /\ th'[t].samplings = th[t].samplings + 1
    BY <2>1, <2>2 DEF ThreadRecs
  <2>. QED  BY <2>1, <2>3 DEF Approaches
<1>12. CASE Resolve(t)
  <2>. DEFINE s == Judged(th[t].at, th[t].s).s
  <2>1. th[t].pc = "lock"
    BY <1>12 DEF Resolve
  <2>2. \/ th' = [th EXCEPT ![t] = Holding(t, s, FALSE)]
        \/ th' = [th EXCEPT ![t] = Holding(t, Cached, FALSE)]
        \/ th' = [th EXCEPT ![t] = Holding(t, s, TRUE)]
        \/ th' = [th EXCEPT ![t] = Holding(t, NoSample, FALSE)]
    BY <1>12 DEF Resolve
  <2>. HIDE DEF s
  <2>3. Gets
    BY <1>1, <2>2
  <2>. QED  BY <1>2, <2>1, <2>3
<1>13. CASE CarryApply(t)
  <2>1. th[t].pc = "carry" /\ \E s, c : th'[t] = [Holding(t, s, FALSE) EXCEPT !.carry = c]
    BY <1>1, <1>13 DEF CarryApply
  <2>2. PICK s, c : th'[t] = [Holding(t, s, FALSE) EXCEPT !.carry = c]
    BY <2>1
  <2>3. /\ th'[t].pc = "holding" /\ th'[t].kind = th[t].kind /\ th'[t].todo = th[t].todo
    BY <1>1, <2>2 DEF ThreadRecs, Holding
  <2>. QED  BY <2>1, <2>3 DEF Approaches
<1>14. CASE CarryFail(t)
  <2>1. /\ th[t].pc = "carry" /\ th'[t].pc = "enter" /\ th'[t].kind = th[t].kind
        /\ th'[t].todo = th[t].todo /\ th'[t].samplings = th[t].samplings
    BY <1>1, <1>14 DEF CarryFail, ThreadRecs
  <2>. QED  BY <2>1 DEF Approaches
<1>15. CASE SkipEmpty(t)
  <2>1. \E c : th'[t] = MoveOn(t, c)
    BY <1>1, <1>15 DEF SkipEmpty
  <2>. QED  BY <1>1, <2>1, MoveOnGoes
<1>16. \A k, x : ~Begin(t, k, x)
  BY DEF Begin
<1>17. ~(\E x \in Shards : NestedReclaim(t, x))
  BY DEF NestedReclaim
<1>. QED  BY <1>4, <1>5, <1>6, <1>7, <1>8, <1>9, <1>10, <1>11, <1>12, <1>13, <1>14, <1>15, <1>16, <1>17
          DEF StepOf, Run, Lock

\* The measure for a goroutine at one shard, b being the readings it may take there.
HereOf(r, b) ==
    LET readings == 6 * (b - r.samplings)
    IN  CASE r.pc = "idle" -> 0
          [] r.pc = "holding" -> 1
          [] r.pc = "lock" -> readings + 2
          [] r.pc = "hook" -> readings + 3
          [] r.pc = "capture" -> readings + 8 - r.load
          [] r.pc = "fast" -> 6 * b + 2
          [] r.pc = "enter" -> 6 * b + 3
          [] r.pc = "carry" -> 6 * b + 4

\* StepsLeft is that, and the full measure for every shard left.
LEMMA StepsLeftIs ==
    ASSUME NEW t \in Threads, NEW b \in Nat, MaxReadings(t) = b
    PROVE  StepsLeft(t) = Cardinality(th[t].todo) * (6 * b + 4) + HereOf(th[t], b)
<1>. DEFINE r == th[t]
<1>1. StepsPerShard(t) = 6 * b + 4 /\ StepsPerShard(t) - 2 = 6 * b + 2 /\ StepsPerShard(t) - 1 = 6 * b + 3
  BY DEF StepsPerShard
<1>. QED  BY <1>1 DEF StepsLeft, HereOf

\* The same after a step.
LEMMA StepsLeftIsNext ==
    ASSUME NEW t \in Threads, NEW b \in Nat, MaxReadings(t)' = b
    PROVE  StepsLeft(t)' = Cardinality(th'[t].todo) * (6 * b + 4) + HereOf(th'[t], b)
<1>1. StepsPerShard(t)' = 6 * b + 4 /\ StepsPerShard(t)' - 2 = 6 * b + 2 /\ StepsPerShard(t)' - 1 = 6 * b + 3
  BY DEF StepsPerShard
<1>. QED  BY <1>1 DEF StepsLeft, HereOf

\* At one shard the measure is positive, and at most that of a whole shard on arrival.
LEMMA HereBounds ==
    ASSUME NEW r \in ThreadRecs, NEW b \in Nat, r.samplings <= b,
           r.pc = "capture" => r.load \in 1..4
    PROVE  /\ HereOf(r, b) \in Nat
           /\ r.pc \in {"enter", "carry"} => HereOf(r, b) <= 6 * b + 4
           /\ r.pc # "idle" => HereOf(r, b) >= 1
<1>1. r.pc \in Stages /\ r.samplings \in Nat
  BY DEF ThreadRecs
<1>2. CASE r.pc \in {"idle", "holding", "fast", "enter", "carry"}
  BY <1>2 DEF HereOf
<1>3. CASE r.pc = "lock"
  BY <1>1, <1>3 DEF HereOf
<1>4. CASE r.pc = "hook"
  BY <1>1, <1>4 DEF HereOf
<1>5. CASE r.pc = "capture"
  BY <1>1, <1>5 DEF HereOf
<1>. QED  BY <1>1, <1>2, <1>3, <1>4, <1>5 DEF Stages, Reading

\* Every step of an operation lowers it.
LEMMA HereDrops ==
    ASSUME NEW t \in Threads, TypeInv, TypeInv', Approaches(t), NEW b \in Nat,
           th[t].samplings <= b, th'[t].samplings <= b,
           th[t].pc = "enter" => th[t].samplings = 0,
           th[t].pc = "fast" => th[t].samplings = 0,
           th[t].pc = "capture" => th[t].load \in 1..4,
           th'[t].pc = "capture" => th'[t].load \in 1..4
    PROVE  HereOf(th'[t], b) < HereOf(th[t], b)
<1>1. th[t].samplings \in Nat /\ th'[t].samplings \in Nat
  BY DEF TypeInv, ThreadRecs
<1>2. CASE th'[t].pc = "holding" /\ th[t].pc \in {"fast", "lock", "carry"}
  BY <1>1, <1>2 DEF HereOf
<1>3. CASE /\ th'[t].pc = "capture" /\ th'[t].load = 1 /\ th[t].pc \in {"enter", "fast", "lock"}
           /\ th'[t].samplings = th[t].samplings + 1
  BY <1>1, <1>3 DEF HereOf
<1>4. CASE /\ th'[t].samplings = th[t].samplings
           /\ \/ th[t].pc = "enter" /\ th'[t].pc = "fast"
              \/ th[t].pc = "carry" /\ th'[t].pc = "enter"
              \/ th[t].pc = "capture" /\ th'[t].pc = "capture" /\ th'[t].load = th[t].load + 1
              \/ th[t].pc = "capture" /\ th[t].load = 4 /\ th'[t].pc = "hook"
              \/ th[t].pc = "hook" /\ th'[t].pc = "lock"
  BY <1>1, <1>4 DEF HereOf
<1>. QED  BY <1>2, <1>3, <1>4 DEF Approaches

\* One shard fewer.
LEMMA OneShardFewer ==
    ASSUME NEW m \in Nat, NEW n \in Nat, NEW w \in Nat, m = n - 1
    PROVE  m * w + w = n * w
<1>1. m + 1 = n
  OBVIOUS
<1>. QED  BY <1>1

\* lockWithPressure, lockWithPressureSlow, deletePrefixShard: whatever the others do,
\* each step a goroutine takes brings it nearer to the end of its operation.
THEOREM OperationsTerminate == Spec => OperationsEnd
<1>. DEFINE A == \A t \in Threads :
                    th[t].pc # "idle" /\ th'[t] # th[t] =>
                       0 <= StepsLeft(t)' /\ StepsLeft(t)' < StepsLeft(t)
<1>1. IndInv /\ [Next]_vars => [A]_vars
  <2>. SUFFICES ASSUME IndInv, [Next]_vars, NEW t \in Threads, th[t].pc # "idle", th'[t] # th[t]
                PROVE  0 <= StepsLeft(t)' /\ StepsLeft(t)' < StepsLeft(t)
    OBVIOUS
  <2>. DEFINE b == MaxReadings(t)
              c == MaxReadings(t)'
              m == Cardinality(th[t].todo)
              n == Cardinality(th'[t].todo)
              r == th[t]
              q == th'[t]
  <2>1. StepOf(t)
    <3>1. PICK u \in Threads : StepOf(u)
      BY DEF Next, StepOf, Done, vars
    <3>2. u = t
      BY <3>1, OthersStay DEF IndInv
    <3>. QED  BY <3>1, <3>2
  <2>2. IndInv'
    BY NextFacts
  <2>3. /\ TypeInv /\ TypeInv' /\ BudgetInv(t) /\ BudgetInv(t)' /\ r \in ThreadRecs /\ q \in ThreadRecs
    BY <2>2 DEF IndInv, ThreadInv, TypeInv
  <2>4. /\ b \in Nat /\ r.samplings <= b
        /\ r.pc = "enter" => r.samplings = 0
        /\ r.pc = "fast" => r.samplings = 0
        /\ r.pc = "capture" => r.load \in 1..4
    <3>1. r.same \in Nat /\ r.cross \in Nat /\ r.samplings \in Nat
      BY <2>3 DEF ThreadRecs
    <3>. QED  BY <2>3, <3>1, SamplerAssumption DEF BudgetInv, MaxReadings
  <2>5. /\ c \in Nat /\ q.samplings <= c
        /\ q.pc = "capture" => q.load \in 1..4
    <3>1. q.same \in Nat /\ q.cross \in Nat /\ q.samplings \in Nat
      BY <2>3 DEF ThreadRecs
    <3>. QED  BY <2>3, <3>1, SamplerAssumption DEF BudgetInv, MaxReadings
  <2>6. q.kind = r.kind => c = b
    BY DEF MaxReadings, Fresh
  <2>7. IsFiniteSet(r.todo) /\ m \in Nat
    <3>1. r.todo \in SUBSET Shards
      BY <2>3 DEF ThreadRecs
    <3>. QED  BY <3>1, FS_Subset, FS_CardinalityType, SamplerAssumption
  <2>8. /\ StepsLeft(t) = m * (6 * b + 4) + HereOf(r, b)
        /\ StepsLeft(t)' = n * (6 * c + 4) + HereOf(q, c)
    BY <2>4, <2>5, StepsLeftIs, StepsLeftIsNext
  <2>9. /\ HereOf(r, b) \in Nat /\ HereOf(r, b) >= 1
        /\ HereOf(q, c) \in Nat
        /\ q.pc \in {"enter", "carry"} => HereOf(q, c) <= 6 * c + 4
    BY <2>3, <2>4, <2>5, HereBounds
  <2>10. CASE Ends(t)
    <3>1. n = 0 /\ HereOf(q, c) = 0
      BY <2>10, FS_EmptySet DEF Ends, HereOf
    <3>2. m * (6 * b + 4) \in Nat /\ n * (6 * c + 4) = 0
      BY <2>4, <2>5, <2>7, <3>1
    <3>. QED  BY <2>8, <2>9, <3>1, <3>2
  <2>11. CASE MovesOn(t)
    <3>1. PICK x \in r.todo : q.todo = r.todo \ {x}
      BY <2>11 DEF MovesOn
    <3>2. n = m - 1 /\ n \in Nat
      BY <2>7, <3>1, FS_RemoveElement, FS_CardinalityType
    <3>3. c = b
      BY <2>6, <2>11 DEF MovesOn
    <3>. DEFINE w == 6 * b + 4
    <3>4. w \in Nat /\ n * w + w = m * w /\ n * w \in Nat
      BY <2>4, <2>7, <3>2, OneShardFewer
    <3>5. StepsLeft(t) = m * w + HereOf(r, b) /\ StepsLeft(t)' = n * w + HereOf(q, b)
      BY <2>8, <3>3
    <3>6. HereOf(q, b) \in Nat /\ HereOf(q, b) <= w
      BY <2>9, <2>11, <3>3 DEF MovesOn
    <3>7. m * w \in Nat
      BY <3>4, <2>7
    <3>. HIDE DEF w, n, m
    <3>. QED  BY <2>9, <3>4, <3>5, <3>6, <3>7
  <2>12. CASE Approaches(t)
    <3>1. n = m /\ c = b
      BY <2>6, <2>12 DEF Approaches
    <3>2. HereOf(q, b) < HereOf(r, b)
      BY <2>3, <2>4, <2>5, <2>12, <3>1, HereDrops
    <3>. DEFINE w == m * (6 * b + 4)
    <3>3. w \in Nat
      BY <2>4, <2>7
    <3>4. StepsLeft(t) = w + HereOf(r, b) /\ StepsLeft(t)' = w + HereOf(q, b)
      BY <2>8, <3>1
    <3>5. HereOf(q, b) \in Nat
      BY <2>9, <3>1
    <3>. HIDE DEF w
    <3>. QED  BY <2>9, <3>2, <3>3, <3>4, <3>5
  <2>. QED  BY <2>1, <2>10, <2>11, <2>12, StepProgresses
<1>. HIDE DEF A
<1>2. Spec => [][A]_vars
  BY <1>1, SamplerInvariant, PTL DEF Spec
<1>. QED  BY <1>2 DEF OperationsEnd, A

=============================================================================
