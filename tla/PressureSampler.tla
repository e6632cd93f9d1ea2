-------------------------- MODULE PressureSampler ---------------------------
(***************************************************************************)
(* The pressure sampling protocol (pressure.go): how an operation obtains  *)
(* its shard's lock together with a pressure it may act on.  The reading   *)
(* is taken before the lock, so by the time the lock is held another shard *)
(* may have reclaimed, or a later reading may have shown that the pressure *)
(* is over; epochs and invocation numbers are how the code tells.          *)
(*                                                                         *)
(* Steps: each load before the reading (Capture), the reading (PressureFunc *)
(* runs while other goroutines go on), each critical section of            *)
(* pressureWriteMu, and each decision under a shard lock.  The lock-free   *)
(* read of the cached sample is one step, which CachedSample justifies.    *)
(*                                                                         *)
(* A cache that is not sharded is Shards = {Coord}.  Which goroutine is    *)
(* running inside PressureFunc is taken as known exactly (the lineage      *)
(* detection of pressure.go is not modelled).                              *)
(***************************************************************************)
EXTENDS Naturals, FiniteSets

CONSTANTS
    Threads,                \* goroutines that operate on the cache
    Shards,                 \* pressureStates that own a lock, numbered
    Coord,                  \* number of the coordinator's pressureState
    Nobody,                 \* no goroutine
    Custom,                 \* options.hasCustomPressureFunc
    Readings,               \* the levels PressureFunc may return
    Kinds,                  \* the operations callers make
    Window,                 \* writes between default samples (256)
    MaxSameShardRetries,    \* 2 in the source
    MaxCrossShardRetries,   \* 4 in the source
    MaxOps                  \* bound on the operations begun

Tier1 == 1
Tier2 == 2
Levels == 0..2

ASSUME SamplerAssumption ==
    /\ Shards \subseteq Nat /\ IsFiniteSet(Shards) /\ Coord \in Nat
    /\ Custom \in BOOLEAN /\ Readings \subseteq Levels
    /\ Kinds \subseteq {"write", "prefix", "evaluate"}
    /\ Window \in Nat \ {0}
    /\ MaxSameShardRetries \in Nat /\ MaxCrossShardRetries \in Nat
    /\ MaxOps \in Nat /\ Nobody \notin Threads

VARIABLES
    reclaimEpoch,   \* by pressureState
    externalEpoch,  \* externalReclaimEpoch: not counting PressureFunc's own
    reentrant,      \* by pressureState: samplers that reclaimed inside their
                    \* PressureFunc since it was called
    lastReentrant,  \* lastReentrantGID
    co,             \* the coordinator's sample bookkeeping
    shard,          \* by shard: the sample last applied, and its lock
    th,             \* by goroutine: its position and locals
    reclaims,       \* history: reclamations marked, by goroutine
    atReading,      \* history: by goroutine, reclaims when it last read
    started         \* operations begun

vars == <<reclaimEpoch, externalEpoch, reentrant, lastReentrant, co, shard, th,
          reclaims, atReading, started>>

Nodes == Shards \cup {Coord}

\* seen, of every sample: how often each goroutine had reclaimed when the
\* reading was made (history).
NeverSeen == [t \in Threads |-> 0]

NoSample ==
    [epoch |-> 0, shardEpoch |-> 0, shardExt |-> 0, ext |-> 0, seq |-> 0,
     bt1 |-> 0, bt2 |-> 0, val |-> 0, seen |-> NeverSeen]

NoCarry ==
    [has |-> FALSE, val |-> 0, epoch |-> 0, bt1 |-> 0, bt2 |-> 0, seq |-> 0,
     seen |-> NeverSeen]

Coordinator ==
    [bt1 |-> 0, bt2 |-> 0, invokeSeq |-> 0, panics |-> 0,
     lastSeq |-> 0, lastEpoch |-> 0, lastVal |-> 0, lastSeen |-> NeverSeen,
     pubSeq |-> 0, init |-> FALSE, refresh |-> FALSE, cEpoch |-> 0,
     cBt1 |-> 0, cBt2 |-> 0, cSeq |-> 0, cVal |-> 0, cSeen |-> NeverSeen,
     low1 |-> 0, low2 |-> 0]   \* history: newest reading recorded below a tier

NoShardSample ==
    [holder |-> Nobody, valid |-> FALSE, epoch |-> 0, bt1 |-> 0, bt2 |-> 0,
     seq |-> 0, appPub |-> 0, appSeq |-> 0, appVal |-> 0, writes |-> 0,
     due |-> FALSE]

Idle ==
    [pc |-> "idle", kind |-> "none", at |-> Coord, todo |-> {}, load |-> 0,
     s |-> NoSample, prePanics |-> 0, path |-> "slow", same |-> 0, cross |-> 0,
     samplings |-> 0, pressure |-> 0, seq |-> 0, seen |-> NeverSeen,
     fallback |-> FALSE, carry |-> NoCarry]

Init ==
    /\ reclaimEpoch = [n \in Nodes |-> 0]
    /\ externalEpoch = [n \in Nodes |-> 0]
    /\ reentrant = [n \in Nodes |-> {}]
    /\ lastReentrant = [n \in Nodes |-> Nobody]
    /\ co = Coordinator
    /\ shard = [x \in Shards |-> NoShardSample]
    /\ th = [t \in Threads |-> Idle]
    /\ reclaims = NeverSeen
    /\ atReading = [t \in Threads |-> NeverSeen]
    /\ started = 0

epochs ==
    <<reclaimEpoch, externalEpoch, reentrant, lastReentrant, reclaims, atReading>>

CurEpoch == reclaimEpoch[Coord]

First(S) == CHOOSE x \in S : \A y \in S : x <= y

Larger(a, b) == IF a >= b THEN a ELSE b
BeginSeq(c) == IF c.pubSeq % 2 = 1 THEN c.pubSeq ELSE c.pubSeq + 1

-----------------------------------------------------------------------------
(* When a sample is out of date                                            *)

\* Mutant of IsSampleRecoveryStale: recoveries are not looked at.
IsSampleRecoveryStaleNever(val, bt1, bt2) == FALSE

\* isSampleRecoveryStale, isPreSampleElevatedCausallyStaleLocked.
IsSampleRecoveryStale(val, bt1, bt2) ==
    \/ val = Tier2 /\ bt2 < co.bt2
    \/ val = Tier1 /\ bt1 < co.bt1

\* Mutant of IsSampleCausallyStale: the invocation numbers are not compared.
IsSampleCausallyStaleByRecovery(x, s) ==
    IsSampleRecoveryStale(s.val, s.bt1, s.bt2)

IsSampleCausallyStale(x, s) ==
    \/ s.seq # 0 /\ (s.seq < shard[x].seq \/ s.seq < co.lastSeq \/ s.seq < co.cSeq)
    \/ IsSampleRecoveryStale(s.val, s.bt1, s.bt2)

\* readValidCachedSampleWithPubSeq(reclaimEpoch): see CachedSample.
CachedValid == co.init /\ ~co.refresh /\ co.cEpoch = CurEpoch

Cached ==
    [epoch |-> co.cEpoch, bt1 |-> co.cBt1, bt2 |-> co.cBt2, seq |-> co.cSeq,
     val |-> co.cVal, seen |-> co.cSeen]

\* A valid cached sample no older than minSeq, nor than the one x has applied.
CanAdopt(x, minSeq) ==
    /\ CachedValid
    /\ co.cSeq >= minSeq /\ co.cSeq >= shard[x].seq
    /\ ~IsSampleRecoveryStale(co.cVal, co.cBt1, co.cBt2)

\* Mutant of CanFastForwardLow: an elevated reading is moved on too.
CanFastForwardAny(val) ==
    ~co.init \/ co.cEpoch # CurEpoch \/ co.cVal < Tier1

\* canFastForwardLowPressureEpochLocked
CanFastForwardLow(val) ==
    /\ val < Tier1
    /\ ~co.init \/ co.cEpoch # CurEpoch \/ co.cVal < Tier1

-----------------------------------------------------------------------------
(* Applying a sample to a shard, under its lock                            *)

\* syncZeroWatermarkLocked, after hasValidSample and sampledCoordEpoch are set.
Applied(x, epoch, bt1, bt2, seq) ==
    IF seq < shard[x].seq
    THEN [shard[x] EXCEPT !.valid = FALSE, !.epoch = epoch, !.appPub = 0]
    ELSE [shard[x] EXCEPT !.valid = TRUE, !.epoch = epoch, !.appPub = 0,
                          !.bt1 = Larger(@, bt1), !.bt2 = Larger(@, bt2),
                          !.seq = seq]

\* recordAppliedLowPressureSampleLocked and tryCacheFreshSamplePubSeqLocked: the
\* publication whose low pressure later writes of the window may reuse.
Reusable(sh, matches, seq, val) ==
    IF /\ sh.valid /\ val < Tier1 /\ matches
       /\ co.pubSeq # 0 /\ co.pubSeq % 2 = 0
    THEN [sh EXCEPT !.appPub = co.pubSeq, !.appSeq = seq, !.appVal = val]
    ELSE [sh EXCEPT !.appPub = 0]

\* advanceLocalWriteSeqLocked
AdvanceWrites(sh) ==
    LET n == (sh.writes + 1) % Window
    IN  [sh EXCEPT !.writes = n, !.due = @ \/ n = 0]

Holding(t, s, fallback) ==
    [th[t] EXCEPT !.pc = "holding", !.s = NoSample, !.pressure = s.val,
                  !.seq = s.seq, !.seen = s.seen, !.fallback = fallback]

-----------------------------------------------------------------------------
(* Taking a reading: samplePressureFreshOnCoord, invokeAndStorePressure    *)

Sampling(t, path) ==
    [th[t] EXCEPT !.pc = "capture", !.load = 1, !.path = path, !.s = NoSample,
                  !.samplings = @ + 1]

Active == {t \in Threads : th[t].pc \in {"capture", "hook"}}

ClearReentrant(t) == [n \in Nodes |-> reentrant[n] \ {t}]

\* The loads before PressureFunc is called, in the code's order; the last takes
\* the invocation number.
Capture(t) ==
    /\ th[t].pc = "capture"
    /\ LET x == th[t].at
           i == th[t].load
           s == th[t].s
       IN  /\ th' = [th EXCEPT ![t].load = IF i = 4 THEN 0 ELSE i + 1,
                               ![t].pc = IF i = 4 THEN "hook" ELSE "capture",
                               ![t].prePanics = IF i = 1 THEN co.panics ELSE @,
                               ![t].s =
                CASE i = 1 -> [s EXCEPT !.shardExt = externalEpoch[x],
                                        !.shardEpoch = reclaimEpoch[x]]
                  [] i = 2 -> [s EXCEPT !.ext = externalEpoch[Coord],
                                        !.epoch = CurEpoch]
                  [] i = 3 -> [s EXCEPT !.bt1 = co.bt1, !.bt2 = co.bt2]
                  [] i = 4 -> [s EXCEPT !.seq = co.invokeSeq + 1]]
           /\ co' = IF i = 4 THEN [co EXCEPT !.invokeSeq = @ + 1] ELSE co
           /\ reentrant' = IF i = 1 THEN ClearReentrant(t) ELSE reentrant
           /\ atReading' = IF i = 2 THEN [atReading EXCEPT ![t] = reclaims] ELSE atReading
    /\ UNCHANGED <<reclaimEpoch, externalEpoch, lastReentrant, shard, reclaims,
                   started>>

\* isSoleReentrantReclaimerLocked: whoever else reclaimed on n since PressureFunc
\* was called, it was not from inside another one, and none has panicked.
Sole(t, n) ==
    /\ t \in reentrant[n] /\ co.panics = th[t].prePanics
    /\ lastReentrant[n] \in {Nobody, t}

\* resolveSampleEpochsLocked, resolveTargetShardEpochLocked: the epochs the reading
\* v is moved on to, and whether it may be stored.
ResolvedEpochs(t, v) ==
    LET s == th[t].s
        x == th[t].at
        behind == Custom /\ CurEpoch # s.epoch /\ externalEpoch[Coord] = s.ext
        bySole == behind /\ Sole(t, Coord)
        forward == bySole \/ (behind /\ CanFastForwardLow(v))
        shardForward == /\ Custom /\ x # Coord /\ externalEpoch[x] = s.shardExt
                        /\ Sole(t, x) \/ CanFastForwardLow(v)
    IN  [allow |-> CurEpoch = s.epoch \/ bySole,
         epoch |-> IF forward THEN CurEpoch ELSE s.epoch,
         shardEpoch |-> IF forward \/ shardForward THEN reclaimEpoch[x]
                        ELSE s.shardEpoch]

HasCachedAt(epoch) == co.init /\ ~co.refresh /\ co.cEpoch = epoch

\* decideSampleStoreLocked, decideOlderInvokeSeqLocked: what becomes of the sample
\* s whose epochs were resolved to r.
StoreMode(s, r) ==
    IF ~r.allow THEN "refused"
    ELSE IF HasCachedAt(r.epoch) /\ s.seq < co.cSeq THEN "adoptedCached"
    ELSE IF s.seq >= co.lastSeq THEN "store"
    ELSE IF co.lastEpoch = r.epoch THEN "adoptedLast"
    ELSE IF r.epoch > s.epoch /\ r.epoch > co.lastEpoch THEN "renumbered"
    ELSE IF s.epoch <= co.lastEpoch THEN "older"
    ELSE "store"

\* The reading t goes on with: its own, or one it adopts.
Taken(t, v, mode) ==
    IF mode = "adoptedCached"
    THEN [val |-> co.cVal, seq |-> co.cSeq, seen |-> co.cSeen]
    ELSE IF mode = "adoptedLast"
    THEN [val |-> co.lastVal, seq |-> co.lastSeq, seen |-> co.lastSeen]
    ELSE [val |-> v, seen |-> atReading[t],
          seq |-> IF mode = "renumbered" THEN co.invokeSeq + 1 ELSE th[t].s.seq]

WillStore(mode) == mode \in {"store", "renumbered"}

AsksRefresh(mode, epoch) ==
    \/ mode = "refused" /\ (~co.init \/ co.cEpoch # CurEpoch)
    \/ mode \in {"adoptedLast", "older"} /\ ~HasCachedAt(epoch)

\* recordLastSampledTelemetryLocked
Records(s, epoch, mode, seq, elevatedStale) ==
    /\ mode \notin {"adoptedCached", "adoptedLast"} /\ ~elevatedStale
    /\ \/ WillStore(mode)
       \/ CurEpoch = epoch /\ ~(co.init /\ co.cEpoch = CurEpoch)
    /\ seq >= co.lastSeq \/ (WillStore(mode) /\ s.epoch > co.lastEpoch)

\* What it records of the reading d; advanceRecoveryEpochsForValLocked.
Recorded(d, epoch) ==
    [co EXCEPT !.lastSeq = Larger(@, d.seq), !.lastEpoch = epoch,
               !.lastVal = d.val, !.lastSeen = d.seen,
               !.bt1 = IF d.val < Tier1 THEN @ + 1 ELSE @,
               !.bt2 = IF d.val < Tier2 THEN @ + 1 ELSE @,
               !.low1 = IF d.val < Tier1 THEN Larger(@, d.seq) ELSE @,
               !.low2 = IF d.val < Tier2 THEN Larger(@, d.seq) ELSE @]

\* The recovery epochs the sample is given.
StoredRecovery(s, d, mode, records) ==
    IF mode = "adoptedCached" THEN [bt1 |-> co.cBt1, bt2 |-> co.cBt2]
    ELSE IF mode = "adoptedLast" THEN [bt1 |-> co.bt1, bt2 |-> co.bt2]
    ELSE [bt1 |-> IF records /\ d.val < Tier1 THEN co.bt1 + 1 ELSE s.bt1,
          bt2 |-> IF records /\ d.val < Tier2 THEN co.bt2 + 1 ELSE s.bt2]

\* beginCachedPublishLocked and publishCachedPressureLocked; an invocation number
\* given anew counts.
Published(c, d, b, epoch, elevatedStale) ==
    [c EXCEPT !.invokeSeq = Larger(@, d.seq), !.pubSeq = BeginSeq(c) + 1,
              !.init = TRUE, !.refresh = elevatedStale, !.cEpoch = epoch,
              !.cBt1 = b.bt1, !.cBt2 = b.bt2, !.cSeq = d.seq, !.cVal = d.val,
              !.cSeen = d.seen]

\* storeSampledPressureWithSeq: what the reading v of t does to the coordinator,
\* and the sample t carries on with.
StoreOutcome(t, v) ==
    LET s == th[t].s
        elevatedStale == IsSampleRecoveryStale(v, s.bt1, s.bt2)
        r == ResolvedEpochs(t, v)
        mode == StoreMode(s, r)
        d == Taken(t, v, mode)
        records == Records(s, r.epoch, mode, d.seq, elevatedStale)
        recorded == IF records THEN Recorded(d, r.epoch) ELSE co
        b == StoredRecovery(s, d, mode, records)
    IN  [co |-> IF WillStore(mode)
                THEN Published(recorded, d, b, r.epoch, elevatedStale)
                ELSE [recorded EXCEPT !.refresh = @ \/ AsksRefresh(mode, r.epoch)],
         s  |-> [s EXCEPT !.epoch = r.epoch, !.shardEpoch = r.shardEpoch,
                          !.val = d.val, !.seq = d.seq, !.seen = d.seen,
                          !.bt1 = b.bt1, !.bt2 = b.bt2]]

\* PressureFunc returns v.
Store(t, v) ==
    /\ th[t].pc = "hook"
    /\ LET out == StoreOutcome(t, v)
       IN  /\ co' = out.co
           /\ th' = [th EXCEPT ![t].pc = "lock", ![t].s = out.s]
    /\ reentrant' = ClearReentrant(t)
    /\ UNCHANGED <<reclaimEpoch, externalEpoch, lastReentrant, shard, reclaims,
                   atReading, started>>

\* PressureFunc panics (recordAbnormalSamplerExit): the operation is over.  The
\* default probe does not panic.
Panic(t) ==
    /\ Custom
    /\ th[t].pc = "hook"
    /\ co' = [co EXCEPT !.panics = @ + 1]
    /\ reentrant' = ClearReentrant(t)
    /\ th' = [th EXCEPT ![t] = Idle]
    /\ UNCHANGED <<reclaimEpoch, externalEpoch, lastReentrant, shard, reclaims,
                   atReading, started>>

-----------------------------------------------------------------------------
(* Reclamation                                                             *)

\* markReclaimedFromShard(x) by t; inside: from within its own PressureFunc.
MarkReclaimed(x, t, inside) ==
    /\ co' = [co EXCEPT !.pubSeq = BeginSeq(co), !.refresh = TRUE,
                        !.init = FALSE, !.cVal = 0]
    /\ reclaimEpoch' = [n \in Nodes |->
         reclaimEpoch[n] + IF n \in {x, Coord} THEN 1 ELSE 0]
    /\ externalEpoch' = [n \in Nodes |->
         externalEpoch[n] + IF n \in {x, Coord} /\ ~inside THEN 1 ELSE 0]
    /\ reentrant' = [n \in Nodes |->
         IF n \notin {x, Coord} THEN reentrant[n]
         ELSE IF inside THEN reentrant[n] \cup {t} ELSE {}]
    /\ lastReentrant' = [n \in Nodes |->
         IF n \notin {x, Coord} THEN lastReentrant[n]
         ELSE IF inside THEN t ELSE Nobody]
    /\ reclaims' = [reclaims EXCEPT ![t] = @ + 1]
    /\ atReading' = IF inside THEN [atReading EXCEPT ![t] = reclaims'] ELSE atReading

\* An operation PressureFunc itself makes on the cache: it is given the invalid
\* sample at pressure 0, under which a removal still reclaims.  PressureFunc is
\* taken to read the pressure after its own operations.
NestedReclaim(t, x) ==
    /\ Custom
    /\ th[t].pc = "hook"
    /\ shard[x].holder = Nobody
    /\ started < MaxOps
    /\ started' = started + 1
    /\ shard' = [shard EXCEPT ![x].valid = FALSE, ![x].appPub = 0]
    /\ MarkReclaimed(x, t, TRUE)
    /\ UNCHANGED th

-----------------------------------------------------------------------------
(* Acquiring the lock: lockWithPressure                                    *)

Fresh(t) == th[t].kind = "evaluate"

\* Which path the flags, loaded before the lock, select.
EnterLock(t) ==
    IF Fresh(t) \/ Custom THEN Sampling(t, "slow")
    ELSE IF co.init /\ ~co.refresh /\ ~shard[th[t].at].due
         THEN [th[t] EXCEPT !.pc = "fast"]
         ELSE Sampling(t, "miss")

\* The compare-and-swap of windowSampleDue, or its reset in the miss path.
TakeDue(t) ==
    IF Fresh(t) \/ Custom THEN shard
    ELSE [shard EXCEPT ![th[t].at].due = FALSE]

Enter(t) ==
    /\ th[t].pc = "enter"
    /\ th' = [th EXCEPT ![t] = EnterLock(t)]
    /\ shard' = TakeDue(t)
    /\ UNCHANGED <<epochs, co, started>>

Acquire(x, t, sh) ==
    /\ shard[x].holder = Nobody
    /\ shard' = [shard EXCEPT ![x] = [sh EXCEPT !.holder = t]]

\* canReuseAppliedLowPressureLocked
CanReuse(x) ==
    LET sh == shard[x]
    IN  /\ sh.appPub # 0 /\ sh.valid /\ sh.seq = sh.appSeq
        /\ CurEpoch = sh.epoch /\ sh.seq >= co.lastSeq
        /\ co.pubSeq = sh.appPub

FastReuse(t) ==
    LET x == th[t].at IN
    /\ th[t].pc = "fast"
    /\ CanReuse(x)
    /\ Acquire(x, t, AdvanceWrites(shard[x]))
    /\ th' = [th EXCEPT ![t] = Holding(t, [val |-> shard[x].appVal,
                                           seq |-> shard[x].appSeq,
                                           seen |-> co.cSeen], FALSE)]
    /\ UNCHANGED <<epochs, co, started>>

\* adoptCoordCachedSampleLocked
CanAdoptCached(x) == CachedValid /\ ~IsSampleCausallyStale(x, Cached)

AdoptedCached(x) ==
    Reusable(Applied(x, CurEpoch, co.cBt1, co.cBt2, co.cSeq), TRUE, co.cSeq,
             co.cVal)

FastAdopt(t) ==
    LET x == th[t].at IN
    /\ th[t].pc = "fast"
    /\ ~CanReuse(x) /\ CanAdoptCached(x)
    /\ Acquire(x, t, AdvanceWrites(AdoptedCached(x)))
    /\ th' = [th EXCEPT ![t] = Holding(t, Cached, FALSE)]
    /\ UNCHANGED <<epochs, co, started>>

\* The lock is taken and released again; the miss path resets windowSampleDue.
FastFail(t) ==
    LET x == th[t].at IN
    /\ th[t].pc = "fast"
    /\ shard[x].holder = Nobody
    /\ ~CanReuse(x) /\ ~CanAdoptCached(x)
    /\ shard' = [shard EXCEPT ![x].due = FALSE]
    /\ th' = [th EXCEPT ![t] = Sampling(t, "miss")]
    /\ UNCHANGED <<epochs, co, started>>

-----------------------------------------------------------------------------
(* lockWithPressureFastMiss, after its reading                             *)

AtMiss(t) == th[t].pc = "lock" /\ th[t].path = "miss"

MissFresh(t) == th[t].s.epoch = CurEpoch /\ ~IsSampleCausallyStale(th[t].at, th[t].s)

MissApply(t) ==
    LET x == th[t].at
        s == th[t].s
    IN  /\ AtMiss(t) /\ MissFresh(t)
        /\ Acquire(x, t,
             Reusable(AdvanceWrites([Applied(x, s.epoch, s.bt1, s.bt2, s.seq)
                                       EXCEPT !.due = FALSE]),
                      co.cSeq = s.seq /\ co.cEpoch = s.epoch /\ ~co.refresh,
                      s.seq, s.val))
        /\ th' = [th EXCEPT ![t] = Holding(t, s, FALSE)]
        /\ UNCHANGED <<epochs, co, started>>

MissAdopt(t) ==
    LET x == th[t].at IN
    /\ AtMiss(t) /\ ~MissFresh(t) /\ CanAdoptCached(x)
    /\ Acquire(x, t, AdvanceWrites([AdoptedCached(x) EXCEPT !.due = FALSE]))
    /\ th' = [th EXCEPT ![t] = Holding(t, Cached, FALSE)]
    /\ UNCHANGED <<epochs, co, started>>

MissFail(t) ==
    LET x == th[t].at IN
    /\ AtMiss(t) /\ ~MissFresh(t) /\ ~CanAdoptCached(x)
    /\ shard[x].holder = Nobody
    /\ shard' = [shard EXCEPT ![x] =
                   AdvanceWrites([@ EXCEPT !.due = FALSE, !.appPub = 0])]
    /\ th' = [th EXCEPT ![t] = Sampling(t, "slow")]
    /\ UNCHANGED <<epochs, co, started>>

-----------------------------------------------------------------------------
(* lockWithPressureSlow, after a reading                                   *)

\* tryFastForwardSampledEpochLocked
FastForward(x, s) ==
    IF s.epoch = CurEpoch \/ ~Custom \/ ~CanFastForwardLow(s.val) THEN s
    ELSE IF externalEpoch[Coord] = s.ext
    THEN [s EXCEPT !.epoch = CurEpoch, !.shardEpoch = reclaimEpoch[x]]
    ELSE IF x # Coord /\ externalEpoch[x] = s.shardExt
    THEN [s EXCEPT !.shardEpoch = reclaimEpoch[x]]
    ELSE s

\* The sample under the lock, and whether the loop of lockWithPressureSlow is
\* done with it (resolveLockLoopStepLocked).
Judged(x, s) ==
    LET f == FastForward(x, s)
        current == f.epoch = CurEpoch
        stale == IsSampleCausallyStale(x, f)
        adopts == current /\ stale /\ CanAdopt(x, f.seq + 1)
    IN  [s |-> IF adopts THEN [f EXCEPT !.val = co.cVal, !.bt1 = co.cBt1,
                                        !.bt2 = co.cBt2, !.seq = co.cSeq,
                                        !.seen = co.cSeen]
               ELSE f,
         done |-> adopts \/ (current /\ ~stale)]

SameShard(x, s) == reclaimEpoch[x] # s.shardEpoch
Exhausted(t, x, s) ==
    \/ SameShard(x, s) /\ th[t].same + 1 > MaxSameShardRetries
    \/ ~SameShard(x, s) /\ th[t].cross + 1 > MaxCrossShardRetries

\* Mutant of Retry: the budget is not looked at.
RetryForever(t) ==
    LET x == th[t].at
        j == Judged(x, th[t].s)
    IN  /\ th[t].pc = "lock" /\ th[t].path = "slow"
        /\ shard[x].holder = Nobody
        /\ ~j.done
        /\ th' = [th EXCEPT ![t] = Sampling(t, "slow")]
        /\ UNCHANGED <<epochs, co, shard, started>>

\* advanceLockRetryBudgetLocked: the lock is released for another reading.
Retry(t) ==
    LET x == th[t].at
        j == Judged(x, th[t].s)
    IN  /\ th[t].pc = "lock" /\ th[t].path = "slow"
        /\ shard[x].holder = Nobody
        /\ ~j.done /\ ~Exhausted(t, x, j.s)
        /\ th' = [th EXCEPT ![t] =
                    [Sampling(t, "slow") EXCEPT
                       !.same = IF SameShard(x, j.s) THEN @ + 1 ELSE @,
                       !.cross = IF SameShard(x, j.s) THEN @ ELSE @ + 1]]
        /\ UNCHANGED <<epochs, co, shard, started>>

\* syncCachedRecoveryEpochsLocked
SyncCachedRecovery(c, bt1, bt2) ==
    IF ~c.init \/ c.refresh THEN c
    ELSE IF (bt2 > c.cBt2 /\ c.cVal >= Tier2) \/ (bt1 > c.cBt1 /\ c.cVal >= Tier1)
    THEN [c EXCEPT !.pubSeq = BeginSeq(c) + 1, !.refresh = TRUE]
    ELSE IF bt1 <= c.cBt1 /\ bt2 <= c.cBt2 THEN c
    ELSE [c EXCEPT !.pubSeq = BeginSeq(c) + 1, !.cBt1 = Larger(@, bt1),
                   !.cBt2 = Larger(@, bt2)]

\* recordAcceptedFallbackSample, and the recovery epochs it returns.
FallbackOutcome(s) ==
    LET newer == s.seq > co.lastSeq
        bt1 == IF newer /\ s.val < Tier1 THEN co.bt1 + 1 ELSE s.bt1
        bt2 == IF newer /\ s.val < Tier2 THEN co.bt2 + 1 ELSE s.bt2
        noted == IF ~newer THEN co
                 ELSE [co EXCEPT
                         !.lastSeq = s.seq, !.lastEpoch = s.epoch,
                         !.lastVal = s.val, !.lastSeen = s.seen,
                         !.bt1 = IF s.val < Tier1 THEN @ + 1 ELSE @,
                         !.bt2 = IF s.val < Tier2 THEN @ + 1 ELSE @,
                         !.low1 = IF s.val < Tier1 THEN Larger(@, s.seq) ELSE @,
                         !.low2 = IF s.val < Tier2 THEN Larger(@, s.seq) ELSE @]
    IN  [co |-> IF s.seq >= co.lastSeq THEN SyncCachedRecovery(noted, bt1, bt2)
                ELSE co,
         bt1 |-> bt1, bt2 |-> bt2]

\* resolvePostRetryPressureLocked, its four outcomes: the sample itself, the
\* cached one, the sample of an epoch that is over while this shard has not
\* reclaimed since, nothing.
Resolve(t) ==
    LET x == th[t].at
        j == Judged(x, th[t].s)
        s == j.s
        unreclaimed == reclaimEpoch[x] = s.shardEpoch
        isOwn == s.epoch = CurEpoch /\ ~IsSampleCausallyStale(x, s)
        isCached == ~isOwn /\ CanAdopt(x, IF unreclaimed THEN s.seq ELSE 0)
        isFallback == /\ ~isOwn /\ ~isCached /\ unreclaimed
                      /\ s.epoch # CurEpoch /\ s.seq >= shard[x].seq
                      /\ ~IsSampleRecoveryStale(s.val, s.bt1, s.bt2)
        fb == FallbackOutcome(s)
    IN  /\ th[t].pc = "lock" /\ th[t].path = "slow"
        /\ j.done \/ Exhausted(t, x, s)
        /\ \/ /\ isOwn
              /\ Acquire(x, t, Applied(x, s.epoch, s.bt1, s.bt2, s.seq))
              /\ th' = [th EXCEPT ![t] = Holding(t, s, FALSE)]
              /\ UNCHANGED co
           \/ /\ isCached
              /\ Acquire(x, t, Applied(x, CurEpoch, co.cBt1, co.cBt2, co.cSeq))
              /\ th' = [th EXCEPT ![t] = Holding(t, Cached, FALSE)]
              /\ UNCHANGED co
           \/ /\ isFallback
              /\ Acquire(x, t, Applied(x, s.epoch, fb.bt1, fb.bt2, s.seq))
              /\ th' = [th EXCEPT ![t] = Holding(t, s, TRUE)]
              /\ co' = fb.co
           \/ /\ ~isOwn /\ ~isCached /\ ~isFallback
              /\ Acquire(x, t, [shard[x] EXCEPT !.valid = FALSE, !.appPub = 0,
                                                !.epoch = CurEpoch])
              /\ th' = [th EXCEPT ![t] = Holding(t, NoSample, FALSE)]
              /\ UNCHANGED co
        /\ UNCHANGED <<epochs, started>>

-----------------------------------------------------------------------------
(* Operations over all shards: lockShardWithSample                         *)

\* tryApplyShardSampleLocked with the sample carried from the last shard.
CarryMatches(t) == CurEpoch = th[t].carry.epoch
CarryApplies(t) ==
    CarryMatches(t) /\ ~IsSampleCausallyStale(th[t].at, th[t].carry)

\* adoptCachedShardSampleLocked: tried unless the operation asked for a fresh
\* sample and the epoch is over.
CarryAdopts(t) ==
    /\ ~CarryApplies(t)
    /\ ~Fresh(t) \/ CarryMatches(t)
    /\ CanAdopt(th[t].at,
                th[t].carry.seq + IF CarryMatches(t) THEN 1 ELSE 0)

CarryApply(t) ==
    LET x == th[t].at
        s == IF CarryApplies(t) THEN th[t].carry ELSE Cached
    IN  /\ th[t].pc = "carry"
        /\ CarryApplies(t) \/ CarryAdopts(t)
        /\ Acquire(x, t, Applied(x, s.epoch, s.bt1, s.bt2, s.seq))
        /\ th' = [th EXCEPT ![t] =
                    [Holding(t, s, FALSE) EXCEPT
                       !.carry = [n \in DOMAIN NoCarry |->
                                    IF n = "has" THEN TRUE ELSE s[n]]]]
        /\ UNCHANGED <<epochs, co, started>>

CarryFail(t) ==
    /\ th[t].pc = "carry"
    /\ ~CarryApplies(t) /\ ~CarryAdopts(t)
    /\ shard[th[t].at].holder = Nobody
    /\ th' = [th EXCEPT ![t].pc = "enter", ![t].carry = NoCarry]
    /\ UNCHANGED <<epochs, co, shard, started>>

-----------------------------------------------------------------------------
(* Operations                                                              *)

Begin(t, kind, x) ==
    /\ th[t].pc = "idle"
    /\ kind # "write" => x = First(Shards)
    /\ started < MaxOps
    /\ started' = started + 1
    /\ th' = [th EXCEPT ![t] =
                [Idle EXCEPT !.pc = "enter", !.kind = kind, !.at = x,
                             !.todo = IF kind = "write" THEN {} ELSE Shards \ {x}]]
    /\ UNCHANGED <<epochs, co, shard>>

\* hasElevatedPressureToInvalidate, shouldInvalidatePressureOnReclaim; an
\* evaluation reclaims from Tier 1 on only.
MayReclaim(t) ==
    \/ th[t].pressure >= Tier1
    \/ ~Fresh(t) /\ (co.cVal >= Tier1 \/ co.refresh \/ Active # {})

\* Mutant of Carried: a reclamation of another goroutine is absorbed as well.
CarriedToCurrent(t, x, reclaimed) ==
    [has |-> shard[x].valid, val |-> th[t].pressure,
     epoch |-> CurEpoch + (IF reclaimed THEN 1 ELSE 0),
     bt1 |-> shard[x].bt1, bt2 |-> shard[x].bt2, seq |-> shard[x].seq,
     seen |-> th[t].seen]

\* The sample lockShardWithSample hands on: the one carried so far if that was
\* applied, else what x has applied.  advanceSelfReclaim moves its epoch past
\* the operation's own reclamation.
Carried(t, x, reclaimed) ==
    LET own == IF reclaimed THEN 1 ELSE 0
        c == th[t].carry
    IN  IF c.has THEN [c EXCEPT !.epoch = @ + own]
        ELSE IF ~shard[x].valid THEN NoCarry
        ELSE [has |-> TRUE, val |-> th[t].pressure,
              epoch |-> shard[x].epoch + own, bt1 |-> shard[x].bt1,
              bt2 |-> shard[x].bt2, seq |-> shard[x].seq, seen |-> th[t].seen]

\* Mutant of MoveOn: the next shard stays on the list.
MoveOnInPlace(t, c) ==
    IF th[t].todo = {} THEN Idle
    ELSE [Idle EXCEPT !.pc = IF c.has THEN "carry" ELSE "enter",
                      !.kind = th[t].kind, !.at = First(th[t].todo),
                      !.todo = th[t].todo, !.carry = c]

\* On to the next shard with the sample c, or done.
MoveOn(t, c) ==
    IF th[t].todo = {} THEN Idle
    ELSE [Idle EXCEPT !.pc = IF c.has THEN "carry" ELSE "enter",
                      !.kind = th[t].kind, !.at = First(th[t].todo),
                      !.todo = th[t].todo \ {First(th[t].todo)}, !.carry = c]

\* The body under the lock, and the unlock.
Leave(t, reclaimed) ==
    LET x == th[t].at
    IN  /\ th[t].pc = "holding"
        /\ reclaimed => MayReclaim(t)
        /\ IF reclaimed THEN MarkReclaimed(x, t, FALSE)
           ELSE UNCHANGED <<epochs, co>>
        /\ shard' = [shard EXCEPT ![x].holder = Nobody]
        /\ th' = [th EXCEPT ![t] = MoveOn(t, Carried(t, x, reclaimed))]
        /\ UNCHANGED started

\* DeletePrefix("") passes over a clean and empty shard without a sample.
SkipEmpty(t) ==
    /\ th[t].pc \in {"enter", "carry"} /\ th[t].kind = "prefix"
    /\ th[t].samplings = 0
    /\ shard[th[t].at].holder = Nobody
    /\ th' = [th EXCEPT ![t] = MoveOn(t, th[t].carry)]
    /\ UNCHANGED <<epochs, co, shard, started>>

\* All operations are over.
Done ==
    /\ started = MaxOps
    /\ \A t \in Threads : th[t].pc = "idle"
    /\ UNCHANGED vars

Lock(t) ==
    \/ FastReuse(t) \/ FastAdopt(t) \/ FastFail(t)
    \/ MissApply(t) \/ MissAdopt(t) \/ MissFail(t)
    \/ Retry(t) \/ Resolve(t) \/ CarryApply(t) \/ CarryFail(t)
    \/ SkipEmpty(t)

Run(t) ==
    \/ Capture(t) \/ Enter(t) \/ Panic(t)
    \/ \E v \in Readings : Store(t, v)
    \/ \E reclaimed \in BOOLEAN : Leave(t, reclaimed)

Next ==
    \/ \E t \in Threads :
         \/ Run(t) \/ Lock(t)
         \/ \E k \in Kinds, x \in Shards : Begin(t, k, x)
         \/ \E x \in Shards : NestedReclaim(t, x)
    \/ Done

Spec == Init /\ [][Next]_vars

-----------------------------------------------------------------------------
(* Properties                                                              *)

Acquires(t) == th[t].pc # "holding" /\ th'[t].pc = "holding"

\* An operation that gets its lock with an elevated pressure acts on a reading
\* no other goroutine's reclamation has overtaken, on whichever shard; only an
\* operation that has used up its retries may act on an older one, and then only
\* on a shard that has not itself been reclaimed since.
ElevatedIsCurrent ==
    [][\A t \in Threads :
         Acquires(t) /\ th'[t].pressure >= Tier1 =>
             \/ \A u \in Threads \ {t} : reclaims[u] = th'[t].seen[u]
             \/ /\ th'[t].fallback
                /\ th[t].cross = MaxCrossShardRetries
                /\ reclaimEpoch[th[t].at] = th[t].s.shardEpoch]_vars

\* No operation acts on an elevated reading once a later reading below that tier
\* has been recorded: a recovery is never undone by a late sample.
RecoveryNotUndone ==
    [][\A t \in Threads :
         Acquires(t) =>
             /\ th'[t].pressure = Tier2 => th'[t].seq >= co.low2
             /\ th'[t].pressure = Tier1 => th'[t].seq >= co.low1]_vars

\* No operation acts on a reading older than the one its shard last applied,
\* whichever way it comes by it.
SamplesAdvance ==
    [][\A t \in Threads :
         Acquires(t) /\ th'[t].seq # 0 => th'[t].seq >= shard[th[t].at].seq]_vars

MaxReadings(t) ==
    (IF Custom \/ Fresh(t) THEN 1 ELSE 2) + MaxSameShardRetries
        + MaxCrossShardRetries

\* However many reclamations overtake its readings, an operation takes a bounded
\* number of them for one lock.
RetriesBounded == \A t \in Threads : th[t].samplings <= MaxReadings(t)

\* The steps t may still take for the shard it is at, and for the shards left.
StepsPerShard(t) == 6 * MaxReadings(t) + 4
StepsLeft(t) ==
    LET pc == th[t].pc
        readings == 6 * (MaxReadings(t) - th[t].samplings)
        here == CASE pc = "idle" -> 0
                  [] pc = "holding" -> 1
                  [] pc = "lock" -> readings + 2
                  [] pc = "hook" -> readings + 3
                  [] pc = "capture" -> readings + 8 - th[t].load
                  [] pc = "fast" -> StepsPerShard(t) - 2
                  [] pc = "enter" -> StepsPerShard(t) - 1
                  [] pc = "carry" -> StepsPerShard(t)
    IN  Cardinality(th[t].todo) * StepsPerShard(t) + here

\* Every operation ends: whatever the others do, each step a goroutine takes
\* brings it nearer to the end of its operation, failed fast paths, retries and
\* a carried sample that no longer applies included.
OperationsEnd ==
    [][\A t \in Threads :
         th[t].pc # "idle" /\ th'[t] # th[t] =>
             0 <= StepsLeft(t)' /\ StepsLeft(t)' < StepsLeft(t)]_vars
=============================================================================
