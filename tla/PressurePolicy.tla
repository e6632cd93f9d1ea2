--------------------------- MODULE PressurePolicy ---------------------------
(***************************************************************************)
(* The reclamation policy every backend embeds through pressureState       *)
(* (pressure.go): the entry-count watermarks, the predicates that decide   *)
(* when a backing structure is compacted, and the arithmetic of Tier 2     *)
(* shedding.  Everything here is a function of a watermark record p and of *)
(* the lengths and sizes the backend passes in, as in the source, where    *)
(* these are methods without any lock or I/O.                              *)
(*                                                                         *)
(* A normalised pressure in [0, oo) is only ever compared with the two     *)
(* thresholds, so it is one of three levels: Normal (below                 *)
(* CompactionThreshold), Tier1, Tier2 (at or above EvictionThreshold).     *)
(* ApplyOptions reconciles the thresholds so that Tier 2 implies Tier 1.   *)
(* The retention ratio is the fraction RetentionNum / RetentionDen.        *)
(***************************************************************************)
EXTENDS Integers

CONSTANTS
    MaxSize,                  \* maxSize of the cache
    RetentionNum,             \* EvictionRetentionRatio, numerator
    RetentionDen,             \* EvictionRetentionRatio, denominator
    MinPeakSlackEntries,      \* minPeakSlackEntries (8 in the source)
    MinChurnCompactDeletes,   \* minChurnCompactDeletes (64 in the source)
    DeletedCap                \* where the model saturates deletedSinceCompact

ASSUME MaxSizeAssumption == MaxSize \in Nat \ {0}
ASSUME RetentionAssumption ==
    /\ RetentionDen \in Nat \ {0}
    /\ RetentionNum \in 0..RetentionDen
ASSUME SlackAssumption ==
    /\ MinPeakSlackEntries \in Nat
    /\ MinChurnCompactDeletes \in Nat \ {0, 1}
    /\ DeletedCap \in Nat
    /\ MinChurnCompactDeletes <= DeletedCap

Normal == 0
Tier1  == 1
Tier2  == 2
Levels == {Normal, Tier1, Tier2}

(***************************************************************************)
(* What lockWithPressure hands back: the pressure level, whether the       *)
(* sample is valid (a call made from inside PressureFunc gets the invalid  *)
(* level-0 answer) and, at Tier 2, whether a reading below it was published *)
(* since the zero-weight watermark was recorded.                           *)
(***************************************************************************)
Samples ==
    {s \in [pressure : Levels, valid : BOOLEAN, recovered : BOOLEAN] :
        /\ s.pressure >= Tier1 => s.valid
        /\ s.recovered => s.pressure = Tier2}

\* hasElevatedPressureToInvalidate and shouldInvalidatePressureOnReclaim also
\* look at the shared cached sample and at samplers in flight, which other
\* goroutines change: any answer below Tier 1, TRUE from Tier 1 on.
Elevated(pressure) == IF pressure >= Tier1 THEN {TRUE} ELSE BOOLEAN

SlackQuarterMultiplier == 4

AtLeast(a, b) == IF a >= b THEN a ELSE b
AtMost(a, b)  == IF a <= b THEN a ELSE b

(***************************************************************************)
(* The counters of pressureState that the policy reads, with dirtyIndex of *)
(* the map backend.  deletedSinceCompact is compared with                  *)
(* MinChurnCompactDeletes, with entry counts and (times 4) with            *)
(* peakEntryLen, so it saturates at a DeletedCap no smaller than any of    *)
(* them: no comparison can tell the saturated value from the real one.     *)
(***************************************************************************)
Watermarks ==
    [peakEntryLen : Nat, deletedSinceCompact : 0..DeletedCap,
     zeroSizeCount : Nat, lastReclaimedZeroCount : Nat,
     lastReclaimedLen : Nat, dirtyIndex : BOOLEAN]

Clean ==
    [peakEntryLen |-> 0, deletedSinceCompact |-> 0, zeroSizeCount |-> 0,
     lastReclaimedZeroCount |-> 0, lastReclaimedLen |-> 0,
     dirtyIndex |-> FALSE]

CountDeleted(p, n) == AtMost(p.deletedSinceCompact + n, DeletedCap)

-----------------------------------------------------------------------------
(* Watermark updates                                                       *)


\* Mutant of OnEntryPut: the peak is raised from the length before the insert.
OnEntryPutStaleLen(p, newLen, size) ==
    [p EXCEPT !.peakEntryLen = AtLeast(@, newLen - 1),
              !.zeroSizeCount = IF size = 0 THEN @ + 1 ELSE @]

OnEntryPut(p, newLen, size) ==
    [p EXCEPT !.peakEntryLen = AtLeast(@, newLen),
              !.zeroSizeCount = IF size = 0 THEN @ + 1 ELSE @]

OneZeroFewer(p) ==
    [p EXCEPT !.zeroSizeCount = @ - 1,
              !.lastReclaimedZeroCount = AtMost(@, p.zeroSizeCount - 1)]


OnEntrySizeUpdated(p, oldSize, newSize) ==
    IF oldSize = 0 /\ newSize > 0 /\ p.zeroSizeCount > 0 THEN OneZeroFewer(p)
    ELSE IF oldSize > 0 /\ newSize = 0
    THEN [p EXCEPT !.zeroSizeCount = @ + 1, !.lastReclaimedLen = 0]
    ELSE p


\* Mutant of OnEntryDeleted: the size test is missing.
OnEntryDeletedAnySize(p, size) ==
    OneZeroFewer([p EXCEPT !.deletedSinceCompact = CountDeleted(p, 1),
                           !.dirtyIndex = TRUE])

OnEntryDeleted(p, size) ==
    LET q == [p EXCEPT !.deletedSinceCompact = CountDeleted(p, 1),
                       !.dirtyIndex = TRUE]
    IN  IF size = 0 /\ p.zeroSizeCount > 0 THEN OneZeroFewer(q)
        ELSE IF size > 0 THEN [q EXCEPT !.lastReclaimedLen = 0]
        ELSE q

OnCompacted(p, newLen) ==
    [p EXCEPT !.deletedSinceCompact = 0,
              !.peakEntryLen = newLen,
              !.lastReclaimedZeroCount = AtMost(@, p.zeroSizeCount),
              !.lastReclaimedLen = AtMost(@, newLen),
              !.dirtyIndex = FALSE]

ClearZeroWatermark(p) ==
    [p EXCEPT !.lastReclaimedZeroCount = 0, !.lastReclaimedLen = 0]

\* resetZeroWatermarkBelowTier2: only a valid sample below Tier 2 clears.
ResetZeroWatermarkBelowTier2(p, pressure, valid) ==
    IF valid /\ pressure < Tier2 THEN ClearZeroWatermark(p) ELSE p

-----------------------------------------------------------------------------
(* When to compact                                                         *)

\* hasSlackLocked of the map backend.
HasSlack(p, len) ==
    /\ p.dirtyIndex
    /\ \/ len < p.peakEntryLen
       \/ p.deletedSinceCompact >= MinChurnCompactDeletes

ShouldAutoCompactEntryCounts(p, isDirty, isBackground, len) ==
    /\ isDirty
    /\ \/ isBackground
       \/ /\ p.peakEntryLen > MinPeakSlackEntries
          /\ p.peakEntryLen - len >= 2
          /\ (p.peakEntryLen - len) * SlackQuarterMultiplier >= p.peakEntryLen
       \/ /\ p.deletedSinceCompact >= MinChurnCompactDeletes
          /\ p.deletedSinceCompact >= len

ShouldAutoCompactMap(p, isBackground, len) ==
    ShouldAutoCompactEntryCounts(p, HasSlack(p, len), isBackground, len)

Churned(p) ==
    \/ p.peakEntryLen >= MinChurnCompactDeletes
    \/ p.deletedSinceCompact >= MinChurnCompactDeletes

HasEmptyDeleteSlack(p) ==
    \/ p.peakEntryLen > MinPeakSlackEntries
    \/ p.deletedSinceCompact >= MinChurnCompactDeletes

NeedsMutationReclaim(reclaimedPre, currentSize, sizeBefore, pressure) ==
    reclaimedPre \/ currentSize < sizeBefore \/ pressure >= Tier1

ShouldReclaimSingleSurvivorOnDelete(p, len, isDirty) ==
    len = 1 /\ isDirty /\ Churned(p)

\* elevated answers hasElevatedPressureToInvalidate.
ShouldReclaimEmptyPrePut(p, len, evictedPre, newSize, sizeBefore, elevated) ==
    /\ len = 0
    /\ Churned(p) \/ (evictedPre /\ newSize < sizeBefore /\ elevated)

ShouldReclaimSingleSurvivorOnMutation(p, len, isDirty, evictedPre, post, prior, elevated) ==
    /\ isDirty
    /\ len <= 1 \/ p.zeroSizeCount > 0
    /\ len = 1 \/ (evictedPre /\ len - p.zeroSizeCount <= 1)
    /\ Churned(p) \/ (len = 1 /\ post < prior /\ elevated)

ShouldCompactAfterMutation(p, reclaimedPre, netByteReduced, isDirty, pressure) ==
    /\ isDirty
    /\ \/ reclaimedPre
       \/ /\ netByteReduced
          /\ pressure >= Tier1
          /\ p.deletedSinceCompact * SlackQuarterMultiplier >= p.peakEntryLen

-----------------------------------------------------------------------------
(* Tier 2 shedding                                                         *)

Retained(n) == (n * RetentionNum) \div RetentionDen

\* computeTargetSize: never 0 while the ratio is positive.
TargetSize ==
    IF RetentionNum = 0 THEN 0 ELSE AtLeast(Retained(MaxSize), 1)

FullFlush == RetentionNum = 0

ShedTargets == [effective : Nat, len : Nat, zero : Nat, unprotectedZero : Nat]

NoTargets == [effective |-> 0, len |-> 0, zero |-> 0, unprotectedZero |-> 0]

\* computeShedTargets with computeZeroShedTargets.
ComputeShedTargets(p, len, hasProtected, protectedSize) ==
    LET retainedLen == Retained(len)
        zeroTarget  == AtLeast(Retained(p.zeroSizeCount),
                               p.lastReclaimedZeroCount)
    IN  IF FullFlush THEN NoTargets
        ELSE [effective |-> IF hasProtected THEN AtLeast(TargetSize, protectedSize)
                                            ELSE TargetSize,
              len |-> IF p.zeroSizeCount = 0 \/ len = 0 THEN 0
                      ELSE IF hasProtected /\ protectedSize > TargetSize
                           THEN retainedLen
                           ELSE AtLeast(retainedLen, p.lastReclaimedLen),
              zero |-> IF p.zeroSizeCount = 0 THEN 0
                       ELSE IF hasProtected /\ protectedSize = 0
                            THEN AtLeast(zeroTarget, 1)
                            ELSE zeroTarget,
              unprotectedZero |-> IF p.zeroSizeCount = 0 THEN 0 ELSE zeroTarget]


\* Mutants of NeedByteShed: off by one; and a flush that stops at 0 bytes.
NeedByteShedOffByOne(currentSize, t) ==
    currentSize > t.effective + 1 \/ FullFlush
\* shouldContinueShedding, its two results.
NeedByteShed(currentSize, t) == currentSize > t.effective \/ FullFlush
NeedZeroShed(p, len, t) ==
    ~FullFlush /\ p.zeroSizeCount > t.zero /\ len > t.len


ShouldEvictShedVictim(p, isProtected, size, needByteShed, t) ==
    /\ ~isProtected
    /\ \/ FullFlush
       \/ needByteShed /\ (p.zeroSizeCount > t.zero \/ size > 0)
       \/ ~needByteShed /\ size = 0

UpdateZeroWatermarkAfterShed(p, len, unadjusted, t) ==
    IF ~FullFlush /\ p.zeroSizeCount > 0
    THEN [p EXCEPT
            !.lastReclaimedZeroCount = AtMost(p.zeroSizeCount, t.unprotectedZero),
            !.lastReclaimedLen = IF unadjusted /\ len > p.zeroSizeCount
                                 THEN AtMost(len, t.len) ELSE 0]
    ELSE ClearZeroWatermark(p)

-----------------------------------------------------------------------------
(* Capacity rules for zero-weight entries                                  *)


\* Mutant of ShouldEvictZeroWeightOnInsert: weightless entries are only limited
\* while the byte budget is used up.
ShouldEvictZeroWeightOnInsertWhenFull(p, valueSize, currentSize, len) ==
    len > 0 /\ valueSize = 0 /\ currentSize >= MaxSize /\ len >= MaxSize

ShouldEvictZeroWeightOnInsert(p, valueSize, currentSize, len) ==
    /\ len > 0
    /\ IF valueSize = 0
       THEN \/ currentSize >= MaxSize /\ len >= MaxSize
            \/ p.zeroSizeCount >= MaxSize
       ELSE /\ p.zeroSizeCount > MaxSize
            /\ p.zeroSizeCount - MaxSize > MaxSize - currentSize - valueSize


\* Mutant of ShouldEvictPreInsertOnPut: off by one at the byte budget.
ShouldEvictPreInsertOnPutLate(p, valueSize, currentSize, len, evictedPrePut) ==
    \/ valueSize > MaxSize - currentSize + 1
    \/ /\ ~(valueSize = 0 /\ evictedPrePut)
       /\ ShouldEvictZeroWeightOnInsert(p, valueSize, currentSize, len)

ShouldEvictPreInsertOnPut(p, valueSize, currentSize, len, evictedPrePut) ==
    \/ valueSize > MaxSize - currentSize
    \/ /\ ~(valueSize = 0 /\ evictedPrePut)
       /\ ShouldEvictZeroWeightOnInsert(p, valueSize, currentSize, len)

ShouldEvictOnZeroWeightShrink(p, oldSize, newSize) ==
    oldSize > 0 /\ newSize = 0 /\ p.zeroSizeCount >= MaxSize
=============================================================================
