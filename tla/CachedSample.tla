---------------------------- MODULE CachedSample ----------------------------
(***************************************************************************)
(* The coordinator's cached pressure sample (pressure.go): ten atomics     *)
(* that writers change one at a time under pressureWriteMu, behind the     *)
(* publication number cachedPublishSeq, and that readers load one at a     *)
(* time without any lock (readValidCachedSampleWithPubSeq).                *)
(*                                                                         *)
(* A writer's loads are of fields only the holder of pressureWriteMu       *)
(* stores to, so the stores of a whole critical section are known when it  *)
(* starts: script is what is left of them.  A reader executes Program, one *)
(* load per step.  Go's atomics are sequentially consistent, so a step is  *)
(* one load or one store, in program order.                                *)
(*                                                                         *)
(* A pressure is one of the levels 0 (normal), 1 and 2 (at or above the    *)
(* compaction and the eviction threshold).                                 *)
(***************************************************************************)
EXTENDS Naturals, Sequences

CONSTANTS
    Readers,    \* goroutines that read the cached sample
    Counts,     \* invocation numbers and recovery epochs, a set of naturals
    MaxEpoch,   \* bound on reclaimEpoch
    MaxSeq,     \* bound on cachedPublishSeq
    NoSample    \* nothing was read

ASSUME BoundsAssumption == Counts \subseteq Nat /\ MaxEpoch \in Nat /\ MaxSeq \in Nat

VARIABLES
    f,        \* the shared atomics, by field
    script,   \* stores the holder of pressureWriteMu has still to make
    at,       \* at[r]: index in Program of the next load of r, 0 when idle
    asked,    \* asked[r]: the epoch r asks for
    got,      \* got[r]: what r has loaded in this call
    result    \* result[r]: what the last call of r returned

vars == <<f, script, at, asked, got, result>>

Levels == 0..2
Epochs == 0..MaxEpoch

\* seq is cachedPublishSeq, reclaim is reclaimEpoch, refresh is
\* pressureNeedsRefresh, init is pressureInitialized, the rest the cached sample.
Blank ==
    [seq |-> 0, init |-> FALSE, refresh |-> FALSE, epoch |-> 0, bits |-> 0,
     bt1 |-> 0, bt2 |-> 0, invoke |-> 0, reclaim |-> 0]

DataFields == {"epoch", "bits", "bt1", "bt2", "invoke"}

ASSUME AbsentAssumption == NoSample \notin Epochs \cup [DataFields -> Nat]

Sample(g) == [n \in DataFields |-> g[n]]

Init ==
    /\ f = Blank
    /\ script = <<>>
    /\ at = [r \in Readers |-> 0]
    /\ asked = [r \in Readers |-> NoSample]
    /\ got = [r \in Readers |-> Blank]
    /\ result = [r \in Readers |-> NoSample]

-----------------------------------------------------------------------------
(* Writers, under pressureWriteMu                                          *)

Odd(n) == n % 2 = 1

\* beginCachedPublishLocked: a number that is already odd stays.
BeginSeq == IF Odd(f.seq) THEN f.seq ELSE f.seq + 1

Set(name, value) == [name |-> name, value |-> value]

\* A critical section with these stores.  The code skips some stores of a value
\* the field already has; making them changes nothing.
WriteSection(stores) ==
    /\ script = <<>>
    /\ script' = stores
    /\ UNCHANGED <<f, at, asked, got, result>>

\* Mutant of Publication: the number is even again before the last stores.
PublicationEarlySeq(epoch, bt1, bt2, invoke, val, stale) ==
    <<Set("seq", BeginSeq), Set("epoch", epoch), Set("init", TRUE),
      Set("refresh", stale), Set("seq", BeginSeq + 1), Set("bt1", bt1),
      Set("bt2", bt2), Set("invoke", invoke), Set("bits", val)>>

Publication(epoch, bt1, bt2, invoke, val, stale) ==
    <<Set("seq", BeginSeq), Set("epoch", epoch), Set("bt1", bt1),
      Set("bt2", bt2), Set("invoke", invoke), Set("bits", val),
      Set("init", TRUE), Set("refresh", stale), Set("seq", BeginSeq + 1)>>

\* storeSampledPressureWithSeq, when it stores: always for the current epoch.
Publish(bt1, bt2, invoke, val, stale) ==
    /\ BeginSeq + 1 <= MaxSeq
    /\ WriteSection(Publication(f.reclaim, bt1, bt2, invoke, val, stale))

\* storeSampledPressureWithSeq, when it only asks for another sample.
RequestRefresh == ~f.refresh /\ WriteSection(<<Set("refresh", TRUE)>>)

\* markReclaimedFromShard: the number stays odd until the next publication.
Reclaim ==
    /\ f.reclaim < MaxEpoch
    /\ BeginSeq <= MaxSeq
    /\ WriteSection(<<Set("seq", BeginSeq), Set("refresh", TRUE),
                      Set("init", FALSE), Set("bits", 0),
                      Set("reclaim", f.reclaim + 1)>>)

RaiseStores(bt1, bt2) ==
    IF bt1 <= f.bt1 /\ bt2 <= f.bt2 THEN <<>>
    ELSE <<Set("seq", BeginSeq), Set("bt1", IF bt1 > f.bt1 THEN bt1 ELSE f.bt1),
           Set("bt2", IF bt2 > f.bt2 THEN bt2 ELSE f.bt2),
           Set("seq", BeginSeq + 1)>>

\* syncCachedRecoveryEpochsLocked: a recovery an elevated cached sample does not
\* know of invalidates it, any other raises its recovery epochs in place.
SyncRecovery(bt1, bt2) ==
    /\ f.init /\ ~f.refresh
    /\ BeginSeq + 1 <= MaxSeq
    /\ WriteSection(
         IF (bt2 > f.bt2 /\ f.bits >= 2) \/ (bt1 > f.bt1 /\ f.bits >= 1)
         THEN <<Set("seq", BeginSeq), Set("refresh", TRUE),
                Set("seq", BeginSeq + 1)>>
         ELSE RaiseStores(bt1, bt2))

\* The holder of pressureWriteMu makes its next store; the last one releases it.
Store ==
    /\ script # <<>>
    /\ f' = [f EXCEPT ![Head(script).name] = Head(script).value]
    /\ script' = Tail(script)
    /\ UNCHANGED <<at, asked, got, result>>

-----------------------------------------------------------------------------
(* readValidCachedSampleWithPubSeq                                         *)

\* The loads in order: the number and the two flags, the sample, the number
\* again, then isCachedSampleStillValid.
Program ==
    <<"seq", "init", "refresh", "epoch", "bits", "bt1", "bt2", "invoke",
      "seq", "init", "refresh", "epoch", "reclaim">>

Recheck == 9

\* The value loaded by the i-th load lets the read go on.
Acceptable(r, i, value) ==
    CASE i = 1 -> value # 0 /\ ~Odd(value)
      [] i = Recheck -> value = got[r].seq
      [] Program[i] = "init" -> value
      [] Program[i] = "refresh" -> ~value
      [] Program[i] \in {"epoch", "reclaim"} -> value = asked[r]
      [] OTHER -> TRUE

Call(r, e) ==
    /\ at[r] = 0
    /\ at' = [at EXCEPT ![r] = 1]
    /\ asked' = [asked EXCEPT ![r] = e]
    /\ result' = [result EXCEPT ![r] = NoSample]
    /\ UNCHANGED <<f, script, got>>

Finish(r, res) ==
    /\ result' = [result EXCEPT ![r] = res]
    /\ at' = [at EXCEPT ![r] = 0]
    /\ asked' = [asked EXCEPT ![r] = NoSample]
    /\ got' = [got EXCEPT ![r] = Blank]
    /\ UNCHANGED <<f, script>>

Load(r) ==
    /\ at[r] \in 1..(Len(Program) - 1)
    /\ LET name == Program[at[r]]
       IN  /\ Acceptable(r, at[r], f[name])
           /\ got' = IF at[r] <= Recheck
                     THEN [got EXCEPT ![r][name] = f[name]] ELSE got
    /\ at' = [at EXCEPT ![r] = @ + 1]
    /\ UNCHANGED <<f, script, asked, result>>

\* Mutant of Miss: the reader spins until the sample is valid.
MissSpin(r) ==
    /\ at[r] # 0
    /\ ~Acceptable(r, at[r], f[Program[at[r]]])
    /\ at' = [at EXCEPT ![r] = 1]
    /\ got' = [got EXCEPT ![r] = Blank]
    /\ UNCHANGED <<f, script, asked, result>>

Miss(r) ==
    /\ at[r] # 0
    /\ ~Acceptable(r, at[r], f[Program[at[r]]])
    /\ Finish(r, NoSample)

Hit(r) ==
    /\ at[r] = Len(Program)
    /\ Acceptable(r, at[r], f[Program[at[r]]])
    /\ Finish(r, Sample(got[r]))

-----------------------------------------------------------------------------
Writer ==
    \/ \E bt1, bt2, invoke \in Counts, val \in Levels, stale \in BOOLEAN :
         Publish(bt1, bt2, invoke, val, stale)
    \/ \E bt1, bt2 \in Counts : SyncRecovery(bt1, bt2)
    \/ RequestRefresh
    \/ Reclaim

Reader(r) == Load(r) \/ Miss(r) \/ Hit(r)

Next ==
    \/ Writer
    \/ Store
    \/ \E r \in Readers : (\E e \in Epochs : Call(r, e)) \/ Reader(r)

\* A goroutine in the middle of a call keeps running.
Spec ==
    /\ Init /\ [][Next]_vars
    /\ WF_vars(Store) /\ \A r \in Readers : WF_vars(Reader(r))

-----------------------------------------------------------------------------
(* Properties                                                              *)

\* The cell as readers may see it: closed while a publication is under way, once
\* the epoch it was taken in is over, or when another sample is asked for.
Offered ==
    IF f.seq # 0 /\ ~Odd(f.seq) /\ f.init /\ ~f.refresh
    THEN Sample(f) ELSE NoSample

\* A reader past the flags holds the cell as it is, until the number moves on;
\* after its second look at the number, what it loaded.
Held(r) ==
    IF at[r] \in 4..Recheck /\ f.seq = got[r].seq THEN Sample(f)
    ELSE IF at[r] > Recheck THEN Sample(got[r]) ELSE NoSample

Abstract == INSTANCE FreshSample WITH
    Samples <- [DataFields -> Nat],
    cell <- Offered,
    held <- [r \in Readers |-> Held(r)]

\* The protocol implements the atomic cell: no reader ever returns fields of two
\* publications, a sample withdrawn before its call began, or one of an epoch
\* other than the one it asked for (readValidCachedSampleWithPubSeq).
ImplementsFreshSample == Abstract!Spec

\* A reader is never made to wait: its call returns however often the sample is
\* republished meanwhile (there is no retry loop on the publication number).
ReadersReturn == \A r \in Readers : at[r] # 0 ~> at[r] = 0
=============================================================================
