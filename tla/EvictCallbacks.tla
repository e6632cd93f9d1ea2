--------------------------- MODULE EvictCallbacks ---------------------------
(***************************************************************************)
(* The delivery of eviction callbacks (pressure.go, "evictCallbackQueue"   *)
(* and the hold protocol of pressureState).                                *)
(*                                                                         *)
(* A cache operation queues its eviction events while it holds the cache   *)
(* lock and calls invoke after releasing it.  invoke serializes callbacks  *)
(* with evictCallbackMu.  A caller that finds the mutex taken decides      *)
(* whether it runs inside the callback in progress (the same goroutine, or *)
(* one that the callback started); such a caller must not wait for the     *)
(* mutex and leaves its events to the holder, in pendingEvictCallbacks.    *)
(* The holder releases the mutex without taking evictCallbackResolveMu     *)
(* when nobody contended, which is the delicate part.                      *)
(*                                                                         *)
(* A call stands for one invoke with a non-empty queue; its events are one *)
(* unit.  A goroutine is named by the first call that ran on it.  Each     *)
(* action is one access, or one critical section of resolveMu, that other  *)
(* goroutines can observe.  Profiling labels, snapshots and the lease of a *)
(* fast tag only choose between the fast and the slow form of a hold: that *)
(* choice is nondeterministic.  Goroutine lineage (stack parsing) is       *)
(* represented by what it answers, see Answers.                            *)
(***************************************************************************)
EXTENDS Naturals, Sequences, FiniteSets

CONSTANTS
    NumCalls,   \* bound: invocations of invoke in a behaviour
    MaxPanics   \* bound: callbacks that panic in a behaviour

ASSUME CallsAssumption == NumCalls \in Nat
ASSUME PanicsAssumption == MaxPanics \in Nat

\* Calls are numbered in the order in which they begin.
Calls == 1..NumCalls

\* Nobody: the zero goroutine id, an unlocked mutex.
None == 0

VARIABLES
    mu,          \* evictCallbackMu: the call whose goroutine holds it
    resolveMu,   \* evictCallbackResolveMu
    holdSeq,     \* evictHoldSeq, decoded
    curHoldIdx,  \* evictCurHoldIdx
    holderGID,   \* evictCallbackGID
    active,      \* evictCallbackActive
    contended,   \* evictCallbackContended
    pending,     \* pendingEvictCallbacks
    enqueues,    \* evictPendingEnqueues
    pc,          \* where each call is
    gid,         \* the goroutine each call runs on
    kind,        \* how each call came to run
    parent,      \* the call in whose callback it was issued
    lineage,     \* per goroutine: the <<goroutine, hold>> pairs it descends from
    holder,      \* local of lockEvictCallbackSlow: the resolved holder
    matched,     \* local: the hold sequence matched, matchedHoldSeq
    batch,       \* local of drainPendingEvictCallbacks: queue
    delivered,   \* history: how often each call's callbacks ran
    dropped,     \* history: how often each call's events were discarded
    panics       \* history: callbacks that panicked

mutexes == <<mu, resolveMu>>
hold == <<holdSeq, curHoldIdx>>
registration == <<holderGID, active, contended>>
queue == <<pending, enqueues>>
identity == <<gid, kind, parent, lineage>>
locals == <<holder, matched, batch>>
history == <<delivered, dropped, panics>>
vars == <<mutexes, hold, registration, queue, pc, identity, locals, history>>

\* makeIdleEvictHoldSeq, makeSlowActiveEvictHoldSeq, makeFastActiveEvictHoldSeq
IdleSeq(idx) == [idx |-> idx + 1, mode |-> "idle"]
ActiveSeq(idx, mode) == [idx |-> idx, mode |-> mode]
IsActiveSeq(seq) == seq.mode # "idle"

\* nextEvictHoldIdx: an active sequence still standing counts as used.
NextHoldIdx(seq) == seq.idx + (IF IsActiveSeq(seq) THEN 1 ELSE 0)

\* activeFastEvictTag and isEvictCallbackActive.
HasFastTag == holdSeq.mode = "fast" /\ ~active
IsEvictCallbackActive == HasFastTag \/ active

\* The calls whose goroutine is running user callback code.
InCallback(c) == pc[c] \in {"deliver", "pendingCallback"}

\* The callback of p waits for c: p issued c itself, or joins c's goroutine.
WaitsFor(p, c) == parent[c] = p /\ kind[c] \in {"self", "awaited"} /\ pc[c] # "done"

Init ==
    /\ mu = None /\ resolveMu = None
    /\ holdSeq = [idx |-> 0, mode |-> "idle"] /\ curHoldIdx = 0
    /\ holderGID = None /\ active = FALSE /\ contended = FALSE
    /\ pending = <<>> /\ enqueues = 0
    /\ pc = [c \in Calls |-> "none"]
    /\ gid = [c \in Calls |-> None]
    /\ kind = [c \in Calls |-> "none"]
    /\ parent = [c \in Calls |-> None]
    /\ lineage = [c \in Calls |-> {}]
    /\ holder = [c \in Calls |-> None]
    /\ matched = [c \in Calls |-> [idx |-> 0, mode |-> "idle"]]
    /\ batch = [c \in Calls |-> <<>>]
    /\ delivered = [c \in Calls |-> 0]
    /\ dropped = [c \in Calls |-> 0]
    /\ panics = 0

Goto(c, stage) == pc' = [pc EXCEPT ![c] = stage]

-----------------------------------------------------------------------------
(* Callers                                                                 *)

\* Call c begins on goroutine g as a caller of the given kind inside p's callback.
Start(c, g, how, p) ==
    /\ pc[c] = "none" /\ \A d \in 1..(c - 1) : pc[d] # "none"
    /\ Goto(c, "tryLock")
    /\ gid' = [gid EXCEPT ![c] = g]
    /\ kind' = [kind EXCEPT ![c] = how]
    /\ parent' = [parent EXCEPT ![c] = p]
    /\ UNCHANGED <<mutexes, hold, registration, queue, locals, history>>

\* An operation from outside any callback, on a goroutine not seen before.
CallFresh(c) == Start(c, c, "root", None) /\ UNCHANGED lineage

\* Another operation on a goroutine that finished its earlier ones.  The
\* goroutine may be one that a callback started and did not join.
CallAgain(c, d) ==
    /\ kind[d] \in {"root", "detached"}
    /\ \A e \in Calls : gid[e] = gid[d] => pc[e] = "done"
    /\ Start(c, gid[d], kind[d], None)
    /\ UNCHANGED lineage

\* A callback that p's goroutine is running operates on the cache.
CallInCallback(c, p) ==
    /\ InCallback(p)
    /\ ~\E d \in Calls : WaitsFor(p, d) /\ kind[d] = "self"
    /\ Start(c, gid[p], "self", p)
    /\ UNCHANGED lineage

\* The callback starts a goroutine that operates on the cache, and joins it
\* before it returns or lets it run on.
CallInChild(c, p, how) ==
    /\ InCallback(p)
    /\ ~\E d \in Calls : WaitsFor(p, d) /\ kind[d] = "self"
    /\ Start(c, c, how, p)
    /\ lineage' = [lineage EXCEPT
           ![c] = lineage[gid[p]] \cup {<<gid[p], curHoldIdx>>}]

-----------------------------------------------------------------------------
(* Holds                                                                   *)

\* invokeNonEmpty: TryLock, falling back to invokeSlow.
TryLock(c) ==
    /\ pc[c] = "tryLock"
    /\ IF mu = None THEN mu' = c /\ Goto(c, "begin")
                    ELSE mu' = mu /\ Goto(c, "slow")
    /\ UNCHANGED <<resolveMu, hold, registration, queue, identity, locals, history>>

\* beginEvictCallbackHoldSlow, the fast entry of invokeNonEmpty, or
\* beginEvictCallbackHold: the holder publishes its hold.
PublishHold(mode) ==
    /\ curHoldIdx' = NextHoldIdx(holdSeq)
    /\ holdSeq' = ActiveSeq(NextHoldIdx(holdSeq), mode)

\* With a fast tag the callbacks run at once, unregistered.
BeginFast(c) ==
    /\ pc[c] = "begin"
    /\ PublishHold("fast")
    /\ delivered' = [delivered EXCEPT ![c] = @ + 1]
    /\ Goto(c, "deliver")
    /\ UNCHANGED <<mutexes, registration, queue, identity, locals, dropped, panics>>

BeginSlow(c) ==
    /\ \/ pc[c] \in {"begin", "beginWaited"} /\ Goto(c, "register")
       \/ pc[c] = "beginDrain" /\ Goto(c, "drain")
       \/ pc[c] = "beginPrepare" /\ Goto(c, "prepare")
    /\ PublishHold("slow")
    /\ UNCHANGED <<mutexes, registration, queue, identity, locals, history>>

\* registerSlowEvictHolder
RegisterHolder(c) ==
    /\ resolveMu = None
    /\ contended' = TRUE /\ holderGID' = gid[c] /\ active' = TRUE

\* Mutant: the slow path delivers without registering.
RegisterSkipped(c) ==
    /\ pc[c] = "register"
    /\ delivered' = [delivered EXCEPT ![c] = @ + 1]
    /\ Goto(c, "deliver")
    /\ UNCHANGED <<mutexes, hold, registration, queue, identity, locals, dropped, panics>>

\* invokeLockedNoFastTagSlow and invokeSlow register, then deliver.
Register(c) ==
    /\ pc[c] = "register"
    /\ RegisterHolder(c)
    /\ delivered' = [delivered EXCEPT ![c] = @ + 1]
    /\ Goto(c, "deliver")
    /\ UNCHANGED <<mutexes, hold, queue, identity, locals, dropped, panics>>

\* The callbacks of c's own events return; a fast hold tries the fast unlock.
CallbackReturns(c) ==
    /\ pc[c] = "deliver"
    /\ ~\E d \in Calls : WaitsFor(c, d)
    /\ Goto(c, IF holdSeq.mode = "fast" THEN "fastCheck" ELSE "drain")
    /\ UNCHANGED <<mutexes, hold, registration, queue, identity, locals, history>>

-----------------------------------------------------------------------------
(* Fast unlock                                                             *)

Uncontended == ~contended /\ enqueues = 0

\* tryFastUnlockEvictSlot looks, publishes the idle sequence and looks again.
FastCheck(c) ==
    /\ pc[c] = "fastCheck"
    /\ Goto(c, IF Uncontended THEN "fastIdle" ELSE "prepare")
    /\ UNCHANGED <<mutexes, hold, registration, queue, identity, locals, history>>

FastIdle(c) ==
    /\ pc[c] = "fastIdle"
    /\ holdSeq' = IdleSeq(curHoldIdx)
    /\ Goto(c, "fastRecheck")
    /\ UNCHANGED <<mutexes, curHoldIdx, registration, queue, identity, locals, history>>

\* Mutant: the second look is left out.
FastRecheckSkipped(c) ==
    /\ pc[c] = "fastRecheck"
    /\ Goto(c, "fastUnlock")
    /\ UNCHANGED <<mutexes, hold, registration, queue, identity, locals, history>>

FastRecheck(c) ==
    /\ pc[c] = "fastRecheck"
    /\ Goto(c, IF Uncontended THEN "fastUnlock" ELSE "prepare")
    /\ UNCHANGED <<mutexes, hold, registration, queue, identity, locals, history>>

\* dispatchFastCallbacks or finishFastEvictDeliverySlow: Unlock.
FastUnlock(c) ==
    /\ pc[c] = "fastUnlock"
    /\ mu' = None
    /\ Goto(c, "postFast")
    /\ UNCHANGED <<resolveMu, hold, registration, queue, identity, locals, history>>

\* After Unlock: events that arrived meanwhile are drained by whoever gets the
\* mutex (tryPostFastUnlockDrain, tryDrainPostUnlock).
PostUnlock(c) ==
    /\ \/ pc[c] = "postFast" /\ Goto(c, IF enqueues # 0 THEN "tryFast" ELSE "done")
       \/ pc[c] = "postSlow" /\ Goto(c, IF enqueues # 0 THEN "trySlow" ELSE "done")
    /\ UNCHANGED <<mutexes, hold, registration, queue, identity, locals, history>>

PostTryLock(c) ==
    /\ \/ /\ mu = None
          /\ mu' = c
          /\ \/ pc[c] = "tryFast" /\ Goto(c, "beginPrepare")
             \/ pc[c] = "trySlow" /\ Goto(c, "beginDrain")
       \/ /\ mu # None
          /\ mu' = mu
          /\ pc[c] \in {"tryFast", "trySlow"}
          /\ Goto(c, "done")
    /\ UNCHANGED <<resolveMu, hold, registration, queue, identity, locals, history>>

-----------------------------------------------------------------------------
(* Draining                                                                *)

\* prepareSlowEvictDrain republishes the hold that a failed fast unlock idled,
PrepareSeq(c) ==
    /\ pc[c] = "prepare"
    /\ holdSeq' = IF IsActiveSeq(holdSeq) THEN holdSeq ELSE ActiveSeq(curHoldIdx, "slow")
    /\ Goto(c, "prepareActive")
    /\ UNCHANGED <<mutexes, curHoldIdx, registration, queue, identity, locals, history>>

\* registers the holder if no contender has, and marks it active.
ActivateHolder(c) ==
    IF holderGID = None
    THEN RegisterHolder(c)
    ELSE resolveMu = None /\ active' = TRUE /\ UNCHANGED <<holderGID, contended>>

PrepareActive(c) ==
    /\ pc[c] = "prepareActive"
    /\ ActivateHolder(c)
    /\ Goto(c, "drain")
    /\ UNCHANGED <<mutexes, hold, queue, identity, locals, history>>

\* drainAndFinalizeEvictCallbackSlow, the head of its loop.
Drain(c) ==
    /\ pc[c] = "drain"
    /\ Goto(c, IF enqueues # 0 THEN "ensureReady" ELSE "finalize")
    /\ UNCHANGED <<mutexes, hold, registration, queue, identity, locals, history>>

\* ensureSlowEvictDrainReady
EnsureReady(c) ==
    /\ pc[c] = "ensureReady"
    /\ IF active /\ holderGID # None THEN UNCHANGED registration ELSE ActivateHolder(c)
    /\ Goto(c, "take")
    /\ UNCHANGED <<mutexes, hold, queue, identity, locals, history>>

\* The callback that deliverCallbacksPendingBatch runs next, if any; then the
\* test of the loop of drainPendingEvictCallbacks.
RunBatch(c, rest) ==
    /\ batch' = [batch EXCEPT ![c] = rest]
    /\ IF rest # <<>>
       THEN /\ delivered' = [delivered EXCEPT ![Head(rest)] = @ + 1]
            /\ Goto(c, "pendingCallback")
       ELSE /\ delivered' = delivered
            /\ Goto(c, IF enqueues' # 0 THEN "take" ELSE "finalize")

\* Mutant: the queue is delivered but not emptied.
TakePendingKeepsQueue(c) ==
    /\ pc[c] = "take"
    /\ resolveMu = None
    /\ UNCHANGED queue
    /\ RunBatch(c, pending)
    /\ UNCHANGED <<mutexes, hold, registration, identity, holder, matched, dropped, panics>>

\* Mutant: the counter is reset and the queue is not.
TakePendingResetsCounterOnly(c) ==
    /\ pc[c] = "take"
    /\ resolveMu = None
    /\ enqueues' = 0 /\ UNCHANGED pending
    /\ RunBatch(c, pending)
    /\ UNCHANGED <<mutexes, hold, registration, identity, holder, matched, dropped, panics>>

\* drainPendingEvictCallbacks takes the whole queue.
TakePending(c) ==
    /\ pc[c] = "take"
    /\ resolveMu = None
    /\ pending' = <<>> /\ enqueues' = 0
    /\ RunBatch(c, pending)
    /\ UNCHANGED <<mutexes, hold, registration, identity, holder, matched, dropped, panics>>

PendingReturns(c) ==
    /\ pc[c] = "pendingCallback"
    /\ ~\E d \in Calls : WaitsFor(c, d)
    /\ UNCHANGED queue
    /\ RunBatch(c, Tail(batch[c]))
    /\ UNCHANGED <<mutexes, hold, registration, identity, holder, matched, dropped, panics>>

\* advanceEvictHoldSeqToIdleLocked and resetEvictHolderStateLocked.
ResetHolder ==
    /\ holdSeq' = IF IsActiveSeq(holdSeq) THEN IdleSeq(holdSeq.idx) ELSE holdSeq
    /\ active' = FALSE /\ holderGID' = None /\ contended' = FALSE

\* The hold ends under resolveMu once nothing is left.
Finalize(c) ==
    /\ pc[c] = "finalize"
    /\ resolveMu = None
    /\ IF enqueues = 0 /\ pending = <<>>
       THEN ResetHolder /\ Goto(c, "unlock")
       ELSE UNCHANGED <<holdSeq, registration>> /\ Goto(c, "drain")
    /\ UNCHANGED <<mutexes, curHoldIdx, queue, identity, locals, history>>

Unlock(c) ==
    /\ pc[c] = "unlock"
    /\ mu' = None
    /\ Goto(c, "postSlow")
    /\ UNCHANGED <<resolveMu, hold, registration, queue, identity, locals, history>>

\* A callback panics: nobody waits for the goroutines it meant to join.
Panic(c) ==
    /\ InCallback(c)
    /\ panics < MaxPanics
    /\ ~\E d \in Calls : WaitsFor(c, d) /\ kind[d] = "self"
    /\ panics' = panics + 1
    /\ kind' = [d \in Calls |->
           IF WaitsFor(c, d) THEN "detached" ELSE kind[d]]
    /\ Goto(c, "panicked")
    /\ UNCHANGED <<mutexes, hold, registration, queue, gid, parent, lineage,
                   locals, delivered, dropped>>

\* finishEvictCallbackUnlock(true): the rest of the batch and everything
\* pending is discarded, and the hold ends.
FinishPanicked(c) ==
    /\ pc[c] = "panicked"
    /\ resolveMu = None
    /\ LET lost == {pending[i] : i \in DOMAIN pending}
                   \cup {batch[c][i] : i \in 2..Len(batch[c])}
       IN  dropped' = [d \in Calls |-> dropped[d] + (IF d \in lost THEN 1 ELSE 0)]
    /\ batch' = [batch EXCEPT ![c] = <<>>]
    /\ pending' = <<>> /\ enqueues' = 0
    /\ ResetHolder
    /\ Goto(c, "unlock")
    /\ UNCHANGED <<mutexes, curHoldIdx, identity, holder, matched, delivered, panics>>

-----------------------------------------------------------------------------
(* Contention                                                              *)

\* The goroutine whose stack shows the frame of the active fast tag.
FastFrame ==
    IF mu # None /\ pc[mu] = "deliver" /\ HasFastTag THEN gid[mu] ELSE None

\* resolveActiveEvictCallbackHolder: a registered holder is taken as it is; the
\* holder itself registers; others search all stacks if a hold is active.
Slow(c) ==
    /\ pc[c] = "slow"
    /\ \/ /\ holderGID # None
          /\ holder' = [holder EXCEPT ![c] = holderGID]
          /\ Goto(c, "match")
          /\ UNCHANGED registration
       \/ /\ holderGID = None /\ FastFrame = gid[c]
          /\ resolveMu = None
          /\ contended' = TRUE /\ holderGID' = gid[c] /\ UNCHANGED active
          /\ holder' = [holder EXCEPT ![c] = gid[c]]
          /\ Goto(c, "match")
       \/ /\ holderGID = None /\ FastFrame # gid[c]
          /\ holder' = [holder EXCEPT ![c] = None]
          /\ Goto(c, IF IsEvictCallbackActive THEN "resolve" ELSE "match")
          /\ UNCHANGED registration
    /\ UNCHANGED <<mutexes, hold, queue, identity, matched, batch, history>>

\* resolveEvictCallbackHolderFromAllStacksLocked announces the contention before
\* it looks whether a hold is active.
Resolve(c) ==
    /\ pc[c] = "resolve"
    /\ resolveMu = None /\ resolveMu' = c
    /\ contended' = TRUE
    /\ Goto(c, "resolveTest")
    /\ UNCHANGED <<mu, hold, holderGID, active, queue, identity, locals, history>>

\* Mutant: a fast holder, which has not registered, is not searched for.
ResolveTestRegisteredOnly(c) ==
    /\ pc[c] = "resolveTest"
    /\ contended' = (IsEvictCallbackActive \/ holderGID # None)
    /\ holder' = [holder EXCEPT ![c] = IF IsEvictCallbackActive THEN holderGID ELSE None]
    /\ Goto(c, "match")
    /\ resolveMu' = None
    /\ UNCHANGED <<mu, hold, holderGID, active, queue, identity, matched, batch, history>>

ResolveTest(c) ==
    /\ pc[c] = "resolveTest"
    /\ contended' = (IsEvictCallbackActive \/ holderGID # None)
    /\ IF IsEvictCallbackActive /\ holderGID = None /\ FastFrame # None
       THEN /\ holder' = [holder EXCEPT ![c] = FastFrame]
            /\ Goto(c, "resolveStore")
            /\ UNCHANGED resolveMu
       ELSE /\ holder' = [holder EXCEPT
                   ![c] = IF IsEvictCallbackActive THEN holderGID ELSE None]
            /\ Goto(c, "match")
            /\ resolveMu' = None
    /\ UNCHANGED <<mu, hold, holderGID, active, queue, identity, matched, batch, history>>

\* matchCandidateEvictCallbackGID registers the holder it found in the stacks.
ResolveStore(c) ==
    /\ pc[c] = "resolveStore"
    /\ resolveMu' = None
    /\ IF IsEvictCallbackActive
       THEN holderGID' = holder[c] /\ UNCHANGED holder
       ELSE holder' = [holder EXCEPT ![c] = holderGID] /\ UNCHANGED holderGID
    /\ Goto(c, "match")
    /\ UNCHANGED <<mu, hold, active, contended, queue, identity, matched, batch, history>>

\* Mutant: a goroutine that an earlier hold of the same holder created passes.
AnswersAnyHold(c, g, idx) ==
    IF \A h \in lineage[gid[c]] : h[1] # g THEN {FALSE}
    ELSE IF kind[c] = "awaited" THEN {TRUE} ELSE BOOLEAN

\* What isDescendantOfEvictHolder may answer about c for hold idx of goroutine g.
\* A goroutine that the callback is waiting for is recognized; one that it let
\* run on may be or not (the goroutines between them may have exited); a
\* goroutine that is not a descendant created in this hold is rejected.
Answers(c, g, idx) ==
    IF <<g, idx>> \notin lineage[gid[c]] THEN {FALSE}
    ELSE IF kind[c] = "awaited" THEN {TRUE} ELSE BOOLEAN

\* isContendedCallerEvictChild reads the sequence of the hold,
Match(c) ==
    /\ pc[c] = "match"
    /\ matched' = [matched EXCEPT ![c] = holdSeq]
    /\ Goto(c, IF holder[c] # None /\ IsActiveSeq(holdSeq) THEN "matchCheck" ELSE "lockWait")
    /\ UNCHANGED <<mutexes, hold, registration, queue, identity, holder, batch, history>>

\* and asks whether c runs inside it, which counts only if it still stands.
MatchCheck(c) ==
    /\ pc[c] = "matchCheck"
    /\ \E isChild \in IF holder[c] = gid[c] THEN {TRUE}
                      ELSE IF holderGID # holder[c] THEN {FALSE}
                      ELSE Answers(c, holder[c], matched[c].idx) :
           Goto(c, IF isChild /\ holdSeq = matched[c] THEN "enqueue" ELSE "lockWait")
    /\ UNCHANGED <<mutexes, hold, registration, queue, identity, locals, history>>

\* Mutant: the matched hold is not looked at again.
EnqueueUnchecked(c) ==
    /\ pc[c] = "enqueue"
    /\ resolveMu = None /\ resolveMu' = c
    /\ Goto(c, "append")
    /\ UNCHANGED <<mu, hold, registration, queue, identity, locals, history>>

\* tryEnqueuePendingCallback: the matched hold must stand under resolveMu, else
\* invokeSlow starts over.
Enqueue(c) ==
    /\ pc[c] = "enqueue"
    /\ IF holdSeq = matched[c]
       THEN resolveMu = None /\ resolveMu' = c /\ Goto(c, "append")
       ELSE UNCHANGED resolveMu /\ Goto(c, "slow")
    /\ UNCHANGED <<mu, hold, registration, queue, identity, locals, history>>

AppendPending(c) ==
    /\ pc[c] = "append"
    /\ pending' = Append(pending, c) /\ enqueues' = 1
    /\ resolveMu' = None
    /\ Goto(c, "done")
    /\ UNCHANGED <<mu, hold, registration, identity, locals, history>>

\* A caller outside the callback waits for the mutex.
LockWait(c) ==
    /\ pc[c] = "lockWait"
    /\ mu = None /\ mu' = c
    /\ Goto(c, "beginWaited")
    /\ UNCHANGED <<resolveMu, hold, registration, queue, identity, locals, history>>

-----------------------------------------------------------------------------

\* The library's own steps on behalf of c.
Deliver(c) ==
    \/ TryLock(c) \/ BeginFast(c) \/ BeginSlow(c) \/ Register(c)
    \/ FastCheck(c) \/ FastIdle(c) \/ FastRecheck(c) \/ FastUnlock(c)
    \/ PostUnlock(c) \/ PostTryLock(c)
    \/ PrepareSeq(c) \/ PrepareActive(c) \/ Drain(c) \/ EnsureReady(c)
    \/ TakePending(c) \/ Finalize(c) \/ Unlock(c) \/ FinishPanicked(c)
    \/ Slow(c) \/ Resolve(c) \/ ResolveTest(c) \/ ResolveStore(c)
    \/ Match(c) \/ MatchCheck(c) \/ Enqueue(c) \/ AppendPending(c) \/ LockWait(c)

\* The user's callback returns.
Return(c) == CallbackReturns(c) \/ PendingReturns(c)

\* The user's code calls the cache.
Call(c) ==
    \/ CallFresh(c)
    \/ \E d \in Calls : CallAgain(c, d) \/ CallInCallback(c, d)
    \/ \E p \in Calls, how \in {"awaited", "detached"} : CallInChild(c, p, how)

\* Every call has been made and has returned.
Quiet == \A c \in Calls : pc[c] = "done"
Finished == Quiet /\ UNCHANGED vars

Next ==
    \/ \E c \in Calls : Deliver(c) \/ Return(c) \/ Call(c) \/ Panic(c)
    \/ Finished

Spec == Init /\ [][Next]_vars

\* As long as some goroutine can go on, one does: a callback returns once nothing
\* it waits for is left, and a free mutex is taken by a waiter.
FairSpec == Spec /\ WF_vars(\E c \in Calls : Deliver(c) \/ Return(c))

-----------------------------------------------------------------------------
(* Properties                                                              *)

\* User code runs only on the goroutine that holds evictCallbackMu and only
\* while the hold it belongs to is published, drained callbacks after a failed
\* fast unlock included: a re-entrant caller can always recognize the hold.
CallbackUnderHold ==
    \A c \in Calls : InCallback(c) =>
        /\ mu = c
        /\ IsActiveSeq(holdSeq) /\ holdSeq.idx = curHoldIdx
        /\ \/ active /\ holderGID = gid[c]
           \/ HasFastTag /\ pc[c] = "deliver"

\* Between holds nothing is left of the last one: the sequence is idle, no holder
\* is named and no contention is announced, although the fast unlock takes no
\* lock and contenders announce themselves without the mutex.
HoldLeavesNoTrace ==
    mu = None /\ resolveMu = None =>
        ~IsActiveSeq(holdSeq) /\ holderGID = None /\ ~active /\ ~contended

\* A caller that has passed the last test of tryEnqueuePendingCallback appends
\* to the queue of the hold it matched, and that holder has not yet decided to
\* unlock: the lock-free fast unlock cannot slip between test and append.
EnqueueMeetsHolder ==
    \A c \in Calls : pc[c] = "append" =>
        /\ mu # None /\ curHoldIdx = matched[c].idx /\ contended
        /\ pc[mu] \notin {"fastUnlock", "unlock", "begin", "beginWaited",
                          "beginDrain", "beginPrepare"}

\* A callback never waits for a caller that waits for the callback to end:
\* neither the callback's goroutine nor one that it joins parks on
\* evictCallbackMu.
NoSelfDeadlock ==
    \A p, c \in Calls : InCallback(p) /\ WaitsFor(p, c) =>
        pc[c] \notin {"lockWait", "beginWaited"}

\* The goroutine of c runs inside the hold in progress: it is the holder, or the
\* callbacks of this very hold started it, directly or through others.
InsideHold(c) == gid[c] = gid[mu] \/ <<gid[mu], curHoldIdx>> \in lineage[gid[c]]

\* Callers outside the callback in progress get their callbacks synchronously.
\* When an operation from outside any callback returns, its callbacks have run,
\* on its own goroutine; and only a caller inside the hold leaves its events to
\* the holder and returns early.  A goroutine that outlived the callback which
\* started it never does so in a later hold, the same goroutine's included.
OutsidersDeliverTheirOwn ==
    \A c \in Calls :
        /\ kind[c] = "root" /\ pc[c] = "done" => delivered[c] = 1
        /\ pc[c] = "append" => InsideHold(c)

\* Where the events of c are once c has handed them on.
Waiting(c) ==
    \/ \E i \in DOMAIN pending : pending[i] = c
    \/ \E d \in Calls : \E i \in 2..Len(batch[d]) : batch[d][i] = c

\* No event is lost or delivered twice: an operation that returned has had its
\* callbacks run once, or they wait to be run, or a panic discarded them.
DeliveredOnce ==
    \A c \in Calls :
        /\ delivered[c] + dropped[c] <= 1
        /\ pc[c] = "done" => (delivered[c] + dropped[c] = 0 <=> Waiting(c))
        /\ dropped[c] = 1 => panics > 0

\* Every operation returns and its events are delivered in the end, unless a
\* panic discarded them, whatever callbacks wait for, start or do.
EveryCallSettles ==
    \A c \in Calls :
        pc[c] = "tryLock" ~> pc[c] = "done" /\ delivered[c] + dropped[c] = 1

=============================================================================
