------------------------ MODULE EvictCallbacksProofs ------------------------
(***************************************************************************)
(* Proofs that the delivery protocol of pressure.go is correct for any     *)
(* number of calls and of panics.                                          *)
(*                                                                         *)
(* The invariant has a part per actor: what the stage of the holder of     *)
(* evictCallbackMu says of the published hold (HoldInv), what a contender  *)
(* knows of the hold it found (ContendInv), what a callback in progress    *)
(* means to the calls it waits for (WaitInv), which calls share a          *)
(* goroutine (GoroutineInv), and where every event is (EventInv).          *)
(***************************************************************************)
EXTENDS EvictCallbacks, TLAPS

-----------------------------------------------------------------------------
(* Stages                                                                  *)

\* The holder has no hold published: on either side of a hold.
Beginning == {"begin", "beginWaited", "beginDrain", "beginPrepare"}
Ending == {"fastUnlock", "unlock"}

\* The holder can still be left events of the hold it published.
Reachable == {"deliver", "fastCheck", "prepare", "prepareActive", "drain",
              "ensureReady", "take", "pendingCallback", "finalize", "panicked"}

Holding ==
    Beginning \cup Ending \cup Reachable \cup {"register", "fastIdle", "fastRecheck"}

\* Stages inside resolveMu, and of a contender that waits for nothing.
Resolving == {"resolveTest", "resolveStore", "append"}
Contending == {"tryLock", "slow", "resolve", "match", "matchCheck", "enqueue"} \cup Resolving

Stages ==
    Holding \cup Contending
      \cup {"none", "lockWait", "postFast", "postSlow", "tryFast", "trySlow", "done"}

Active(c) == pc[c] \notin {"none", "done"}

\* The stage of the hold: that of the call that has evictCallbackMu.
Stage == IF mu = None THEN "free" ELSE pc[mu]

-----------------------------------------------------------------------------
(* The inductive invariant                                                 *)

Indices == 0..NumCalls
HoldSeqs == [idx : Nat, mode : {"idle", "fast", "slow"}]
Kinds == {"none", "root", "self", "awaited", "detached"}

TypeInv ==
    /\ mu \in Indices /\ resolveMu \in Indices
    /\ holdSeq \in HoldSeqs /\ curHoldIdx \in Nat
    /\ holderGID \in Indices /\ active \in BOOLEAN /\ contended \in BOOLEAN
    /\ pending \in Seq(Calls) /\ enqueues \in Nat
    /\ pc \in [Calls -> Stages] /\ gid \in [Calls -> Indices]
    /\ kind \in [Calls -> Kinds] /\ parent \in [Calls -> Indices]
    /\ DOMAIN lineage = Calls
    /\ holder \in [Calls -> Indices] /\ matched \in [Calls -> HoldSeqs]
    /\ batch \in [Calls -> Seq(Calls)]
    /\ delivered \in [Calls -> Nat] /\ dropped \in [Calls -> Nat] /\ panics \in Nat

MutexInv ==
    \A c \in Calls : /\ pc[c] \in Holding <=> mu = c
                     /\ pc[c] \in Resolving <=> resolveMu = c

\* Calls begin in order, on goroutines named by an earlier call or by themselves;
\* two calls on one goroutine are in progress only when one was made by the
\* callback of the other.
GoroutineInv ==
    /\ \A c \in Calls :
         /\ pc[c] = "none" => gid[c] = None /\ kind[c] = "none" /\ lineage[c] = {}
         /\ pc[c] # "none" =>
               /\ gid[c] \in 1..c /\ kind[c] # "none"
               /\ \A d \in 1..(c - 1) : pc[d] # "none"
         /\ kind[c] = "root" => lineage[gid[c]] = {}
    /\ \A c, d \in Calls :
         c # d /\ gid[c] = gid[d] /\ Active(c) /\ Active(d)
           => "self" \in {kind[c], kind[d]}

\* The hold, by the stage of its holder.
HoldInv ==
    /\ holderGID # None => contended /\ mu # None /\ holderGID = gid[mu]
    /\ active => holderGID # None
    /\ Stage \in {"free"} \cup Beginning \cup Ending =>
          ~IsActiveSeq(holdSeq) /\ holderGID = None /\ (contended => resolveMu # None)
    /\ Stage \in (Reachable \ {"prepare"}) \cup {"register", "fastIdle"} =>
          IsActiveSeq(holdSeq) /\ holdSeq.idx = curHoldIdx
    /\ Stage = "register" => holdSeq.mode = "slow"
    /\ Stage \in {"fastCheck", "fastIdle"} => holdSeq.mode = "fast" /\ ~active
    /\ Stage \in {"register", "fastIdle", "fastRecheck"} => holderGID = None
    /\ Stage = "fastRecheck" => holdSeq = IdleSeq(curHoldIdx)
    /\ Stage = "deliver" => (holdSeq.mode = "fast" <=> ~active)
    /\ Stage = "prepare" =>
          /\ ~active
          /\ \/ holdSeq = IdleSeq(curHoldIdx)
             \/ IsActiveSeq(holdSeq) /\ holdSeq.idx = curHoldIdx
    /\ Stage \in {"take", "pendingCallback"} => active

\* The hold was published fast and has not been published again.
FastPhase ==
    \/ holdSeq.mode = "fast"
    \/ Stage = "fastRecheck"
    \/ Stage = "prepare" /\ ~IsActiveSeq(holdSeq)

\* What a contender that has read the sequence of a hold knows of it, whether the
\* hold still stands or not.
MatchInv(c) ==
    /\ IsActiveSeq(matched[c]) /\ holder[c] # None
    /\ \/ matched[c].idx < holdSeq.idx
       \/ IsActiveSeq(holdSeq) /\ matched[c].idx = holdSeq.idx
    /\ FastPhase /\ matched[c].idx = curHoldIdx => matched[c].mode = "fast"

ContendInv(c) ==
    /\ pc[c] = "resolveStore" =>
          /\ contended /\ holderGID = None /\ holder[c] # None
          /\ mu # None /\ holder[c] = gid[mu]
          /\ Stage \in {"deliver", "fastCheck", "prepare", "prepareActive", "panicked"}
          /\ holdSeq.mode = "fast" /\ ~active
    /\ pc[c] \in {"matchCheck", "enqueue"} => MatchInv(c)
    /\ pc[c] = "enqueue" /\ holdSeq = matched[c] => holderGID # None /\ holderGID = holder[c]
    /\ pc[c] = "append" =>
          /\ curHoldIdx = matched[c].idx /\ Stage \in Reachable
          /\ holderGID # None /\ holderGID = holder[c]
    /\ pc[c] \in {"match", "matchCheck", "enqueue", "resolveStore"} /\ holder[c] = gid[c] =>
          kind[c] = "self"
    /\ pc[c] \in {"enqueue", "append"} =>
          /\ kind[c] # "root"
          /\ holder[c] = gid[c] \/ <<holder[c], matched[c].idx>> \in lineage[gid[c]]

\* A callback waits for a call only while it runs, and the call always finds out.
WaitInv(c) ==
    kind[c] \in {"self", "awaited"} /\ Active(c) =>
        /\ mu # None /\ mu = parent[c] /\ Stage \in {"deliver", "pendingCallback"}
        /\ pc[c] \in Contending
        /\ kind[c] = "self" => gid[c] = gid[mu]
        /\ kind[c] = "awaited" => <<gid[mu], curHoldIdx>> \in lineage[gid[c]]
        /\ pc[c] \in {"match", "matchCheck", "enqueue"} =>
              holder[c] = gid[mu] /\ holderGID = gid[mu]
        /\ pc[c] \in {"matchCheck", "enqueue"} => matched[c] = holdSeq

\* Stages before a call has its own callbacks run, and after.
Before == {"none", "begin", "beginWaited", "register", "lockWait"} \cup Contending
After == Stages \ (Before \cup {"done"})

\* The events that wait behind the one being delivered.
Rest(d) == {i \in DOMAIN batch[d] : i > 1}

\* Every event is with its call, waiting at one place, delivered or discarded.
EventInv ==
    /\ \A c \in Calls :
         /\ pc[c] \in Before => delivered[c] = 0 /\ dropped[c] = 0 /\ ~Waiting(c)
         /\ (pc[c] \in After) \/ (pc[c] = "done" /\ kind[c] = "root") =>
               delivered[c] = 1 /\ dropped[c] = 0 /\ ~Waiting(c)
         /\ pc[c] = "done" =>
               /\ delivered[c] + dropped[c] <= 1
               /\ delivered[c] + dropped[c] = 0 <=> Waiting(c)
         /\ dropped[c] = 1 => panics > 0
         /\ pc[c] = "panicked" => panics > 0
         /\ batch[c] # <<>> => pc[c] \in {"pendingCallback", "panicked"}
         /\ pc[c] = "pendingCallback" => batch[c] # <<>>
    /\ \A i, j \in DOMAIN pending : pending[i] = pending[j] => i = j
    /\ \A c \in Calls : \A i, j \in Rest(c) : batch[c][i] = batch[c][j] => i = j
    /\ \A c \in Calls : \A i \in Rest(c), j \in DOMAIN pending : batch[c][i] # pending[j]

IndInv ==
    /\ TypeInv /\ MutexInv /\ GoroutineInv /\ HoldInv /\ EventInv
    /\ \A c \in Calls : ContendInv(c) /\ WaitInv(c)

-----------------------------------------------------------------------------
(* Proofs of the steps: what they have in common                           *)

\* The goroutine of a call in progress moves on.
LEMMA GoroutineStep ==
    ASSUME IndInv, NEW c \in Calls, NEW s \in Stages, s # "none",
           Active(c), Goto(c, s), UNCHANGED identity
    PROVE  GoroutineInv'
<1>1. /\ pc \in [Calls -> Stages] /\ pc' = [pc EXCEPT ![c] = s] /\ GoroutineInv
      /\ gid' = gid /\ kind' = kind /\ lineage' = lineage
      /\ pc[c] \notin {"none", "done"}
  BY DEF IndInv, TypeInv, Goto, Active, identity
<1>2. \A d \in Calls : /\ pc'[d] = "none" <=> pc[d] = "none"
                       /\ Active(d)' => Active(d)
  BY <1>1 DEF Active
<1>3. ASSUME NEW d \in Calls
      PROVE  /\ pc'[d] = "none" => gid'[d] = None /\ kind'[d] = "none" /\ lineage'[d] = {}
             /\ pc'[d] # "none" =>
                   /\ gid'[d] \in 1..d /\ kind'[d] # "none"
                   /\ \A e \in 1..(d - 1) : pc'[e] # "none"
             /\ kind'[d] = "root" => lineage'[gid'[d]] = {}
  <2>1. \A e \in 1..(d - 1) : e \in Calls
    BY CallsAssumption DEF Calls
  <2>. QED  BY <1>1, <1>2, <2>1 DEF GoroutineInv
<1>4. ASSUME NEW d \in Calls, NEW e \in Calls, d # e, gid'[d] = gid'[e],
             Active(d)', Active(e)'
      PROVE  "self" \in {kind'[d], kind'[e]}
  BY <1>1, <1>2, <1>4 DEF GoroutineInv
<1>. QED  BY <1>3, <1>4 DEF GoroutineInv

\* A call takes, keeps or leaves the two mutexes along with its stage.
LEMMA MutexStep ==
    ASSUME IndInv, NEW c \in Calls, NEW s \in Stages, Goto(c, s),
           \/ mu' = mu
           \/ mu = None /\ mu' = c
           \/ mu = c /\ mu' = None,
           \/ resolveMu' = resolveMu
           \/ resolveMu = None /\ resolveMu' = c
           \/ resolveMu = c /\ resolveMu' = None,
           s \in Holding <=> mu' = c,
           s \in Resolving <=> resolveMu' = c
    PROVE  MutexInv'
<1>1. /\ pc \in [Calls -> Stages] /\ pc' = [pc EXCEPT ![c] = s] /\ MutexInv
      /\ None \notin Calls
  BY DEF IndInv, TypeInv, Goto, None, Calls
<1>2. ASSUME NEW d \in Calls
      PROVE  /\ pc'[d] \in Holding <=> mu' = d
             /\ pc'[d] \in Resolving <=> resolveMu' = d
  <2>1. CASE d = c
    BY <1>1, <2>1
  <2>2. CASE d # c
    <3>1. pc'[d] = pc[d] /\ d # None
      BY <1>1, <2>2
    <3>2. (mu' = d <=> mu = d) /\ (resolveMu' = d <=> resolveMu = d)
      BY <2>2, <3>1
    <3>. QED  BY <1>1, <3>1, <3>2 DEF MutexInv
  <2>. QED  BY <2>1, <2>2
<1>. QED  BY <1>2 DEF MutexInv

\* Events stay where they are while a call moves on before or after its delivery.
LEMMA EventStep ==
    ASSUME IndInv, NEW c \in Calls, NEW s \in Stages, Goto(c, s),
           \/ pc[c] \in Before /\ s \in Before
           \/ /\ pc[c] \in After \ {"pendingCallback"}
              /\ s \in (After \ {"pendingCallback", "panicked"}) \cup {"done"}
              /\ pc[c] # "panicked",
           UNCHANGED <<pending, batch, kind, history>>
    PROVE  EventInv'
<1>1. /\ pc \in [Calls -> Stages] /\ pc' = [pc EXCEPT ![c] = s] /\ EventInv
      /\ pending' = pending /\ batch' = batch /\ kind' = kind
      /\ delivered' = delivered /\ dropped' = dropped /\ panics' = panics
  BY DEF IndInv, TypeInv, Goto, history
<1>2. \A d \in Calls : Waiting(d)' <=> Waiting(d)
  BY <1>1 DEF Waiting
<1>3. \A d \in Calls \ {c} : pc'[d] = pc[d]
  BY <1>1
<1>4. pc'[c] = s /\ pc[c] \notin {"pendingCallback", "panicked"}
  BY <1>1 DEF Before, After, Contending, Resolving
<1>5. ASSUME NEW d \in Calls
      PROVE  /\ pc'[d] \in Before => delivered'[d] = 0 /\ dropped'[d] = 0 /\ ~Waiting(d)'
             /\ (pc'[d] \in After) \/ (pc'[d] = "done" /\ kind'[d] = "root") =>
                   delivered'[d] = 1 /\ dropped'[d] = 0 /\ ~Waiting(d)'
             /\ pc'[d] = "done" =>
                   /\ delivered'[d] + dropped'[d] <= 1
                   /\ delivered'[d] + dropped'[d] = 0 <=> Waiting(d)'
             /\ dropped'[d] = 1 => panics' > 0
             /\ pc'[d] = "panicked" => panics' > 0
             /\ batch'[d] # <<>> => pc'[d] \in {"pendingCallback", "panicked"}
             /\ pc'[d] = "pendingCallback" => batch'[d] # <<>>
  <2>1. CASE d # c
    BY <1>1, <1>2, <1>3, <2>1 DEF EventInv
  <2>2. CASE d = c /\ pc[c] \in Before /\ s \in Before
    BY <1>1, <1>2, <1>4, <2>2 DEF EventInv, Before, After, Contending, Resolving
  <2>3. CASE d = c /\ pc[c] \in After /\ s \in (After \ {"pendingCallback", "panicked"}) \cup {"done"}
    BY <1>1, <1>2, <1>4, <2>3 DEF EventInv, Before, After, Contending, Resolving
  <2>. QED  BY <2>1, <2>2, <2>3
<1>6. /\ \A i, j \in DOMAIN pending' : pending'[i] = pending'[j] => i = j
      /\ \A d \in Calls : \A i, j \in Rest(d)' : batch'[d][i] = batch'[d][j] => i = j
      /\ \A d \in Calls : \A i \in Rest(d)', j \in DOMAIN pending' : batch'[d][i] # pending'[j]
  BY <1>1 DEF EventInv, Rest
<1>. QED  BY <1>5, <1>6 DEF EventInv

\* What a contender has matched, beside what the stage of the holder says.
LEMMA MatchHolds ==
    ASSUME IndInv, NEW d \in Calls
    PROVE  /\ TypeInv /\ HoldInv
           /\ pc[d] \in {"matchCheck", "enqueue"} => MatchInv(d)
  BY DEF IndInv, ContendInv

\* No call is waited for by a holder that is not in a callback.
LEMMA NobodyWaited ==
    ASSUME IndInv, Stage \notin {"deliver", "pendingCallback"}
    PROVE  \A d \in Calls : ~(kind[d] \in {"self", "awaited"} /\ Active(d))
  BY DEF IndInv, WaitInv

\* A step during which no operation of a callback is under way keeps them ordered.
LEMMA WaitStep ==
    ASSUME IndInv, NEW c \in Calls, NEW s \in Stages, Active(c), Goto(c, s),
           Stage \notin {"deliver", "pendingCallback"}, kind' = kind
    PROVE  \A d \in Calls : WaitInv(d)'
<1>1. \A d \in Calls : ~(kind[d] \in {"self", "awaited"} /\ Active(d))
  BY NobodyWaited
<1>2. pc \in [Calls -> Stages] /\ pc' = [pc EXCEPT ![c] = s]
  BY DEF IndInv, TypeInv, Goto
<1>3. \A d \in Calls : Active(d)' => Active(d)
  BY <1>2 DEF Active
<1>. QED  BY <1>1, <1>3 DEF WaitInv

\* The holder, its stage, and the stage it goes to.
LEMMA HolderStep ==
    ASSUME IndInv, NEW c \in Calls, pc[c] \in Holding
    PROVE  /\ mu = c /\ mu # None /\ Stage = pc[c] /\ Active(c)
           /\ \A d \in Calls : pc[d] \in Holding => d = c
           /\ \A s \in Stages : Goto(c, s) =>
                /\ mu' = c => Stage' = s
                /\ mu' = None => Stage' = "free"
                /\ pc'[c] = s /\ \A d \in Calls \ {c} : pc'[d] = pc[d]
                /\ pc' \in [Calls -> Stages]
<1>1. mu = c /\ mu # None /\ Stage = pc[c] /\ pc \in [Calls -> Stages]
  BY DEF IndInv, TypeInv, MutexInv, Stage, None, Calls
<1>2. Active(c)
  BY DEF Active, Holding, Beginning, Ending, Reachable
<1>3. \A d \in Calls : pc[d] \in Holding => d = c
  BY <1>1 DEF IndInv, MutexInv
<1>4. ASSUME NEW s \in Stages, Goto(c, s)
      PROVE  /\ mu' = c => Stage' = s
             /\ mu' = None => Stage' = "free"
             /\ pc'[c] = s /\ \A d \in Calls \ {c} : pc'[d] = pc[d]
             /\ pc' \in [Calls -> Stages]
  BY <1>1, <1>4 DEF Goto, Stage, None, Calls
<1>. QED  BY <1>1, <1>2, <1>3, <1>4

\* The holder moves on, outside a callback.
LEMMA HolderMoves ==
    ASSUME IndInv, NEW c \in Calls, NEW s \in Stages, Goto(c, s),
           pc[c] \in Holding \ {"deliver", "pendingCallback"},
           s \notin Resolving, s # "none",
           \/ s \in Holding /\ mu' = mu
           \/ s \notin Holding /\ mu' = None,
           resolveMu' = resolveMu, UNCHANGED identity
    PROVE  /\ mu = c /\ mu # None /\ Stage = pc[c]
           /\ Stage' = IF mu' = None THEN "free" ELSE s
           /\ pc'[c] = s /\ \A d \in Calls \ {c} : pc'[d] = pc[d]
           /\ \A d \in Calls : pc[d] \in Holding => d = c
           /\ pc' \in [Calls -> Stages] /\ gid[c] \in Calls
           /\ None \notin Calls /\ None \in Indices
           /\ resolveMu = None => \A d \in Calls : pc[d] \notin Resolving
           /\ MutexInv' /\ GoroutineInv' /\ \A d \in Calls : WaitInv(d)'
<1>1. /\ mu = c /\ mu # None /\ Stage = pc[c] /\ Active(c)
      /\ \A d \in Calls : pc[d] \in Holding => d = c
      /\ mu' = c => Stage' = s
      /\ mu' = None => Stage' = "free"
      /\ pc'[c] = s /\ \A d \in Calls \ {c} : pc'[d] = pc[d]
      /\ pc' \in [Calls -> Stages]
  BY HolderStep
<1>2. MutexInv'
  <2>1. pc[c] \notin Resolving /\ resolveMu # c
    BY <1>1 DEF Holding, Beginning, Ending, Reachable, Resolving, IndInv, MutexInv
  <2>2. c # None
    BY DEF Calls, None
  <2>3. (s \in Holding <=> mu' = c) /\ (s \in Resolving <=> resolveMu' = c)
    BY <1>1, <2>1, <2>2
  <2>. QED  BY <1>1, <2>3, MutexStep
<1>3. GoroutineInv'
  BY <1>1, GoroutineStep
<1>4. \A d \in Calls : WaitInv(d)'
  <2>1. Stage \notin {"deliver", "pendingCallback"} /\ kind' = kind
    BY <1>1 DEF identity
  <2>. QED  BY <1>1, <2>1, WaitStep
<1>5. /\ gid[c] \in Calls /\ None \notin Calls /\ None \in Indices
      /\ resolveMu = None => \A d \in Calls : pc[d] \notin Resolving
  BY <1>1, CallsAssumption DEF IndInv, GoroutineInv, MutexInv, Active, Calls, Indices, None
<1>. QED  BY <1>1, <1>2, <1>3, <1>4, <1>5

\* tryFastUnlockEvictSlot's first look.
LEMMA FastCheckInductive ==
    ASSUME IndInv, NEW c \in Calls, FastCheck(c)
    PROVE  IndInv'
<1>. DEFINE s == IF Uncontended THEN "fastIdle" ELSE "prepare"
<1>1. /\ pc[c] = "fastCheck" /\ Goto(c, s) /\ s \in {"fastIdle", "prepare"}
      /\ s = "fastIdle" => ~contended
      /\ UNCHANGED <<mutexes, hold, registration, queue, identity, locals, history>>
  BY DEF FastCheck, Uncontended, PublishHold, RegisterHolder, ActivateHolder, ResetHolder, mutexes, hold, registration, queue, identity, locals, history
<1>. HIDE DEF s
<1>2. /\ s \in Stages /\ s # "none" /\ s \in Holding /\ s \notin Resolving
      /\ pc[c] \in Holding \ {"deliver", "pendingCallback"}
  BY <1>1 DEF Stages, Holding, Beginning, Ending, Reachable, Resolving
<1>3. /\ mu = c /\ mu # None /\ Stage = pc[c] /\ mu' = c /\ Stage' = s
      /\ pc'[c] = s /\ \A d \in Calls \ {c} : pc'[d] = pc[d]
      /\ \A d \in Calls : pc[d] \in Holding => d = c
      /\ pc' \in [Calls -> Stages] /\ gid[c] \in Calls /\ None \notin Calls /\ None \in Indices
      /\ resolveMu = None => \A d \in Calls : pc[d] \notin Resolving
      /\ MutexInv' /\ GoroutineInv' /\ \A d \in Calls : WaitInv(d)'
  BY <1>1, <1>2, HolderMoves DEF mutexes, identity
<1>4. TypeInv'
  BY <1>1, <1>3 DEF IndInv, TypeInv, mutexes, hold, registration, queue, identity, locals, history
<1>5. EventInv'
  BY <1>1, <1>2, EventStep DEF locals, queue, identity, history, After, Before, Holding,
     Beginning, Ending, Reachable, Contending, Resolving, Stages
<1>6. HoldInv'
  BY <1>1, <1>3 DEF IndInv, TypeInv, HoldSeqs, HoldInv, IsActiveSeq, NextHoldIdx, ActiveSeq, IdleSeq,
     Beginning, Ending, Reachable, hold, registration, identity
<1>7. ASSUME NEW d \in Calls
      PROVE  ContendInv(d)'
  <2>1. pc'[d] \in {"matchCheck", "enqueue"} => MatchInv(d)'
    <3>1. /\ TypeInv /\ HoldInv
          /\ pc[d] \in {"matchCheck", "enqueue"} => MatchInv(d)
      BY MatchHolds
    <3>. QED  BY <1>1, <1>3, <3>1 DEF TypeInv, HoldSeqs, HoldInv, MatchInv, FastPhase,
         IsActiveSeq, NextHoldIdx, ActiveSeq, IdleSeq, Beginning, Ending, Reachable, hold, registration, locals
  <2>2. pc'[d] = "enqueue" /\ holdSeq' = matched'[d] =>
          holderGID' # None /\ holderGID' = holder'[d]
    BY <1>1, <1>3 DEF IndInv, ContendInv, HoldInv, MatchInv, FastPhase,
       IsActiveSeq, NextHoldIdx, Beginning, Ending, Reachable, hold, registration, locals
  <2>. QED  BY <1>1, <1>3, <2>1, <2>2 DEF IndInv, TypeInv, HoldSeqs, ContendInv, HoldInv,
         IsActiveSeq, NextHoldIdx, ActiveSeq, IdleSeq, Beginning, Ending, Reachable, Resolving,
         hold, registration, identity, locals
<1>. QED  BY <1>3, <1>4, <1>5, <1>6, <1>7 DEF IndInv

\* It publishes the idle sequence.
LEMMA FastIdleInductive ==
    ASSUME IndInv, NEW c \in Calls, FastIdle(c)
    PROVE  IndInv'
<1>. DEFINE s == "fastRecheck"
<1>1. /\ pc[c] = "fastIdle" /\ Goto(c, s) /\ s = "fastRecheck"
      /\ holdSeq' = IdleSeq(curHoldIdx)
      /\ UNCHANGED <<mutexes, curHoldIdx, registration, queue, identity, locals, history>>
  BY DEF FastIdle, Uncontended, PublishHold, RegisterHolder, ActivateHolder, ResetHolder, mutexes, hold, registration, queue, identity, locals, history
<1>. HIDE DEF s
<1>seq. holdSeq'.mode = "idle" /\ holdSeq'.idx = curHoldIdx + 1
  BY <1>1 DEF IndInv, TypeInv, HoldSeqs, IsActiveSeq, ActiveSeq, IdleSeq
<1>2. /\ s \in Stages /\ s # "none" /\ s \in Holding /\ s \notin Resolving
      /\ pc[c] \in Holding \ {"deliver", "pendingCallback"}
  BY <1>1 DEF Stages, Holding, Beginning, Ending, Reachable, Resolving
<1>3. /\ mu = c /\ mu # None /\ Stage = pc[c] /\ mu' = c /\ Stage' = s
      /\ pc'[c] = s /\ \A d \in Calls \ {c} : pc'[d] = pc[d]
      /\ \A d \in Calls : pc[d] \in Holding => d = c
      /\ pc' \in [Calls -> Stages] /\ gid[c] \in Calls /\ None \notin Calls /\ None \in Indices
      /\ resolveMu = None => \A d \in Calls : pc[d] \notin Resolving
      /\ MutexInv' /\ GoroutineInv' /\ \A d \in Calls : WaitInv(d)'
  BY <1>1, <1>2, HolderMoves DEF mutexes, identity
<1>4. TypeInv'
  <2>1. holdSeq' \in HoldSeqs /\ curHoldIdx' \in Nat
    BY <1>1 DEF IndInv, TypeInv, HoldSeqs, IsActiveSeq, NextHoldIdx, ActiveSeq, IdleSeq, hold
  <2>. QED  BY <1>1, <1>3, <2>1 DEF IndInv, TypeInv, mutexes, hold, registration, queue, identity, locals, history
<1>5. EventInv'
  BY <1>1, <1>2, EventStep DEF locals, queue, identity, history, After, Before, Holding,
     Beginning, Ending, Reachable, Contending, Resolving, Stages
<1>6. HoldInv'
  BY <1>1, <1>3 DEF IndInv, TypeInv, HoldSeqs, HoldInv, IsActiveSeq, NextHoldIdx, ActiveSeq, IdleSeq,
     Beginning, Ending, Reachable, hold, registration, identity
<1>7. ASSUME NEW d \in Calls
      PROVE  ContendInv(d)'
  <2>1. pc'[d] \in {"matchCheck", "enqueue"} => MatchInv(d)'
    <3>1. /\ TypeInv /\ HoldInv
          /\ pc[d] \in {"matchCheck", "enqueue"} => MatchInv(d)
      BY MatchHolds
    <3>. QED  BY <1>1, <1>3, <3>1 DEF TypeInv, HoldSeqs, HoldInv, MatchInv, FastPhase,
         IsActiveSeq, NextHoldIdx, ActiveSeq, IdleSeq, Beginning, Ending, Reachable, hold, registration, locals
  <2>2. pc'[d] = "enqueue" /\ holdSeq' = matched'[d] =>
          holderGID' # None /\ holderGID' = holder'[d]
    BY <1>1, <1>seq, <1>3 DEF IndInv, ContendInv, HoldInv, MatchInv, FastPhase,
       IsActiveSeq, NextHoldIdx, Beginning, Ending, Reachable, hold, registration, locals
  <2>. QED  BY <1>1, <1>3, <2>1, <2>2 DEF IndInv, TypeInv, HoldSeqs, ContendInv, HoldInv,
         IsActiveSeq, NextHoldIdx, ActiveSeq, IdleSeq, Beginning, Ending, Reachable, Resolving,
         hold, registration, identity, locals
<1>. QED  BY <1>3, <1>4, <1>5, <1>6, <1>7 DEF IndInv

\* Its second look.
LEMMA FastRecheckInductive ==
    ASSUME IndInv, NEW c \in Calls, FastRecheck(c)
    PROVE  IndInv'
<1>. DEFINE s == IF Uncontended THEN "fastUnlock" ELSE "prepare"
<1>1. /\ pc[c] = "fastRecheck" /\ Goto(c, s) /\ s \in {"fastUnlock", "prepare"}
      /\ s = "fastUnlock" => ~contended
      /\ UNCHANGED <<mutexes, hold, registration, queue, identity, locals, history>>
  BY DEF FastRecheck, Uncontended, PublishHold, RegisterHolder, ActivateHolder, ResetHolder, mutexes, hold, registration, queue, identity, locals, history
<1>. HIDE DEF s
<1>2. /\ s \in Stages /\ s # "none" /\ s \in Holding /\ s \notin Resolving
      /\ pc[c] \in Holding \ {"deliver", "pendingCallback"}
  BY <1>1 DEF Stages, Holding, Beginning, Ending, Reachable, Resolving
<1>3. /\ mu = c /\ mu # None /\ Stage = pc[c] /\ mu' = c /\ Stage' = s
      /\ pc'[c] = s /\ \A d \in Calls \ {c} : pc'[d] = pc[d]
      /\ \A d \in Calls : pc[d] \in Holding => d = c
      /\ pc' \in [Calls -> Stages] /\ gid[c] \in Calls /\ None \notin Calls /\ None \in Indices
      /\ resolveMu = None => \A d \in Calls : pc[d] \notin Resolving
      /\ MutexInv' /\ GoroutineInv' /\ \A d \in Calls : WaitInv(d)'
  BY <1>1, <1>2, HolderMoves DEF mutexes, identity
<1>4. TypeInv'
  BY <1>1, <1>3 DEF IndInv, TypeInv, mutexes, hold, registration, queue, identity, locals, history
<1>5. EventInv'
  BY <1>1, <1>2, EventStep DEF locals, queue, identity, history, After, Before, Holding,
     Beginning, Ending, Reachable, Contending, Resolving, Stages
<1>6. HoldInv'
  BY <1>1, <1>3 DEF IndInv, TypeInv, HoldSeqs, HoldInv, IsActiveSeq, NextHoldIdx, ActiveSeq, IdleSeq,
     Beginning, Ending, Reachable, hold, registration, identity
<1>7. ASSUME NEW d \in Calls
      PROVE  ContendInv(d)'
  <2>1. pc'[d] \in {"matchCheck", "enqueue"} => MatchInv(d)'
    <3>1. /\ TypeInv /\ HoldInv
          /\ pc[d] \in {"matchCheck", "enqueue"} => MatchInv(d)
      BY MatchHolds
    <3>. QED  BY <1>1, <1>3, <3>1 DEF TypeInv, HoldSeqs, HoldInv, MatchInv, FastPhase,
         IsActiveSeq, NextHoldIdx, ActiveSeq, IdleSeq, Beginning, Ending, Reachable, hold, registration, locals
  <2>2. pc'[d] = "enqueue" /\ holdSeq' = matched'[d] =>
          holderGID' # None /\ holderGID' = holder'[d]
    BY <1>1, <1>3 DEF IndInv, ContendInv, HoldInv, MatchInv, FastPhase,
       IsActiveSeq, NextHoldIdx, Beginning, Ending, Reachable, hold, registration, locals
  <2>. QED  BY <1>1, <1>3, <2>1, <2>2 DEF IndInv, TypeInv, HoldSeqs, ContendInv, HoldInv,
         IsActiveSeq, NextHoldIdx, ActiveSeq, IdleSeq, Beginning, Ending, Reachable, Resolving,
         hold, registration, identity, locals
<1>. QED  BY <1>3, <1>4, <1>5, <1>6, <1>7 DEF IndInv

\* The fast hold is over.
LEMMA FastUnlockInductive ==
    ASSUME IndInv, NEW c \in Calls, FastUnlock(c)
    PROVE  IndInv'
<1>. DEFINE s == "postFast"
<1>1. /\ pc[c] = "fastUnlock" /\ Goto(c, s) /\ s = "postFast"
      /\ mu' = None
      /\ UNCHANGED <<resolveMu, hold, registration, queue, identity, locals, history>>
  BY DEF FastUnlock, Uncontended, PublishHold, RegisterHolder, ActivateHolder, ResetHolder, mutexes, hold, registration, queue, identity, locals, history
<1>. HIDE DEF s
<1>2. /\ s \in Stages /\ s # "none" /\ s \notin Holding /\ s \notin Resolving
      /\ pc[c] \in Holding \ {"deliver", "pendingCallback"}
  BY <1>1 DEF Stages, Holding, Beginning, Ending, Reachable, Resolving
<1>3. /\ mu = c /\ mu # None /\ Stage = pc[c] /\ Stage' = "free"
      /\ pc'[c] = s /\ \A d \in Calls \ {c} : pc'[d] = pc[d]
      /\ \A d \in Calls : pc[d] \in Holding => d = c
      /\ pc' \in [Calls -> Stages] /\ gid[c] \in Calls /\ None \notin Calls /\ None \in Indices
      /\ resolveMu = None => \A d \in Calls : pc[d] \notin Resolving
      /\ MutexInv' /\ GoroutineInv' /\ \A d \in Calls : WaitInv(d)'
  BY <1>1, <1>2, HolderMoves DEF mutexes, identity
<1>4. TypeInv'
  BY <1>1, <1>3 DEF IndInv, TypeInv, mutexes, hold, registration, queue, identity, locals, history
<1>5. EventInv'
  BY <1>1, <1>2, EventStep DEF locals, queue, identity, history, After, Before, Holding,
     Beginning, Ending, Reachable, Contending, Resolving, Stages
<1>6. HoldInv'
  BY <1>1, <1>3 DEF IndInv, TypeInv, HoldSeqs, HoldInv, IsActiveSeq, NextHoldIdx, ActiveSeq, IdleSeq,
     Beginning, Ending, Reachable, hold, registration, identity
<1>7. ASSUME NEW d \in Calls
      PROVE  ContendInv(d)'
  <2>1. pc'[d] \in {"matchCheck", "enqueue"} => MatchInv(d)'
    <3>1. /\ TypeInv /\ HoldInv
          /\ pc[d] \in {"matchCheck", "enqueue"} => MatchInv(d)
      BY MatchHolds
    <3>. QED  BY <1>1, <1>3, <3>1 DEF TypeInv, HoldSeqs, HoldInv, MatchInv, FastPhase,
         IsActiveSeq, NextHoldIdx, ActiveSeq, IdleSeq, Beginning, Ending, Reachable, hold, registration, locals
  <2>2. pc'[d] = "enqueue" /\ holdSeq' = matched'[d] =>
          holderGID' # None /\ holderGID' = holder'[d]
    BY <1>1, <1>3 DEF IndInv, ContendInv, HoldInv, MatchInv, FastPhase,
       IsActiveSeq, NextHoldIdx, Beginning, Ending, Reachable, hold, registration, locals
  <2>. QED  BY <1>1, <1>3, <2>1, <2>2 DEF IndInv, TypeInv, HoldSeqs, ContendInv, HoldInv,
         IsActiveSeq, NextHoldIdx, ActiveSeq, IdleSeq, Beginning, Ending, Reachable, Resolving,
         hold, registration, identity, locals
<1>. QED  BY <1>3, <1>4, <1>5, <1>6, <1>7 DEF IndInv

\* The slow hold is over.
LEMMA UnlockInductive ==
    ASSUME IndInv, NEW c \in Calls, Unlock(c)
    PROVE  IndInv'
<1>. DEFINE s == "postSlow"
<1>1. /\ pc[c] = "unlock" /\ Goto(c, s) /\ s = "postSlow"
      /\ mu' = None
      /\ UNCHANGED <<resolveMu, hold, registration, queue, identity, locals, history>>
  BY DEF Unlock, Uncontended, PublishHold, RegisterHolder, ActivateHolder, ResetHolder, mutexes, hold, registration, queue, identity, locals, history
<1>. HIDE DEF s
<1>2. /\ s \in Stages /\ s # "none" /\ s \notin Holding /\ s \notin Resolving
      /\ pc[c] \in Holding \ {"deliver", "pendingCallback"}
  BY <1>1 DEF Stages, Holding, Beginning, Ending, Reachable, Resolving
<1>3. /\ mu = c /\ mu # None /\ Stage = pc[c] /\ Stage' = "free"
      /\ pc'[c] = s /\ \A d \in Calls \ {c} : pc'[d] = pc[d]
      /\ \A d \in Calls : pc[d] \in Holding => d = c
      /\ pc' \in [Calls -> Stages] /\ gid[c] \in Calls /\ None \notin Calls /\ None \in Indices
      /\ resolveMu = None => \A d \in Calls : pc[d] \notin Resolving
      /\ MutexInv' /\ GoroutineInv' /\ \A d \in Calls : WaitInv(d)'
  BY <1>1, <1>2, HolderMoves DEF mutexes, identity
<1>4. TypeInv'
  BY <1>1, <1>3 DEF IndInv, TypeInv, mutexes, hold, registration, queue, identity, locals, history
<1>5. EventInv'
  BY <1>1, <1>2, EventStep DEF locals, queue, identity, history, After, Before, Holding,
     Beginning, Ending, Reachable, Contending, Resolving, Stages
<1>6. HoldInv'
  BY <1>1, <1>3 DEF IndInv, TypeInv, HoldSeqs, HoldInv, IsActiveSeq, NextHoldIdx, ActiveSeq, IdleSeq,
     Beginning, Ending, Reachable, hold, registration, identity
<1>7. ASSUME NEW d \in Calls
      PROVE  ContendInv(d)'
  <2>1. pc'[d] \in {"matchCheck", "enqueue"} => MatchInv(d)'
    <3>1. /\ TypeInv /\ HoldInv
          /\ pc[d] \in {"matchCheck", "enqueue"} => MatchInv(d)
      BY MatchHolds
    <3>. QED  BY <1>1, <1>3, <3>1 DEF TypeInv, HoldSeqs, HoldInv, MatchInv, FastPhase,
         IsActiveSeq, NextHoldIdx, ActiveSeq, IdleSeq, Beginning, Ending, Reachable, hold, registration, locals
  <2>2. pc'[d] = "enqueue" /\ holdSeq' = matched'[d] =>
          holderGID' # None /\ holderGID' = holder'[d]
    BY <1>1, <1>3 DEF IndInv, ContendInv, HoldInv, MatchInv, FastPhase,
       IsActiveSeq, NextHoldIdx, Beginning, Ending, Reachable, hold, registration, locals
  <2>. QED  BY <1>1, <1>3, <2>1, <2>2 DEF IndInv, TypeInv, HoldSeqs, ContendInv, HoldInv,
         IsActiveSeq, NextHoldIdx, ActiveSeq, IdleSeq, Beginning, Ending, Reachable, Resolving,
         hold, registration, identity, locals
<1>. QED  BY <1>3, <1>4, <1>5, <1>6, <1>7 DEF IndInv

\* prepareSlowEvictDrain.
LEMMA PrepareSeqInductive ==
    ASSUME IndInv, NEW c \in Calls, PrepareSeq(c)
    PROVE  IndInv'
<1>. DEFINE s == "prepareActive"
<1>1. /\ pc[c] = "prepare" /\ Goto(c, s) /\ s = "prepareActive"
      /\ holdSeq' = IF IsActiveSeq(holdSeq) THEN holdSeq ELSE ActiveSeq(curHoldIdx, "slow")
      /\ UNCHANGED <<mutexes, curHoldIdx, registration, queue, identity, locals, history>>
  BY DEF PrepareSeq, Uncontended, PublishHold, RegisterHolder, ActivateHolder, ResetHolder, mutexes, hold, registration, queue, identity, locals, history
<1>. HIDE DEF s
<1>seq. /\ IsActiveSeq(holdSeq) => holdSeq' = holdSeq
        /\ ~IsActiveSeq(holdSeq) => holdSeq'.mode = "slow" /\ holdSeq'.idx = curHoldIdx
  BY <1>1 DEF IndInv, TypeInv, HoldSeqs, IsActiveSeq, ActiveSeq, IdleSeq
<1>2. /\ s \in Stages /\ s # "none" /\ s \in Holding /\ s \notin Resolving
      /\ pc[c] \in Holding \ {"deliver", "pendingCallback"}
  BY <1>1 DEF Stages, Holding, Beginning, Ending, Reachable, Resolving
<1>3. /\ mu = c /\ mu # None /\ Stage = pc[c] /\ mu' = c /\ Stage' = s
      /\ pc'[c] = s /\ \A d \in Calls \ {c} : pc'[d] = pc[d]
      /\ \A d \in Calls : pc[d] \in Holding => d = c
      /\ pc' \in [Calls -> Stages] /\ gid[c] \in Calls /\ None \notin Calls /\ None \in Indices
      /\ resolveMu = None => \A d \in Calls : pc[d] \notin Resolving
      /\ MutexInv' /\ GoroutineInv' /\ \A d \in Calls : WaitInv(d)'
  BY <1>1, <1>2, HolderMoves DEF mutexes, identity
<1>4. TypeInv'
  <2>1. holdSeq' \in HoldSeqs /\ curHoldIdx' \in Nat
    BY <1>1 DEF IndInv, TypeInv, HoldSeqs, IsActiveSeq, NextHoldIdx, ActiveSeq, IdleSeq, hold
  <2>. QED  BY <1>1, <1>3, <2>1 DEF IndInv, TypeInv, mutexes, hold, registration, queue, identity, locals, history
<1>5. EventInv'
  BY <1>1, <1>2, EventStep DEF locals, queue, identity, history, After, Before, Holding,
     Beginning, Ending, Reachable, Contending, Resolving, Stages
<1>6. HoldInv'
  BY <1>1, <1>3 DEF IndInv, TypeInv, HoldSeqs, HoldInv, IsActiveSeq, NextHoldIdx, ActiveSeq, IdleSeq,
     Beginning, Ending, Reachable, hold, registration, identity
<1>7. ASSUME NEW d \in Calls
      PROVE  ContendInv(d)'
  <2>1. pc'[d] \in {"matchCheck", "enqueue"} => MatchInv(d)'
    <3>. SUFFICES ASSUME pc'[d] \in {"matchCheck", "enqueue"} PROVE MatchInv(d)'
      OBVIOUS
    <3>1. MatchInv(d) /\ matched'[d] = matched[d] /\ holder'[d] = holder[d]
      BY <1>1, <1>3 DEF IndInv, ContendInv, locals
    <3>2. /\ matched[d].idx \in Nat /\ curHoldIdx \in Nat /\ curHoldIdx' = curHoldIdx
          /\ IsActiveSeq(holdSeq)'
      BY <1>1, <1>seq DEF IndInv, TypeInv, HoldSeqs, IsActiveSeq
    <3>3. CASE IsActiveSeq(holdSeq)
      BY <1>1, <1>3, <1>seq, <3>1, <3>2, <3>3 DEF MatchInv, FastPhase
    <3>4. CASE ~IsActiveSeq(holdSeq)
      <4>1. holdSeq.idx = curHoldIdx + 1
        BY <1>1, <1>3, <3>4 DEF IndInv, HoldInv, IdleSeq
      <4>. QED  BY <1>1, <1>3, <1>seq, <3>1, <3>2, <3>4, <4>1 DEF MatchInv, FastPhase
    <3>. QED  BY <3>3, <3>4
  <2>2. pc'[d] = "enqueue" /\ holdSeq' = matched'[d] =>
          holderGID' # None /\ holderGID' = holder'[d]
    BY <1>1, <1>seq, <1>3 DEF IndInv, ContendInv, HoldInv, MatchInv, FastPhase,
       IsActiveSeq, NextHoldIdx, Beginning, Ending, Reachable, hold, registration, locals
  <2>. QED  BY <1>1, <1>3, <2>1, <2>2 DEF IndInv, TypeInv, HoldSeqs, ContendInv, HoldInv,
         IsActiveSeq, NextHoldIdx, ActiveSeq, IdleSeq, Beginning, Ending, Reachable, Resolving,
         hold, registration, identity, locals
<1>. QED  BY <1>3, <1>4, <1>5, <1>6, <1>7 DEF IndInv

\* It marks the holder active.
LEMMA PrepareActiveInductive ==
    ASSUME IndInv, NEW c \in Calls, PrepareActive(c)
    PROVE  IndInv'
<1>. DEFINE s == "drain"
<1>1. /\ pc[c] = "prepareActive" /\ Goto(c, s) /\ s = "drain"
      /\ resolveMu = None /\ active' = TRUE
      /\ holderGID' = IF holderGID = None THEN gid[c] ELSE holderGID
      /\ contended' = IF holderGID = None THEN TRUE ELSE contended
      /\ UNCHANGED <<mutexes, hold, queue, identity, locals, history>>
  BY DEF PrepareActive, Uncontended, PublishHold, RegisterHolder, ActivateHolder, ResetHolder, mutexes, hold, registration, queue, identity, locals, history
<1>. HIDE DEF s
<1>2. /\ s \in Stages /\ s # "none" /\ s \in Holding /\ s \notin Resolving
      /\ pc[c] \in Holding \ {"deliver", "pendingCallback"}
  BY <1>1 DEF Stages, Holding, Beginning, Ending, Reachable, Resolving
<1>3. /\ mu = c /\ mu # None /\ Stage = pc[c] /\ mu' = c /\ Stage' = s
      /\ pc'[c] = s /\ \A d \in Calls \ {c} : pc'[d] = pc[d]
      /\ \A d \in Calls : pc[d] \in Holding => d = c
      /\ pc' \in [Calls -> Stages] /\ gid[c] \in Calls /\ None \notin Calls /\ None \in Indices
      /\ resolveMu = None => \A d \in Calls : pc[d] \notin Resolving
      /\ MutexInv' /\ GoroutineInv' /\ \A d \in Calls : WaitInv(d)'
  BY <1>1, <1>2, HolderMoves DEF mutexes, identity
<1>4. TypeInv'
  BY <1>1, <1>3 DEF IndInv, TypeInv, mutexes, hold, registration, queue, identity, locals, history
<1>5. EventInv'
  BY <1>1, <1>2, EventStep DEF locals, queue, identity, history, After, Before, Holding,
     Beginning, Ending, Reachable, Contending, Resolving, Stages
<1>6. HoldInv'
  BY <1>1, <1>3 DEF IndInv, TypeInv, HoldSeqs, HoldInv, IsActiveSeq, NextHoldIdx, ActiveSeq, IdleSeq,
     Beginning, Ending, Reachable, hold, registration, identity
<1>7. ASSUME NEW d \in Calls
      PROVE  ContendInv(d)'
  <2>1. pc'[d] \in {"matchCheck", "enqueue"} => MatchInv(d)'
    <3>1. /\ TypeInv /\ HoldInv
          /\ pc[d] \in {"matchCheck", "enqueue"} => MatchInv(d)
      BY MatchHolds
    <3>. QED  BY <1>1, <1>3, <3>1 DEF TypeInv, HoldSeqs, HoldInv, MatchInv, FastPhase,
         IsActiveSeq, NextHoldIdx, ActiveSeq, IdleSeq, Beginning, Ending, Reachable, hold, registration, locals
  <2>2. pc'[d] = "enqueue" /\ holdSeq' = matched'[d] =>
          holderGID' # None /\ holderGID' = holder'[d]
    BY <1>1, <1>3 DEF IndInv, ContendInv, HoldInv, MatchInv, FastPhase,
       IsActiveSeq, NextHoldIdx, Beginning, Ending, Reachable, hold, registration, locals
  <2>. QED  BY <1>1, <1>3, <2>1, <2>2 DEF IndInv, TypeInv, HoldSeqs, ContendInv, HoldInv,
         IsActiveSeq, NextHoldIdx, ActiveSeq, IdleSeq, Beginning, Ending, Reachable, Resolving,
         hold, registration, identity, locals
<1>. QED  BY <1>3, <1>4, <1>5, <1>6, <1>7 DEF IndInv

\* drainAndFinalizeEvictCallbackSlow.
LEMMA DrainInductive ==
    ASSUME IndInv, NEW c \in Calls, Drain(c)
    PROVE  IndInv'
<1>. DEFINE s == IF enqueues # 0 THEN "ensureReady" ELSE "finalize"
<1>1. /\ pc[c] = "drain" /\ Goto(c, s) /\ s \in {"ensureReady", "finalize"}
      /\ UNCHANGED <<mutexes, hold, registration, queue, identity, locals, history>>
  BY DEF Drain, Uncontended, PublishHold, RegisterHolder, ActivateHolder, ResetHolder, mutexes, hold, registration, queue, identity, locals, history
<1>. HIDE DEF s
<1>2. /\ s \in Stages /\ s # "none" /\ s \in Holding /\ s \notin Resolving
      /\ pc[c] \in Holding \ {"deliver", "pendingCallback"}
  BY <1>1 DEF Stages, Holding, Beginning, Ending, Reachable, Resolving
<1>3. /\ mu = c /\ mu # None /\ Stage = pc[c] /\ mu' = c /\ Stage' = s
      /\ pc'[c] = s /\ \A d \in Calls \ {c} : pc'[d] = pc[d]
      /\ \A d \in Calls : pc[d] \in Holding => d = c
      /\ pc' \in [Calls -> Stages] /\ gid[c] \in Calls /\ None \notin Calls /\ None \in Indices
      /\ resolveMu = None => \A d \in Calls : pc[d] \notin Resolving
      /\ MutexInv' /\ GoroutineInv' /\ \A d \in Calls : WaitInv(d)'
  BY <1>1, <1>2, HolderMoves DEF mutexes, identity
<1>4. TypeInv'
  BY <1>1, <1>3 DEF IndInv, TypeInv, mutexes, hold, registration, queue, identity, locals, history
<1>5. EventInv'
  BY <1>1, <1>2, EventStep DEF locals, queue, identity, history, After, Before, Holding,
     Beginning, Ending, Reachable, Contending, Resolving, Stages
<1>6. HoldInv'
  BY <1>1, <1>3 DEF IndInv, TypeInv, HoldSeqs, HoldInv, IsActiveSeq, NextHoldIdx, ActiveSeq, IdleSeq,
     Beginning, Ending, Reachable, hold, registration, identity
<1>7. ASSUME NEW d \in Calls
      PROVE  ContendInv(d)'
  <2>1. pc'[d] \in {"matchCheck", "enqueue"} => MatchInv(d)'
    <3>1. /\ TypeInv /\ HoldInv
          /\ pc[d] \in {"matchCheck", "enqueue"} => MatchInv(d)
      BY MatchHolds
    <3>. QED  BY <1>1, <1>3, <3>1 DEF TypeInv, HoldSeqs, HoldInv, MatchInv, FastPhase,
         IsActiveSeq, NextHoldIdx, ActiveSeq, IdleSeq, Beginning, Ending, Reachable, hold, registration, locals
  <2>2. pc'[d] = "enqueue" /\ holdSeq' = matched'[d] =>
          holderGID' # None /\ holderGID' = holder'[d]
    BY <1>1, <1>3 DEF IndInv, ContendInv, HoldInv, MatchInv, FastPhase,
       IsActiveSeq, NextHoldIdx, Beginning, Ending, Reachable, hold, registration, locals
  <2>. QED  BY <1>1, <1>3, <2>1, <2>2 DEF IndInv, TypeInv, HoldSeqs, ContendInv, HoldInv,
         IsActiveSeq, NextHoldIdx, ActiveSeq, IdleSeq, Beginning, Ending, Reachable, Resolving,
         hold, registration, identity, locals
<1>. QED  BY <1>3, <1>4, <1>5, <1>6, <1>7 DEF IndInv

\* ensureSlowEvictDrainReady.
LEMMA EnsureReadyInductive ==
    ASSUME IndInv, NEW c \in Calls, EnsureReady(c)
    PROVE  IndInv'
<1>. DEFINE s == "take"
<1>1. /\ pc[c] = "ensureReady" /\ Goto(c, s) /\ s = "take"
      /\ active' = TRUE
      /\ resolveMu = None \/ UNCHANGED registration
      /\ holderGID' = IF holderGID = None THEN gid[c] ELSE holderGID
      /\ contended' = IF holderGID = None THEN TRUE ELSE contended
      /\ UNCHANGED <<mutexes, hold, queue, identity, locals, history>>
  BY DEF EnsureReady, Uncontended, PublishHold, RegisterHolder, ActivateHolder, ResetHolder, mutexes, hold, registration, queue, identity, locals, history
<1>. HIDE DEF s
<1>2. /\ s \in Stages /\ s # "none" /\ s \in Holding /\ s \notin Resolving
      /\ pc[c] \in Holding \ {"deliver", "pendingCallback"}
  BY <1>1 DEF Stages, Holding, Beginning, Ending, Reachable, Resolving
<1>3. /\ mu = c /\ mu # None /\ Stage = pc[c] /\ mu' = c /\ Stage' = s
      /\ pc'[c] = s /\ \A d \in Calls \ {c} : pc'[d] = pc[d]
      /\ \A d \in Calls : pc[d] \in Holding => d = c
      /\ pc' \in [Calls -> Stages] /\ gid[c] \in Calls /\ None \notin Calls /\ None \in Indices
      /\ resolveMu = None => \A d \in Calls : pc[d] \notin Resolving
      /\ MutexInv' /\ GoroutineInv' /\ \A d \in Calls : WaitInv(d)'
  BY <1>1, <1>2, HolderMoves DEF mutexes, identity
<1>4. TypeInv'
  BY <1>1, <1>3 DEF IndInv, TypeInv, mutexes, hold, registration, queue, identity, locals, history
<1>5. EventInv'
  BY <1>1, <1>2, EventStep DEF locals, queue, identity, history, After, Before, Holding,
     Beginning, Ending, Reachable, Contending, Resolving, Stages
<1>6. HoldInv'
  BY <1>1, <1>3 DEF IndInv, TypeInv, HoldSeqs, HoldInv, IsActiveSeq, NextHoldIdx, ActiveSeq, IdleSeq,
     Beginning, Ending, Reachable, hold, registration, identity
<1>7. ASSUME NEW d \in Calls
      PROVE  ContendInv(d)'
  <2>1. pc'[d] \in {"matchCheck", "enqueue"} => MatchInv(d)'
    <3>1. /\ TypeInv /\ HoldInv
          /\ pc[d] \in {"matchCheck", "enqueue"} => MatchInv(d)
      BY MatchHolds
    <3>. QED  BY <1>1, <1>3, <3>1 DEF TypeInv, HoldSeqs, HoldInv, MatchInv, FastPhase,
         IsActiveSeq, NextHoldIdx, ActiveSeq, IdleSeq, Beginning, Ending, Reachable, hold, registration, locals
  <2>2. pc'[d] = "enqueue" /\ holdSeq' = matched'[d] =>
          holderGID' # None /\ holderGID' = holder'[d]
    BY <1>1, <1>3 DEF IndInv, ContendInv, HoldInv, MatchInv, FastPhase,
       IsActiveSeq, NextHoldIdx, Beginning, Ending, Reachable, hold, registration, locals
  <2>. QED  BY <1>1, <1>3, <2>1, <2>2 DEF IndInv, TypeInv, HoldSeqs, ContendInv, HoldInv,
         IsActiveSeq, NextHoldIdx, ActiveSeq, IdleSeq, Beginning, Ending, Reachable, Resolving,
         hold, registration, identity, locals
<1>. QED  BY <1>3, <1>4, <1>5, <1>6, <1>7 DEF IndInv

\* The slow hold ends under resolveMu.
LEMMA FinalizeInductive ==
    ASSUME IndInv, NEW c \in Calls, Finalize(c)
    PROVE  IndInv'
<1>. DEFINE s == IF enqueues = 0 /\ pending = <<>> THEN "unlock" ELSE "drain"
<1>1. /\ pc[c] = "finalize" /\ Goto(c, s) /\ s \in {"unlock", "drain"}
      /\ resolveMu = None
      /\ s = "drain" => UNCHANGED <<holdSeq, registration>>
      /\ s = "unlock" => holdSeq' = IF IsActiveSeq(holdSeq) THEN IdleSeq(holdSeq.idx) ELSE holdSeq
      /\ s = "unlock" => active' = FALSE /\ holderGID' = None /\ contended' = FALSE
      /\ UNCHANGED <<mutexes, curHoldIdx, queue, identity, locals, history>>
  <2>1. CASE enqueues = 0 /\ pending = <<>>
    BY <2>1, SMT DEF Finalize, ResetHolder
  <2>2. CASE ~(enqueues = 0 /\ pending = <<>>)
    BY <2>2, SMT DEF Finalize, registration
  <2>. QED  BY <2>1, <2>2
<1>. HIDE DEF s
<1>seq. /\ s = "unlock" => holdSeq'.mode = "idle"
        /\ s = "unlock" /\ IsActiveSeq(holdSeq) => holdSeq'.idx = holdSeq.idx + 1
  BY <1>1 DEF IndInv, TypeInv, HoldSeqs, IsActiveSeq, ActiveSeq, IdleSeq
<1>2. /\ s \in Stages /\ s # "none" /\ s \in Holding /\ s \notin Resolving
      /\ pc[c] \in Holding \ {"deliver", "pendingCallback"}
  BY <1>1 DEF Stages, Holding, Beginning, Ending, Reachable, Resolving
<1>3. /\ mu = c /\ mu # None /\ Stage = pc[c] /\ mu' = c /\ Stage' = s
      /\ pc'[c] = s /\ \A d \in Calls \ {c} : pc'[d] = pc[d]
      /\ \A d \in Calls : pc[d] \in Holding => d = c
      /\ pc' \in [Calls -> Stages] /\ gid[c] \in Calls /\ None \notin Calls /\ None \in Indices
      /\ resolveMu = None => \A d \in Calls : pc[d] \notin Resolving
      /\ MutexInv' /\ GoroutineInv' /\ \A d \in Calls : WaitInv(d)'
  BY <1>1, <1>2, HolderMoves DEF mutexes, identity
<1>4. TypeInv'
  <2>1. holdSeq' \in HoldSeqs /\ curHoldIdx' \in Nat
    BY <1>1 DEF IndInv, TypeInv, HoldSeqs, IsActiveSeq, NextHoldIdx, ActiveSeq, IdleSeq, hold
  <2>. QED  BY <1>1, <1>3, <2>1 DEF IndInv, TypeInv, mutexes, hold, registration, queue, identity, locals, history
<1>5. EventInv'
  BY <1>1, <1>2, EventStep DEF locals, queue, identity, history, After, Before, Holding,
     Beginning, Ending, Reachable, Contending, Resolving, Stages
<1>6. HoldInv'
  <2>1. CASE s = "unlock"
    BY <1>1, <1>3, <2>1 DEF IndInv, TypeInv, HoldSeqs, HoldInv, IsActiveSeq, NextHoldIdx, ActiveSeq, IdleSeq,
       Beginning, Ending, Reachable, hold, registration, identity
  <2>2. CASE s = "drain"
    BY <1>1, <1>3, <2>2 DEF IndInv, TypeInv, HoldSeqs, HoldInv, IsActiveSeq, NextHoldIdx, ActiveSeq, IdleSeq,
       Beginning, Ending, Reachable, hold, registration, identity
  <2>. QED  BY <1>1, <2>1, <2>2
<1>7. ASSUME NEW d \in Calls
      PROVE  ContendInv(d)'
  <2>1. pc'[d] \in {"matchCheck", "enqueue"} => MatchInv(d)'
    <3>1. /\ TypeInv /\ HoldInv
          /\ pc[d] \in {"matchCheck", "enqueue"} => MatchInv(d)
      BY MatchHolds
    <3>. QED  BY <1>1, <1>3, <3>1 DEF TypeInv, HoldSeqs, HoldInv, MatchInv, FastPhase,
         IsActiveSeq, NextHoldIdx, ActiveSeq, IdleSeq, Beginning, Ending, Reachable, hold, registration, locals
  <2>2. pc'[d] = "enqueue" /\ holdSeq' = matched'[d] =>
          holderGID' # None /\ holderGID' = holder'[d]
    BY <1>1, <1>seq, <1>3 DEF IndInv, ContendInv, HoldInv, MatchInv, FastPhase,
       IsActiveSeq, NextHoldIdx, Beginning, Ending, Reachable, hold, registration, locals
  <2>. QED  BY <1>1, <1>3, <2>1, <2>2 DEF IndInv, TypeInv, HoldSeqs, ContendInv, HoldInv,
         IsActiveSeq, NextHoldIdx, ActiveSeq, IdleSeq, Beginning, Ending, Reachable, Resolving,
         hold, registration, identity, locals
<1>. QED  BY <1>3, <1>4, <1>5, <1>6, <1>7 DEF IndInv

\* A hold begins in its slow form.
LEMMA BeginSlowInductive ==
    ASSUME IndInv, NEW c \in Calls, BeginSlow(c)
    PROVE  IndInv'
<1>. DEFINE s == IF pc[c] \in {"begin", "beginWaited"} THEN "register"
             ELSE IF pc[c] = "beginDrain" THEN "drain" ELSE "prepare"
<1>1. /\ pc[c] \in {"begin", "beginWaited", "beginDrain", "beginPrepare"} /\ Goto(c, s) /\ s \in {"register", "drain", "prepare"}
      /\ pc[c] \in {"begin", "beginWaited"} <=> s = "register"
      /\ holdSeq' = ActiveSeq(NextHoldIdx(holdSeq), "slow")
      /\ curHoldIdx' = NextHoldIdx(holdSeq)
      /\ UNCHANGED <<mutexes, registration, queue, identity, locals, history>>
  BY DEF BeginSlow, Uncontended, PublishHold, RegisterHolder, ActivateHolder, ResetHolder, mutexes, hold, registration, queue, identity, locals, history
<1>. HIDE DEF s
<1>seq. holdSeq'.mode = "slow" /\ holdSeq'.idx = NextHoldIdx(holdSeq)
  BY <1>1 DEF IndInv, TypeInv, HoldSeqs, IsActiveSeq, ActiveSeq, IdleSeq
<1>2. /\ s \in Stages /\ s # "none" /\ s \in Holding /\ s \notin Resolving
      /\ pc[c] \in Holding \ {"deliver", "pendingCallback"}
  BY <1>1 DEF Stages, Holding, Beginning, Ending, Reachable, Resolving
<1>3. /\ mu = c /\ mu # None /\ Stage = pc[c] /\ mu' = c /\ Stage' = s
      /\ pc'[c] = s /\ \A d \in Calls \ {c} : pc'[d] = pc[d]
      /\ \A d \in Calls : pc[d] \in Holding => d = c
      /\ pc' \in [Calls -> Stages] /\ gid[c] \in Calls /\ None \notin Calls /\ None \in Indices
      /\ resolveMu = None => \A d \in Calls : pc[d] \notin Resolving
      /\ MutexInv' /\ GoroutineInv' /\ \A d \in Calls : WaitInv(d)'
  BY <1>1, <1>2, HolderMoves DEF mutexes, identity
<1>4. TypeInv'
  <2>1. holdSeq' \in HoldSeqs /\ curHoldIdx' \in Nat
    BY <1>1 DEF IndInv, TypeInv, HoldSeqs, IsActiveSeq, NextHoldIdx, ActiveSeq, IdleSeq, hold
  <2>. QED  BY <1>1, <1>3, <2>1 DEF IndInv, TypeInv, mutexes, hold, registration, queue, identity, locals, history
<1>5. EventInv'
  BY <1>1, <1>2, EventStep DEF locals, queue, identity, history, After, Before, Holding,
     Beginning, Ending, Reachable, Contending, Resolving, Stages
<1>6. HoldInv'
  BY <1>1, <1>3 DEF IndInv, TypeInv, HoldSeqs, HoldInv, IsActiveSeq, NextHoldIdx, ActiveSeq, IdleSeq,
     Beginning, Ending, Reachable, hold, registration, identity
<1>7. ASSUME NEW d \in Calls
      PROVE  ContendInv(d)'
  <2>1. pc'[d] \in {"matchCheck", "enqueue"} => MatchInv(d)'
    <3>1. /\ TypeInv /\ HoldInv
          /\ pc[d] \in {"matchCheck", "enqueue"} => MatchInv(d)
      BY MatchHolds
    <3>. QED  BY <1>1, <1>3, <3>1 DEF TypeInv, HoldSeqs, HoldInv, MatchInv, FastPhase,
         IsActiveSeq, NextHoldIdx, ActiveSeq, IdleSeq, Beginning, Ending, Reachable, hold, registration, locals
  <2>2. ~(pc'[d] = "enqueue" /\ holdSeq' = matched'[d])
    <3>. SUFFICES ASSUME pc'[d] = "enqueue", holdSeq' = matched'[d] PROVE FALSE
      OBVIOUS
    <3>1. ~IsActiveSeq(holdSeq) /\ holdSeq \in HoldSeqs
      BY <1>1, <1>3 DEF IndInv, TypeInv, HoldInv, Beginning
    <3>2. holdSeq'.idx = holdSeq.idx /\ holdSeq.idx \in Nat
      BY <1>seq, <3>1 DEF NextHoldIdx, HoldSeqs
    <3>3. pc[d] = "enqueue" /\ matched[d] = holdSeq'
      BY <1>1, <1>3 DEF locals
    <3>4. matched[d].idx < holdSeq.idx
      BY <3>1, <3>3 DEF IndInv, ContendInv, MatchInv
    <3>. QED  BY <3>2, <3>3, <3>4
  <2>. QED  BY <1>1, <1>3, <2>1, <2>2 DEF IndInv, TypeInv, HoldSeqs, ContendInv, HoldInv,
         IsActiveSeq, NextHoldIdx, ActiveSeq, IdleSeq, Beginning, Ending, Reachable, Resolving,
         hold, registration, identity, locals
<1>. QED  BY <1>3, <1>4, <1>5, <1>6, <1>7 DEF IndInv

-----------------------------------------------------------------------------
(* Proofs of the steps that move events                                    *)

\* What EventInv says of one call.
CallEvents(c) ==
    /\ pc[c] \in Before => delivered[c] = 0 /\ dropped[c] = 0 /\ ~Waiting(c)
    /\ (pc[c] \in After) \/ (pc[c] = "done" /\ kind[c] = "root") =>
          delivered[c] = 1 /\ dropped[c] = 0 /\ ~Waiting(c)
    /\ pc[c] = "done" =>
          /\ delivered[c] + dropped[c] <= 1
          /\ delivered[c] + dropped[c] = 0 <=> Waiting(c)
    /\ dropped[c] = 1 => panics > 0
    /\ pc[c] = "panicked" => panics > 0
    /\ batch[c] # <<>> => pc[c] \in {"pendingCallback", "panicked"}
    /\ pc[c] = "pendingCallback" => batch[c] # <<>>

\* No event waits at two places.
Distinct ==
    /\ \A i, j \in DOMAIN pending : pending[i] = pending[j] => i = j
    /\ \A c \in Calls : \A i, j \in Rest(c) : batch[c][i] = batch[c][j] => i = j
    /\ \A c \in Calls : \A i \in Rest(c), j \in DOMAIN pending : batch[c][i] # pending[j]

\* EventInv by its parts: events are distinct, and those of each call accounted for.
LEMMA EventParts ==
    /\ EventInv <=> Distinct /\ \A c \in Calls : CallEvents(c)
    /\ EventInv' <=> Distinct' /\ \A c \in Calls : CallEvents(c)'
  BY DEF EventInv, Distinct, CallEvents

\* The holder is the only call that has a batch.
LEMMA OneBatch ==
    ASSUME IndInv, NEW c \in Calls, pc[c] \in Holding
    PROVE  \A d \in Calls \ {c} : batch[d] = <<>>
<1>1. \A d \in Calls : pc[d] \in Holding => d = c
  BY HolderStep
<1>. QED  BY <1>1 DEF IndInv, EventInv, Holding, Reachable

\* Where events wait, when there is one batch.
LEMMA WaitingPlaces ==
    ASSUME NEW c \in Calls, \A d \in Calls \ {c} : batch[d] = <<>>,
           batch[c] \in Seq(Calls)
    PROVE  \A e : Waiting(e) <=> \/ \E i \in DOMAIN pending : pending[i] = e
                                 \/ \E i \in Rest(c) : batch[c][i] = e
<1>1. \A d \in Calls \ {c} : 2..Len(batch[d]) = {}
  OBVIOUS
<1>2. Rest(c) = 2..Len(batch[c])
  BY DEF Rest
<1>. QED  BY <1>1, <1>2 DEF Waiting

\* A waiting event belongs to a call that returned and is not counted yet.
LEMMA WaitingIsDone ==
    ASSUME IndInv, NEW e \in Calls, Waiting(e)
    PROVE  pc[e] = "done" /\ kind[e] # "root" /\ delivered[e] = 0 /\ dropped[e] = 0
<1>1. CallEvents(e) /\ pc[e] \in Stages /\ delivered[e] \in Nat /\ dropped[e] \in Nat
  BY EventParts DEF IndInv, TypeInv
<1>2. pc[e] \notin Before /\ pc[e] \notin After
  BY <1>1 DEF CallEvents
<1>3. pc[e] = "done"
  BY <1>1, <1>2 DEF After
<1>. QED  BY <1>1, <1>3 DEF CallEvents

\* A call has its own callbacks run.
LEMMA DeliverOwn ==
    ASSUME IndInv, NEW c \in Calls, pc[c] \in {"begin", "register"}, Goto(c, "deliver"),
           delivered' = [delivered EXCEPT ![c] = @ + 1],
           UNCHANGED <<pending, batch, kind, dropped, panics>>
    PROVE  EventInv'
<1>1. /\ pc \in [Calls -> Stages] /\ pc' = [pc EXCEPT ![c] = "deliver"]
      /\ delivered \in [Calls -> Nat] /\ dropped \in [Calls -> Nat]
      /\ Distinct /\ \A d \in Calls : CallEvents(d)
  BY EventParts DEF IndInv, TypeInv, Goto
<1>2. \A d : Waiting(d)' <=> Waiting(d)
  BY DEF Waiting
<1>3. ASSUME NEW d \in Calls
      PROVE  CallEvents(d)'
  <2>1. CASE d = c
    <3>1. CallEvents(c) /\ pc[c] \in Before
      BY <1>1 DEF Before
    <3>2. delivered[c] = 0 /\ dropped[c] = 0 /\ ~Waiting(c) /\ batch[c] = <<>>
      BY <3>1 DEF CallEvents
    <3>3. pc'[c] = "deliver" /\ delivered'[c] = 1 /\ dropped'[c] = 0
      BY <1>1, <3>2
    <3>. QED  BY <1>2, <2>1, <3>2, <3>3 DEF CallEvents, Before, Contending, Resolving
  <2>2. CASE d # c
    <3>1. pc'[d] = pc[d] /\ delivered'[d] = delivered[d] /\ CallEvents(d)
      BY <1>1, <2>2
    <3>. QED  BY <1>2, <3>1 DEF CallEvents
  <2>. QED  BY <2>1, <2>2
<1>4. Distinct'
  BY <1>1 DEF Distinct, Rest
<1>. QED  BY <1>3, <1>4, EventParts

\* Where the loop of drainPendingEvictCallbacks goes with the next event h.
BatchStage(h) ==
    IF h # None THEN "pendingCallback"
    ELSE IF enqueues' # 0 THEN "take" ELSE "finalize"

\* The holder c runs the callbacks of the event h that waited, if there is one.
BatchStep(c, h) ==
    /\ pc[c] \in {"take", "pendingCallback"}
    /\ h # None => h \in Calls /\ Waiting(h)
    /\ Goto(c, BatchStage(h))
    /\ delivered' = IF h # None THEN [delivered EXCEPT ![h] = @ + 1] ELSE delivered
    /\ \A e \in Calls : Waiting(e)' <=> Waiting(e) /\ e # h
    /\ \A d \in Calls \ {c} : batch'[d] = batch[d]
    /\ batch'[c] = <<>> <=> h = None
    /\ Distinct'
    /\ UNCHANGED <<kind, dropped, panics>>

\* deliverCallbacks: the next event of the batch.
LEMMA DeliverNext ==
    ASSUME IndInv, NEW c \in Calls, NEW h, BatchStep(c, h)
    PROVE  EventInv'
<1>. DEFINE s == BatchStage(h)
<1>0. /\ pc[c] \in {"take", "pendingCallback"}
      /\ h # None => h \in Calls /\ Waiting(h)
      /\ Goto(c, s)
      /\ delivered' = IF h # None THEN [delivered EXCEPT ![h] = @ + 1] ELSE delivered
      /\ \A e \in Calls : Waiting(e)' <=> Waiting(e) /\ e # h
      /\ \A d \in Calls \ {c} : batch'[d] = batch[d]
      /\ batch'[c] = <<>> <=> h = None
      /\ Distinct' /\ UNCHANGED <<kind, dropped, panics>>
  BY DEF BatchStep
<1>1. /\ pc \in [Calls -> Stages] /\ pc' = [pc EXCEPT ![c] = s]
      /\ delivered \in [Calls -> Nat] /\ dropped \in [Calls -> Nat]
      /\ \A d \in Calls : CallEvents(d)
      /\ s \in {"pendingCallback", "take", "finalize"}
      /\ h # None <=> s = "pendingCallback"
  BY <1>0, EventParts DEF IndInv, TypeInv, Goto, BatchStage
<1>. HIDE DEF s
<1>2. c # h
  <2>1. pc[c] # "done"
    BY <1>0
  <2>. QED  BY <1>0, <2>1, WaitingIsDone DEF None, Calls
<1>3. ASSUME NEW d \in Calls
      PROVE  CallEvents(d)'
  <2>1. CASE d = c
    <3>1. CallEvents(c) /\ pc[c] \in After /\ pc[c] \notin Before
      BY <1>0, <1>1 DEF Before, After, Stages, Holding, Reachable, Contending, Resolving
    <3>2. delivered[c] = 1 /\ dropped[c] = 0 /\ ~Waiting(c)
      BY <3>1 DEF CallEvents
    <3>3. pc'[c] = s /\ delivered'[c] = 1 /\ dropped'[c] = 0 /\ ~Waiting(c)'
      BY <1>0, <1>1, <1>2, <3>2
    <3>. QED  BY <1>0, <1>1, <2>1, <3>3 DEF CallEvents, Before, Contending, Resolving
  <2>2. CASE d = h
    <3>1. pc[d] = "done" /\ kind[d] # "root" /\ delivered[d] = 0 /\ dropped[d] = 0
      BY <1>0, <2>2, WaitingIsDone DEF None, Calls
    <3>2. pc'[d] = "done" /\ delivered'[d] = 1 /\ dropped'[d] = 0 /\ ~Waiting(d)'
          /\ batch'[d] = batch[d] /\ kind'[d] # "root"
      BY <1>0, <1>1, <1>2, <2>2, <3>1 DEF None, Calls
    <3>3. batch[d] = <<>>
      BY <1>1, <3>1 DEF CallEvents
    <3>. QED  BY <1>0, <3>2, <3>3 DEF CallEvents, Before, After, Contending, Resolving
  <2>3. CASE d # c /\ d # h
    <3>1. /\ pc'[d] = pc[d] /\ delivered'[d] = delivered[d] /\ CallEvents(d)
          /\ batch'[d] = batch[d]
          /\ Waiting(d)' <=> Waiting(d)
      BY <1>0, <1>1, <2>3
    <3>. QED  BY <1>0, <3>1 DEF CallEvents
  <2>. QED  BY <2>1, <2>2, <2>3
<1>. QED  BY <1>0, <1>3, EventParts

\* A hold begins in its fast form, and the callbacks run at once.
LEMMA BeginFastInductive ==
    ASSUME IndInv, NEW c \in Calls, BeginFast(c)
    PROVE  IndInv'
<1>. DEFINE s == "deliver"
<1>1. /\ pc[c] = "begin" /\ Goto(c, s) /\ s = "deliver"
      /\ holdSeq' = ActiveSeq(NextHoldIdx(holdSeq), "fast")
      /\ curHoldIdx' = NextHoldIdx(holdSeq)
      /\ delivered' = [delivered EXCEPT ![c] = @ + 1]
      /\ UNCHANGED <<mutexes, registration, queue, identity, locals, dropped, panics>>
  BY DEF BeginFast, Uncontended, PublishHold, RegisterHolder, ActivateHolder, ResetHolder, mutexes, hold, registration, queue, identity, locals, history
<1>. HIDE DEF s
<1>seq. holdSeq'.mode = "fast" /\ holdSeq'.idx = NextHoldIdx(holdSeq)
  BY <1>1 DEF IndInv, TypeInv, HoldSeqs, IsActiveSeq, ActiveSeq, IdleSeq
<1>2. /\ s \in Stages /\ s # "none" /\ s \in Holding /\ s \notin Resolving
      /\ pc[c] \in Holding \ {"deliver", "pendingCallback"}
  BY <1>1 DEF Stages, Holding, Beginning, Ending, Reachable, Resolving
<1>3. /\ mu = c /\ mu # None /\ Stage = pc[c] /\ mu' = c /\ Stage' = s
      /\ pc'[c] = s /\ \A d \in Calls \ {c} : pc'[d] = pc[d]
      /\ \A d \in Calls : pc[d] \in Holding => d = c
      /\ pc' \in [Calls -> Stages] /\ gid[c] \in Calls /\ None \notin Calls /\ None \in Indices
      /\ resolveMu = None => \A d \in Calls : pc[d] \notin Resolving
      /\ MutexInv' /\ GoroutineInv' /\ \A d \in Calls : WaitInv(d)'
  BY <1>1, <1>2, HolderMoves DEF mutexes, identity
<1>4. TypeInv'
  <2>1. holdSeq' \in HoldSeqs /\ curHoldIdx' \in Nat
    BY <1>1 DEF IndInv, TypeInv, HoldSeqs, IsActiveSeq, NextHoldIdx, ActiveSeq, IdleSeq, hold
  <2>2. delivered' \in [Calls -> Nat]
    BY <1>1 DEF IndInv, TypeInv
  <2>. QED  BY <1>1, <1>3, <2>1, <2>2 DEF IndInv, TypeInv, mutexes, hold, registration, queue, identity, locals, history
<1>5. EventInv'
  BY <1>1, DeliverOwn DEF queue, identity, locals
<1>6. HoldInv'
  BY <1>1, <1>3 DEF IndInv, TypeInv, HoldSeqs, HoldInv, IsActiveSeq, NextHoldIdx, ActiveSeq, IdleSeq,
     Beginning, Ending, Reachable, hold, registration, identity
<1>7. ASSUME NEW d \in Calls
      PROVE  ContendInv(d)'
  <2>1. pc'[d] \in {"matchCheck", "enqueue"} => MatchInv(d)'
    <3>1. /\ TypeInv /\ HoldInv
          /\ pc[d] \in {"matchCheck", "enqueue"} => MatchInv(d)
      BY MatchHolds
    <3>. QED  BY <1>1, <1>3, <3>1 DEF TypeInv, HoldSeqs, HoldInv, MatchInv, FastPhase,
         IsActiveSeq, NextHoldIdx, ActiveSeq, IdleSeq, Beginning, Ending, Reachable, hold, registration, locals
  <2>2. ~(pc'[d] = "enqueue" /\ holdSeq' = matched'[d])
    <3>. SUFFICES ASSUME pc'[d] = "enqueue", holdSeq' = matched'[d] PROVE FALSE
      OBVIOUS
    <3>1. ~IsActiveSeq(holdSeq) /\ holdSeq \in HoldSeqs
      BY <1>1, <1>3 DEF IndInv, TypeInv, HoldInv, Beginning
    <3>2. holdSeq'.idx = holdSeq.idx /\ holdSeq.idx \in Nat
      BY <1>seq, <3>1 DEF NextHoldIdx, HoldSeqs
    <3>3. pc[d] = "enqueue" /\ matched[d] = holdSeq'
      BY <1>1, <1>3 DEF locals
    <3>4. matched[d].idx < holdSeq.idx
      BY <3>1, <3>3 DEF IndInv, ContendInv, MatchInv
    <3>. QED  BY <3>2, <3>3, <3>4
  <2>. QED  BY <1>1, <1>3, <2>1, <2>2 DEF IndInv, TypeInv, HoldSeqs, ContendInv, HoldInv,
         IsActiveSeq, NextHoldIdx, ActiveSeq, IdleSeq, Beginning, Ending, Reachable, Resolving,
         hold, registration, identity, locals
<1>. QED  BY <1>3, <1>4, <1>5, <1>6, <1>7 DEF IndInv

\* The callbacks run under a slow hold, registered.
LEMMA RegisterInductive ==
    ASSUME IndInv, NEW c \in Calls, Register(c)
    PROVE  IndInv'
<1>. DEFINE s == "deliver"
<1>1. /\ pc[c] = "register" /\ Goto(c, s) /\ s = "deliver"
      /\ resolveMu = None /\ active' = TRUE /\ contended' = TRUE /\ holderGID' = gid[c]
      /\ delivered' = [delivered EXCEPT ![c] = @ + 1]
      /\ UNCHANGED <<mutexes, hold, queue, identity, locals, dropped, panics>>
  BY DEF Register, Uncontended, PublishHold, RegisterHolder, ActivateHolder, ResetHolder, mutexes, hold, registration, queue, identity, locals, history
<1>. HIDE DEF s
<1>2. /\ s \in Stages /\ s # "none" /\ s \in Holding /\ s \notin Resolving
      /\ pc[c] \in Holding \ {"deliver", "pendingCallback"}
  BY <1>1 DEF Stages, Holding, Beginning, Ending, Reachable, Resolving
<1>3. /\ mu = c /\ mu # None /\ Stage = pc[c] /\ mu' = c /\ Stage' = s
      /\ pc'[c] = s /\ \A d \in Calls \ {c} : pc'[d] = pc[d]
      /\ \A d \in Calls : pc[d] \in Holding => d = c
      /\ pc' \in [Calls -> Stages] /\ gid[c] \in Calls /\ None \notin Calls /\ None \in Indices
      /\ resolveMu = None => \A d \in Calls : pc[d] \notin Resolving
      /\ MutexInv' /\ GoroutineInv' /\ \A d \in Calls : WaitInv(d)'
  BY <1>1, <1>2, HolderMoves DEF mutexes, identity
<1>4. TypeInv'
  <2>2. delivered' \in [Calls -> Nat]
    BY <1>1 DEF IndInv, TypeInv
  <2>. QED  BY <1>1, <1>3, <2>2 DEF IndInv, TypeInv, mutexes, hold, registration, queue, identity, locals, history
<1>5. EventInv'
  BY <1>1, DeliverOwn DEF queue, identity, locals
<1>6. HoldInv'
  BY <1>1, <1>3 DEF IndInv, TypeInv, HoldSeqs, HoldInv, IsActiveSeq, NextHoldIdx, ActiveSeq, IdleSeq,
     Beginning, Ending, Reachable, hold, registration, identity
<1>7. ASSUME NEW d \in Calls
      PROVE  ContendInv(d)'
  <2>1. pc'[d] \in {"matchCheck", "enqueue"} => MatchInv(d)'
    <3>1. /\ TypeInv /\ HoldInv
          /\ pc[d] \in {"matchCheck", "enqueue"} => MatchInv(d)
      BY MatchHolds
    <3>. QED  BY <1>1, <1>3, <3>1 DEF TypeInv, HoldSeqs, HoldInv, MatchInv, FastPhase,
         IsActiveSeq, NextHoldIdx, ActiveSeq, IdleSeq, Beginning, Ending, Reachable, hold, registration, locals
  <2>2. pc'[d] = "enqueue" /\ holdSeq' = matched'[d] =>
          holderGID' # None /\ holderGID' = holder'[d]
    BY <1>1, <1>3 DEF IndInv, ContendInv, HoldInv, MatchInv, FastPhase,
       IsActiveSeq, NextHoldIdx, Beginning, Ending, Reachable, hold, registration, locals
  <2>. QED  BY <1>1, <1>3, <2>1, <2>2 DEF IndInv, TypeInv, HoldSeqs, ContendInv, HoldInv,
         IsActiveSeq, NextHoldIdx, ActiveSeq, IdleSeq, Beginning, Ending, Reachable, Resolving,
         hold, registration, identity, locals
<1>. QED  BY <1>3, <1>4, <1>5, <1>6, <1>7 DEF IndInv

\* drainPendingEvictCallbacks takes what is pending as its batch,
LEMMA TakeEvents ==
    ASSUME IndInv, NEW c \in Calls, TakePending(c)
    PROVE  EventInv' /\ delivered' \in [Calls -> Nat] /\ batch' \in [Calls -> Seq(Calls)]
<1>. DEFINE h == IF pending # <<>> THEN Head(pending) ELSE None
<1>1. /\ pc[c] = "take" /\ pending' = <<>> /\ enqueues' = 0
      /\ batch' = [batch EXCEPT ![c] = pending]
      /\ UNCHANGED <<kind, dropped, panics>>
      /\ pending \in Seq(Calls) /\ batch \in [Calls -> Seq(Calls)]
      /\ delivered \in [Calls -> Nat]
  BY DEF TakePending, RunBatch, identity, IndInv, TypeInv
<1>2. h # None <=> pending # <<>>
  <2>1. pending # <<>> => Head(pending) \in Calls
    BY <1>1
  <2>. QED  BY <2>1 DEF None, Calls
<1>3. /\ delivered' = IF h # None THEN [delivered EXCEPT ![h] = @ + 1] ELSE delivered
      /\ Goto(c, BatchStage(h))
  <2>1. CASE pending # <<>>
    BY <1>2, <2>1 DEF TakePending, RunBatch, BatchStage
  <2>2. CASE pending = <<>>
    BY <1>2, <2>2 DEF TakePending, RunBatch, BatchStage
  <2>. QED  BY <2>1, <2>2
<1>4. batch[c] = <<>> /\ \A d \in Calls \ {c} : batch[d] = <<>>
  BY <1>1, OneBatch DEF Holding, Reachable, IndInv, EventInv
<1>5. /\ batch'[c] = pending /\ \A d \in Calls \ {c} : batch'[d] = batch[d]
      /\ batch'[c] = <<>> <=> h = None
  BY <1>1, <1>2
<1>6. Distinct
  BY EventParts DEF IndInv
<1>7. /\ Rest(c)' = {i \in DOMAIN pending : i > 1}
      /\ \A d \in Calls \ {c} : Rest(d)' = {}
      /\ DOMAIN pending' = {}
  BY <1>1, <1>4, <1>5 DEF Rest
<1>8. Distinct'
  BY <1>5, <1>6, <1>7 DEF Distinct
<1>9. ASSUME h # None
      PROVE  /\ h \in Calls /\ h = pending[1] /\ 1 \in DOMAIN pending
             /\ \A e \in Calls : Waiting(e) <=> \E i \in DOMAIN pending : pending[i] = e
  <2>1. h \in Calls /\ h = pending[1] /\ 1 \in DOMAIN pending
    BY <1>1, <1>2, <1>9
  <2>2. Rest(c) = {}
    BY <1>4 DEF Rest
  <2>. QED  BY <1>1, <1>4, <2>1, <2>2, WaitingPlaces
<1>10. ASSUME NEW e \in Calls
       PROVE  Waiting(e)' <=> Waiting(e) /\ e # h
  <2>1. Waiting(e) <=> \E i \in DOMAIN pending : pending[i] = e
    <3>1. Rest(c) = {}
      BY <1>4 DEF Rest
    <3>. QED  BY <1>1, <1>4, <3>1, WaitingPlaces
  <2>2. Waiting(e)' <=> \E i \in DOMAIN pending : i > 1 /\ pending[i] = e
    <3>1. \A d \in Calls \ {c} : 2..Len(batch'[d]) = {}
      BY <1>4, <1>5
    <3>2. 2..Len(batch'[c]) = {i \in DOMAIN pending : i > 1}
      BY <1>1, <1>5
    <3>. QED  BY <1>5, <1>7, <3>1, <3>2 DEF Waiting
  <2>3. CASE h = None
    BY <1>2, <2>1, <2>2, <2>3 DEF None, Calls
  <2>4. CASE h # None
    <3>1. \A i \in DOMAIN pending : pending[i] = h <=> i = 1
      BY <1>6, <1>9, <2>4 DEF Distinct
    <3>2. \A i \in DOMAIN pending : i > 1 <=> i # 1
      BY <1>1
    <3>. QED  BY <2>1, <2>2, <3>1, <3>2
  <2>. QED  BY <2>3, <2>4
<1>11. h # None => h \in Calls /\ Waiting(h)
  BY <1>9
<1>12. EventInv'
  <2>. HIDE DEF h
  <2>1. BatchStep(c, h)
    BY <1>1, <1>3, <1>5, <1>8, <1>10, <1>11 DEF BatchStep
  <2>. QED  BY <2>1, DeliverNext
<1>13. delivered' \in [Calls -> Nat] /\ batch' \in [Calls -> Seq(Calls)]
  <2>. HIDE DEF h
  <2>. QED  BY <1>1, <1>3, <1>11
<1>. QED  BY <1>12, <1>13

\* and goes on to the next of the batch when a callback returns.
LEMMA ReturnEvents ==
    ASSUME IndInv, NEW c \in Calls, PendingReturns(c)
    PROVE  EventInv' /\ delivered' \in [Calls -> Nat] /\ batch' \in [Calls -> Seq(Calls)]
<1>. DEFINE rest == Tail(batch[c])
            h == IF rest # <<>> THEN Head(rest) ELSE None
<1>1. /\ pc[c] = "pendingCallback" /\ pending' = pending /\ enqueues' = enqueues
      /\ batch' = [batch EXCEPT ![c] = rest]
      /\ UNCHANGED <<kind, dropped, panics>>
      /\ pending \in Seq(Calls) /\ batch \in [Calls -> Seq(Calls)]
      /\ delivered \in [Calls -> Nat] /\ batch[c] # <<>> /\ batch[c] \in Seq(Calls)
  BY DEF PendingReturns, RunBatch, identity, queue, IndInv, TypeInv, EventInv
<1>2. /\ rest \in Seq(Calls) /\ Len(rest) = Len(batch[c]) - 1 /\ Len(rest) \in Nat
      /\ \A i \in DOMAIN rest : rest[i] = batch[c][i + 1]
      /\ DOMAIN rest = 1..Len(rest) /\ DOMAIN batch[c] = 1..(Len(rest) + 1)
  BY <1>1
<1>3. h # None <=> rest # <<>>
  <2>1. rest # <<>> => Head(rest) \in Calls
    BY <1>2
  <2>. QED  BY <2>1 DEF None, Calls
<1>4. /\ delivered' = IF h # None THEN [delivered EXCEPT ![h] = @ + 1] ELSE delivered
      /\ Goto(c, BatchStage(h))
  <2>1. CASE rest # <<>>
    BY <1>3, <2>1 DEF PendingReturns, RunBatch, BatchStage
  <2>2. CASE rest = <<>>
    BY <1>3, <2>2 DEF PendingReturns, RunBatch, BatchStage
  <2>. QED  BY <2>1, <2>2
<1>. HIDE DEF rest
<1>5. \A d \in Calls \ {c} : batch[d] = <<>>
  BY <1>1, OneBatch DEF Holding, Reachable
<1>6. /\ batch'[c] = rest /\ \A d \in Calls \ {c} : batch'[d] = batch[d]
      /\ batch'[c] = <<>> <=> h = None
  BY <1>1, <1>3
<1>7. Distinct
  BY EventParts DEF IndInv
<1>8. Distinct'
  <2>1. \A i \in Rest(c)' : i + 1 \in Rest(c) /\ batch'[c][i] = batch[c][i + 1] /\ i \in Nat
    <3>1. Rest(c)' = {i \in DOMAIN rest : i > 1}
      BY <1>6 DEF Rest
    <3>2. \A i \in DOMAIN rest : i + 1 \in DOMAIN batch[c] /\ i + 1 > 1 /\ i \in Nat
      BY <1>2
    <3>. QED  BY <1>2, <1>6, <3>1, <3>2 DEF Rest
  <2>2. \A d \in Calls \ {c} : Rest(d)' = {}
    BY <1>5, <1>6 DEF Rest
  <2>3. \A i, j \in Rest(c)' : batch'[c][i] = batch'[c][j] => i = j
    <3>. SUFFICES ASSUME NEW i \in Rest(c)', NEW j \in Rest(c)', batch'[c][i] = batch'[c][j]
                  PROVE  i = j
      OBVIOUS
    <3>1. /\ i + 1 \in Rest(c) /\ j + 1 \in Rest(c)
          /\ batch[c][i + 1] = batch[c][j + 1]
      BY <2>1
    <3>2. i + 1 = j + 1
      BY <1>7, <3>1 DEF Distinct
    <3>. QED  BY <2>1, <3>2
  <2>4. \A i \in Rest(c)', j \in DOMAIN pending' : batch'[c][i] # pending'[j]
    <3>. SUFFICES ASSUME NEW i \in Rest(c)', NEW j \in DOMAIN pending
                  PROVE  batch'[c][i] # pending[j]
      BY <1>1
    <3>1. i + 1 \in Rest(c) /\ batch'[c][i] = batch[c][i + 1]
      BY <2>1
    <3>. QED  BY <1>7, <3>1 DEF Distinct
  <2>. QED  BY <1>1, <1>7, <2>2, <2>3, <2>4 DEF Distinct
<1>9. ASSUME NEW e
      PROVE  /\ Waiting(e) <=> \/ \E i \in DOMAIN pending : pending[i] = e
                               \/ \E i \in DOMAIN rest : rest[i] = e
             /\ Waiting(e)' <=> \/ \E i \in DOMAIN pending : pending[i] = e
                                \/ \E i \in DOMAIN rest : i > 1 /\ rest[i] = e
  <2>1. Waiting(e) <=> \/ \E i \in DOMAIN pending : pending[i] = e
                       \/ \E i \in Rest(c) : batch[c][i] = e
    BY <1>1, <1>5, WaitingPlaces
  <2>2. (\E i \in Rest(c) : batch[c][i] = e) <=> \E i \in DOMAIN rest : rest[i] = e
    <3>1. \A i \in DOMAIN rest : i + 1 \in Rest(c)
      <4>1. \A i \in DOMAIN rest : i + 1 \in DOMAIN batch[c] /\ i + 1 > 1
        BY <1>2
      <4>. QED  BY <4>1 DEF Rest
    <3>2. \A i \in Rest(c) : i - 1 \in DOMAIN rest /\ (i - 1) + 1 = i
      <4>1. \A i \in DOMAIN batch[c] : i > 1 => i - 1 \in DOMAIN rest /\ (i - 1) + 1 = i
        BY <1>2
      <4>. QED  BY <4>1 DEF Rest
    <3>. QED  BY <1>2, <3>1, <3>2
  <2>3. Waiting(e)' <=> \/ \E i \in DOMAIN pending : pending[i] = e
                        \/ \E i \in DOMAIN rest : i > 1 /\ rest[i] = e
    <3>1. \A d \in Calls \ {c} : 2..Len(batch'[d]) = {}
      BY <1>5, <1>6
    <3>2. 2..Len(batch'[c]) = {i \in DOMAIN rest : i > 1}
      BY <1>2, <1>6
    <3>. QED  BY <1>1, <1>6, <3>1, <3>2 DEF Waiting
  <2>. QED  BY <2>1, <2>2, <2>3
<1>10. ASSUME h # None
       PROVE  /\ h \in Calls /\ 1 \in DOMAIN rest /\ h = rest[1]
              /\ \A i \in DOMAIN rest : rest[i] = h <=> i = 1
              /\ \A i \in DOMAIN pending : pending[i] # h
  <2>1. h \in Calls /\ 1 \in DOMAIN rest /\ h = rest[1]
    BY <1>2, <1>3, <1>10
  <2>2. \A i \in DOMAIN rest : i + 1 \in Rest(c) /\ rest[i] = batch[c][i + 1] /\ i \in Nat
    <3>1. \A i \in DOMAIN rest : i + 1 \in DOMAIN batch[c] /\ i + 1 > 1 /\ i \in Nat
      BY <1>2
    <3>. QED  BY <1>2, <3>1 DEF Rest
  <2>3. \A i \in DOMAIN rest : rest[i] = h => i = 1
    BY <1>7, <2>1, <2>2 DEF Distinct
  <2>4. \A i \in DOMAIN pending : pending[i] # h
    BY <1>7, <2>1, <2>2 DEF Distinct
  <2>. QED  BY <2>1, <2>3, <2>4
<1>11. ASSUME NEW e \in Calls
       PROVE  Waiting(e)' <=> Waiting(e) /\ e # h
  <2>1. CASE h = None
    <3>1. DOMAIN rest = {} /\ e # h
      BY <1>2, <1>3, <2>1 DEF None, Calls
    <3>. QED  BY <1>9, <3>1
  <2>2. CASE h # None
    <3>1. \A i \in DOMAIN rest : i > 1 <=> i # 1
      BY <1>2
    <3>. QED  BY <1>9, <1>10, <2>2, <3>1
  <2>. QED  BY <2>1, <2>2
<1>12. h # None => h \in Calls /\ Waiting(h)
  BY <1>9, <1>10
<1>13. EventInv'
  <2>. HIDE DEF h
  <2>1. BatchStep(c, h)
    BY <1>1, <1>4, <1>6, <1>8, <1>11, <1>12 DEF BatchStep
  <2>. QED  BY <2>1, DeliverNext
<1>14. delivered' \in [Calls -> Nat] /\ batch' \in [Calls -> Seq(Calls)]
  <2>. HIDE DEF h
  <2>. QED  BY <1>1, <1>2, <1>4, <1>12
<1>. QED  BY <1>13, <1>14

\* Draining keeps the invariant.
LEMMA TakePendingInductive ==
    ASSUME IndInv, NEW c \in Calls, TakePending(c)
    PROVE  IndInv'
<1>. DEFINE s == BatchStage(IF pending # <<>> THEN Head(pending) ELSE None)
<1>1. /\ pc[c] = "take" /\ Goto(c, s) /\ s \in {"pendingCallback", "take", "finalize"}
      /\ pending' = <<>> /\ enqueues' = 0 /\ resolveMu = None
      /\ UNCHANGED <<mutexes, hold, registration, identity, holder, matched, dropped, panics>>
  <2>1. pending \in Seq(Calls)
    BY DEF IndInv, TypeInv
  <2>2. pending # <<>> => Head(pending) \in Calls
    BY <2>1
  <2>3. pending # <<>> => Head(pending) # None
    BY <2>2 DEF None, Calls
  <2>. QED  BY <2>3 DEF TakePending, RunBatch, BatchStage
<1>. HIDE DEF s
<1>2. /\ s \in Stages /\ s # "none" /\ s \in Holding /\ s \notin Resolving
      /\ pc[c] \in Holding \ {"deliver", "pendingCallback"}
  BY <1>1 DEF Stages, Holding, Beginning, Ending, Reachable, Resolving
<1>3. /\ mu = c /\ mu # None /\ Stage = pc[c] /\ mu' = c /\ Stage' = s
      /\ pc'[c] = s /\ \A d \in Calls \ {c} : pc'[d] = pc[d]
      /\ \A d \in Calls : pc[d] \in Holding => d = c
      /\ pc' \in [Calls -> Stages] /\ gid[c] \in Calls /\ None \notin Calls /\ None \in Indices
      /\ resolveMu = None => \A d \in Calls : pc[d] \notin Resolving
      /\ MutexInv' /\ GoroutineInv' /\ \A d \in Calls : WaitInv(d)'
  BY <1>1, <1>2, HolderMoves DEF mutexes, identity
<1>4. EventInv' /\ delivered' \in [Calls -> Nat] /\ batch' \in [Calls -> Seq(Calls)]
  BY TakeEvents
<1>5. TypeInv'
  <2>1. pending' \in Seq(Calls) /\ enqueues' \in Nat
    BY <1>1
  <2>. QED  BY <1>1, <1>3, <1>4, <2>1 DEF IndInv, TypeInv, mutexes, hold, registration, identity
<1>6. HoldInv'
  BY <1>1, <1>3 DEF IndInv, TypeInv, HoldSeqs, HoldInv, IsActiveSeq, NextHoldIdx, ActiveSeq, IdleSeq,
     Beginning, Ending, Reachable, hold, registration, identity
<1>7. ASSUME NEW d \in Calls
      PROVE  ContendInv(d)'
  <2>1. pc'[d] \in {"matchCheck", "enqueue"} => MatchInv(d)'
    <3>1. /\ TypeInv /\ HoldInv
          /\ pc[d] \in {"matchCheck", "enqueue"} => MatchInv(d)
      BY MatchHolds
    <3>. QED  BY <1>1, <1>3, <3>1 DEF TypeInv, HoldSeqs, HoldInv, MatchInv, FastPhase,
         IsActiveSeq, NextHoldIdx, ActiveSeq, IdleSeq, Beginning, Ending, Reachable, hold, registration, locals
  <2>2. pc'[d] = "enqueue" /\ holdSeq' = matched'[d] =>
          holderGID' # None /\ holderGID' = holder'[d]
    BY <1>1, <1>3 DEF IndInv, ContendInv, HoldInv, MatchInv, FastPhase,
       IsActiveSeq, NextHoldIdx, Beginning, Ending, Reachable, hold, registration, locals
  <2>. QED  BY <1>1, <1>3, <2>1, <2>2 DEF IndInv, TypeInv, HoldSeqs, ContendInv, HoldInv,
         IsActiveSeq, NextHoldIdx, ActiveSeq, IdleSeq, Beginning, Ending, Reachable, Resolving,
         hold, registration, identity, locals
<1>. QED  BY <1>3, <1>4, <1>5, <1>6, <1>7 DEF IndInv

\* A callback of the holder returns, and it waits for nobody.
LEMMA CallbackMoves ==
    ASSUME IndInv, NEW c \in Calls, NEW s \in Stages, Goto(c, s),
           pc[c] \in {"deliver", "pendingCallback"}, s \in Holding,
           ~\E d \in Calls : WaitsFor(c, d),
           mu' = mu, resolveMu' = resolveMu, UNCHANGED identity
    PROVE  /\ mu = c /\ mu # None /\ Stage = pc[c] /\ Stage' = s
           /\ pc'[c] = s /\ \A d \in Calls \ {c} : pc'[d] = pc[d]
           /\ \A d \in Calls : pc[d] \in Holding => d = c
           /\ pc' \in [Calls -> Stages] /\ gid[c] \in Calls /\ None \notin Calls
           /\ MutexInv' /\ GoroutineInv' /\ \A d \in Calls : WaitInv(d)'
<1>1. pc[c] \in Holding /\ s \notin Resolving /\ s # "none" /\ pc[c] \notin Resolving
  BY DEF Holding, Beginning, Ending, Reachable, Resolving
<1>2. /\ mu = c /\ mu # None /\ Stage = pc[c] /\ Active(c) /\ Stage' = s
      /\ \A d \in Calls : pc[d] \in Holding => d = c
      /\ pc'[c] = s /\ \A d \in Calls \ {c} : pc'[d] = pc[d]
      /\ pc' \in [Calls -> Stages]
  BY <1>1, HolderStep
<1>3. MutexInv'
  <2>1. resolveMu # c
    BY <1>1 DEF IndInv, MutexInv
  <2>2. (s \in Holding <=> mu' = c) /\ (s \in Resolving <=> resolveMu' = c)
    BY <1>1, <1>2, <2>1
  <2>. QED  BY <2>2, MutexStep
<1>4. GoroutineInv'
  BY <1>1, <1>2, GoroutineStep
<1>5. ASSUME NEW d \in Calls
      PROVE  WaitInv(d)'
  <2>1. ~(kind[d] \in {"self", "awaited"} /\ Active(d))
    BY <1>2 DEF IndInv, WaitInv, WaitsFor, Active
  <2>2. Active(d)' => Active(d)
    BY <1>2 DEF Active
  <2>. QED  BY <2>1, <2>2 DEF WaitInv, identity
<1>6. gid[c] \in Calls /\ None \notin Calls
  BY <1>2, CallsAssumption DEF IndInv, GoroutineInv, Active, Calls, None
<1>. QED  BY <1>2, <1>3, <1>4, <1>5, <1>6

\* The holder's own callbacks return.
LEMMA CallbackReturnsInductive ==
    ASSUME IndInv, NEW c \in Calls, CallbackReturns(c)
    PROVE  IndInv'
<1>. DEFINE s == IF holdSeq.mode = "fast" THEN "fastCheck" ELSE "drain"
<1>1. /\ pc[c] = "deliver" /\ Goto(c, s) /\ s \in {"fastCheck", "drain"}
      /\ ~\E d \in Calls : WaitsFor(c, d)
      /\ s = "fastCheck" <=> holdSeq.mode = "fast"
      /\ UNCHANGED <<mutexes, hold, registration, queue, identity, locals, history>>
  BY DEF CallbackReturns, Uncontended, PublishHold, RegisterHolder, ActivateHolder, ResetHolder, mutexes, hold, registration, queue, identity, locals, history
<1>. HIDE DEF s
<1>2. /\ s \in Stages /\ s # "none" /\ s \in Holding /\ s \notin Resolving
      /\ pc[c] \in {"deliver", "pendingCallback"}
  BY <1>1 DEF Stages, Holding, Beginning, Ending, Reachable, Resolving
<1>3. /\ mu = c /\ mu # None /\ Stage = pc[c] /\ mu' = c /\ Stage' = s
      /\ pc'[c] = s /\ \A d \in Calls \ {c} : pc'[d] = pc[d]
      /\ \A d \in Calls : pc[d] \in Holding => d = c
      /\ pc' \in [Calls -> Stages] /\ gid[c] \in Calls /\ None \notin Calls
      /\ MutexInv' /\ GoroutineInv' /\ \A d \in Calls : WaitInv(d)'
  BY <1>1, <1>2, CallbackMoves DEF mutexes, identity
<1>4. TypeInv'
  BY <1>1, <1>3 DEF IndInv, TypeInv, mutexes, hold, registration, queue, identity, locals, history
<1>5. EventInv'
  BY <1>1, <1>2, EventStep DEF locals, queue, identity, history, After, Before, Holding,
     Beginning, Ending, Reachable, Contending, Resolving, Stages
<1>6. HoldInv'
  BY <1>1, <1>3 DEF IndInv, TypeInv, HoldSeqs, HoldInv, IsActiveSeq, NextHoldIdx, ActiveSeq, IdleSeq,
     Beginning, Ending, Reachable, hold, registration, identity
<1>7. ASSUME NEW d \in Calls
      PROVE  ContendInv(d)'
  <2>1. pc'[d] \in {"matchCheck", "enqueue"} => MatchInv(d)'
    <3>1. /\ TypeInv /\ HoldInv
          /\ pc[d] \in {"matchCheck", "enqueue"} => MatchInv(d)
      BY MatchHolds
    <3>. QED  BY <1>1, <1>3, <3>1 DEF TypeInv, HoldSeqs, HoldInv, MatchInv, FastPhase,
         IsActiveSeq, NextHoldIdx, ActiveSeq, IdleSeq, Beginning, Ending, Reachable, hold, registration, locals
  <2>2. pc'[d] = "enqueue" /\ holdSeq' = matched'[d] =>
          holderGID' # None /\ holderGID' = holder'[d]
    BY <1>1, <1>3 DEF IndInv, ContendInv, HoldInv, MatchInv, FastPhase,
       IsActiveSeq, NextHoldIdx, Beginning, Ending, Reachable, hold, registration, locals
  <2>. QED  BY <1>1, <1>3, <2>1, <2>2 DEF IndInv, TypeInv, HoldSeqs, ContendInv, HoldInv,
         IsActiveSeq, NextHoldIdx, ActiveSeq, IdleSeq, Beginning, Ending, Reachable, Resolving,
         hold, registration, identity, locals
<1>. QED  BY <1>3, <1>4, <1>5, <1>6, <1>7 DEF IndInv

\* A drained callback returns.
LEMMA PendingReturnsInductive ==
    ASSUME IndInv, NEW c \in Calls, PendingReturns(c)
    PROVE  IndInv'
<1>. DEFINE s == BatchStage(IF Tail(batch[c]) # <<>> THEN Head(Tail(batch[c])) ELSE None)
<1>1. /\ pc[c] = "pendingCallback" /\ Goto(c, s) /\ s \in {"pendingCallback", "take", "finalize"}
      /\ ~\E d \in Calls : WaitsFor(c, d)
      /\ UNCHANGED <<mutexes, hold, registration, queue, identity, holder, matched, dropped, panics>>
  <2>1. batch[c] \in Seq(Calls) /\ batch[c] # <<>>
    BY DEF IndInv, TypeInv, EventInv, PendingReturns
  <2>2. Tail(batch[c]) # <<>> => Head(Tail(batch[c])) \in Calls
    BY <2>1
  <2>3. Tail(batch[c]) # <<>> => Head(Tail(batch[c])) # None
    BY <2>2 DEF None, Calls
  <2>. QED  BY <2>3 DEF PendingReturns, RunBatch, BatchStage
<1>. HIDE DEF s
<1>2. /\ s \in Stages /\ s # "none" /\ s \in Holding /\ s \notin Resolving
      /\ pc[c] \in {"deliver", "pendingCallback"}
  BY <1>1 DEF Stages, Holding, Beginning, Ending, Reachable, Resolving
<1>3. /\ mu = c /\ mu # None /\ Stage = pc[c] /\ mu' = c /\ Stage' = s
      /\ pc'[c] = s /\ \A d \in Calls \ {c} : pc'[d] = pc[d]
      /\ \A d \in Calls : pc[d] \in Holding => d = c
      /\ pc' \in [Calls -> Stages] /\ gid[c] \in Calls /\ None \notin Calls
      /\ MutexInv' /\ GoroutineInv' /\ \A d \in Calls : WaitInv(d)'
  BY <1>1, <1>2, CallbackMoves DEF mutexes, identity
<1>4. EventInv' /\ delivered' \in [Calls -> Nat] /\ batch' \in [Calls -> Seq(Calls)]
  BY ReturnEvents
<1>5. TypeInv'
  BY <1>1, <1>3, <1>4 DEF IndInv, TypeInv, mutexes, hold, registration, queue, identity
<1>6. HoldInv'
  BY <1>1, <1>3 DEF IndInv, TypeInv, HoldSeqs, HoldInv, IsActiveSeq, NextHoldIdx, ActiveSeq, IdleSeq,
     Beginning, Ending, Reachable, hold, registration, identity
<1>7. ASSUME NEW d \in Calls
      PROVE  ContendInv(d)'
  <2>1. pc'[d] \in {"matchCheck", "enqueue"} => MatchInv(d)'
    <3>1. /\ TypeInv /\ HoldInv
          /\ pc[d] \in {"matchCheck", "enqueue"} => MatchInv(d)
      BY MatchHolds
    <3>. QED  BY <1>1, <1>3, <3>1 DEF TypeInv, HoldSeqs, HoldInv, MatchInv, FastPhase,
         IsActiveSeq, NextHoldIdx, ActiveSeq, IdleSeq, Beginning, Ending, Reachable, hold, registration, locals
  <2>2. pc'[d] = "enqueue" /\ holdSeq' = matched'[d] =>
          holderGID' # None /\ holderGID' = holder'[d]
    BY <1>1, <1>3 DEF IndInv, ContendInv, HoldInv, MatchInv, FastPhase,
       IsActiveSeq, NextHoldIdx, Beginning, Ending, Reachable, hold, registration, locals
  <2>. QED  BY <1>1, <1>3, <2>1, <2>2 DEF IndInv, TypeInv, HoldSeqs, ContendInv, HoldInv,
         IsActiveSeq, NextHoldIdx, ActiveSeq, IdleSeq, Beginning, Ending, Reachable, Resolving,
         hold, registration, identity, locals
<1>. QED  BY <1>3, <1>4, <1>5, <1>6, <1>7 DEF IndInv

\* A callback panics: the calls it waited for are on their own.
LEMMA PanicInductive ==
    ASSUME IndInv, NEW c \in Calls, Panic(c)
    PROVE  IndInv'
<1>1. /\ pc[c] \in {"deliver", "pendingCallback"} /\ Goto(c, "panicked")
      /\ ~\E d \in Calls : WaitsFor(c, d) /\ kind[d] = "self"
      /\ panics' = panics + 1
      /\ kind' = [d \in Calls |-> IF WaitsFor(c, d) THEN "detached" ELSE kind[d]]
      /\ UNCHANGED <<mutexes, hold, registration, queue, gid, parent, lineage,
                     locals, delivered, dropped>>
  BY DEF Panic, InCallback
<1>2. /\ pc[c] \in Holding /\ "panicked" \in Stages /\ "panicked" \in Holding
      /\ "panicked" \notin Resolving /\ pc[c] \notin Resolving
  BY <1>1 DEF Stages, Holding, Reachable, Resolving
<1>3. /\ mu = c /\ mu # None /\ mu' = c /\ Stage = pc[c] /\ Stage' = "panicked" /\ Active(c)
      /\ \A d \in Calls : pc[d] \in Holding => d = c
      /\ pc'[c] = "panicked" /\ \A d \in Calls \ {c} : pc'[d] = pc[d]
      /\ pc' \in [Calls -> Stages] /\ resolveMu' = resolveMu
  BY <1>1, <1>2, HolderStep DEF mutexes
<1>4. ASSUME NEW d \in Calls
      PROVE  /\ kind'[d] \in Kinds
             /\ kind'[d] # kind[d] => kind[d] = "awaited" /\ kind'[d] = "detached"
             /\ Active(d) => kind'[d] \notin {"self", "awaited"} /\ kind[d] # "self"
             /\ Active(d)' => Active(d)
             /\ pc'[d] = "none" <=> pc[d] = "none"
  <2>1. Active(d) /\ kind[d] \in {"self", "awaited"} => WaitsFor(c, d)
    BY <1>3 DEF IndInv, WaitInv, WaitsFor, Active
  <2>2. (Active(d)' => Active(d)) /\ (pc'[d] = "none" <=> pc[d] = "none")
    BY <1>3 DEF Active
  <2>3. kind[d] \in Kinds /\ kind'[d] = IF WaitsFor(c, d) THEN "detached" ELSE kind[d]
    BY <1>1 DEF IndInv, TypeInv
  <2>4. WaitsFor(c, d) => kind[d] = "awaited"
    BY <1>1 DEF WaitsFor
  <2>. QED  BY <1>1, <2>1, <2>2, <2>3, <2>4 DEF Kinds
<1>5. TypeInv'
  <2>1. kind' \in [Calls -> Kinds] /\ panics' \in Nat
    BY <1>1, <1>4 DEF IndInv, TypeInv
  <2>. QED  BY <1>1, <1>3, <2>1 DEF IndInv, TypeInv, mutexes, hold, registration, queue, locals
<1>6. MutexInv'
  <2>1. resolveMu # c
    BY <1>2 DEF IndInv, MutexInv
  <2>2. ("panicked" \in Holding <=> mu' = c) /\ ("panicked" \in Resolving <=> resolveMu' = c)
    BY <1>2, <1>3, <2>1
  <2>. QED  BY <1>1, <1>2, <1>3, <2>2, MutexStep
<1>7. GoroutineInv'
  <2>1. ASSUME NEW d \in Calls
        PROVE  /\ pc'[d] = "none" => gid'[d] = None /\ kind'[d] = "none" /\ lineage'[d] = {}
               /\ pc'[d] # "none" =>
                     /\ gid'[d] \in 1..d /\ kind'[d] # "none"
                     /\ \A e \in 1..(d - 1) : pc'[e] # "none"
               /\ kind'[d] = "root" => lineage'[gid'[d]] = {}
    <3>1. \A e \in 1..(d - 1) : e \in Calls
      BY CallsAssumption DEF Calls
    <3>2. /\ kind[d] = "none" => kind'[d] = "none"
          /\ kind[d] # "none" => kind'[d] # "none"
          /\ kind'[d] = "root" => kind[d] = "root"
      BY <1>4
    <3>. QED  BY <1>1, <1>4, <3>1, <3>2 DEF IndInv, GoroutineInv
  <2>2. ASSUME NEW d \in Calls, NEW e \in Calls, d # e, gid'[d] = gid'[e],
               Active(d)', Active(e)'
        PROVE  "self" \in {kind'[d], kind'[e]}
    BY <1>1, <1>4, <2>2 DEF IndInv, GoroutineInv
  <2>. QED  BY <2>1, <2>2 DEF GoroutineInv
<1>8. \A d \in Calls : WaitInv(d)'
  BY <1>4 DEF WaitInv
<1>9. HoldInv'
  BY <1>1, <1>3 DEF IndInv, HoldInv, IsActiveSeq, Beginning, Ending, Reachable, hold, registration
<1>10. ASSUME NEW d \in Calls
       PROVE  ContendInv(d)'
  <2>1. pc'[d] \in {"matchCheck", "enqueue"} => MatchInv(d)'
    BY <1>1, <1>3 DEF IndInv, ContendInv, HoldInv, MatchInv, FastPhase, IsActiveSeq,
       Reachable, hold, registration, locals
  <2>2. Active(d)' => kind[d] # "self" /\ kind'[d] # "self"
    BY <1>4
  <2>3. pc'[d] \in {"enqueue", "append"} => kind'[d] # "root"
    BY <1>3, <1>4 DEF IndInv, ContendInv
  <2>. QED  BY <1>1, <1>3, <2>1, <2>2, <2>3 DEF IndInv, ContendInv, Active, Reachable,
         hold, registration, locals
<1>11. EventInv'
  <2>1. \A d \in Calls : CallEvents(d) /\ Distinct
    BY EventParts DEF IndInv
  <2>2. \A d : Waiting(d)' <=> Waiting(d)
    BY <1>1 DEF Waiting, queue, locals
  <2>3. ASSUME NEW d \in Calls
        PROVE  CallEvents(d)'
    <3>1. kind'[d] = "root" => kind[d] = "root"
      BY <1>4
    <3>2. panics' > 0 /\ panics \in Nat
      BY <1>1 DEF IndInv, TypeInv
    <3>3. CASE d = c
      <4>1. pc[c] \in After /\ pc[c] \notin Before /\ CallEvents(c)
        BY <1>1, <2>1 DEF After, Before, Stages, Holding, Reachable, Contending, Resolving
      <4>2. delivered[c] = 1 /\ dropped[c] = 0 /\ ~Waiting(c)
        BY <4>1 DEF CallEvents
      <4>. QED  BY <1>1, <1>3, <2>2, <3>2, <3>3, <4>2
             DEF CallEvents, Before, Contending, Resolving
    <3>4. CASE d # c
      <4>1. pc'[d] = pc[d] /\ CallEvents(d)
        BY <1>3, <2>1, <3>4
      <4>. QED  BY <1>1, <2>2, <3>1, <3>2, <4>1 DEF CallEvents, locals
    <3>. QED  BY <3>3, <3>4
  <2>4. Distinct'
    BY <1>1, <2>1 DEF Distinct, Rest, queue, locals
  <2>. QED  BY <2>3, <2>4, EventParts
<1>. QED  BY <1>5, <1>6, <1>7, <1>8, <1>9, <1>10, <1>11 DEF IndInv

\* What is left of a hold that panicked is discarded.
LEMMA PanickedEvents ==
    ASSUME IndInv, NEW c \in Calls, FinishPanicked(c)
    PROVE  EventInv' /\ dropped' \in [Calls -> Nat] /\ batch' \in [Calls -> Seq(Calls)]
<1>. DEFINE lost == {pending[i] : i \in DOMAIN pending}
                    \cup {batch[c][i] : i \in 2..Len(batch[c])}
<1>1. /\ pc[c] = "panicked" /\ Goto(c, "unlock")
      /\ dropped' = [d \in Calls |-> dropped[d] + (IF d \in lost THEN 1 ELSE 0)]
      /\ batch' = [batch EXCEPT ![c] = <<>>] /\ pending' = <<>>
      /\ delivered' = delivered /\ panics' = panics /\ kind' = kind
      /\ pc \in [Calls -> Stages] /\ batch \in [Calls -> Seq(Calls)]
      /\ delivered \in [Calls -> Nat] /\ dropped \in [Calls -> Nat] /\ panics \in Nat
  BY DEF FinishPanicked, identity, IndInv, TypeInv
<1>2. \A d \in Calls \ {c} : batch[d] = <<>>
  BY <1>1, OneBatch DEF Holding, Reachable
<1>3. \A d \in Calls : batch'[d] = <<>>
  BY <1>1, <1>2
<1>4. \A e : ~Waiting(e)'
  <2>1. DOMAIN pending' = {} /\ \A d \in Calls : 2..Len(batch'[d]) = {}
    BY <1>1, <1>3
  <2>. QED  BY <2>1 DEF Waiting
<1>5. \A e : Waiting(e) <=> e \in lost
  <2>1. batch[c] \in Seq(Calls)
    BY <1>1
  <2>2. Rest(c) = 2..Len(batch[c])
    BY <2>1 DEF Rest
  <2>. QED  BY <1>2, <2>1, <2>2, WaitingPlaces
<1>. HIDE DEF lost
<1>6. pc' = [pc EXCEPT ![c] = "unlock"] /\ \A d \in Calls : CallEvents(d)
  BY <1>1, EventParts DEF Goto, IndInv
<1>7. panics > 0
  BY <1>1, <1>6 DEF CallEvents
<1>8. ASSUME NEW d \in Calls
      PROVE  CallEvents(d)'
  <2>1. CASE Waiting(d)
    <3>1. pc[d] = "done" /\ kind[d] # "root" /\ delivered[d] = 0 /\ dropped[d] = 0
      BY <2>1, WaitingIsDone
    <3>2. pc'[d] = "done" /\ dropped'[d] = 1 /\ delivered'[d] = 0
      BY <1>1, <1>5, <1>6, <2>1, <3>1
    <3>. QED  BY <1>1, <1>3, <1>4, <1>7, <3>1, <3>2 DEF CallEvents, Before, After, Contending, Resolving
  <2>2. CASE ~Waiting(d) /\ d # c
    <3>1. /\ pc'[d] = pc[d] /\ dropped'[d] = dropped[d] /\ delivered'[d] = delivered[d]
          /\ CallEvents(d) /\ batch'[d] = batch[d]
      BY <1>1, <1>2, <1>3, <1>5, <1>6, <2>2
    <3>. QED  BY <1>1, <1>4, <2>2, <3>1 DEF CallEvents
  <2>3. CASE ~Waiting(d) /\ d = c
    <3>1. pc[c] \in After /\ CallEvents(c)
      BY <1>1, <1>6 DEF After, Before, Stages, Holding, Reachable, Contending, Resolving
    <3>2. delivered[c] = 1 /\ dropped[c] = 0
      BY <3>1 DEF CallEvents
    <3>3. pc'[c] = "unlock" /\ delivered'[c] = 1 /\ dropped'[c] = 0
      BY <1>1, <1>5, <1>6, <2>3, <3>2
    <3>. QED  BY <1>3, <1>4, <2>3, <3>3 DEF CallEvents, Before, Contending, Resolving
  <2>. QED  BY <2>1, <2>2, <2>3
<1>9. Distinct'
  <2>1. DOMAIN pending' = {} /\ \A d \in Calls : Rest(d)' = {}
    BY <1>1, <1>3 DEF Rest
  <2>. QED  BY <2>1 DEF Distinct
<1>. QED  BY <1>1, <1>8, <1>9, EventParts

\* The hold ends after a panic.
LEMMA FinishPanickedInductive ==
    ASSUME IndInv, NEW c \in Calls, FinishPanicked(c)
    PROVE  IndInv'
<1>. DEFINE s == "unlock"
<1>1. /\ pc[c] = "panicked" /\ Goto(c, s) /\ s = "unlock"
      /\ pending' = <<>> /\ enqueues' = 0 /\ resolveMu = None
      /\ holdSeq' = IF IsActiveSeq(holdSeq) THEN IdleSeq(holdSeq.idx) ELSE holdSeq
      /\ active' = FALSE /\ holderGID' = None /\ contended' = FALSE
      /\ UNCHANGED <<mutexes, curHoldIdx, identity, holder, matched, delivered, panics>>
  BY DEF FinishPanicked, Uncontended, PublishHold, RegisterHolder, ActivateHolder, ResetHolder, mutexes, hold, registration, queue, identity, locals, history
<1>. HIDE DEF s
<1>seq. /\ holdSeq'.mode = "idle"
        /\ IsActiveSeq(holdSeq) => holdSeq'.idx = holdSeq.idx + 1
  BY <1>1 DEF IndInv, TypeInv, HoldSeqs, IsActiveSeq, ActiveSeq, IdleSeq
<1>2. /\ s \in Stages /\ s # "none" /\ s \in Holding /\ s \notin Resolving
      /\ pc[c] \in Holding \ {"deliver", "pendingCallback"}
  BY <1>1 DEF Stages, Holding, Beginning, Ending, Reachable, Resolving
<1>3. /\ mu = c /\ mu # None /\ Stage = pc[c] /\ mu' = c /\ Stage' = s
      /\ pc'[c] = s /\ \A d \in Calls \ {c} : pc'[d] = pc[d]
      /\ \A d \in Calls : pc[d] \in Holding => d = c
      /\ pc' \in [Calls -> Stages] /\ gid[c] \in Calls /\ None \notin Calls /\ None \in Indices
      /\ resolveMu = None => \A d \in Calls : pc[d] \notin Resolving
      /\ MutexInv' /\ GoroutineInv' /\ \A d \in Calls : WaitInv(d)'
  BY <1>1, <1>2, HolderMoves DEF mutexes, identity
<1>4. EventInv' /\ dropped' \in [Calls -> Nat] /\ batch' \in [Calls -> Seq(Calls)]
  BY PanickedEvents
<1>5. TypeInv'
  <2>1. holdSeq' \in HoldSeqs /\ curHoldIdx' \in Nat
    BY <1>1 DEF IndInv, TypeInv, HoldSeqs, IsActiveSeq, NextHoldIdx, ActiveSeq, IdleSeq, hold
  <2>2. pending' \in Seq(Calls) /\ enqueues' \in Nat
    BY <1>1
  <2>. QED  BY <1>1, <1>3, <1>4, <2>1, <2>2 DEF IndInv, TypeInv, mutexes, hold, registration, queue, identity, locals, history
<1>6. HoldInv'
  BY <1>1, <1>3 DEF IndInv, TypeInv, HoldSeqs, HoldInv, IsActiveSeq, NextHoldIdx, ActiveSeq, IdleSeq,
     Beginning, Ending, Reachable, hold, registration, identity
<1>7. ASSUME NEW d \in Calls
      PROVE  ContendInv(d)'
  <2>1. pc'[d] \in {"matchCheck", "enqueue"} => MatchInv(d)'
    <3>1. /\ TypeInv /\ HoldInv
          /\ pc[d] \in {"matchCheck", "enqueue"} => MatchInv(d)
      BY MatchHolds
    <3>. QED  BY <1>1, <1>3, <3>1 DEF TypeInv, HoldSeqs, HoldInv, MatchInv, FastPhase,
         IsActiveSeq, NextHoldIdx, ActiveSeq, IdleSeq, Beginning, Ending, Reachable, hold, registration, locals
  <2>2. pc'[d] = "enqueue" /\ holdSeq' = matched'[d] =>
          holderGID' # None /\ holderGID' = holder'[d]
    BY <1>1, <1>seq, <1>3 DEF IndInv, ContendInv, HoldInv, MatchInv, FastPhase,
       IsActiveSeq, NextHoldIdx, Beginning, Ending, Reachable, hold, registration, locals
  <2>. QED  BY <1>1, <1>3, <2>1, <2>2 DEF IndInv, TypeInv, HoldSeqs, ContendInv, HoldInv,
         IsActiveSeq, NextHoldIdx, ActiveSeq, IdleSeq, Beginning, Ending, Reachable, Resolving,
         hold, registration, identity, locals
<1>. QED  BY <1>3, <1>4, <1>5, <1>6, <1>7 DEF IndInv

-----------------------------------------------------------------------------
(* Steps of a caller that does not hold evictCallbackMu                    *)

\* A caller moves on beside the holder, or takes the free mutex.
LEMMA CallerMoves ==
    ASSUME IndInv, NEW c \in Calls, NEW s \in Stages, Goto(c, s),
           pc[c] \notin Holding, Active(c), s # "none",
           \/ s \notin Holding /\ mu' = mu
           \/ s \in Holding /\ mu = None /\ mu' = c,
           \/ resolveMu' = resolveMu
           \/ resolveMu = None /\ resolveMu' = c
           \/ resolveMu = c /\ resolveMu' = None,
           s \in Resolving <=> resolveMu' = c,
           UNCHANGED identity
    PROVE  /\ mu # c /\ gid[c] \in Calls /\ None \notin Calls /\ None \in Indices
           /\ mu # None => mu \in Calls /\ gid[mu] \in Calls
           /\ Stage' = IF mu' = mu THEN Stage ELSE s
           /\ pc'[c] = s /\ \A d \in Calls \ {c} : pc'[d] = pc[d]
           /\ pc' \in [Calls -> Stages]
           /\ \A d \in Calls : pc[d] \in Resolving <=> resolveMu = d
           /\ MutexInv' /\ GoroutineInv'
<1>1. /\ None \notin Calls /\ None \in Indices /\ pc \in [Calls -> Stages]
      /\ pc' = [pc EXCEPT ![c] = s] /\ mu \in Indices
      /\ mu # None => mu \in Calls
  <2>1. pc \in [Calls -> Stages] /\ pc' = [pc EXCEPT ![c] = s] /\ mu \in Indices
    BY DEF IndInv, TypeInv, Goto
  <2>. QED  BY <2>1, CallsAssumption DEF None, Calls, Indices
<1>2. /\ \A d \in Calls : pc[d] \in Resolving <=> resolveMu = d
      /\ \A d \in Calls : pc[d] \in Holding <=> mu = d
  BY DEF IndInv, MutexInv
<1>3. mu # c
  BY <1>2
<1>4. \A d \in Calls : pc[d] # "none" => gid[d] \in Calls
  BY CallsAssumption DEF IndInv, GoroutineInv, Calls
<1>5. "none" \notin Holding
  BY DEF Holding, Beginning, Ending, Reachable
<1>6. gid[c] \in Calls /\ (mu # None => gid[mu] \in Calls)
  BY <1>1, <1>2, <1>4, <1>5 DEF Active
<1>7. Stage' = IF mu' = mu THEN Stage ELSE s
  BY <1>1, <1>3 DEF Stage
<1>8. MutexInv'
  <2>1. s \in Holding <=> mu' = c
    BY <1>3
  <2>. QED  BY <2>1, MutexStep
<1>9. GoroutineInv'
  BY GoroutineStep
<1>. QED  BY <1>1, <1>2, <1>3, <1>6, <1>7, <1>8, <1>9

\* A free mutex is taken: nothing is left of the hold before.
LEMMA AcquireInductive ==
    ASSUME IndInv, NEW c \in Calls, NEW s \in Beginning, Goto(c, s),
           \/ pc[c] \in {"tryLock", "lockWait"} /\ s \in {"begin", "beginWaited"}
           \/ pc[c] \in {"tryFast", "trySlow"} /\ s \in {"beginPrepare", "beginDrain"},
           mu = None, mu' = c,
           UNCHANGED <<resolveMu, hold, registration, queue, identity, locals, history>>
    PROVE  IndInv'
<1>1. /\ s \in Stages /\ s # "none" /\ s \in Holding /\ s \notin Resolving
      /\ pc[c] \notin Holding /\ pc[c] \notin Resolving /\ Active(c) /\ Stage = "free"
  BY DEF Stages, Holding, Beginning, Ending, Reachable, Resolving, Active, Stage
<1>2. s \in Resolving <=> resolveMu' = c
  BY <1>1 DEF IndInv, MutexInv
<1>3. /\ mu # c /\ gid[c] \in Calls /\ None \notin Calls /\ None \in Indices
      /\ Stage' = s
      /\ pc'[c] = s /\ \A d \in Calls \ {c} : pc'[d] = pc[d]
      /\ pc' \in [Calls -> Stages]
      /\ MutexInv' /\ GoroutineInv'
  <2>1. mu' # mu
    BY DEF None, Calls
  <2>. QED  BY <1>1, <1>2, <2>1, CallerMoves
<1>4. \A d \in Calls : WaitInv(d)'
  BY <1>1, WaitStep DEF identity
<1>5. TypeInv'
  <2>1. mu' \in Indices
    BY CallsAssumption DEF Indices, Calls
  <2>. QED  BY <1>3, <2>1 DEF IndInv, TypeInv, hold, registration, queue, identity, locals, history
<1>6. EventInv'
  BY <1>1, EventStep DEF locals, queue, identity, history, After, Before, Stages,
     Beginning, Ending, Reachable, Holding, Contending, Resolving
<1>7. HoldInv'
  BY <1>1, <1>3 DEF IndInv, HoldInv, IsActiveSeq, Beginning, Ending, Reachable, hold, registration, identity
<1>8. ASSUME NEW d \in Calls
      PROVE  ContendInv(d)'
  <2>1. pc'[d] \in {"matchCheck", "enqueue"} => MatchInv(d)'
    BY <1>1, <1>3 DEF IndInv, TypeInv, HoldSeqs, ContendInv, HoldInv, MatchInv, FastPhase,
       IsActiveSeq, Beginning, hold, registration, locals
  <2>. QED  BY <1>1, <1>3, <2>1 DEF IndInv, ContendInv, Beginning, Ending, Reachable,
         hold, registration, identity, locals
<1>. QED  BY <1>3, <1>4, <1>5, <1>6, <1>7, <1>8 DEF IndInv

\* A caller goes on without the mutexes and leaves everything as it is.
LEMMA PassInductive ==
    ASSUME IndInv, NEW c \in Calls, NEW s \in {"slow", "tryFast", "trySlow", "done"}, Goto(c, s),
           \/ pc[c] \in {"tryLock", "enqueue"} /\ s = "slow"
           \/ pc[c] \in {"postFast", "postSlow", "tryFast", "trySlow"} /\ s # "slow",
           UNCHANGED <<mutexes, hold, registration, queue, identity, locals, history>>
    PROVE  IndInv'
<1>1. /\ s \in Stages /\ s # "none" /\ s \notin Holding /\ s \notin Resolving
      /\ pc[c] \notin Holding /\ pc[c] \notin Resolving /\ Active(c)
      /\ mu' = mu /\ resolveMu' = resolveMu
  BY DEF Stages, Holding, Beginning, Ending, Reachable, Resolving, Contending, Active, mutexes
<1>2. s \in Resolving <=> resolveMu' = c
  BY <1>1 DEF IndInv, MutexInv
<1>3. /\ mu # c /\ Stage' = Stage
      /\ pc'[c] = s /\ \A d \in Calls \ {c} : pc'[d] = pc[d]
      /\ pc' \in [Calls -> Stages]
      /\ MutexInv' /\ GoroutineInv'
  BY <1>1, <1>2, CallerMoves
<1>4. ASSUME NEW d \in Calls
      PROVE  WaitInv(d)'
  <2>1. CASE d # c
    BY <1>1, <1>3, <2>1 DEF IndInv, WaitInv, Active, hold, registration, identity, locals
  <2>2. CASE d = c /\ s = "slow"
    BY <1>1, <1>3, <2>2 DEF IndInv, WaitInv, Active, Contending, hold, registration, identity, locals
  <2>3. CASE d = c /\ s # "slow"
    <3>1. pc[c] \notin Contending
      BY <2>3 DEF Contending, Resolving
    <3>. QED  BY <1>1, <1>3, <2>3, <3>1 DEF IndInv, WaitInv, identity
  <2>. QED  BY <2>1, <2>2, <2>3
<1>5. TypeInv'
  BY <1>3 DEF IndInv, TypeInv, mutexes, hold, registration, queue, identity, locals, history
<1>6. EventInv'
  BY <1>1, EventStep DEF locals, queue, identity, history, After, Before, Stages,
     Beginning, Ending, Reachable, Holding, Contending, Resolving
<1>7. HoldInv'
  BY <1>1, <1>3 DEF IndInv, HoldInv, hold, registration, identity
<1>8. ASSUME NEW d \in Calls
      PROVE  ContendInv(d)'
  <2>1. pc'[d] \in {"matchCheck", "enqueue"} => MatchInv(d)'
    BY <1>1, <1>3 DEF IndInv, ContendInv, MatchInv, FastPhase, hold, locals
  <2>. QED  BY <1>1, <1>3, <2>1 DEF IndInv, ContendInv, hold, registration, identity, locals
<1>. QED  BY <1>3, <1>4, <1>5, <1>6, <1>7, <1>8 DEF IndInv

\* invokeNonEmpty's TryLock.
LEMMA TryLockInductive ==
    ASSUME IndInv, NEW c \in Calls, TryLock(c)
    PROVE  IndInv'
<1>1. CASE mu = None
  BY <1>1, AcquireInductive DEF TryLock, Beginning
<1>2. CASE mu # None
  BY <1>2, PassInductive DEF TryLock, mutexes
<1>. QED  BY <1>1, <1>2

\* Another look at the queue after the unlock.
LEMMA PostUnlockInductive ==
    ASSUME IndInv, NEW c \in Calls, PostUnlock(c)
    PROVE  IndInv'
  BY PassInductive DEF PostUnlock

\* The TryLock after an operation, when another goroutine may hold the queue.
LEMMA PostTryLockInductive ==
    ASSUME IndInv, NEW c \in Calls, PostTryLock(c)
    PROVE  IndInv'
<1>1. CASE mu = None
  BY <1>1, AcquireInductive DEF PostTryLock, Beginning
<1>2. CASE mu # None
  BY <1>2, PassInductive DEF PostTryLock, mutexes
<1>. QED  BY <1>1, <1>2

\* A caller that waited gets the mutex.
LEMMA LockWaitInductive ==
    ASSUME IndInv, NEW c \in Calls, LockWait(c)
    PROVE  IndInv'
  BY AcquireInductive DEF LockWait, Beginning

-----------------------------------------------------------------------------
(* Steps of a contender                                                    *)

\* A call on the holder's goroutine beside the holder was made by its callback.
LEMMA HolderGoroutine ==
    ASSUME IndInv, NEW c \in Calls, Active(c), mu # None, mu # c, gid[mu] = gid[c]
    PROVE  kind[c] = "self"
<1>1. mu \in Calls /\ pc[mu] \in Holding
  BY DEF IndInv, TypeInv, MutexInv, Indices, Calls, None
<1>2. Active(mu) /\ pc[mu] \notin Contending
  BY <1>1 DEF Active, Holding, Beginning, Ending, Reachable, Contending, Resolving
<1>3. kind[mu] # "self"
  BY <1>1, <1>2 DEF IndInv, WaitInv
<1>. QED  BY <1>1, <1>2, <1>3 DEF IndInv, GoroutineInv

\* While a callback runs its hold is published and can be found.
LEMMA CallbackIsFound ==
    ASSUME IndInv, Stage \in {"deliver", "pendingCallback"}
    PROVE  /\ mu \in Calls /\ gid[mu] \in Calls /\ gid[mu] # None
           /\ IsActiveSeq(holdSeq) /\ holdSeq.idx = curHoldIdx /\ IsEvictCallbackActive
           /\ holderGID = None => Stage = "deliver" /\ FastFrame = gid[mu]
           /\ holderGID # None => holderGID = gid[mu]
<1>1. mu \in Calls /\ mu # None /\ pc[mu] = Stage
  BY DEF Stage, IndInv, TypeInv, Indices, Calls, None
<1>2. gid[mu] \in Calls /\ gid[mu] # None
  BY <1>1, CallsAssumption DEF IndInv, GoroutineInv, Calls, None
<1>3. /\ IsActiveSeq(holdSeq) /\ holdSeq.idx = curHoldIdx
      /\ holderGID # None => holderGID = gid[mu]
      /\ active => holderGID # None
      /\ Stage = "deliver" => (holdSeq.mode = "fast" <=> ~active)
      /\ Stage = "pendingCallback" => active
  BY DEF IndInv, HoldInv, Reachable
<1>. QED  BY <1>1, <1>2, <1>3 DEF IsEvictCallbackActive, HasFastTag, FastFrame

\* resolveActiveEvictCallbackHolder
LEMMA SlowInductive ==
    ASSUME IndInv, NEW c \in Calls, Slow(c)
    PROVE  IndInv'
<1>. DEFINE h == holder'[c]
<1>1. /\ pc[c] = "slow" /\ pc'[c] \in {"match", "resolve"} /\ Goto(c, pc'[c])
      /\ holder' = [holder EXCEPT ![c] = h] /\ holder'[c] = h /\ active' = active
      /\ UNCHANGED <<mutexes, hold, queue, identity, matched, batch, history>>
      /\ \/ holderGID # None /\ h = holderGID /\ UNCHANGED registration /\ pc'[c] = "match"
         \/ /\ holderGID = None /\ FastFrame = gid[c] /\ resolveMu = None
            /\ contended' = TRUE /\ holderGID' = gid[c] /\ h = gid[c] /\ pc'[c] = "match"
         \/ /\ holderGID = None /\ FastFrame # gid[c] /\ h = None /\ UNCHANGED registration
            /\ pc'[c] = IF IsEvictCallbackActive THEN "resolve" ELSE "match"
  <2>1. pc \in [Calls -> Stages] /\ holder \in [Calls -> Indices]
    BY DEF IndInv, TypeInv
  <2>. QED  BY <2>1 DEF Slow, Goto, registration
<1>. HIDE DEF h
<1>2. PICK s \in {"match", "resolve"} : s = pc'[c]
  BY <1>1
<1>3. /\ s \in Stages /\ s # "none" /\ s \notin Holding /\ s \notin Resolving /\ Goto(c, s)
      /\ pc[c] \notin Holding /\ pc[c] \notin Resolving /\ Active(c)
      /\ mu' = mu /\ resolveMu' = resolveMu
  BY <1>1, <1>2 DEF Stages, Holding, Beginning, Ending, Reachable, Resolving, Contending, Active, mutexes
<1>4. s \in Resolving <=> resolveMu' = c
  BY <1>3 DEF IndInv, MutexInv
<1>5. /\ mu # c /\ gid[c] \in Calls /\ None \notin Calls /\ None \in Indices
      /\ mu # None => mu \in Calls /\ gid[mu] \in Calls
      /\ Stage' = Stage
      /\ pc'[c] = s /\ \A d \in Calls \ {c} : pc'[d] = pc[d]
      /\ pc' \in [Calls -> Stages]
      /\ \A d \in Calls : pc[d] \in Resolving <=> resolveMu = d
      /\ MutexInv' /\ GoroutineInv'
  BY <1>1, <1>3, <1>4, CallerMoves
<1>6. FastFrame = gid[c] => mu # None /\ gid[mu] = gid[c] /\ Stage = "deliver" /\ ~active
  BY <1>5 DEF FastFrame, HasFastTag, Stage
<1>7. h = gid[c] => mu # None /\ gid[mu] = gid[c]
  BY <1>1, <1>5, <1>6 DEF IndInv, HoldInv
<1>8. h \in Indices /\ holderGID' \in Indices
  BY <1>1, <1>5 DEF IndInv, TypeInv, registration, Indices, Calls
<1>9. TypeInv'
  <2>1. holder' \in [Calls -> Indices] /\ contended' \in BOOLEAN
    BY <1>1, <1>8 DEF IndInv, TypeInv, registration
  <2>. QED  BY <1>1, <1>5, <1>8, <2>1
         DEF IndInv, TypeInv, mutexes, hold, queue, identity, history
<1>10. EventInv'
  BY <1>1, <1>2, <1>3, EventStep DEF queue, identity, history, Before, Contending
<1>11. HoldInv'
  BY <1>1, <1>3, <1>5, <1>6 DEF IndInv, HoldInv, IsActiveSeq, IdleSeq, Beginning, Ending,
     Reachable, hold, registration, identity
<1>12. \A d \in Calls \ {c} : holder'[d] = holder[d]
  BY <1>1 DEF IndInv, TypeInv
<1>13. ASSUME NEW d \in Calls
       PROVE  ContendInv(d)'
  <2>1. CASE d = c
    <3>1. h = gid[c] => kind[c] = "self"
      BY <1>3, <1>5, <1>7, HolderGoroutine
    <3>. QED  BY <1>1, <1>2, <1>5, <2>1, <3>1 DEF ContendInv, identity
  <2>2. CASE d # c
    <3>1. pc'[d] = pc[d] /\ holder'[d] = holder[d]
      BY <1>5, <1>12, <2>2
    <3>2. pc'[d] \in {"matchCheck", "enqueue"} => MatchInv(d)'
      BY <1>1, <1>5, <3>1 DEF IndInv, ContendInv, MatchInv, FastPhase, hold
    <3>3. holderGID # None => holderGID' = holderGID
      BY <1>1 DEF registration
    <3>4. pc[d] \in Resolving => holderGID' = holderGID /\ contended' = contended
      BY <1>1, <1>5 DEF registration, Calls, None
    <3>. QED  BY <1>1, <1>3, <1>5, <3>1, <3>2, <3>3, <3>4
           DEF IndInv, ContendInv, Resolving, hold, identity
  <2>. QED  BY <2>1, <2>2
<1>14. ASSUME NEW d \in Calls
       PROVE  WaitInv(d)'
  <2>. SUFFICES ASSUME kind[d] \in {"self", "awaited"}, Active(d)'
                PROVE  WaitInv(d)'
    BY <1>1 DEF WaitInv, identity
  <2>1. Active(d) /\ WaitInv(d) /\ Stage \in {"deliver", "pendingCallback"} /\ mu # None
    BY <1>3, <1>5 DEF Active, IndInv, WaitInv
  <2>2. /\ gid[mu] # None /\ IsEvictCallbackActive
        /\ holderGID = None => Stage = "deliver" /\ FastFrame = gid[mu]
        /\ holderGID # None => holderGID = gid[mu]
    BY <2>1, CallbackIsFound
  <2>3. CASE d = c
    <3>1. pc'[c] = "match" => h = gid[mu] /\ holderGID' = gid[mu]
      BY <1>1, <1>6, <2>2 DEF registration
    <3>. QED  BY <1>1, <1>2, <1>3, <1>5, <2>1, <2>3, <3>1
           DEF WaitInv, Contending, hold, identity
  <2>4. CASE d # c
    <3>1. pc'[d] = pc[d] /\ holder'[d] = holder[d]
      BY <1>5, <1>12, <2>4
    <3>2. holderGID = gid[mu] => holderGID' = gid[mu]
      BY <1>1, <2>2 DEF registration
    <3>. QED  BY <1>1, <1>3, <1>5, <2>1, <3>1, <3>2 DEF WaitInv, hold, identity
  <2>. QED  BY <2>3, <2>4
<1>. QED  BY <1>5, <1>9, <1>10, <1>11, <1>13, <1>14 DEF IndInv

\* A contender announces itself before it looks for the holder.
LEMMA ResolveInductive ==
    ASSUME IndInv, NEW c \in Calls, Resolve(c)
    PROVE  IndInv'
<1>. DEFINE s == "resolveTest"
<1>1. /\ pc[c] = "resolve" /\ Goto(c, s) /\ s = "resolveTest"
      /\ resolveMu = None /\ resolveMu' = c /\ contended' = TRUE
      /\ mu' = mu /\ holderGID' = holderGID /\ active' = active
      /\ UNCHANGED <<hold, queue, identity, locals, history>>
  BY DEF Resolve
<1>. HIDE DEF s
<1>2. /\ s \in Stages /\ s # "none" /\ s \notin Holding /\ s \in Resolving
      /\ pc[c] \notin Holding /\ Active(c)
  BY <1>1 DEF Stages, Holding, Beginning, Ending, Reachable, Resolving, Contending, Active
<1>3. /\ mu # c /\ None \notin Calls /\ Stage' = Stage
      /\ pc'[c] = s /\ \A d \in Calls \ {c} : pc'[d] = pc[d]
      /\ pc' \in [Calls -> Stages]
      /\ \A d \in Calls : pc[d] \in Resolving <=> resolveMu = d
      /\ MutexInv' /\ GoroutineInv'
  BY <1>1, <1>2, CallerMoves
<1>4. TypeInv'
  <2>1. resolveMu' \in Indices
    BY <1>1, CallsAssumption DEF Indices, Calls
  <2>. QED  BY <1>1, <1>3, <2>1 DEF IndInv, TypeInv, hold, queue, identity, locals, history
<1>5. EventInv'
  BY <1>1, <1>2, EventStep DEF queue, identity, locals, history, Before, Contending, Resolving
<1>6. HoldInv'
  <2>1. resolveMu' # None
    BY <1>1, <1>3
  <2>. QED  BY <1>1, <1>3, <2>1 DEF IndInv, HoldInv, hold, identity
<1>7. ASSUME NEW d \in Calls
      PROVE  ContendInv(d)' /\ WaitInv(d)'
  <2>1. pc'[d] \in {"matchCheck", "enqueue"} => MatchInv(d)'
    BY <1>1, <1>3 DEF IndInv, ContendInv, MatchInv, FastPhase, hold, locals
  <2>2. ContendInv(d)'
    BY <1>1, <1>3, <2>1 DEF IndInv, ContendInv, hold, identity, locals
  <2>3. WaitInv(d)'
    BY <1>1, <1>2, <1>3 DEF IndInv, WaitInv, Active, Contending, hold, identity, locals
  <2>. QED  BY <2>2, <2>3
<1>. QED  BY <1>3, <1>4, <1>5, <1>6, <1>7 DEF IndInv

\* resolveEvictCallbackHolderFromAllStacksLocked looks at the hold.
LEMMA ResolveTestInductive ==
    ASSUME IndInv, NEW c \in Calls, ResolveTest(c)
    PROVE  IndInv'
<1>. DEFINE h == holder'[c]
            found == IsEvictCallbackActive /\ holderGID = None /\ FastFrame # None
            s == IF found THEN "resolveStore" ELSE "match"
<1>1. /\ pc[c] = "resolveTest" /\ Goto(c, s)
      /\ s = IF found THEN "resolveStore" ELSE "match"
      /\ holder' = [holder EXCEPT ![c] = h] /\ holder'[c] = h
      /\ contended' = (IsEvictCallbackActive \/ holderGID # None)
      /\ found => h = FastFrame /\ resolveMu' = resolveMu
      /\ ~found => /\ h = IF IsEvictCallbackActive THEN holderGID ELSE None
                   /\ resolveMu' = None
      /\ mu' = mu /\ holderGID' = holderGID /\ active' = active
      /\ UNCHANGED <<hold, queue, identity, matched, batch, history>>
  <2>1. holder \in [Calls -> Indices]
    BY DEF IndInv, TypeInv
  <2>. QED  BY <2>1 DEF ResolveTest
<1>. HIDE DEF h, s
<1>2. /\ s \in Stages /\ s # "none" /\ s \notin Holding
      /\ pc[c] \notin Holding /\ Active(c) /\ pc[c] \in Resolving
      /\ s \in Resolving <=> found
  BY <1>1 DEF Stages, Holding, Beginning, Ending, Reachable, Resolving, Contending, Active
<1>3. resolveMu = c /\ c # None
  BY <1>2 DEF IndInv, MutexInv, Calls, None
<1>4. /\ s \in Resolving <=> resolveMu' = c
      /\ \/ resolveMu' = resolveMu
         \/ resolveMu = c /\ resolveMu' = None
  BY <1>1, <1>2, <1>3
<1>5. /\ mu # c /\ gid[c] \in Calls /\ None \notin Calls /\ None \in Indices
      /\ mu # None => mu \in Calls /\ gid[mu] \in Calls
      /\ Stage' = Stage
      /\ pc'[c] = s /\ \A d \in Calls \ {c} : pc'[d] = pc[d]
      /\ pc' \in [Calls -> Stages]
      /\ \A d \in Calls : pc[d] \in Resolving <=> resolveMu = d
      /\ MutexInv' /\ GoroutineInv'
  BY <1>1, <1>2, <1>4, CallerMoves
<1>6. found => /\ mu # None /\ gid[mu] = FastFrame /\ Stage = "deliver" /\ ~active
               /\ holdSeq.mode = "fast"
  BY <1>5 DEF FastFrame, HasFastTag, Stage
<1>7. h = gid[c] => mu # None /\ gid[mu] = gid[c]
  BY <1>1, <1>5, <1>6 DEF IndInv, HoldInv
<1>8. h \in Indices
  <2>1. Calls \subseteq Indices /\ holderGID \in Indices
    BY CallsAssumption DEF IndInv, TypeInv, Indices, Calls
  <2>. QED  BY <1>1, <1>5, <1>6, <2>1
<1>9. TypeInv'
  <2>1. holder' \in [Calls -> Indices] /\ contended' \in BOOLEAN /\ resolveMu' \in Indices
    BY <1>1, <1>5, <1>8 DEF IndInv, TypeInv
  <2>. QED  BY <1>1, <1>5, <2>1 DEF IndInv, TypeInv, hold, queue, identity, history
<1>10. EventInv'
  BY <1>1, <1>2, EventStep DEF queue, identity, history, Before, Contending, Resolving
<1>11. HoldInv'
  <2>1. Stage \in {"free"} \cup Beginning \cup Ending => ~contended'
    BY <1>1 DEF IndInv, HoldInv, IsEvictCallbackActive, HasFastTag, IsActiveSeq
  <2>2. holderGID # None => contended'
    BY <1>1
  <2>. QED  BY <1>1, <1>5, <2>1, <2>2 DEF IndInv, HoldInv, hold, identity
<1>12. \A d \in Calls \ {c} : holder'[d] = holder[d] /\ pc[d] \notin Resolving
  BY <1>1, <1>3, <1>5 DEF IndInv, TypeInv
<1>13. ASSUME NEW d \in Calls
       PROVE  ContendInv(d)'
  <2>1. CASE d = c
    <3>1. h = gid[c] => kind[c] = "self"
      BY <1>2, <1>5, <1>7, HolderGoroutine
    <3>. QED  BY <1>1, <1>5, <1>6, <2>1, <3>1 DEF ContendInv, hold, identity
  <2>2. CASE d # c
    <3>1. pc'[d] = pc[d] /\ holder'[d] = holder[d] /\ pc[d] \notin Resolving
      BY <1>5, <1>12, <2>2
    <3>2. pc'[d] \in {"matchCheck", "enqueue"} => MatchInv(d)'
      BY <1>1, <1>5, <3>1 DEF IndInv, ContendInv, MatchInv, FastPhase, hold
    <3>. QED  BY <1>1, <1>5, <3>1, <3>2 DEF IndInv, ContendInv, Resolving, hold, identity
  <2>. QED  BY <2>1, <2>2
<1>14. ASSUME NEW d \in Calls
       PROVE  WaitInv(d)'
  <2>. SUFFICES ASSUME kind[d] \in {"self", "awaited"}, Active(d)'
                PROVE  WaitInv(d)'
    BY <1>1 DEF WaitInv, identity
  <2>1. Active(d) /\ WaitInv(d) /\ Stage \in {"deliver", "pendingCallback"} /\ mu # None
    BY <1>2, <1>5 DEF Active, IndInv, WaitInv
  <2>2. /\ gid[mu] # None /\ IsEvictCallbackActive
        /\ holderGID = None => Stage = "deliver" /\ FastFrame = gid[mu]
        /\ holderGID # None => holderGID = gid[mu]
    BY <2>1, CallbackIsFound
  <2>3. CASE d = c
    <3>1. pc'[c] = "match" => h = gid[mu] /\ holderGID' = gid[mu]
      BY <1>1, <1>5, <2>2
    <3>2. pc'[c] \in Contending /\ pc'[c] \notin {"matchCheck", "enqueue"}
      BY <1>1, <1>5 DEF Contending, Resolving
    <3>. QED  BY <1>1, <1>5, <2>1, <2>3, <3>1, <3>2 DEF WaitInv, hold, identity
  <2>4. CASE d # c
    <3>1. pc'[d] = pc[d] /\ holder'[d] = holder[d]
      BY <1>5, <1>12, <2>4
    <3>. QED  BY <1>1, <1>5, <2>1, <3>1 DEF WaitInv, hold, identity
  <2>. QED  BY <2>3, <2>4
<1>. QED  BY <1>5, <1>9, <1>10, <1>11, <1>13, <1>14 DEF IndInv

\* matchCandidateEvictCallbackGID registers the holder.
LEMMA ResolveStoreInductive ==
    ASSUME IndInv, NEW c \in Calls, ResolveStore(c)
    PROVE  IndInv'
<1>. DEFINE s == "match"
<1>1. /\ pc[c] = "resolveStore" /\ Goto(c, s) /\ s = "match" /\ resolveMu' = None
      /\ mu' = mu /\ active' = active /\ contended' = contended
      /\ UNCHANGED <<hold, queue, identity, matched, batch, history>>
      /\ IsEvictCallbackActive => holderGID' = holder[c] /\ UNCHANGED holder
  BY DEF ResolveStore
<1>. HIDE DEF s
<1>2. /\ contended /\ holderGID = None /\ holder[c] # None
      /\ mu # None /\ holder[c] = gid[mu]
      /\ Stage \in {"deliver", "fastCheck", "prepare", "prepareActive", "panicked"}
      /\ holdSeq.mode = "fast" /\ ~active
      /\ holder[c] = gid[c] => kind[c] = "self"
  BY <1>1 DEF IndInv, ContendInv
<1>3. holderGID' = holder[c] /\ UNCHANGED holder
  BY <1>1, <1>2 DEF IsEvictCallbackActive, HasFastTag
<1>4. /\ s \in Stages /\ s # "none" /\ s \notin Holding /\ s \notin Resolving
      /\ pc[c] \notin Holding /\ Active(c) /\ pc[c] \in Resolving
  BY <1>1 DEF Stages, Holding, Beginning, Ending, Reachable, Resolving, Contending, Active
<1>5. resolveMu = c /\ c # None
  BY <1>4 DEF IndInv, MutexInv, Calls, None
<1>6. s \in Resolving <=> resolveMu' = c
  BY <1>1, <1>4, <1>5
<1>7. /\ mu # c /\ None \notin Calls /\ None \in Indices
      /\ Stage' = Stage
      /\ pc'[c] = s /\ \A d \in Calls \ {c} : pc'[d] = pc[d]
      /\ pc' \in [Calls -> Stages]
      /\ \A d \in Calls : pc[d] \in Resolving <=> resolveMu = d
      /\ MutexInv' /\ GoroutineInv'
  BY <1>1, <1>4, <1>5, <1>6, CallerMoves
<1>8. TypeInv'
  <2>1. holderGID' \in Indices /\ resolveMu' \in Indices
    BY <1>1, <1>3, <1>7 DEF IndInv, TypeInv
  <2>. QED  BY <1>1, <1>3, <1>7, <2>1 DEF IndInv, TypeInv, hold, queue, identity, history
<1>9. EventInv'
  BY <1>1, <1>4, EventStep DEF queue, identity, history, Before, Contending, Resolving
<1>10. HoldInv'
  BY <1>1, <1>2, <1>3, <1>7 DEF IndInv, HoldInv, IsActiveSeq, IdleSeq, Beginning, Ending,
     Reachable, hold, identity
<1>11. ASSUME NEW d \in Calls
       PROVE  ContendInv(d)' /\ WaitInv(d)'
  <2>1. pc'[d] \in {"matchCheck", "enqueue"} => MatchInv(d)'
    BY <1>1, <1>3, <1>7 DEF IndInv, ContendInv, MatchInv, FastPhase, hold
  <2>2. pc'[d] \notin Resolving
    BY <1>4, <1>5, <1>7
  <2>3. ContendInv(d)'
    BY <1>1, <1>2, <1>3, <1>7, <2>1, <2>2 DEF IndInv, ContendInv, Resolving, hold, identity
  <2>4. WaitInv(d)'
    BY <1>1, <1>2, <1>3, <1>4, <1>7 DEF IndInv, WaitInv, Active, Contending, hold, identity
  <2>. QED  BY <2>3, <2>4
<1>. QED  BY <1>7, <1>8, <1>9, <1>10, <1>11 DEF IndInv

\* isContendedCallerEvictChild reads the sequence of the hold.
LEMMA MatchInductive ==
    ASSUME IndInv, NEW c \in Calls, Match(c)
    PROVE  IndInv'
<1>. DEFINE s == IF holder[c] # None /\ IsActiveSeq(holdSeq) THEN "matchCheck" ELSE "lockWait"
<1>1. /\ pc[c] = "match" /\ Goto(c, s)
      /\ s = IF holder[c] # None /\ IsActiveSeq(holdSeq) THEN "matchCheck" ELSE "lockWait"
      /\ matched' = [matched EXCEPT ![c] = holdSeq]
      /\ UNCHANGED <<mutexes, hold, registration, queue, identity, holder, batch, history>>
  BY DEF Match
<1>. HIDE DEF s
<1>2. /\ s \in Stages /\ s # "none" /\ s \notin Holding /\ s \notin Resolving
      /\ pc[c] \notin Holding /\ Active(c) /\ pc[c] \notin Resolving
      /\ mu' = mu /\ resolveMu' = resolveMu
  BY <1>1 DEF Stages, Holding, Beginning, Ending, Reachable, Resolving, Contending, Active, mutexes
<1>3. s \in Resolving <=> resolveMu' = c
  BY <1>2 DEF IndInv, MutexInv
<1>4. /\ mu # c /\ Stage' = Stage
      /\ pc'[c] = s /\ \A d \in Calls \ {c} : pc'[d] = pc[d]
      /\ pc' \in [Calls -> Stages]
      /\ MutexInv' /\ GoroutineInv'
  BY <1>1, <1>2, <1>3, CallerMoves
<1>5. /\ matched' \in [Calls -> HoldSeqs] /\ matched'[c] = holdSeq
      /\ \A d \in Calls \ {c} : matched'[d] = matched[d]
  BY <1>1 DEF IndInv, TypeInv
<1>6. TypeInv'
  BY <1>1, <1>4, <1>5 DEF IndInv, TypeInv, mutexes, hold, registration, queue, identity, history
<1>7. EventInv'
  BY <1>1, <1>2, EventStep DEF queue, identity, history, Before, Contending
<1>8. HoldInv'
  BY <1>1, <1>2, <1>4 DEF IndInv, HoldInv, hold, registration, identity
<1>9. ASSUME NEW d \in Calls
      PROVE  ContendInv(d)'
  <2>1. CASE d = c
    <3>1. s = "matchCheck" => MatchInv(c)'
      BY <1>1, <1>4, <1>5 DEF IndInv, HoldInv, MatchInv, FastPhase, IsActiveSeq, IdleSeq, hold
    <3>. QED  BY <1>1, <1>2, <1>4, <1>5, <2>1, <3>1
           DEF IndInv, ContendInv, identity, Resolving
  <2>2. CASE d # c
    <3>1. pc'[d] \in {"matchCheck", "enqueue"} => MatchInv(d)'
      BY <1>1, <1>4, <1>5, <2>2 DEF IndInv, ContendInv, MatchInv, FastPhase, hold
    <3>. QED  BY <1>1, <1>2, <1>4, <1>5, <2>2, <3>1
           DEF IndInv, ContendInv, hold, registration, identity
  <2>. QED  BY <2>1, <2>2
<1>10. ASSUME NEW d \in Calls
       PROVE  WaitInv(d)'
  <2>1. CASE d = c
    <3>. SUFFICES ASSUME kind[c] \in {"self", "awaited"}
                  PROVE  WaitInv(c)'
      BY <1>1, <2>1 DEF WaitInv, identity
    <3>1. /\ WaitInv(c) /\ Stage \in {"deliver", "pendingCallback"}
          /\ holder[c] = gid[mu]
      BY <1>1, <1>2 DEF IndInv, WaitInv
    <3>2. gid[mu] # None /\ IsActiveSeq(holdSeq)
      BY <3>1, CallbackIsFound
    <3>3. s = "matchCheck"
      BY <1>1, <3>1, <3>2
    <3>. QED  BY <1>1, <1>2, <1>4, <1>5, <3>1, <3>3
           DEF WaitInv, Contending, hold, registration, identity
  <2>2. CASE d # c
    BY <1>1, <1>2, <1>4, <1>5, <2>2 DEF IndInv, WaitInv, Active, hold, registration, identity
  <2>. QED  BY <2>1, <2>2
<1>. QED  BY <1>4, <1>6, <1>7, <1>8, <1>9, <1>10 DEF IndInv

\* The lineage of the caller is compared with the hold.
LEMMA MatchCheckInductive ==
    ASSUME IndInv, NEW c \in Calls, MatchCheck(c)
    PROVE  IndInv'
<1>1. /\ pc[c] = "matchCheck"
      /\ UNCHANGED <<mutexes, hold, registration, queue, identity, locals, history>>
  BY DEF MatchCheck
<1>2. PICK isChild \in IF holder[c] = gid[c] THEN {TRUE}
                       ELSE IF holderGID # holder[c] THEN {FALSE}
                       ELSE Answers(c, holder[c], matched[c].idx) :
          Goto(c, IF isChild /\ holdSeq = matched[c] THEN "enqueue" ELSE "lockWait")
  BY DEF MatchCheck
<1>. DEFINE s == IF isChild /\ holdSeq = matched[c] THEN "enqueue" ELSE "lockWait"
<1>3. Goto(c, s) /\ s = IF isChild /\ holdSeq = matched[c] THEN "enqueue" ELSE "lockWait"
  BY <1>2
<1>. HIDE DEF s
<1>4. /\ s \in Stages /\ s # "none" /\ s \notin Holding /\ s \notin Resolving
      /\ pc[c] \notin Holding /\ Active(c) /\ pc[c] \notin Resolving
      /\ mu' = mu /\ resolveMu' = resolveMu
  BY <1>1, <1>3 DEF Stages, Holding, Beginning, Ending, Reachable, Resolving, Contending, Active, mutexes
<1>5. s \in Resolving <=> resolveMu' = c
  BY <1>4 DEF IndInv, MutexInv
<1>6. /\ mu # c /\ gid[c] \in Calls /\ None \notin Calls /\ Stage' = Stage
      /\ pc'[c] = s /\ \A d \in Calls \ {c} : pc'[d] = pc[d]
      /\ pc' \in [Calls -> Stages]
      /\ MutexInv' /\ GoroutineInv'
  BY <1>1, <1>3, <1>4, <1>5, CallerMoves
<1>7. TypeInv'
  BY <1>1, <1>6 DEF IndInv, TypeInv, mutexes, hold, registration, queue, identity, locals, history
<1>8. EventInv'
  BY <1>1, <1>3, <1>4, EventStep DEF queue, identity, locals, history, Before, Contending
<1>9. HoldInv'
  BY <1>1, <1>4, <1>6 DEF IndInv, HoldInv, hold, registration, identity
<1>10. MatchInv(c) /\ (holder[c] = gid[c] => kind[c] = "self")
  BY <1>1 DEF IndInv, ContendInv
<1>11. kind[c] \in {"self", "awaited"} =>
          /\ WaitInv(c) /\ Stage \in {"deliver", "pendingCallback"}
          /\ holder[c] = gid[mu] /\ holderGID = gid[mu] /\ matched[c] = holdSeq
          /\ gid[mu] # None /\ holdSeq.idx = curHoldIdx
          /\ kind[c] = "self" => gid[c] = gid[mu]
          /\ kind[c] = "awaited" => <<gid[mu], curHoldIdx>> \in lineage[gid[c]]
  <2>. SUFFICES ASSUME kind[c] \in {"self", "awaited"}
                PROVE  /\ WaitInv(c) /\ Stage \in {"deliver", "pendingCallback"}
                       /\ holder[c] = gid[mu] /\ holderGID = gid[mu] /\ matched[c] = holdSeq
                       /\ gid[mu] # None /\ holdSeq.idx = curHoldIdx
                       /\ kind[c] = "self" => gid[c] = gid[mu]
                       /\ kind[c] = "awaited" => <<gid[mu], curHoldIdx>> \in lineage[gid[c]]
    OBVIOUS
  <2>1. /\ WaitInv(c) /\ Stage \in {"deliver", "pendingCallback"}
        /\ holder[c] = gid[mu] /\ holderGID = gid[mu] /\ matched[c] = holdSeq
        /\ kind[c] = "self" => gid[c] = gid[mu]
        /\ kind[c] = "awaited" => <<gid[mu], curHoldIdx>> \in lineage[gid[c]]
    BY <1>1, <1>4 DEF IndInv, WaitInv
  <2>. QED  BY <2>1, CallbackIsFound
\* A caller that the callback waits for is recognized,
<1>12. kind[c] \in {"self", "awaited"} => s = "enqueue"
  <2>1. CASE holder[c] = gid[c]
    BY <1>2, <1>3, <1>11, <2>1
  <2>2. CASE holder[c] # gid[c] /\ kind[c] \in {"self", "awaited"}
    <3>1. Answers(c, holder[c], matched[c].idx) = {TRUE}
      BY <1>11, <2>2 DEF Answers
    <3>. QED  BY <1>2, <1>3, <1>11, <2>2, <3>1
  <2>. QED  BY <2>1, <2>2
\* and one that is recognized has met a registered holder and is no outsider.
<1>13. s = "enqueue" =>
          /\ holderGID # None /\ holderGID = holder[c] /\ kind[c] # "root"
          /\ holder[c] = gid[c] \/ <<holder[c], matched[c].idx>> \in lineage[gid[c]]
  <2>1. CASE holder[c] = gid[c]
    BY <1>10, <1>11, <2>1
  <2>2. CASE holder[c] # gid[c] /\ s = "enqueue"
    <3>1. isChild /\ holderGID = holder[c] /\ isChild \in Answers(c, holder[c], matched[c].idx)
      BY <1>2, <1>3, <2>2
    <3>2. <<holder[c], matched[c].idx>> \in lineage[gid[c]]
      BY <3>1 DEF Answers
    <3>. QED  BY <1>10, <3>1, <3>2 DEF MatchInv, IndInv, GoroutineInv
  <2>. QED  BY <2>1, <2>2
<1>14. ASSUME NEW d \in Calls
       PROVE  ContendInv(d)'
  <2>1. CASE d = c
    <3>1. MatchInv(c)'
      BY <1>1, <1>6, <1>10 DEF MatchInv, FastPhase, hold, locals
    <3>. QED  BY <1>1, <1>3, <1>6, <1>10, <1>13, <2>1, <3>1
           DEF ContendInv, registration, identity, locals
  <2>2. CASE d # c
    <3>1. pc'[d] \in {"matchCheck", "enqueue"} => MatchInv(d)'
      BY <1>1, <1>6, <2>2 DEF IndInv, ContendInv, MatchInv, FastPhase, hold, locals
    <3>. QED  BY <1>1, <1>4, <1>6, <2>2, <3>1
           DEF IndInv, ContendInv, hold, registration, identity, locals
  <2>. QED  BY <2>1, <2>2
<1>15. ASSUME NEW d \in Calls
       PROVE  WaitInv(d)'
  <2>1. CASE d = c
    BY <1>1, <1>4, <1>6, <1>11, <1>12, <2>1
       DEF WaitInv, Active, Contending, hold, registration, identity, locals
  <2>2. CASE d # c
    BY <1>1, <1>4, <1>6, <2>2 DEF IndInv, WaitInv, Active, hold, registration, identity, locals
  <2>. QED  BY <2>1, <2>2
<1>. QED  BY <1>6, <1>7, <1>8, <1>9, <1>14, <1>15 DEF IndInv

\* tryEnqueuePendingCallback finds the matched hold standing, or starts over.
LEMMA EnqueueInductive ==
    ASSUME IndInv, NEW c \in Calls, Enqueue(c)
    PROVE  IndInv'
<1>1. CASE holdSeq # matched[c]
  BY <1>1, PassInductive DEF Enqueue, mutexes
<1>2. CASE holdSeq = matched[c]
  <2>. DEFINE s == "append"
  <2>1. /\ pc[c] = "enqueue" /\ Goto(c, s) /\ s = "append"
        /\ resolveMu = None /\ resolveMu' = c /\ mu' = mu
        /\ UNCHANGED <<hold, registration, queue, identity, locals, history>>
    BY <1>2 DEF Enqueue
  <2>. HIDE DEF s
  <2>2. /\ s \in Stages /\ s # "none" /\ s \notin Holding /\ s \in Resolving
        /\ pc[c] \notin Holding /\ Active(c)
    BY <2>1 DEF Stages, Holding, Beginning, Ending, Reachable, Resolving, Contending, Active
  <2>3. /\ mu # c /\ None \notin Calls /\ Stage' = Stage
        /\ mu # None => mu \in Calls /\ gid[mu] \in Calls
        /\ pc'[c] = s /\ \A d \in Calls \ {c} : pc'[d] = pc[d]
        /\ pc' \in [Calls -> Stages]
        /\ \A d \in Calls : pc[d] \in Resolving <=> resolveMu = d
        /\ MutexInv' /\ GoroutineInv'
    BY <2>1, <2>2, CallerMoves
  <2>4. /\ holderGID # None /\ holderGID = holder[c] /\ IsActiveSeq(holdSeq)
        /\ kind[c] # "root"
        /\ holder[c] = gid[c] \/ <<holder[c], matched[c].idx>> \in lineage[gid[c]]
    BY <1>2, <2>1 DEF IndInv, ContendInv, MatchInv
  <2>5. Stage \in Reachable /\ curHoldIdx = matched[c].idx
    <3>1. mu # None /\ Stage \in Holding
      BY <2>3, <2>4 DEF IndInv, HoldInv, MutexInv, Stage
    <3>2. Stage \in Reachable
      BY <2>4, <3>1 DEF IndInv, HoldInv, Holding
    <3>3. holdSeq.idx = curHoldIdx
      BY <2>4, <3>2 DEF IndInv, TypeInv, HoldSeqs, HoldInv, IsActiveSeq, IdleSeq, Reachable
    <3>. QED  BY <1>2, <3>2, <3>3
  <2>6. TypeInv'
    <3>1. resolveMu' \in Indices
      BY <2>1, CallsAssumption DEF Indices, Calls
    <3>. QED  BY <2>1, <2>3, <3>1 DEF IndInv, TypeInv, hold, registration, queue, identity, locals, history
  <2>7. EventInv'
    BY <2>1, <2>2, EventStep DEF queue, identity, locals, history, Before, Contending, Resolving
  <2>8. HoldInv'
    <3>1. resolveMu' # None
      BY <2>1, <2>3
    <3>. QED  BY <2>1, <2>3, <3>1 DEF IndInv, HoldInv, hold, registration, identity
  <2>9. ASSUME NEW d \in Calls
        PROVE  ContendInv(d)' /\ WaitInv(d)'
    <3>1. pc'[d] \in {"matchCheck", "enqueue"} => MatchInv(d)'
      BY <2>1, <2>3 DEF IndInv, ContendInv, MatchInv, FastPhase, hold, locals
    <3>2. ContendInv(d)'
      BY <2>1, <2>3, <2>4, <2>5, <3>1 DEF IndInv, ContendInv, hold, registration, identity, locals
    <3>3. WaitInv(d)'
      BY <2>1, <2>2, <2>3 DEF IndInv, WaitInv, Active, Contending, Resolving, hold,
         registration, identity, locals
    <3>. QED  BY <3>2, <3>3
  <2>. QED  BY <2>3, <2>6, <2>7, <2>8, <2>9 DEF IndInv
<1>. QED  BY <1>1, <1>2

\* The events of a caller inside the callback join the queue.
LEMMA AppendEvents ==
    ASSUME IndInv, NEW c \in Calls, AppendPending(c)
    PROVE  EventInv' /\ pending' \in Seq(Calls)
<1>1. /\ pc[c] = "append" /\ Goto(c, "done") /\ pending' = Append(pending, c)
      /\ batch' = batch /\ kind' = kind
      /\ delivered' = delivered /\ dropped' = dropped /\ panics' = panics
      /\ pc \in [Calls -> Stages] /\ pending \in Seq(Calls) /\ kind[c] # "root"
      /\ batch \in [Calls -> Seq(Calls)]
  BY DEF AppendPending, identity, locals, history, IndInv, TypeInv, ContendInv
<1>2. Distinct /\ \A d \in Calls : CallEvents(d)
  BY EventParts DEF IndInv
<1>3. /\ pending' \in Seq(Calls) /\ DOMAIN pending' = DOMAIN pending \cup {Len(pending) + 1}
      /\ Len(pending) + 1 \notin DOMAIN pending
      /\ \A i \in DOMAIN pending : pending'[i] = pending[i]
      /\ pending'[Len(pending) + 1] = c
  BY <1>1
<1>4. delivered[c] = 0 /\ dropped[c] = 0 /\ ~Waiting(c) /\ batch[c] = <<>>
  <2>1. pc[c] \in Before
    BY <1>1 DEF Before, Contending, Resolving
  <2>. QED  BY <1>1, <1>2, <2>1 DEF CallEvents
<1>5. \A e : Waiting(e)' <=> Waiting(e) \/ e = c
  BY <1>1, <1>3 DEF Waiting
<1>6. pc'[c] = "done" /\ \A d \in Calls \ {c} : pc'[d] = pc[d]
  BY <1>1 DEF Goto
<1>7. ASSUME NEW d \in Calls
      PROVE  CallEvents(d)'
  <2>1. CASE d = c
    BY <1>1, <1>4, <1>5, <1>6, <2>1 DEF CallEvents, Before, After, Contending, Resolving
  <2>2. CASE d # c
    <3>1. pc'[d] = pc[d] /\ CallEvents(d) /\ (Waiting(d)' <=> Waiting(d))
      BY <1>2, <1>5, <1>6, <2>2
    <3>. QED  BY <1>1, <3>1 DEF CallEvents
  <2>. QED  BY <2>1, <2>2
<1>8. Distinct'
  <2>1. \A i \in DOMAIN pending : pending[i] # c
    BY <1>4 DEF Waiting
  <2>2. \A d \in Calls : \A i \in Rest(d) : batch[d][i] # c
    <3>1. \A d \in Calls : Rest(d) = 2..Len(batch[d])
      BY <1>1 DEF Rest
    <3>. QED  BY <1>4, <3>1 DEF Waiting
  <2>3. \A d : Rest(d)' = Rest(d)
    BY <1>1 DEF Rest
  <2>4. \A i, j \in DOMAIN pending' : pending'[i] = pending'[j] => i = j
    BY <1>2, <1>3, <2>1 DEF Distinct
  <2>5. \A d \in Calls : \A i \in Rest(d), j \in DOMAIN pending' : batch[d][i] # pending'[j]
    BY <1>2, <1>3, <2>2 DEF Distinct
  <2>. QED  BY <1>1, <1>2, <2>3, <2>4, <2>5 DEF Distinct
<1>. QED  BY <1>3, <1>7, <1>8, EventParts

\* enqueueEvent: the event goes behind those already waiting.
LEMMA AppendPendingInductive ==
    ASSUME IndInv, NEW c \in Calls, AppendPending(c)
    PROVE  IndInv'
<1>. DEFINE s == "done"
<1>1. /\ pc[c] = "append" /\ Goto(c, s) /\ s = "done" /\ enqueues' = 1
      /\ resolveMu' = None /\ mu' = mu
      /\ UNCHANGED <<hold, registration, identity, locals, history>>
  BY DEF AppendPending
<1>. HIDE DEF s
<1>2. /\ s \in Stages /\ s # "none" /\ s \notin Holding /\ s \notin Resolving
      /\ pc[c] \notin Holding /\ Active(c) /\ pc[c] \in Resolving
  BY <1>1 DEF Stages, Holding, Beginning, Ending, Reachable, Resolving, Contending, Active
<1>3. resolveMu = c /\ c # None
  BY <1>2 DEF IndInv, MutexInv, Calls, None
<1>4. s \in Resolving <=> resolveMu' = c
  BY <1>1, <1>2, <1>3
<1>5. /\ mu # c /\ None \notin Calls /\ None \in Indices /\ Stage' = Stage
      /\ pc'[c] = s /\ \A d \in Calls \ {c} : pc'[d] = pc[d]
      /\ pc' \in [Calls -> Stages]
      /\ \A d \in Calls : pc[d] \in Resolving <=> resolveMu = d
      /\ MutexInv' /\ GoroutineInv'
  BY <1>1, <1>2, <1>3, <1>4, CallerMoves
<1>6. EventInv' /\ pending' \in Seq(Calls)
  BY AppendEvents
<1>7. TypeInv'
  BY <1>1, <1>5, <1>6 DEF IndInv, TypeInv, hold, registration, identity, locals, history
<1>8. HoldInv'
  <2>1. Stage \in Reachable
    BY <1>1 DEF IndInv, ContendInv
  <2>. QED  BY <1>1, <1>5, <2>1 DEF IndInv, HoldInv, Beginning, Ending, Reachable,
         hold, registration, identity
<1>9. ASSUME NEW d \in Calls
      PROVE  ContendInv(d)' /\ WaitInv(d)'
  <2>1. pc'[d] \in {"matchCheck", "enqueue"} => MatchInv(d)'
    BY <1>1, <1>5 DEF IndInv, ContendInv, MatchInv, FastPhase, hold, locals
  <2>2. ContendInv(d)'
    BY <1>1, <1>5, <2>1 DEF IndInv, ContendInv, hold, registration, identity, locals
  <2>3. WaitInv(d)'
    BY <1>1, <1>5 DEF IndInv, WaitInv, Active, hold, registration, identity, locals
  <2>. QED  BY <2>2, <2>3
<1>. QED  BY <1>5, <1>6, <1>7, <1>8, <1>9 DEF IndInv

-----------------------------------------------------------------------------
(* Calls begin                                                             *)

\* A call that has not begun is later than all that have, and its name is free.
LEMMA NextCall ==
    ASSUME IndInv, NEW c \in Calls, pc[c] = "none"
    PROVE  \A d \in Calls : pc[d] # "none" => d < c /\ gid[d] \in 1..(c - 1)
<1>1. ASSUME NEW d \in Calls, pc[d] # "none"
      PROVE  d < c /\ gid[d] \in 1..(c - 1)
  <2>1. gid[d] \in 1..d /\ \A e \in 1..(d - 1) : pc[e] # "none"
    BY <1>1 DEF IndInv, GoroutineInv
  <2>2. c \in Nat /\ c >= 1 /\ d \in Nat /\ d # c
    BY <1>1, CallsAssumption DEF Calls
  <2>3. ~(c < d)
    BY <2>1, <2>2
  <2>. QED  BY <2>1, <2>2, <2>3
<1>. QED  BY <1>1

\* What the four ways for a call to begin have in common: it joins a goroutine
\* that is idle, new, or in the callback that makes the call.
Begins(c, g, how, p) ==
    /\ Start(c, g, how, p)
    /\ g \in 1..c /\ how \in Kinds \ {"none"} /\ p \in Indices
    /\ DOMAIN lineage' = Calls /\ \A d \in Calls \ {c} : lineage'[d] = lineage[d]
    /\ how = "root" => lineage'[g] = {}
    /\ \A d \in Calls \ {c} : Active(d) /\ gid[d] = g => how = "self"
    /\ how \in {"self", "awaited"} => mu # None /\ mu = p /\ Stage \in {"deliver", "pendingCallback"}
    /\ how = "self" => g = gid[mu]
    /\ how = "awaited" => <<gid[mu], curHoldIdx>> \in lineage'[g]

\* An operation begins.
LEMMA BeginsInductive ==
    ASSUME IndInv, NEW c \in Calls, NEW g, NEW how, NEW p, Begins(c, g, how, p)
    PROVE  IndInv'
<1>. DEFINE s == "tryLock"
<1>1. /\ pc[c] = "none" /\ \A d \in 1..(c - 1) : pc[d] # "none"
      /\ Goto(c, s) /\ s = "tryLock"
      /\ gid' = [gid EXCEPT ![c] = g] /\ kind' = [kind EXCEPT ![c] = how]
      /\ parent' = [parent EXCEPT ![c] = p]
      /\ UNCHANGED <<mutexes, hold, registration, queue, locals, history>>
  BY DEF Begins, Start
<1>. HIDE DEF s
<1>2. /\ g \in 1..c /\ how \in Kinds \ {"none"} /\ p \in Indices
      /\ DOMAIN lineage' = Calls /\ \A d \in Calls \ {c} : lineage'[d] = lineage[d]
      /\ how = "root" => lineage'[g] = {}
      /\ \A d \in Calls \ {c} : Active(d) /\ gid[d] = g => how = "self"
      /\ how \in {"self", "awaited"} => mu # None /\ mu = p /\ Stage \in {"deliver", "pendingCallback"}
      /\ how = "self" => g = gid[mu]
      /\ how = "awaited" => <<gid[mu], curHoldIdx>> \in lineage'[g]
  BY DEF Begins
<1>3. /\ s \in Stages /\ s # "none" /\ s \notin Holding /\ s \notin Resolving /\ s \in Contending
      /\ pc[c] \notin Holding /\ pc[c] \notin Resolving
      /\ mu' = mu /\ resolveMu' = resolveMu
  BY <1>1 DEF Stages, Holding, Beginning, Ending, Reachable, Resolving, Contending, mutexes
<1>4. mu # c /\ resolveMu # c /\ (mu # None => mu \in Calls)
  BY <1>3 DEF IndInv, TypeInv, MutexInv, Indices, Calls, None
<1>5. /\ pc'[c] = s /\ gid'[c] = g /\ kind'[c] = how /\ parent'[c] = p
      /\ \A d \in Calls \ {c} : /\ pc'[d] = pc[d] /\ gid'[d] = gid[d] /\ kind'[d] = kind[d]
                                /\ parent'[d] = parent[d]
      /\ pc' \in [Calls -> Stages]
  BY <1>1, <1>3 DEF IndInv, TypeInv, Goto
<1>6. Stage' = Stage /\ (mu # None => gid'[mu] = gid[mu])
  BY <1>3, <1>4, <1>5 DEF Stage
<1>7. MutexInv'
  BY <1>1, <1>3, <1>4, MutexStep
<1>8. \A d \in Calls : pc[d] # "none" => d < c /\ gid[d] \in 1..(c - 1)
  BY <1>1, NextCall
<1>9. \A d \in Calls : pc[d] # "none" => gid[d] \in Calls /\ gid[d] # c
  BY <1>8, CallsAssumption DEF Calls
<1>10. GoroutineInv'
  <2>1. ASSUME NEW d \in Calls
        PROVE  /\ pc'[d] = "none" => gid'[d] = None /\ kind'[d] = "none" /\ lineage'[d] = {}
               /\ pc'[d] # "none" =>
                     /\ gid'[d] \in 1..d /\ kind'[d] # "none"
                     /\ \A e \in 1..(d - 1) : pc'[e] # "none"
               /\ kind'[d] = "root" => lineage'[gid'[d]] = {}
    <3>1. \A e \in 1..(d - 1) : e \in Calls
      BY CallsAssumption DEF Calls
    <3>2. CASE d = c
      <4>1. \A e \in 1..(c - 1) : pc'[e] # "none"
        BY <1>1, <1>3, <1>5, <3>1, <3>2
      <4>. QED  BY <1>2, <1>3, <1>5, <3>2, <4>1
    <3>3. CASE d # c /\ pc[d] = "none"
      BY <1>2, <1>5, <3>3 DEF IndInv, GoroutineInv
    <3>4. CASE d # c /\ pc[d] # "none"
      <4>1. /\ gid[d] \in 1..d /\ kind[d] # "none"
            /\ \A e \in 1..(d - 1) : pc[e] # "none"
            /\ kind[d] = "root" => lineage[gid[d]] = {}
        BY <3>4 DEF IndInv, GoroutineInv
      <4>2. \A e \in 1..(d - 1) : pc'[e] # "none"
        BY <1>3, <1>5, <3>1, <4>1
      <4>3. lineage'[gid[d]] = lineage[gid[d]]
        BY <1>2, <1>9, <3>4
      <4>. QED  BY <1>5, <3>4, <4>1, <4>2, <4>3
    <3>. QED  BY <3>2, <3>3, <3>4
  <2>2. ASSUME NEW d \in Calls, NEW e \in Calls, d # e, gid'[d] = gid'[e],
               Active(d)', Active(e)'
        PROVE  "self" \in {kind'[d], kind'[e]}
    <3>1. CASE d # c /\ e # c
      <4>1. Active(d) /\ Active(e) /\ gid[d] = gid[e]
        BY <1>5, <2>2, <3>1 DEF Active
      <4>. QED  BY <1>5, <2>2, <3>1, <4>1 DEF IndInv, GoroutineInv
    <3>2. CASE d = c
      <4>1. Active(e) /\ gid[e] = g
        BY <1>5, <2>2, <3>2 DEF Active
      <4>. QED  BY <1>2, <1>5, <2>2, <3>2, <4>1
    <3>3. CASE e = c
      <4>1. Active(d) /\ gid[d] = g
        BY <1>5, <2>2, <3>3 DEF Active
      <4>. QED  BY <1>2, <1>5, <2>2, <3>3, <4>1
    <3>. QED  BY <3>1, <3>2, <3>3
  <2>. QED  BY <2>1, <2>2 DEF GoroutineInv
<1>11. TypeInv'
  <2>1. g \in Indices /\ how \in Kinds
    BY <1>2, CallsAssumption DEF Indices, Calls
  <2>2. gid' \in [Calls -> Indices] /\ kind' \in [Calls -> Kinds] /\ parent' \in [Calls -> Indices]
    BY <1>1, <1>2, <2>1 DEF IndInv, TypeInv
  <2>. QED  BY <1>1, <1>2, <1>5, <2>2 DEF IndInv, TypeInv, mutexes, hold, registration, queue, locals, history
<1>12. EventInv'
  <2>1. Distinct /\ \A d \in Calls : CallEvents(d)
    BY EventParts DEF IndInv
  <2>2. \A d : Waiting(d)' <=> Waiting(d)
    BY <1>1 DEF Waiting, queue, locals
  <2>3. ASSUME NEW d \in Calls
        PROVE  CallEvents(d)'
    <3>1. CASE d = c
      <4>1. delivered[c] = 0 /\ dropped[c] = 0 /\ ~Waiting(c) /\ batch[c] = <<>>
        BY <1>1, <2>1 DEF CallEvents, Before
      <4>. QED  BY <1>1, <1>5, <2>2, <3>1, <4>1
             DEF CallEvents, Before, After, Contending, locals, history
    <3>2. CASE d # c
      <4>1. pc'[d] = pc[d] /\ kind'[d] = kind[d] /\ CallEvents(d)
        BY <1>5, <2>1, <3>2
      <4>. QED  BY <1>1, <2>2, <4>1 DEF CallEvents, locals, history
    <3>. QED  BY <3>1, <3>2
  <2>4. Distinct'
    BY <1>1, <2>1 DEF Distinct, Rest, queue, locals
  <2>. QED  BY <2>3, <2>4, EventParts
<1>13. HoldInv'
  BY <1>1, <1>3, <1>6 DEF IndInv, HoldInv, hold, registration
<1>14. ASSUME NEW d \in Calls
       PROVE  ContendInv(d)'
  <2>1. pc'[d] \in {"matchCheck", "enqueue"} => MatchInv(d)'
    BY <1>1, <1>5, <1>6 DEF IndInv, ContendInv, MatchInv, FastPhase, hold, locals
  <2>2. CASE d = c
    BY <1>1, <1>5, <2>2 DEF ContendInv
  <2>3. CASE d # c
    <3>1. pc[d] # "none" => lineage'[gid[d]] = lineage[gid[d]]
      BY <1>2, <1>9
    <3>2. ContendInv(d) /\ gid'[d] = gid[d] /\ kind'[d] = kind[d] /\ pc'[d] = pc[d]
      BY <1>5, <2>3 DEF IndInv
    <3>3. pc[d] \in {"enqueue", "append"} => lineage'[gid'[d]] = lineage[gid[d]]
      BY <3>1, <3>2
    <3>. QED  BY <1>1, <1>3, <1>6, <2>1, <3>2, <3>3 DEF ContendInv, hold, registration, locals
  <2>. QED  BY <2>2, <2>3
<1>15. ASSUME NEW d \in Calls
       PROVE  WaitInv(d)'
  <2>1. CASE d = c
    BY <1>1, <1>2, <1>3, <1>5, <1>6, <2>1 DEF WaitInv, hold
  <2>2. CASE d # c
    <3>1. pc[d] # "none" => lineage'[gid[d]] = lineage[gid[d]]
      BY <1>2, <1>9
    <3>. QED  BY <1>1, <1>3, <1>5, <1>6, <2>2, <3>1
           DEF IndInv, WaitInv, Active, hold, registration, locals
  <2>. QED  BY <2>1, <2>2
<1>. QED  BY <1>7, <1>10, <1>11, <1>12, <1>13, <1>14, <1>15 DEF IndInv

\* The user's code calls the cache, in any of the four ways.
LEMMA CallInductive ==
    ASSUME IndInv, NEW c \in Calls, Call(c)
    PROVE  IndInv'
<1>1. /\ None \in Indices /\ Calls \subseteq Indices /\ c \in 1..c /\ DOMAIN lineage = Calls
      /\ \A d \in Calls : 1..(d - 1) \subseteq 1..d
  BY CallsAssumption DEF None, Indices, Calls, IndInv, TypeInv
<1>2. pc[c] = "none"
  BY DEF Call, CallFresh, CallAgain, CallInCallback, CallInChild, Start
<1>3. \A d \in Calls : pc[d] # "none" => d # c /\ gid[d] \in 1..c /\ gid[d] # c
  <2>1. \A d \in Calls : pc[d] # "none" => d < c /\ gid[d] \in 1..(c - 1)
    BY <1>2, NextCall
  <2>. QED  BY <2>1, CallsAssumption DEF Calls
<1>4. \A d \in Calls : Active(d) => gid[d] # c
  BY <1>3 DEF Active
<1>5. ASSUME NEW p \in Calls, InCallback(p)
      PROVE  /\ mu = p /\ mu # None /\ Stage \in {"deliver", "pendingCallback"}
             /\ gid[p] \in 1..c /\ p \in Indices
  <2>1. pc[p] \in Holding /\ pc[p] # "none"
    BY <1>5 DEF InCallback, Holding, Reachable
  <2>2. mu = p /\ mu # None /\ Stage = pc[p]
    BY <2>1, HolderStep
  <2>. QED  BY <1>1, <1>3, <1>5, <2>1, <2>2 DEF InCallback
<1>6. ASSUME CallFresh(c)
      PROVE  IndInv'
  <2>1. lineage' = lineage /\ lineage[c] = {}
    BY <1>2, <1>6 DEF CallFresh, IndInv, GoroutineInv
  <2>2. Begins(c, c, "root", None)
    BY <1>1, <1>4, <1>6, <2>1 DEF CallFresh, Begins, Kinds
  <2>. QED  BY <2>2, BeginsInductive
<1>7. ASSUME NEW d \in Calls, CallAgain(c, d)
      PROVE  IndInv'
  <2>1. /\ kind[d] \in {"root", "detached"} /\ lineage' = lineage
        /\ \A e \in Calls : gid[e] = gid[d] => pc[e] = "done"
        /\ Start(c, gid[d], kind[d], None)
    BY <1>7 DEF CallAgain
  <2>2. gid[d] \in 1..c
    BY <1>3, <2>1
  <2>3. kind[d] = "root" => lineage[gid[d]] = {}
    BY DEF IndInv, GoroutineInv
  <2>4. \A e \in Calls : ~(Active(e) /\ gid[e] = gid[d])
    BY <2>1 DEF Active
  <2>5. Begins(c, gid[d], kind[d], None)
    BY <1>1, <2>1, <2>2, <2>3, <2>4 DEF Begins, Kinds
  <2>. QED  BY <2>5, BeginsInductive
<1>8. ASSUME NEW p \in Calls, CallInCallback(c, p)
      PROVE  IndInv'
  <2>1. InCallback(p) /\ Start(c, gid[p], "self", p) /\ lineage' = lineage
    BY <1>8 DEF CallInCallback
  <2>2. Begins(c, gid[p], "self", p)
    BY <1>1, <1>5, <2>1 DEF Begins, Kinds
  <2>. QED  BY <2>2, BeginsInductive
<1>9. ASSUME NEW p \in Calls, NEW how \in {"awaited", "detached"}, CallInChild(c, p, how)
      PROVE  IndInv'
  <2>1. /\ InCallback(p) /\ Start(c, c, how, p)
        /\ lineage' = [lineage EXCEPT ![c] = lineage[gid[p]] \cup {<<gid[p], curHoldIdx>>}]
    BY <1>9 DEF CallInChild
  <2>2. /\ DOMAIN lineage' = Calls /\ \A d \in Calls \ {c} : lineage'[d] = lineage[d]
        /\ <<gid[p], curHoldIdx>> \in lineage'[c]
    BY <1>1, <2>1
  <2>3. Begins(c, c, how, p)
    BY <1>1, <1>4, <1>5, <2>1, <2>2 DEF Begins, Kinds
  <2>. QED  BY <2>3, BeginsInductive
<1>. QED  BY <1>6, <1>7, <1>8, <1>9 DEF Call

-----------------------------------------------------------------------------
(* The theorems                                                            *)

\* A new cache has delivered nothing and holds nothing back.
LEMMA InitIndInv == Init => IndInv
<1>. SUFFICES ASSUME Init PROVE IndInv
  OBVIOUS
<1>1. /\ mu = 0 /\ resolveMu = 0 /\ Stage = "free"
      /\ holdSeq = [idx |-> 0, mode |-> "idle"] /\ curHoldIdx = 0
      /\ holderGID = 0 /\ active = FALSE /\ contended = FALSE
      /\ pending = <<>> /\ enqueues = 0 /\ panics = 0
  BY DEF Init, None, Stage
<1>2. /\ pc \in [Calls -> Stages] /\ gid \in [Calls -> Indices]
      /\ kind \in [Calls -> Kinds] /\ parent \in [Calls -> Indices]
      /\ DOMAIN lineage = Calls
      /\ holder \in [Calls -> Indices] /\ matched \in [Calls -> HoldSeqs]
      /\ batch \in [Calls -> Seq(Calls)]
      /\ delivered \in [Calls -> Nat] /\ dropped \in [Calls -> Nat]
  <2>1. 0 \in Indices /\ "none" \in Stages /\ "none" \in Kinds
        /\ [idx |-> 0, mode |-> "idle"] \in HoldSeqs /\ <<>> \in Seq(Calls)
    BY CallsAssumption DEF Indices, Stages, Kinds, HoldSeqs
  <2>. QED  BY <2>1 DEF Init, None
<1>3. \A c \in Calls : /\ pc[c] = "none" /\ gid[c] = 0 /\ kind[c] = "none" /\ lineage[c] = {}
                       /\ batch[c] = <<>> /\ delivered[c] = 0 /\ dropped[c] = 0 /\ c # 0
  BY DEF Init, None, Calls
<1>4. TypeInv
  <2>1. 0 \in Indices /\ [idx |-> 0, mode |-> "idle"] \in HoldSeqs
    BY CallsAssumption DEF Indices, HoldSeqs
  <2>2. active \in BOOLEAN /\ contended \in BOOLEAN
    BY <1>1
  <2>3. pending \in Seq(Calls) /\ 0 \in Nat /\ curHoldIdx = 0 /\ enqueues = 0 /\ panics = 0
    BY <1>1
  <2>4. holdSeq \in HoldSeqs /\ mu \in Indices /\ resolveMu \in Indices /\ holderGID \in Indices
    BY <1>1, <2>1
  <2>. QED  BY <1>2, <2>2, <2>3, <2>4 DEF TypeInv
<1>5. MutexInv
  BY <1>1, <1>3 DEF MutexInv, Holding, Beginning, Ending, Reachable, Resolving
<1>6. GoroutineInv
  BY <1>3 DEF GoroutineInv, Active, None
<1>7. HoldInv
  BY <1>1 DEF HoldInv, IsActiveSeq, Beginning, Ending, Reachable, None
<1>8. EventInv
  <2>1. \A c : ~Waiting(c)
    <3>1. DOMAIN pending = {} /\ \A d \in Calls : 2..Len(batch[d]) = {}
      BY <1>1, <1>3
    <3>. QED  BY <3>1 DEF Waiting
  <2>2. \A c \in Calls : CallEvents(c)
    BY <1>3, <2>1 DEF CallEvents, Before, After
  <2>3. Distinct
    <3>1. DOMAIN pending = {} /\ \A d \in Calls : Rest(d) = {}
      BY <1>1, <1>3 DEF Rest
    <3>. QED  BY <3>1 DEF Distinct
  <2>. QED  BY <2>2, <2>3, EventParts
<1>9. \A c \in Calls : ContendInv(c) /\ WaitInv(c)
  BY <1>3 DEF ContendInv, WaitInv, Active
<1>. QED  BY <1>4, <1>5, <1>6, <1>7, <1>8, <1>9 DEF IndInv

\* A step that changes nothing.
LEMMA StutterIndInv ==
    ASSUME IndInv, UNCHANGED vars
    PROVE  IndInv'
<1>1. /\ mu' = mu /\ resolveMu' = resolveMu /\ holdSeq' = holdSeq /\ curHoldIdx' = curHoldIdx
      /\ holderGID' = holderGID /\ active' = active /\ contended' = contended
      /\ pending' = pending /\ enqueues' = enqueues /\ pc' = pc
      /\ gid' = gid /\ kind' = kind /\ parent' = parent /\ lineage' = lineage
      /\ holder' = holder /\ matched' = matched /\ batch' = batch
      /\ delivered' = delivered /\ dropped' = dropped /\ panics' = panics
  BY DEF vars, mutexes, hold, registration, queue, identity, locals, history
<1>2. Stage' = Stage
  BY <1>1 DEF Stage
<1>3. TypeInv'
  BY <1>1 DEF IndInv, TypeInv
<1>4. MutexInv' /\ GoroutineInv'
  BY <1>1 DEF IndInv, MutexInv, GoroutineInv, Active
<1>5. HoldInv'
  BY <1>1, <1>2 DEF IndInv, HoldInv
<1>6. EventInv'
  <2>1. \A d : Waiting(d)' <=> Waiting(d)
    BY <1>1 DEF Waiting
  <2>2. \A d \in Calls : CallEvents(d)'
    BY <1>1, <2>1, EventParts DEF IndInv, CallEvents
  <2>3. Distinct'
    BY <1>1, EventParts DEF IndInv, Distinct, Rest
  <2>. QED  BY <2>2, <2>3, EventParts
<1>7. \A c \in Calls : ContendInv(c)' /\ WaitInv(c)'
  BY <1>1, <1>2 DEF IndInv, ContendInv, MatchInv, FastPhase, WaitInv, Active
<1>. QED  BY <1>3, <1>4, <1>5, <1>6, <1>7 DEF IndInv

\* Every step keeps the invariant.
LEMMA NextIndInv == IndInv /\ [Next]_vars => IndInv'
<1>. SUFFICES ASSUME IndInv, [Next]_vars PROVE IndInv'
  OBVIOUS
<1>1. CASE UNCHANGED vars
  BY <1>1, StutterIndInv
<1>2. ASSUME NEW c \in Calls, Deliver(c)
      PROVE  IndInv'
  BY <1>2, TryLockInductive, BeginFastInductive, BeginSlowInductive, RegisterInductive,
     FastCheckInductive, FastIdleInductive, FastRecheckInductive, FastUnlockInductive,
     PostUnlockInductive, PostTryLockInductive, PrepareSeqInductive, PrepareActiveInductive,
     DrainInductive, EnsureReadyInductive, TakePendingInductive, FinalizeInductive,
     UnlockInductive, FinishPanickedInductive, SlowInductive, ResolveInductive,
     ResolveTestInductive, ResolveStoreInductive, MatchInductive, MatchCheckInductive,
     EnqueueInductive, AppendPendingInductive, LockWaitInductive DEF Deliver
<1>3. ASSUME NEW c \in Calls, Return(c)
      PROVE  IndInv'
  BY <1>3, CallbackReturnsInductive, PendingReturnsInductive DEF Return
<1>4. ASSUME NEW c \in Calls, Call(c) \/ Panic(c)
      PROVE  IndInv'
  BY <1>4, CallInductive, PanicInductive
<1>5. CASE Finished
  BY <1>5, StutterIndInv DEF Finished
<1>. QED  BY <1>1, <1>2, <1>3, <1>4, <1>5 DEF Next

\* The invariant of the delivery protocol: the state of the hold, what contenders
\* know of it, which calls the callback waits for and where every event is, in
\* every state, for any number of calls on any goroutines and any panics.
THEOREM DeliveryInvariant == Spec => []IndInv
  BY InitIndInv, NextIndInv, PTL DEF Spec

\* Callbacks run only on the goroutine that holds evictCallbackMu, while its hold
\* is published and it is registered or shows its fast tag.
THEOREM CallbacksRunUnderHold == Spec => []CallbackUnderHold
<1>1. ASSUME IndInv PROVE CallbackUnderHold
  <2>. SUFFICES ASSUME NEW c \in Calls, InCallback(c)
                PROVE  /\ mu = c
                       /\ IsActiveSeq(holdSeq) /\ holdSeq.idx = curHoldIdx
                       /\ \/ active /\ holderGID = gid[c]
                          \/ HasFastTag /\ pc[c] = "deliver"
    BY DEF CallbackUnderHold
  <2>1. pc[c] \in Holding /\ pc[c] \in {"deliver", "pendingCallback"}
    BY DEF InCallback, Holding, Reachable
  <2>2. mu = c /\ mu # None /\ Stage = pc[c]
    BY <1>1, <2>1, HolderStep
  <2>3. /\ IsActiveSeq(holdSeq) /\ holdSeq.idx = curHoldIdx
        /\ holderGID # None => holderGID = gid[mu]
    BY <1>1, <2>1, <2>2, CallbackIsFound
  <2>. QED  BY <1>1, <2>1, <2>2, <2>3 DEF IndInv, TypeInv, HoldInv, HasFastTag
<1>. QED  BY <1>1, DeliveryInvariant, PTL

\* When both mutexes are free nothing is left of the last hold.
THEOREM HoldsLeaveNoTrace == Spec => []HoldLeavesNoTrace
<1>1. ASSUME IndInv PROVE HoldLeavesNoTrace
  BY <1>1 DEF IndInv, TypeInv, HoldInv, HoldLeavesNoTrace, Stage
<1>. QED  BY <1>1, DeliveryInvariant, PTL

\* A caller about to append meets the hold that it matched, before its holder has
\* decided to unlock.
THEOREM EnqueuesMeetHolder == Spec => []EnqueueMeetsHolder
<1>1. ASSUME IndInv PROVE EnqueueMeetsHolder
  <2>. SUFFICES ASSUME NEW c \in Calls, pc[c] = "append"
                PROVE  /\ mu # None /\ curHoldIdx = matched[c].idx /\ contended
                       /\ pc[mu] \notin {"fastUnlock", "unlock", "begin", "beginWaited",
                                         "beginDrain", "beginPrepare"}
    BY DEF EnqueueMeetsHolder
  <2>1. curHoldIdx = matched[c].idx /\ holderGID # None /\ Stage \in Reachable
    BY <1>1 DEF IndInv, ContendInv
  <2>2. contended /\ mu # None
    BY <1>1, <2>1 DEF IndInv, HoldInv
  <2>. QED  BY <2>1, <2>2 DEF Stage, Reachable
<1>. QED  BY <1>1, DeliveryInvariant, PTL

\* No callback waits for a call that waits for the callback's mutex.
THEOREM NoCallbackDeadlocks == Spec => []NoSelfDeadlock
<1>1. ASSUME IndInv PROVE NoSelfDeadlock
  <2>. SUFFICES ASSUME NEW p \in Calls, NEW c \in Calls, InCallback(p), WaitsFor(p, c)
                PROVE  pc[c] \notin {"lockWait", "beginWaited"}
    BY DEF NoSelfDeadlock
  <2>1. CASE pc[c] = "none"
    BY <2>1
  <2>2. CASE pc[c] # "none"
    <3>1. kind[c] \in {"self", "awaited"} /\ Active(c)
      BY <2>2 DEF WaitsFor, Active
    <3>2. pc[c] \in Contending
      BY <1>1, <3>1 DEF IndInv, WaitInv
    <3>. QED  BY <3>2 DEF Contending, Resolving
  <2>. QED  BY <2>1, <2>2
<1>. QED  BY <1>1, DeliveryInvariant, PTL

\* A call from outside any callback returns with its own callbacks run, and one
\* that leaves them to the holder runs inside the hold in progress, whatever
\* earlier holds of the same goroutine started.
THEOREM OutsidersAreSynchronous == Spec => []OutsidersDeliverTheirOwn
<1>1. ASSUME IndInv, NEW c \in Calls, pc[c] = "append"
      PROVE  InsideHold(c)
  <2>1. /\ curHoldIdx = matched[c].idx /\ holderGID # None /\ holderGID = holder[c]
        /\ holder[c] = gid[c] \/ <<holder[c], matched[c].idx>> \in lineage[gid[c]]
    BY <1>1 DEF IndInv, ContendInv
  <2>2. holder[c] = gid[mu]
    BY <1>1, <2>1 DEF IndInv, HoldInv
  <2>. QED  BY <2>1, <2>2 DEF InsideHold
<1>2. ASSUME IndInv PROVE OutsidersDeliverTheirOwn
  BY <1>1, <1>2 DEF IndInv, EventInv, OutsidersDeliverTheirOwn
<1>. QED  BY <1>2, DeliveryInvariant, PTL

\* No event is lost, and none is delivered twice: those of a call that returned
\* have run once, wait in one place, or were discarded by a panic.
THEOREM EventsDeliveredOnce == Spec => []DeliveredOnce
<1>1. ASSUME IndInv PROVE DeliveredOnce
  <2>1. ASSUME NEW c \in Calls
        PROVE  /\ delivered[c] + dropped[c] <= 1
               /\ pc[c] = "done" => (delivered[c] + dropped[c] = 0 <=> Waiting(c))
               /\ dropped[c] = 1 => panics > 0
    <3>1. CallEvents(c) /\ pc[c] \in Before \cup After \cup {"done"}
      BY <1>1, EventParts DEF IndInv, TypeInv, After
    <3>. QED  BY <3>1 DEF CallEvents
  <2>. QED  BY <2>1 DEF DeliveredOnce
<1>. QED  BY <1>1, DeliveryInvariant, PTL

=============================================================================
