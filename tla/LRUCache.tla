------------------------------ MODULE LRUCache ------------------------------
(***************************************************************************)
(* What every backend promises of its contents (the Cache interface,       *)
(* cache.go): a bounded set of weighted keys in recency order.  How keys   *)
(* are indexed, what the pressure policy decides and how many entries it   *)
(* takes are left open; what it may take is not: among the entries that    *)
(* weigh something, and among those that weigh nothing, always the oldest, *)
(* and never the one being written.                                        *)
(***************************************************************************)
EXTENDS Integers, Sequences, FiniteSets

CONSTANTS
    Key,       \* the keys
    Capacity,  \* maxSize
    Weight,    \* the weights the weigher may return
    Regions    \* the sets of keys that DeletePrefix selects

VARIABLES
    order,     \* the cached keys, most recently used first
    weight     \* the weight of each key, 0 when it is not cached

vars == <<order, weight>>

Cached == {order[i] : i \in 1..Len(order)}

Older(a, b) ==
    \E i, j \in 1..Len(order) : i > j /\ order[i] = a /\ order[j] = b

SameClass(a, b) == (weight[a] = 0) <=> (weight[b] = 0)

\* What the cache may evict of its own accord while the keys in kept stay: with
\* an entry go all the older ones of its class.
Evictable(S, kept) ==
    \A a \in S, b \in Cached \ kept :
        Older(b, a) /\ SameClass(a, b) => b \in S

\* The total of the weights, counted in units: a pair <<k, u>> for each.
Total(weights) == Cardinality(UNION {{k} \X (1..weights[k]) : k \in Key})

\* list holds the keys in kept, each once: the one in top first, if any, and the
\* others from the newest to the oldest, as now.
Arranged(list, kept, top) ==
    /\ list \in Seq(kept)
    /\ kept \subseteq {list[i] : i \in 1..Len(list)}
    /\ \A i, j \in 1..Len(list) :
         i < j => /\ list[j] \notin top
                  /\ list[i] \in top \/ Older(list[j], list[i])

Settle(kept, top, weights) ==
    /\ Arranged(order', kept, top)
    /\ weight' = [k \in Key |-> IF k \in kept THEN weights[k] ELSE 0]
    /\ Total(weight') <= Capacity

-----------------------------------------------------------------------------
Init ==
    /\ order = <<>>
    /\ weight = [k \in Key |-> 0]

Get(k) ==
    /\ k \in Cached
    /\ Arranged(order', Cached, {k})
    /\ UNCHANGED weight

Put(k, w) ==
    \E S \in SUBSET (Cached \ {k}) :
        /\ Evictable(S, {k})
        /\ Settle((Cached \ S) \cup {k}, {k}, [weight EXCEPT ![k] = w])

Replace(k, w) ==
    /\ k \in Cached
    /\ \E S \in SUBSET (Cached \ {k}) :
         /\ Evictable(S, {k})
         /\ Settle(Cached \ S, {}, [weight EXCEPT ![k] = w])

\* Delete, a Replace that evicts its own entry, DeletePrefix and, removing
\* nothing itself, EvaluateMemoryPressure.
Discard(X) ==
    \E S \in SUBSET (Cached \ X) :
        /\ Evictable(S, X)
        /\ Settle(Cached \ (X \cup S), {}, weight)

Next ==
    \/ \E k \in Key : Get(k) \/ Discard({k})
    \/ \E k \in Key, w \in Weight : Put(k, w) \/ Replace(k, w)
    \/ \E X \in Regions : Discard(X)
    \/ Discard({})

Spec == Init /\ [][Next]_vars
=============================================================================
