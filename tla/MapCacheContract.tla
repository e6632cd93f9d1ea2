-------------------------- MODULE MapCacheContract --------------------------
(***************************************************************************)
(* MapCache implements LRUCache.  An operation takes effect when it        *)
(* releases c.mu: until then the contents are those it found.              *)
(***************************************************************************)
EXTENDS MapCache

Promise == INSTANCE LRUCache WITH
    Key <- Keys, Capacity <- MaxSize, Weight <- Weights,
    Regions <- Prefixes \cup {Keys},
    order <- IF pc = "idle" THEN entries ELSE op.before,
    weight <- IF pc = "idle" THEN size ELSE op.sizesBefore

\* The map backend keeps the promise of LRUCache: from lock to unlock each of its
\* operations is one operation of a bounded cache that evicts, among the entries
\* that weigh something and among those that do not, the oldest, and never the
\* entry being written.
ImplementsLRU == Promise!Spec
=============================================================================
