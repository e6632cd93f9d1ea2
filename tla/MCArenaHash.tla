---------------------------- MODULE MCArenaHash -----------------------------
(* The instance of ArenaHash that TLC checks.                              *)
EXTENDS ArenaHash

CONSTANTS k1, k2, k3, k4

\* Two keys of one hash, a third of another hash with the same tag, a fourth whose
\* tag differs but has the same home in the larger table: a full wrap-around.
FourKeys == {k1, k2, k3, k4}
HashOfKey == [k \in FourKeys |-> CASE k \in {k1, k2} -> 1 [] k = k3 -> 2 [] k = k4 -> 3]
TagOfHash == <<3, 3, 7>>

SomeSubtrees == {{k1, k3}, {k2, k4}}
=============================================================================
