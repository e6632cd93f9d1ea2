----------------------------- MODULE MCMapCache -----------------------------
(* The instances of MapCache that TLC checks.                              *)
EXTENDS MapCache, TLC

CONSTANTS a, b, c, d, e

\* Keys a and b start with one prefix, key c with another.
TwoPrefixes == {{a, b}, {c}}
NoPrefixes == {}

\* Without prefixes nothing tells one key from another.
KeySymmetry == Permutations(Keys)
=============================================================================
