--------------------------- MODULE MCMapContract ---------------------------
(* The instance of MapCacheContract that TLC checks.                       *)
EXTENDS MapCacheContract

CONSTANTS a, b, c

\* Keys a and b start with one prefix, key c with another.
TwoPrefixes == {{a, b}, {c}}
=============================================================================
