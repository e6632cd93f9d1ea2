--------------------------- MODULE MCCachedSample ---------------------------
(* The instance of CachedSample that TLC checks.                           *)
EXTENDS CachedSample, TLC

CONSTANTS r1
=============================================================================
