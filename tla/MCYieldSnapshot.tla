--------------------------- MODULE MCYieldSnapshot ---------------------------
(* An instance of YieldSnapshot small enough for TLC.                        *)
EXTENDS YieldSnapshot, TLC

CONSTANTS a, b

\* Two investors who start alike may be exchanged: no property names either.
Alike == Permutations({a, b})
=============================================================================
