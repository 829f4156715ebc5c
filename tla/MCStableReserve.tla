--------------------------- MODULE MCStableReserve ---------------------------
(* Instances of StableReserve small enough for TLC: who holds what outside   *)
(* the wrapper at the start.                                                 *)
EXTENDS StableReserve

CONSTANTS alice, bob, usdcA, usdcB

\* Each user starts with some of the first reserve token, the owner with one
\* unit of each.
StartUsdc(each) ==
  [token \in Reserves |->
     [h \in Holders |-> CASE h = Owner -> 1
                          [] h = Stable -> 0
                          [] OTHER -> IF token = usdcA THEN each ELSE 0]]
TwoUnitsUsdc == StartUsdc(2)
OneUnitUsdc == StartUsdc(1)

\* Alice brings a unit of the legacy token.
AliceLegacy == [h \in Users \cup {Stable} |-> IF h = alice THEN 1 ELSE 0]
=============================================================================
