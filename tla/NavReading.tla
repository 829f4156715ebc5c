----------------------------- MODULE NavReading -----------------------------
(***************************************************************************)
(* What a price oracle promises to the contracts that settle at its NAV:   *)
(* the pair of answers getNAV and isFresh give for one token.  A token has *)
(* no NAV until the first quote and always has one afterwards; there is no *)
(* fresh reading of a NAV of zero.                                         *)
(***************************************************************************)
EXTENDS Naturals

CONSTANT NAVs    \* quotes, none of them zero

VARIABLE reading

Init == reading = [nav |-> 0, fresh |-> FALSE]

Next == \E nav \in NAVs, fresh \in BOOLEAN : reading' = [nav |-> nav, fresh |-> fresh]

Spec == Init /\ [][Next]_reading
=============================================================================
