-------------------------- MODULE MCRwaSettlement ---------------------------
(* Instances of RwaSettlement small enough for TLC: who holds cash at the   *)
(* start.  The sums are chosen so that the treasury can pay some redemptions *)
(* and not others, and that a cost can exceed both a balance and CashMax.   *)
EXTENDS RwaSettlement, TLC

CONSTANTS alice, bob

\* One investor who can pay for three shares at a NAV of 1 and one at 3.
OneInvestorCash ==
  [a \in CashAccounts |-> CASE a = alice -> 3 [] a = Treasury -> 1 [] OTHER -> 0]

\* Two investors with a unit each and a treasury with one.
TwoInvestorCash ==
  [a \in CashAccounts |-> IF a = Issuer THEN 0 ELSE 1]

\* Two investors who start alike may be exchanged: no property names either.
Alike == Permutations({alice, bob})
=============================================================================
