\* Two users with a unit each: transfers, shared handles, one reserve for both.
\* Do their claims settle while the switches and the reserve move under them?
CONSTANTS
  alice = alice
  bob = bob
  usdcA = usdcA
  usdcB = usdcB
  Users = {alice, bob}
  Stable = stable
  Owner = owner
  Reserves = {usdcA}
  Underlying = usdcA
  Unset = unset
  InitialUsdc <- OneUnitUsdc
  InitialLegacy <- AliceLegacy
  CashMax = 15
  Amounts = {1, 2}
  Halts = {"wrapper", "claims"}
  MaxPending = 2
  MaxClaims = 2
  MaxRecoveries = 0
SPECIFICATION FairSpec
PROPERTIES ValuePromised ClaimsSettle
