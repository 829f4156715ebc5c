\* One user: every way in and out, two claims, a reserve that is rotated and recovered.
CONSTANTS
  alice = alice
  bob = bob
  usdcA = usdcA
  usdcB = usdcB
  Users = {alice}
  Stable = stable
  Owner = owner
  Reserves = {usdcA, usdcB}
  Underlying = usdcA
  Unset = unset
  InitialUsdc <- TwoUnitsUsdc
  InitialLegacy <- AliceLegacy
  CashMax = 15
  Amounts = {0, 1, 2}
  Halts = {"claims"}
  MaxPending = 2
  MaxClaims = 3
  MaxRecoveries = 1
SPECIFICATION Spec
INVARIANTS TypeOK Collateralised PendingListed
PROPERTIES ValuePromised
