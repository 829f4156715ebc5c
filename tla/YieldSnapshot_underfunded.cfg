\* The rate is honest, but nobody looks whether the issuer holds the amount.
CONSTANTS
  Tokens = {t}
  Investors = {a, b}
  Issuer = issuer
  Snapshot = snapshot
  Funds = 3
  CashMax = 6
  RateScale = 2
  Holdings = {0, 1}
  Amounts = {3}
  Rates = {3}
  Careful = {"rate"}
  Halts = {}
  MaxEpochs = 2
SPECIFICATION Spec
INVARIANTS ClaimsWithinPull
