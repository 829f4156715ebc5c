\* Two epochs on one float: fundings that are held, rates that are honest, and
\* a payer that is withdrawn and named again.
CONSTANTS
  a = a
  b = b
  Tokens = {t}
  Investors = {a, b}
  Issuer = issuer
  Snapshot = snapshot
  Funds = 6
  CashMax = 6
  RateScale = 2
  Holdings = {0, 1, 2}
  Amounts = {3}
  Rates = {3}
  Careful = {"held", "rate"}
  Halts = {"payer"}
  MaxEpochs = 2
SPECIFICATION Spec
INVARIANTS ClaimsWithinPull YieldCovered
SYMMETRY Alike
