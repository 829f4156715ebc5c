\* Two investors share one treasury and one page of the queue, while the pause
\* switches of the three contracts flip between the steps.
CONSTANTS
  alice = alice
  bob = bob
  Investors = {alice, bob}
  Queue = queue
  Treasury = treasury
  Issuer = issuer
  InitialCash <- TwoInvestorCash
  CashMax = 4
  Amounts = {1}
  Hints = {1}
  NAVs = {1}
  Caps = {1}
  MinInvestments = {1}
  MinFloats = {0}
  Halts = {"registry", "token", "cash"}
  MaxBalanceCap = 0
  MaxSupply = 2
  MaxRequests = 2
  MaxEpoch = 0
SPECIFICATION Spec
INVARIANTS QueueBacked
PROPERTIES PositionKept
SYMMETRY Alike
