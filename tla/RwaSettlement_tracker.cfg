\* MaxBalance is installed with a cap of two shares.
CONSTANTS
  alice = alice
  bob = bob
  Investors = {alice}
  Queue = queue
  Treasury = treasury
  Issuer = issuer
  InitialCash <- OneInvestorCash
  CashMax = 4
  Amounts = {0, 1, 2}
  Hints = {1, 2}
  NAVs = {1, 3}
  Caps = {2}
  MinInvestments = {1}
  MinFloats = {0}
  Halts = {}
  MaxBalanceCap = 2
  MaxSupply = 3
  MaxRequests = 1
  MaxEpoch = 0
SPECIFICATION Spec
PROPERTIES NoOverCapMint
