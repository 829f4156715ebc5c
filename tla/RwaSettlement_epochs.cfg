\* The issuer moves the cap and the epoch numbering under the redemptions.
CONSTANTS
  alice = alice
  bob = bob
  Investors = {alice}
  Queue = queue
  Treasury = treasury
  Issuer = issuer
  InitialCash <- OneInvestorCash
  CashMax = 4
  Amounts = {0, 1, 2}
  Hints = {1, 2}
  NAVs = {1, 2}
  Caps = {0, 3}
  MinInvestments = {1}
  MinFloats = {0}
  Halts = {}
  MaxBalanceCap = 0
  MaxSupply = 2
  MaxRequests = 1
  MaxEpoch = 1
SPECIFICATION Spec
PROPERTIES InstantOutflowMetered
