\* One investor, two requests: every leg of a trade can be short, too wide or over its
\* hint, and the treasury's floor can be wider than the cash ledger.
CONSTANTS
  alice = alice
  bob = bob
  Investors = {alice}
  Queue = queue
  Treasury = treasury
  Issuer = issuer
  InitialCash <- OneInvestorCash
  CashMax = 4
  Amounts = {0, 1, 2, 6}
  Hints = {1, 2}
  NAVs = {1, 3}
  Caps = {3}
  MinInvestments = {1}
  MinFloats = {1, 6}
  Halts = {}
  MaxBalanceCap = 0
  MaxSupply = 3
  MaxRequests = 2
  MaxEpoch = 0
SPECIFICATION Spec
INVARIANTS TypeOK SharesConserved QueueBacked
PROPERTIES PositionKept FloatOutflow TerminalFinal
