\* What the pages, the sessions, the tiers and the NAV owe in the end.
CONSTANTS
  Parts = {"checkout", "nav", "session", "policy", "agent"}
  CheckoutOf <- FairCheckout
  YieldOf <- FairYield
  DeployOf <- FairDeploy
  NavOf <- FairNav
  EscrowOf <- FairEscrow
  SessionOf <- FairSession
  ReinvestOf <- FairReinvest
  PolicyOf <- FairPolicy
  AgentOf <- FairAgent
  BlockRange = 2
  Legs = {"transfer"}
  MaxHeight = 3
  Faults = {"call", "database", "answer"}
  MaxFaults = 2
SPECIFICATION FairPages
PROPERTIES AheadSettles NavRenewed SessionInstalls BreachPauses ConfirmedFires
CHECK_DEADLOCK FALSE
