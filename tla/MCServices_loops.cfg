\* What the backend's loops and the reinvest runner owe in the end.
CONSTANTS
  Parts = {"yield", "deploy", "indexer", "escrow", "reinvest"}
  CheckoutOf <- FairCheckout
  YieldOf <- FairYield
  DeployOf <- FairDeploy
  NavOf <- FairNav
  EscrowOf <- FairEscrow
  SessionOf <- FairSession
  ReinvestOf <- FairReinvest
  PolicyOf <- FairPolicy
  AgentOf <- FairAgent
  BlockRange = 2
  Legs = {"transfer"}
  MaxHeight = 3
  Faults = {"call", "database", "answer"}
  MaxFaults = 2
SPECIFICATION FairLoops
PROPERTIES EpochsComplete ToldRightly LogsRecorded Reinvested
CHECK_DEADLOCK FALSE
