\* Whatever the code handles goes wrong, whoever may race does.
CONSTANTS
  Parts = {"checkout", "late", "yield", "short", "capped", "deploy", "nav", "fed", "indexer", "escrow", "session", "both", "reinvest", "halted", "policy", "taps", "agent", "alone"}
  CheckoutOf <- FaultyCheckout
  YieldOf <- FaultyYield
  DeployOf <- FaultyDeploy
  NavOf <- FaultyNav
  EscrowOf <- FaultyEscrow
  SessionOf <- FaultySession
  ReinvestOf <- FaultyReinvest
  PolicyOf <- FaultyPolicy
  AgentOf <- FaultyAgent
  BlockRange = 2
  Legs = {"transfer"}
  MaxHeight = 4
  Faults = {"call", "leg", "database", "answer", "restart"}
  MaxFaults = 2
SPECIFICATION Services
INVARIANTS ServicesTypeOK FundedAsPromised NavServed NothingMissed RecordsFaithful MirrorHolds
  BuyIsClaimed BoughtAsAsked
PROPERTIES PaidOnce TierAsAsked
CHECK_DEADLOCK FALSE
