----------------------------- MODULE MCServices -----------------------------
(* The services and programs of the repository that share no state, each     *)
(* small enough for TLC.  A behaviour follows one of them: "part" says which *)
(* and the others rest where they start.  As no step of one changes what     *)
(* another reads, what holds of each followed alone holds of all together.   *)
(* A part is an instance for a record c of its constants, so that what is    *)
(* said of it is said once for all its instances; the agent's two are plain. *)
(* The records come first; a configuration says which to take.               *)
EXTENDS ActivityIndexer

CONSTANTS
  Parts,   \* what a configuration follows
  CheckoutOf, YieldOf, DeployOf, NavOf, EscrowOf, SessionOf, ReinvestOf, PolicyOf, AgentOf

VARIABLES
  part,
  mishaps  \* faults so far of a part other than the indexer

-----------------------------------------------------------------------------
(* Constants.  "Faulty": whatever the code handles goes wrong.  "Fair": small *)
(* enough for liveness.                                                       *)

FaultyCheckout ==
  [Sessions |-> {"s"}, Tabs |-> {"t1", "t2"}, MaxRange |-> 1, MaxPurchases |-> 2,
   Faults |-> {"restart"}, MaxFaults |-> 1]
LateCheckout == [FaultyCheckout EXCEPT !.MaxPurchases = 1, !.Faults = {"expiry"}]
FairCheckout == [FaultyCheckout EXCEPT !.Faults = {"database"}, !.MaxPurchases = 1]

FaultyYield ==
  [Tokens |-> {"t"}, Rates |-> {1, 2}, RateScale |-> 2, Supplies |-> {1, 3}, Cap |-> 2, Float |-> 2,
   SnapshotBased |-> TRUE, MaxEpochs |-> 3,
   Faults |-> {"stale", "call", "wait", "database", "crash"}, MaxFaults |-> 2]
ShortYield ==
  [FaultyYield EXCEPT !.Tokens = {"t", "u"}, !.Faults = {"stale", "call", "crash"}, !.MaxEpochs = 2]
CappedYield == [FaultyYield EXCEPT !.SnapshotBased = FALSE, !.Rates = {0, 1, 2}, !.MaxFaults = 1]
FairYield == [FaultyYield EXCEPT !.MaxEpochs = 2, !.MaxFaults = 3]

FaultyDeploy ==
  [Pages |-> {"p"}, Symbols |-> {"A"}, Steps |-> 3, MaxDeploys |-> 2,
   Faults |-> {"call", "wait", "database", "rotation", "network", "reload", "reattach", "crash"}, MaxFaults |-> 2]
FairDeploy == [FaultyDeploy EXCEPT !.Faults = {"call", "network", "reload", "rotation"}]

FaultyNav ==
  [Interval |-> 4, MaxDelay |-> 2, BackfillAge |-> 10, Initial |-> {"none", "feed"},
   Faults |-> {"rpc", "database", "restart", "worker"}, MaxFaults |-> 4]
FedNav == [FaultyNav EXCEPT !.Faults = {"restart", "worker"}, !.MaxFaults = 2]
FairNav ==
  [FaultyNav EXCEPT !.Interval = 3, !.MaxDelay = 1, !.Initial = {"feed"}, !.MaxFaults = 2,
                    !.Faults = {"dead", "rpc", "restart", "worker"}]

FaultyEscrow ==
  [Count |-> 2, Members |-> {2}, MaxHeight |-> 3,
   Faults |-> {"call", "database", "answer", "restart"}, MaxFaults |-> 2]
FairEscrow == [FaultyEscrow EXCEPT !.Members = {1, 2}, !.Faults = {"call"}, !.MaxFaults = 1]

FaultySession ==
  [Brokers |-> {"b"}, Kinds |-> {"buy"}, MaxSessions |-> 2,
   Faults |-> {"answer", "slow", "callback", "restart"}, MaxFaults |-> 2]
BothSession == [FaultySession EXCEPT !.Kinds = {"buy", "run"}, !.Faults = {}]
FairSession ==
  [FaultySession EXCEPT !.Faults = {"backend", "answer", "slow", "callback"}, !.MaxFaults = 1]

FaultyReinvest ==
  [Runners |-> {"r1", "r2"}, None |-> "none", Stale |-> "stale", Epochs |-> 1, Lookback |-> 1, MaxOps |-> 3,
   Faults |-> {"answer", "slow", "hand", "market", "crash"}, MaxFaults |-> 2]
HaltedReinvest == [FaultyReinvest EXCEPT !.Faults = {"stop"}, !.MaxFaults = 1]
FairReinvest ==
  [FaultyReinvest EXCEPT !.Runners = {"r1"}, !.Epochs = 2, !.MaxOps = 4, !.Faults = {"backend", "slow", "hand", "market"}]

FaultyPolicy ==
  [Requests |-> {"r1"}, Wanted |-> {"advisory", "confirm", "bound", "scoped"}, Engine |-> FALSE,
   MaxTokens |-> 1, Faults |-> {"audit", "crash"}, MaxFaults |-> 1]
TapsPolicy ==
  [FaultyPolicy EXCEPT !.Requests = {"r1", "r2"}, !.Wanted = {"bound"}, !.Faults = {}, !.MaxTokens = 1]
FairPolicy ==
  [FaultyPolicy EXCEPT !.Wanted = {"scoped"}, !.Engine = TRUE, !.Faults = {"engine"}]

FaultyAgent ==
  [Buys |-> {"a", "b"}, Linked |-> {"a"}, Coded |-> {}, Deep |-> {}, Scoped |-> TRUE,
   Answers |-> {"confirm", "deny"}, MaxFaults |-> 2, MaxBuys |-> 2, NoBuy |-> "none",
   Faults |-> {"notify", "audit", "event", "refuse", "timeout", "commit", "slow", "leave"}]
AloneAgent ==
  [FaultyAgent EXCEPT !.Buys = {"a"}, !.Coded = {"a"}, !.Scoped = FALSE, !.MaxFaults = 3,
                      !.Faults = {"notify", "audit", "event", "refuse"}]
FairAgent ==
  [FaultyAgent EXCEPT !.Buys = {"a"}, !.Deep = {"a"}, !.Scoped = FALSE, !.Faults = {"refuse"}, !.MaxFaults = 1]

-----------------------------------------------------------------------------
(* Parts *)

VARIABLES sessionStatus, paidBy, late, tabs, handlers, purchases,
  purchaseCursor, scan, announced
checkoutVars == <<sessionStatus, paidBy, late, tabs, handlers, purchases, purchaseCursor, scan, announced>>
Checkout(c) == INSTANCE CheckoutSession WITH
  status <- sessionStatus, chain <- purchases, cursor <- purchaseCursor,
  faults <- mishaps, Sessions <- c.Sessions, Tabs <- c.Tabs,
  MaxRange <- c.MaxRange, MaxPurchases <- c.MaxPurchases, Faults <- c.Faults,
  MaxFaults <- c.MaxFaults

VARIABLES epochs, txs, distributions, balance, dayDue, floatSweep, run
yieldVars == <<epochs, txs, distributions, balance, dayDue, floatSweep, run>>
Yield(c) == INSTANCE YieldEpoch WITH
  rows <- distributions, due <- dayDue, sweep <- floatSweep, faults <- mishaps,
  Tokens <- c.Tokens, Rates <- c.Rates, RateScale <- c.RateScale,
  Supplies <- c.Supplies, Cap <- c.Cap, Float <- c.Float,
  SnapshotBased <- c.SnapshotBased, MaxEpochs <- c.MaxEpochs,
  Faults <- c.Faults, MaxFaults <- c.MaxFaults

VARIABLES deploys, workers, done, rotated, history, pages
deployVars == <<deploys, workers, done, rotated, history, pages>>
Deploy(c) == INSTANCE TokenDeploy WITH
  buffered <- history, faults <- mishaps, Pages <- c.Pages,
  Symbols <- c.Symbols, Steps <- c.Steps, MaxDeploys <- c.MaxDeploys,
  Faults <- c.Faults, MaxFaults <- c.MaxFaults

VARIABLES navAge, feed, fedAge, newest, rowAge, fed, worker, fetchDue, pub,
  timer, health
navVars == <<navAge, feed, fedAge, newest, rowAge, fed, worker, fetchDue, pub, timer, health>>
Nav(c) == INSTANCE NavRefresh WITH
  age <- navAge, due <- fetchDue, status <- health, faults <- mishaps,
  Interval <- c.Interval, MaxDelay <- c.MaxDelay, BackfillAge <- c.BackfillAge,
  Initial <- c.Initial, Faults <- c.Faults, MaxFaults <- c.MaxFaults

VARIABLES escrowLog, paid, escrowCursor, polledFrom, poll, users, escrowStatus,
  records, escrowBuffer
escrowVars == <<escrowLog, paid, escrowCursor, polledFrom, poll, users, escrowStatus, records, escrowBuffer>>
Escrow(c) == INSTANCE EscrowPoller WITH
  chain <- escrowLog, cursor <- escrowCursor, began <- polledFrom,
  status <- escrowStatus, buffered <- escrowBuffer, faults <- mishaps,
  Count <- c.Count, Members <- c.Members, MaxHeight <- c.MaxHeight,
  Faults <- c.Faults, MaxFaults <- c.MaxFaults

VARIABLES sessionRows, overdue, draft, key, snapshots, clients, mempool,
  installed, accountNonce, callbacks, indexer
sessionVars ==
  <<sessionRows, overdue, draft, key, snapshots, clients, mempool,
  installed, accountNonce, callbacks, indexer>>
Session(c) == INSTANCE ScopedSession WITH
  rows <- sessionRows, due <- overdue, nonce <- accountNonce,
  faults <- mishaps, Brokers <- c.Brokers, Kinds <- c.Kinds,
  MaxSessions <- c.MaxSessions, Faults <- c.Faults, MaxFaults <- c.MaxFaults

VARIABLES proc, cooldown, pidfile, stopper, current, expired, sweptEpochs,
  market, claims, reinvested, keyNonce, ops, audit
reinvestVars ==
  <<proc, cooldown, pidfile, stopper, current, expired, sweptEpochs,
  market, claims, reinvested, keyNonce, ops, audit>>
Reinvest(c) == INSTANCE ReinvestRunner WITH
  swept <- sweptEpochs, bought <- reinvested, nonce <- keyNonce,
  faults <- mishaps, Runners <- c.Runners, None <- c.None, Stale <- c.Stale,
  Epochs <- c.Epochs, Lookback <- c.Lookback, MaxOps <- c.MaxOps,
  Faults <- c.Faults, MaxFaults <- c.MaxFaults

VARIABLES tier, tokens, job, trail, sessionActive, keyBought, policySweep,
  breach, held
policyVars == <<tier, tokens, job, trail, sessionActive, keyBought, policySweep, breach, held>>
Policy(c) == INSTANCE PolicyTier WITH
  active <- sessionActive, bought <- keyBought, sweep <- policySweep,
  faults <- mishaps, Requests <- c.Requests, Wanted <- c.Wanted,
  Engine <- c.Engine, MaxTokens <- c.MaxTokens, Faults <- c.Faults,
  MaxFaults <- c.MaxFaults

VARIABLES queue, dialogue, modal, fallback, here, visit, firing, looked, runs,
  row, sent, coded, spurned, requests, verdicts, events, token, tokenAge,
  purchased, receipts, asked, shown
agentVars ==
  <<queue, dialogue, modal, fallback, here, visit, firing, looked, runs,
  row, sent, coded, spurned, requests, verdicts, events, token, tokenAge, purchased,
  receipts, asked, shown>>
Agent == INSTANCE OpenclawIntent WITH
  active <- dialogue, age <- tokenAge, bought <- purchased, faults <- mishaps,
  Buys <- AgentOf.Buys, Linked <- AgentOf.Linked, Coded <- AgentOf.Coded,
  Deep <- AgentOf.Deep, Scoped <- AgentOf.Scoped, Answers <- AgentOf.Answers,
  Faults <- AgentOf.Faults, MaxFaults <- AgentOf.MaxFaults,
  MaxBuys <- AgentOf.MaxBuys, NoBuy <- AgentOf.NoBuy

\* One linked proposal, and no fault that repeats a purchase.
Alone == INSTANCE OpenclawIntent WITH
  active <- dialogue, age <- tokenAge, bought <- purchased, faults <- mishaps,
  Buys <- AloneAgent.Buys, Linked <- AloneAgent.Linked,
  Coded <- AloneAgent.Coded, Deep <- AloneAgent.Deep,
  Scoped <- AloneAgent.Scoped, Answers <- AloneAgent.Answers,
  Faults <- AloneAgent.Faults, MaxFaults <- AloneAgent.MaxFaults,
  MaxBuys <- AloneAgent.MaxBuys, NoBuy <- AloneAgent.NoBuy

indexerVars == <<log, cursor, began, tick, rows, issuer>>

-----------------------------------------------------------------------------
(* Behaviours *)

Rest(name) ==
  /\ name \notin {"checkout", "late"} => UNCHANGED checkoutVars
  /\ name \notin {"yield", "short", "capped"} => UNCHANGED yieldVars
  /\ name # "deploy" => UNCHANGED deployVars
  /\ name \notin {"nav", "fed"} => UNCHANGED navVars
  /\ IF name = "indexer" THEN UNCHANGED mishaps ELSE UNCHANGED <<indexerVars, faults>>
  /\ name # "escrow" => UNCHANGED escrowVars
  /\ name \notin {"session", "both"} => UNCHANGED sessionVars
  /\ name \notin {"reinvest", "halted"} => UNCHANGED reinvestVars
  /\ name \notin {"policy", "taps"} => UNCHANGED policyVars
  /\ name \notin {"agent", "alone"} => UNCHANGED agentVars

\* A part that rests does so in one state.
AtRest ==
  /\ part \notin {"nav", "fed"} => feed = "same" /\ newest = CHOOSE kind \in NavOf.Initial : TRUE
  /\ part # "indexer" => log = <<None>>

ServicesInit ==
  /\ part \in Parts
  /\ Deploy(DeployOf)!Init /\ Nav(NavOf)!Init /\ Init /\ Escrow(EscrowOf)!Init
  /\ IF part = "late" THEN Checkout(LateCheckout)!Init ELSE Checkout(CheckoutOf)!Init
  /\ IF part = "short" THEN Yield(ShortYield)!Init
     ELSE IF part = "capped" THEN Yield(CappedYield)!Init ELSE Yield(YieldOf)!Init
  /\ IF part = "both" THEN Session(BothSession)!Init ELSE Session(SessionOf)!Init
  /\ IF part = "halted" THEN Reinvest(HaltedReinvest)!Init ELSE Reinvest(ReinvestOf)!Init
  /\ IF part = "taps" THEN Policy(TapsPolicy)!Init ELSE Policy(PolicyOf)!Init
  /\ IF part = "alone" THEN Alone!Init ELSE Agent!Init
  /\ AtRest

Follows(name) == part = name /\ part' = name

ServicesNext ==
  \/ Follows("checkout") /\ Checkout(CheckoutOf)!Next /\ Rest("checkout")
  \/ Follows("late") /\ Checkout(LateCheckout)!Next /\ Rest("late")
  \/ Follows("yield") /\ Yield(YieldOf)!Next /\ Rest("yield")
  \/ Follows("short") /\ Yield(ShortYield)!Next /\ Rest("short")
  \/ Follows("capped") /\ Yield(CappedYield)!Next /\ Rest("capped")
  \/ Follows("deploy") /\ Deploy(DeployOf)!Next /\ Rest("deploy")
  \/ Follows("nav") /\ Nav(NavOf)!Next /\ Rest("nav")
  \/ Follows("fed") /\ Nav(FedNav)!Next /\ Rest("fed")
  \/ Follows("indexer") /\ Next /\ Rest("indexer")
  \/ Follows("escrow") /\ Escrow(EscrowOf)!Next /\ Rest("escrow")
  \/ Follows("session") /\ Session(SessionOf)!Next /\ Rest("session")
  \/ Follows("both") /\ Session(BothSession)!Next /\ Rest("both")
  \/ Follows("reinvest") /\ Reinvest(ReinvestOf)!Next /\ Rest("reinvest")
  \/ Follows("halted") /\ Reinvest(HaltedReinvest)!Next /\ Rest("halted")
  \/ Follows("policy") /\ Policy(PolicyOf)!Next /\ Rest("policy")
  \/ Follows("taps") /\ Policy(TapsPolicy)!Next /\ Rest("taps")
  \/ Follows("agent") /\ Agent!Next /\ Rest("agent")
  \/ Follows("alone") /\ Alone!Next /\ Rest("alone")

servicesVars ==
  <<part, faults, mishaps, checkoutVars, yieldVars, deployVars, navVars, indexerVars, escrowVars,
    sessionVars, reinvestVars, policyVars, agentVars>>

Services == ServicesInit /\ [][ServicesNext]_servicesVars

\* The fairness each module states of its part.
checkoutSteps == <<checkoutVars, mishaps>>
FairCheckoutSession ==
  /\ WF_checkoutSteps(part = "checkout" /\ Checkout(CheckoutOf)!Indexer)
  /\ \A t \in CheckoutOf.Tabs :
       WF_checkoutSteps(part = "checkout" /\ \E h \in handlers : h.tab = t /\ Checkout(CheckoutOf)!Handler(h))

yieldSteps == <<yieldVars, mishaps>>
FairYieldEpoch ==
  /\ WF_yieldSteps(part = "yield" /\ Yield(YieldOf)!Mine) /\ WF_yieldSteps(part = "yield" /\ Yield(YieldOf)!NewDay)
  /\ WF_yieldSteps(part = "yield" /\ Yield(YieldOf)!Tick) /\ WF_yieldSteps(part = "yield" /\ Yield(YieldOf)!SweepDone)
  /\ WF_yieldSteps(part = "yield" /\ Yield(YieldOf)!Runner)
  /\ \A t \in YieldOf.Tokens : WF_yieldSteps(part = "yield" /\ Yield(YieldOf)!Handle(t))

deploySteps == <<deployVars, mishaps>>
FairTokenDeploy ==
  /\ \A d \in Deploy(DeployOf)!Id : WF_deploySteps(part = "deploy" /\ d \in DOMAIN deploys /\ Deploy(DeployOf)!Run(d))
  /\ \A p \in DeployOf.Pages : WF_deploySteps(part = "deploy" /\ Deploy(DeployOf)!View(p))

navSteps == <<navVars, mishaps>>
FairNavRefresh ==
  /\ WF_navSteps(part = "nav" /\ Nav(NavOf)!WorkerStep) /\ WF_navSteps(part = "nav" /\ Nav(NavOf)!PublisherStep)
  /\ WF_navSteps(part = "nav" /\ Nav(NavOf)!Tick)

FairIndexer ==
  /\ WF_vars(part = "indexer" /\ Begin)
  /\ WF_vars(part = "indexer" /\ (Fetch \/ Apply \/ Save))

escrowSteps == <<escrowVars, mishaps>>
FairEscrowPoller ==
  /\ WF_escrowSteps(part = "escrow" /\ Escrow(EscrowOf)!Begin)
  /\ WF_escrowSteps(part = "escrow" /\ (Escrow(EscrowOf)!Process \/ Escrow(EscrowOf)!Advance))

sessionSteps == <<sessionVars, mishaps>>
FairScopedSession ==
  /\ \A c \in Session(SessionOf)!Clients : WF_sessionSteps(part = "session" /\ Session(SessionOf)!Step(c))
  /\ WF_sessionSteps(part = "session" /\ \E o \in mempool : Session(SessionOf)!Land(o))
  /\ WF_sessionSteps(part = "session" /\ Session(SessionOf)!Anchor)
  /\ \A s \in Session(SessionOf)!Id :
       /\ WF_sessionSteps(part = "session" /\ s \in DOMAIN sessionRows /\ Session(SessionOf)!Tick(s))
       /\ WF_sessionSteps(part = "session" /\ \E b \in SessionOf.Brokers : Session(SessionOf)!Callback(b, s))

reinvestSteps == <<reinvestVars, mishaps>>
FairReinvestRunner ==
  /\ \A r \in ReinvestOf.Runners :
       /\ WF_reinvestSteps(part = "reinvest" /\ Reinvest(ReinvestOf)!Works(r))
       /\ WF_reinvestSteps(part = "reinvest" /\ \E e \in Reinvest(ReinvestOf)!Epoch : Reinvest(ReinvestOf)!Elapses(r, e))
  /\ WF_reinvestSteps(part = "reinvest" /\ \E o \in ops : Reinvest(ReinvestOf)!Land(o))

policySteps == <<policyVars, mishaps>>
FairPolicyTier == WF_policySteps(part = "policy" /\ Policy(PolicyOf)!CronStep)

agentSteps == <<agentVars, mishaps>>
FairOpenclawIntent ==
  /\ WF_agentSteps(part = "agent" /\ Agent!Delivers) /\ WF_agentSteps(part = "agent" /\ Agent!RunSteps)
  /\ WF_agentSteps(part = "agent" /\ Agent!Lookup)
  /\ \A b \in AgentOf.Linked :
       /\ WF_agentSteps(part = "agent" /\ Agent!Confirm(b))
       /\ WF_agentSteps(part = "agent" /\ Agent!Deny(b))

FairLoops ==
  Services /\ FairYieldEpoch /\ FairTokenDeploy /\ FairIndexer /\ FairEscrowPoller /\ FairReinvestRunner
FairPages ==
  Services /\ FairCheckoutSession /\ FairNavRefresh /\ FairScopedSession /\ FairPolicyTier /\ FairOpenclawIntent


ASSUME ConstantsAssumption ==
  /\ Checkout(CheckoutOf)!FaultsAssumption /\ Yield(YieldOf)!YieldAssumption /\ Deploy(DeployOf)!DeployAssumption
  /\ Nav(NavOf)!RefreshAssumption /\ Escrow(EscrowOf)!PollerAssumption /\ Session(SessionOf)!SessionAssumption
  /\ Reinvest(ReinvestOf)!ReinvestAssumption /\ Policy(PolicyOf)!PolicyAssumption
  /\ Agent!BuysAssumption /\ Agent!AnswersAssumption /\ Agent!BoundsAssumption

-----------------------------------------------------------------------------
(* Properties: what the modules promise of the parts that are followed *)

\* The part that is followed keeps the types of its variables.
ServicesTypeOK ==
  /\ part = "checkout" => Checkout(CheckoutOf)!TypeOK
  /\ part = "late" => Checkout(LateCheckout)!TypeOK
  /\ part = "yield" => Yield(YieldOf)!TypeOK
  /\ part = "short" => Yield(ShortYield)!TypeOK
  /\ part = "capped" => Yield(CappedYield)!TypeOK
  /\ part = "deploy" => Deploy(DeployOf)!TypeOK
  /\ part = "nav" => Nav(NavOf)!TypeOK
  /\ part = "fed" => Nav(FedNav)!TypeOK
  /\ part = "indexer" => TypeOK
  /\ part = "escrow" => Escrow(EscrowOf)!TypeOK
  /\ part = "session" => Session(SessionOf)!TypeOK
  /\ part = "both" => Session(BothSession)!TypeOK
  /\ part = "reinvest" => Reinvest(ReinvestOf)!TypeOK
  /\ part = "halted" => Reinvest(HaltedReinvest)!TypeOK
  /\ part = "policy" => Policy(PolicyOf)!TypeOK
  /\ part = "taps" => Policy(TapsPolicy)!TypeOK
  /\ part = "agent" => Agent!TypeOK
  /\ part = "alone" => Alone!TypeOK

\* transition-session.use-case.ts:129-183: however tabs, retries and the
\* indexer race, a session moves along one edge at a time, names one purchase,
\* which was made for it, and announces each step once.
PaidOnce ==
  /\ [](part = "checkout" => Checkout(CheckoutOf)!AnnouncedOnce)
  /\ [](part = "late" => Checkout(LateCheckout)!AnnouncedOnce)
  /\ [][part = "checkout" => Checkout(CheckoutOf)!KeepsPayment /\ Checkout(CheckoutOf)!StepsForward]_checkoutVars
  /\ [][part = "late" => Checkout(LateCheckout)!KeepsPayment /\ Checkout(LateCheckout)!StepsForward]_checkoutVars

\* checkout-settlement-indexer.ts:183-260: a recorded purchase the indexer has
\* not passed is settled, through failed ticks and failed settlements.
AheadSettles == Checkout(CheckoutOf)!AheadSettles

\* yield-epoch-runner.ts:882-1140, yield-cron.ts:1200-1240: an epoch is funded
\* at the rate of its audit row, for its own holders and in full, whichever day
\* a crashed or failed run is resumed on; and what is resumed is current.
FundedAsPromised ==
  /\ part = "yield" => Yield(YieldOf)!RowsAgree /\ Yield(YieldOf)!AmountFits /\ Yield(YieldOf)!NoOrphan
  /\ part = "capped" => Yield(CappedYield)!AmountFits
  /\ part = "short" => Yield(ShortYield)!RowsAgree /\ Yield(ShortYield)!AmountFits /\ Yield(ShortYield)!NoOrphan /\ Yield(ShortYield)!PaidInFull

\* yield-cron.ts:1036-1240, yield-epoch-runner.ts:1290-1480: whatever fails, an
\* epoch begun is distributed, though it may be days later, unless its yield
\* rounds to nothing.
EpochsComplete == Yield(YieldOf)!EpochsComplete

\* deploy-token.library.ts:416, events.ts:96: a page that began a deployment is told how
\* it ended, and rightly: that it succeeded only when the token is registered or
\* the registry was handed on meanwhile, that it failed only when it is not.
ToldRightly == Deploy(DeployOf)!EndTold /\ []Deploy(DeployOf)!EndTruthful

\* publisher.ts:356, index.ts:125: the NAV on chain stays fresh while the feed
\* answers, and whatever fails /health calls no stale one ok.
NavServed ==
  /\ part = "fed" => Nav(FedNav)!FreshWhileFed
  /\ part = "nav" => Nav(NavOf)!HealthTruthful

\* publisher.ts:254-300: the NAV is renewed once the feed is back, and not while
\* the feed has been silent for longer than the liveness gate allows.
NavRenewed == Nav(NavOf)!Recovers /\ [][part = "nav" => Nav(NavOf)!RenewedWhileHeard]_navVars

\* The logs that are read are recorded in the end: trades by one indexer,
\* escrows and their redemptions by the other.
LogsRecorded == Indexed /\ Escrow(EscrowOf)!Recorded /\ Escrow(EscrowOf)!RedemptionShown

\* process-escrow-event.use-case.ts:81-160: however often a window is replayed,
\* an escrow has one record, which says claimed only if a redemption was logged.
\* deploy-token.library.ts:416: a token is registered only when every step before
\* took effect, but for those whose contract was handed on meanwhile.
RecordsFaithful ==
  /\ part = "escrow" => Escrow(EscrowOf)!OneRecord /\ Escrow(EscrowOf)!ClaimedWasRedeemed
  /\ part = "deploy" => Deploy(DeployOf)!RegisteredIsWired

\* handlers.ts:2043, pg-scoped-session.repository.ts:401: an operation is of the
\* session its program last saw active, and a row says enabled only of a
\* permission on the account.
MirrorHolds ==
  /\ part = "session" => Session(SessionOf)!KillSwitch /\ Session(SessionOf)!EnabledIsInstalled
  /\ part = "both" => Session(BothSession)!KillSwitch /\ Session(BothSession)!EnabledIsInstalled

\* handlers.ts:2189, :2718: the first operation of a session installs its
\* permission unless the session ends before, and the mirror learns of it.
SessionInstalls == Session(SessionOf)!FirstBuyInstalls /\ Session(SessionOf)!InstallTold

\* execute.ts:437: an epoch's yield buys once, and only what its own batch
\* claimed, whatever is submitted how often.
BuyIsClaimed ==
  /\ part = "reinvest" => Reinvest(ReinvestOf)!BuyIsClaimed
  /\ part = "halted" => Reinvest(HaltedReinvest)!BuyIsClaimed

\* runner.ts:230: an epoch that stays claimable, of a token that can be bought, is
\* reinvested, by one operation at a time, none of which the runner lets go of
\* unrecorded.
Reinvested ==
  /\ Reinvest(ReinvestOf)!Reinvested
  /\ [][Reinvest(ReinvestOf)!SubmitsNoSecond]_reinvestVars
  /\ []Reinvest(ReinvestOf)!SubmittedIsHeld

\* transition-tier.use-case.ts:182, pause-agent.use-case.ts:57: an answered pause
\* holds until somebody resumes, a tap changes a tier once, what was not
\* confirmed only narrows; and while nothing fails the trail ends with the tier.
TierAsAsked ==
  /\ [](part = "policy" => Policy(PolicyOf)!PauseHolds /\ (mishaps = 0 => Policy(PolicyOf)!AuditOrder))
  /\ [](part = "taps" => Policy(TapsPolicy)!OneTapOneChange)
  /\ [][part = "policy" => Policy(PolicyOf)!Narrows]_policyVars

\* policy-engine-tick.use-case.ts:80: a breach that lasts pauses every surface
\* the agent acts silently on.
BreachPauses == Policy(PolicyOf)!BreachPauses

\* AgentPage.vue:101, pg-openclaw-intent.repository.ts:82: a proposal is bought
\* by one run, only if somebody asked, at most once unless a commit fails; its
\* intent has one verdict, and its token one purchase.
BoughtAsAsked ==
  /\ part = "agent" => Agent!OneRunner /\ Agent!BoughtWasAsked /\ Agent!TokenSpentOnce /\ Agent!OneVerdict
  /\ part = "alone" => Alone!OneVerdict /\ Alone!BoughtOnce

\* A proposal that is open and idle when Telegram confirms it is fired from the
\* open page, unless the user closes it or leaves.
ConfirmedFires == Agent!ConfirmedFires
=============================================================================
