# MuHaven: specifications and proofs

MuHaven sells tokenised real-world assets whose balances are encrypted
(Fhenix CoFHE on Arbitrum). Investors pay in mhUSDC, an encrypted USDC wrapper;
the price is a NAV the issuer's oracle publishes; redemptions are paid from a
treasury at once up to a cap per epoch and through a queue above it; yield is
distributed by snapshots. Around the contracts run a backend (checkout, yield
cron, deployments, two indexers, the policy of an investing agent), two NAV
services, programs that trade under a session key, and the pages that start and
follow all of it. This directory holds TLA+ modules of the contracts and of
those programs, the TLC configurations that check them on small instances, and
proofs for the TLA+ proof system of what they keep on every instance.

One difficulty shapes the whole system. A comparison of ciphertexts cannot
revert, so a leg of a transaction that cannot be honoured *moves an encrypted
zero instead of failing*, and the other legs must follow it without anyone
seeing what happened. Conditions on public values do revert. In the modules a
loud condition is a guard, and a silent one is part of the effect. Off chain the
difficulty is another one: every handler reads a row, awaits, and acts on what it
read, while another tab, a retry, a cron or a restart does the same. There a
module has one action per stretch of code between two awaits.

## 1. The system

| Part | State | Operations | Talks to |
|---|---|---|---|
| `MuHavenToken` (shares) | encrypted balances, allowances, total supply; roles; pause | mint, burn and pull for the settlement contracts, transfers, approvals | compliance, `InvestorRegistry` |
| `MuHavenStable` (mhUSDC) | encrypted balances and supply, operators, trusted payers, USDC reserve, withdrawal claims | transfer(From), wrap/unwrap, two-phase USDC exit, `trustedPayout` | legacy PUSDC, USDC, the CoFHE decryption network |
| `MuHavenSubscription` | instant-redemption counter per token and epoch | `purchase`, `redeem` | registry, oracle, both ledgers, queue, compliance |
| `RedemptionQueue` | requests, request ids per epoch | `submit`, `submitFor`, `processEpoch`, `cancelOnKYCRevocation` | registry, oracle, both ledgers |
| `MuHavenTreasury` | `minFloat` (its float is a balance of mhUSDC) | `withdraw`, `setMinFloat`, migration | mhUSDC |
| `TokenRegistry` | per token: pointers, `minInvestment`, cap, epoch duration, paused | issuer and owner setters | read by all |
| `IssuerControlledOracle` | NAV, its date, a parked quote, limits; sequencer feed | `setNAV`, accept/reject, setters | read by the settlement contracts |
| `ChainlinkFunctionsOracle` | requests in flight, NAV | request, fulfil | Chainlink router |
| Compliance (`ModularCompliance`, `MaxBalance`, `MaxHolders`, `Lockup`, `Country*`) | cleartext trackers | `canTransfer`, `created`, `destroyed`, `transferred` | called around mint, burn and transfer |
| Identity (`MuHavenIdentityRegistry`, claim registries) | whitelist, claims | `isVerified` | read as a gate |
| `YieldSnapshot` | yield epochs, snapshots, claims, remaining yield | open, snapshot pages, finalise, fund, claim, sweep | both ledgers |
| Earlier generation and staging contracts | escrows, vault, governance, protection pool, risk limits | | |
| Checkout (hosted page, session handlers, settlement indexer) | session rows, cursor | report a step, settle a purchase, expire | Subscription's events, webhooks |
| Yield cron and epoch runner | distributions, the sweep's float ledger | sweep, open, capture, fund, resume | `YieldSnapshot`, oracle |
| Token deployment (library, use case, wizard) | deployment rows, event bus | run ten steps, stream, reattach | the chain, the issuer's page |
| NAV worker and publisher | rate rows; the age of the NAV, `/health` | fetch, date, refresh | feed, oracle |
| Activity indexer; escrow poller | cursors in memory, activity rows, escrow and yield records | tick | chain, registry rows |
| Scoped sessions (dashboard, mirror, broker, tools) | session rows, key and snapshot in a broker, permission on the account | mint, revoke, buy, install, report | bundler, watchdog, indexer |
| Reinvest runner | pidfile, cooldowns, cycle rows | poll, submit, record | bundler, backend |
| Agent policy | tiers, confirmation tokens, audit rows | transition, confirm, pause, resume; engine's cron | risk parameters |
| Agent proposals and intents | queue and dialogue of the page, intent rows, events | propose, confirm or deny from Telegram, run, commit | bot, event stream, Subscription |
| Withdrawals, device link, FHE worker, SDK, other pages | rows, requests in flight | REST | the contracts |

What is hard:

* **Partial failure inside one transaction.** Shares and cash live in two
  ledgers; either leg may silently move nothing.
* **Ordering across transactions.** NAV, caps, verification, pause switches and
  the treasury's float all change between a request and its settlement; pages
  of an epoch are re-run, overlap, and race cancellations.
* **Widths.** Shares have 128 bits and cash 64; products are narrowed by
  dropping high bits.
* **Cleartext shadows of encrypted values** (the per-epoch cap, `MaxBalance`)
  are charged by a public hint, not by what moved.
* **Staleness.** A NAV is fresh by the clock, by the sequencer's state, and by
  when it was quoted rather than approved.
* **Two-phase exits.** A burned amount becomes public only once the decryption
  network has answered; meanwhile the reserve that must pay it is drained,
  rotated and paused.
* **Read, await, write.** Two requests interleave between a handler's reading
  and its writing; guards on a status are evaluated before the await.
* **Crashes and lost answers.** A process dies between a transaction and its
  row, a wait fails while the transaction is mined, a window of logs is
  replayed, a cursor is lost.
* **Two copies of one truth.** The session's row and the permission on the
  account, the row of a deployment and the registry, the page's queue and the
  intent it answers.

For each part, what makes it correct: the ledgers conserve shares; the queue
holds exactly what it owes; a trade exchanges shares and cash at one NAV or does
nothing (delivery versus payment); a request ends once; instant outflow stays
within the cap it is metered by; the float leaves only against shares or above
the floor; a burned withdrawal is paid at most once, in full, to its owner; a NAV
is fresh only if it was quoted within its window; an epoch of yield pays no more
than was pulled for it. A checkout names one purchase and announces each step
once; an epoch that was begun is funded at its own rate, in full, and in the end;
a registered token is wired; a log is recorded however its window is replayed; an
operation is of a session last seen active; a proposal is bought once, if
somebody asked. The hazards behind these
properties are listed, line by line, in `PROJECT.json`.

## 2. Modules

| Module | Models |
|---|---|
| `ConfidentialLedger` | the ledger both tokens implement: operators from ledgers to ledgers (mint, burn, move) and the three ways an amount is bounded: all or nothing, clamped, narrowed |
| `RwaSettlement` | one token's primary market: `MuHavenSubscription`, `RedemptionQueue`, `MuHavenTreasury` over two such ledgers, with the registry row, the NAV reading, KYC, pauses and the `MaxBalance` tracker |
| `NavReading` | abstract: what the settlement contracts may assume of any oracle |
| `IssuerControlledOracle` | the oracle in detail; implements `NavReading` |
| `StableReserve` | `MuHavenStable`'s edges over a ledger of the same operators: both wraps, `unwrap`, the two-phase exit to USDC, the reserve, stranded-token recovery |
| `Custody` | abstract: a user's value, in whatever form, is theirs until transferred; `StableReserve` implements it |
| `YieldSnapshot` | yield epochs of every token over one float: pages, funding, claims, sweep |
| `CheckoutSession` | the hosted checkout: pages, session handlers, settlement indexer |
| `YieldEpoch` | the yield cron's window and the run that opens, resumes and funds an epoch |
| `TokenDeploy` | a deployment, its row and event bus, and the wizard that follows it |
| `NavRefresh` | nav-worker and nav-publisher around one NAV |
| `ActivityIndexer`, `EscrowPoller` | the two log readers of the backend |
| `ScopedSession` | a session key from the passkey to its revocation, and the programs that sign with it |
| `ReinvestRunner` | the process that claims matured yield and buys with it |
| `PolicyTier` | tiers, confirmation tokens, pause and resume, the policy engine |
| `OpenclawIntent` | a proposal of the agent, its intent, Telegram's answers, the page's dialogue and runner |
| `MCServices` | the off-chain parts composed, their constants and what the runs check of them |
| `MCRwaSettlement`, `MCStableReserve`, `MCYieldSnapshot` | instances for TLC |
| `ConfidentialLedgerProofs` | sums of a function over a finite set, and what each ledger operator does to balances, supply and their sum |
| `RwaSettlementProofs`, `IssuerControlledOracleProofs`, `StableReserveProofs`, `YieldSnapshotProofs` | inductive invariants and theorems about the module they are named after |
| `ServicesProofs`, `AgentProofs`, `PartsProofs` | the same for the parts of `MCServices`: the backend's services, the agent's sessions, runner, tiers and purchases, and (with the indexer) the types all of them keep |

**How `RwaSettlement` corresponds to the code.** An action is one transaction.
`book` and `cash` are the two ledgers with plaintexts for ciphertexts;
`opened` is the set of accounts whose balance handle is initialised (a debit of
any other account reverts `NoBalance`). `requests` and `epochRequests` are
`_requests` and `_epochRequests`; a request's three flags are one `status`
(`settled` and `claimed` are only ever set together). `redeemed` is
`instantRedeemedThisEpoch`, `epoch` is `block.timestamp / epochDuration`,
`terms` gathers the issuer's numbers, `halted` the pause switches of the
registry row, the share token and mhUSDC, and `tracked` is `MaxBalance`'s
tracker. `Purchase`, `RedeemInstant`, `RedeemEscalated`, `Submit`,
`ProcessEpoch`, `CancelOnKYCRevocation`, `Withdraw`, `ShareTransfer` and
`CashTransfer` are the entry points; `ProcessEpoch` folds `ProcessOne` over any
page `from..to`. The environment changes the NAV reading, the epoch, the terms,
verification and the switches at any time (`MarketStep`). Contract owners are
trusted with the pointers between contracts, which stay as deployed. ACL grants
on handles, events and view functions are left out: no property is about who can
decrypt.

**How `IssuerControlledOracle` corresponds.** `data` is `_data[token]`, `now`
the block's timestamp, `feed` what the sequencer feed answers (also: unset,
unreadable). `quotes` is a history variable: every quote the writer sent, with
its time. `ReadingChanges` in `RwaSettlement` is exactly `NavReading!Next`, so
the refinement `ReadingPromised` discharges the settlement model's assumption:
NAV 0 and not fresh before the first quote, never NAV 0 afterwards.

**How `StableReserve` corresponds.** `usdc` and `legacy` are the balances of the
external tokens, the wrapper's own (`Stable`) included; `reserve` is the
contract's `usdc` pointer; `claims` is `_withdrawClaims` (keyed from 1 by
`_nextWithdrawClaimId`, so a sequence) and `pending` is `_userWithdrawClaims`.
A claim carries the plaintext `burned` next to its `handle`; `readable` holds the
handles the network has published. Handles are content-addressed, so a burn of
the same amount may get a fresh handle or one in use (`PossibleHandles`).
`halted` holds the wrapper's pause and `claimsPaused`. `recoveries` are the
legacy token's own claims in favour of the wrapper. USDC, the legacy token and
the network are external: a reserve token moves an amount or reverts, and the
legacy token is *assumed* to do the same (the code only sees whether the call
succeeded, and reports `WrapFailed`/`UnwrapFailed`). `trustedPayout`, operators
and `setLegacyPusdc` are not in this module. `RwaSettlement` holds mhUSDC as a
closed ledger; the two modules share its operators, and no action of one touches
the state the other adds.

**How `YieldSnapshot` corresponds.** `epochs` gathers `_epochs`, `_snapshots`,
`_claimed`, `_encRemaining` and `_swept` by epoch id; the float is one balance
of mhUSDC shared by all epochs of all tokens. `SnapshotBatch` captures any page
of holders while they trade, `FinalizeSnapshot` seals, `FundEpoch` pulls, `ClaimYield`
pays through `trustedPayout` (which subtracts modulo the ledger's width without
looking), `SweepExpired` returns the rest after the window. Two facts about a funding
are the issuer's tools' and not the contract's: that the issuer *holds* the
amount (the pull is silent) and that the *rate* fits it. `Careful` says which of
the two a configuration grants; `YieldEpoch` models the tool that sees to them
(its `PaidInFull` and `AmountFits`, except where its cap binds). Left out: the
encrypted ratio of epochs without a rate, which `fundEpoch` now refuses, the
refresh functions and ACL grants, issuer rotation and the owner's pointers.

**How `CheckoutSession` corresponds.** `status`, `paidBy` and `late` are the
session's row (status, purchaseTxHash, past expiresAt), `handlers` the requests
at each `await` of `transition-session.use-case.ts` (`Handler` reads, decides and
writes in separate actions), `tabs` the pages with their ceremony and retries,
`scan` the tick of `checkout-settlement-indexer.ts` chunk by chunk, `announced`
what the stream and the webhook dispatcher were given. A transaction is named by
its block. Left out: creating a session, encrypting the payload, the webhook's
registration and signature, the wrapping transactions before the purchase.

**How `YieldEpoch` corresponds.** `sweep` is one window of `yield-cron.ts` with its
float ledger, `run` the `yield-epoch-runner.ts` of one token between two awaits,
`rows` is yield_distributions, `epochs` what `YieldSnapshot` keeps of an epoch,
`txs` the account's transactions. Assumed: one account sends them, so they are
mined in order, and before the next window (23 hours later). Capturing stands
for batches and finalisation. Rates and captured supplies are inputs; a pool is
their product in units of `1 / RateScale`, rounded down, and one that rounds to nothing
is skipped, before the epoch is opened (`Estimate`) or after (`Size`). Faults:
stale reads, failed calls, lost waits, failed writes, crashes.

**How `TokenDeploy` corresponds.** `workers` is the run of
`deploy-token.library.ts` (each of its steps sends, waits, reports: three events),
`deploys` the row, `buffered` the event bus' history, `pages` the wizard:
reading the row, following the stream, dropping, reloading, reattaching. The ten
steps are grouped in three: proxies, grants and wiring, registration. `rotated`
are the groups on contracts the deployer no longer owns: only the stable's owner
is asked for, once (`Refuse`), a transaction sent after a rotation throws (`Send`), and
one mined after it reverts unnoticed (`Mined`, `Unheeded`). The fault
"wait" is not among the fair instance's: when the receipt of the registration is
lost, the row says failed although the token is registered.

**How `ScopedSession` corresponds.** A session is its number: its key, permission
and row have it. `Sign`, `Mint`, `Paste` and `Revoke` are the dashboard's,
`Step(c)` goes through the gates of a purchase in `handlers.ts` ("buy") or of the
reinvest runner in `execute.ts` ("run") one await at a time, `Land` is the bundler
and the account, `Callback`, `Anchor`/`Tick` and `Watchdog` the three ways the
row learns of an install. The watchdog fires only once grace has passed. Left out: spending caps,
encryption of the amount, the claim tool, the broker's pairing, and rows minted without
install material (`enableStatus` null, mint-scoped-session.use-case.ts:245-288, handlers.ts:2024-2036),
which the backend would take but the dashboard never sends.

**How `ReinvestRunner` corresponds.** `proc` is `cli.ts` and `runner.ts` from the
pidfile to the exit, `cooldown` the map in memory, `ops` the bundler's and the
chain's view of an operation (which may replace or refuse one with a nonce in
use), `audit` the recorded cycles, `market` whether the token can be bought (priced
in the catalog within the budget, or passed over; a purchase that reverts takes
its claim with it), `swept` the epochs whose rest was taken back: the snapshot pays
whoever has not claimed until then, though the runner stops at the window. Assumed: an operation is mined or dropped
before its cooldown of half an hour ends. One token, whose epochs are numbered;
the session's gates are `ScopedSession`'s.

**How `NavRefresh` corresponds.** `worker` is nav-worker's fetch (bump or write a
row, backfill at the start), `pub` nav-publisher's cycle: newest row, liveness
gate or synthetic mode, oracle, half-window rule, transaction, mirror; `status`
what `/health` answers from. Ages are counted in ticks up to `Old`, beyond which no
test of the code tells them apart.

**How `ActivityIndexer` and `EscrowPoller` correspond.** A tick of
`tax-event-indexer.ts` (of `event-poller.ts`) is `Begin`, a `Fetch` per chunk, the
rotations (payloads) one write at a time, and the save; `began` is where the cursor in memory
started. Assumed: nodes answer logs up to the head they report, and there are no
reorganisations. The escrow poller leaves out `report`/`create-escrow` and the webhook,
which `docs/BACKEND_SETUP.md:132` calls reserved.

**How `PolicyTier` corresponds.** `tier` is agent_user_state, `tokens` the confirmation
tokens, `trail` the last audit row, `job` the request each worker has in hand:
every action is one await of `transition-tier`, `pause-agent`, `resume-agent` or
the mint. The engine's cron is a worker. `docs-site/policy/pause.md:99` says the
cron is disabled in every deployment today; the module models it as the code has
it. Two of the four surfaces.

**How `OpenclawIntent` corresponds.** `queue`, `active`, `modal`, `firing` and
`looked` are the page's state (AgentPage.vue, ConfirmModal.vue, the store),
`runs` the runner of a purchase, which outlives the page, `row`, `requests` and
`verdicts` the intent and its answers in the backend, `events` the stream,
`token` and `receipts` the commit. One tab, so not the lock in local storage
between tabs; the comparison of a code, the binding of chat and user, linking and
unlinking a chat are left out.

**How `MCServices` composes.** The off-chain parts share no state: what one tells
another goes through the chain or a person, and each module takes it as an
input that may come at any time. So a behaviour of `MCServices` follows one
of them (`part`) while the others rest, and a run whose `Parts` are ten parts
checks ten systems without multiplying their states. As no step of one part
reads or writes what another does, what holds of each followed alone holds of all
together. Each part is an INSTANCE for a record c of its constants, so that a
variant (`late`, `short`, `capped`, `both`, `halted`, `taps`, `fed`, `alone`) is
the same part with another record, and one proof serves all of them. The indexer
is extended directly.

The modules that speak of the same thing from two sides are tied by what one
assumes and the other shows: `NavReading` between oracle and settlement,
"held" and "rate" between `YieldEpoch` and `YieldSnapshot`, the operators of
`ConfidentialLedger` between settlement, reserve and snapshot.

## 3. What TLC checks

| Run | Question | Properties |
|---|---|---|
| `trade` | every leg short, clamped, or too wide; two requests; floor | `TypeOK`, `SharesConserved`, `QueueBacked`, `PositionKept`, `FloatOutflow`, `TerminalFinal` |
| `epochs` | cap and epoch numbering move under the redemptions | `InstantOutflowMetered` |
| `two` | two investors, one treasury that can pay one of them, one page; pause switches flip between the steps | `QueueBacked`, `PositionKept` |
| `tracker` | does `MaxBalance` keep its promise? (it does not) | `NoOverCapMint` |
| `oracle` | quotes, parked quotes, approvals, sequencer | `TypeOK`, `FreshMeansQuoted`, `QuoteTimeMonotone`, `ReadingPromised` |
| `exit` | one user, every way in and out; reserve rotated, drained, recovered | `TypeOK`, `Collateralised`, `PendingListed`, `ValuePromised` |
| `exit_both` | two users, shared handles, one reserve; are claims settled in the end? | `ValuePromised`, `ClaimsSettle` |
| `pools` | two epochs on one float, pages captured under trading, claims and sweeps, a payer withdrawn and named again | `ClaimsWithinPull`, `YieldCovered` |
| `underfunded` | and when the issuer does not hold what it funds? (then not) | `ClaimsWithinPull` |
| `faults` | the ten off-chain parts under every fault their code handles | `ServicesTypeOK`, `FundedAsPromised`, `NavServed`, `NothingMissed`, `RecordsFaithful`, `MirrorHolds`, `BuyIsClaimed`, `BoughtAsAsked`, `PaidOnce`, `TierAsAsked` |
| `loops` | what the backend's loops and the reinvest runner owe in the end | `EpochsComplete`, `ToldRightly`, `LogsRecorded`, `Reinvested` |
| `pages` | what checkout, NAV, sessions, tiers and the agent page owe in the end | `AheadSettles`, `NavRenewed`, `SessionInstalls`, `BreachPauses`, `ConfirmedFires` |

* `PositionKept` is delivery versus payment: at the NAV in force, no trade,
  submission, page or cancellation changes any investor's cash plus shares plus
  locked shares.
* `InstantOutflowMetered` ties the treasury's actual loss to the counter.
* `FloatOutflow` says the treasury pays only for burned shares or to the issuer
  from above the floor, when the floor fits the ledger; a wider one is truncated
  (section 5).
* `ValuePromised` is the refinement of `Custody`: wrapped, burned-but-unpaid and
  external value together change only by a transfer between users. It fails if a
  claim is paid twice, in part, or to anyone else.
* `Collateralised` ties what the wrapper holds to what it owes, on the ledger and
  to claims, up to what its owner put in or took out; `PendingListed` ties the
  per-user list to the claims, under any order of settlement.
* `ClaimsSettle`: a claim is settled unless its owner keeps it from being paid
  (claims paused, or reserve too small) again and again.
* `ClaimsWithinPull`: an epoch pays no more than its funding moved, although pages
  capture the same shares twice; `YieldCovered`: the float covers what all funded
  epochs can still pay.
* `FundedAsPromised`: an epoch is funded at the rate of its audit row, for the
  supply it captured, on whatever day a failed run is resumed; with
  snapshot-based funding also in full.
* `PaidOnce`: a session moves one edge at a time, keeps the purchase it names,
  which was made for it, and announces each step once.
* `RecordsFaithful`, `NothingMissed`, `LogsRecorded`: a replayed window makes one
  record, says claimed only after a redemption, and in the end misses nothing it
  answers for; a registered token has all that was to come before.
* `MirrorHolds`: an operation is of the session its program last saw active, and
  a row says enabled only of a permission on the account.
* `BuyIsClaimed`, `Reinvested`: an epoch's yield buys once, in the batch that
  claimed it; an epoch that stays claimable, and whose token can be bought, is reinvested.
* `EpochsComplete`: an epoch begun is distributed, unless its token is left with an
  epoch whose pool rounds to nothing; where the float suffices for a day's fundings.
* `NavServed`, `NavRenewed`: the NAV stays fresh while the feed answers, `/health`
  calls no stale one ok, a silent feed's NAV is not renewed, and a feed that is
  back is.
* `TierAsAsked`, `BreachPauses`: an answered pause holds until somebody resumes, a
  tap changes one tier once, what was not confirmed only narrows.
* `BoughtAsAsked`, `ConfirmedFires`: one runner per proposal, which somebody
  asked for, one verdict per intent, one purchase per token; an open and idle
  proposal that Telegram confirms is fired.
* `tracker` violates what `MaxBalance.sol:20-21` says of the module (the bound
  is "strictly safe"): `destroyed` subtracts the hint of a redemption even when
  fewer shares, or none, were burned. `underfunded` violates
  `YieldSnapshot.sol:96` and :537-538: the epoch records what it asked for,
  whatever moved.

**Bounds.** Amounts, hints and NAVs are chosen around the interesting
boundaries: an amount below, at and above its hint; a cost above a balance
(the silent path) and above `CashMax` (the width guard; in `trade` one amount
that wraps when narrowed); a treasury that starts with one unit. `CashMax = 4`
stands for `2^64 - 1`. `MaxSupply`, `MaxRequests` and `MaxEpoch` bound growth:
two requests are the fewest for which one can be settled with another's shares,
two epochs the fewest between which a renumbering can move. A floor of 6 does
not fit the ledger: narrowed, it is 1, and the issuer withdraws from below it. In the exit,
`MaxClaims` bounds withdrawals: three against a cap of two (`exit`) are the
fewest for which a freed slot is reused and a list of two is settled in either
order. In `pools` two epochs of two investors are the fewest that can be paid
from each other; there is one token, since the epochs of two tokens meet in the
float as two of one token do. `two` and `pools` check invariants and one action property up to
the exchange of the two investors (`SYMMETRY`), whom nothing distinguishes.

Off chain, `Max...` bounds the sessions, purchases, epochs, deployments,
operations, tokens and blocks, and `MaxFaults` how often something fails: two
faults are the fewest of which one hits the recovery from the other. Whoever may
race is there twice where it matters: tabs (`checkout`), runners (`reinvest`),
programs beside a broker (`both`), requests (`taps`), tokens of one sweep
(`short`). `faults` lets everything fail and asks only for safety; in `loops`
and `pages` the instances are smaller. The records of constants at the start of
`MCServices` have all values. The proofs of section 4 depend on no bound.

Deadlock is checked in the runs of the contracts, which never stop. In `faults`,
`loops` and `pages` it is not: a system whose bounds are used up really is done.

**Fairness.** Of the contracts, only `exit_both` assumes any: weak fairness of
`PublishDecryptResult`, because the network answers each request, and of
`ClaimUsdc`, because the function is open to everyone and the claim's owner has
every reason to call it. The owner is under no obligation, hence the exception
in `ClaimsSettle`. Nothing in the contracts obliges an issuer to process a page,
so no liveness is claimed of the settlement. Off chain, all weak and each stated
by the part's module:

| Part | Fair | Because |
|---|---|---|
| checkout | the indexer's tick; the handlers of each tab | an interval of the process; a request that arrived is run to its end |
| yield | mining, the next window, each step of sweep and run | the supervisor restarts the process, the chain goes on |
| deploy | each run; each page's reading | the run is a promise in the process; the stream delivers or the page asks |
| indexer, escrow | a tick's start and its steps | an interval that skips while a tick runs |
| NAV | the worker, the publisher, time | two processes with timers, restarted |
| session | each program, landing, the indexer, the callback | a tool call runs to its end; the bundler includes or drops |
| reinvest | each runner's loop and cooldown, landing | a timer; the bundler |
| policy | the cron | a timer; nothing of what the user does |
| agent | delivery, the runner, the lookup, an answer that reached the backend | the browser runs what it started; nothing of what the user does |

## 4. What is proved

All theorems hold for every value of the constants under the named assumptions
of the modules (`...Assumption`: types, finiteness, distinct accounts; TLC
evaluates each in a passing run). A theorem that needs more says so as an
ASSUME. None of the bounds of section 3 enters.

| Module, theorem | States |
|---|---|
| `RwaSettlementProofs` `TypeCorrect` | `TypeOK`; in particular no ledger balance is ever negative, so `FHE.sub` never wraps |
| `SupplyIsSum`, `QueueIsBacked`, `TerminalIsFinal` | `SharesConserved`, `QueueBacked`, `TerminalFinal` |
| `PositionIsKept`, `FloatOutflowIsPaid`, `InstantOutflowIsMetered` | the action properties `PositionKept`, `FloatOutflow`, `InstantOutflowMetered` |
| `IssuerControlledOracleProofs` `OracleTyped`, `OracleFreshMeansQuoted`, `OracleNeverGoesBack` | `TypeOK`, `FreshMeansQuoted`, `QuoteTimeMonotone` |
| `OracleImplementsReading` | the refinement of `NavReading` |
| `StableReserveProofs` `ReserveTyped`, `ReserveCollateralised`, `ReservePendingListed` | `TypeOK`, `Collateralised`, `PendingListed` |
| `ReserveKeepsValue` | the refinement of `Custody` (`ValuePromised`) |
| `ReserveFitsWidth` | the supply fits the ledger whenever what the users brought does, so the unwrapped addition of a mint is sound |
| `YieldSnapshotProofs` `PoolTyped`, `PoolClaimsWithinPull`, `PoolCovered` | types, `ClaimsWithinPull`, `YieldCovered`, when fundings are held and rates honest |
| `ServicesProofs` `PaidOnceAlways` | `PaidOnce` |
| `RecordsKeptFaithful` | `RecordsFaithful` |
| `NavServedAlways`, `RenewedOnlyWhileHeard` | `NavServed`, while the feed answers; the action half of `NavRenewed`, once the worker has a row |
| `FundedAsPromisedAlways` | `FundedAsPromised` |
| `AgentProofs` `MirrorKept` | `MirrorHolds`, with one broker |
| `BuyIsClaimedAlways` | `BuyIsClaimed` |
| `TierAsAskedAlways` | `TierAsAsked`, where a user's requests are handled one at a time |
| `BoughtAsAskedAlways` | `BoughtAsAsked` |
| `SubmitsOneAtATime` | the safety halves of `Reinvested`, with one runner that is not stopped and loses no answer |
| `PartsProofs` `ServicesTyped` | `ServicesTypeOK` |
| `EndToldTruthfully` | the safety half of `ToldRightly`, where no receipt is missed and no write of the end fails |
| `IndexerTyped`, `IndexerLosesNothing`, `IndexerFollowsRotations`, `IndexerMissesNothing` | the indexer's types and `NothingMissed` with its halves |

**The lemmas.** `ConfidentialLedgerProofs` has the arithmetic of balances (a sum of
a function over a finite set when one summand changes, one joins, two functions
agree, a set splits in two, every summand is scaled) and says of each ledger
operator what it does to balances, supply and their sum; all three contracts'
proofs cite it.

**Settlement.** `IInv` joins the types to `Backed(book, requests)`: supply is the
sum of balances *and* the queue's balance is the sum of the open requests.
Neither half is inductive alone: `returnToInvestor` and `burnFromQueue` silently
move nothing when the queue is short, and then a request would be closed without
its shares leaving; that the queue is never short is the backing. The three
action properties need it for the same reason: that a settled request's shares
were really burned is what makes its payment a sale. The meter needs one more
fact (`HintsBind`): what an open request locked is within its hint. A page
is handled by prefixes: after each the accounts satisfy the same predicate, and
the step's property adds up. That is an induction on the length of the page,
done by least counterexample, because the library's induction theorems take an
operator for a parameter, which the provers cannot instantiate.

**Oracle.** `IInv` adds to the types that the NAV in force is a quote with its own
date (`InForceQuoted`) and that a parked quote is one too, no older than the NAV
it waits to replace (`ParkedQuoted`): without the second, accepting it could take
the NAV back in time. The refinement then follows step by step.

**Exit.** `IInv` has `CashKept` (the ledger's supply is the sum of its balances),
`ClaimsKept` (claims exist only where a reserve token was appointed), `PendingKept` (each user's list holds exactly its open claims, each once) and
`Collateralised`. `PendingListed` needs that the list has no repetition:
swap-and-pop removes one entry. The refinement maps value to
wrapped + burned-but-unpaid + external: a withdrawal and its payment are
stuttering steps, because the sum over the claims (`Owes`) moves by exactly what
the ledger or the reserve does.

**Yield pools.** `IInv` says of every epoch that its supply is the sum over the
captured holders, that paid and owed together stay within what was pulled, and of the
float that it covers the sum of what all epochs have left. The hypothesis
`Prudent` is the issuer's tools' care; without "held" the run `underfunded` refutes
the conclusion. Each share is a product divided by the scale and rounded down; what bounds each
share up to that factor bounds their sum (`SumScaled`), so the
holders together do not claim more than the pool.

**Activity indexer.** `IndInv` adds what a tick in progress has read: each log
between `began` and the next chunk is in the table or among its rows
(`Collected`), and a rotation is still to be written or overtaken by a newer one
(`Applied`).

**Services.** An invariant of a part c is carried through `ServicesNext` by the fact that only
that part's step changes its variables.
*Checkout*: `CheckoutInv` says that a row names a purchase exactly when it says so,
one made for it (`RowPaid`); that what was announced has been reached (`ToldOnce`),
by the one request that stored it (`OneTeller`); and what a request in flight and
a page may carry.
*Sessions*: keys are pasted in the order sessions are minted (`NewestOnly`), and what is
submitted or installed belongs to the key in the broker or an older one
(`UnderKey`). The hypothesis is one broker: with two, `KillSwitch` is false of
this code (section 5).
*Reinvest*: claim and purchase are one batch, or neither.
*Escrows*: `EscrowInv` bounds the records by the row and the payload in hand, and says of
every claimed record that its redemption was logged.
*Deployments*: `DeployInv` says how far a worker's events, its row and the chain may
be apart at each await; what is excused is the steps of contracts that were
handed on, whose reverted transactions are taken for success (section 5).
*NAV*: `HealthInv` and `FreshInv` bound the age on chain by where the publisher is in
its cycle (idle: age plus time to the next cycle is at most three quarters of the
window), with `RowsRecent`: the feed was heard and the newest row dated within a
tick; `HeardInv` says rows are never younger than the feed's last answer. The
hypotheses are those under which it holds: a feed that stays dead makes `/health`
report a stale NAV as ok, and a publisher that starts before the worker's first
row never gates (section 5).
*Yield epochs*: `YieldInv` says of every transaction, in flight or mined, what it is
about and that its rate is its row's (`TxFine`), of a row that waits that it is of its
token's newest epoch and that no other epoch is being opened (`RowFine`), and of a run that
nothing of its token is in flight but what it sent itself (`RunInv`): the guard window's day
(`DayInv`) is why no run of a day before still has a transaction out. `FloatInv` adds, where no wait and no
write fails, that one funding at most is in flight, that its amount is there, and
that the sweep's ledger promises no more than the balance, by what the run in hand
has sent and not yet deducted; with a failed wait the half about payment is not inductive,
and the instance `short` leaves that fault out (section 3).
*Tiers*: `OneInv` keeps, for the request in hand, what it decided on: that the tier
it read is still the stored one when it writes (`JobHolds`), that the surfaces a pause
has gone through are paused, and that the trail differs from the tier only where the
audit row is being written. Each is false of two interleaved requests, which is why
the theorem asks for one at a time and why the code breaks the promise otherwise
(section 5). The half about taps asks for nothing: `TapInv` says that of a consumed
token at most one request is on its way to the write, however many post it.

*Agent*: `AgentInv` ties the lock of the page to the runs (a run of the mounting that
is open holds it, and there is one per mounting: `Lock`), a run or a purchase to who asked
(`WasWanted`, for which a confirmation on its way to the page must be in the row,
`Heard`), every receipt to a used token (`Spent`), and the
audit log to the row: nothing of an intent that is open, one line with the row's word of
one that is not (`Judged`), since every update asks for a row that is still open. `AloneInv` says of one proposal
without the faults that repeat a purchase what the run in flight tells of the token
and of what was bought (`Undecided`, `Running`, `Settled`); with those faults the code buys
twice (section 5).

*Ends of deployments*: `DeployTold` adds to `DeployInv` and the types that a run still at work has a
row that says "running" and has not registered its token (`RunsTell`), and that
a page told of an end was told what the row says (`WizardsTold`). A missed
receipt or a lost write of the end makes row and registry disagree, hence the hypothesis.
*One submission*: `PendingKept` says where each pending operation is accounted for, on the
cooldown or in the hands of the runner, and that the epoch being signed for
has none (`Knows`). A second runner, a lost answer or a restart forgets it
(section 5).
*Types*: `PartsKept` is the conjunction of the parts' type invariants, each for the part
that is followed. A type is seldom inductive: that a worker's events stay within three per step,
that an operation's number is below `MaxOps`, that a run belongs to a mounting
of the page that was (`RunsWithin`), or that a session's key is one that was minted follows only from where
else those values are held, so each part's invariant (`...Kept`) relates its
variables first (`AgentInv`, `PollerInv` and `IndInv` are those of the paragraphs above).

**Assumptions on constants.** The services' `...Assumption` ask for numbers where the code
has counts, delays and limits (bounds of the models are numbers too), for delays
below the interval they delay, and for faults of the kinds the module handles.
The records at the start of `MCServices` meet them (`InstancesAssume`).

**Only model-checked.** Every invariant and every action property of a run is
stated by a theorem, with its hypotheses; what is left is the
liveness: `ClaimsSettle`, `EpochsComplete`, `LogsRecorded`, `AheadSettles`,
`SessionInstalls`, `BreachPauses`, `ConfirmedFires`, and those halves of
`ToldRightly`, `Reinvested` and `NavRenewed` that say something happens.
The prover does liveness under fairness and `ENABLED` not at all.
With restrictions, and refuted beyond them, are `NavServed`,
`MirrorHolds`, `TierAsAsked` and the half of `FundedAsPromised` about payment. What a recursive function computes for
every input cannot be proved either; the proofs above use the folds of the
community modules and their lemmas. No module declares a RECURSIVE operator.

## 5. Promised and not kept

Statements of a comment, a page or a document that the code does not keep. Two
are runs (`tracker`, `underfunded`); the others are stated in the modules, most of
them in a closing section "Said of the code and not so", and have a
counterexample under the faults named there.

*Settlement* (`RwaSettlement`)
* `FloorKept`: MuHavenTreasury.sol:255 compares with the floor truncated to 64 bits, and
  :187, :295-298 set any uint256; IMuHavenTreasury.sol:15, :47-48 say that withdrawals
  honour the floor. One of 2^64 or more does not hold the issuer back.

*Checkout* (`CheckoutSession`)
* `PurchasedSettles`: checkout-settlement-indexer.ts:207 skips a log whose hash
  no row has yet, and moves its cursor past it; :152-160 promises a clamp for
  exactly this race.

*Yield* (`YieldEpoch`)
* `PaidInFull` with cap-based funding: yield-cron.ts:1217 leaves the float ledger
  alone after a resumed run that did send the funding; :1216-1219 takes it for funded before.
* `FailureUnfunded`: yield-epoch-runner.ts:1137 overwrites `funded_no_audit` with
  `failure` while the funding is pending; :1123-1132 names this as what the re-read
  prevents.
* `EpochsDistributed`: an epoch whose pool rounds to nothing at the rate of its row is
  resumed and skipped every day (yield-epoch-runner.ts:1320-1334), and no other epoch
  of its token is opened. yield-cron.ts:366-369, :481-483 name a higher cap as the remedy,
  but what rounds is the captured supply at the stored rate. `EpochsComplete` excuses
  it (`Worthless`).

*Deployment* (`TokenDeploy`)
* `SymbolUnique`: deploy-token.use-case.ts:64 "The lib re-checks at deploy time
  too"; it does not.
* `LastStepSucceeded`: a failed row's last step is the failing one (:113), not the
  last successful one (:36-37).
* `SucceededIsWired`: deploy-token.library.ts:677 does not look at the receipt's
  status, and neither does :584 after `registerToken`, which only the registry's
  owner may call (TokenRegistry.sol:82). A grant or a registration that reverts
  because its contract was handed on meanwhile passes, and the page says succeeded
  of a token that is not registered; :412-414 says the revert is not swallowed.
  `RegisteredIsWired` and `EndTruthful` excuse exactly those steps (`rotated`).
* `EndTold` with the fault "reattach": ApplyPage.vue:353 forgets a running deployment
  after any failed request; :200 promises to re-attach.

*Sessions* (`ScopedSession`)
* `KillSwitch` with two brokers: handlers.ts:2043 and execute.ts:347-362 are
  content with any active session, so a machine goes on signing under a revoked one
  once another is minted; handlers.ts:1982-1989 calls the reading the kill switch.
* `FailedNeverInstalled`: validator-enable-watchdog.ts:104 goes by the row, which
  may not know of the install; :33-36 says failed means not installed.

*Reinvest runner* (`ReinvestRunner`)
* `OneRunner`: the pidfile is read and written two awaits apart (cli.ts:62-68);
  lifecycle.ts:169-172 says it refuses a second instance.
* `SubmittedIsHeld` with the fault "answer": a lost answer counts as a skip
  (execute.ts:545); :127 says nothing was submitted then.
* `RecordedIsDone`: the receipt's `success` is not read (execute.ts:564);
  record-reinvest-cycle.use-case.ts:14-17 records what was claimed and bought.

* `ReinvestedAnyway` with the fault "market": an epoch without a price, of another
  snapshot than the catalog's, or below the price of a share is passed over in every cycle
  (runner.ts:243-288), and one whose purchase reverts is refused (execute.ts:458-474).
  `Reinvested` speaks of a token that can be bought.

*NAV* (`NavRefresh`)
* `FreshWhileFed` with failing calls: publisher.ts:356 leaves one attempt in the window and
  one at its end, not the two of :349-352.
* `HealthTruthful` with a dead feed: :278 skips before the oracle is read, so
  `/health` stays ok; :273-275 says the skip shows the staleness there.
* `GateHolds` when the publisher starts before the worker has rows: engine.ts:164
  dates the publisher's synthetic row, which bypasses the gate of
  publisher.ts:228-230.

*Policy* (`PolicyTier`)
* `PauseHolds` with two requests: transition-tier.use-case.ts:190 writes over a
  pause; docs-site/policy/pause.md:8.
* `NarrowsOnly` with two requests: whether a change is a step down is decided on a
  stale tier (:96); transition.ts:51-52 says they only narrow.
* `AuditOrder` with two requests: pause-agent.use-case.ts:57 against :37-38.
* `FreshConsent`: a token from before the pause is good after the resume
  (pause-agent.use-case.ts:56); state-machine.ts:164-166 asks for fresh consent.
* `PausedStops`: encrypt-shares-for-purchase.use-case.ts:111 never looks at the
  tier; pause-tool.use-case.ts:69 and pause.md:69 say a paused key stops.

*Activity indexer* (`ActivityIndexer`)
* `EveryEvent`: a failed leg gives no logs and the cursor moves on
  (tax-event-indexer.ts:521); :18-20 and :507-508 promise a retry.
* `NeverBack`: a replayed tick sets a token's issuer back for a while
  (token-registry-handler.ts:59; :19-20 "no thrash").
* `RotationKept`: a rotation mined while the process is down is not read
  (tax-event-indexer.ts:331); dev-server.ts:463-465 says it replaces the operator's
  step.

*Escrow poller* (`EscrowPoller`)
* `RowHasRecord`: a failure between the two writes leaves a row without a record for good
  (process-escrow-event.use-case.ts:83; :81).
* `RetriesSucceed`: a second insertion under the same key stops the cursor for good
  (:100; event-poller.ts:240).
* `LateUserRecorded`: the event put aside is never looked up (:91; :88).
* `AnyRedemptionShown`: a redemption before the row is dropped (:148; :168-169).
* `ClaimedIsPaid`: claimed on the event alone (:156; docs/SDK.md:393,
  MuHavenEscrow.sol:211-213).

*Agent page and intents* (`OpenclawIntent`)
* `BoughtOnce`: after a failed commit Authorize is offered again
  (ConfirmModal.vue:533), and a run outlives the page (AgentPage.vue:50);
  AgentPage.vue:69-72, :96-97 say it fires once.
* `ReceiptIsOwn`: the receipt goes to the proposal then shown (ConfirmModal.vue:522;
  :451-453).
* `DeniedIsNotBought`: a denial does not stop a started run (AgentPage.vue:229; :227
  and bot.ts:292 say nothing was submitted).
* `ConfirmedFires` while another dialogue is open: the lookup answers pending
  intents only (confirm-intent use case :252; AgentPage.vue:263).
* A failed proposal strands the queue behind it until another one comes
  (AgentPage.vue:47; :44-45 say the next is popped whenever the dialogue closes).
* `NoClick`: the next queued proposal is not authorised automatically
  (AgentPage.vue:408; :33-34).
* `SettledHasReceipt`: the toast promises a receipt whose commit may have failed
  (AgentPage.vue:109; :111).
* `ConfirmedIsBought`: nobody submits after a confirmation when no page is open
  (ConfirmIntentPage.vue:215).
* `DenyIsServed`: the Deny button of larger intents is answered 403
  (deny-inline.ts:42; bot.test.ts:478).

## 6. Not modelled, and the plan

Left out for good: access control on handles (no property is about it), events,
views, proxies and upgrades, gas, encodings, presentation. The earlier
generation of contracts (`MuHavenEscrow`, `YieldDistributor`, `YieldGate`,
`MuHavenVault`) and the staging ones are not on the production path.
`PROJECT.json` lists every part with what is left out of it.

Still to do, in order:

1. `ChainlinkFunctionsOracle` as a second implementation of `NavReading`:
   requests in flight, late and duplicate fulfilment.
2. `MuHavenToken`'s allowances, `MaxHolders` and `Lockup`; withdrawals and the
   device link of the backend.
