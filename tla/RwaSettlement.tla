--------------------------- MODULE RwaSettlement ----------------------------
(***************************************************************************)
(* Primary-market settlement of one RWA token: MuHavenSubscription,        *)
(* RedemptionQueue and MuHavenTreasury, together with the legs of          *)
(* MuHavenToken (share ledger) and MuHavenStable (cash ledger) they call,  *)
(* the token's row in TokenRegistry, the NAV its oracle reports, the KYC   *)
(* gate, and the MaxBalance compliance tracker.                            *)
(*                                                                         *)
(* An action is one transaction.  A transaction that reverts changes       *)
(* nothing, so the loud conditions are guards; what a ciphertext decides   *)
(* never reverts and is part of the effect.  The owners of the contracts   *)
(* are trusted with the pointers between them, which stay as deployed.     *)
(***************************************************************************)
EXTENDS ConfidentialLedger, Sequences, FiniteSets, Functions

CONSTANTS
  Investors,      \* wallets that buy, redeem and transfer shares
  Queue,          \* the RedemptionQueue's account on the share ledger
  Treasury,       \* the MuHavenTreasury's account on the cash ledger
  Issuer,         \* the issuer's wallet on the cash ledger
  InitialCash,    \* the cash ledger's balances once wrapping is done
  CashMax,        \* type(uint64).max of the cash ledger
  Amounts,        \* plaintexts of the encrypted inputs
  Hints,          \* maxSharesHint values
  NAVs,           \* values the oracle reports
  Caps,           \* instantRedeemCap values the issuer sets
  MinInvestments, \* minInvestment values the issuer sets
  MinFloats,      \* minFloat values the issuer sets
  Halts,          \* which of the pause switches are ever used
  MaxBalanceCap,  \* MaxBalance.maxBalance; 0 when no compliance is bound
  MaxSupply,      \* bound: no purchase may be attempted beyond this supply
  MaxRequests,    \* bound: requests submitted
  MaxEpoch        \* bound: epoch indices are 0..MaxEpoch

ShareAccounts == Investors \cup {Queue}
CashAccounts == Investors \cup {Treasury, Issuer}
Epochs == 0 .. MaxEpoch

ASSUME AccountsAssumption ==
  /\ IsFiniteSet(Investors)
  /\ Queue \notin Investors
  /\ Treasury \notin Investors
  /\ Issuer \notin Investors
  /\ Treasury # Issuer

ASSUME AmountsAssumption ==
  /\ CashMax \in Nat
  /\ InitialCash \in [CashAccounts -> Nat]
  /\ Amounts \subseteq Nat
  /\ Hints \subseteq Nat \ {0}
  /\ NAVs \subseteq Nat \ {0}
  /\ Caps \subseteq Nat
  /\ Caps # {}
  /\ MinInvestments \subseteq Nat
  /\ MinInvestments # {}
  /\ MinFloats \subseteq Nat
  /\ MinFloats # {}

ASSUME BoundsAssumption ==
  /\ MaxBalanceCap \in Nat
  /\ MaxSupply \in Nat
  /\ MaxRequests \in Nat
  /\ MaxEpoch \in Nat
  /\ Halts \subseteq {"registry", "token", "cash"}

VARIABLES
  book,           \* share ledger
  cash,           \* cash ledger
  requests,       \* RedemptionQueue._requests, by id
  epochRequests,  \* RedemptionQueue._epochRequests: ids submitted per epoch
  redeemed,       \* MuHavenSubscription.instantRedeemedThisEpoch
  epoch,          \* block.timestamp / epochDuration
  oracle,         \* what getNAV and isFresh answer
  terms,          \* the issuer's terms: instantRedeemCap, minInvestment, minFloat
  verified,       \* investors the identity registry reports as verified
  halted,         \* pause switches that are on
  tracked         \* MaxBalance.trackerOf

vars == <<book, cash, requests, epochRequests, redeemed, epoch, oracle, terms,
          verified, halted, tracked>>
market == <<epoch, oracle, terms, verified, halted>>

Statuses == {"open", "settled", "cancelled"}
Request == [investor: Investors, encShares: Nat, hint: Nat, epochId: Epochs,
            status: Statuses]

TypeOK ==
  /\ book \in [bal: [ShareAccounts -> Nat], opened: SUBSET ShareAccounts, supply: Nat]
  /\ cash \in [bal: [CashAccounts -> Nat], opened: SUBSET CashAccounts, supply: Nat]
  /\ requests \in Seq(Request)
  /\ epochRequests \in [Epochs -> Seq(DOMAIN requests)]
  /\ redeemed \in [Epochs -> Nat]
  /\ epoch \in Epochs
  /\ oracle \in [nav: NAVs \cup {0}, fresh: BOOLEAN]
  /\ terms \in [cap: Caps, minInvestment: MinInvestments, minFloat: MinFloats]
  /\ verified \in SUBSET Investors
  /\ halted \in SUBSET Halts
  /\ tracked \in [Investors -> Nat]

-----------------------------------------------------------------------------
(* Checks every entry point shares.                                        *)

Running(switch) == switch \notin halted

\* Registered and unpaused, above the minimum, eligible, a usable NAV, and a
\* hint whose cost fits the cash ledger's width.
Tradable(i, hint) ==
  /\ Running("registry")
  /\ hint >= terms.minInvestment
  /\ i \in verified
  /\ oracle.nav # 0
  /\ oracle.fresh
  /\ hint * oracle.nav <= CashMax

\* MaxBalance.canTransfer for a mint or transfer of amount to i.
MayReceive(i, amount) == MaxBalanceCap = 0 \/ tracked[i] + amount <= MaxBalanceCap

\* MaxBalance.created and destroyed, for a tracker t.
Created(t, i, hint) ==
  IF MaxBalanceCap = 0 THEN t ELSE [t EXCEPT ![i] = @ + hint]
Destroyed(t, i, hint) ==
  IF MaxBalanceCap = 0 THEN t ELSE [t EXCEPT ![i] = IF hint >= @ THEN 0 ELSE @ - hint]

-----------------------------------------------------------------------------
(* MuHavenSubscription                                                     *)

\* Mutant: the check forgets the redemption at hand.
CapNotReached(hintCost) == redeemed[epoch] <= terms.cap

\* Whether an instant redemption fits what is left of the epoch's cap.
WithinCap(hintCost) == redeemed[epoch] + hintCost <= terms.cap

\* Mutant: a redemption the treasury could not pay is not undone.
NeverRefunded(paid, proceeds, shares) == 0

\* The shares a redemption gives back: all of them unless the treasury paid.
Refunded(paid, proceeds, shares) == IF paid = proceeds THEN 0 ELSE shares

\* Pull the cost from the investor; mint the shares if all of it moved.
Purchase(i, shares, hint) ==
  LET bounded == SilentFail(shares, hint)
      cost    == Narrow(bounded * oracle.nav, CashMax)
      paid    == Transferred(cash, i, cost)
      minted  == IF paid = cost THEN bounded ELSE 0
  IN  /\ Tradable(i, hint)
      /\ MayReceive(i, hint)
      /\ Running("cash") /\ i \in cash.opened
      /\ Running("token")
      /\ book.supply + hint <= MaxSupply
      /\ cash' = Move(cash, i, Treasury, paid)
      /\ book' = MintInternal(book, i, minted)
      /\ tracked' = Created(tracked, i, hint)
      /\ UNCHANGED <<requests, epochRequests, redeemed, market>>

\* Burn, pay from the treasury, and mint the shares back if it could not pay.
\* The cap is charged with the hint whatever the ciphertexts decide.
RedeemInstant(i, shares, hint) ==
  LET hintCost == hint * oracle.nav
      burned   == BurnedBySubscription(book, i, SilentFail(shares, hint))
      proceeds == Narrow(burned * oracle.nav, CashMax)
      paid     == Transferred(cash, Treasury, proceeds)
      refund   == Refunded(paid, proceeds, burned)
  IN  /\ Tradable(i, hint)
      /\ WithinCap(hintCost)
      /\ i \in book.opened
      /\ Running("cash") /\ Treasury \in cash.opened
      /\ Running("token")
      /\ book' = MintInternal(BurnInternal(book, i, burned), i, refund)
      /\ cash' = Move(cash, Treasury, i, paid)
      /\ redeemed' = [redeemed EXCEPT ![epoch] = @ + hintCost]
      /\ tracked' = Destroyed(tracked, i, hint)
      /\ UNCHANGED <<requests, epochRequests, market>>

-----------------------------------------------------------------------------
(* RedemptionQueue                                                         *)

\* _submit: lock what could be pulled, under a fresh id in the current epoch.
Submit(i, shares, hint) ==
  LET pulled == PulledFromInvestor(book, i, SilentFail(shares, hint))
  IN  /\ Tradable(i, hint)
      /\ i \in book.opened
      /\ Running("token")
      /\ Len(requests) < MaxRequests
      /\ book' = Move(book, i, Queue, pulled)
      /\ requests' = Append(requests, [investor |-> i, encShares |-> pulled, hint |-> hint,
                                       epochId |-> epoch, status |-> "open"])
      /\ epochRequests' = [epochRequests EXCEPT ![epoch] = Append(@, Len(requests) + 1)]
      /\ UNCHANGED <<cash, redeemed, tracked, market>>

\* MuHavenSubscription.redeem above the instant cap: escalate to the queue.
RedeemEscalated(i, shares, hint) ==
  /\ ~ WithinCap(hint * oracle.nav)
  /\ Submit(i, shares, hint)

\* _settleRequest on s, the accounts as the earlier requests of the page left
\* them: pay and burn, or return the shares if the treasury is short.
SettleRequest(s, id) ==
  LET r        == s.requests[id]
      proceeds == Narrow(r.encShares * oracle.nav, CashMax)
      paid     == Transferred(s.cash, Treasury, proceeds)
      toBurn   == IF paid = proceeds THEN r.encShares ELSE 0
      toReturn == Refunded(paid, proceeds, r.encShares)
  IN  [book     |-> ReturnToInvestor(BurnFromQueue(s.book, Queue, toBurn), Queue,
                                     r.investor, toReturn),
       cash     |-> Move(s.cash, Treasury, r.investor, paid),
       requests |-> [s.requests EXCEPT ![id].status = "settled"],
       tracked  |-> Destroyed(s.tracked, r.investor, r.hint)]

\* The loop body: a terminal request is skipped.
ProcessOne(s, id) ==
  IF s.requests[id].status = "open" THEN SettleRequest(s, id) ELSE s

Accounts == [book |-> book, cash |-> cash, requests |-> requests, tracked |-> tracked]

\* The accounts after the first k requests of ids[from + 1 ..].
ProcessPage(ids, from, to) ==
  LET after[k \in 0 .. to - from] ==
        IF k = 0 THEN Accounts ELSE ProcessOne(after[k - 1], ids[from + k])
  IN  after[to - from]

\* One request whose hint no longer fits at today's NAV reverts the page.
ProcessEpoch(e, from, to) ==
  LET ids  == epochRequests[e]
      due  == {id \in {ids[k] : k \in from + 1 .. to} : requests[id].status = "open"}
      done == ProcessPage(ids, from, to)
  IN  /\ from <= to /\ to <= Len(ids)
      /\ Running("registry")
      /\ oracle.nav # 0 /\ oracle.fresh
      /\ \A id \in due : requests[id].hint * oracle.nav <= CashMax
      /\ due # {} => Running("token") /\ Running("cash") /\ Treasury \in cash.opened
      /\ book' = done.book
      /\ cash' = done.cash
      /\ requests' = done.requests
      /\ tracked' = done.tracked
      /\ UNCHANGED <<epochRequests, redeemed, market>>

\* The issuer gives back the shares of an investor who lost verification.
CancelOnKYCRevocation(id) ==
  LET r == requests[id]
  IN  /\ r.status = "open"
      /\ r.investor \notin verified
      /\ Running("token")
      /\ requests' = [requests EXCEPT ![id].status = "cancelled"]
      /\ book' = ReturnToInvestor(book, Queue, r.investor, r.encShares)
      /\ UNCHANGED <<cash, epochRequests, redeemed, tracked, market>>

-----------------------------------------------------------------------------
(* MuHavenTreasury                                                         *)

\* Mutant: the floor is not subtracted.
WholeFloat == cash.bal[Treasury]

\* The floor withdraw compares with: a uint256, narrowed to the ledger's width.
Floor == Narrow(terms.minFloat, CashMax)

\* What withdraw may take.
MaxWithdraw ==
  LET float == cash.bal[Treasury]
  IN  IF float >= Floor THEN float - Floor ELSE 0

\* The issuer takes float out, all or nothing, down to the floor.
Withdraw(amount) ==
  LET actual == SilentFail(Narrow(amount, CashMax), MaxWithdraw)
  IN  /\ Running("cash") /\ Treasury \in cash.opened
      /\ cash' = Move(cash, Treasury, Issuer, Transferred(cash, Treasury, actual))
      /\ UNCHANGED <<book, requests, epochRequests, redeemed, tracked, market>>

-----------------------------------------------------------------------------
(* Transfers on the two ledgers, including the issuer topping the treasury *)
(* up; the token notifies compliance of an amount of zero.                 *)

ShareTransfer(from, to, amount) ==
  /\ Running("token")
  /\ to \in verified
  /\ MayReceive(to, 0)
  /\ from \in book.opened
  /\ book' = Move(book, from, to, SilentFail(amount, book.bal[from]))
  /\ UNCHANGED <<cash, requests, epochRequests, redeemed, tracked, market>>

CashTransfer(from, to, amount) ==
  /\ Running("cash")
  /\ from \in cash.opened
  /\ cash' = Move(cash, from, to, Transferred(cash, from, amount))
  /\ UNCHANGED <<book, requests, epochRequests, redeemed, tracked, market>>

-----------------------------------------------------------------------------
(* The market around them.                                                 *)

holdings == <<book, cash, requests, epochRequests, redeemed, tracked>>

\* NavReading's step: a quote, an approval, age, or the sequencer.
ReadingChanges(nav, fresh) ==
  /\ oracle' = [nav |-> nav, fresh |-> fresh]
  /\ UNCHANGED <<holdings, epoch, terms, verified, halted>>

EpochPasses ==
  /\ epoch < MaxEpoch
  /\ epoch' = epoch + 1
  /\ UNCHANGED <<holdings, oracle, terms, verified, halted>>

\* A new duration renumbers the current epoch, backwards as well as forwards.
SetEpochDuration(e) ==
  /\ e # epoch
  /\ epoch' = e
  /\ UNCHANGED <<holdings, oracle, terms, verified, halted>>

SetTerms(t) ==
  /\ t # terms
  /\ terms' = t
  /\ UNCHANGED <<holdings, epoch, oracle, verified, halted>>

SetVerified(i) ==
  /\ verified' = IF i \in verified THEN verified \ {i} ELSE verified \cup {i}
  /\ UNCHANGED <<holdings, epoch, oracle, terms, halted>>

SetPaused(switch) ==
  /\ halted' = IF switch \in halted THEN halted \ {switch} ELSE halted \cup {switch}
  /\ UNCHANGED <<holdings, epoch, oracle, terms, verified>>

-----------------------------------------------------------------------------
Terms == [cap: Caps, minInvestment: MinInvestments, minFloat: MinFloats]

Init ==
  /\ book = [bal |-> [a \in ShareAccounts |-> 0], opened |-> {}, supply |-> 0]
  /\ cash = [bal |-> InitialCash,
             opened |-> {a \in CashAccounts : InitialCash[a] > 0},
             supply |-> SumFunctionOnSet(InitialCash, CashAccounts)]
  /\ requests = <<>>
  /\ epochRequests = [e \in Epochs |-> <<>>]
  /\ redeemed = [e \in Epochs |-> 0]
  /\ epoch = 0
  /\ oracle = [nav |-> 0, fresh |-> FALSE]
  /\ terms \in Terms
  /\ verified = Investors
  /\ halted = {}
  /\ tracked = [i \in Investors |-> 0]

InvestorStep ==
  \E i \in Investors, shares \in Amounts, hint \in Hints :
    \/ Purchase(i, shares, hint)
    \/ RedeemInstant(i, shares, hint)
    \/ RedeemEscalated(i, shares, hint)
    \/ Submit(i, shares, hint)

QueueStep ==
  \/ \E e \in Epochs : \E from, to \in 0 .. Len(epochRequests[e]) : ProcessEpoch(e, from, to)
  \/ \E id \in DOMAIN requests : CancelOnKYCRevocation(id)

TransferStep ==
  \E amount \in Amounts :
    \/ Withdraw(amount)
    \/ \E from, to \in Investors : ShareTransfer(from, to, amount)
    \/ \E from \in Investors \cup {Issuer}, to \in CashAccounts : CashTransfer(from, to, amount)

MarketStep ==
  \/ \E nav \in NAVs, fresh \in BOOLEAN : ReadingChanges(nav, fresh)
  \/ EpochPasses
  \/ \E e \in Epochs : SetEpochDuration(e)
  \/ \E t \in Terms : SetTerms(t)
  \/ \E i \in Investors : SetVerified(i)
  \/ \E switch \in Halts : SetPaused(switch)

Next == InvestorStep \/ QueueStep \/ TransferStep \/ MarketStep

Spec == Init /\ [][Next]_vars

-----------------------------------------------------------------------------
(* Properties                                                              *)

Open(id) == requests[id].status = "open"

\* Shares the open requests of the investors in S have locked in the queue.
LockedBy(reqs, S) ==
  SumFunctionOnSet([id \in DOMAIN reqs |->
                      IF reqs[id].status = "open" /\ reqs[id].investor \in S
                      THEN reqs[id].encShares ELSE 0],
                   DOMAIN reqs)

\* What investor i is worth at the NAV in force.
Position(i) == cash.bal[i] + oracle.nav * (book.bal[i] + LockedBy(requests, {i}))

\* A purchase, though it mint nothing, a redemption, or a change of the queue.
Trade ==
  \/ book'.supply # book.supply
  \/ redeemed' # redeemed
  \/ requests' # requests
  \/ /\ cash' # cash
     /\ \E i \in Investors, shares \in Amounts, hint \in Hints : Purchase(i, shares, hint)

\* The encrypted total supply is the sum of the share balances, the queue's
\* included: the burn, refund and return legs of MuHavenToken never drift apart.
SharesConserved == book.supply = SumFunctionOnSet(book.bal, ShareAccounts)

\* The queue holds exactly what its open requests promise, so burnFromQueue and
\* returnToInvestor, which silently do nothing when short, are never short.
QueueBacked == book.bal[Queue] = LockedBy(requests, Investors)

\* Delivery versus payment: no purchase, instant redemption, submission, page of
\* settlements or cancellation changes what an investor is worth at the NAV it
\* executes at, whichever ciphertext leg silently failed.
PositionKept == [][Trade => \A i \in Investors : Position(i)' = Position(i)]_vars

\* Instant redemptions of an epoch stay within the cap in force, and the treasury
\* pays no more for one than MuHavenSubscription charged to the epoch's counter.
InstantOutflowMetered ==
  [][\A e \in Epochs : redeemed'[e] # redeemed[e] =>
       /\ redeemed'[e] <= terms.cap
       /\ cash.bal[Treasury] - cash'.bal[Treasury] <= redeemed'[e] - redeemed[e]]_vars

\* Float leaves the treasury only against shares that are burned at the NAV in
\* force, or to the issuer from above the floor (MuHavenTreasury.withdraw), provided
\* the floor fits the cash ledger: a wider one is narrowed, which may leave any
\* smaller number of it, and is not kept (FloorKept, below).
FloatOutflow ==
  [][cash'.bal[Treasury] < cash.bal[Treasury] =>
       \/ cash.bal[Treasury] - cash'.bal[Treasury] = oracle.nav * (book.supply - book'.supply)
       \/ /\ cash'.bal[Issuer] > cash.bal[Issuer]
          /\ terms.minFloat <= CashMax => cash'.bal[Treasury] >= terms.minFloat]_vars

\* A settled or cancelled request is final, so re-running processEpoch over a
\* page, or cancelling after it, neither pays twice nor returns shares twice.
TerminalFinal ==
  [][\A id \in DOMAIN requests :
       ~ Open(id) => requests'[id] = requests[id]]_vars

-----------------------------------------------------------------------------
(* Said of the code and not so.                                            *)

\* IMuHavenTreasury.sol:15, 47-48: the issuer's withdrawals honour the minFloat
\* that was set. Not one wider than the ledger, which the comparison truncates.
FloorKept ==
  [][cash'.bal[Issuer] > cash.bal[Issuer] /\ cash'.bal[Treasury] < cash.bal[Treasury] =>
       cash'.bal[Treasury] >= terms.minFloat]_vars

\* MaxBalance.sol:20-21: the tracker "never lets a real over-cap mint through".
NoOverCapMint ==
  [][book'.supply > book.supply =>
       \A i \in Investors : book'.bal[i] > book.bal[i] => book'.bal[i] <= MaxBalanceCap]_vars
=============================================================================
