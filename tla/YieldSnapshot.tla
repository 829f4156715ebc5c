---------------------------- MODULE YieldSnapshot ----------------------------
(***************************************************************************)
(* The pull-based distribution of yield: one contract keeps the epochs of  *)
(* every token and, as one balance of mhUSDC, the pools of all of them. An *)
(* issuer opens an epoch, captures the holders' balances page by page      *)
(* while they trade, seals it and funds it; holders claim their share; the *)
(* issuer sweeps what is left when the window has passed.                  *)
(*                                                                         *)
(* Two legs are silent. The pull of a funding moves nothing when the       *)
(* issuer does not hold the amount, and the epoch records it all the same. *)
(* And trustedPayout subtracts without looking: a float that is short does *)
(* not stop a claim, it wraps around the width of the ledger.              *)
(***************************************************************************)
EXTENDS ConfidentialLedger, Sequences, FiniteSets, Functions

CONSTANTS
  Tokens,
  Investors,
  Issuer,     \* the account that funds and sweeps
  Snapshot,   \* the contract's account on the cash ledger
  Funds,      \* the issuer's mhUSDC at the start
  CashMax,    \* type(uint64).max of the cash ledger
  RateScale,  \* RATE_SCALE
  Holdings,   \* what trading may leave a holder with
  Amounts,    \* plaintexts of yields and of transfers
  Rates,      \* ratePerShare values
  Careful,    \* what a funding makes sure of: "held", "rate"
  Halts,      \* switches that are ever used: "cash", "payer"
  MaxEpochs   \* bound: epochs opened

Accounts == Investors \cup {Issuer, Snapshot}
InitialCash == [a \in Accounts |-> IF a = Issuer THEN Funds ELSE 0]

ASSUME PoolAssumption ==
  /\ IsFiniteSet(Investors) /\ Issuer \notin Investors /\ Snapshot \notin Investors \cup {Issuer}
  /\ CashMax \in Nat /\ Funds \in 0 .. CashMax /\ RateScale \in Nat \ {0} /\ MaxEpochs \in Nat
  /\ Holdings \subseteq Nat /\ Amounts \subseteq Nat /\ Rates \subseteq Nat \ {0}
  /\ Careful \subseteq {"held", "rate"} /\ Halts \subseteq {"cash", "payer"}

VARIABLES
  shares,  \* balances of the tokens
  cash,    \* the mhUSDC ledger
  epochs,  \* _epochs, _snapshots, _claimed, _encRemaining and _swept, by id
  halted   \* mhUSDC paused; the contract not, or no longer, a trusted payer

vars == <<shares, cash, epochs, halted>>

\* "pulled" is what a funding moved, which the contract does not see.
Epoch ==
  [token: Tokens, captured: SUBSET Investors, snapshot: [Investors -> Nat], supply: Nat,
   finalized: BOOLEAN, funded: BOOLEAN, rate: Nat, pool: Nat, pulled: Nat, remaining: Nat,
   expired: BOOLEAN, swept: BOOLEAN, claimed: SUBSET Investors]

TypeOK ==
  /\ shares \in [Tokens -> [Investors -> Nat]]
  /\ cash \in [bal: [Accounts -> Nat], opened: SUBSET Accounts, supply: Nat]
  /\ epochs \in Seq(Epoch)
  /\ halted \in SUBSET Halts

Running(switch) == switch \notin halted

-----------------------------------------------------------------------------
(* Arithmetic of an euint64 *)

Plus(x, y) == (x + y) % (CashMax + 1)
Minus(x, y) == (x - y) % (CashMax + 1)

\* The share a captured balance gives at the epoch's rate.
Share(e, i) == Narrow((e.snapshot[i] * e.rate) \div RateScale, CashMax)

\* MuHavenStable.trustedPayout, without a bound.
PayOut(l, to, x) ==
  LET less == [l.bal EXCEPT ![Snapshot] = Minus(@, x)]
  IN  [l EXCEPT !.bal = [less EXCEPT ![to] = Plus(@, x)], !.opened = @ \cup {to}]

-----------------------------------------------------------------------------
(* What becomes of an epoch *)

NewEpoch(t) ==
  [token |-> t, captured |-> {}, snapshot |-> [i \in Investors |-> 0], supply |-> 0,
   finalized |-> FALSE, funded |-> FALSE, rate |-> 0, pool |-> 0, pulled |-> 0, remaining |-> 0,
   expired |-> FALSE, swept |-> FALSE, claimed |-> {}]

\* Mutant: the balance of an investor captured before is taken anew.
CapturedAnew(e, S, balances) ==
  LET new == S \ e.captured
  IN  [e EXCEPT !.captured = @ \cup new,
                !.snapshot = [i \in Investors |-> IF i \in S THEN balances[i] ELSE e.snapshot[i]],
                !.supply = @ + SumFunctionOnSet(balances, new)]

\* Who was captured before keeps that balance and adds nothing.
Captured(e, S, balances) ==
  LET new == S \ e.captured
  IN  [e EXCEPT !.captured = @ \cup new,
                !.snapshot = [i \in Investors |-> IF i \in new THEN balances[i] ELSE e.snapshot[i]],
                !.supply = @ + SumFunctionOnSet(balances, new)]

Funded(e, amount, moved, rate) ==
  [e EXCEPT !.funded = TRUE, !.rate = rate, !.pool = amount, !.pulled = moved, !.remaining = amount]

\* Mutant: the claim is not counted.
ClaimUncounted(e, i) == [e EXCEPT !.claimed = @ \cup {i}]

Claimed(e, i) == [e EXCEPT !.claimed = @ \cup {i}, !.remaining = Minus(@, Share(e, i))]

\* Mutant: the sweep leaves the epoch open to claims.
SweptOpen(e) == [e EXCEPT !.remaining = 0]

Swept(e) == [e EXCEPT !.swept = TRUE, !.remaining = 0]

Put(k, e) == epochs' = [epochs EXCEPT ![k] = e]

-----------------------------------------------------------------------------
(* Transactions of the issuer *)

OpenEpoch(t) ==
  /\ Len(epochs) < MaxEpochs
  /\ epochs' = Append(epochs, NewEpoch(t))
  /\ UNCHANGED <<shares, cash, halted>>

SnapshotBatch(k, S) ==
  /\ ~ epochs[k].finalized
  /\ Put(k, Captured(epochs[k], S, shares[epochs[k].token]))
  /\ UNCHANGED <<shares, cash, halted>>

FinalizeSnapshot(k) ==
  /\ ~ epochs[k].finalized /\ epochs[k].captured # {}
  /\ Put(k, [epochs[k] EXCEPT !.finalized = TRUE])
  /\ UNCHANGED <<shares, cash, halted>>

\* What the issuer's tools see to: the amount is there, and the rate is within
\* what the amount yields on the captured supply.
Affordable(amount) == "held" \in Careful => amount <= cash.bal[Issuer]
Honest(amount, rate, supply) == "rate" \in Careful => supply * rate <= amount * RateScale

FundEpoch(k, yield, rate) ==
  LET amount == Narrow(yield, CashMax)
      moved  == Transferred(cash, Issuer, amount)
  IN  /\ epochs[k].finalized /\ ~ epochs[k].funded
      /\ Affordable(amount) /\ Honest(amount, rate, epochs[k].supply)
      /\ Running("cash") /\ Issuer \in cash.opened
      /\ cash' = Move(cash, Issuer, Snapshot, moved)
      /\ Put(k, Funded(epochs[k], amount, moved, rate))
      /\ UNCHANGED <<shares, halted>>

SweepExpired(k) ==
  LET paid == Transferred(cash, Snapshot, epochs[k].remaining)
  IN  /\ epochs[k].funded /\ epochs[k].expired /\ ~ epochs[k].swept
      /\ Running("cash") /\ Snapshot \in cash.opened
      /\ cash' = Move(cash, Snapshot, Issuer, paid)
      /\ Put(k, Swept(epochs[k]))
      /\ UNCHANGED <<shares, halted>>

(* The claim of an investor; expiry alone does not end it, the sweep does. *)

ClaimYield(k, i) ==
  /\ epochs[k].funded /\ i \notin epochs[k].claimed /\ ~ epochs[k].swept
  /\ i \in epochs[k].captured
  /\ Running("cash") /\ Running("payer") /\ Snapshot \in cash.opened
  /\ cash' = PayOut(cash, i, Share(epochs[k], i))
  /\ Put(k, Claimed(epochs[k], i))
  /\ UNCHANGED <<shares, halted>>

-----------------------------------------------------------------------------
(* Around them *)

\* block.timestamp passes claimExpiry.
Expire(k) ==
  /\ epochs[k].funded /\ ~ epochs[k].expired
  /\ Put(k, [epochs[k] EXCEPT !.expired = TRUE])
  /\ UNCHANGED <<shares, cash, halted>>

\* Purchases, redemptions and transfers of shares.
Trade(t, i, x) ==
  /\ shares' = [shares EXCEPT ![t] = [@ EXCEPT ![i] = x]]
  /\ UNCHANGED <<cash, epochs, halted>>

CashTransfer(from, to, amount) ==
  /\ Running("cash") /\ from \in cash.opened
  /\ cash' = Move(cash, from, to, Transferred(cash, from, amount))
  /\ UNCHANGED <<shares, epochs, halted>>

Switch(s) ==
  /\ halted' = IF s \in halted THEN halted \ {s} ELSE halted \cup {s}
  /\ UNCHANGED <<shares, cash, epochs>>

-----------------------------------------------------------------------------
Init ==
  /\ shares = [t \in Tokens |-> [i \in Investors |-> 0]]
  /\ cash = [bal |-> InitialCash, opened |-> {Issuer}, supply |-> Funds]
  /\ epochs = <<>>
  /\ halted = {}

EpochStep(k) ==
  \/ \E S \in SUBSET Investors : SnapshotBatch(k, S)
  \/ FinalizeSnapshot(k)
  \/ \E yield \in Amounts, rate \in Rates : FundEpoch(k, yield, rate)
  \/ SweepExpired(k)
  \/ \E i \in Investors : ClaimYield(k, i)
  \/ Expire(k)

MarketStep ==
  \/ \E t \in Tokens, i \in Investors, x \in Holdings : Trade(t, i, x)
  \/ \E from \in Investors \cup {Issuer}, to \in Accounts, x \in Amounts : CashTransfer(from, to, x)
  \/ \E s \in Halts : Switch(s)

Next ==
  \/ \E t \in Tokens : OpenEpoch(t)
  \/ \E k \in DOMAIN epochs : EpochStep(k)
  \/ MarketStep

Spec == Init /\ [][Next]_vars

-----------------------------------------------------------------------------
(* Properties *)

Open(e) == e.funded /\ ~ e.swept
Paid(e) == SumFunctionOnSet([i \in Investors |-> Share(e, i)], e.claimed)
Owed(e) == SumFunctionOnSet([i \in Investors |-> Share(e, i)], e.captured \ e.claimed)
AllOwed ==
  SumFunctionOnSet([k \in DOMAIN epochs |-> IF Open(epochs[k]) THEN Owed(epochs[k]) ELSE 0], DOMAIN epochs)

\* YieldSnapshot.sol:57: what is claimed of an epoch stays within what its
\* funding pulled, whatever was traded between the pages of the snapshot, so no
\* epoch is paid from another's pool.
ClaimsWithinPull == \A k \in DOMAIN epochs : Paid(epochs[k]) <= epochs[k].pulled

\* MuHavenStable.sol:823: the float covers every share of every epoch that can
\* still be claimed, so the subtraction never wraps and mhUSDC is neither made
\* nor lost.
YieldCovered ==
  /\ AllOwed <= cash.bal[Snapshot]
  /\ SumFunctionOnSet(cash.bal, Accounts) = cash.supply
=============================================================================
