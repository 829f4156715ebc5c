------------------------- MODULE ConfidentialLedger -------------------------
(***************************************************************************)
(* The encrypted-balance ledger that MuHavenToken (shares, euint128) and   *)
(* MuHavenStable (mhUSDC, euint64) both implement over Fhenix CoFHE.       *)
(*                                                                         *)
(* A ledger is a record:                                                   *)
(*   bal     the plaintext behind each account's balance handle,           *)
(*   opened  the accounts whose handle is initialised; a debit of any      *)
(*           other account reverts NoBalance,                              *)
(*   supply  the plaintext behind _encryptedTotalSupply.                   *)
(*                                                                         *)
(* Comparisons on ciphertexts cannot revert, so a leg that cannot be       *)
(* honoured moves an encrypted zero instead.  Every operator here is the   *)
(* ledger after one internal call; a transaction composes them, and a      *)
(* revert anywhere in it leaves the old ledger in place.                   *)
(***************************************************************************)
EXTENDS Integers

\* FHE.select(FHE.lte(x, limit), x, 0): all or nothing.
SilentFail(x, limit) == IF x <= limit THEN x ELSE 0

\* FHE.min(x, limit): as much as there is.
Clamp(x, limit) == IF x <= limit THEN x ELSE limit

\* FHE.asEuint64: keep the low bits.  max is type(uint64).max.
Narrow(x, max) == x % (max + 1)

Credit(l, a, x) ==
  [bal |-> [l.bal EXCEPT ![a] = @ + x], opened |-> l.opened \cup {a}, supply |-> l.supply]

Debit(l, a, x) == [l EXCEPT !.bal[a] = @ - x]

\* The debit first, then the credit, also when from = to.
Move(l, from, to, x) == Credit(Debit(l, from, x), to, x)

MintInternal(l, to, x) == [Credit(l, to, x) EXCEPT !.supply = @ + x]

BurnInternal(l, from, x) == [Debit(l, from, x) EXCEPT !.supply = @ - x]

-----------------------------------------------------------------------------
\* The share ledger's entry points that the settlement contracts call.

\* What burnFromSubscription takes, as reported to the caller.
BurnedBySubscription(l, from, x) == Clamp(x, l.bal[from])

\* What pullFromInvestor takes, as recorded in the request (ADR-036).
PulledFromInvestor(l, from, x) == Clamp(x, l.bal[from])

ReturnToInvestor(l, queue, to, x) == Move(l, queue, to, SilentFail(x, l.bal[queue]))

BurnFromQueue(l, queue, x) == BurnInternal(l, queue, SilentFail(x, l.bal[queue]))

\* Mutant: the caller's amount is debited whatever the balance.
Requested(l, from, x) == x

\* What a cash transfer moves, as reported to the caller.
Transferred(l, from, x) == SilentFail(x, l.bal[from])
=============================================================================
