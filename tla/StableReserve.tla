---------------------------- MODULE StableReserve ----------------------------
(***************************************************************************)
(* How value enters and leaves MuHavenStable: wrapping USDC or the legacy  *)
(* confidential USDC, unwrapping to the latter, and the two-phase exit to  *)
(* USDC, whose first phase burns an encrypted amount and whose second pays *)
(* it from a reserve once the CoFHE network has published its decryption.  *)
(*                                                                         *)
(* USDC, the legacy token and the decryption network are external.  A      *)
(* reserve token moves an amount or reverts; of the legacy token the same  *)
(* is assumed, its refusal being what WrapFailed and UnwrapFailed report.  *)
(* The network may publish a decryption at any time after the request.     *)
(***************************************************************************)
EXTENDS ConfidentialLedger, Sequences, FiniteSets, Functions

CONSTANTS
  Users,
  Stable,          \* the wrapper's own account on the external tokens
  Owner,           \* its owner's
  Reserves,        \* six-decimal tokens the owner may appoint as the reserve
  Underlying,      \* the one the legacy token pays out
  Unset,           \* no reserve token appointed yet
  InitialUsdc,     \* balances of the reserve tokens at the start
  InitialLegacy,   \* balances of the legacy token at the start
  CashMax,         \* type(uint64).max
  Amounts,         \* amounts asked for, encrypted or not
  Halts,           \* which of the pause switches are ever used
  MaxPending,      \* MAX_PENDING_WITHDRAWALS
  MaxClaims,       \* bound: withdrawals requested
  MaxRecoveries    \* bound: recoveries of stranded legacy tokens

Holders == Users \cup {Stable, Owner}
ClaimIds == 1 .. MaxClaims

ASSUME ReserveAssumption ==
  /\ IsFiniteSet(Users)
  /\ IsFiniteSet(Reserves)
  /\ Stable \notin Users /\ Owner \notin Users /\ Stable # Owner
  /\ Underlying \in Reserves
  /\ Unset \notin Reserves
  /\ InitialUsdc \in [Reserves -> [Holders -> Nat]]
  /\ InitialLegacy \in [Users \cup {Stable} -> Nat]
  /\ CashMax \in Nat
  /\ Amounts \subseteq Nat
  /\ Halts \subseteq {"wrapper", "claims"}
  /\ MaxPending \in Nat
  /\ MaxClaims \in Nat
  /\ MaxRecoveries \in Nat

VARIABLES
  cash,         \* the mhUSDC ledger
  usdc,         \* balances of each reserve token
  legacy,       \* balances of the legacy token
  recoveries,   \* the legacy token's claims in favour of the wrapper, 0 once paid
  reserve,      \* MuHavenStable.usdc
  claims,       \* _withdrawClaims, by id; burned is the plaintext behind handle
  pending,      \* _userWithdrawClaims
  readable,     \* handles whose decryption is published
  halted        \* pause switches that are on

vars == <<cash, usdc, legacy, recoveries, reserve, claims, pending, readable, halted>>
exits == <<claims, pending, readable>>

Claim == [to: Users, handle: ClaimIds, burned: Nat, claimed: BOOLEAN]

TypeOK ==
  /\ cash \in [bal: [Users -> Nat], opened: SUBSET Users, supply: Nat]
  /\ usdc \in [Reserves -> [Holders -> Nat]]
  /\ legacy \in [Users \cup {Stable} -> Nat]
  /\ recoveries \in Seq(Nat)
  /\ reserve \in Reserves \cup {Unset}
  /\ claims \in Seq(Claim)
  /\ pending \in [Users -> Seq(DOMAIN claims)]
  /\ readable \subseteq ClaimIds
  /\ halted \subseteq Halts

Running(switch) == switch \notin halted

\* The token's safeTransfer: all of it, or a revert (the caller's guard).
Pay(token, from, to, x) ==
  LET less == [usdc[token] EXCEPT ![from] = @ - x]
  IN  [usdc EXCEPT ![token] = [less EXCEPT ![to] = less[to] + x]]

PayLegacy(from, to, x) == [[legacy EXCEPT ![from] = @ - x] EXCEPT ![to] = @ + x]

-----------------------------------------------------------------------------
(* Wrap and unwrap                                                         *)

\* The amount is public here and must fit the ledger's width.
WrapUsdc(u, amount) ==
  /\ Running("wrapper")
  /\ reserve # Unset
  /\ amount # 0 /\ amount <= CashMax
  /\ amount <= usdc[reserve][u]
  /\ usdc' = Pay(reserve, u, Stable, amount)
  /\ cash' = MintInternal(cash, u, Narrow(amount, CashMax))
  /\ UNCHANGED <<legacy, recoveries, reserve, exits, halted>>

Wrap(u, amount) ==
  /\ Running("wrapper")
  /\ amount <= legacy[u]
  /\ legacy' = PayLegacy(u, Stable, amount)
  /\ cash' = MintInternal(cash, u, amount)
  /\ UNCHANGED <<usdc, recoveries, reserve, exits, halted>>

\* All or nothing of the balance, burned and pushed out in the legacy token.
Unwrap(u, amount) ==
  LET actual == SilentFail(amount, cash.bal[u])
  IN  /\ Running("wrapper")
      /\ u \in cash.opened
      /\ actual <= legacy[Stable]
      /\ cash' = BurnInternal(cash, u, actual)
      /\ legacy' = PayLegacy(Stable, u, actual)
      /\ UNCHANGED <<usdc, recoveries, reserve, exits, halted>>

Transfer(from, to, amount) ==
  /\ Running("wrapper")
  /\ from \in cash.opened
  /\ cash' = Move(cash, from, to, Transferred(cash, from, amount))
  /\ UNCHANGED <<usdc, legacy, recoveries, reserve, exits, halted>>

-----------------------------------------------------------------------------
(* The two-phase exit                                                      *)

\* Handles are content-addressed: a burn of the same amount may reuse one.
PossibleHandles(burned) ==
  {Len(claims) + 1} \cup {claims[k].handle : k \in {n \in DOMAIN claims : claims[n].burned = burned}}

\* Burn as much as there is of the request, and record a claim to it.
WithdrawToUsdc(u, amount) ==
  LET burned == Clamp(amount, cash.bal[u])
      id     == Len(claims) + 1
  IN  /\ Running("wrapper")
      /\ reserve # Unset
      /\ u \in cash.opened
      /\ Len(pending[u]) < MaxPending
      /\ id <= MaxClaims
      /\ cash' = BurnInternal(cash, u, burned)
      /\ \E handle \in PossibleHandles(burned) :
           claims' = Append(claims, [to |-> u, handle |-> handle, burned |-> burned,
                                     claimed |-> FALSE])
      /\ pending' = [pending EXCEPT ![u] = Append(@, id)]
      /\ UNCHANGED <<usdc, legacy, recoveries, reserve, readable, halted>>

\* The CoFHE network publishes the plaintext of a handle.
PublishDecryptResult(handle) ==
  /\ \E id \in DOMAIN claims : claims[id].handle = handle
  /\ handle \notin readable
  /\ readable' = readable \cup {handle}
  /\ UNCHANGED <<cash, usdc, legacy, recoveries, reserve, claims, pending, halted>>

\* Mutant: the last entry is dropped without taking the place of the settled one.
DropLast(list, id) == SubSeq(list, 1, Len(list) - 1)

\* _removeUserClaim: the last entry takes the place of the settled one.
SwapAndPop(list, id) ==
  LET last == Len(list)
  IN  IF \A k \in 1 .. last : list[k] # id
      THEN list
      ELSE SubSeq([k \in 1 .. last |-> IF list[k] = id THEN list[last] ELSE list[k]],
                  1, last - 1)

\* Mutant: the wrapper's own switch stops payouts too.
AllOpen == Running("claims") /\ Running("wrapper")

\* Payouts have a switch of their own.
ClaimsOpen == Running("claims")

\* Mutant: a settled claim is not refused.
Recorded(id) == id \in DOMAIN claims

Outstanding(id) == id \in DOMAIN claims /\ ~ claims[id].claimed

\* Mutant: the reserve is not consulted.
Trusting(id) == TRUE

ReserveCovers(id) ==
  claims[id].burned > 0 => usdc[reserve][Stable] >= claims[id].burned

\* Anyone may settle a claim; the reserve in force pays its recipient.
ClaimUsdc(id) ==
  LET c == claims[id]
  IN  /\ ClaimsOpen
      /\ Outstanding(id)
      /\ c.handle \in readable
      /\ ReserveCovers(id)
      /\ claims' = [claims EXCEPT ![id].claimed = TRUE]
      /\ pending' = [pending EXCEPT ![c.to] = SwapAndPop(@, id)]
      /\ usdc' = Pay(reserve, Stable, c.to, c.burned)
      /\ UNCHANGED <<cash, legacy, recoveries, reserve, readable, halted>>

-----------------------------------------------------------------------------
(* The owner                                                               *)

SetUsdcReserveToken(token) ==
  /\ reserve' = token
  /\ UNCHANGED <<cash, usdc, legacy, recoveries, exits, halted>>

FundUsdcReserve(amount) ==
  /\ reserve # Unset
  /\ amount <= usdc[reserve][Owner]
  /\ usdc' = Pay(reserve, Owner, Stable, amount)
  /\ UNCHANGED <<cash, legacy, recoveries, reserve, exits, halted>>

WithdrawUsdcReserve(amount) ==
  /\ reserve # Unset
  /\ amount <= usdc[reserve][Stable]
  /\ usdc' = Pay(reserve, Stable, Owner, amount)
  /\ UNCHANGED <<cash, legacy, recoveries, reserve, exits, halted>>

\* Legacy tokens that backed what was since withdrawn are unwrapped in turn.
RecoverStrandedPusdcStart(amount) ==
  /\ Running("wrapper")
  /\ reserve # Unset
  /\ amount # 0 /\ amount <= legacy[Stable]
  /\ Len(recoveries) < MaxRecoveries
  /\ legacy' = [legacy EXCEPT ![Stable] = @ - amount]
  /\ recoveries' = Append(recoveries, amount)
  /\ UNCHANGED <<cash, usdc, reserve, exits, halted>>

RecoverStrandedPusdcClaim(k) ==
  /\ Running("wrapper")
  /\ recoveries[k] # 0
  /\ usdc' = [usdc EXCEPT ![Underlying][Stable] = @ + recoveries[k]]
  /\ recoveries' = [recoveries EXCEPT ![k] = 0]
  /\ UNCHANGED <<cash, legacy, reserve, exits, halted>>

SetPaused(switch) ==
  /\ halted' = IF switch \in halted THEN halted \ {switch} ELSE halted \cup {switch}
  /\ UNCHANGED <<cash, usdc, legacy, recoveries, reserve, exits>>

-----------------------------------------------------------------------------
Init ==
  /\ cash = [bal |-> [u \in Users |-> 0], opened |-> {}, supply |-> 0]
  /\ usdc = InitialUsdc
  /\ legacy = InitialLegacy
  /\ recoveries = <<>>
  /\ reserve = Unset
  /\ claims = <<>>
  /\ pending = [u \in Users |-> <<>>]
  /\ readable = {}
  /\ halted = {}

UserStep ==
  \E u \in Users, amount \in Amounts :
    \/ WrapUsdc(u, amount)
    \/ Wrap(u, amount)
    \/ Unwrap(u, amount)
    \/ WithdrawToUsdc(u, amount)
    \/ \E to \in Users : Transfer(u, to, amount)

SettleStep ==
  \E id \in ClaimIds :
    \/ PublishDecryptResult(id)
    \/ ClaimUsdc(id)

OwnerStep ==
  \/ \E token \in Reserves : SetUsdcReserveToken(token)
  \/ \E amount \in Amounts :
       \/ FundUsdcReserve(amount)
       \/ WithdrawUsdcReserve(amount)
       \/ RecoverStrandedPusdcStart(amount)
  \/ \E k \in DOMAIN recoveries : RecoverStrandedPusdcClaim(k)
  \/ \E switch \in Halts : SetPaused(switch)

Next == UserStep \/ SettleStep \/ OwnerStep

Spec == Init /\ [][Next]_vars

\* The network answers every request, and as claimUsdc is open to anyone, someone
\* calls it for a claim that stays payable.
FairSpec ==
  Spec /\ \A id \in ClaimIds : WF_vars(PublishDecryptResult(id)) /\ WF_vars(ClaimUsdc(id))

-----------------------------------------------------------------------------
(* Properties                                                              *)

SumOf(f) == SumFunctionOnSet(f, DOMAIN f)

\* What is burned but not yet paid to the users in S.
OwedTo(S) ==
  SumOf([id \in DOMAIN claims |->
           IF ~ claims[id].claimed /\ claims[id].to \in S THEN claims[id].burned ELSE 0])

\* What a holder has of all reserve tokens together.
UsdcOf(h) == SumOf([token \in Reserves |-> usdc[token][h]])

\* A user's value in every form it can take.
Value == [u \in Users |-> cash.bal[u] + OwedTo({u}) + UsdcOf(u) + legacy[u]]

\* Nothing a user, the owner or the network does changes what anyone is worth,
\* but a transfer between users: burned amounts are paid once, in full, to whom
\* they belong, also when handles coincide, the reserve runs dry or is rotated.
ValueHeld ==
  INSTANCE Custody WITH
    value <- Value,
    Deposits <- [u \in Users |->
                   SumOf([token \in Reserves |-> InitialUsdc[token][u]]) + InitialLegacy[u]]
ValuePromised == ValueHeld!Spec

\* What the wrapper holds, recoveries in flight included, is what it owes on its
\* ledger and to its claims, but for what its owner put in or took out.
Collateralised ==
  UsdcOf(Stable) + legacy[Stable] + SumOf(recoveries)
    + UsdcOf(Owner) - SumOf([token \in Reserves |-> InitialUsdc[token][Stable] + InitialUsdc[token][Owner]])
    - InitialLegacy[Stable]
  = cash.supply + OwedTo(Users)

\* _userWithdrawClaims lists each user's outstanding claims, each once, and never
\* more than the cap, in whatever order they are settled.
PendingListed ==
  \A u \in Users :
    LET listed == {pending[u][k] : k \in DOMAIN pending[u]}
    IN  /\ listed = {id \in DOMAIN claims : claims[id].to = u /\ ~ claims[id].claimed}
        /\ Cardinality(listed) = Len(pending[u])
        /\ Len(pending[u]) <= MaxPending

\* The owner keeps a claim from being paid.
Withheld(id) ==
  \/ ~ Running("claims")
  \/ id \in DOMAIN claims /\ ~ ReserveCovers(id)

\* A claim refused for a short reserve stays claimable: unless the owner keeps
\* withholding it, every claim is settled in the end.
ClaimsSettle ==
  \A id \in ClaimIds :
    \/ []<>Withheld(id)
    \/ Outstanding(id) ~> ~ Outstanding(id)
=============================================================================
