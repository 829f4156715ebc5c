------------------------- MODULE YieldSnapshotProofs -------------------------
(***************************************************************************)
(* Proofs about YieldSnapshot for any investors, tokens, balances and any  *)
(* width of the ledger, when fundings are held and rates honest: no epoch  *)
(* pays beyond its own pull, and the float covers what can be claimed.     *)
(***************************************************************************)
EXTENDS YieldSnapshot, ConfidentialLedgerProofs, SequenceTheorems

\* What a funding makes sure of, in every theorem below.
Prudent == Careful = {"held", "rate"}

Bounded(e) == Owed(e) <= e.remaining /\ e.remaining <= CashMax

\* An epoch between any two transactions.
EpochKept(e) ==
  /\ e \in Epoch
  /\ e.claimed \subseteq e.captured
  /\ e.supply = SumFunctionOnSet(e.snapshot, e.captured)
  /\ ~ e.funded => e.claimed = {} /\ ~ e.swept
  /\ e.funded => e.finalized /\ e.pulled = e.pool /\ Paid(e) + Owed(e) <= e.pool
  /\ Open(e) => Bounded(e)

AllKept(es) == es \in Seq(Epoch) /\ \A k \in DOMAIN es : EpochKept(es[k])

Remaining(e) == IF Open(e) THEN e.remaining ELSE 0
AllRemaining(es) == SumFunctionOnSet([k \in DOMAIN es |-> Remaining(es[k])], DOMAIN es)

CashKept ==
  /\ cash \in Ledger(Accounts)
  /\ cash.supply = Funds /\ Total(cash, Accounts) = Funds

\* The inductive invariant.
IInv ==
  /\ TypeOK
  /\ CashKept
  /\ AllKept(epochs)
  /\ AllRemaining(epochs) <= cash.bal[Snapshot]

-----------------------------------------------------------------------------
(* Arithmetic *)

\* A difference or a sum within the width does not wrap.
LEMMA NoWrap ==
  ASSUME NEW x \in Nat, NEW y \in Nat
  PROVE  /\ y <= x /\ x <= CashMax => Minus(x, y) = x - y
         /\ x + y <= CashMax => Plus(x, y) = x + y
BY PoolAssumption DEF Minus, Plus

\* Narrowing never adds.
LEMMA NarrowBelow ==
  ASSUME NEW x \in Nat
  PROVE  Narrow(x, CashMax) \in Nat /\ Narrow(x, CashMax) <= x /\ Narrow(x, CashMax) <= CashMax
<1>1. CashMax \in Nat
  BY PoolAssumption
<1>2. x <= CashMax => Narrow(x, CashMax) = x
  BY <1>1 DEF Narrow
<1>3. Narrow(x, CashMax) \in 0 .. CashMax
  BY <1>1 DEF Narrow
<1> QED
  BY <1>1, <1>2, <1>3

\* Floor division.
LEMMA FloorBelow ==
  ASSUME NEW x \in Nat, NEW s \in Nat \ {0}
  PROVE  x \div s \in Nat /\ s * (x \div s) <= x
OBVIOUS

\* A common factor may be cancelled.
LEMMA Cancel ==
  ASSUME NEW a \in Nat, NEW b \in Nat, NEW s \in Nat \ {0}, s * a <= b * s
  PROVE  a <= b
<1>1. SUFFICES ASSUME b + 1 <= a PROVE FALSE
  OBVIOUS
<1>2. s * (b + 1) <= s * a
  BY <1>1
<1>3. s * (b + 1) = b * s + s
  OBVIOUS
<1> QED
  BY <1>2, <1>3

\* A share is a natural number, and scaled back it stays within the balance at the rate.
LEMMA ShareBelow ==
  ASSUME NEW e \in Epoch, NEW i \in Investors
  PROVE  /\ Share(e, i) \in Nat
         /\ e.snapshot[i] \in Nat
         /\ RateScale * Share(e, i) <= e.rate * e.snapshot[i]
<1> DEFINE p == e.snapshot[i] * e.rate
           q == p \div RateScale
<1>1. e.snapshot[i] \in Nat /\ e.rate \in Nat
  BY DEF Epoch
<1>2. p \in Nat /\ p = e.rate * e.snapshot[i]
  BY <1>1
<1>3. RateScale \in Nat \ {0}
  BY PoolAssumption
<1>4. q \in Nat /\ RateScale * q <= p
  <2> HIDE DEF p
  <2> QED
    BY <1>2, <1>3, FloorBelow
<1>5. Share(e, i) = Narrow(q, CashMax)
  BY DEF Share
<1> HIDE DEF p, q
<1>6. Share(e, i) \in Nat /\ Share(e, i) <= q
  BY <1>4, <1>5, NarrowBelow
<1>7. RateScale * Share(e, i) <= RateScale * q
  BY <1>3, <1>4, <1>6
<1>8. RateScale * Share(e, i) \in Nat /\ RateScale * q \in Nat
  BY <1>3, <1>4, <1>6
<1> QED
  BY <1>1, <1>2, <1>4, <1>6, <1>7, <1>8

-----------------------------------------------------------------------------
(* The shares of an epoch *)

Shares(e) == [i \in Investors |-> Share(e, i)]

LEMMA ShareSums ==
  ASSUME NEW e \in Epoch, NEW S \in SUBSET Investors
  PROVE  /\ IsFiniteSet(S)
         /\ Summable(Shares(e), S)
         /\ SumFunctionOnSet(Shares(e), S) \in Nat
         /\ \A i \in S : Share(e, i) \in Nat /\ Share(e, i) <= SumFunctionOnSet(Shares(e), S)
<1>1. IsFiniteSet(S)
  BY PoolAssumption, FS_Subset
<1>2. \A i \in S : Shares(e)[i] = Share(e, i) /\ Share(e, i) \in Nat
  BY ShareBelow DEF Shares
<1>3. /\ SumFunctionOnSet(Shares(e), S) \in Nat
      /\ \A i \in S : Shares(e)[i] <= SumFunctionOnSet(Shares(e), S)
  BY <1>1, <1>2, SumNat
<1> QED
  BY <1>1, <1>2, <1>3 DEF Summable

LEMMA PaidOwedNat ==
  ASSUME NEW e \in Epoch, e.claimed \subseteq e.captured
  PROVE  /\ Paid(e) = SumFunctionOnSet(Shares(e), e.claimed) /\ Paid(e) \in Nat
         /\ Owed(e) = SumFunctionOnSet(Shares(e), e.captured \ e.claimed) /\ Owed(e) \in Nat
<1>1. e.claimed \in SUBSET Investors /\ e.captured \ e.claimed \in SUBSET Investors
  BY DEF Epoch
<1> QED
  BY <1>1, ShareSums DEF Paid, Owed, Shares

\* Shares depend on the captured balances and the rate alone.
LEMMA SameShares ==
  ASSUME NEW e \in Epoch, NEW f \in Epoch, f.snapshot = e.snapshot, f.rate = e.rate
  PROVE  Shares(f) = Shares(e)
BY DEF Shares, Share

\* Floor division and an honest rate keep what is owed within the amount.
LEMMA OwedWithin ==
  ASSUME NEW e \in Epoch, e.claimed = {}, e.supply = SumFunctionOnSet(e.snapshot, e.captured),
         NEW amount \in Nat, e.supply * e.rate <= amount * RateScale
  PROVE  Paid(e) = 0 /\ Owed(e) \in Nat /\ Owed(e) <= amount
<1> DEFINE part == Shares(e)
           owed == SumFunctionOnSet(part, e.captured)
<1>1. e.captured \in SUBSET Investors /\ e.rate \in Nat /\ e.supply \in Nat
  BY DEF Epoch
<1>2. RateScale \in Nat \ {0}
  BY PoolAssumption
<1>3. e.captured \ e.claimed = e.captured
  OBVIOUS
<1>4. Paid(e) = 0 /\ Owed(e) = owed
  BY <1>3, SumEmpty DEF Paid, Owed, Shares
<1>5. IsFiniteSet(e.captured) /\ owed \in Nat
  BY <1>1, ShareSums
<1>6. \A i \in e.captured :
        part[i] \in Nat /\ e.snapshot[i] \in Nat /\ RateScale * part[i] <= e.rate * e.snapshot[i]
  BY <1>1, ShareBelow DEF Shares
<1> HIDE DEF part
<1>7. RateScale * owed <= e.rate * e.supply
  BY <1>1, <1>2, <1>5, <1>6, SumScaled
<1> HIDE DEF owed
<1>8. e.rate * e.supply = e.supply * e.rate /\ e.supply * e.rate \in Nat /\ amount * RateScale \in Nat
      /\ RateScale * owed \in Nat
  BY <1>1, <1>2, <1>5
<1>9. RateScale * owed <= amount * RateScale
  BY <1>7, <1>8
<1>10. owed <= amount
  BY <1>2, <1>5, <1>9, Cancel
<1> QED
  BY <1>4, <1>5, <1>10

-----------------------------------------------------------------------------
(* What becomes of an epoch *)

LEMMA NewEpochKept ==
  ASSUME NEW t \in Tokens
  PROVE  EpochKept(NewEpoch(t)) /\ Remaining(NewEpoch(t)) = 0
<1> DEFINE e == NewEpoch(t)
<1>1. e \in Epoch
  BY DEF NewEpoch, Epoch
<1>2. /\ e.claimed = {} /\ e.captured = {} /\ e.supply = 0
      /\ ~ e.funded /\ ~ e.swept
  BY DEF NewEpoch
<1> HIDE DEF e
<1>3. ~ Open(e)
  BY <1>2 DEF Open
<1>4. e.supply = SumFunctionOnSet(e.snapshot, e.captured)
  BY <1>2, SumEmpty
<1>5. EpochKept(e) /\ Remaining(e) = 0
  BY <1>1, <1>2, <1>3, <1>4 DEF EpochKept, Remaining
<1> QED
  BY <1>5 DEF e

LEMMA CapturedKept ==
  ASSUME NEW e, EpochKept(e), ~ e.finalized, NEW S \in SUBSET Investors, NEW balances \in [Investors -> Nat]
  PROVE  EpochKept(Captured(e, S, balances)) /\ Remaining(Captured(e, S, balances)) = Remaining(e)
<1> DEFINE new == S \ e.captured
           kept == [i \in Investors |-> IF i \in new THEN balances[i] ELSE e.snapshot[i]]
           f == Captured(e, S, balances)
           more == SumFunctionOnSet(balances, new)
<1>1. /\ e \in Epoch /\ ~ e.funded /\ ~ e.swept /\ e.claimed = {}
      /\ e.supply = SumFunctionOnSet(e.snapshot, e.captured)
  BY DEF EpochKept
<1>2. /\ e.captured \in SUBSET Investors /\ e.snapshot \in [Investors -> Nat] /\ e.supply \in Nat
      /\ new \in SUBSET Investors /\ kept \in [Investors -> Nat]
  BY <1>1 DEF Epoch
<1>3. IsFiniteSet(new) /\ IsFiniteSet(e.captured) /\ IsFiniteSet(e.captured \cup new)
  BY <1>2, PoolAssumption, FS_Subset, FS_Union
<1>4. more \in Nat
  <2>1. \A i \in new : balances[i] \in Nat
    BY <1>2
  <2> HIDE DEF new
  <2> QED
    BY <1>3, <2>1, SumNat
<1>5. /\ f \in Epoch
      /\ f.captured = e.captured \cup new /\ f.snapshot = kept /\ f.supply = e.supply + more
      /\ f.funded = e.funded /\ f.swept = e.swept /\ f.claimed = e.claimed
  <2> HIDE DEF more
  <2>1. e.captured \cup new \in SUBSET Investors /\ e.supply + more \in Nat
    BY <1>2, <1>4
  <2>2. f = [e EXCEPT !.captured = e.captured \cup new, !.snapshot = kept, !.supply = e.supply + more]
    BY DEF Captured, more
  <2> HIDE DEF new, kept, f
  <2> QED
    BY <1>1, <1>2, <2>1, <2>2 DEF Epoch
<1>6. SumFunctionOnSet(kept, e.captured \cup new) = e.supply + more
  <2>1. e.captured \cap new = {}
    OBVIOUS
  <2>2. \A i \in e.captured \cup new : kept[i] \in Int
    BY <1>2
  <2>3. AgreeOn(kept, e.snapshot, e.captured) /\ AgreeOn(kept, balances, new)
    BY <1>2 DEF AgreeOn
  <2> HIDE DEF new, kept
  <2>4. Summable(kept, e.captured \cup new) /\ Summable(kept, e.captured) /\ Summable(kept, new)
    BY <1>3, <2>2 DEF Summable
  <2>5. SumFunctionOnSet(kept, e.captured \cup new) = SumFunctionOnSet(kept, e.captured) + SumFunctionOnSet(kept, new)
    BY <1>3, <2>1, <2>4, SumUnion
  <2>6. SumFunctionOnSet(kept, e.captured) = SumFunctionOnSet(e.snapshot, e.captured)
    BY <2>3, <2>4, SumEqual
  <2>7. SumFunctionOnSet(kept, new) = SumFunctionOnSet(balances, new)
    BY <2>3, <2>4, SumEqual
  <2> QED
    BY <1>1, <2>5, <2>6, <2>7
<1> HIDE DEF f, new, kept, more
<1>7. ~ Open(f) /\ ~ Open(e)
  BY <1>1, <1>5 DEF Open
<1>8. EpochKept(f)
  BY <1>1, <1>5, <1>6, <1>7 DEF EpochKept
<1> QED
  BY <1>7, <1>8 DEF Remaining, f

\* A change of the flags alone.
LEMMA FlagsKept ==
  ASSUME NEW e, EpochKept(e), NEW b \in BOOLEAN, NEW c \in BOOLEAN, e.funded => b
  PROVE  LET f == [e EXCEPT !.finalized = b, !.expired = c]
         IN  EpochKept(f) /\ Remaining(f) = Remaining(e)
<1> DEFINE f == [e EXCEPT !.finalized = b, !.expired = c]
<1>1. e \in Epoch
  BY DEF EpochKept
<1>2. /\ f \in Epoch
      /\ f.finalized = b
      /\ f.captured = e.captured /\ f.snapshot = e.snapshot /\ f.supply = e.supply
      /\ f.funded = e.funded /\ f.rate = e.rate /\ f.pool = e.pool /\ f.pulled = e.pulled
      /\ f.remaining = e.remaining /\ f.swept = e.swept /\ f.claimed = e.claimed
  BY <1>1 DEF Epoch
<1> HIDE DEF f
<1>3. Shares(f) = Shares(e)
  BY <1>1, <1>2, SameShares
<1>4. Paid(f) = Paid(e) /\ Owed(f) = Owed(e)
  BY <1>2, <1>3 DEF Paid, Owed, Shares
<1>5. (Open(f) <=> Open(e)) /\ (Bounded(f) <=> Bounded(e))
  BY <1>2, <1>4 DEF Open, Bounded
<1>6. EpochKept(f)
  BY <1>2, <1>4, <1>5 DEF EpochKept
<1> QED
  BY <1>2, <1>5, <1>6 DEF Remaining, f


LEMMA FundedKept ==
  ASSUME NEW e, EpochKept(e), e.finalized, ~ e.funded,
         NEW amount \in Nat, amount <= CashMax, NEW rate \in Nat, e.supply * rate <= amount * RateScale
  PROVE  LET f == Funded(e, amount, amount, rate)
         IN  EpochKept(f) /\ Remaining(e) = 0 /\ Remaining(f) = amount
<1> DEFINE f == Funded(e, amount, amount, rate)
<1>1. /\ e \in Epoch /\ e.claimed = {} /\ ~ e.swept
      /\ e.supply = SumFunctionOnSet(e.snapshot, e.captured)
  BY DEF EpochKept
<1>2. /\ f \in Epoch
      /\ f.funded /\ f.rate = rate /\ f.pool = amount /\ f.pulled = amount /\ f.remaining = amount
      /\ f.finalized = e.finalized /\ f.captured = e.captured /\ f.snapshot = e.snapshot
      /\ f.supply = e.supply /\ f.swept = e.swept /\ f.claimed = e.claimed
  BY <1>1 DEF Epoch, Funded
<1> HIDE DEF f
<1>3. f.claimed = {} /\ f.supply = SumFunctionOnSet(f.snapshot, f.captured) /\ f.supply * f.rate <= amount * RateScale
  BY <1>1, <1>2
<1>4. Paid(f) = 0 /\ Owed(f) \in Nat /\ Owed(f) <= amount
  BY <1>2, <1>3, OwedWithin
<1>5. Open(f) /\ ~ Open(e)
  BY <1>1, <1>2 DEF Open
<1>6. Bounded(f) /\ Paid(f) + Owed(f) <= f.pool
  BY <1>2, <1>4 DEF Bounded
<1>7. f.claimed \subseteq f.captured
  BY <1>3
<1>8. EpochKept(f)
  BY <1>2, <1>3, <1>5, <1>6, <1>7 DEF EpochKept
<1> QED
  BY <1>2, <1>5, <1>8 DEF Remaining, f

\* A claim moves a share from what is owed to what is paid, and the epoch's
\* remaining amount covers it.
LEMMA ClaimedKept ==
  ASSUME NEW e, EpochKept(e), Open(e), NEW i \in e.captured, i \notin e.claimed
  PROVE  /\ Share(e, i) \in Nat /\ Share(e, i) <= Remaining(e)
         /\ EpochKept(Claimed(e, i))
         /\ Remaining(Claimed(e, i)) = Remaining(e) - Share(e, i)
<1> DEFINE x == Share(e, i)
           f == Claimed(e, i)
           rest == e.captured \ e.claimed
<1>1. /\ e \in Epoch /\ e.claimed \subseteq e.captured /\ e.funded /\ ~ e.swept
      /\ e.finalized /\ e.pulled = e.pool /\ Paid(e) + Owed(e) <= e.pool
      /\ Owed(e) <= e.remaining /\ e.remaining <= CashMax
      /\ e.supply = SumFunctionOnSet(e.snapshot, e.captured)
  BY DEF EpochKept, Open, Bounded
<1>2. e.remaining \in Nat /\ e.pool \in Nat /\ e.captured \in SUBSET Investors /\ i \in Investors
  BY <1>1 DEF Epoch
<1>3. /\ Paid(e) = SumFunctionOnSet(Shares(e), e.claimed) /\ Paid(e) \in Nat
      /\ Owed(e) = SumFunctionOnSet(Shares(e), rest) /\ Owed(e) \in Nat
  BY <1>1, PaidOwedNat
<1>4. x \in Nat /\ x <= Owed(e)
  <2>1. rest \in SUBSET Investors /\ i \in rest
    BY <1>2
  <2> QED
    BY <1>1, <1>3, <2>1, ShareSums
<1>5. Minus(e.remaining, x) = e.remaining - x /\ e.remaining - x \in Nat
  BY <1>1, <1>2, <1>3, <1>4, NoWrap
<1>6. /\ f \in Epoch
      /\ f.claimed = e.claimed \cup {i} /\ f.remaining = e.remaining - x
      /\ f.captured = e.captured /\ f.snapshot = e.snapshot /\ f.supply = e.supply /\ f.rate = e.rate
      /\ f.finalized = e.finalized /\ f.funded = e.funded /\ f.swept = e.swept
      /\ f.pool = e.pool /\ f.pulled = e.pulled
  <2>1. f = [e EXCEPT !.claimed = e.claimed \cup {i}, !.remaining = Minus(e.remaining, x)]
    BY DEF Claimed
  <2>2. e.claimed \cup {i} \in SUBSET Investors
    BY <1>1, <1>2
  <2> HIDE DEF f, x
  <2> QED
    BY <1>1, <1>5, <2>1, <2>2 DEF Epoch
<1> HIDE DEF f
<1>7. Shares(f) = Shares(e)
  BY <1>1, <1>6, SameShares
<1>8. Shares(e)[i] = x
  BY <1>2 DEF Shares
<1>9. Paid(f) = Paid(e) + x
  <2>1. e.claimed \cup {i} \in SUBSET Investors /\ e.claimed \in SUBSET Investors
    BY <1>1, <1>2
  <2>2. IsFiniteSet(e.claimed) /\ Summable(Shares(e), e.claimed \cup {i})
    BY <1>1, <2>1, ShareSums
  <2>3. SumFunctionOnSet(Shares(e), e.claimed \cup {i}) = SumFunctionOnSet(Shares(e), e.claimed) + Shares(e)[i]
    BY <2>2, SumAdd
  <2>4. Paid(f) = SumFunctionOnSet(Shares(f), f.claimed)
    BY DEF Paid, Shares
  <2> QED
    BY <1>3, <1>6, <1>7, <1>8, <2>3, <2>4
<1>10. Owed(f) = Owed(e) - x /\ Owed(f) \in Nat
  <2>1. rest \in SUBSET Investors /\ i \in rest
    BY <1>2
  <2>2. Summable(Shares(e), rest)
    BY <1>1, <2>1, ShareSums
  <2>3. SumFunctionOnSet(Shares(e), rest) = Shares(e)[i] + SumFunctionOnSet(Shares(e), rest \ {i})
    BY <2>1, <2>2, SumRemove
  <2>4. SumFunctionOnSet(Shares(e), rest \ {i}) \in Nat
    <3>1. rest \ {i} \in SUBSET Investors
      BY <2>1
    <3> HIDE DEF rest
    <3> QED
      BY <1>1, <3>1, ShareSums
  <2>5. Owed(f) = SumFunctionOnSet(Shares(f), f.captured \ f.claimed)
    BY DEF Owed, Shares
  <2>6. f.captured \ f.claimed = rest \ {i}
    BY <1>6
  <2>7. Owed(f) = SumFunctionOnSet(Shares(e), rest \ {i})
    BY <1>7, <2>5, <2>6
  <2> HIDE DEF rest, x
  <2> QED
    BY <1>3, <1>4, <1>8, <2>3, <2>4, <2>7
<1> HIDE DEF x, rest
<1>11. Open(f) /\ Bounded(f)
  <2>1. CashMax \in Nat
    BY PoolAssumption
  <2> QED
    BY <1>1, <1>2, <1>3, <1>4, <1>6, <1>10, <2>1 DEF Open, Bounded
<1>12. Paid(f) + Owed(f) <= f.pool
  BY <1>1, <1>2, <1>3, <1>4, <1>6, <1>9, <1>10
<1>13. EpochKept(f)
  <2>1. f.claimed \subseteq f.captured /\ f.supply = SumFunctionOnSet(f.snapshot, f.captured)
    BY <1>1, <1>6
  <2> QED
    BY <1>1, <1>6, <1>11, <1>12, <2>1 DEF EpochKept
<1>14. Remaining(e) = e.remaining /\ Remaining(f) = e.remaining - x
  BY <1>6, <1>11 DEF Remaining
<1> QED
  BY <1>1, <1>2, <1>3, <1>4, <1>13, <1>14 DEF x, f

LEMMA SweptKept ==
  ASSUME NEW e, EpochKept(e), e.funded
  PROVE  EpochKept(Swept(e)) /\ Remaining(Swept(e)) = 0
<1> DEFINE f == Swept(e)
<1>1. e \in Epoch
  BY DEF EpochKept
<1>2. /\ f \in Epoch
      /\ f.swept
      /\ f.captured = e.captured /\ f.snapshot = e.snapshot /\ f.supply = e.supply /\ f.rate = e.rate
      /\ f.finalized = e.finalized /\ f.funded = e.funded /\ f.claimed = e.claimed
      /\ f.pool = e.pool /\ f.pulled = e.pulled
  BY <1>1 DEF Epoch, Swept
<1> HIDE DEF f
<1>3. Shares(f) = Shares(e)
  BY <1>1, <1>2, SameShares
<1>4. Paid(f) = Paid(e) /\ Owed(f) = Owed(e)
  BY <1>2, <1>3 DEF Paid, Owed, Shares
<1>5. ~ Open(f)
  BY <1>2 DEF Open
<1>6. EpochKept(f)
  BY <1>2, <1>4, <1>5 DEF EpochKept
<1> QED
  BY <1>5, <1>6 DEF Remaining, f

-----------------------------------------------------------------------------
(* All epochs *)

LEMMA RemainingNat ==
  ASSUME NEW e, EpochKept(e)
  PROVE  /\ Remaining(e) \in Nat
         /\ Open(e) => Owed(e) \in Nat /\ Owed(e) <= Remaining(e) /\ Remaining(e) <= CashMax
<1>1. e \in Epoch /\ e.claimed \subseteq e.captured /\ (Open(e) => Bounded(e))
  BY DEF EpochKept
<1>2. Owed(e) \in Nat
  BY <1>1, PaidOwedNat
<1> QED
  BY <1>1, <1>2 DEF Remaining, Epoch, Bounded

LEMMA EpochsFinite ==
  ASSUME NEW es \in Seq(Epoch)
  PROVE  DOMAIN es = 1 .. Len(es) /\ Len(es) \in Nat /\ IsFiniteSet(DOMAIN es)
<1>1. DOMAIN es = 1 .. Len(es) /\ Len(es) \in Nat
  BY LenProperties
<1> QED
  BY <1>1, FS_Interval

LEMMA PutKeeps ==
  ASSUME NEW es, AllKept(es), NEW k \in DOMAIN es, NEW f, EpochKept(f)
  PROVE  LET fs == [es EXCEPT ![k] = f]
         IN  /\ AllKept(fs)
             /\ Remaining(es[k]) \in Nat /\ Remaining(f) \in Nat /\ AllRemaining(es) \in Nat
             /\ Remaining(es[k]) <= AllRemaining(es)
             /\ AllRemaining(fs) = AllRemaining(es) - Remaining(es[k]) + Remaining(f)
<1> DEFINE fs == [es EXCEPT ![k] = f]
           old == [j \in DOMAIN es |-> Remaining(es[j])]
           new == [j \in DOMAIN fs |-> Remaining(fs[j])]
<1>1. es \in Seq(Epoch) /\ f \in Epoch
  BY DEF AllKept, EpochKept
<1>2. DOMAIN fs = DOMAIN es /\ IsFiniteSet(DOMAIN es) /\ fs \in Seq(Epoch)
  BY <1>1, EpochsFinite
<1>3. fs[k] = f /\ \A j \in DOMAIN es \ {k} : fs[j] = es[j]
  OBVIOUS
<1> HIDE DEF fs
<1>4. \A j \in DOMAIN es : EpochKept(fs[j]) /\ EpochKept(es[j])
  BY <1>3 DEF AllKept
<1>5. \A j \in DOMAIN es : Remaining(fs[j]) \in Nat /\ Remaining(es[j]) \in Nat
  BY <1>4, RemainingNat
<1>6. /\ \A j \in DOMAIN es : old[j] = Remaining(es[j]) /\ old[j] \in Nat
      /\ \A j \in DOMAIN es : new[j] = Remaining(fs[j]) /\ new[j] \in Nat
  BY <1>2, <1>5
<1>7. AllRemaining(es) = SumFunctionOnSet(old, DOMAIN es) /\ AllRemaining(fs) = SumFunctionOnSet(new, DOMAIN es)
  BY <1>2 DEF AllRemaining
<1> HIDE DEF old, new
<1>8. AllRemaining(es) \in Nat /\ old[k] <= AllRemaining(es)
  BY <1>2, <1>6, <1>7, SumNat
<1>9. AllRemaining(fs) = AllRemaining(es) - old[k] + new[k]
  <2>1. Summable(old, DOMAIN es) /\ Summable(new, DOMAIN es)
    BY <1>2, <1>6 DEF Summable
  <2>2. AgreeOn(old, new, DOMAIN es \ {k})
    BY <1>3, <1>6 DEF AgreeOn
  <2> QED
    BY <1>7, <2>1, <2>2, SumChange
<1>10. AllKept(fs)
  BY <1>2, <1>4 DEF AllKept
<1> QED
  BY <1>3, <1>5, <1>6, <1>8, <1>9, <1>10 DEF fs

LEMMA AppendKeeps ==
  ASSUME NEW es, AllKept(es), NEW f, EpochKept(f), Remaining(f) = 0
  PROVE  AllKept(Append(es, f)) /\ AllRemaining(Append(es, f)) = AllRemaining(es)
<1> DEFINE fs == Append(es, f)
           n == Len(es) + 1
           old == [j \in DOMAIN es |-> Remaining(es[j])]
           new == [j \in DOMAIN fs |-> Remaining(fs[j])]
<1>1. es \in Seq(Epoch) /\ f \in Epoch
  BY DEF AllKept, EpochKept
<1>2. DOMAIN es = 1 .. Len(es) /\ Len(es) \in Nat /\ IsFiniteSet(DOMAIN es)
  BY <1>1, EpochsFinite
<1>3. /\ fs \in Seq(Epoch) /\ DOMAIN fs = 1 .. n
      /\ fs[n] = f /\ \A j \in DOMAIN es : fs[j] = es[j]
  BY <1>1, <1>2, AppendProperties
<1>4. DOMAIN fs = DOMAIN es \cup {n} /\ n \notin DOMAIN es
  BY <1>2, <1>3
<1> HIDE DEF fs, n
<1>5. \A j \in DOMAIN fs : EpochKept(fs[j])
  BY <1>3, <1>4 DEF AllKept
<1>6. \A j \in DOMAIN fs : new[j] = Remaining(fs[j]) /\ new[j] \in Nat
  BY <1>5, RemainingNat
<1>7. \A j \in DOMAIN es : new[j] = old[j]
  BY <1>3, <1>4
<1>8. AllRemaining(es) = SumFunctionOnSet(old, DOMAIN es) /\ AllRemaining(fs) = SumFunctionOnSet(new, DOMAIN fs)
  BY DEF AllRemaining
<1> HIDE DEF old, new
<1>9. IsFiniteSet(DOMAIN es \cup {n})
  BY <1>2, FS_AddElement
<1>10. Summable(new, DOMAIN es \cup {n}) /\ Summable(new, DOMAIN es)
  BY <1>2, <1>4, <1>6, <1>9 DEF Summable
<1>11. SumFunctionOnSet(new, DOMAIN es \cup {n}) = SumFunctionOnSet(new, DOMAIN es) + new[n]
  BY <1>2, <1>4, <1>10, SumAdd
<1>12. SumFunctionOnSet(new, DOMAIN es) = SumFunctionOnSet(old, DOMAIN es)
  BY <1>7, <1>10, SumEqual DEF AgreeOn
<1>13. new[n] = 0 /\ SumFunctionOnSet(new, DOMAIN es) \in Int
  BY <1>3, <1>4, <1>6, <1>10, SumInt
<1>14. AllRemaining(fs) = AllRemaining(es)
  BY <1>4, <1>8, <1>11, <1>12, <1>13
<1>15. AllKept(fs)
  BY <1>3, <1>5 DEF AllKept
<1> QED
  BY <1>14, <1>15 DEF fs


-----------------------------------------------------------------------------
(* The ledger *)

LEMMA AccountsFinite == IsFiniteSet(Accounts) /\ Snapshot \in Accounts /\ Issuer \in Accounts
                        /\ Investors \subseteq Accounts /\ Snapshot \notin Investors \cup {Issuer}
<1>1. IsFiniteSet(Investors)
  BY PoolAssumption
<1>2. IsFiniteSet((Investors \cup {Issuer}) \cup {Snapshot})
  BY <1>1, FS_AddElement
<1>3. Accounts = (Investors \cup {Issuer}) \cup {Snapshot}
  BY DEF Accounts
<1> QED
  BY <1>2, <1>3, PoolAssumption

\* A covered move keeps the ledger, and the float with it unless it pays.
LEMMA MoveKeeps ==
  ASSUME CashKept, NEW from \in Accounts, NEW to \in Accounts, NEW x \in Nat, x <= cash.bal[from],
         cash' = Move(cash, from, to, x)
  PROVE  /\ CashKept'
         /\ from # Snapshot /\ to # Snapshot => cash'.bal[Snapshot] = cash.bal[Snapshot]
         /\ from # Snapshot /\ to = Snapshot => cash'.bal[Snapshot] = cash.bal[Snapshot] + x
         /\ from = Snapshot /\ to # Snapshot => cash'.bal[Snapshot] = cash.bal[Snapshot] - x
<1>1. cash \in Ledger(Accounts) /\ cash.supply = Funds /\ Total(cash, Accounts) = Funds
  BY DEF CashKept
<1>2. /\ cash' \in Ledger(Accounts)
      /\ cash'.supply = cash.supply
      /\ Total(cash', Accounts) = Total(cash, Accounts)
      /\ \A a \in Accounts \ {from, to} : cash'.bal[a] = cash.bal[a]
      /\ from # to => /\ cash'.bal[from] = cash.bal[from] - x
                      /\ cash'.bal[to] = cash.bal[to] + x
  BY <1>1, AccountsFinite, MoveFacts
<1> QED
  BY <1>1, <1>2, AccountsFinite DEF CashKept

\* While the float covers it, trustedPayout moves what it is told to and wraps nothing.
LEMMA PayOutMoves ==
  ASSUME CashKept, NEW i \in Investors, NEW x \in Nat, x <= cash.bal[Snapshot]
  PROVE  PayOut(cash, i, x) = Move(cash, Snapshot, i, x)
<1> DEFINE d == Debit(cash, Snapshot, x)
           less == [cash.bal EXCEPT ![Snapshot] = Minus(@, x)]
<1>1. cash \in Ledger(Accounts) /\ Total(cash, Accounts) = Funds
  BY DEF CashKept
<1>2. Snapshot \in Accounts /\ i \in Accounts /\ IsFiniteSet(Accounts) /\ Funds \in Nat /\ CashMax \in Nat /\ Funds <= CashMax
  BY AccountsFinite, PoolAssumption
<1>3. cash.bal \in [Accounts -> Nat] /\ cash.opened \in SUBSET Accounts
  BY <1>1 DEF Ledger
<1>4. cash.bal[Snapshot] <= Funds
  BY <1>1, <1>2, <1>3, SumNat DEF Total
<1>5. /\ d \in Ledger(Accounts)
      /\ d.bal = [cash.bal EXCEPT ![Snapshot] = cash.bal[Snapshot] - x]
      /\ d.supply = cash.supply /\ d.opened = cash.opened
      /\ Total(d, Accounts) = Funds - x
  BY <1>1, <1>2, DebitFacts
<1>6. Minus(cash.bal[Snapshot], x) = cash.bal[Snapshot] - x
  BY <1>2, <1>3, <1>4, NoWrap
<1>7. less = d.bal
  BY <1>5, <1>6
<1> HIDE DEF d, less
<1>8. d.bal \in [Accounts -> Nat]
  BY <1>5 DEF Ledger
<1>9. d.bal[i] <= Funds - x
  BY <1>2, <1>5, <1>8, SumNat DEF Total
<1>10. Plus(d.bal[i], x) = d.bal[i] + x
  BY <1>2, <1>8, <1>9, NoWrap
<1>11. PayOut(cash, i, x)
       = [bal |-> [d.bal EXCEPT ![i] = d.bal[i] + x], opened |-> cash.opened \cup {i}, supply |-> cash.supply]
  <2>1. PayOut(cash, i, x) = [cash EXCEPT !.bal = [less EXCEPT ![i] = Plus(@, x)], !.opened = @ \cup {i}]
    BY DEF PayOut, less
  <2>2. [less EXCEPT ![i] = Plus(@, x)] = [d.bal EXCEPT ![i] = d.bal[i] + x]
    BY <1>2, <1>7, <1>8, <1>10
  <2> QED
    BY <1>1, <2>1, <2>2 DEF Ledger
<1>12. Move(cash, Snapshot, i, x)
       = [bal |-> [d.bal EXCEPT ![i] = d.bal[i] + x], opened |-> cash.opened \cup {i}, supply |-> cash.supply]
  BY <1>5, <1>8 DEF Move, Credit, d
<1> QED
  BY <1>11, <1>12


-----------------------------------------------------------------------------
(* Every step *)

\* An epoch is replaced by one that keeps, and the float by what it then needs.
LEMMA EpochStepKeeps ==
  ASSUME IInv, NEW k \in DOMAIN epochs, NEW f, EpochKept(f), Put(k, f),
         CashKept', shares' \in [Tokens -> [Investors -> Nat]], halted' \in SUBSET Halts,
         cash'.bal[Snapshot] = cash.bal[Snapshot] - Remaining(epochs[k]) + Remaining(f)
  PROVE  IInv'
<1>1. AllKept(epochs) /\ AllRemaining(epochs) <= cash.bal[Snapshot]
  BY DEF IInv
<1>2. /\ AllKept(epochs')
      /\ Remaining(epochs[k]) \in Nat /\ Remaining(f) \in Nat /\ AllRemaining(epochs) \in Nat
      /\ AllRemaining(epochs') = AllRemaining(epochs) - Remaining(epochs[k]) + Remaining(f)
  <2>1. epochs' = [epochs EXCEPT ![k] = f]
    BY DEF Put
  <2> QED
    BY <1>1, <2>1, PutKeeps
<1>3. cash.bal[Snapshot] \in Nat
  BY AccountsFinite DEF IInv, CashKept, Ledger
<1>4. AllRemaining(epochs') <= cash'.bal[Snapshot]
  BY <1>1, <1>2, <1>3
<1>5. TypeOK'
  <2>1. epochs' \in Seq(Epoch) /\ cash' \in [bal: [Accounts -> Nat], opened: SUBSET Accounts, supply: Nat]
    BY <1>2 DEF AllKept, CashKept, Ledger
  <2> QED
    BY <2>1 DEF TypeOK
<1> QED
  BY <1>2, <1>4, <1>5 DEF IInv

LEMMA InvFacts ==
  ASSUME IInv
  PROVE  /\ TypeOK /\ CashKept /\ AllKept(epochs)
         /\ cash.bal \in [Accounts -> Nat] /\ cash.bal[Snapshot] \in Nat
         /\ shares \in [Tokens -> [Investors -> Nat]] /\ halted \in SUBSET Halts
         /\ \A k \in DOMAIN epochs : EpochKept(epochs[k]) /\ epochs[k] \in Epoch
BY AccountsFinite DEF IInv, TypeOK, CashKept, Ledger, AllKept, EpochKept

LEMMA InitOK == Init => IInv
<1>1. SUFFICES ASSUME Init PROVE IInv
  OBVIOUS
<1>2. Funds \in Nat /\ IsFiniteSet(Accounts) /\ Issuer \in Accounts /\ Snapshot \in Accounts /\ Snapshot # Issuer
  BY AccountsFinite, PoolAssumption
<1>3. cash \in Ledger(Accounts) /\ cash.supply = Funds /\ cash.bal = InitialCash
  BY <1>1, <1>2 DEF Init, InitialCash, Ledger
<1>4. Total(cash, Accounts) = Funds
  <2>1. \A a \in Accounts \ {Issuer} : InitialCash[a] = 0
    BY DEF InitialCash
  <2>2. InitialCash[Issuer] = Funds /\ \A a \in Accounts : InitialCash[a] \in Int
    BY <1>2 DEF InitialCash
  <2>3. IsFiniteSet(Accounts \ {Issuer})
    BY <1>2, FS_RemoveElement
  <2>4. SumFunctionOnSet(InitialCash, Accounts \ {Issuer}) = 0
    BY <2>1, <2>3, SumZero
  <2>5. SumFunctionOnSet(InitialCash, Accounts) = InitialCash[Issuer] + SumFunctionOnSet(InitialCash, Accounts \ {Issuer})
    BY <1>2, <2>2, SumRemove DEF Summable
  <2> QED
    BY <1>2, <1>3, <2>2, <2>4, <2>5 DEF Total
<1>5. CashKept
  BY <1>3, <1>4 DEF CashKept
<1>6. epochs = <<>> /\ DOMAIN epochs = {} /\ AllKept(epochs)
  BY <1>1 DEF Init, AllKept
<1>7. AllRemaining(epochs) = 0
  BY <1>6, SumEmpty DEF AllRemaining
<1>8. cash.bal[Snapshot] = 0
  BY <1>2, <1>3 DEF InitialCash
<1>9. TypeOK
  BY <1>1, <1>3, <1>6 DEF Init, TypeOK, Ledger, AllKept
<1> QED
  BY <1>5, <1>6, <1>7, <1>8, <1>9 DEF IInv

LEMMA OpenKeeps ==
  ASSUME IInv, NEW t \in Tokens, OpenEpoch(t)
  PROVE  IInv'
<1>1. epochs' = Append(epochs, NewEpoch(t)) /\ UNCHANGED <<shares, cash, halted>>
  BY DEF OpenEpoch
<1>2. AllKept(epochs') /\ AllRemaining(epochs') = AllRemaining(epochs)
  BY <1>1, InvFacts, NewEpochKept, AppendKeeps
<1>3. CashKept' /\ TypeOK'
  BY <1>1, <1>2 DEF IInv, CashKept, Ledger, Total, TypeOK, AllKept
<1> QED
  BY <1>1, <1>2, <1>3 DEF IInv

LEMMA QuietKeeps ==
  ASSUME IInv, NEW k \in DOMAIN epochs, NEW f, EpochKept(f), Remaining(f) = Remaining(epochs[k]),
         Put(k, f), UNCHANGED <<shares, cash, halted>>
  PROVE  IInv'
<1>1. EpochKept(epochs[k])
  BY InvFacts
<1>2. Remaining(epochs[k]) \in Nat /\ cash.bal[Snapshot] \in Nat
  BY <1>1, InvFacts, RemainingNat
<1>3. CashKept'
  BY InvFacts DEF CashKept, Ledger, Total
<1>4. shares' \in [Tokens -> [Investors -> Nat]] /\ halted' \in SUBSET Halts
  BY InvFacts
<1>5. cash'.bal[Snapshot] = cash.bal[Snapshot] - Remaining(epochs[k]) + Remaining(f)
  BY <1>2
<1> QED
  BY <1>3, <1>4, <1>5, EpochStepKeeps

LEMMA SnapshotKeeps ==
  ASSUME IInv, NEW k \in DOMAIN epochs, NEW S \in SUBSET Investors, SnapshotBatch(k, S)
  PROVE  IInv'
<1> DEFINE b == shares[epochs[k].token]
<1>1. EpochKept(epochs[k]) /\ ~ epochs[k].finalized /\ b \in [Investors -> Nat]
  BY InvFacts DEF SnapshotBatch, Epoch
<1>2. Put(k, Captured(epochs[k], S, b)) /\ UNCHANGED <<shares, cash, halted>>
  BY DEF SnapshotBatch
<1> HIDE DEF b
<1>3. EpochKept(Captured(epochs[k], S, b)) /\ Remaining(Captured(epochs[k], S, b)) = Remaining(epochs[k])
  BY <1>1, CapturedKept
<1> QED
  BY <1>2, <1>3, QuietKeeps

LEMMA FinalizeKeeps ==
  ASSUME IInv, NEW k \in DOMAIN epochs, FinalizeSnapshot(k)
  PROVE  IInv'
<1> DEFINE e == epochs[k]
           f == [e EXCEPT !.finalized = TRUE, !.expired = e.expired]
<1>1. EpochKept(e) /\ e \in Epoch
  BY InvFacts
<1>2. e.expired \in BOOLEAN /\ f = [e EXCEPT !.finalized = TRUE]
  BY <1>1 DEF Epoch
<1>3. EpochKept(f) /\ Remaining(f) = Remaining(e)
  BY <1>1, <1>2, FlagsKept
<1>4. Put(k, f) /\ UNCHANGED <<shares, cash, halted>>
  BY <1>2 DEF FinalizeSnapshot
<1> QED
  BY <1>3, <1>4, QuietKeeps

LEMMA ExpireKeeps ==
  ASSUME IInv, NEW k \in DOMAIN epochs, Expire(k)
  PROVE  IInv'
<1> DEFINE e == epochs[k]
           f == [e EXCEPT !.finalized = e.finalized, !.expired = TRUE]
<1>1. EpochKept(e) /\ e \in Epoch
  BY InvFacts
<1>2. e.finalized \in BOOLEAN /\ f = [e EXCEPT !.expired = TRUE] /\ (e.funded => e.finalized)
  BY <1>1 DEF Epoch, EpochKept
<1>3. EpochKept(f) /\ Remaining(f) = Remaining(e)
  BY <1>1, <1>2, FlagsKept
<1>4. Put(k, f) /\ UNCHANGED <<shares, cash, halted>>
  BY <1>2 DEF Expire
<1> QED
  BY <1>3, <1>4, QuietKeeps

\* A funding that is held and honest adds to the float what the epoch records.
LEMMA FundKeeps ==
  ASSUME Prudent, IInv, NEW k \in DOMAIN epochs, NEW yield \in Nat, NEW rate \in Nat, FundEpoch(k, yield, rate)
  PROVE  IInv'
<1> DEFINE amount == Narrow(yield, CashMax)
           e == epochs[k]
           f == Funded(e, amount, amount, rate)
<1>1. EpochKept(e) /\ e.finalized /\ ~ e.funded
  BY InvFacts DEF FundEpoch
<1>2. amount \in Nat /\ amount <= CashMax
  BY NarrowBelow
<1>3. amount <= cash.bal[Issuer] /\ e.supply * rate <= amount * RateScale
  BY DEF FundEpoch, Affordable, Honest, Prudent
<1>4. Transferred(cash, Issuer, amount) = amount
  BY <1>3 DEF Transferred, SilentFail
<1>5. cash' = Move(cash, Issuer, Snapshot, amount) /\ Put(k, f) /\ UNCHANGED <<shares, halted>>
  BY <1>4 DEF FundEpoch
<1> HIDE DEF amount
<1>6. EpochKept(f) /\ Remaining(e) = 0 /\ Remaining(f) = amount
  BY <1>1, <1>2, <1>3, FundedKept
<1>7. CashKept' /\ cash'.bal[Snapshot] = cash.bal[Snapshot] + amount
  BY <1>2, <1>3, <1>5, InvFacts, AccountsFinite, MoveKeeps
<1>8. cash'.bal[Snapshot] = cash.bal[Snapshot] - Remaining(e) + Remaining(f)
  BY <1>2, <1>6, <1>7, InvFacts
<1>9. shares' \in [Tokens -> [Investors -> Nat]] /\ halted' \in SUBSET Halts
  BY <1>5, InvFacts
<1> HIDE DEF f, e
<1> QED
  BY <1>5, <1>6, <1>7, <1>8, <1>9, EpochStepKeeps DEF e

\* What an epoch retains is within the float.
LEMMA RemainingInFloat ==
  ASSUME IInv, NEW k \in DOMAIN epochs
  PROVE  Remaining(epochs[k]) \in Nat /\ Remaining(epochs[k]) <= cash.bal[Snapshot]
<1>1. AllKept(epochs) /\ EpochKept(epochs[k]) /\ AllRemaining(epochs) <= cash.bal[Snapshot]
  BY InvFacts DEF IInv
<1>2. /\ Remaining(epochs[k]) \in Nat /\ AllRemaining(epochs) \in Nat
      /\ Remaining(epochs[k]) <= AllRemaining(epochs)
  BY <1>1, PutKeeps
<1>3. cash.bal[Snapshot] \in Nat
  BY InvFacts
<1> QED
  BY <1>1, <1>2, <1>3

LEMMA SweepKeeps ==
  ASSUME IInv, NEW k \in DOMAIN epochs, SweepExpired(k)
  PROVE  IInv'
<1> DEFINE e == epochs[k]
           f == Swept(e)
<1>1. EpochKept(e) /\ e.funded /\ ~ e.swept
  BY InvFacts DEF SweepExpired
<1>2. Remaining(e) = e.remaining
  BY <1>1 DEF Remaining, Open
<1>3. Remaining(e) \in Nat /\ Remaining(e) <= cash.bal[Snapshot]
  BY RemainingInFloat
<1>4. Transferred(cash, Snapshot, e.remaining) = Remaining(e)
  BY <1>2, <1>3 DEF Transferred, SilentFail
<1>5. cash' = Move(cash, Snapshot, Issuer, Remaining(e)) /\ Put(k, f) /\ UNCHANGED <<shares, halted>>
  BY <1>4 DEF SweepExpired
<1>6. EpochKept(f) /\ Remaining(f) = 0
  BY <1>1, SweptKept
<1>7. CashKept' /\ cash'.bal[Snapshot] = cash.bal[Snapshot] - Remaining(e)
  <2> HIDE DEF e
  <2> QED
    BY <1>3, <1>5, InvFacts, AccountsFinite, MoveKeeps
<1>8. cash'.bal[Snapshot] = cash.bal[Snapshot] - Remaining(e) + Remaining(f)
  BY <1>3, <1>6, <1>7, InvFacts
<1>9. shares' \in [Tokens -> [Investors -> Nat]] /\ halted' \in SUBSET Halts
  BY <1>5, InvFacts
<1> HIDE DEF f, e
<1> QED
  BY <1>5, <1>6, <1>7, <1>8, <1>9, EpochStepKeeps DEF e

LEMMA ClaimKeeps ==
  ASSUME IInv, NEW k \in DOMAIN epochs, NEW i \in Investors, ClaimYield(k, i)
  PROVE  IInv'
<1> DEFINE e == epochs[k]
           f == Claimed(e, i)
           x == Share(e, i)
<1>1. EpochKept(e) /\ Open(e) /\ i \in e.captured /\ i \notin e.claimed
  BY InvFacts DEF ClaimYield, Open
<1>2. /\ x \in Nat /\ x <= Remaining(e)
      /\ EpochKept(f) /\ Remaining(f) = Remaining(e) - x
  BY <1>1, ClaimedKept
<1>3. Remaining(e) \in Nat /\ Remaining(e) <= cash.bal[Snapshot]
  BY RemainingInFloat
<1>4. cash' = PayOut(cash, i, x) /\ Put(k, f) /\ UNCHANGED <<shares, halted>>
  BY DEF ClaimYield
<1> HIDE DEF e, f, x
<1>5. x <= cash.bal[Snapshot]
  BY <1>2, <1>3, InvFacts
<1>6. cash' = Move(cash, Snapshot, i, x)
  BY <1>2, <1>4, <1>5, InvFacts, PayOutMoves
<1>7. CashKept' /\ cash'.bal[Snapshot] = cash.bal[Snapshot] - x
  <2>1. i \in Accounts /\ i # Snapshot
    BY AccountsFinite
  <2> QED
    BY <1>2, <1>5, <1>6, <2>1, InvFacts, AccountsFinite, MoveKeeps
<1>8. cash'.bal[Snapshot] = cash.bal[Snapshot] - Remaining(e) + Remaining(f)
  BY <1>2, <1>3, <1>7, InvFacts
<1>9. shares' \in [Tokens -> [Investors -> Nat]] /\ halted' \in SUBSET Halts
  BY <1>4, InvFacts
<1> QED
  BY <1>2, <1>4, <1>7, <1>8, <1>9, EpochStepKeeps DEF e

LEMMA MarketKeeps ==
  ASSUME IInv, MarketStep
  PROVE  IInv'
<1>1. ASSUME NEW t \in Tokens, NEW i \in Investors, NEW x \in Holdings, Trade(t, i, x)
      PROVE  IInv'
  <2>1. x \in Nat
    BY PoolAssumption
  <2>2. shares' \in [Tokens -> [Investors -> Nat]] /\ UNCHANGED <<cash, epochs, halted>>
    BY <1>1, <2>1, InvFacts DEF Trade
  <2> QED
    BY <2>2 DEF IInv, TypeOK, CashKept, Ledger, Total, AllKept, AllRemaining, Remaining
<1>2. ASSUME NEW from \in Investors \cup {Issuer}, NEW to \in Accounts, NEW x \in Amounts,
             CashTransfer(from, to, x)
      PROVE  IInv'
  <2> DEFINE moved == Transferred(cash, from, x)
  <2>1. from \in Accounts /\ from # Snapshot /\ x \in Nat /\ cash.bal[from] \in Nat
    BY AccountsFinite, PoolAssumption, InvFacts
  <2>2. moved \in Nat /\ moved <= cash.bal[from]
    BY <2>1, Bounds DEF Transferred
  <2>3. cash' = Move(cash, from, to, moved) /\ UNCHANGED <<shares, epochs, halted>>
    BY <1>2 DEF CashTransfer
  <2> HIDE DEF moved
  <2>4. /\ CashKept'
        /\ to # Snapshot => cash'.bal[Snapshot] = cash.bal[Snapshot]
        /\ to = Snapshot => cash'.bal[Snapshot] = cash.bal[Snapshot] + moved
    BY <2>1, <2>2, <2>3, InvFacts, MoveKeeps
  <2>5. cash'.bal[Snapshot] >= cash.bal[Snapshot] /\ cash'.bal[Snapshot] \in Nat
    BY <2>2, <2>4, InvFacts
  <2>6. AllKept(epochs') /\ AllRemaining(epochs') = AllRemaining(epochs)
    BY <2>3 DEF IInv, AllKept, AllRemaining
  <2>7. AllRemaining(epochs) \in Int
    <3> DEFINE r == [k \in DOMAIN epochs |-> Remaining(epochs[k])]
    <3>1. IsFiniteSet(DOMAIN epochs)
      BY InvFacts, EpochsFinite DEF AllKept
    <3>2. \A k \in DOMAIN epochs : r[k] \in Nat
      BY InvFacts, RemainingNat
    <3>3. AllRemaining(epochs) = SumFunctionOnSet(r, DOMAIN epochs)
      BY DEF AllRemaining
    <3> HIDE DEF r
    <3> QED
      BY <3>1, <3>2, <3>3, SumInt DEF Summable
  <2>8. AllRemaining(epochs') <= cash'.bal[Snapshot]
    BY <2>5, <2>6, <2>7, InvFacts DEF IInv
  <2>9. TypeOK'
    BY <2>3, <2>4, InvFacts DEF TypeOK, CashKept, Ledger
  <2> QED
    BY <2>4, <2>6, <2>8, <2>9 DEF IInv
<1>3. ASSUME NEW s \in Halts, Switch(s)
      PROVE  IInv'
  <2>1. halted' \in SUBSET Halts /\ UNCHANGED <<shares, cash, epochs>>
    BY <1>3, InvFacts DEF Switch
  <2> QED
    BY <2>1 DEF IInv, TypeOK, CashKept, Ledger, Total, AllKept, AllRemaining, Remaining
<1> QED
  BY <1>1, <1>2, <1>3 DEF MarketStep

LEMMA StepKeeps ==
  ASSUME Prudent
  PROVE  IInv /\ [Next]_vars => IInv'
<1>1. SUFFICES ASSUME IInv, [Next]_vars PROVE IInv'
  OBVIOUS
<1>2. ASSUME NEW t \in Tokens, OpenEpoch(t) PROVE IInv'
  BY <1>1, <1>2, OpenKeeps
<1>3. ASSUME NEW k \in DOMAIN epochs, EpochStep(k) PROVE IInv'
  <2>1. ASSUME NEW S \in SUBSET Investors, SnapshotBatch(k, S) PROVE IInv'
    BY <1>1, <2>1, SnapshotKeeps
  <2>2. CASE FinalizeSnapshot(k)
    BY <1>1, <2>2, FinalizeKeeps
  <2>3. ASSUME NEW yield \in Amounts, NEW rate \in Rates, FundEpoch(k, yield, rate) PROVE IInv'
    <3>1. yield \in Nat /\ rate \in Nat
      BY PoolAssumption
    <3> QED
      BY <1>1, <2>3, <3>1, FundKeeps
  <2>4. CASE SweepExpired(k)
    BY <1>1, <2>4, SweepKeeps
  <2>5. ASSUME NEW i \in Investors, ClaimYield(k, i) PROVE IInv'
    BY <1>1, <2>5, ClaimKeeps
  <2>6. CASE Expire(k)
    BY <1>1, <2>6, ExpireKeeps
  <2> QED
    BY <1>3, <2>1, <2>2, <2>3, <2>4, <2>5, <2>6 DEF EpochStep
<1>4. CASE MarketStep
  BY <1>1, <1>4, MarketKeeps
<1>5. CASE UNCHANGED vars
  BY <1>1, <1>5 DEF vars, IInv, TypeOK, CashKept, Ledger, Total, AllKept, AllRemaining, Remaining
<1> QED
  BY <1>1, <1>2, <1>3, <1>4, <1>5 DEF Next

LEMMA Invariant ==
  ASSUME Prudent
  PROVE  Spec => []IInv
<1>1. Init => IInv
  BY InitOK
<1>2. IInv /\ [Next]_vars => IInv'
  BY StepKeeps
<1> QED
  BY <1>1, <1>2, PTL DEF Spec

-----------------------------------------------------------------------------
(* What the invariant says *)

LEMMA WithinPull == IInv => ClaimsWithinPull
<1>1. ASSUME NEW e, EpochKept(e) PROVE Paid(e) <= e.pulled
  <2>1. e \in Epoch /\ e.claimed \subseteq e.captured
    BY <1>1 DEF EpochKept
  <2>2. Paid(e) \in Nat /\ Owed(e) \in Nat /\ e.pulled \in Nat
    BY <2>1, PaidOwedNat DEF Epoch
  <2>3. CASE e.funded
    <3>1. e.pulled = e.pool /\ Paid(e) + Owed(e) <= e.pool
      BY <1>1, <2>3 DEF EpochKept
    <3> QED
      BY <2>2, <3>1
  <2>4. CASE ~ e.funded
    <3>1. e.claimed = {}
      BY <1>1, <2>4 DEF EpochKept
    <3>2. Paid(e) = 0
      BY <3>1, SumEmpty DEF Paid
    <3> QED
      BY <2>2, <3>2
  <2> QED
    BY <2>3, <2>4
<1> QED
  BY <1>1, InvFacts DEF ClaimsWithinPull

LEMMA Covered == IInv => YieldCovered
<1>1. SUFFICES ASSUME IInv PROVE YieldCovered
  OBVIOUS
<1> DEFINE owed == [k \in DOMAIN epochs |-> IF Open(epochs[k]) THEN Owed(epochs[k]) ELSE 0]
           kept == [k \in DOMAIN epochs |-> Remaining(epochs[k])]
<1>2. AllKept(epochs) /\ CashKept /\ AllRemaining(epochs) <= cash.bal[Snapshot] /\ cash.bal[Snapshot] \in Nat
  BY <1>1, InvFacts DEF IInv
<1>3. IsFiniteSet(DOMAIN epochs)
  BY <1>2, EpochsFinite DEF AllKept
<1>4. \A k \in DOMAIN epochs : owed[k] \in Nat /\ kept[k] \in Nat /\ 1 * owed[k] <= 1 * kept[k]
  <2>1. SUFFICES ASSUME NEW e, EpochKept(e)
                 PROVE  LET o == IF Open(e) THEN Owed(e) ELSE 0
                        IN  o \in Nat /\ Remaining(e) \in Nat /\ 1 * o <= 1 * Remaining(e)
    BY <1>1, InvFacts
  <2>2. Owed(e) \in Nat
    BY <2>1, PaidOwedNat DEF EpochKept
  <2>3. Remaining(e) \in Nat
    BY <2>1, RemainingNat
  <2>4. Open(e) => Owed(e) <= Remaining(e)
    BY <2>1 DEF EpochKept, Bounded, Remaining
  <2> QED
    BY <2>2, <2>3, <2>4 DEF Remaining
<1>5. AllOwed = SumFunctionOnSet(owed, DOMAIN epochs) /\ AllRemaining(epochs) = SumFunctionOnSet(kept, DOMAIN epochs)
  BY DEF AllOwed, AllRemaining
<1> HIDE DEF owed, kept
<1>6. 1 * SumFunctionOnSet(owed, DOMAIN epochs) <= 1 * SumFunctionOnSet(kept, DOMAIN epochs)
  BY <1>3, <1>4, SumScaled
<1>7. SumFunctionOnSet(owed, DOMAIN epochs) \in Nat /\ SumFunctionOnSet(kept, DOMAIN epochs) \in Nat
  BY <1>3, <1>4, SumNat
<1>8. AllOwed <= cash.bal[Snapshot]
  BY <1>2, <1>5, <1>6, <1>7
<1>9. SumFunctionOnSet(cash.bal, Accounts) = cash.supply
  BY <1>2 DEF CashKept, Total
<1> QED
  BY <1>8, <1>9 DEF YieldCovered

-----------------------------------------------------------------------------
(* Theorems *)

\* Every state of the pool has its type: an amount, a remainder or a balance
\* that trustedPayout computes is never anything but a natural number.
THEOREM PoolTyped ==
  ASSUME Prudent
  PROVE  Spec => []TypeOK
<1>1. IInv => TypeOK
  BY DEF IInv
<1> QED
  BY <1>1, Invariant, PTL

\* What the holders of an epoch claim stays within what its own funding pulled
\* (YieldSnapshot.sol:57), however the pages of the snapshot and the trades
\* between them fall, for any holders, rates and widths.
THEOREM PoolClaimsWithinPull ==
  ASSUME Prudent
  PROVE  Spec => []ClaimsWithinPull
BY Invariant, WithinPull, PTL

\* The one float of all epochs covers every share that can still be claimed of
\* any of them, and paying them out makes and loses no mhUSDC
\* (MuHavenStable.sol:823): the unchecked subtraction never wraps.
THEOREM PoolCovered ==
  ASSUME Prudent
  PROVE  Spec => []YieldCovered
BY Invariant, Covered, PTL
=============================================================================
