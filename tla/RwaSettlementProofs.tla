------------------------ MODULE RwaSettlementProofs -------------------------
(***************************************************************************)
(* Proofs about RwaSettlement for every set of investors, every width of   *)
(* the cash ledger and every length of a page of settlements.              *)
(***************************************************************************)
EXTENDS RwaSettlement, ConfidentialLedgerProofs, SequenceTheorems

LEMMA AccountsFinite == IsFiniteSet(ShareAccounts) /\ IsFiniteSet(CashAccounts)
<1>1. IsFiniteSet(Investors \cup {Queue})
  BY AccountsAssumption, FS_AddElement
<1>2. IsFiniteSet(Investors \cup {Treasury})
  BY AccountsAssumption, FS_AddElement
<1>3. IsFiniteSet((Investors \cup {Treasury}) \cup {Issuer})
  BY <1>2, FS_AddElement
<1>4. CashAccounts = (Investors \cup {Treasury}) \cup {Issuer}
  BY DEF CashAccounts
<1> QED
  BY <1>1, <1>3, <1>4 DEF ShareAccounts

-----------------------------------------------------------------------------
(* The shares locked by the open requests.                                 *)

\* The share of request r in LockedBy(_, S).
LockedPart(r, S) == IF r.status = "open" /\ r.investor \in S THEN r.encShares ELSE 0

LEMMA LockedByParts ==
  ASSUME NEW reqs \in Seq(Request), NEW S
  PROVE  /\ LockedBy(reqs, S) = SumFunctionOnSet([id \in DOMAIN reqs |-> LockedPart(reqs[id], S)], DOMAIN reqs)
         /\ IsFiniteSet(DOMAIN reqs)
         /\ \A id \in DOMAIN reqs : LockedPart(reqs[id], S) \in Nat
<1>1. LockedBy(reqs, S) = SumFunctionOnSet([id \in DOMAIN reqs |-> LockedPart(reqs[id], S)], DOMAIN reqs)
  BY DEF LockedBy, LockedPart
<1>2. DOMAIN reqs = 1 .. Len(reqs) /\ Len(reqs) \in Nat
  BY LenProperties
<1>3. IsFiniteSet(DOMAIN reqs)
  BY <1>2, FS_Interval
<1>4. \A id \in DOMAIN reqs : reqs[id] \in Request
  BY ElementOfSeq, <1>2
<1>5. \A id \in DOMAIN reqs : LockedPart(reqs[id], S) \in Nat
  BY <1>4 DEF LockedPart, Request
<1> QED
  BY <1>1, <1>3, <1>5

\* What is locked is a natural number, and no open request exceeds it.
LEMMA LockedNat ==
  ASSUME NEW reqs \in Seq(Request), NEW S
  PROVE  /\ LockedBy(reqs, S) \in Nat
         /\ \A id \in DOMAIN reqs : LockedPart(reqs[id], S) <= LockedBy(reqs, S)
<1> DEFINE p == [id \in DOMAIN reqs |-> LockedPart(reqs[id], S)]
<1>1. /\ LockedBy(reqs, S) = SumFunctionOnSet(p, DOMAIN reqs)
      /\ IsFiniteSet(DOMAIN reqs)
      /\ \A id \in DOMAIN reqs : p[id] \in Nat
  BY LockedByParts
<1>2. \A id \in DOMAIN reqs : p[id] = LockedPart(reqs[id], S)
  OBVIOUS
<1> HIDE DEF p
<1> QED
  BY <1>1, <1>2, SumNat

\* A new request adds its part.
LEMMA LockedAppend ==
  ASSUME NEW reqs \in Seq(Request), NEW r \in Request, NEW S
  PROVE  LockedBy(Append(reqs, r), S) = LockedBy(reqs, S) + LockedPart(r, S)
<1> DEFINE n == Len(reqs) + 1
           more == Append(reqs, r)
           p == [id \in DOMAIN reqs |-> LockedPart(reqs[id], S)]
           q == [id \in DOMAIN more |-> LockedPart(more[id], S)]
<1>1. /\ more \in Seq(Request)
      /\ Len(reqs) \in Nat
      /\ DOMAIN reqs = 1 .. Len(reqs)
      /\ DOMAIN more = DOMAIN reqs \cup {n}
      /\ n \notin DOMAIN reqs
      /\ \A id \in DOMAIN reqs : more[id] = reqs[id]
      /\ more[n] = r
  BY AppendProperties, LenProperties
<1>2. /\ LockedBy(reqs, S) = SumFunctionOnSet(p, DOMAIN reqs)
      /\ IsFiniteSet(DOMAIN reqs)
      /\ \A id \in DOMAIN reqs : LockedPart(reqs[id], S) \in Nat
  BY LockedByParts
<1>3. /\ LockedBy(more, S) = SumFunctionOnSet(q, DOMAIN more)
      /\ \A id \in DOMAIN more : LockedPart(more[id], S) \in Nat
  <2> HIDE DEF more
  <2> QED
    BY <1>1, LockedByParts
<1>4. Summable(p, DOMAIN reqs) /\ AgreeOn(p, q, DOMAIN reqs)
  BY <1>1, <1>2 DEF Summable, AgreeOn
<1>5. Summable(q, DOMAIN reqs \cup {n})
  <2>1. IsFiniteSet(DOMAIN reqs \cup {n})
    BY <1>2, FS_AddElement
  <2> QED
    BY <1>1, <1>3, <2>1 DEF Summable
<1>6. q[n] = LockedPart(r, S)
  BY <1>1
<1> HIDE DEF p, q, n, more
<1>7. SumFunctionOnSet(q, DOMAIN reqs \cup {n}) = SumFunctionOnSet(q, DOMAIN reqs) + q[n]
  BY <1>1, <1>2, <1>5, SumAdd
<1>8. SumFunctionOnSet(p, DOMAIN reqs) = SumFunctionOnSet(q, DOMAIN reqs)
  BY <1>4, SumEqual
<1>9. LockedBy(more, S) = LockedBy(reqs, S) + LockedPart(r, S)
  BY <1>1, <1>2, <1>3, <1>6, <1>7, <1>8
<1> QED
  BY <1>9 DEF more

\* A request that becomes terminal takes its part away.
LEMMA LockedClose ==
  ASSUME NEW reqs \in Seq(Request), NEW id \in DOMAIN reqs, NEW st \in Statuses \ {"open"}, NEW S
  PROVE  /\ [reqs EXCEPT ![id].status = st] \in Seq(Request)
         /\ DOMAIN [reqs EXCEPT ![id].status = st] = DOMAIN reqs
         /\ LockedBy([reqs EXCEPT ![id].status = st], S) = LockedBy(reqs, S) - LockedPart(reqs[id], S)
<1> DEFINE less == [reqs EXCEPT ![id].status = st]
           p == [k \in DOMAIN reqs |-> LockedPart(reqs[k], S)]
           q == [k \in DOMAIN less |-> LockedPart(less[k], S)]
<1>1. Len(reqs) \in Nat /\ DOMAIN reqs = 1 .. Len(reqs) /\ \A k \in DOMAIN reqs : reqs[k] \in Request
  BY LenProperties, ElementOfSeq
<1>2. /\ DOMAIN less = DOMAIN reqs
      /\ less[id] = [reqs[id] EXCEPT !.status = st]
      /\ \A k \in DOMAIN reqs \ {id} : less[k] = reqs[k]
  OBVIOUS
<1>3. less[id] \in Request /\ less[id].status = st
  BY <1>1, <1>2 DEF Request
<1>4. less \in Seq(Request)
  <2>1. less = [k \in 1 .. Len(reqs) |-> less[k]]
    BY <1>1, <1>2
  <2>2. \A k \in 1 .. Len(reqs) : less[k] \in Request
    BY <1>1, <1>2, <1>3
  <2> HIDE DEF less
  <2> QED
    BY <1>1, <2>1, <2>2, IsASeq
<1>5. /\ LockedBy(reqs, S) = SumFunctionOnSet(p, DOMAIN reqs)
      /\ IsFiniteSet(DOMAIN reqs)
      /\ \A k \in DOMAIN reqs : LockedPart(reqs[k], S) \in Nat
  BY LockedByParts
<1>6. LockedBy(less, S) = SumFunctionOnSet(q, DOMAIN less)
  <2> HIDE DEF less
  <2> QED
    BY <1>4, LockedByParts
<1>7. LockedPart(less[id], S) = 0
  BY <1>3 DEF LockedPart
<1>8. q[id] = 0 /\ \A k \in DOMAIN reqs \ {id} : q[k] = p[k]
  BY <1>2, <1>7
<1>9. p[id] = LockedPart(reqs[id], S)
  OBVIOUS
<1>10. Summable(p, DOMAIN reqs) /\ Summable(q, DOMAIN reqs) /\ AgreeOn(p, q, DOMAIN reqs \ {id})
  BY <1>5, <1>7, <1>8 DEF Summable, AgreeOn
<1> HIDE DEF p, q, less
<1>11. SumFunctionOnSet(q, DOMAIN reqs) = SumFunctionOnSet(p, DOMAIN reqs) - p[id] + q[id]
  <2> DEFINE D == DOMAIN reqs
  <2>1. id \in D
    OBVIOUS
  <2>2. Summable(p, D) /\ Summable(q, D) /\ AgreeOn(p, q, D \ {id})
    BY <1>10
  <2> HIDE DEF D
  <2>3. SumFunctionOnSet(q, D) = SumFunctionOnSet(p, D) - p[id] + q[id]
    BY <2>1, <2>2, SumChange
  <2> QED
    BY <2>3 DEF D
<1>12. SumFunctionOnSet(p, DOMAIN reqs) \in Int /\ p[id] \in Int
  BY <1>10, SumInt DEF Summable
<1>13. LockedBy(less, S) = LockedBy(reqs, S) - LockedPart(reqs[id], S)
  BY <1>2, <1>5, <1>6, <1>8, <1>9, <1>11, <1>12
<1> QED
  BY <1>2, <1>4, <1>13 DEF less

-----------------------------------------------------------------------------
(* What each transaction does to the two ledgers.                          *)

\* The share ledger adds up and the queue holds what the open requests lock.
Backed(b, reqs) ==
  /\ b \in Ledger(ShareAccounts)
  /\ reqs \in Seq(Request)
  /\ b.supply = Total(b, ShareAccounts)
  /\ b.bal[Queue] = LockedBy(reqs, Investors)

\* A cash transfer of any amount keeps the cash ledger well formed.
LEMMA CashMove ==
  ASSUME NEW l \in Ledger(CashAccounts), NEW from \in CashAccounts, NEW to \in CashAccounts,
         NEW x \in Nat
  PROVE  Move(l, from, to, Transferred(l, from, x)) \in Ledger(CashAccounts)
<1>1. l.bal[from] \in Nat
  BY DEF Ledger
<1>2. Transferred(l, from, x) \in Nat /\ Transferred(l, from, x) <= l.bal[from]
  BY <1>1, Bounds DEF Transferred
<1> QED
  BY <1>2, AccountsFinite, MoveFacts

LEMMA MintToInvestor ==
  ASSUME NEW b, NEW reqs, Backed(b, reqs), NEW i \in Investors, NEW x \in Nat
  PROVE  Backed(MintInternal(b, i, x), reqs)
<1>1. b \in Ledger(ShareAccounts) /\ i \in ShareAccounts /\ i # Queue /\ Queue \in ShareAccounts
  BY AccountsAssumption DEF Backed, ShareAccounts
<1>2. /\ MintInternal(b, i, x) \in Ledger(ShareAccounts)
      /\ MintInternal(b, i, x).supply = b.supply + x
      /\ MintInternal(b, i, x).bal = [b.bal EXCEPT ![i] = b.bal[i] + x]
      /\ Total(MintInternal(b, i, x), ShareAccounts) = Total(b, ShareAccounts) + x
  BY <1>1, AccountsFinite, MintFacts
<1>3. MintInternal(b, i, x).bal[Queue] = b.bal[Queue]
  BY <1>1, <1>2 DEF Ledger
<1> QED
  BY <1>2, <1>3 DEF Backed

LEMMA BurnFromInvestor ==
  ASSUME NEW b, NEW reqs, Backed(b, reqs), NEW i \in Investors, NEW x \in Nat, x <= b.bal[i]
  PROVE  Backed(BurnInternal(b, i, x), reqs)
<1>1. b \in Ledger(ShareAccounts) /\ i \in ShareAccounts /\ i # Queue /\ Queue \in ShareAccounts
  BY AccountsAssumption DEF Backed, ShareAccounts
<1>2. b.bal[i] <= b.supply /\ b.bal[i] \in Nat /\ b.supply \in Nat
  <2>1. b.bal[i] <= b.supply
    BY <1>1, AccountsFinite, BalanceBelowSupply DEF Backed
  <2> QED
    BY <1>1, <2>1 DEF Ledger
<1>3. x <= b.supply
  BY <1>2
<1>4. /\ BurnInternal(b, i, x) \in Ledger(ShareAccounts)
      /\ BurnInternal(b, i, x).supply = b.supply - x
      /\ BurnInternal(b, i, x).bal = [b.bal EXCEPT ![i] = b.bal[i] - x]
      /\ Total(BurnInternal(b, i, x), ShareAccounts) = Total(b, ShareAccounts) - x
  BY <1>1, <1>3, AccountsFinite, BurnFacts
<1>5. BurnInternal(b, i, x).bal[Queue] = b.bal[Queue]
  BY <1>1, <1>4 DEF Ledger
<1> QED
  BY <1>4, <1>5 DEF Backed

LEMMA MoveBetweenInvestors ==
  ASSUME NEW b, NEW reqs, Backed(b, reqs), NEW from \in Investors, NEW to \in Investors,
         NEW x \in Nat
  PROVE  Backed(Move(b, from, to, SilentFail(x, b.bal[from])), reqs)
<1> DEFINE y == SilentFail(x, b.bal[from])
           c == Move(b, from, to, y)
<1>1. /\ b \in Ledger(ShareAccounts)
      /\ from \in ShareAccounts /\ to \in ShareAccounts
      /\ Queue \in ShareAccounts \ {from, to}
  BY AccountsAssumption DEF Backed, ShareAccounts
<1>2. b.bal[from] \in Nat
  BY <1>1 DEF Ledger
<1>3. y \in Nat /\ y <= b.bal[from]
  BY <1>2, Bounds
<1> HIDE DEF y
<1>4. /\ c \in Ledger(ShareAccounts)
      /\ c.supply = b.supply
      /\ Total(c, ShareAccounts) = Total(b, ShareAccounts)
      /\ c.bal[Queue] = b.bal[Queue]
  BY <1>1, <1>3, AccountsFinite, MoveFacts
<1> QED
  BY <1>4 DEF Backed, y

\* Locking x shares and recording x keep the queue backed.
LEMMA LockShares ==
  ASSUME NEW b, NEW reqs, Backed(b, reqs), NEW i \in Investors,
         NEW x \in Nat, x <= b.bal[i],
         NEW r \in Request, r.encShares = x, r.investor = i, r.status = "open"
  PROVE  Backed(Move(b, i, Queue, x), Append(reqs, r))
<1> DEFINE c == Move(b, i, Queue, x)
<1>1. b \in Ledger(ShareAccounts) /\ i \in ShareAccounts /\ Queue \in ShareAccounts /\ i # Queue
  BY AccountsAssumption DEF Backed, ShareAccounts
<1>2. /\ c \in Ledger(ShareAccounts)
      /\ c.supply = b.supply
      /\ Total(c, ShareAccounts) = Total(b, ShareAccounts)
      /\ c.bal[Queue] = b.bal[Queue] + x
  BY <1>1, AccountsFinite, MoveFacts
<1>3. reqs \in Seq(Request) /\ Append(reqs, r) \in Seq(Request)
  BY AppendProperties DEF Backed
<1>4. LockedBy(Append(reqs, r), Investors) = LockedBy(reqs, Investors) + x
  <2>1. LockedPart(r, Investors) = x
    BY DEF LockedPart
  <2> QED
    BY <1>3, <2>1, LockedAppend
<1> HIDE DEF c
<1> QED
  BY <1>2, <1>3, <1>4 DEF Backed, c

\* burnFromQueue followed by returnToInvestor, both covered, take their sum out
\* of the queue, give the investor what is returned, and keep the supply equal to
\* the total.
LEMMA QueueLegs ==
  ASSUME NEW b \in Ledger(ShareAccounts), b.supply = Total(b, ShareAccounts),
         NEW i \in Investors, NEW x \in Nat, NEW y \in Nat, x + y <= b.bal[Queue]
  PROVE  LET c == ReturnToInvestor(BurnFromQueue(b, Queue, x), Queue, i, y)
         IN  /\ c \in Ledger(ShareAccounts)
             /\ c.supply = Total(c, ShareAccounts)
             /\ c.bal[Queue] = b.bal[Queue] - (x + y)
             /\ c.supply = b.supply - x
             /\ c.bal[i] = b.bal[i] + y
             /\ \A j \in Investors \ {i} : c.bal[j] = b.bal[j]
<1> DEFINE d == BurnFromQueue(b, Queue, x)
           c == ReturnToInvestor(d, Queue, i, y)
<1>1. Queue \in ShareAccounts /\ i \in ShareAccounts /\ i # Queue
  BY AccountsAssumption DEF ShareAccounts
<1>2. b.bal[Queue] \in Nat /\ b.supply \in Nat /\ b.bal[Queue] <= b.supply
  <2>1. b.bal[Queue] <= b.supply
    BY <1>1, AccountsFinite, BalanceBelowSupply
  <2> QED
    BY <1>1, <2>1 DEF Ledger
<1>3. x <= b.bal[Queue] /\ x <= b.supply
  BY <1>2
<1>4. d = BurnInternal(b, Queue, x)
  BY <1>2, <1>3, Bounds DEF BurnFromQueue
<1>5. /\ d \in Ledger(ShareAccounts)
      /\ d.supply = b.supply - x
      /\ d.bal = [b.bal EXCEPT ![Queue] = b.bal[Queue] - x]
      /\ Total(d, ShareAccounts) = Total(b, ShareAccounts) - x
  <2>1. /\ BurnInternal(b, Queue, x) \in Ledger(ShareAccounts)
        /\ BurnInternal(b, Queue, x).supply = b.supply - x
        /\ BurnInternal(b, Queue, x).bal = [b.bal EXCEPT ![Queue] = b.bal[Queue] - x]
        /\ Total(BurnInternal(b, Queue, x), ShareAccounts) = Total(b, ShareAccounts) - x
    BY <1>1, <1>3, AccountsFinite, BurnFacts
  <2> QED
    BY <1>4, <2>1
<1> HIDE DEF d
<1>6. d.bal[Queue] = b.bal[Queue] - x /\ d.supply = Total(d, ShareAccounts)
  BY <1>1, <1>5 DEF Ledger
<1>7. d.bal[Queue] \in Nat /\ y <= d.bal[Queue]
  BY <1>2, <1>6
<1>8. c = Move(d, Queue, i, y)
  <2>1. SilentFail(y, d.bal[Queue]) = y
    BY <1>7 DEF SilentFail
  <2> QED
    BY <2>1 DEF ReturnToInvestor
<1>9. /\ Move(d, Queue, i, y) \in Ledger(ShareAccounts)
      /\ Move(d, Queue, i, y).supply = d.supply
      /\ Total(Move(d, Queue, i, y), ShareAccounts) = Total(d, ShareAccounts)
      /\ Move(d, Queue, i, y).bal[Queue] = d.bal[Queue] - y
      /\ Move(d, Queue, i, y).bal[i] = d.bal[i] + y
      /\ \A j \in ShareAccounts \ {Queue, i} : Move(d, Queue, i, y).bal[j] = d.bal[j]
  <2>1. d \in Ledger(ShareAccounts) /\ y <= d.bal[Queue]
    BY <1>5, <1>7
  <2>2. PICK l \in Ledger(ShareAccounts) : l = d
    BY <2>1
  <2>3. y <= l.bal[Queue]
    BY <2>1, <2>2
  <2>4. /\ Move(l, Queue, i, y) \in Ledger(ShareAccounts)
        /\ Move(l, Queue, i, y).supply = l.supply
        /\ Total(Move(l, Queue, i, y), ShareAccounts) = Total(l, ShareAccounts)
        /\ Move(l, Queue, i, y).bal[Queue] = l.bal[Queue] - y
        /\ Move(l, Queue, i, y).bal[i] = l.bal[i] + y
        /\ \A j \in ShareAccounts \ {Queue, i} : Move(l, Queue, i, y).bal[j] = l.bal[j]
    BY <1>1, <2>3, AccountsFinite, MoveFacts
  <2> QED
    BY <2>2, <2>4
<1> HIDE DEF c
<1>10. /\ c \in Ledger(ShareAccounts)
       /\ c.supply = Total(c, ShareAccounts)
       /\ c.bal[Queue] = b.bal[Queue] - (x + y)
  BY <1>2, <1>6, <1>8, <1>9
<1>11. d.bal[i] = b.bal[i] /\ \A j \in Investors \ {i} : j \in ShareAccounts \ {Queue, i} /\ d.bal[j] = b.bal[j]
  <2>1. \A j \in Investors : j \in ShareAccounts /\ j # Queue
    BY AccountsAssumption DEF ShareAccounts
  <2>2. \A j \in ShareAccounts : j # Queue => d.bal[j] = b.bal[j]
    BY <1>5 DEF Ledger
  <2> QED
    BY <2>1, <2>2
<1>12. /\ c.supply = b.supply - x
       /\ c.bal[i] = b.bal[i] + y
       /\ \A j \in Investors \ {i} : c.bal[j] = b.bal[j]
  BY <1>5, <1>8, <1>9, <1>11
<1> QED
  BY <1>10, <1>12 DEF c, d

\* Closing an open request whose shares leave the queue, burned or returned.
LEMMA CloseRequest ==
  ASSUME NEW b, NEW reqs, Backed(b, reqs), NEW id \in DOMAIN reqs, reqs[id].status = "open",
         NEW st \in Statuses \ {"open"}, NEW x \in Nat, NEW y \in Nat,
         x + y = reqs[id].encShares
  PROVE  /\ Backed(ReturnToInvestor(BurnFromQueue(b, Queue, x), Queue, reqs[id].investor, y),
                   [reqs EXCEPT ![id].status = st])
         /\ DOMAIN [reqs EXCEPT ![id].status = st] = DOMAIN reqs
<1> DEFINE c == ReturnToInvestor(BurnFromQueue(b, Queue, x), Queue, reqs[id].investor, y)
           less == [reqs EXCEPT ![id].status = st]
<1>1. b \in Ledger(ShareAccounts) /\ reqs \in Seq(Request) /\ b.supply = Total(b, ShareAccounts)
  BY DEF Backed
<1>2. reqs[id] \in Request
  BY <1>1, ElementOfSeq, LenProperties
<1>3. LockedPart(reqs[id], Investors) = x + y
  BY <1>2 DEF LockedPart, Request
<1>4. x + y <= b.bal[Queue]
  BY <1>1, <1>3, LockedNat DEF Backed
<1>5. /\ c \in Ledger(ShareAccounts)
      /\ c.supply = Total(c, ShareAccounts)
      /\ c.bal[Queue] = b.bal[Queue] - (x + y)
  <2>1. reqs[id].investor \in Investors
    BY <1>2 DEF Request
  <2> QED
    BY <1>1, <1>4, <2>1, QueueLegs
<1>6. /\ less \in Seq(Request)
      /\ DOMAIN less = DOMAIN reqs
      /\ LockedBy(less, Investors) = LockedBy(reqs, Investors) - (x + y)
  BY <1>1, <1>3, LockedClose
<1> HIDE DEF c, less
<1>7. Backed(c, less)
  BY <1>5, <1>6 DEF Backed
<1> QED
  BY <1>6, <1>7 DEF c, less

-----------------------------------------------------------------------------
(* Delivery versus payment.                                                *)

\* What a cash transfer moves and where, when it is between two accounts.
LEMMA CashMoved ==
  ASSUME NEW l \in Ledger(CashAccounts), NEW from \in CashAccounts, NEW to \in CashAccounts,
         from # to, NEW x \in Nat
  PROVE  LET m == Transferred(l, from, x)
             c == Move(l, from, to, m)
         IN  /\ m \in {0, x} /\ m \in Nat /\ m <= l.bal[from]
             /\ c \in Ledger(CashAccounts)
             /\ c.bal[from] = l.bal[from] - m /\ c.bal[to] = l.bal[to] + m
             /\ \A a \in CashAccounts \ {from, to} : c.bal[a] = l.bal[a]
<1> DEFINE m == Transferred(l, from, x)
<1>1. l.bal[from] \in Nat
  BY DEF Ledger
<1>2. m \in Nat /\ m <= l.bal[from] /\ m \in {0, x}
  <2>1. m \in Nat /\ m <= l.bal[from]
    BY <1>1, Bounds DEF Transferred
  <2>2. m \in {0, x}
    BY DEF Transferred, SilentFail
  <2> QED
    BY <2>1, <2>2
<1> HIDE DEF m
<1>3. /\ Move(l, from, to, m) \in Ledger(CashAccounts)
      /\ \A a \in CashAccounts \ {from, to} : Move(l, from, to, m).bal[a] = l.bal[a]
      /\ Move(l, from, to, m).bal[from] = l.bal[from] - m
      /\ Move(l, from, to, m).bal[to] = l.bal[to] + m
  BY <1>2, AccountsFinite, MoveFacts
<1> QED
  BY <1>2, <1>3 DEF m

LEMMA Times ==
  ASSUME NEW n \in Nat, NEW a \in Int, NEW b \in Int
  PROVE  n * a \in Int /\ n * (a + b) = n * a + n * b /\ n * (a - b) = n * a - n * b /\ a * n = n * a
OBVIOUS

LEMMA TimesBelow ==
  ASSUME NEW n \in Nat, NEW a \in Nat, NEW b \in Nat, a <= b
  PROVE  a * n \in Nat /\ b * n \in Nat /\ a * n <= b * n
<1>1. PICK d \in Nat : b = a + d
  <2>1. b - a \in Nat /\ b = a + (b - a)
    OBVIOUS
  <2> QED
    BY <2>1
<1>2. b * n = a * n + d * n /\ a * n \in Nat /\ d * n \in Nat
  BY <1>1, Times
<1> QED
  BY <1>2

\* Cash paid for d shares at the NAV n keeps what an account is worth.
LEMMA Exchange ==
  ASSUME NEW n \in Nat, NEW cashBefore \in Int, NEW sharesBefore \in Int, NEW d \in Int
  PROVE  (cashBefore + n * d) + n * (sharesBefore - d) = cashBefore + n * sharesBefore
BY Times

-----------------------------------------------------------------------------
(* Pages of settlements.                                                   *)

\* The accounts s are sound, and no request that was terminal in reqs differs.
Reaches(s, reqs) ==
  /\ s \in [book: Ledger(ShareAccounts), cash: Ledger(CashAccounts), requests: Seq(Request),
            tracked: [Investors -> Nat]]
  /\ Backed(s.book, s.requests)
  /\ DOMAIN s.requests = DOMAIN reqs
  /\ \A id \in DOMAIN reqs : reqs[id].status # "open" => s.requests[id] = reqs[id]

LEMMA TrackerTyped ==
  ASSUME NEW t \in [Investors -> Nat], NEW i \in Investors, NEW hint \in Nat
  PROVE  /\ Created(t, i, hint) \in [Investors -> Nat]
         /\ Destroyed(t, i, hint) \in [Investors -> Nat]
<1>1. t[i] \in Nat /\ t[i] + hint \in Nat
  OBVIOUS
<1>2. (IF hint >= t[i] THEN 0 ELSE t[i] - hint) \in Nat
  BY <1>1
<1>3. Created(t, i, hint) \in [Investors -> Nat]
  BY <1>1 DEF Created
<1>4. Destroyed(t, i, hint) \in [Investors -> Nat]
  BY <1>2 DEF Destroyed
<1> QED
  BY <1>3, <1>4

LEMMA NavNat ==
  ASSUME oracle \in [nav: NAVs \cup {0}, fresh: BOOLEAN]
  PROVE  oracle.nav \in Nat /\ CashMax \in Nat
<1>1. oracle.nav \in NAVs \cup {0}
  OBVIOUS
<1>2. (\A n \in NAVs \cup {0} : n \in Nat) /\ CashMax \in Nat
  BY AmountsAssumption
<1> QED
  BY <1>1, <1>2

LEMMA SettleKeeps ==
  ASSUME NEW s, NEW reqs, Reaches(s, reqs), NEW id \in DOMAIN reqs,
         s.requests[id].status = "open",
         oracle \in [nav: NAVs \cup {0}, fresh: BOOLEAN]
  PROVE  Reaches(SettleRequest(s, id), reqs)
<1> DEFINE r == s.requests[id]
           proceeds == Narrow(r.encShares * oracle.nav, CashMax)
           paid == Transferred(s.cash, Treasury, proceeds)
           toBurn == IF paid = proceeds THEN r.encShares ELSE 0
           toReturn == Refunded(paid, proceeds, r.encShares)
           newBook == ReturnToInvestor(BurnFromQueue(s.book, Queue, toBurn), Queue, r.investor, toReturn)
           newCash == Move(s.cash, Treasury, r.investor, paid)
           newReqs == [s.requests EXCEPT ![id].status = "settled"]
           newTracked == Destroyed(s.tracked, r.investor, r.hint)
<1>1. SettleRequest(s, id) = [book |-> newBook, cash |-> newCash, requests |-> newReqs,
                              tracked |-> newTracked]
  BY DEF SettleRequest
<1>2. /\ s.cash \in Ledger(CashAccounts)
      /\ s.requests \in Seq(Request)
      /\ s.tracked \in [Investors -> Nat]
      /\ Backed(s.book, s.requests)
      /\ DOMAIN s.requests = DOMAIN reqs
  BY DEF Reaches
<1>3. r \in Request
  BY <1>2, ElementOfSeq, LenProperties
<1>4. /\ r.investor \in Investors /\ r.investor \in CashAccounts /\ Treasury \in CashAccounts
      /\ r.encShares \in Nat /\ r.hint \in Nat
  BY <1>3 DEF Request, CashAccounts
<1>5. proceeds \in Nat
  <2>1. r.encShares * oracle.nav \in Nat
    BY <1>4, NavNat
  <2> QED
    BY <2>1, NavNat, NarrowFits
<1>6. newCash \in Ledger(CashAccounts)
  <2> HIDE DEF proceeds, r
  <2> QED
    BY <1>2, <1>4, <1>5, CashMove
<1>7. newTracked \in [Investors -> Nat]
  BY <1>2, <1>4, TrackerTyped
<1>8. Backed(newBook, newReqs) /\ DOMAIN newReqs = DOMAIN s.requests
  <2>1. toBurn \in Nat /\ toReturn \in Nat /\ toBurn + toReturn = s.requests[id].encShares
    BY <1>4 DEF Refunded
  <2>2. "settled" \in Statuses \ {"open"}
    BY DEF Statuses
  <2> HIDE DEF toBurn, toReturn, proceeds, paid
  <2>3. PICK b, q : b = s.book /\ q = s.requests
    OBVIOUS
  <2>4. Backed(b, q) /\ id \in DOMAIN q /\ q[id].status = "open" /\ toBurn + toReturn = q[id].encShares
    BY <1>2, <2>1, <2>3
  <2>5. /\ Backed(ReturnToInvestor(BurnFromQueue(b, Queue, toBurn), Queue, q[id].investor, toReturn),
                  [q EXCEPT ![id].status = "settled"])
        /\ DOMAIN [q EXCEPT ![id].status = "settled"] = DOMAIN q
    BY <2>1, <2>2, <2>4, CloseRequest
  <2> QED
    BY <2>3, <2>5
<1>9. \A k \in DOMAIN reqs : reqs[k].status # "open" => newReqs[k] = reqs[k]
  <2> SUFFICES ASSUME NEW k \in DOMAIN reqs, reqs[k].status # "open" PROVE newReqs[k] = reqs[k]
    OBVIOUS
  <2>1. s.requests[k] = reqs[k]
    BY DEF Reaches
  <2>2. k # id
    BY <2>1
  <2> QED
    BY <1>2, <2>1, <2>2
<1> HIDE DEF newBook, newCash, newReqs, newTracked
<1> QED
  BY <1>1, <1>2, <1>6, <1>7, <1>8, <1>9 DEF Reaches, Backed

LEMMA ProcessOneKeeps ==
  ASSUME NEW s, NEW reqs, Reaches(s, reqs), NEW id \in DOMAIN reqs,
         oracle \in [nav: NAVs \cup {0}, fresh: BOOLEAN]
  PROVE  Reaches(ProcessOne(s, id), reqs)
<1>1. CASE s.requests[id].status = "open"
  BY <1>1, SettleKeeps DEF ProcessOne
<1>2. CASE s.requests[id].status # "open"
  BY <1>2 DEF ProcessOne
<1> QED
  BY <1>1, <1>2

\* g lists the accounts after each request of the page ids[from + 1 .. from + n].
Settles(g, ids, from, n) ==
  g = [k \in 0 .. n |-> IF k = 0 THEN Accounts ELSE ProcessOne(g[k - 1], ids[from + k])]

\* Every page has such a list: the recursion of ProcessPage is well defined.
LEMMA PageExists ==
  ASSUME NEW ids, NEW from \in Nat
  PROVE  \A n \in Nat : \E g : Settles(g, ids, from, n)
<1> DEFINE Has(n) == \E g : Settles(g, ids, from, n)
           Bad == {n \in Nat : ~ Has(n)}
<1>1. SUFFICES ASSUME Bad # {} PROVE FALSE
  OBVIOUS
<1>2. PICK m \in Bad : \A k \in Bad : m <= k
  <2>1. Bad \in SUBSET Nat
    OBVIOUS
  <2> HIDE DEF Bad
  <2> QED
    BY <1>1, <2>1, LeastOf
<1>3. m \in Nat /\ ~ Has(m)
  BY <1>2
<1> HIDE DEF Bad
<1>4. CASE m = 0
  <2> DEFINE g == [k \in 0 .. 0 |-> Accounts]
  <2>1. Settles(g, ids, from, 0)
    BY DEF Settles
  <2> QED
    BY <2>1, <1>3, <1>4
<1>5. CASE m # 0
  <2>1. m - 1 \in Nat /\ m - 1 \notin Bad
    BY <1>2, <1>3, <1>5
  <2>2. PICK h : Settles(h, ids, from, m - 1)
    BY <2>1 DEF Bad
  <2> DEFINE g == [k \in 0 .. m |-> IF k = 0 THEN Accounts ELSE ProcessOne(h[k - 1], ids[from + k])]
  <2>3. \A k \in 0 .. m - 1 : g[k] = h[k]
    BY <1>3, <2>1, <2>2 DEF Settles
  <2>4. \A k \in 0 .. m : k # 0 => k - 1 \in 0 .. m - 1
    BY <1>3
  <2>5. g = [k \in 0 .. m |-> IF k = 0 THEN Accounts ELSE ProcessOne(g[k - 1], ids[from + k])]
    <3>1. \A k \in 0 .. m : g[k] = IF k = 0 THEN Accounts ELSE ProcessOne(g[k - 1], ids[from + k])
      BY <2>3, <2>4
    <3>2. g = [k \in 0 .. m |-> g[k]]
      OBVIOUS
    <3> HIDE DEF g
    <3> QED
      BY <3>1, <3>2
  <2>6. Settles(g, ids, from, m)
    <3> HIDE DEF g
    <3> QED
      BY <2>5 DEF Settles
  <2> QED
    BY <2>6, <1>3
<1> QED
  BY <1>4, <1>5

\* A page of settlements keeps the accounts sound.
LEMMA PageKeeps ==
  ASSUME Reaches(Accounts, requests), oracle \in [nav: NAVs \cup {0}, fresh: BOOLEAN],
         NEW ids, NEW from \in Nat, NEW to \in Nat, from <= to,
         \A k \in from + 1 .. to : ids[k] \in DOMAIN requests
  PROVE  Reaches(ProcessPage(ids, from, to), requests)
<1>1. to - from \in Nat
  OBVIOUS
<1> DEFINE n == to - from
           after == CHOOSE g : Settles(g, ids, from, n)
<1>2. ProcessPage(ids, from, to) = after[n]
  BY DEF ProcessPage, Settles
<1>3. Settles(after, ids, from, n)
  BY <1>1, PageExists
<1> HIDE DEF after
<1> DEFINE Bad == {k \in Nat : k <= n /\ ~ Reaches(after[k], requests)}
<1>4. SUFFICES ASSUME Bad # {} PROVE FALSE
  BY <1>1, <1>2
<1>5. PICK m \in Bad : \A k \in Bad : m <= k
  <2>1. Bad \in SUBSET Nat
    OBVIOUS
  <2> HIDE DEF Bad
  <2> QED
    BY <1>4, <2>1, LeastOf
<1>6. m \in 0 .. n /\ ~ Reaches(after[m], requests)
  BY <1>1, <1>5
<1>7. after[m] = IF m = 0 THEN Accounts ELSE ProcessOne(after[m - 1], ids[from + m])
  <2> HIDE DEF n
  <2> QED
    BY <1>3, <1>6 DEF Settles
<1>8. m # 0
  BY <1>6, <1>7
<1>9. m - 1 \in Nat /\ m - 1 <= n /\ m - 1 \notin Bad
  BY <1>1, <1>5, <1>6, <1>8
<1>10. Reaches(after[m - 1], requests)
  BY <1>9
<1>11. ids[from + m] \in DOMAIN requests
  BY <1>6, <1>8
<1>12. Reaches(ProcessOne(after[m - 1], ids[from + m]), requests)
  BY <1>10, <1>11, ProcessOneKeeps
<1> QED
  BY <1>6, <1>7, <1>8, <1>12

-----------------------------------------------------------------------------
(* What a page of settlements leaves everyone worth.                       *)

\* An investor's worth and the float against the shares outstanding, in accounts s.
WorthIn(s, i) == s.cash.bal[i] + oracle.nav * (s.book.bal[i] + LockedBy(s.requests, {i}))
FloatIn(s) == s.cash.bal[Treasury] - oracle.nav * s.book.supply

\* What an open request recorded it locked is within its hint.
HintBound(reqs) ==
  \A id \in DOMAIN reqs : reqs[id].status = "open" => reqs[id].encShares <= reqs[id].hint

\* In the course of a page: accounts s are sound, what is still open is as it was,
\* and nobody is worth more or less, nor the treasury against the shares.
Even(s, reqs, w, f) ==
  /\ Reaches(s, reqs)
  /\ \A id \in DOMAIN reqs : s.requests[id].status = "open" => s.requests[id] = reqs[id]
  /\ \A i \in Investors : WorthIn(s, i) = w[i]
  /\ FloatIn(s) = f

\* Settling one request, paid or not, leaves everybody's worth.
LEMMA SettleEven ==
  ASSUME NEW s, NEW reqs, NEW w, NEW f, Even(s, reqs, w, f), NEW id \in DOMAIN reqs,
         s.requests[id].status = "open",
         oracle \in [nav: NAVs \cup {0}, fresh: BOOLEAN],
         reqs[id].encShares * oracle.nav <= CashMax
  PROVE  Even(SettleRequest(s, id), reqs, w, f)
<1> DEFINE r == s.requests[id]
           proceeds == Narrow(r.encShares * oracle.nav, CashMax)
           paid == Transferred(s.cash, Treasury, proceeds)
           toBurn == IF paid = proceeds THEN r.encShares ELSE 0
           toReturn == Refunded(paid, proceeds, r.encShares)
           newBook == ReturnToInvestor(BurnFromQueue(s.book, Queue, toBurn), Queue, r.investor, toReturn)
           newCash == Move(s.cash, Treasury, r.investor, paid)
           newReqs == [s.requests EXCEPT ![id].status = "settled"]
           t == SettleRequest(s, id)
           n == oracle.nav
           i == r.investor
           x == r.encShares
<1>1. t.book = newBook /\ t.cash = newCash /\ t.requests = newReqs
  BY DEF SettleRequest
<1>2. /\ s.cash \in Ledger(CashAccounts) /\ s.requests \in Seq(Request)
      /\ Backed(s.book, s.requests) /\ DOMAIN s.requests = DOMAIN reqs
      /\ s.book \in Ledger(ShareAccounts) /\ s.book.supply = Total(s.book, ShareAccounts)
      /\ s.book.bal[Queue] = LockedBy(s.requests, Investors)
  BY DEF Even, Reaches, Backed
<1>3. r = reqs[id] /\ r \in Request
  BY <1>2, ElementOfSeq, LenProperties DEF Even
<1>4. i \in Investors /\ x \in Nat /\ n \in Nat /\ CashMax \in Nat
  BY <1>3, NavNat DEF Request
<1>5. i \in CashAccounts /\ Treasury \in CashAccounts /\ i # Treasury
      /\ \A j \in Investors : j \in CashAccounts /\ j # Treasury /\ j \in ShareAccounts
  BY <1>4, AccountsAssumption DEF CashAccounts, ShareAccounts
<1>6. proceeds = n * x /\ proceeds \in Nat
  <2>1. x * n \in Nat /\ x * n <= CashMax /\ x * n = n * x
    BY <1>3, <1>4, Times
  <2>2. Narrow(x * n, CashMax) = x * n
    BY <1>4, <2>1, NarrowFits
  <2> QED
    BY <2>1, <2>2
<1>7. Reaches(t, reqs)
  BY SettleKeeps DEF Even
<1> HIDE DEF proceeds, t
<1>8. /\ paid \in {0, proceeds} /\ paid \in Nat
      /\ newCash.bal[Treasury] = s.cash.bal[Treasury] - paid
      /\ newCash.bal[i] = s.cash.bal[i] + paid
      /\ \A j \in Investors \ {i} : newCash.bal[j] = s.cash.bal[j]
  <2> PICK l \in Ledger(CashAccounts) : l = s.cash
    BY <1>2
  <2> PICK p \in Nat : p = proceeds
    BY <1>6
  <2> PICK k \in CashAccounts : k = i
    BY <1>5
  <2>2. Treasury \in CashAccounts /\ Treasury # k
    BY <1>5
  <2>1. LET m == Transferred(l, Treasury, p)
            c == Move(l, Treasury, k, m)
        IN  /\ m \in {0, p} /\ m \in Nat
            /\ c.bal[Treasury] = l.bal[Treasury] - m /\ c.bal[k] = l.bal[k] + m
            /\ \A a \in CashAccounts \ {Treasury, k} : c.bal[a] = l.bal[a]
    <3> HIDE DEF proceeds, newBook, newReqs, toBurn, toReturn, paid, newCash, n, x, r, i
    <3> QED
      BY <2>2, CashMoved
  <2>3. \A j \in Investors \ {i} : j \in CashAccounts \ {Treasury, k}
    BY <1>5
  <2>4. paid = Transferred(l, Treasury, p) /\ newCash = Move(l, Treasury, k, paid)
    OBVIOUS
  <2> HIDE DEF newCash, paid
  <2> QED
    BY <2>1, <2>3, <2>4
<1>9. toBurn \in Nat /\ toReturn \in Nat /\ toBurn + toReturn = x /\ paid = n * toBurn
  <2>1. CASE paid = proceeds
    BY <1>4, <1>6, <2>1 DEF Refunded
  <2>2. CASE paid # proceeds
    <3>1. paid = 0 /\ toBurn = 0 /\ toReturn = x
      BY <1>8, <2>2 DEF Refunded
    <3> QED
      BY <1>4, <3>1
  <2> QED
    BY <2>1, <2>2
<1>10. x <= s.book.bal[Queue]
  <2>1. LockedPart(s.requests[id], Investors) <= LockedBy(s.requests, Investors)
    BY <1>2, LockedNat
  <2>2. LockedPart(s.requests[id], Investors) = x
    BY <1>4 DEF LockedPart
  <2> QED
    BY <1>2, <2>1, <2>2
<1> HIDE DEF toBurn, toReturn, paid
<1>11. /\ newBook.supply = s.book.supply - toBurn
       /\ newBook.bal[i] = s.book.bal[i] + toReturn
       /\ \A j \in Investors \ {i} : newBook.bal[j] = s.book.bal[j]
  <2> PICK b \in Ledger(ShareAccounts) : b = s.book
    BY <1>2
  <2>1. b.supply = Total(b, ShareAccounts) /\ toBurn + toReturn <= b.bal[Queue]
    BY <1>2, <1>9, <1>10
  <2> HIDE DEF r
  <2>2. LET c == ReturnToInvestor(BurnFromQueue(b, Queue, toBurn), Queue, i, toReturn)
        IN  /\ c.supply = b.supply - toBurn
            /\ c.bal[i] = b.bal[i] + toReturn
            /\ \A j \in Investors \ {i} : c.bal[j] = b.bal[j]
    BY <1>4, <1>9, <2>1, QueueLegs
  <2> QED
    BY <2>2
<1>12. \A S : LockedBy(newReqs, S) = LockedBy(s.requests, S) - LockedPart(s.requests[id], S)
  <2> PICK q \in Seq(Request) : q = s.requests
    BY <1>2
  <2>1. id \in DOMAIN q /\ "settled" \in Statuses \ {"open"}
    BY <1>2 DEF Statuses
  <2> HIDE DEF r
  <2>2. \A S : LockedBy([q EXCEPT ![id].status = "settled"], S) = LockedBy(q, S) - LockedPart(q[id], S)
    BY <2>1, LockedClose
  <2> QED
    BY <2>2
<1>13. /\ s.book.supply \in Nat /\ s.cash.bal[Treasury] \in Nat
       /\ \A j \in Investors : s.cash.bal[j] \in Nat /\ s.book.bal[j] \in Nat /\ LockedBy(s.requests, {j}) \in Nat
  BY <1>2, <1>5, LockedNat DEF Ledger
<1> HIDE DEF newBook, newCash, newReqs
<1>14. FloatIn(t) = f
  <2>1. t.cash.bal[Treasury] = s.cash.bal[Treasury] - n * toBurn /\ t.book.supply = s.book.supply - toBurn
    BY <1>1, <1>8, <1>9, <1>11
  <2>2. n * (s.book.supply - toBurn) = n * s.book.supply - n * toBurn /\ n * toBurn \in Int /\ n * s.book.supply \in Int
    BY <1>4, <1>9, <1>13, Times
  <2>3. FloatIn(t) = t.cash.bal[Treasury] - n * t.book.supply
    BY DEF FloatIn
  <2>4. f = s.cash.bal[Treasury] - n * s.book.supply
    BY DEF Even, FloatIn
  <2> QED
    BY <1>13, <2>1, <2>2, <2>3, <2>4
<1>15. ASSUME NEW j \in Investors PROVE WorthIn(t, j) = w[j]
  <2>1. WorthIn(t, j) = newCash.bal[j] + n * (newBook.bal[j] + LockedBy(newReqs, {j}))
    BY <1>1 DEF WorthIn
  <2>2. w[j] = s.cash.bal[j] + n * (s.book.bal[j] + LockedBy(s.requests, {j}))
    BY DEF Even, WorthIn
  <2>3. CASE j # i
    <3>1. LockedPart(s.requests[id], {j}) = 0
      BY <2>3 DEF LockedPart
    <3>2. LockedBy(newReqs, {j}) = LockedBy(s.requests, {j})
      BY <1>12, <1>13, <3>1
    <3> QED
      BY <1>8, <1>11, <2>1, <2>2, <2>3, <3>2
  <2>4. CASE j = i
    <3>1. LockedPart(s.requests[id], {j}) = x
      BY <2>4 DEF LockedPart
    <3>2. LockedBy(newReqs, {j}) = LockedBy(s.requests, {j}) - x
      BY <1>12, <3>1
    <3>3. newBook.bal[j] + LockedBy(newReqs, {j}) = (s.book.bal[j] + LockedBy(s.requests, {j})) - toBurn
      BY <1>4, <1>9, <1>11, <1>13, <2>4, <3>2
    <3>4. newCash.bal[j] = s.cash.bal[j] + n * toBurn
      BY <1>8, <1>9, <2>4
    <3>5. s.cash.bal[j] \in Int /\ s.book.bal[j] + LockedBy(s.requests, {j}) \in Int /\ toBurn \in Int
      BY <1>9, <1>13
    <3> QED
      BY <1>4, <2>1, <2>2, <3>3, <3>4, <3>5, Exchange
  <2> QED
    BY <2>3, <2>4
<1>16. ASSUME NEW k \in DOMAIN reqs, t.requests[k].status = "open" PROVE t.requests[k] = reqs[k]
  <2>1. k \in DOMAIN s.requests /\ id \in DOMAIN s.requests /\ s.requests \in [DOMAIN s.requests -> Request]
    BY <1>2, LenProperties
  <2>2. k # id
    <3>1. newReqs[id].status = "settled"
      BY <1>3, <2>1 DEF newReqs, Request
    <3> QED
      BY <1>1, <1>16, <3>1
  <2>3. newReqs[k] = s.requests[k]
    BY <2>1, <2>2 DEF newReqs
  <2> QED
    BY <1>1, <1>16, <2>3 DEF Even
<1> QED
  BY <1>7, <1>14, <1>15, <1>16 DEF Even, t

\* So does a whole page, however long, of requests whose hints fit today's NAV.
LEMMA PageEven ==
  ASSUME NEW w, NEW f, Even(Accounts, requests, w, f), oracle \in [nav: NAVs \cup {0}, fresh: BOOLEAN],
         NEW ids, NEW from \in Nat, NEW to \in Nat, from <= to,
         \A k \in from + 1 .. to : /\ ids[k] \in DOMAIN requests
                                   /\ requests[ids[k]].status = "open" =>
                                        requests[ids[k]].encShares * oracle.nav <= CashMax
  PROVE  Even(ProcessPage(ids, from, to), requests, w, f)
<1>1. to - from \in Nat
  OBVIOUS
<1> DEFINE n == to - from
           after == CHOOSE g : Settles(g, ids, from, n)
<1>2. ProcessPage(ids, from, to) = after[n]
  BY DEF ProcessPage, Settles
<1>3. Settles(after, ids, from, n)
  BY <1>1, PageExists
<1> HIDE DEF after
<1> DEFINE Bad == {k \in Nat : k <= n /\ ~ Even(after[k], requests, w, f)}
<1>4. SUFFICES ASSUME Bad # {} PROVE FALSE
  BY <1>1, <1>2
<1>5. PICK m \in Bad : \A k \in Bad : m <= k
  <2>1. Bad \in SUBSET Nat
    OBVIOUS
  <2> HIDE DEF Bad
  <2> QED
    BY <1>4, <2>1, LeastOf
<1>6. m \in 0 .. n /\ ~ Even(after[m], requests, w, f)
  BY <1>1, <1>5
<1>7. after[m] = IF m = 0 THEN Accounts ELSE ProcessOne(after[m - 1], ids[from + m])
  <2> HIDE DEF n
  <2> QED
    BY <1>3, <1>6 DEF Settles
<1>8. m # 0
  BY <1>6, <1>7
<1>9. m - 1 \in Nat /\ m - 1 <= n /\ m - 1 \notin Bad
  BY <1>1, <1>5, <1>6, <1>8
<1> DEFINE s == after[m - 1]
           id == ids[from + m]
<1>10. Even(s, requests, w, f)
  BY <1>9
<1>11. from + m \in from + 1 .. to
  BY <1>6, <1>8
<1>12. id \in DOMAIN requests /\ (requests[id].status = "open" => requests[id].encShares * oracle.nav <= CashMax)
  BY <1>11
<1> HIDE DEF s, id
<1>13. Even(ProcessOne(s, id), requests, w, f)
  <2>1. CASE s.requests[id].status = "open"
    <3>1. requests[id].status = "open"
      BY <1>10, <1>12, <2>1 DEF Even
    <3>2. Even(SettleRequest(s, id), requests, w, f)
      BY <1>10, <1>12, <2>1, <3>1, SettleEven
    <3> QED
      BY <2>1, <3>2 DEF ProcessOne
  <2>2. CASE s.requests[id].status # "open"
    BY <1>10, <2>2 DEF ProcessOne
  <2> QED
    BY <2>1, <2>2
<1> QED
  BY <1>6, <1>7, <1>8, <1>13 DEF s, id

-----------------------------------------------------------------------------
(* The inductive invariant, in the two parts an action disturbs separately. *)

HoldingsOK ==
  /\ Backed(book, requests)
  /\ cash \in Ledger(CashAccounts)
  /\ epochRequests \in [Epochs -> Seq(DOMAIN requests)]
  /\ redeemed \in [Epochs -> Nat]
  /\ tracked \in [Investors -> Nat]

MarketOK ==
  /\ epoch \in Epochs
  /\ oracle \in [nav: NAVs \cup {0}, fresh: BOOLEAN]
  /\ terms \in [cap: Caps, minInvestment: MinInvestments, minFloat: MinFloats]
  /\ verified \in SUBSET Investors
  /\ halted \in SUBSET Halts

IInv == HoldingsOK /\ MarketOK

LEMMA IInvImplies == IInv => TypeOK /\ SharesConserved /\ QueueBacked
BY DEF IInv, HoldingsOK, MarketOK, Backed, Ledger, Total, TypeOK, SharesConserved, QueueBacked

LEMMA InputsTyped ==
  ASSUME NEW i \in Investors, NEW shares \in Amounts, NEW hint \in Hints, MarketOK
  PROVE  /\ shares \in Nat /\ hint \in Nat
         /\ SilentFail(shares, hint) \in Nat
         /\ oracle.nav \in Nat /\ CashMax \in Nat
         /\ \A x \in Nat : x * oracle.nav \in Nat /\ Narrow(x * oracle.nav, CashMax) \in Nat
         /\ i \in CashAccounts /\ Treasury \in CashAccounts /\ i \in ShareAccounts
<1>1. shares \in Nat /\ hint \in Nat
  BY AmountsAssumption
<1>2. oracle.nav \in Nat /\ CashMax \in Nat
  BY NavNat DEF MarketOK
<1>3. \A x \in Nat : x * oracle.nav \in Nat
  BY <1>2
<1>4. \A x \in Nat : Narrow(x * oracle.nav, CashMax) \in Nat
  BY <1>2, <1>3, NarrowFits
<1>5. SilentFail(shares, hint) \in Nat
  BY <1>1, Bounds
<1> QED
  BY <1>1, <1>2, <1>3, <1>4, <1>5 DEF CashAccounts, ShareAccounts

-----------------------------------------------------------------------------
LEMMA InitOK == Init => IInv
<1> SUFFICES ASSUME Init PROVE IInv
  OBVIOUS
<1> DEFINE zero == [a \in ShareAccounts |-> 0]
<1>1. book = [bal |-> zero, opened |-> {}, supply |-> 0] /\ book \in Ledger(ShareAccounts)
  BY DEF Init, Ledger
<1>2. Total(book, ShareAccounts) = 0
  <2>1. \A a \in ShareAccounts : zero[a] = 0
    OBVIOUS
  <2>2. SumFunctionOnSet(zero, ShareAccounts) = 0
    <3> HIDE DEF zero
    <3> QED
      BY <2>1, AccountsFinite, SumZero
  <2> QED
    BY <1>1, <2>2 DEF Total
<1>3. requests = <<>> /\ requests \in Seq(Request) /\ DOMAIN requests = {}
  BY EmptySeq DEF Init
<1>4. LockedBy(requests, Investors) = 0
  BY <1>3, SumEmpty DEF LockedBy
<1>5. book.bal[Queue] = 0
  BY <1>1 DEF ShareAccounts
<1>6. Backed(book, requests)
  BY <1>1, <1>2, <1>3, <1>4, <1>5 DEF Backed
<1>7. cash \in Ledger(CashAccounts)
  <2>1. InitialCash \in [CashAccounts -> Nat]
    BY AmountsAssumption
  <2>2. SumFunctionOnSet(InitialCash, CashAccounts) \in Nat
    BY <2>1, AccountsFinite, SumNat
  <2>3. {a \in CashAccounts : InitialCash[a] > 0} \in SUBSET CashAccounts
    OBVIOUS
  <2> QED
    BY <2>1, <2>2, <2>3 DEF Init, Ledger
<1>8. epochRequests \in [Epochs -> Seq(DOMAIN requests)]
  BY EmptySeq DEF Init
<1>9. redeemed \in [Epochs -> Nat] /\ tracked \in [Investors -> Nat]
  BY DEF Init
<1>10. MarketOK
  <2>1. 0 \in Epochs
    BY BoundsAssumption DEF Epochs
  <2> QED
    BY <2>1 DEF Init, MarketOK, Terms
<1> QED
  BY <1>6, <1>7, <1>8, <1>9, <1>10 DEF IInv, HoldingsOK

-----------------------------------------------------------------------------
(* One lemma per action: it keeps the invariant, and terminal requests.    *)

KeepsTerminal ==
  \A id \in DOMAIN requests : ~ Open(id) => requests'[id] = requests[id]

LEMMA PurchaseKeeps ==
  ASSUME IInv, NEW i \in Investors, NEW shares \in Amounts, NEW hint \in Hints,
         Purchase(i, shares, hint)
  PROVE  IInv' /\ KeepsTerminal
<1> DEFINE bounded == SilentFail(shares, hint)
           cost == Narrow(bounded * oracle.nav, CashMax)
           paid == Transferred(cash, i, cost)
           minted == IF paid = cost THEN bounded ELSE 0
<1>1. /\ cash' = Move(cash, i, Treasury, paid)
      /\ book' = MintInternal(book, i, minted)
      /\ tracked' = Created(tracked, i, hint)
      /\ UNCHANGED <<requests, epochRequests, redeemed, epoch, oracle, terms, verified, halted>>
  BY DEF Purchase, market
<1>2. HoldingsOK /\ MarketOK
  BY DEF IInv
<1>3. /\ bounded \in Nat /\ cost \in Nat /\ hint \in Nat
      /\ i \in CashAccounts /\ Treasury \in CashAccounts
  BY <1>2, InputsTyped
<1>4. minted \in Nat
  BY <1>3
<1> HIDE DEF bounded, cost, minted
<1>5. cash' \in Ledger(CashAccounts)
  BY <1>1, <1>2, <1>3, CashMove DEF HoldingsOK
<1>6. Backed(book', requests)
  BY <1>1, <1>2, <1>4, MintToInvestor DEF HoldingsOK
<1>7. tracked' \in [Investors -> Nat]
  BY <1>1, <1>2, <1>3, TrackerTyped DEF HoldingsOK
<1>8. IInv'
  BY <1>1, <1>2, <1>5, <1>6, <1>7 DEF IInv, HoldingsOK, MarketOK
<1> QED
  BY <1>1, <1>8 DEF KeepsTerminal

LEMMA RedeemInstantKeeps ==
  ASSUME IInv, NEW i \in Investors, NEW shares \in Amounts, NEW hint \in Hints,
         RedeemInstant(i, shares, hint)
  PROVE  IInv' /\ KeepsTerminal
<1> DEFINE hintCost == hint * oracle.nav
           bounded == SilentFail(shares, hint)
           burned == BurnedBySubscription(book, i, bounded)
           proceeds == Narrow(burned * oracle.nav, CashMax)
           paid == Transferred(cash, Treasury, proceeds)
           refund == Refunded(paid, proceeds, burned)
<1>1. /\ book' = MintInternal(BurnInternal(book, i, burned), i, refund)
      /\ cash' = Move(cash, Treasury, i, paid)
      /\ redeemed' = [redeemed EXCEPT ![epoch] = @ + hintCost]
      /\ tracked' = Destroyed(tracked, i, hint)
      /\ UNCHANGED <<requests, epochRequests, epoch, oracle, terms, verified, halted>>
  BY DEF RedeemInstant, market
<1>2. HoldingsOK /\ MarketOK
  BY DEF IInv
<1>3. /\ bounded \in Nat /\ hint \in Nat /\ hintCost \in Nat
      /\ i \in CashAccounts /\ Treasury \in CashAccounts /\ i \in ShareAccounts
  BY <1>2, InputsTyped
<1>4. book.bal[i] \in Nat
  BY <1>2, <1>3 DEF HoldingsOK, Backed, Ledger
<1>5. burned \in Nat /\ burned <= book.bal[i]
  <2> HIDE DEF bounded
  <2> QED
    BY <1>3, <1>4, Bounds DEF BurnedBySubscription
<1>6. proceeds \in Nat
  <2> HIDE DEF burned
  <2> QED
    BY <1>2, <1>5, InputsTyped
<1>7. refund \in Nat
  <2> HIDE DEF burned, paid, proceeds
  <2> QED
    BY <1>5 DEF Refunded
<1> HIDE DEF hintCost, bounded, burned, proceeds, refund
<1>8. Backed(BurnInternal(book, i, burned), requests)
  BY <1>2, <1>5, BurnFromInvestor DEF HoldingsOK
<1>9. Backed(book', requests)
  BY <1>1, <1>7, <1>8, MintToInvestor
<1>10. cash' \in Ledger(CashAccounts)
  BY <1>1, <1>2, <1>3, <1>6, CashMove DEF HoldingsOK
<1>11. tracked' \in [Investors -> Nat]
  BY <1>1, <1>2, <1>3, TrackerTyped DEF HoldingsOK
<1>12. redeemed' \in [Epochs -> Nat]
  BY <1>1, <1>2, <1>3 DEF HoldingsOK, MarketOK
<1>13. IInv'
  BY <1>1, <1>2, <1>9, <1>10, <1>11, <1>12 DEF IInv, HoldingsOK, MarketOK
<1> QED
  BY <1>1, <1>13 DEF KeepsTerminal

LEMMA SubmitKeeps ==
  ASSUME IInv, NEW i \in Investors, NEW shares \in Amounts, NEW hint \in Hints,
         Submit(i, shares, hint)
  PROVE  IInv' /\ KeepsTerminal
<1> DEFINE bounded == SilentFail(shares, hint)
           pulled == PulledFromInvestor(book, i, bounded)
           r == [investor |-> i, encShares |-> pulled, hint |-> hint,
                 epochId |-> epoch, status |-> "open"]
           n == Len(requests) + 1
<1>1. /\ book' = Move(book, i, Queue, pulled)
      /\ requests' = Append(requests, r)
      /\ epochRequests' = [epochRequests EXCEPT ![epoch] = Append(@, n)]
      /\ UNCHANGED <<cash, redeemed, tracked, epoch, oracle, terms, verified, halted>>
  BY DEF Submit, market
<1>2. HoldingsOK /\ MarketOK
  BY DEF IInv
<1>3. bounded \in Nat /\ hint \in Nat /\ i \in ShareAccounts
  BY <1>2, InputsTyped
<1>4. book.bal[i] \in Nat
  BY <1>2, <1>3 DEF HoldingsOK, Backed, Ledger
<1>5. pulled \in Nat /\ pulled <= book.bal[i]
  <2> HIDE DEF bounded
  <2> QED
    BY <1>3, <1>4, Bounds DEF PulledFromInvestor
<1> HIDE DEF bounded, pulled
<1>6. r \in Request /\ r.encShares = pulled /\ r.investor = i /\ r.status = "open"
  BY <1>2, <1>3, <1>5 DEF Request, Statuses, MarketOK
<1> HIDE DEF r
<1>7. Backed(book', requests')
  BY <1>1, <1>2, <1>5, <1>6, LockShares DEF HoldingsOK
<1>8. /\ DOMAIN requests' = DOMAIN requests \cup {n}
      /\ \A id \in DOMAIN requests : requests'[id] = requests[id]
  <2>1. requests \in Seq(Request)
    BY <1>2 DEF HoldingsOK, Backed
  <2>2. /\ DOMAIN Append(requests, r) = 1 .. Len(requests) + 1
        /\ DOMAIN requests = 1 .. Len(requests)
        /\ Len(requests) \in Nat
        /\ \A k \in 1 .. Len(requests) : Append(requests, r)[k] = requests[k]
    BY <1>6, <2>1, AppendProperties, LenProperties
  <2> QED
    BY <1>1, <2>2
<1> HIDE DEF n
<1>9. epochRequests' \in [Epochs -> Seq(DOMAIN requests')]
  <2>1. \A e \in Epochs : epochRequests[e] \in Seq(DOMAIN requests \cup {n})
    <3> SUFFICES ASSUME NEW e \in Epochs PROVE epochRequests[e] \in Seq(DOMAIN requests \cup {n})
      OBVIOUS
    <3>1. epochRequests[e] \in Seq(DOMAIN requests)
      BY <1>2 DEF HoldingsOK
    <3>2. /\ Len(epochRequests[e]) \in Nat
          /\ epochRequests[e] = [k \in 1 .. Len(epochRequests[e]) |-> epochRequests[e][k]]
          /\ \A k \in 1 .. Len(epochRequests[e]) : epochRequests[e][k] \in DOMAIN requests
      BY <3>1, LenProperties, ElementOfSeq
    <3>3. \A k \in 1 .. Len(epochRequests[e]) : epochRequests[e][k] \in DOMAIN requests \cup {n}
      BY <3>2
    <3> QED
      BY <3>2, <3>3, IsASeq
  <2>2. Append(epochRequests[epoch], n) \in Seq(DOMAIN requests \cup {n})
    BY <1>2, <2>1, AppendProperties DEF MarketOK
  <2>3. epochRequests' \in [Epochs -> Seq(DOMAIN requests \cup {n})]
    BY <1>1, <1>2, <2>1, <2>2 DEF HoldingsOK, MarketOK
  <2> QED
    BY <1>8, <2>3
<1>10. IInv'
  BY <1>1, <1>2, <1>7, <1>9 DEF IInv, HoldingsOK, MarketOK
<1> QED
  BY <1>8, <1>10 DEF KeepsTerminal

LEMMA ProcessEpochKeeps ==
  ASSUME IInv, NEW e \in Epochs, NEW from \in 0 .. Len(epochRequests[e]),
         NEW to \in 0 .. Len(epochRequests[e]), ProcessEpoch(e, from, to)
  PROVE  IInv' /\ KeepsTerminal
<1> DEFINE ids == epochRequests[e]
           done == ProcessPage(ids, from, to)
<1>1. /\ book' = done.book /\ cash' = done.cash /\ requests' = done.requests
      /\ tracked' = done.tracked
      /\ from <= to /\ to <= Len(ids)
      /\ UNCHANGED <<epochRequests, redeemed, epoch, oracle, terms, verified, halted>>
  BY DEF ProcessEpoch, market
<1>2. HoldingsOK /\ MarketOK
  BY DEF IInv
<1>3. ids \in Seq(DOMAIN requests) /\ Len(ids) \in Nat /\ from \in Nat /\ to \in Nat
  BY <1>2, LenProperties DEF HoldingsOK
<1>4. \A k \in from + 1 .. to : ids[k] \in DOMAIN requests
  <2> SUFFICES ASSUME NEW k \in from + 1 .. to PROVE ids[k] \in DOMAIN requests
    OBVIOUS
  <2>1. k \in 1 .. Len(ids)
    BY <1>1, <1>3
  <2> QED
    BY <1>3, <2>1, ElementOfSeq
<1>5. Reaches(Accounts, requests)
  BY <1>2 DEF HoldingsOK, Reaches, Accounts, Backed
<1> HIDE DEF ids
<1>6. Reaches(done, requests)
  BY <1>1, <1>2, <1>3, <1>4, <1>5, PageKeeps DEF MarketOK
<1> HIDE DEF done
<1>7. /\ Backed(book', requests') /\ cash' \in Ledger(CashAccounts)
      /\ tracked' \in [Investors -> Nat] /\ DOMAIN requests' = DOMAIN requests
  BY <1>1, <1>6 DEF Reaches
<1>8. IInv'
  BY <1>1, <1>2, <1>7 DEF IInv, HoldingsOK, MarketOK
<1>9. KeepsTerminal
  BY <1>1, <1>6 DEF Reaches, KeepsTerminal, Open
<1> QED
  BY <1>8, <1>9

LEMMA CancelKeeps ==
  ASSUME IInv, NEW id \in DOMAIN requests, CancelOnKYCRevocation(id)
  PROVE  IInv' /\ KeepsTerminal
<1> DEFINE r == requests[id]
           less == [requests EXCEPT ![id].status = "cancelled"]
<1>1. /\ r.status = "open"
      /\ requests' = less
      /\ book' = ReturnToInvestor(book, Queue, r.investor, r.encShares)
      /\ UNCHANGED <<cash, epochRequests, redeemed, tracked, epoch, oracle, terms, verified, halted>>
  BY DEF CancelOnKYCRevocation, market
<1>2. HoldingsOK /\ MarketOK
  BY DEF IInv
<1>3. requests \in Seq(Request) /\ r \in Request
  BY <1>2, ElementOfSeq, LenProperties DEF HoldingsOK, Backed
<1>4. r.encShares \in Nat /\ 0 + r.encShares = r.encShares
  BY <1>3 DEF Request
<1>5. Backed(BurnFromQueue(book, Queue, 0), requests) /\ BurnFromQueue(book, Queue, 0) = book
  <2>1. book \in Ledger(ShareAccounts) /\ Queue \in ShareAccounts
    BY <1>2 DEF HoldingsOK, Backed, ShareAccounts
  <2>2. book.bal[Queue] \in Nat /\ book.supply \in Nat
    BY <2>1 DEF Ledger
  <2>3. SilentFail(0, book.bal[Queue]) = 0
    BY DEF SilentFail
  <2>4. Debit(book, Queue, 0) = book
    <3>1. [book.bal EXCEPT ![Queue] = @ - 0] = book.bal
      BY <2>1, <2>2 DEF Ledger
    <3>2. Debit(book, Queue, 0) = [book EXCEPT !.bal = [book.bal EXCEPT ![Queue] = @ - 0]]
      BY <2>1 DEF Debit, Ledger
    <3> QED
      BY <2>1, <3>1, <3>2 DEF Ledger
  <2>5. BurnInternal(book, Queue, 0) = book
    BY <2>1, <2>2, <2>4 DEF BurnInternal, Ledger
  <2>6. BurnFromQueue(book, Queue, 0) = book
    BY <2>3, <2>5 DEF BurnFromQueue
  <2> QED
    BY <1>2, <2>6 DEF HoldingsOK
<1>6. Backed(book', requests') /\ DOMAIN requests' = DOMAIN requests
  <2>1. "cancelled" \in Statuses \ {"open"} /\ 0 \in Nat
    BY DEF Statuses
  <2>2. /\ Backed(ReturnToInvestor(BurnFromQueue(book, Queue, 0), Queue, r.investor, r.encShares), less)
        /\ DOMAIN less = DOMAIN requests
    BY <1>1, <1>2, <1>4, <2>1, CloseRequest DEF HoldingsOK
  <2> QED
    BY <1>1, <1>5, <2>2
<1>7. IInv'
  BY <1>1, <1>2, <1>6 DEF IInv, HoldingsOK, MarketOK
<1>8. KeepsTerminal
  BY <1>1 DEF KeepsTerminal, Open
<1> QED
  BY <1>7, <1>8

LEMMA TransferKeeps ==
  ASSUME IInv, TransferStep
  PROVE  IInv' /\ KeepsTerminal
<1>1. HoldingsOK /\ MarketOK
  BY DEF IInv
<1>2. \A x \in Amounts : x \in Nat
  BY AmountsAssumption
<1>3. ASSUME NEW amount \in Amounts, Withdraw(amount)
      PROVE  IInv' /\ KeepsTerminal
  <2> DEFINE actual == SilentFail(Narrow(amount, CashMax), MaxWithdraw)
  <2>1. /\ cash' = Move(cash, Treasury, Issuer, Transferred(cash, Treasury, actual))
        /\ UNCHANGED <<book, requests, epochRequests, redeemed, tracked,
                       epoch, oracle, terms, verified, halted>>
    BY <1>3 DEF Withdraw, market
  <2>2. Treasury \in CashAccounts /\ Issuer \in CashAccounts /\ cash \in Ledger(CashAccounts)
    BY <1>1 DEF CashAccounts, HoldingsOK
  <2>3. actual \in Nat
    BY <1>2, AmountsAssumption, NarrowFits DEF SilentFail
  <2> HIDE DEF actual
  <2>4. cash' \in Ledger(CashAccounts)
    BY <2>1, <2>2, <2>3, CashMove
  <2> QED
    BY <1>1, <2>1, <2>4 DEF IInv, HoldingsOK, MarketOK, KeepsTerminal
<1>4. ASSUME NEW amount \in Amounts, NEW from \in Investors, NEW to \in Investors,
             ShareTransfer(from, to, amount)
      PROVE  IInv' /\ KeepsTerminal
  <2>1. /\ book' = Move(book, from, to, SilentFail(amount, book.bal[from]))
        /\ UNCHANGED <<cash, requests, epochRequests, redeemed, tracked,
                       epoch, oracle, terms, verified, halted>>
    BY <1>4 DEF ShareTransfer, market
  <2>2. Backed(book', requests)
    BY <1>1, <1>2, <2>1, MoveBetweenInvestors DEF HoldingsOK
  <2> QED
    BY <1>1, <2>1, <2>2 DEF IInv, HoldingsOK, MarketOK, KeepsTerminal
<1>5. ASSUME NEW amount \in Amounts, NEW from \in Investors \cup {Issuer}, NEW to \in CashAccounts,
             CashTransfer(from, to, amount)
      PROVE  IInv' /\ KeepsTerminal
  <2>1. /\ cash' = Move(cash, from, to, Transferred(cash, from, amount))
        /\ UNCHANGED <<book, requests, epochRequests, redeemed, tracked,
                       epoch, oracle, terms, verified, halted>>
    BY <1>5 DEF CashTransfer, market
  <2>2. from \in CashAccounts /\ cash \in Ledger(CashAccounts)
    BY <1>1 DEF CashAccounts, HoldingsOK
  <2>3. cash' \in Ledger(CashAccounts)
    BY <1>2, <2>1, <2>2, CashMove
  <2> QED
    BY <1>1, <2>1, <2>3 DEF IInv, HoldingsOK, MarketOK, KeepsTerminal
<1> QED
  BY <1>3, <1>4, <1>5 DEF TransferStep

LEMMA MarketKeeps ==
  ASSUME IInv, MarketStep
  PROVE  IInv' /\ KeepsTerminal
<1>1. HoldingsOK /\ MarketOK
  BY DEF IInv
<1>2. UNCHANGED <<book, cash, requests, epochRequests, redeemed, tracked>>
  BY DEF MarketStep, ReadingChanges, EpochPasses, SetEpochDuration, SetTerms, SetVerified,
         SetPaused, holdings
<1>3. HoldingsOK' /\ KeepsTerminal
  BY <1>1, <1>2 DEF HoldingsOK, Backed, KeepsTerminal
<1>4. ASSUME NEW nav \in NAVs, NEW fresh \in BOOLEAN, ReadingChanges(nav, fresh) PROVE MarketOK'
  BY <1>1, <1>4 DEF ReadingChanges, MarketOK
<1>5. ASSUME EpochPasses PROVE MarketOK'
  BY <1>1, <1>5, BoundsAssumption DEF EpochPasses, MarketOK, Epochs
<1>6. ASSUME NEW e \in Epochs, SetEpochDuration(e) PROVE MarketOK'
  BY <1>1, <1>6 DEF SetEpochDuration, MarketOK
<1>7. ASSUME NEW t \in Terms, SetTerms(t) PROVE MarketOK'
  BY <1>1, <1>7 DEF SetTerms, MarketOK, Terms
<1>8. ASSUME NEW i \in Investors, SetVerified(i) PROVE MarketOK'
  BY <1>1, <1>8 DEF SetVerified, MarketOK
<1>9. ASSUME NEW switch \in Halts, SetPaused(switch) PROVE MarketOK'
  BY <1>1, <1>9 DEF SetPaused, MarketOK
<1>10. MarketOK'
  BY <1>4, <1>5, <1>6, <1>7, <1>8, <1>9 DEF MarketStep
<1> QED
  BY <1>3, <1>10 DEF IInv

LEMMA StepKeeps == IInv /\ [Next]_vars => IInv' /\ (KeepsTerminal \/ UNCHANGED vars)
<1> SUFFICES ASSUME IInv, [Next]_vars PROVE IInv' /\ (KeepsTerminal \/ UNCHANGED vars)
  OBVIOUS
<1>1. CASE InvestorStep
  BY <1>1, PurchaseKeeps, RedeemInstantKeeps, SubmitKeeps DEF InvestorStep, RedeemEscalated
<1>2. CASE QueueStep
  BY <1>2, ProcessEpochKeeps, CancelKeeps DEF QueueStep
<1>3. CASE TransferStep
  BY <1>3, TransferKeeps
<1>4. CASE MarketStep
  BY <1>4, MarketKeeps
<1>5. CASE UNCHANGED vars
  BY <1>5 DEF vars, IInv, HoldingsOK, MarketOK, Backed
<1> QED
  BY <1>1, <1>2, <1>3, <1>4, <1>5 DEF Next

-----------------------------------------------------------------------------
\* The inductive invariant holds throughout.
THEOREM Inductive == Spec => []IInv
<1>1. Init => IInv
  BY InitOK
<1>2. IInv /\ [Next]_vars => IInv'
  BY StepKeeps
<1> QED
  BY <1>1, <1>2, PTL DEF Spec

\* Every variable keeps its type: balances, supplies and recorded requests never
\* go below zero, although the contracts subtract ciphertexts unchecked.
THEOREM TypeCorrect == Spec => []TypeOK
<1>1. IInv => TypeOK
  BY IInvImplies
<1> QED
  BY <1>1, Inductive, PTL

\* The encrypted supply is the sum of the share balances, for any set of
\* investors, any width of the cash ledger, and any length of a page.
THEOREM SupplyIsSum == Spec => []SharesConserved
<1>1. IInv => SharesConserved
  BY IInvImplies
<1> QED
  BY <1>1, Inductive, PTL

\* The queue's balance is what its open requests have locked: the silent-fail
\* bounds in burnFromQueue and returnToInvestor never bite.
THEOREM QueueIsBacked == Spec => []QueueBacked
<1>1. IInv => QueueBacked
  BY IInvImplies
<1> QED
  BY <1>1, Inductive, PTL

\* No transaction changes a settled or cancelled request.
THEOREM TerminalIsFinal == Spec => TerminalFinal
<1>1. IInv /\ [Next]_vars => [\A id \in DOMAIN requests : ~ Open(id) => requests'[id] = requests[id]]_vars
  BY StepKeeps DEF KeepsTerminal
<1> QED
  BY <1>1, Inductive, PTL DEF Spec, TerminalFinal

-----------------------------------------------------------------------------
(* What each transaction is worth to everyone.                             *)

\* The bodies of the three action properties.
PositionsStay == \A i \in Investors : Position(i)' = Position(i)
OutflowPaid ==
  cash'.bal[Treasury] < cash.bal[Treasury] =>
    \/ cash.bal[Treasury] - cash'.bal[Treasury] = oracle.nav * (book.supply - book'.supply)
    \/ /\ cash'.bal[Issuer] > cash.bal[Issuer]
       /\ terms.minFloat <= CashMax => cash'.bal[Treasury] >= terms.minFloat
OutflowMetered ==
  \A e \in Epochs : redeemed'[e] # redeemed[e] =>
    /\ redeemed'[e] <= terms.cap
    /\ cash.bal[Treasury] - cash'.bal[Treasury] <= redeemed'[e] - redeemed[e]

Settled == HintBound(requests') /\ (Trade => PositionsStay) /\ OutflowPaid /\ OutflowMetered

LEMMA PositionForms ==
  /\ \A i \in Investors :
       Position(i) = cash.bal[i] + oracle.nav * (book.bal[i] + LockedBy(requests, {i}))
  /\ \A i \in Investors :
       Position(i)' = cash'.bal[i] + oracle'.nav * (book'.bal[i] + LockedBy(requests', {i}))
BY DEF Position, LockedBy

LEMMA Everyone ==
  ASSUME IInv
  PROVE  /\ \A i \in Investors : /\ i \in CashAccounts /\ i \in ShareAccounts /\ i # Treasury /\ i # Queue
                                 /\ cash.bal[i] \in Nat /\ book.bal[i] \in Nat
                                 /\ LockedBy(requests, {i}) \in Nat
         /\ cash \in Ledger(CashAccounts) /\ book \in Ledger(ShareAccounts) /\ requests \in Seq(Request)
         /\ book.supply = Total(book, ShareAccounts) /\ book.bal[Queue] = LockedBy(requests, Investors)
         /\ Treasury \in CashAccounts /\ Issuer \in CashAccounts /\ Treasury # Issuer /\ Issuer \notin Investors
         /\ cash.bal[Treasury] \in Nat /\ cash.bal[Issuer] \in Nat /\ book.supply \in Nat
         /\ oracle \in [nav: NAVs \cup {0}, fresh: BOOLEAN] /\ oracle.nav \in Nat /\ CashMax \in Nat
         /\ redeemed \in [Epochs -> Nat] /\ epoch \in Epochs
<1>1. /\ cash \in Ledger(CashAccounts) /\ book \in Ledger(ShareAccounts) /\ requests \in Seq(Request)
      /\ book.supply = Total(book, ShareAccounts) /\ book.bal[Queue] = LockedBy(requests, Investors)
      /\ oracle \in [nav: NAVs \cup {0}, fresh: BOOLEAN]
      /\ redeemed \in [Epochs -> Nat] /\ epoch \in Epochs
  BY DEF IInv, HoldingsOK, MarketOK, Backed
<1>2. /\ \A i \in Investors : i \in CashAccounts /\ i \in ShareAccounts /\ i # Treasury /\ i # Queue
      /\ Treasury \in CashAccounts /\ Issuer \in CashAccounts /\ Treasury # Issuer /\ Issuer \notin Investors
  BY AccountsAssumption DEF CashAccounts, ShareAccounts
<1>3. /\ \A a \in CashAccounts : cash.bal[a] \in Nat
      /\ \A a \in ShareAccounts : book.bal[a] \in Nat
      /\ book.supply \in Nat
  BY <1>1 DEF Ledger
<1>4. oracle.nav \in Nat /\ CashMax \in Nat
  BY <1>1, NavNat
<1> QED
  BY <1>1, <1>2, <1>3, <1>4, LockedNat

\* The cost of shares within a hint whose cost fits the width is exact.
LEMMA CostExact ==
  ASSUME IInv, NEW hint \in Nat, hint * oracle.nav <= CashMax, NEW x \in Nat, x <= hint
  PROVE  /\ Narrow(x * oracle.nav, CashMax) = oracle.nav * x /\ oracle.nav * x \in Nat
         /\ oracle.nav * x <= hint * oracle.nav
<1>1. oracle.nav \in Nat /\ CashMax \in Nat
  BY Everyone
<1>2. x * oracle.nav \in Nat /\ x * oracle.nav <= hint * oracle.nav /\ hint * oracle.nav \in Nat
  BY <1>1, TimesBelow
<1>3. x * oracle.nav <= CashMax
  BY <1>1, <1>2
<1>4. Narrow(x * oracle.nav, CashMax) = x * oracle.nav
  BY <1>1, <1>2, <1>3, NarrowFits
<1>5. x * oracle.nav = oracle.nav * x
  BY <1>1
<1> QED
  BY <1>2, <1>4, <1>5

LEMMA PurchaseSettles ==
  ASSUME IInv, HintBound(requests), NEW i \in Investors, NEW shares \in Amounts, NEW hint \in Hints,
         Purchase(i, shares, hint)
  PROVE  Settled
<1> DEFINE n == oracle.nav
           bounded == SilentFail(shares, hint)
           cost == Narrow(bounded * n, CashMax)
           paid == Transferred(cash, i, cost)
           minted == IF paid = cost THEN bounded ELSE 0
<1>1. /\ cash' = Move(cash, i, Treasury, paid)
      /\ book' = MintInternal(book, i, minted)
      /\ requests' = requests /\ redeemed' = redeemed /\ oracle' = oracle
      /\ hint * n <= CashMax
  BY DEF Purchase, market, Tradable
<1>2. bounded \in Nat /\ bounded <= hint /\ hint \in Nat
  BY AmountsAssumption, Bounds
<1> HIDE DEF bounded
<1>3. cost = n * bounded /\ cost \in Nat
  BY <1>1, <1>2, CostExact
<1> HIDE DEF cost
<1>4. /\ paid \in {0, cost} /\ paid \in Nat
      /\ cash'.bal[i] = cash.bal[i] - paid /\ cash'.bal[Treasury] = cash.bal[Treasury] + paid
      /\ \A j \in Investors \ {i} : cash'.bal[j] = cash.bal[j]
  <2>1. /\ cash \in Ledger(CashAccounts) /\ i \in CashAccounts /\ Treasury \in CashAccounts /\ i # Treasury
        /\ \A j \in Investors \ {i} : j \in CashAccounts \ {i, Treasury}
    BY Everyone
  <2>2. /\ paid \in {0, cost} /\ paid \in Nat
        /\ Move(cash, i, Treasury, paid).bal[i] = cash.bal[i] - paid
        /\ Move(cash, i, Treasury, paid).bal[Treasury] = cash.bal[Treasury] + paid
        /\ \A j \in CashAccounts \ {i, Treasury} : Move(cash, i, Treasury, paid).bal[j] = cash.bal[j]
    <3>1. /\ cash \in Ledger(CashAccounts) /\ i \in CashAccounts /\ Treasury \in CashAccounts
          /\ i # Treasury /\ cost \in Nat
      BY <1>3, <2>1
    <3> QED
      BY <3>1, CashMoved
  <2> HIDE DEF paid
  <2> QED
    BY <1>1, <2>1, <2>2
<1>5. minted \in Nat /\ paid = n * minted
  <2>1. n \in Nat
    BY Everyone
  <2> QED
    BY <1>2, <1>3, <1>4, <2>1
<1> HIDE DEF paid, minted
<1>6. book'.bal[i] = book.bal[i] + minted /\ \A j \in Investors \ {i} : book'.bal[j] = book.bal[j]
  <2>1. book \in Ledger(ShareAccounts) /\ i \in ShareAccounts /\ \A j \in Investors : j \in ShareAccounts
    BY Everyone
  <2>2. book'.bal = [book.bal EXCEPT ![i] = book.bal[i] + minted]
    BY <1>1, <1>5, <2>1, AccountsFinite, MintFacts
  <2> QED
    BY <2>1, <2>2 DEF Ledger
<1>7. PositionsStay
  <2> SUFFICES ASSUME NEW j \in Investors PROVE Position(j)' = Position(j)
    BY DEF PositionsStay
  <2> DEFINE L == LockedBy(requests, {j})
  <2>1. Position(j) = cash.bal[j] + n * (book.bal[j] + L) /\ Position(j)' = cash'.bal[j] + n * (book'.bal[j] + L)
    BY <1>1, PositionForms
  <2>2. cash.bal[j] \in Nat /\ book.bal[j] \in Nat /\ L \in Nat /\ n \in Nat
    BY Everyone
  <2> HIDE DEF n, L
  <2>3. CASE j # i
    BY <1>4, <1>6, <2>1, <2>3
  <2>4. CASE j = i
    <3>1. n * (0 - minted) = 0 - n * minted
      BY <1>5, <2>2, Times
    <3>2. cash'.bal[j] = cash.bal[j] + n * (0 - minted) /\ book'.bal[j] + L = (book.bal[j] + L) - (0 - minted)
      BY <1>4, <1>5, <1>6, <2>2, <2>4, <3>1
    <3>3. (0 - minted) \in Int /\ book.bal[j] + L \in Int
      BY <1>5, <2>2
    <3> QED
      BY <2>1, <2>2, <3>2, <3>3, Exchange
  <2> QED
    BY <2>3, <2>4
<1>8. OutflowPaid /\ OutflowMetered
  BY <1>1, <1>4, Everyone DEF OutflowPaid, OutflowMetered
<1> QED
  BY <1>1, <1>7, <1>8 DEF Settled

LEMMA RedeemInstantSettles ==
  ASSUME IInv, HintBound(requests), NEW i \in Investors, NEW shares \in Amounts, NEW hint \in Hints,
         RedeemInstant(i, shares, hint)
  PROVE  Settled
<1> DEFINE n == oracle.nav
           hintCost == hint * n
           bounded == SilentFail(shares, hint)
           burned == BurnedBySubscription(book, i, bounded)
           proceeds == Narrow(burned * n, CashMax)
           paid == Transferred(cash, Treasury, proceeds)
           refund == Refunded(paid, proceeds, burned)
           sold == burned - refund
<1>1. /\ book' = MintInternal(BurnInternal(book, i, burned), i, refund)
      /\ cash' = Move(cash, Treasury, i, paid)
      /\ redeemed' = [redeemed EXCEPT ![epoch] = redeemed[epoch] + hintCost]
      /\ requests' = requests /\ oracle' = oracle
      /\ hint * n <= CashMax /\ redeemed[epoch] + hintCost <= terms.cap
  BY DEF RedeemInstant, market, Tradable, WithinCap
<1>2. /\ i \in CashAccounts /\ i \in ShareAccounts /\ Treasury # i /\ Treasury \in CashAccounts
      /\ n \in Nat /\ book.bal[i] \in Nat /\ book.supply \in Nat /\ cash.bal[Treasury] \in Nat
      /\ cash \in Ledger(CashAccounts) /\ book \in Ledger(ShareAccounts)
      /\ redeemed \in [Epochs -> Nat] /\ epoch \in Epochs
      /\ book.supply = Total(book, ShareAccounts)
      /\ \A j \in Investors \ {i} : j \in CashAccounts \ {Treasury, i} /\ j \in ShareAccounts
  BY Everyone
<1>3. bounded \in Nat /\ bounded <= hint /\ hint \in Nat
  BY AmountsAssumption, Bounds
<1> HIDE DEF bounded
<1>4. burned \in Nat /\ burned <= hint /\ burned <= book.bal[i]
  <2>1. burned \in Nat /\ burned <= bounded /\ burned <= book.bal[i]
    <3>1. burned = Clamp(bounded, book.bal[i])
      BY DEF BurnedBySubscription
    <3>2. book.bal[i] \in Nat /\ bounded \in Nat
      BY <1>2, <1>3
    <3> HIDE DEF burned
    <3> QED
      BY <3>1, <3>2, Bounds
  <2> HIDE DEF burned
  <2> QED
    BY <1>3, <2>1
<1> HIDE DEF burned
<1>5. proceeds = n * burned /\ proceeds \in Nat /\ n * burned <= hintCost /\ hintCost \in Nat
  <2>1. hint * n \in Nat
    BY <1>2, <1>3, TimesBelow
  <2> QED
    BY <1>1, <1>3, <1>4, <2>1, CostExact
<1> HIDE DEF proceeds, hintCost
<1>6. /\ paid \in {0, proceeds} /\ paid \in Nat
      /\ cash'.bal[i] = cash.bal[i] + paid /\ cash'.bal[Treasury] = cash.bal[Treasury] - paid
      /\ \A j \in Investors \ {i} : cash'.bal[j] = cash.bal[j]
  <2>1. /\ paid \in {0, proceeds} /\ paid \in Nat
        /\ Move(cash, Treasury, i, paid).bal[i] = cash.bal[i] + paid
        /\ Move(cash, Treasury, i, paid).bal[Treasury] = cash.bal[Treasury] - paid
        /\ \A j \in CashAccounts \ {Treasury, i} : Move(cash, Treasury, i, paid).bal[j] = cash.bal[j]
    <3>1. proceeds \in Nat
      BY <1>5
    <3> QED
      BY <1>2, <3>1, CashMoved
  <2> HIDE DEF paid
  <2> QED
    BY <1>1, <1>2, <2>1
<1>7. refund \in Nat /\ refund <= burned /\ sold \in Nat /\ paid = n * sold
  <2>1. CASE paid = proceeds
    BY <1>2, <1>4, <1>5, <2>1 DEF Refunded
  <2>2. CASE paid # proceeds
    <3>1. paid = 0 /\ refund = burned /\ sold = 0
      BY <1>4, <1>6, <2>2 DEF Refunded
    <3> QED
      BY <1>2, <1>4, <3>1
  <2> QED
    BY <2>1, <2>2
<1> HIDE DEF paid, refund
<1>8. /\ book'.bal[i] = book.bal[i] - sold /\ book'.supply = book.supply - sold
      /\ \A j \in Investors \ {i} : book'.bal[j] = book.bal[j]
  <2> DEFINE b == BurnInternal(book, i, burned)
  <2>1. burned <= book.supply
    <3>1. book.bal[i] <= book.supply
      BY <1>2, AccountsFinite, BalanceBelowSupply
    <3> QED
      BY <1>2, <1>4, <3>1
  <2>2. /\ b \in Ledger(ShareAccounts) /\ b.supply = book.supply - burned
        /\ b.bal = [book.bal EXCEPT ![i] = book.bal[i] - burned]
    BY <1>2, <1>4, <2>1, AccountsFinite, BurnFacts
  <2> HIDE DEF b
  <2>3. /\ MintInternal(b, i, refund).supply = b.supply + refund
        /\ MintInternal(b, i, refund).bal = [b.bal EXCEPT ![i] = b.bal[i] + refund]
    BY <1>2, <1>7, <2>2, AccountsFinite, MintFacts
  <2>4. book'.supply = b.supply + refund /\ book'.bal = [b.bal EXCEPT ![i] = b.bal[i] + refund]
    BY <1>1, <2>3 DEF b
  <2>5. book.bal \in [ShareAccounts -> Nat] /\ b.bal \in [ShareAccounts -> Nat]
    BY <1>2, <2>2 DEF Ledger
  <2>6. b.bal[i] = book.bal[i] - burned /\ book'.bal[i] = b.bal[i] + refund
    BY <1>2, <2>2, <2>4, <2>5
  <2>7. \A j \in Investors \ {i} : book'.bal[j] = book.bal[j]
    BY <1>2, <2>2, <2>4, <2>5
  <2> QED
    BY <1>2, <1>4, <1>7, <2>2, <2>4, <2>6, <2>7
<1> HIDE DEF sold
<1>9. PositionsStay
  <2> SUFFICES ASSUME NEW j \in Investors PROVE Position(j)' = Position(j)
    BY DEF PositionsStay
  <2> DEFINE L == LockedBy(requests, {j})
  <2>1. Position(j) = cash.bal[j] + n * (book.bal[j] + L) /\ Position(j)' = cash'.bal[j] + n * (book'.bal[j] + L)
    BY <1>1, PositionForms
  <2>2. cash.bal[j] \in Nat /\ book.bal[j] \in Nat /\ L \in Nat /\ n \in Nat
    BY Everyone
  <2> HIDE DEF n, L
  <2>3. CASE j # i
    BY <1>6, <1>8, <2>1, <2>3
  <2>4. CASE j = i
    <3>1. cash'.bal[j] = cash.bal[j] + n * sold /\ book'.bal[j] + L = (book.bal[j] + L) - sold
      BY <1>6, <1>7, <1>8, <2>2, <2>4
    <3>2. sold \in Int /\ book.bal[j] + L \in Int
      BY <1>7, <2>2
    <3> QED
      BY <2>1, <2>2, <3>1, <3>2, Exchange
  <2> QED
    BY <2>3, <2>4
<1>10. OutflowPaid
  <2>1. cash.bal[Treasury] - cash'.bal[Treasury] = n * sold /\ book.supply - book'.supply = sold
    <3>1. n * sold \in Nat
      BY <1>6, <1>7
    <3> QED
      BY <1>2, <1>6, <1>7, <1>8, <3>1
  <2> QED
    BY <2>1 DEF OutflowPaid
<1>11. OutflowMetered
  <2> SUFFICES ASSUME NEW e \in Epochs, redeemed'[e] # redeemed[e]
               PROVE  /\ redeemed'[e] <= terms.cap
                      /\ cash.bal[Treasury] - cash'.bal[Treasury] <= redeemed'[e] - redeemed[e]
    BY DEF OutflowMetered
  <2>1. e = epoch
    BY <1>1, <1>2
  <2>2. redeemed'[e] = redeemed[e] + hintCost /\ redeemed[e] \in Nat
    BY <1>1, <1>2, <2>1
  <2>3. paid <= hintCost
    BY <1>5, <1>6
  <2> QED
    BY <1>1, <1>2, <1>5, <1>6, <2>1, <2>2, <2>3 DEF hintCost
<1> QED
  BY <1>1, <1>9, <1>10, <1>11 DEF Settled

LEMMA SubmitSettles ==
  ASSUME IInv, HintBound(requests), NEW i \in Investors, NEW shares \in Amounts, NEW hint \in Hints,
         Submit(i, shares, hint)
  PROVE  Settled
<1> DEFINE n == oracle.nav
           bounded == SilentFail(shares, hint)
           pulled == PulledFromInvestor(book, i, bounded)
           r == [investor |-> i, encShares |-> pulled, hint |-> hint,
                 epochId |-> epoch, status |-> "open"]
<1>1. /\ book' = Move(book, i, Queue, pulled)
      /\ requests' = Append(requests, r)
      /\ cash' = cash /\ redeemed' = redeemed /\ oracle' = oracle
  BY DEF Submit, market
<1>2. /\ i \in ShareAccounts /\ Queue \in ShareAccounts /\ i # Queue /\ n \in Nat /\ book.bal[i] \in Nat
      /\ book \in Ledger(ShareAccounts) /\ requests \in Seq(Request) /\ epoch \in Epochs
      /\ \A j \in Investors \ {i} : j \in ShareAccounts \ {i, Queue}
  BY Everyone DEF ShareAccounts
<1>3. bounded \in Nat /\ bounded <= hint /\ hint \in Nat
  BY AmountsAssumption, Bounds
<1> HIDE DEF bounded
<1>4. pulled \in Nat /\ pulled <= hint /\ pulled <= book.bal[i]
  <2>1. pulled = Clamp(bounded, book.bal[i])
    BY DEF PulledFromInvestor
  <2> HIDE DEF pulled
  <2>2. pulled \in Nat /\ pulled <= bounded /\ pulled <= book.bal[i]
    <3>1. book.bal[i] \in Nat /\ bounded \in Nat
      BY <1>2, <1>3
    <3> QED
      BY <2>1, <3>1, Bounds
  <2> QED
    BY <1>3, <2>2
<1> HIDE DEF pulled
<1>5. r \in Request /\ r.encShares = pulled /\ r.hint = hint /\ r.investor = i /\ r.status = "open"
  BY <1>2, <1>3, <1>4 DEF Request, Statuses
<1> HIDE DEF r
<1>6. book'.bal[i] = book.bal[i] - pulled /\ \A j \in Investors \ {i} : book'.bal[j] = book.bal[j]
  <2>1. /\ Move(book, i, Queue, pulled).bal[i] = book.bal[i] - pulled
        /\ \A a \in ShareAccounts \ {i, Queue} : Move(book, i, Queue, pulled).bal[a] = book.bal[a]
    BY <1>2, <1>4, AccountsFinite, MoveFacts
  <2> QED
    BY <1>1, <1>2, <2>1
<1>7. PositionsStay
  <2> SUFFICES ASSUME NEW j \in Investors PROVE Position(j)' = Position(j)
    BY DEF PositionsStay
  <2> DEFINE L == LockedBy(requests, {j})
             M == LockedBy(requests', {j})
  <2>1. Position(j) = cash.bal[j] + n * (book.bal[j] + L) /\ Position(j)' = cash.bal[j] + n * (book'.bal[j] + M)
    BY <1>1, PositionForms
  <2>2. cash.bal[j] \in Nat /\ book.bal[j] \in Nat /\ L \in Nat /\ n \in Nat
    BY Everyone
  <2>3. M = L + LockedPart(r, {j})
    BY <1>1, <1>2, <1>5, LockedAppend
  <2>4. LockedPart(r, {j}) = IF j = i THEN pulled ELSE 0
    BY <1>5 DEF LockedPart
  <2> HIDE DEF n, L, M
  <2>5. book'.bal[j] + M = book.bal[j] + L
    BY <1>4, <1>6, <2>2, <2>3, <2>4
  <2> QED
    BY <2>1, <2>5
<1>8. HintBound(requests')
  <2>1. /\ DOMAIN requests' = 1 .. Len(requests) + 1 /\ DOMAIN requests = 1 .. Len(requests) /\ Len(requests) \in Nat
        /\ requests'[Len(requests) + 1] = r /\ \A k \in 1 .. Len(requests) : requests'[k] = requests[k]
    BY <1>1, <1>2, <1>5, AppendProperties, LenProperties
  <2> QED
    BY <1>4, <1>5, <2>1 DEF HintBound
<1>9. OutflowPaid /\ OutflowMetered
  BY <1>1, Everyone DEF OutflowPaid, OutflowMetered
<1> QED
  BY <1>7, <1>8, <1>9 DEF Settled

LEMMA ProcessEpochSettles ==
  ASSUME IInv, HintBound(requests), NEW e \in Epochs, NEW from \in 0 .. Len(epochRequests[e]),
         NEW to \in 0 .. Len(epochRequests[e]), ProcessEpoch(e, from, to)
  PROVE  Settled
<1> DEFINE n == oracle.nav
           ids == epochRequests[e]
           done == ProcessPage(ids, from, to)
           w == [i \in Investors |-> Position(i)]
           f == cash.bal[Treasury] - n * book.supply
<1>1. /\ book' = done.book /\ cash' = done.cash /\ requests' = done.requests
      /\ from <= to /\ to <= Len(ids)
      /\ redeemed' = redeemed /\ oracle' = oracle
      /\ \A id \in {ids[k] : k \in from + 1 .. to} :
           requests[id].status = "open" => requests[id].hint * n <= CashMax
  BY DEF ProcessEpoch, market
<1>2. ids \in Seq(DOMAIN requests) /\ Len(ids) \in Nat /\ from \in Nat /\ to \in Nat
  BY LenProperties DEF IInv, HoldingsOK
<1>3. \A k \in from + 1 .. to : ids[k] \in DOMAIN requests
  <2> SUFFICES ASSUME NEW k \in from + 1 .. to PROVE ids[k] \in DOMAIN requests
    OBVIOUS
  <2>1. k \in 1 .. Len(ids)
    BY <1>1, <1>2
  <2> QED
    BY <1>2, <2>1, ElementOfSeq
<1> HIDE DEF ids
<1>4. ASSUME NEW k \in from + 1 .. to, requests[ids[k]].status = "open"
      PROVE  requests[ids[k]].encShares * n <= CashMax
  <2> DEFINE r == requests[ids[k]]
  <2>1. r.encShares <= r.hint
    BY <1>3, <1>4 DEF HintBound
  <2>2. r \in Request
    <3>1. requests \in Seq(Request) /\ ids[k] \in DOMAIN requests
      BY <1>3, Everyone
    <3> QED
      BY <3>1, ElementOfSeq, LenProperties
  <2>3. r.hint * n <= CashMax
    BY <1>1, <1>4
  <2>4. r.encShares \in Nat /\ r.hint \in Nat /\ n \in Nat /\ CashMax \in Nat
    BY <2>2, Everyone DEF Request
  <2> HIDE DEF r
  <2>5. r.encShares * n <= r.hint * n /\ r.encShares * n \in Nat /\ r.hint * n \in Nat
    BY <2>1, <2>4, TimesBelow
  <2>6. r.encShares * n <= CashMax
    BY <2>3, <2>4, <2>5
  <2> QED
    BY <2>6 DEF r
<1>5. Even(Accounts, requests, w, f)
  <2>1. Reaches(Accounts, requests)
    BY DEF IInv, HoldingsOK, Reaches, Accounts, Backed
  <2>2. Accounts.requests = requests /\ Accounts.book = book /\ Accounts.cash = cash
    BY DEF Accounts
  <2>3. \A i \in Investors : WorthIn(Accounts, i) = w[i]
    BY <2>2, PositionForms DEF WorthIn
  <2>4. FloatIn(Accounts) = f
    BY <2>2 DEF FloatIn
  <2> QED
    BY <2>1, <2>2, <2>3, <2>4 DEF Even
<1>6. oracle \in [nav: NAVs \cup {0}, fresh: BOOLEAN]
  BY Everyone
<1> HIDE DEF w, f
<1>7. Even(done, requests, w, f)
  BY <1>1, <1>2, <1>3, <1>4, <1>5, <1>6, PageEven
<1> HIDE DEF done
<1>8. PositionsStay
  <2> SUFFICES ASSUME NEW i \in Investors PROVE Position(i)' = Position(i)
    BY DEF PositionsStay
  <2>1. Position(i)' = WorthIn(done, i)
    BY <1>1, PositionForms DEF WorthIn
  <2> QED
    BY <1>7, <2>1 DEF Even, w
<1>9. OutflowPaid
  <2>1. cash'.bal[Treasury] - n * book'.supply = cash.bal[Treasury] - n * book.supply
    BY <1>1, <1>7 DEF Even, FloatIn, f
  <2>2. cash.bal[Treasury] \in Int /\ book.supply \in Int /\ n \in Nat
    BY Everyone
  <2>3. cash'.bal[Treasury] \in Int /\ book'.supply \in Int
    <3>1. cash' \in Ledger(CashAccounts) /\ book' \in Ledger(ShareAccounts)
      BY <1>1, <1>7 DEF Even, Reaches
    <3> QED
      BY <3>1, Everyone DEF Ledger
  <2>4. n * (book.supply - book'.supply) = n * book.supply - n * book'.supply
        /\ n * book.supply \in Int /\ n * book'.supply \in Int
    BY <2>2, <2>3, Times
  <2>5. cash.bal[Treasury] - cash'.bal[Treasury] = n * (book.supply - book'.supply)
    <3> DEFINE p == n * book.supply
               q == n * book'.supply
               d == n * (book.supply - book'.supply)
               a == cash.bal[Treasury]
               b == cash'.bal[Treasury]
    <3>1. p \in Int /\ q \in Int /\ a \in Int /\ b \in Int /\ b - q = a - p /\ d = p - q
      BY <2>1, <2>2, <2>3, <2>4
    <3> HIDE DEF p, q, d, a, b
    <3>2. a - b = d
      BY <3>1
    <3> QED
      BY <3>2 DEF d, a, b
  <2> QED
    BY <2>5 DEF OutflowPaid
<1>10. HintBound(requests')
  <2>1. DOMAIN requests' = DOMAIN requests /\ \A id \in DOMAIN requests : requests'[id].status = "open" => requests'[id] = requests[id]
    BY <1>1, <1>7 DEF Even, Reaches
  <2> QED
    BY <2>1 DEF HintBound
<1>11. OutflowMetered
  BY <1>1 DEF OutflowMetered
<1> QED
  BY <1>8, <1>9, <1>10, <1>11 DEF Settled

LEMMA CancelSettles ==
  ASSUME IInv, HintBound(requests), NEW id \in DOMAIN requests, CancelOnKYCRevocation(id)
  PROVE  Settled
<1> DEFINE n == oracle.nav
           r == requests[id]
           i == r.investor
           x == r.encShares
<1>1. /\ r.status = "open" /\ requests' = [requests EXCEPT ![id].status = "cancelled"]
      /\ book' = ReturnToInvestor(book, Queue, i, x)
      /\ cash' = cash /\ redeemed' = redeemed /\ oracle' = oracle
  BY DEF CancelOnKYCRevocation, market
<1>2. /\ book \in Ledger(ShareAccounts) /\ requests \in Seq(Request) /\ n \in Nat
      /\ Queue \in ShareAccounts /\ book.bal[Queue] = LockedBy(requests, Investors)
  BY Everyone DEF ShareAccounts
<1>3. r \in Request
  BY <1>2, ElementOfSeq, LenProperties
<1>4. x \in Nat /\ i \in Investors
  BY <1>3 DEF Request
<1>5. x <= book.bal[Queue] /\ book.bal[Queue] \in Nat
  <2>1. LockedPart(requests[id], Investors) <= LockedBy(requests, Investors) /\ LockedBy(requests, Investors) \in Nat
    BY <1>2, LockedNat
  <2>2. LockedPart(requests[id], Investors) = x
    BY <1>1, <1>4 DEF LockedPart
  <2> QED
    BY <1>2, <2>1, <2>2
<1>6. book' = Move(book, Queue, i, x)
  <2>1. SilentFail(x, book.bal[Queue]) = x
    BY <1>5 DEF SilentFail
  <2> QED
    BY <1>1, <2>1 DEF ReturnToInvestor
<1>7. \A S : LockedBy(requests', S) = LockedBy(requests, S) - LockedPart(r, S)
  <2>1. "cancelled" \in Statuses \ {"open"}
    BY DEF Statuses
  <2>2. requests \in Seq(Request)
    BY <1>2
  <2>3. \A S : LockedBy([requests EXCEPT ![id].status = "cancelled"], S) = LockedBy(requests, S) - LockedPart(requests[id], S)
    BY <2>1, <2>2, LockedClose
  <2> QED
    BY <1>1, <2>3
<1>8. HintBound(requests')
  <2>1. requests \in [DOMAIN requests -> Request]
    BY <1>2, LenProperties
  <2>2. requests' = [requests EXCEPT ![id] = [requests[id] EXCEPT !.status = "cancelled"]]
    BY <1>1
  <2>3. DOMAIN requests' = DOMAIN requests /\ \A k \in DOMAIN requests : k # id => requests'[k] = requests[k]
    BY <2>1, <2>2
  <2>4. requests'[id].status = "cancelled"
    BY <1>3, <2>1, <2>2 DEF Request
  <2> QED
    BY <2>3, <2>4 DEF HintBound
<1> HIDE DEF i, x, r
<1>9. book'.bal[i] = book.bal[i] + x /\ \A j \in Investors \ {i} : book'.bal[j] = book.bal[j]
  <2>1. i \in ShareAccounts /\ i # Queue /\ \A j \in Investors \ {i} : j \in ShareAccounts \ {Queue, i}
    BY <1>4, Everyone
  <2>2. /\ Move(book, Queue, i, x).bal[i] = book.bal[i] + x
        /\ \A a \in ShareAccounts \ {Queue, i} : Move(book, Queue, i, x).bal[a] = book.bal[a]
    BY <1>2, <1>4, <1>5, <2>1, AccountsFinite, MoveFacts
  <2> QED
    BY <1>6, <2>1, <2>2
<1>10. PositionsStay
  <2> SUFFICES ASSUME NEW j \in Investors PROVE Position(j)' = Position(j)
    BY DEF PositionsStay
  <2> DEFINE L == LockedBy(requests, {j})
             M == LockedBy(requests', {j})
  <2>1. Position(j) = cash.bal[j] + n * (book.bal[j] + L) /\ Position(j)' = cash.bal[j] + n * (book'.bal[j] + M)
    BY <1>1, PositionForms
  <2>2. cash.bal[j] \in Nat /\ book.bal[j] \in Nat /\ L \in Nat /\ n \in Nat
    BY Everyone
  <2>3. M = L - LockedPart(r, {j})
    BY <1>7
  <2>4. LockedPart(r, {j}) = IF j = i THEN x ELSE 0
    BY <1>1 DEF LockedPart, i, x
  <2> HIDE DEF n, L, M
  <2>5. book'.bal[j] + M = book.bal[j] + L
    BY <1>4, <1>9, <2>2, <2>3, <2>4
  <2> QED
    BY <2>1, <2>5
<1>11. OutflowPaid /\ OutflowMetered
  BY <1>1, Everyone DEF OutflowPaid, OutflowMetered
<1> QED
  BY <1>8, <1>10, <1>11 DEF Settled

\* A step that is a purchase, whatever else it may look like.
Purchased ==
  \E i \in Investors, shares \in Amounts, hint \in Hints : Purchase(i, shares, hint)

\* A step that neither trades nor takes cash from the treasury.
LEMMA NoTradeSettles ==
  ASSUME HintBound(requests), requests' = requests, redeemed' = redeemed, book'.supply = book.supply,
         ~ Purchased, ~ (cash'.bal[Treasury] < cash.bal[Treasury])
  PROVE  Settled
<1>1. ~ Trade
  BY DEF Trade, Purchased
<1> QED
  BY <1>1 DEF Settled, OutflowPaid, OutflowMetered

LEMMA WithdrawSettles ==
  ASSUME IInv, HintBound(requests), ~ Purchased, NEW amount \in Amounts, Withdraw(amount)
  PROVE  Settled
<1> DEFINE asked == Narrow(amount, CashMax)
           actual == SilentFail(asked, MaxWithdraw)
           paid == Transferred(cash, Treasury, actual)
<1>1. /\ cash' = Move(cash, Treasury, Issuer, paid)
      /\ book' = book /\ requests' = requests /\ redeemed' = redeemed
  BY DEF Withdraw
<1>2. /\ cash \in Ledger(CashAccounts) /\ Treasury \in CashAccounts /\ Issuer \in CashAccounts
      /\ Treasury # Issuer /\ cash.bal[Treasury] \in Nat /\ cash.bal[Issuer] \in Nat /\ CashMax \in Nat
  BY Everyone
<1>3. terms.minFloat \in Nat
  BY AmountsAssumption DEF IInv, MarketOK
<1>4. asked \in Nat
  BY <1>2, AmountsAssumption, NarrowFits
<1> HIDE DEF asked
<1>5. /\ MaxWithdraw \in Nat
      /\ MaxWithdraw > 0 /\ terms.minFloat <= CashMax => MaxWithdraw = cash.bal[Treasury] - terms.minFloat
      /\ MaxWithdraw <= cash.bal[Treasury]
  <2>1. Floor \in Nat /\ (terms.minFloat <= CashMax => Floor = terms.minFloat)
    BY <1>2, <1>3, NarrowFits DEF Floor
  <2> QED
    BY <1>2, <1>3, <2>1 DEF MaxWithdraw
<1>6. actual \in Nat /\ actual <= MaxWithdraw
  BY <1>4, <1>5, Bounds
<1> HIDE DEF actual
<1>7. /\ paid \in {0, actual}
      /\ cash'.bal[Treasury] = cash.bal[Treasury] - paid /\ cash'.bal[Issuer] = cash.bal[Issuer] + paid
  <2>1. /\ paid \in {0, actual}
        /\ Move(cash, Treasury, Issuer, paid).bal[Treasury] = cash.bal[Treasury] - paid
        /\ Move(cash, Treasury, Issuer, paid).bal[Issuer] = cash.bal[Issuer] + paid
    BY <1>2, <1>6, CashMoved
  <2> HIDE DEF paid
  <2> QED
    BY <1>1, <2>1
<1> HIDE DEF paid
<1>8. OutflowPaid
  <2> SUFFICES ASSUME cash'.bal[Treasury] < cash.bal[Treasury]
               PROVE  /\ cash'.bal[Issuer] > cash.bal[Issuer]
                      /\ terms.minFloat <= CashMax => cash'.bal[Treasury] >= terms.minFloat
    BY DEF OutflowPaid
  <2>1. paid = actual /\ actual > 0
    BY <1>2, <1>6, <1>7
  <2> QED
    BY <1>2, <1>3, <1>5, <1>6, <1>7, <2>1
<1> QED
  <2>1. ~ Trade
    BY <1>1 DEF Trade, Purchased
  <2> QED
    BY <1>1, <1>8, <2>1 DEF Settled, OutflowMetered

LEMMA TransferSettles ==
  ASSUME IInv, HintBound(requests), ~ Purchased, TransferStep
  PROVE  Settled
<1>1. ASSUME NEW amount \in Amounts, Withdraw(amount) PROVE Settled
  BY <1>1, WithdrawSettles
<1>2. ASSUME NEW amount \in Amounts, NEW from \in Investors, NEW to \in Investors,
             ShareTransfer(from, to, amount)
      PROVE  Settled
  <2>1. /\ book' = Move(book, from, to, SilentFail(amount, book.bal[from]))
        /\ cash' = cash /\ requests' = requests /\ redeemed' = redeemed
    BY <1>2 DEF ShareTransfer
  <2>2. book'.supply = book.supply
    BY <2>1 DEF Move, Credit, Debit
  <2>3. ~ (cash'.bal[Treasury] < cash.bal[Treasury])
    BY <2>1, Everyone
  <2> QED
    BY <2>1, <2>2, <2>3, NoTradeSettles
<1>3. ASSUME NEW amount \in Amounts, NEW from \in Investors \cup {Issuer}, NEW to \in CashAccounts,
             CashTransfer(from, to, amount)
      PROVE  Settled
  <2> DEFINE x == Transferred(cash, from, amount)
  <2>1. /\ cash' = Move(cash, from, to, x)
        /\ book' = book /\ requests' = requests /\ redeemed' = redeemed
    BY <1>3 DEF CashTransfer
  <2>2. from \in CashAccounts /\ from # Treasury /\ cash \in Ledger(CashAccounts)
        /\ Treasury \in CashAccounts /\ cash.bal[Treasury] \in Nat /\ cash.bal[from] \in Nat
    BY Everyone DEF Ledger
  <2>3. x \in Nat /\ x <= cash.bal[from]
    BY <2>2, AmountsAssumption, Bounds DEF Transferred
  <2> HIDE DEF x
  <2>4. CASE to = Treasury
    <3>1. Move(cash, from, Treasury, x).bal[Treasury] = cash.bal[Treasury] + x
      BY <2>2, <2>3, AccountsFinite, MoveFacts
    <3> QED
      BY <2>1, <2>2, <2>3, <2>4, <3>1, NoTradeSettles
  <2>5. CASE to # Treasury
    <3>1. Move(cash, from, to, x).bal[Treasury] = cash.bal[Treasury]
      <4>1. Treasury \in CashAccounts \ {from, to}
        BY <2>2, <2>5
      <4> QED
        BY <2>2, <2>3, <4>1, AccountsFinite, MoveFacts
    <3> QED
      BY <2>1, <2>2, <3>1, NoTradeSettles
  <2> QED
    BY <2>4, <2>5
<1> QED
  BY <1>1, <1>2, <1>3 DEF TransferStep

LEMMA StepSettles ==
  ASSUME IInv, HintBound(requests), [Next]_vars
  PROVE  Settled
<1>0. CASE Purchased
  BY <1>0, PurchaseSettles DEF Purchased
<1>1. CASE InvestorStep
  BY <1>1, PurchaseSettles, RedeemInstantSettles, SubmitSettles DEF InvestorStep, RedeemEscalated
<1>2. CASE QueueStep
  BY <1>2, ProcessEpochSettles, CancelSettles DEF QueueStep
<1>3. CASE ~ Purchased /\ TransferStep
  BY <1>3, TransferSettles
<1>4. CASE ~ Purchased /\ (MarketStep \/ UNCHANGED vars)
  <2>1. book' = book /\ cash' = cash /\ requests' = requests /\ redeemed' = redeemed
    BY <1>4 DEF MarketStep, ReadingChanges, EpochPasses, SetEpochDuration, SetTerms, SetVerified,
                SetPaused, holdings, vars
  <2>2. ~ (cash'.bal[Treasury] < cash.bal[Treasury])
    BY <2>1, Everyone
  <2> QED
    BY <1>4, <2>1, <2>2, NoTradeSettles
<1> QED
  BY <1>0, <1>1, <1>2, <1>3, <1>4 DEF Next

LEMMA HintsBind == Spec => []HintBound(requests)
<1>1. Init => HintBound(requests)
  <2>1. Init => DOMAIN requests = {}
    BY DEF Init
  <2> QED
    BY <2>1 DEF HintBound
<1>2. IInv /\ HintBound(requests) /\ [Next]_vars => HintBound(requests)'
  BY StepSettles DEF Settled, HintBound
<1> QED
  BY <1>1, <1>2, Inductive, PTL DEF Spec

\* Delivery versus payment, for any NAVs, amounts, hints and pages: whichever
\* ciphertext leg of a purchase (one that mints nothing included), a redemption, a
\* submission, a settlement or a cancellation silently fails, no investor gains or loses at the NAV it executes at.
THEOREM PositionIsKept == Spec => PositionKept
<1>1. IInv /\ HintBound(requests) /\ [Next]_vars
        => [Trade => \A i \in Investors : Position(i)' = Position(i)]_vars
  BY StepSettles DEF Settled, PositionsStay
<1> QED
  BY <1>1, Inductive, HintsBind, PTL DEF Spec, PositionKept

\* Float leaves MuHavenTreasury against shares burned at the NAV in force, or to the
\* issuer from above the floor, provided the floor fits the cash ledger; whatever the
\* NAV and the length of a page, and whatever a wider floor is narrowed to.
THEOREM FloatOutflowIsPaid == Spec => FloatOutflow
<1>1. IInv /\ HintBound(requests) /\ [Next]_vars
        => [cash'.bal[Treasury] < cash.bal[Treasury] =>
              \/ cash.bal[Treasury] - cash'.bal[Treasury] = oracle.nav * (book.supply - book'.supply)
              \/ /\ cash'.bal[Issuer] > cash.bal[Issuer]
                 /\ terms.minFloat <= CashMax => cash'.bal[Treasury] >= terms.minFloat]_vars
  BY StepSettles DEF Settled, OutflowPaid
<1> QED
  BY <1>1, Inductive, HintsBind, PTL DEF Spec, FloatOutflow

\* An instant redemption never pays more than it charged to its epoch's counter, and
\* the counter never passes the cap in force.
THEOREM InstantOutflowIsMetered == Spec => InstantOutflowMetered
<1>1. IInv /\ HintBound(requests) /\ [Next]_vars
        => [\A e \in Epochs : redeemed'[e] # redeemed[e] =>
              /\ redeemed'[e] <= terms.cap
              /\ cash.bal[Treasury] - cash'.bal[Treasury] <= redeemed'[e] - redeemed[e]]_vars
  BY StepSettles DEF Settled, OutflowMetered
<1> QED
  BY <1>1, Inductive, HintsBind, PTL DEF Spec, InstantOutflowMetered
=============================================================================
