-------------------------- MODULE StableReserveProofs --------------------------
(***************************************************************************)
(* Proofs about StableReserve, for any users, reserve tokens, amounts and  *)
(* deposits: what the wrapper holds is what it owes, the list of pending   *)
(* withdrawals is exact, and no user's value changes but by a transfer.    *)
(***************************************************************************)
EXTENDS StableReserve, ConfidentialLedgerProofs, SequenceTheorems

\* What users are owed in a list of claims; what a holder has of all reserve
\* tokens together.
Owes(cs, S) ==
  SumFunctionOnSet([id \in DOMAIN cs |->
                      IF ~ cs[id].claimed /\ cs[id].to \in S THEN cs[id].burned ELSE 0], DOMAIN cs)
Held(us, h) == SumFunctionOnSet([token \in Reserves |-> us[token][h]], Reserves)

OutstandingOf(cs, u) == {id \in DOMAIN cs : cs[id].to = u /\ ~ cs[id].claimed}

\* A list of the members of S, each of them once.
Once(list) == \A j, k \in DOMAIN list : list[j] = list[k] => j = k
Lists(list, S) == Once(list) /\ {list[k] : k \in DOMAIN list} = S

CashKept == cash \in Ledger(Users) /\ cash.supply = Total(cash, Users)

\* A claim is only recorded while a reserve token is appointed.
ClaimsKept == Len(claims) <= MaxClaims /\ (claims # <<>> => reserve \in Reserves)

PendingKept ==
  \A u \in Users : Lists(pending[u], OutstandingOf(claims, u)) /\ Len(pending[u]) <= MaxPending

\* The inductive invariant.
IInv == TypeOK /\ CashKept /\ ClaimsKept /\ PendingKept /\ Collateralised

UsdcType == [Reserves -> [Holders -> Nat]]

-----------------------------------------------------------------------------
(* The parties *)

LEMMA Parties ==
  /\ IsFiniteSet(Users) /\ IsFiniteSet(Reserves)
  /\ Stable \in Holders /\ Owner \in Holders /\ Users \subseteq Holders
  /\ Stable \notin Users /\ Owner \notin Users /\ Stable # Owner
  /\ Underlying \in Reserves /\ Unset \notin Reserves
  /\ CashMax \in Nat /\ Amounts \subseteq Nat /\ MaxClaims \in Nat /\ MaxPending \in Nat
  /\ InitialUsdc \in UsdcType /\ InitialLegacy \in [Users \cup {Stable} -> Nat]
BY ReserveAssumption DEF Holders, UsdcType

-----------------------------------------------------------------------------
(* Reserve tokens *)

LEMMA HeldNat ==
  ASSUME NEW us \in UsdcType, NEW h \in Holders
  PROVE  Held(us, h) \in Nat /\ \A token \in Reserves : us[token][h] \in Nat /\ us[token][h] <= Held(us, h)
<1> DEFINE f == [token \in Reserves |-> us[token][h]]
<1>1. \A token \in Reserves : f[token] = us[token][h] /\ f[token] \in Nat
  BY DEF UsdcType
<1>2. Held(us, h) = SumFunctionOnSet(f, Reserves)
  BY DEF Held
<1> HIDE DEF f
<1> QED
  BY <1>1, <1>2, Parties, SumNat

LEMMA HeldPut ==
  ASSUME NEW us \in UsdcType, NEW token \in Reserves, NEW row \in [Holders -> Nat]
  PROVE  LET vs == [us EXCEPT ![token] = row]
         IN  /\ vs \in UsdcType
             /\ \A h \in Holders : Held(vs, h) = Held(us, h) - us[token][h] + row[h]
<1> DEFINE vs == [us EXCEPT ![token] = row]
<1>1. vs \in UsdcType /\ vs[token] = row /\ \A t \in Reserves \ {token} : vs[t] = us[t]
  BY DEF UsdcType
<1> HIDE DEF vs
<1>2. ASSUME NEW h \in Holders PROVE Held(vs, h) = Held(us, h) - us[token][h] + row[h]
  <2> DEFINE f == [t \in Reserves |-> us[t][h]]
             g == [t \in Reserves |-> vs[t][h]]
  <2>1. \A t \in Reserves : f[t] \in Int /\ g[t] \in Int
    BY <1>1, <1>2 DEF UsdcType
  <2>2. f[token] = us[token][h] /\ g[token] = row[h]
    BY <1>1
  <2>6. AgreeOn(f, g, Reserves \ {token})
    BY <1>1 DEF AgreeOn
  <2>3. Held(us, h) = SumFunctionOnSet(f, Reserves) /\ Held(vs, h) = SumFunctionOnSet(g, Reserves)
    BY DEF Held
  <2> HIDE DEF f, g
  <2>4. Summable(f, Reserves) /\ Summable(g, Reserves)
    BY <2>1, Parties DEF Summable
  <2>5. SumFunctionOnSet(g, Reserves) = SumFunctionOnSet(f, Reserves) - f[token] + g[token]
    BY <2>4, <2>6, SumChange
  <2> QED
    BY <2>2, <2>3, <2>5
<1> QED
  BY <1>1, <1>2 DEF vs

Out(h, from, x) == IF h = from THEN x ELSE 0
In(h, to, x) == IF h = to THEN x ELSE 0

\* A payment that is covered moves the amount and nothing else.
LEMMA PayFacts ==
  ASSUME usdc \in UsdcType, NEW token \in Reserves, NEW from \in Holders, NEW to \in Holders, from # to,
         NEW x \in Nat, x <= usdc[token][from]
  PROVE  /\ Pay(token, from, to, x) \in UsdcType
         /\ \A h \in Holders : Held(Pay(token, from, to, x), h) = Held(usdc, h) - Out(h, from, x) + In(h, to, x)
<1> DEFINE old == usdc[token]
           less == [old EXCEPT ![from] = old[from] - x]
           row == [less EXCEPT ![to] = less[to] + x]
<1>1. old \in [Holders -> Nat]
  BY DEF UsdcType
<1>2. old[from] - x \in Nat
  BY <1>1
<1>3. row = [h \in Holders |-> old[h] - Out(h, from, x) + In(h, to, x)]
  <2>1. less = [h \in Holders |-> IF h = from THEN old[h] - x ELSE old[h]]
    BY <1>1
  <2>2. row = [h \in Holders |-> IF h = to THEN less[h] + x ELSE less[h]]
    BY <2>1
  <2>3. ASSUME NEW h \in Holders PROVE row[h] = old[h] - Out(h, from, x) + In(h, to, x)
    <3> HIDE DEF row, less, old
    <3> QED
      BY <1>1, <2>1, <2>2 DEF Out, In
  <2> HIDE DEF row, less, old
  <2> QED
    BY <2>2, <2>3
<1>4. \A h \in Holders : row[h] \in Nat /\ row[h] = old[h] - Out(h, from, x) + In(h, to, x)
                         /\ Out(h, from, x) \in Nat /\ In(h, to, x) \in Nat /\ old[h] \in Nat
  BY <1>1, <1>2, <1>3 DEF Out, In
<1>5. row \in [Holders -> Nat]
  BY <1>3, <1>4
<1>6. Pay(token, from, to, x) = [usdc EXCEPT ![token] = row]
  BY DEF Pay
<1> HIDE DEF row, less
<1>7. /\ [usdc EXCEPT ![token] = row] \in UsdcType
      /\ \A h \in Holders : Held([usdc EXCEPT ![token] = row], h) = Held(usdc, h) - old[h] + row[h]
  BY <1>5, HeldPut
<1>8. \A h \in Holders : Held(usdc, h) \in Nat
  BY HeldNat
<1>9. ASSUME NEW h \in Holders
      PROVE  Held([usdc EXCEPT ![token] = row], h) = Held(usdc, h) - Out(h, from, x) + In(h, to, x)
  <2> HIDE DEF old
  <2>1. Held([usdc EXCEPT ![token] = row], h) = Held(usdc, h) - old[h] + row[h] /\ Held(usdc, h) \in Nat
    BY <1>7, <1>8
  <2> QED
    BY <1>4, <2>1
<1> QED
  BY <1>6, <1>7, <1>9

LEMMA PayLegacyFacts ==
  ASSUME legacy \in [Users \cup {Stable} -> Nat], NEW from \in Users \cup {Stable},
         NEW to \in Users \cup {Stable}, from # to, NEW x \in Nat, x <= legacy[from]
  PROVE  /\ PayLegacy(from, to, x) \in [Users \cup {Stable} -> Nat]
         /\ \A h \in Users \cup {Stable} :
              PayLegacy(from, to, x)[h] = legacy[h] - Out(h, from, x) + In(h, to, x)
<1> DEFINE row == PayLegacy(from, to, x)
<1>1. legacy[from] - x \in Nat
  OBVIOUS
<1>2. row = [h \in Users \cup {Stable} |-> legacy[h] - Out(h, from, x) + In(h, to, x)]
  <2> DEFINE less == [legacy EXCEPT ![from] = legacy[from] - x]
  <2>1. less = [h \in Users \cup {Stable} |-> IF h = from THEN legacy[h] - x ELSE legacy[h]]
    OBVIOUS
  <2>2. row = [h \in Users \cup {Stable} |-> IF h = to THEN less[h] + x ELSE less[h]]
    BY <2>1 DEF PayLegacy
  <2> HIDE DEF row, less
  <2>3. ASSUME NEW h \in Users \cup {Stable} PROVE row[h] = legacy[h] - Out(h, from, x) + In(h, to, x)
    BY <2>1, <2>2 DEF Out, In
  <2> QED
    BY <2>2, <2>3
<1>3. \A h \in Users \cup {Stable} : legacy[h] - Out(h, from, x) + In(h, to, x) \in Nat
  BY <1>1 DEF Out, In
<1> HIDE DEF row
<1>4. row \in [Users \cup {Stable} -> Nat]
  BY <1>2, <1>3
<1> QED
  BY <1>2, <1>4 DEF row

-----------------------------------------------------------------------------
(* Claims *)

Debt(c, S) == IF ~ c.claimed /\ c.to \in S THEN c.burned ELSE 0

LEMMA ClaimsFinite ==
  ASSUME NEW T, NEW s \in Seq(T)
  PROVE  DOMAIN s = 1 .. Len(s) /\ Len(s) \in Nat /\ IsFiniteSet(DOMAIN s) /\ \A k \in DOMAIN s : s[k] \in T
<1>1. DOMAIN s = 1 .. Len(s) /\ Len(s) \in Nat /\ s \in [1 .. Len(s) -> T]
  BY LenProperties
<1> QED
  BY <1>1, FS_Interval

LEMMA DebtNat ==
  ASSUME NEW c \in Claim, NEW S
  PROVE  Debt(c, S) \in Nat /\ c.burned \in Nat /\ c.to \in Users /\ c.claimed \in BOOLEAN /\ c.handle \in ClaimIds
BY DEF Debt, Claim

LEMMA OwesSum ==
  ASSUME NEW cs \in Seq(Claim), NEW S
  PROVE  LET f == [id \in DOMAIN cs |-> Debt(cs[id], S)]
         IN  /\ Owes(cs, S) = SumFunctionOnSet(f, DOMAIN cs) /\ Owes(cs, S) \in Nat
             /\ \A id \in DOMAIN cs : f[id] \in Nat /\ f[id] = Debt(cs[id], S)
<1> DEFINE f == [id \in DOMAIN cs |-> Debt(cs[id], S)]
<1>1. \A id \in DOMAIN cs : f[id] \in Nat /\ f[id] = Debt(cs[id], S)
  BY ClaimsFinite, DebtNat
<1>2. Owes(cs, S) = SumFunctionOnSet(f, DOMAIN cs)
  BY DEF Owes, Debt
<1> HIDE DEF f
<1>3. SumFunctionOnSet(f, DOMAIN cs) \in Nat
  BY <1>1, ClaimsFinite, SumNat
<1> QED
  BY <1>1, <1>2, <1>3 DEF f

\* A new claim adds what it burned.
LEMMA OwesAppend ==
  ASSUME NEW cs \in Seq(Claim), NEW c \in Claim, NEW S
  PROVE  Owes(Append(cs, c), S) = Owes(cs, S) + Debt(c, S)
<1> DEFINE ds == Append(cs, c)
           n == Len(cs)
           f == [id \in DOMAIN cs |-> Debt(cs[id], S)]
           g == [id \in DOMAIN ds |-> Debt(ds[id], S)]
<1>1. n \in Nat /\ DOMAIN cs = 1 .. n
  BY ClaimsFinite
<1>2. ds \in Seq(Claim) /\ DOMAIN ds = 1 .. n + 1 /\ ds[n + 1] = c /\ \A k \in 1 .. n : ds[k] = cs[k]
  BY <1>1, AppendProperties
<1>3. Owes(cs, S) = SumFunctionOnSet(f, DOMAIN cs) /\ \A k \in DOMAIN cs : f[k] \in Nat /\ f[k] = Debt(cs[k], S)
  BY OwesSum
<1>4. Owes(ds, S) = SumFunctionOnSet(g, DOMAIN ds) /\ \A k \in DOMAIN ds : g[k] \in Nat /\ g[k] = Debt(ds[k], S)
  <2> HIDE DEF ds
  <2> QED
    BY <1>2, OwesSum
<1> HIDE DEF n, ds, f, g
<1>5. \A k \in 1 .. n : f[k] \in Int /\ g[k] = f[k]
  BY <1>1, <1>2, <1>3, <1>4
<1>6. n + 1 \in DOMAIN ds /\ g[n + 1] \in Int /\ g[n + 1] = Debt(c, S)
  BY <1>1, <1>2, <1>4
<1>7. SumFunctionOnSet(g, 1 .. n + 1) = SumFunctionOnSet(f, 1 .. n) + g[n + 1]
  BY <1>1, <1>5, <1>6, SumExtend
<1> QED
  BY <1>1, <1>2, <1>3, <1>4, <1>6, <1>7 DEF ds

\* A settled claim takes what it burned.
LEMMA OwesSettle ==
  ASSUME NEW cs \in Seq(Claim), NEW id \in DOMAIN cs, ~ cs[id].claimed
  PROVE  LET ds == [cs EXCEPT ![id].claimed = TRUE]
         IN  /\ ds \in Seq(Claim) /\ Len(ds) = Len(cs) /\ DOMAIN ds = DOMAIN cs
             /\ \A S : Owes(ds, S) = Owes(cs, S) - Debt(cs[id], S) /\ Debt(cs[id], S) <= Owes(cs, S)
             /\ \A k \in DOMAIN cs : ds[k].to = cs[k].to /\ (ds[k].claimed <=> cs[k].claimed \/ k = id)
<1> DEFINE c == [cs[id] EXCEPT !.claimed = TRUE]
           ds == [cs EXCEPT ![id] = c]
<1>1. DOMAIN cs = 1 .. Len(cs) /\ Len(cs) \in Nat /\ IsFiniteSet(DOMAIN cs) /\ cs[id] \in Claim
  BY ClaimsFinite
<1>2. c \in Claim /\ c.claimed /\ c.to = cs[id].to
  BY <1>1 DEF Claim
<1> HIDE DEF c
<1>3. /\ ds \in Seq(Claim) /\ Len(ds) = Len(cs) /\ DOMAIN ds = DOMAIN cs
      /\ ds[id] = c /\ \A k \in DOMAIN cs \ {id} : ds[k] = cs[k]
  BY <1>1, <1>2, ExceptSeq
<1> HIDE DEF ds
<1>4. ASSUME NEW S PROVE Owes(ds, S) = Owes(cs, S) - Debt(cs[id], S) /\ Debt(cs[id], S) <= Owes(cs, S)
  <2> DEFINE f == [k \in DOMAIN cs |-> Debt(cs[k], S)]
             g == [k \in DOMAIN ds |-> Debt(ds[k], S)]
  <2>1. Owes(cs, S) = SumFunctionOnSet(f, DOMAIN cs) /\ \A k \in DOMAIN cs : f[k] \in Nat /\ f[k] = Debt(cs[k], S)
    BY OwesSum
  <2>2. Owes(ds, S) = SumFunctionOnSet(g, DOMAIN cs) /\ \A k \in DOMAIN cs : g[k] \in Nat /\ g[k] = Debt(ds[k], S)
    BY <1>3, OwesSum
  <2> HIDE DEF f, g
  <2>3. AgreeOn(f, g, DOMAIN cs \ {id})
    BY <1>3, <2>1, <2>2 DEF AgreeOn
  <2>4. Summable(f, DOMAIN cs) /\ Summable(g, DOMAIN cs)
    BY <1>1, <2>1, <2>2 DEF Summable
  <2>5. SumFunctionOnSet(g, DOMAIN cs) = SumFunctionOnSet(f, DOMAIN cs) - f[id] + g[id]
    BY <2>3, <2>4, SumChange
  <2>6. g[id] = 0 /\ f[id] = Debt(cs[id], S) /\ f[id] \in Nat
    BY <1>2, <1>3, <2>1, <2>2 DEF Debt
  <2>7. f[id] <= SumFunctionOnSet(f, DOMAIN cs) /\ SumFunctionOnSet(f, DOMAIN cs) \in Nat
    BY <1>1, <2>1, SumNat
  <2> QED
    BY <2>1, <2>2, <2>5, <2>6, <2>7
<1>5. \A k \in DOMAIN cs : ds[k].to = cs[k].to /\ (ds[k].claimed <=> cs[k].claimed \/ k = id)
  <2>1. \A k \in DOMAIN cs : k # id => ds[k] = cs[k]
    BY <1>3
  <2>2. ds[id].to = cs[id].to /\ ds[id].claimed
    BY <1>2, <1>3
  <2> QED
    BY <2>1, <2>2
<1>6. ds = [cs EXCEPT ![id].claimed = TRUE]
  BY DEF ds, c
<1> QED
  BY <1>3, <1>4, <1>5, <1>6

-----------------------------------------------------------------------------
(* Lists of pending withdrawals *)

LEMMA AppendLists ==
  ASSUME NEW T, NEW list \in Seq(T), NEW S, Lists(list, S), NEW x \in T, x \notin S
  PROVE  /\ Append(list, x) \in Seq(T) /\ Len(Append(list, x)) = Len(list) + 1
         /\ Lists(Append(list, x), S \cup {x})
<1> DEFINE n == Len(list)
           new == Append(list, x)
<1>1. n \in Nat /\ DOMAIN list = 1 .. n
  BY ClaimsFinite
<1>2. /\ new \in Seq(T) /\ Len(new) = n + 1 /\ DOMAIN new = 1 .. n + 1
      /\ new[n + 1] = x /\ \A k \in 1 .. n : new[k] = list[k]
  BY <1>1, AppendProperties
<1> HIDE DEF n, new
<1>3. \A k \in 1 .. n : list[k] \in S
  BY <1>1 DEF Lists
<1>4. 1 .. n + 1 = (1 .. n) \cup {n + 1}
  BY <1>1
<1>5. Once(new)
  <2>1. ASSUME NEW j \in 1 .. n + 1, NEW k \in 1 .. n + 1, new[j] = new[k] PROVE j = k
    <3>1. CASE j \in 1 .. n /\ k \in 1 .. n
      BY <1>1, <1>2, <2>1, <3>1 DEF Lists, Once
    <3>2. CASE j = n + 1 \/ k = n + 1
      BY <1>2, <1>3, <1>4, <2>1, <3>2
    <3> QED
      BY <1>4, <3>1, <3>2
  <2> QED
    BY <1>2, <2>1 DEF Once
<1>6. {new[k] : k \in DOMAIN new} = S \cup {x}
  <2>1. {list[k] : k \in 1 .. n} = S
    BY <1>1 DEF Lists
  <2> QED
    BY <1>2, <1>4, <2>1
<1> QED
  BY <1>2, <1>5, <1>6 DEF Lists, n, new

\* Settling drops the one entry, wherever it stands.
LEMMA SwapLists ==
  ASSUME NEW T, NEW list \in Seq(T), NEW S, Lists(list, S), NEW id \in S
  PROVE  /\ SwapAndPop(list, id) \in Seq(T) /\ Len(SwapAndPop(list, id)) = Len(list) - 1
         /\ Lists(SwapAndPop(list, id), S \ {id})
<1> DEFINE n == Len(list)
           swapped == [k \in 1 .. n |-> IF list[k] = id THEN list[n] ELSE list[k]]
           new == SubSeq(swapped, 1, n - 1)
<1>1. n \in Nat /\ DOMAIN list = 1 .. n /\ \A k \in 1 .. n : list[k] \in T
  BY ClaimsFinite
<1>2. PICK p \in 1 .. n : list[p] = id
  BY <1>1 DEF Lists
<1>3. n - 1 \in Nat /\ n \in 1 .. n /\ 1 .. n - 1 \subseteq 1 .. n /\ \A k \in 1 .. n : k \in 1 .. n - 1 \/ k = n
  <2> HIDE DEF n, swapped, new
  <2>1. n >= 1
    BY <1>1, <1>2
  <2> QED
    BY <1>1, <2>1
<1>4. \A j, k \in 1 .. n : list[j] = list[k] => j = k
  BY <1>1 DEF Lists, Once
<1>5. SwapAndPop(list, id) = new
  BY <1>2 DEF SwapAndPop
<1>6. /\ new \in Seq(T) /\ Len(new) = n - 1 /\ DOMAIN new = 1 .. n - 1
      /\ \A k \in 1 .. n - 1 : new[k] = IF k = p THEN list[n] ELSE list[k]
  <2>1. \A k \in 1 .. n : swapped[k] \in T
    BY <1>1, <1>3
  <2>2. \A k \in 1 .. n - 1 : swapped[k] = IF k = p THEN list[n] ELSE list[k]
    BY <1>2, <1>3, <1>4
  <2> HIDE DEF swapped
  <2>3. /\ new \in Seq(T) /\ Len(new) = IF 1 <= n - 1 THEN (n - 1) - 1 + 1 ELSE 0
        /\ \A k \in 1 .. ((n - 1) - 1 + 1) : new[k] = swapped[1 + k - 1]
    <3>1. \A k \in 1 .. n - 1 : swapped[k] \in T
      BY <1>3, <2>1
    <3>2. 1 \in Int /\ n - 1 \in Int
      BY <1>1
    <3> QED
      BY <3>1, <3>2, SubSeqProperties
  <2>4. Len(new) = n - 1 /\ \A k \in 1 .. n - 1 : new[k] = swapped[k]
    <3> HIDE DEF n, new
    <3>1. (n - 1) - 1 + 1 = n - 1
      BY <1>1
    <3>2. Len(new) = n - 1
      BY <1>3, <2>3, <3>1
    <3>3. ASSUME NEW k \in 1 .. n - 1 PROVE new[k] = swapped[k]
      <4>1. 1 + k - 1 = k
        OBVIOUS
      <4> QED
        BY <2>3, <3>1, <4>1
    <3> QED
      BY <3>2, <3>3
  <2> HIDE DEF new
  <2>5. DOMAIN new = 1 .. n - 1
    BY <2>3, <2>4, ClaimsFinite
  <2> QED
    BY <2>2, <2>3, <2>4, <2>5
<1> HIDE DEF n, swapped, new
<1>7. Once(new)
  <2>1. ASSUME NEW j \in 1 .. n - 1, NEW k \in 1 .. n - 1, new[j] = new[k] PROVE j = k
    <3>1. j \in 1 .. n /\ k \in 1 .. n /\ j # n /\ k # n
      BY <1>1, <1>3
    <3> QED
      BY <1>3, <1>4, <1>6, <2>1, <3>1
  <2> QED
    BY <1>6, <2>1 DEF Once
<1>8. {new[k] : k \in DOMAIN new} = S \ {id}
  <2>1. {list[k] : k \in 1 .. n} = S
    BY <1>1 DEF Lists
  <2>2. ASSUME NEW k \in 1 .. n - 1 PROVE new[k] \in S \ {id}
    <3>1. k \in 1 .. n /\ k # n
      BY <1>1, <1>3
    <3>2. new[k] \in S
      BY <1>3, <1>6, <2>1, <3>1
    <3>3. new[k] # id
      BY <1>2, <1>3, <1>4, <1>6, <3>1
    <3> QED
      BY <3>2, <3>3
  <2>3. ASSUME NEW x \in S \ {id} PROVE \E k \in 1 .. n - 1 : new[k] = x
    <3>1. PICK k \in 1 .. n : list[k] = x
      BY <2>1
    <3>2. k # p
      BY <1>2, <3>1
    <3>3. CASE k = n
      <4>1. p \in 1 .. n - 1
        BY <1>3, <3>2, <3>3
      <4> QED
        BY <1>6, <3>1, <3>3, <4>1
    <3>4. CASE k \in 1 .. n - 1
      BY <1>6, <3>1, <3>2, <3>4
    <3> QED
      BY <1>3, <3>3, <3>4
  <2> QED
    BY <1>6, <2>2, <2>3
<1> QED
  BY <1>5, <1>6, <1>7, <1>8 DEF Lists, n

\* A list without repetition is as long as the set is large.
LEMMA ListCount ==
  ASSUME NEW T, NEW list \in Seq(T), NEW S, Lists(list, S)
  PROVE  Cardinality(S) = Len(list)
<1>1. Len(list) \in Nat /\ DOMAIN list = 1 .. Len(list) /\ list \in [1 .. Len(list) -> T]
  BY LenProperties
<1>2. list \in Bijection(1 .. Len(list), S)
  BY <1>1 DEF Lists, Once, Bijection, Injection, Surjection, IsInjective
<1>3. ExistsBijection(1 .. Len(list), S)
  BY <1>2 DEF ExistsBijection
<1> QED
  BY <1>1, <1>3, FS_CountingElements

-----------------------------------------------------------------------------
(* Recoveries in flight *)

LEMMA RecoveriesNat ==
  ASSUME NEW s \in Seq(Nat)
  PROVE  SumOf(s) \in Nat /\ \A k \in DOMAIN s : s[k] \in Nat /\ s[k] <= SumOf(s)
BY ClaimsFinite, SumNat DEF SumOf

LEMMA RecoveriesAppend ==
  ASSUME NEW s \in Seq(Nat), NEW x \in Nat
  PROVE  Append(s, x) \in Seq(Nat) /\ SumOf(Append(s, x)) = SumOf(s) + x
<1> DEFINE n == Len(s)
           r == Append(s, x)
<1>1. n \in Nat /\ DOMAIN s = 1 .. n /\ \A k \in 1 .. n : s[k] \in Nat
  BY ClaimsFinite
<1>2. r \in Seq(Nat) /\ Len(r) = n + 1 /\ r[n + 1] = x /\ \A k \in 1 .. n : r[k] = s[k]
  BY AppendProperties
<1>3. DOMAIN r = 1 .. n + 1
  BY <1>2, LenProperties
<1> HIDE DEF n, r
<1>4. SumFunctionOnSet(r, 1 .. n + 1) = SumFunctionOnSet(s, 1 .. n) + r[n + 1]
  <2>1. (\A k \in 1 .. n : s[k] \in Int /\ r[k] = s[k]) /\ r[n + 1] \in Int
    BY <1>1, <1>2
  <2> QED
    BY <1>1, <2>1, SumExtend
<1> QED
  BY <1>1, <1>2, <1>3, <1>4 DEF SumOf, r

LEMMA RecoveriesPaid ==
  ASSUME NEW s \in Seq(Nat), NEW k \in DOMAIN s
  PROVE  [s EXCEPT ![k] = 0] \in Seq(Nat) /\ SumOf([s EXCEPT ![k] = 0]) = SumOf(s) - s[k]
<1> DEFINE r == [s EXCEPT ![k] = 0]
<1>1. DOMAIN s = 1 .. Len(s) /\ IsFiniteSet(DOMAIN s) /\ \A j \in DOMAIN s : s[j] \in Nat
  BY ClaimsFinite
<1>2. r \in Seq(Nat) /\ DOMAIN r = DOMAIN s /\ r[k] = 0 /\ \A j \in DOMAIN s \ {k} : r[j] = s[j]
  BY <1>1, ExceptSeq
<1> HIDE DEF r
<1>3. Summable(s, DOMAIN s) /\ Summable(r, DOMAIN s) /\ AgreeOn(s, r, DOMAIN s \ {k})
  BY <1>1, <1>2 DEF Summable, AgreeOn
<1>4. SumFunctionOnSet(r, DOMAIN s) = SumFunctionOnSet(s, DOMAIN s) - s[k] + r[k]
  BY <1>3, SumChange
<1>5. SumFunctionOnSet(s, DOMAIN s) \in Int /\ s[k] \in Int
  BY <1>1, <1>3, SumInt
<1> QED
  BY <1>2, <1>4, <1>5 DEF SumOf, r

-----------------------------------------------------------------------------
(* Sums of the state *)

LEMMA Names ==
  /\ \A h : UsdcOf(h) = Held(usdc, h)
  /\ \A S : OwedTo(S) = Owes(claims, S)
BY DEF UsdcOf, OwedTo, SumOf, Held, Owes

LEMMA NamesAfter ==
  /\ \A h : UsdcOf(h)' = Held(usdc', h)
  /\ \A S : OwedTo(S)' = Owes(claims', S)
BY DEF UsdcOf, OwedTo, SumOf, Held, Owes

LEMMA InvFacts ==
  ASSUME IInv
  PROVE  /\ TypeOK /\ CashKept /\ ClaimsKept /\ PendingKept /\ Collateralised
         /\ cash \in Ledger(Users) /\ cash.bal \in [Users -> Nat] /\ cash.supply \in Nat
         /\ usdc \in UsdcType /\ legacy \in [Users \cup {Stable} -> Nat]
         /\ recoveries \in Seq(Nat) /\ claims \in Seq(Claim)
         /\ reserve \in Reserves \cup {Unset} /\ readable \subseteq ClaimIds /\ halted \subseteq Halts
         /\ pending \in [Users -> Seq(DOMAIN claims)]
         /\ SumOf(recoveries) \in Nat
         /\ \A h \in Holders : Held(usdc, h) \in Nat
         /\ \A S : Owes(claims, S) \in Nat
<1>1. /\ TypeOK /\ CashKept /\ ClaimsKept /\ PendingKept /\ Collateralised
      /\ cash \in Ledger(Users) /\ cash.bal \in [Users -> Nat] /\ cash.supply \in Nat
      /\ usdc \in UsdcType /\ legacy \in [Users \cup {Stable} -> Nat]
      /\ recoveries \in Seq(Nat) /\ claims \in Seq(Claim)
      /\ reserve \in Reserves \cup {Unset} /\ readable \subseteq ClaimIds /\ halted \subseteq Halts
      /\ pending \in [Users -> Seq(DOMAIN claims)]
  BY DEF IInv, TypeOK, CashKept, Ledger, UsdcType
<1> QED
  BY <1>1, RecoveriesNat, HeldNat, OwesSum

\* What the wrapper and its owner hold beyond what is owed; it is what they started with.
Surplus ==
  Held(usdc, Stable) + legacy[Stable] + SumOf(recoveries) + Held(usdc, Owner)
    - (cash.supply + Owes(claims, Users))
Start ==
  SumOf([token \in Reserves |-> InitialUsdc[token][Stable] + InitialUsdc[token][Owner]])
    + InitialLegacy[Stable]

LEMMA StartNat ==
  /\ SumOf([token \in Reserves |-> InitialUsdc[token][Stable] + InitialUsdc[token][Owner]])
       = Held(InitialUsdc, Stable) + Held(InitialUsdc, Owner)
  /\ Held(InitialUsdc, Stable) \in Nat /\ Held(InitialUsdc, Owner) \in Nat /\ InitialLegacy[Stable] \in Nat
<1> DEFINE f == [token \in Reserves |-> InitialUsdc[token][Stable]]
           g == [token \in Reserves |-> InitialUsdc[token][Owner]]
           h == [token \in Reserves |-> InitialUsdc[token][Stable] + InitialUsdc[token][Owner]]
<1>1. \A token \in Reserves : f[token] \in Int /\ g[token] \in Int /\ h[token] = f[token] + g[token]
  BY Parties DEF UsdcType
<1>2. /\ Held(InitialUsdc, Stable) = SumFunctionOnSet(f, Reserves)
      /\ Held(InitialUsdc, Owner) = SumFunctionOnSet(g, Reserves)
      /\ SumOf(h) = SumFunctionOnSet(h, Reserves)
  BY DEF Held, SumOf
<1> HIDE DEF f, g, h
<1>3. SumFunctionOnSet(h, Reserves) = SumFunctionOnSet(f, Reserves) + SumFunctionOnSet(g, Reserves)
  <2>1. Summable(f, Reserves) /\ Summable(g, Reserves)
    BY <1>1, Parties DEF Summable
  <2> QED
    BY <1>1, <2>1, SumPlus
<1>4. Held(InitialUsdc, Stable) \in Nat /\ Held(InitialUsdc, Owner) \in Nat /\ InitialLegacy[Stable] \in Nat
  BY Parties, HeldNat
<1> QED
  BY <1>2, <1>3, <1>4 DEF h

LEMMA SurplusIsStart ==
  ASSUME cash.supply \in Nat, legacy[Stable] \in Nat, SumOf(recoveries) \in Nat,
         \A h \in Holders : Held(usdc, h) \in Nat, \A S : Owes(claims, S) \in Nat
  PROVE  Collateralised <=> Surplus = Start
<1> DEFINE s == SumOf([token \in Reserves |-> InitialUsdc[token][Stable] + InitialUsdc[token][Owner]])
           r == SumOf(recoveries)
           hs == Held(usdc, Stable)
           ho == Held(usdc, Owner)
           o == Owes(claims, Users)
<1>1. s \in Nat /\ r \in Nat /\ hs \in Nat /\ ho \in Nat /\ o \in Nat /\ InitialLegacy[Stable] \in Nat
  <2>1. s \in Nat /\ InitialLegacy[Stable] \in Nat
    BY StartNat
  <2> QED
    BY <2>1, Parties
<1>2. Collateralised <=> hs + legacy[Stable] + r + ho - s - InitialLegacy[Stable] = cash.supply + o
  BY Names DEF Collateralised
<1>3. Surplus = hs + legacy[Stable] + r + ho - (cash.supply + o) /\ Start = s + InitialLegacy[Stable]
  BY DEF Surplus, Start
<1> HIDE DEF s, r, hs, ho, o
<1>4. Surplus = Start <=> hs + legacy[Stable] + r + ho - s - InitialLegacy[Stable] = cash.supply + o
  BY <1>1, <1>3
<1> QED
  BY <1>2, <1>4

LEMMA SurplusIsStartAfter ==
  ASSUME cash'.supply \in Nat, legacy'[Stable] \in Nat, SumOf(recoveries') \in Nat,
         \A h \in Holders : Held(usdc', h) \in Nat, \A S : Owes(claims', S) \in Nat
  PROVE  Surplus' = Start => Collateralised'
<1> DEFINE s == SumOf([token \in Reserves |-> InitialUsdc[token][Stable] + InitialUsdc[token][Owner]])
           r == SumOf(recoveries')
           hs == Held(usdc', Stable)
           ho == Held(usdc', Owner)
           o == Owes(claims', Users)
<1>1. s \in Nat /\ r \in Nat /\ hs \in Nat /\ ho \in Nat /\ o \in Nat /\ InitialLegacy[Stable] \in Nat
  <2>1. s \in Nat /\ InitialLegacy[Stable] \in Nat
    BY StartNat
  <2> QED
    BY <2>1, Parties
<1>2. Collateralised' <=> hs + legacy'[Stable] + r + ho - s - InitialLegacy[Stable] = cash'.supply + o
  BY NamesAfter DEF Collateralised, SumOf
<1>3. Surplus' = hs + legacy'[Stable] + r + ho - (cash'.supply + o) /\ Start = s + InitialLegacy[Stable]
  BY DEF Surplus, Start, SumOf, Held, Owes
<1> HIDE DEF s, r, hs, ho, o
<1> QED
  BY <1>1, <1>2, <1>3

\* The state as typed after a step.
Typed ==
  /\ cash \in Ledger(Users) /\ cash.supply = Total(cash, Users)
  /\ usdc \in UsdcType /\ legacy \in [Users \cup {Stable} -> Nat] /\ recoveries \in Seq(Nat)
  /\ halted \subseteq Halts

\* The withdrawals of a user, and what the lists of them say.
ExitsTyped ==
  /\ claims \in Seq(Claim) /\ Len(claims) <= MaxClaims /\ readable \subseteq ClaimIds
  /\ reserve \in Reserves \cup {Unset} /\ (claims # <<>> => reserve \in Reserves)
  /\ pending \in [Users -> Seq(DOMAIN claims)] /\ PendingKept

\* A step that keeps the surplus keeps the invariant.
LEMMA Keeps ==
  ASSUME IInv, Typed', ExitsTyped', Surplus' = Surplus
  PROVE  IInv'
<1>1. cash'.supply \in Nat /\ legacy'[Stable] \in Nat /\ cash' \in Ledger(Users)
  BY DEF Typed, Ledger
<1>2. SumOf(recoveries') \in Nat
  BY RecoveriesNat DEF Typed
<1>3. \A h \in Holders : Held(usdc', h) \in Nat
  BY HeldNat DEF Typed
<1>4. \A S : Owes(claims', S) \in Nat
  BY OwesSum DEF ExitsTyped
<1>5. Surplus = Start
  BY InvFacts, SurplusIsStart
<1>6. Collateralised'
  BY <1>1, <1>2, <1>3, <1>4, <1>5, SurplusIsStartAfter
<1>7. TypeOK'
  BY DEF Typed, ExitsTyped, TypeOK, Ledger, UsdcType
<1>8. CashKept' /\ ClaimsKept' /\ PendingKept'
  BY DEF Typed, ExitsTyped, CashKept, ClaimsKept
<1> QED
  BY <1>6, <1>7, <1>8 DEF IInv

\* What leaves the withdrawals alone.
LEMMA ExitsStay ==
  ASSUME IInv, UNCHANGED exits, reserve' \in Reserves \cup {Unset}, reserve \in Reserves => reserve' \in Reserves
  PROVE  ExitsTyped' /\ \A S : Owes(claims', S) = Owes(claims, S)
<1>1. claims' = claims /\ pending' = pending /\ readable' = readable
  BY DEF exits
<1>2. PendingKept'
  BY <1>1, InvFacts DEF PendingKept
<1> QED
  BY <1>1, <1>2, InvFacts DEF ExitsTyped, ClaimsKept

\* A user's value, form by form.
Worth(u) == cash.bal[u] + Owes(claims, {u}) + Held(usdc, u) + legacy[u]

LEMMA ValueForms == \A u \in Users : Value[u] = Worth(u)
BY Names DEF Value, Worth

LEMMA SameValue ==
  ASSUME \A u \in Users : Worth(u)' = Worth(u)
  PROVE  Value' = Value
BY Names, NamesAfter DEF Value, Worth

LEMMA Forms ==
  /\ Surplus' = Held(usdc', Stable) + legacy'[Stable] + SumOf(recoveries') + Held(usdc', Owner)
                  - (cash'.supply + Owes(claims', Users))
  /\ \A v \in Users : Worth(v)' = cash'.bal[v] + Owes(claims', {v}) + Held(usdc', v) + legacy'[v]
BY DEF Surplus, Worth, SumOf, Held, Owes

LEMMA Nats ==
  ASSUME IInv
  PROVE  /\ Held(usdc, Stable) \in Nat /\ Held(usdc, Owner) \in Nat /\ legacy[Stable] \in Nat
         /\ SumOf(recoveries) \in Nat /\ cash.supply \in Nat /\ Owes(claims, Users) \in Nat
         /\ \A v \in Users : /\ cash.bal[v] \in Nat /\ Owes(claims, {v}) \in Nat
                             /\ Held(usdc, v) \in Nat /\ legacy[v] \in Nat
BY InvFacts, Parties

\* The cash ledger after a mint and after a burn that is covered.
LEMMA Minted ==
  ASSUME IInv, NEW u \in Users, NEW x \in Nat, cash' = MintInternal(cash, u, x)
  PROVE  /\ cash' \in Ledger(Users) /\ cash'.supply = cash.supply + x /\ cash'.supply = Total(cash', Users)
         /\ \A v \in Users : cash'.bal[v] = cash.bal[v] + In(v, u, x)
<1>1. cash \in Ledger(Users) /\ IsFiniteSet(Users) /\ cash.supply = Total(cash, Users) /\ cash.bal \in [Users -> Nat]
  BY InvFacts, Parties DEF CashKept
<1>2. /\ MintInternal(cash, u, x) \in Ledger(Users)
      /\ MintInternal(cash, u, x).supply = cash.supply + x
      /\ MintInternal(cash, u, x).bal = [cash.bal EXCEPT ![u] = cash.bal[u] + x]
      /\ Total(MintInternal(cash, u, x), Users) = Total(cash, Users) + x
  BY <1>1, MintFacts
<1>3. \A v \in Users : [cash.bal EXCEPT ![u] = cash.bal[u] + x][v] = cash.bal[v] + In(v, u, x)
  BY <1>1 DEF In
<1> QED
  BY <1>1, <1>2, <1>3

LEMMA Burned ==
  ASSUME IInv, NEW u \in Users, NEW x \in Nat, x <= cash.bal[u], cash' = BurnInternal(cash, u, x)
  PROVE  /\ cash' \in Ledger(Users) /\ cash'.supply = cash.supply - x /\ cash'.supply = Total(cash', Users)
         /\ \A v \in Users : cash'.bal[v] = cash.bal[v] - Out(v, u, x)
<1>1. /\ cash \in Ledger(Users) /\ IsFiniteSet(Users) /\ cash.supply = Total(cash, Users)
      /\ cash.bal \in [Users -> Nat] /\ cash.supply \in Nat
  BY InvFacts, Parties DEF CashKept
<1>2. x <= cash.supply
  <2>1. cash.bal[u] <= cash.supply
    BY <1>1, BalanceBelowSupply
  <2> QED
    BY <1>1, <2>1
<1>3. /\ BurnInternal(cash, u, x) \in Ledger(Users)
      /\ BurnInternal(cash, u, x).supply = cash.supply - x
      /\ BurnInternal(cash, u, x).bal = [cash.bal EXCEPT ![u] = cash.bal[u] - x]
      /\ Total(BurnInternal(cash, u, x), Users) = Total(cash, Users) - x
  BY <1>1, <1>2, BurnFacts
<1>4. \A v \in Users : [cash.bal EXCEPT ![u] = cash.bal[u] - x][v] = cash.bal[v] - Out(v, u, x)
  BY <1>1 DEF Out
<1> QED
  BY <1>1, <1>3, <1>4

\* The legacy token paid by a user to the wrapper, or by the wrapper to a user.
LEMMA LegacyIn ==
  ASSUME IInv, NEW u \in Users, NEW x \in Nat, x <= legacy[u], legacy' = PayLegacy(u, Stable, x)
  PROVE  /\ legacy' \in [Users \cup {Stable} -> Nat] /\ legacy'[Stable] = legacy[Stable] + x
         /\ \A v \in Users : legacy'[v] = legacy[v] - Out(v, u, x)
<1> DEFINE p == PayLegacy(u, Stable, x)
<1>1. legacy \in [Users \cup {Stable} -> Nat] /\ u # Stable /\ u \in Users \cup {Stable} /\ Stable \in Users \cup {Stable}
  BY InvFacts, Parties
<1>2. /\ p \in [Users \cup {Stable} -> Nat]
      /\ \A h \in Users \cup {Stable} : p[h] = legacy[h] - Out(h, u, x) + In(h, Stable, x)
  BY <1>1, PayLegacyFacts
<1> HIDE DEF p
<1>3. p[Stable] = legacy[Stable] + x
  <2>1. Out(Stable, u, x) = 0 /\ In(Stable, Stable, x) = x
    BY <1>1 DEF Out, In
  <2> QED
    BY <1>1, <1>2, <2>1, Nats
<1>4. ASSUME NEW v \in Users PROVE p[v] = legacy[v] - Out(v, u, x)
  <2>1. In(v, Stable, x) = 0 /\ Out(v, u, x) \in Nat
    BY Parties DEF Out, In
  <2>2. p[v] = legacy[v] - Out(v, u, x) + In(v, Stable, x)
    BY <1>2
  <2>3. legacy[v] \in Nat
    BY Nats
  <2> QED
    BY <2>1, <2>2, <2>3
<1> QED
  BY <1>2, <1>3, <1>4 DEF p

LEMMA LegacyOut ==
  ASSUME IInv, NEW u \in Users, NEW x \in Nat, x <= legacy[Stable], legacy' = PayLegacy(Stable, u, x)
  PROVE  /\ legacy' \in [Users \cup {Stable} -> Nat] /\ legacy'[Stable] = legacy[Stable] - x
         /\ \A v \in Users : legacy'[v] = legacy[v] + In(v, u, x)
<1> DEFINE p == PayLegacy(Stable, u, x)
<1>1. legacy \in [Users \cup {Stable} -> Nat] /\ u # Stable /\ u \in Users \cup {Stable} /\ Stable \in Users \cup {Stable}
  BY InvFacts, Parties
<1>2. /\ p \in [Users \cup {Stable} -> Nat]
      /\ \A h \in Users \cup {Stable} : p[h] = legacy[h] - Out(h, Stable, x) + In(h, u, x)
  BY <1>1, PayLegacyFacts
<1> HIDE DEF p
<1>3. p[Stable] = legacy[Stable] - x
  <2>1. Out(Stable, Stable, x) = x /\ In(Stable, u, x) = 0
    BY <1>1 DEF Out, In
  <2> QED
    BY <1>1, <1>2, <2>1, Nats
<1>4. ASSUME NEW v \in Users PROVE p[v] = legacy[v] + In(v, u, x)
  <2>1. Out(v, Stable, x) = 0 /\ In(v, u, x) \in Nat
    BY Parties DEF Out, In
  <2>2. p[v] = legacy[v] - Out(v, Stable, x) + In(v, u, x)
    BY <1>2
  <2>3. legacy[v] \in Nat
    BY Nats
  <2> QED
    BY <2>1, <2>2, <2>3
<1> QED
  BY <1>2, <1>3, <1>4 DEF p

LEMMA OutIn ==
  ASSUME NEW v, NEW u, NEW x \in Nat
  PROVE  Out(v, u, x) \in Nat /\ In(v, u, x) = Out(v, u, x)
BY DEF Out, In

-----------------------------------------------------------------------------
(* Wrap and unwrap *)

LEMMA WrapUsdcKeeps ==
  ASSUME IInv, NEW u \in Users, NEW amount \in Nat, WrapUsdc(u, amount)
  PROVE  IInv' /\ Value' = Value
<1>1. /\ reserve \in Reserves /\ amount <= CashMax /\ amount <= usdc[reserve][u]
      /\ usdc' = Pay(reserve, u, Stable, amount)
      /\ cash' = MintInternal(cash, u, Narrow(amount, CashMax))
      /\ legacy' = legacy /\ recoveries' = recoveries /\ reserve' = reserve /\ halted' = halted
      /\ UNCHANGED exits
  BY InvFacts DEF WrapUsdc
<1>2. cash' = MintInternal(cash, u, amount)
  BY <1>1, Parties, NarrowFits
<1>3. /\ cash' \in Ledger(Users) /\ cash'.supply = cash.supply + amount /\ cash'.supply = Total(cash', Users)
      /\ \A v \in Users : cash'.bal[v] = cash.bal[v] + In(v, u, amount)
  BY <1>2, Minted
<1>4. u \in Holders /\ Stable \in Holders /\ Owner \in Holders /\ u # Stable /\ u # Owner /\ Stable # Owner
  BY Parties
<1>5. /\ usdc' \in UsdcType
      /\ \A h \in Holders : Held(usdc', h) = Held(usdc, h) - Out(h, u, amount) + In(h, Stable, amount)
  BY <1>1, <1>4, InvFacts, PayFacts
<1>6. Typed' /\ ExitsTyped' /\ \A S : Owes(claims', S) = Owes(claims, S)
  BY <1>1, <1>3, <1>5, InvFacts, ExitsStay DEF Typed
<1>7. /\ Held(usdc', Stable) = Held(usdc, Stable) + amount
      /\ Held(usdc', Owner) = Held(usdc, Owner)
      /\ Held(usdc', u) = Held(usdc, u) - amount
  BY <1>4, <1>5, InvFacts DEF Out, In
<1>8. Surplus' = Surplus
  BY <1>1, <1>3, <1>6, <1>7, Forms, Nats DEF Surplus
<1>9. ASSUME NEW v \in Users PROVE Worth(v)' = Worth(v)
  <2>1. v \in Holders /\ v # Stable
    BY Parties
  <2>2. Held(usdc', v) = Held(usdc, v) - Out(v, u, amount)
    BY <1>5, <2>1, InvFacts DEF Out, In
  <2>3. cash'.bal[v] = cash.bal[v] + In(v, u, amount)
    BY <1>3
  <2>4. Out(v, u, amount) \in Nat /\ In(v, u, amount) = Out(v, u, amount)
    BY DEF Out, In
  <2> QED
    BY <1>1, <1>6, <2>2, <2>3, <2>4, Forms, Nats DEF Worth
<1> QED
  BY <1>6, <1>8, <1>9, Keeps, SameValue

LEMMA WrapKeeps ==
  ASSUME IInv, NEW u \in Users, NEW amount \in Nat, Wrap(u, amount)
  PROVE  IInv' /\ Value' = Value
<1>1. /\ amount <= legacy[u] /\ legacy' = PayLegacy(u, Stable, amount) /\ cash' = MintInternal(cash, u, amount)
      /\ usdc' = usdc /\ recoveries' = recoveries /\ reserve' = reserve /\ halted' = halted
      /\ UNCHANGED exits
  BY DEF Wrap
<1>2. /\ cash' \in Ledger(Users) /\ cash'.supply = cash.supply + amount /\ cash'.supply = Total(cash', Users)
      /\ \A v \in Users : cash'.bal[v] = cash.bal[v] + In(v, u, amount)
  BY <1>1, Minted
<1>3. /\ legacy' \in [Users \cup {Stable} -> Nat] /\ legacy'[Stable] = legacy[Stable] + amount
      /\ \A v \in Users : legacy'[v] = legacy[v] - Out(v, u, amount)
  BY <1>1, LegacyIn
<1>4. Typed' /\ ExitsTyped' /\ \A S : Owes(claims', S) = Owes(claims, S)
  BY <1>1, <1>2, <1>3, InvFacts, ExitsStay DEF Typed
<1>5. Surplus' = Surplus
  BY <1>1, <1>2, <1>3, <1>4, Forms, Nats DEF Surplus
<1>6. ASSUME NEW v \in Users PROVE Worth(v)' = Worth(v)
  <2>1. legacy'[v] = legacy[v] - Out(v, u, amount) /\ cash'.bal[v] = cash.bal[v] + Out(v, u, amount)
    BY <1>2, <1>3, OutIn
  <2> QED
    BY <1>1, <1>4, <2>1, OutIn, Forms, Nats DEF Worth
<1> QED
  BY <1>4, <1>5, <1>6, Keeps, SameValue

LEMMA UnwrapKeeps ==
  ASSUME IInv, NEW u \in Users, NEW amount \in Nat, Unwrap(u, amount)
  PROVE  IInv' /\ Value' = Value
<1> DEFINE x == SilentFail(amount, cash.bal[u])
<1>1. /\ x <= legacy[Stable] /\ legacy' = PayLegacy(Stable, u, x) /\ cash' = BurnInternal(cash, u, x)
      /\ usdc' = usdc /\ recoveries' = recoveries /\ reserve' = reserve /\ halted' = halted
      /\ UNCHANGED exits
  BY DEF Unwrap
<1>2. x \in Nat /\ x <= cash.bal[u]
  BY Nats, Bounds
<1> HIDE DEF x
<1>3. /\ cash' \in Ledger(Users) /\ cash'.supply = cash.supply - x /\ cash'.supply = Total(cash', Users)
      /\ \A v \in Users : cash'.bal[v] = cash.bal[v] - Out(v, u, x)
  BY <1>1, <1>2, Burned
<1>4. /\ legacy' \in [Users \cup {Stable} -> Nat] /\ legacy'[Stable] = legacy[Stable] - x
      /\ \A v \in Users : legacy'[v] = legacy[v] + In(v, u, x)
  BY <1>1, <1>2, LegacyOut
<1>5. Typed' /\ ExitsTyped' /\ \A S : Owes(claims', S) = Owes(claims, S)
  BY <1>1, <1>3, <1>4, InvFacts, ExitsStay DEF Typed
<1>6. Surplus' = Surplus
  BY <1>1, <1>2, <1>3, <1>4, <1>5, Forms, Nats DEF Surplus
<1>7. ASSUME NEW v \in Users PROVE Worth(v)' = Worth(v)
  <2>1. legacy'[v] = legacy[v] + In(v, u, x) /\ cash'.bal[v] = cash.bal[v] - In(v, u, x)
    BY <1>2, <1>3, <1>4, OutIn
  <2>2. In(v, u, x) \in Nat
    BY <1>2, OutIn
  <2> QED
    BY <1>1, <1>5, <2>1, <2>2, Forms, Nats DEF Worth
<1> QED
  BY <1>5, <1>6, <1>7, Keeps, SameValue

\* A transfer that moves something moves that much of two users' value.
LEMMA TransferKeeps ==
  ASSUME IInv, NEW from \in Users, NEW to \in Users, NEW amount \in Nat, Transfer(from, to, amount)
  PROVE  IInv' /\ (Value' = Value \/ ValueHeld!Next)
<1> DEFINE x == Transferred(cash, from, amount)
<1>1. /\ cash' = Move(cash, from, to, x)
      /\ usdc' = usdc /\ legacy' = legacy /\ recoveries' = recoveries /\ reserve' = reserve /\ halted' = halted
      /\ UNCHANGED exits
  BY DEF Transfer
<1>2. x \in Nat /\ x <= cash.bal[from]
  BY Nats, Bounds DEF Transferred
<1> HIDE DEF x
<1>3. /\ cash' \in Ledger(Users) /\ cash'.supply = cash.supply /\ cash'.supply = Total(cash', Users)
      /\ \A v \in Users : from # to => cash'.bal[v] = cash.bal[v] - Out(v, from, x) + In(v, to, x)
      /\ \A v \in Users : from = to => cash'.bal[v] = cash.bal[v]
  <2>1. cash \in Ledger(Users) /\ IsFiniteSet(Users) /\ cash.supply = Total(cash, Users)
    BY InvFacts, Parties DEF CashKept
  <2>2. /\ Move(cash, from, to, x) \in Ledger(Users)
        /\ Move(cash, from, to, x).supply = cash.supply
        /\ Total(Move(cash, from, to, x), Users) = Total(cash, Users)
        /\ \A a \in Users \ {from, to} : Move(cash, from, to, x).bal[a] = cash.bal[a]
        /\ from # to => /\ Move(cash, from, to, x).bal[from] = cash.bal[from] - x
                        /\ Move(cash, from, to, x).bal[to] = cash.bal[to] + x
    BY <1>2, <2>1, MoveFacts
  <2>3. ASSUME from # to, NEW v \in Users
        PROVE  cash'.bal[v] = cash.bal[v] - Out(v, from, x) + In(v, to, x)
    <3>1. cash.bal[v] \in Nat /\ cash.bal[from] \in Nat /\ cash.bal[to] \in Nat
      BY Nats
    <3>2. CASE v = from
      BY <1>1, <1>2, <2>2, <2>3, <3>1, <3>2 DEF Out, In
    <3>3. CASE v = to
      BY <1>1, <1>2, <2>2, <2>3, <3>1, <3>3 DEF Out, In
    <3>4. CASE v \notin {from, to}
      BY <1>1, <1>2, <2>2, <3>1, <3>4 DEF Out, In
    <3> QED
      BY <3>2, <3>3, <3>4
  <2>4. ASSUME from = to, NEW v \in Users PROVE cash'.bal[v] = cash.bal[v]
    BY <1>1, <1>2, <2>4, InvFacts DEF Move, Credit, Debit, Ledger
  <2> QED
    BY <1>1, <2>1, <2>2, <2>3, <2>4
<1>4. Typed' /\ ExitsTyped' /\ \A S : Owes(claims', S) = Owes(claims, S)
  BY <1>1, <1>3, InvFacts, ExitsStay DEF Typed
<1>5. Surplus' = Surplus
  BY <1>1, <1>3, <1>4, Forms, Nats DEF Surplus
<1>6. CASE from = to
  <2>1. \A v \in Users : Worth(v)' = Worth(v)
    BY <1>1, <1>3, <1>4, <1>6, Forms, Nats DEF Worth
  <2> QED
    BY <1>4, <1>5, <2>1, Keeps, SameValue
<1>7. CASE from # to
  <2>1. ASSUME NEW v \in Users
        PROVE  Worth(v) \in Nat /\ cash.bal[v] <= Worth(v) /\ Worth(v)' = Worth(v) - Out(v, from, x) + In(v, to, x)
    <3>1. Out(v, from, x) \in Nat /\ In(v, to, x) \in Nat
      BY <1>2 DEF Out, In
    <3> QED
      BY <1>1, <1>3, <1>4, <1>7, <3>1, Forms, Nats DEF Worth
  <2>2. /\ Value \in [Users -> Nat] /\ \A v \in Users : Value[v] = Worth(v)
        /\ Value' = [v \in Users |-> Value[v] - Out(v, from, x) + In(v, to, x)]
    <3>1. Value = [v \in Users |-> Worth(v)] /\ Value' = [v \in Users |-> Worth(v)']
      BY Names, NamesAfter, Forms DEF Value, Worth
    <3> QED
      BY <2>1, <3>1
  <2>3. x \in 0 .. Value[from]
    <3>1. cash.bal[from] \in Nat /\ cash.bal[from] <= Value[from] /\ Value[from] \in Nat
      BY <2>1, <2>2, Nats
    <3> QED
      BY <1>2, <3>1
  <2>4. Value' = [Value EXCEPT ![from] = Value[from] - x, ![to] = Value[to] + x]
    <3> DEFINE w == Value
               new == [w EXCEPT ![from] = w[from] - x, ![to] = w[to] + x]
    <3>1. w \in [Users -> Nat] /\ Value' = [v \in Users |-> w[v] - Out(v, from, x) + In(v, to, x)]
      BY <2>2
    <3>2. [Value EXCEPT ![from] = @ - x, ![to] = @ + x] = new
      OBVIOUS
    <3> HIDE DEF w
    <3>3. new = [v \in Users |-> IF v = to THEN w[v] + x ELSE IF v = from THEN w[v] - x ELSE w[v]]
      BY <1>7, <3>1
    <3> HIDE DEF new
    <3>4. ASSUME NEW v \in Users
          PROVE  (IF v = to THEN w[v] + x ELSE IF v = from THEN w[v] - x ELSE w[v])
                 = w[v] - Out(v, from, x) + In(v, to, x)
      BY <1>2, <1>7, <3>1 DEF Out, In
    <3> QED
      BY <3>1, <3>2, <3>3, <3>4
  <2>5. ValueHeld!Next
    BY <1>7, <2>3, <2>4 DEF ValueHeld!Next, ValueHeld!Transfer
  <2> QED
    BY <1>4, <1>5, <2>5, Keeps
<1> QED
  BY <1>6, <1>7

-----------------------------------------------------------------------------
(* The two-phase exit *)

LEMMA HandlesInRange ==
  ASSUME IInv, NEW burned \in Nat, Len(claims) + 1 <= MaxClaims, NEW handle \in PossibleHandles(burned)
  PROVE  handle \in ClaimIds
<1>1. claims \in Seq(Claim) /\ Len(claims) \in Nat /\ MaxClaims \in Nat /\ \A k \in DOMAIN claims : claims[k] \in Claim
  BY InvFacts, Parties, ClaimsFinite
<1>2. Len(claims) + 1 \in ClaimIds
  BY <1>1 DEF ClaimIds
<1>3. \A k \in DOMAIN claims : claims[k].handle \in ClaimIds
  BY <1>1, DebtNat
<1> QED
  BY <1>2, <1>3 DEF PossibleHandles

\* A new claim of u, on the lists of pending withdrawals.
LEMMA RequestListed ==
  ASSUME IInv, NEW u \in Users, NEW c \in Claim, c.to = u, ~ c.claimed, Len(pending[u]) < MaxPending,
         claims' = Append(claims, c), pending' = [pending EXCEPT ![u] = Append(@, Len(claims) + 1)]
  PROVE  /\ claims' \in Seq(Claim) /\ Len(claims') = Len(claims) + 1
         /\ pending' \in [Users -> Seq(DOMAIN claims')]
         /\ PendingKept'
<1> DEFINE n == Len(claims)
           T == 1 .. n + 1
<1>1. n \in Nat /\ DOMAIN claims = 1 .. n /\ claims \in Seq(Claim) /\ MaxPending \in Nat
  BY InvFacts, ClaimsFinite, Parties
<1>2. claims' \in Seq(Claim) /\ Len(claims') = n + 1 /\ claims'[n + 1] = c /\ \A k \in 1 .. n : claims'[k] = claims[k]
  BY <1>1, AppendProperties
<1>3. DOMAIN claims' = T
  BY <1>2, ClaimsFinite
<1>4. 1 .. n \subseteq T /\ n + 1 \in T /\ n + 1 \notin 1 .. n /\ T = (1 .. n) \cup {n + 1}
  BY <1>1
<1>5. pending \in [Users -> Seq(1 .. n)] /\ PendingKept
  BY <1>1, InvFacts
<1> HIDE DEF n, T
<1>6. \A v \in Users : OutstandingOf(claims', v) = OutstandingOf(claims, v) \cup (IF v = u THEN {n + 1} ELSE {})
  BY <1>1, <1>2, <1>3, <1>4 DEF OutstandingOf
<1>7. ASSUME NEW v \in Users
      PROVE  /\ pending'[v] \in Seq(T) /\ Len(pending'[v]) <= MaxPending
             /\ Lists(pending'[v], OutstandingOf(claims', v))
  <2>1. pending[v] \in Seq(T) /\ Lists(pending[v], OutstandingOf(claims, v)) /\ Len(pending[v]) <= MaxPending
    <3>1. pending[v] \in Seq(1 .. n)
      BY <1>5
    <3>2. pending[v] \in Seq(T)
      BY <1>4, <3>1, SeqMonotonic
    <3> QED
      BY <1>5, <3>2 DEF PendingKept
  <2>2. n + 1 \notin OutstandingOf(claims, v)
    BY <1>1, <1>4 DEF OutstandingOf
  <2>3. CASE v # u
    <3>1. pending'[v] = pending[v] /\ OutstandingOf(claims', v) = OutstandingOf(claims, v)
      BY <1>5, <1>6, <2>3
    <3> QED
      BY <2>1, <3>1
  <2>4. CASE v = u
    <3>1. pending'[v] = Append(pending[v], n + 1) /\ OutstandingOf(claims', v) = OutstandingOf(claims, v) \cup {n + 1}
      BY <1>5, <1>6, <2>4 DEF n
    <3>2. /\ Append(pending[v], n + 1) \in Seq(T) /\ Len(Append(pending[v], n + 1)) = Len(pending[v]) + 1
          /\ Lists(Append(pending[v], n + 1), OutstandingOf(claims, v) \cup {n + 1})
      BY <1>4, <2>1, <2>2, AppendLists
    <3>3. Len(pending[v]) \in Nat
      BY <2>1, LenProperties
    <3> QED
      BY <1>1, <2>4, <3>1, <3>2, <3>3
  <2> QED
    BY <2>3, <2>4
<1>8. pending' \in [Users -> Seq(T)]
  BY <1>5, <1>7
<1>9. PendingKept'
  BY <1>7 DEF PendingKept
<1> QED
  BY <1>2, <1>3, <1>8, <1>9 DEF n

LEMMA WithdrawKeeps ==
  ASSUME IInv, NEW u \in Users, NEW amount \in Nat, WithdrawToUsdc(u, amount)
  PROVE  IInv' /\ Value' = Value
<1> DEFINE x == Clamp(amount, cash.bal[u])
<1>1. /\ reserve # Unset /\ Len(pending[u]) < MaxPending /\ Len(claims) + 1 <= MaxClaims
      /\ cash' = BurnInternal(cash, u, x)
      /\ pending' = [pending EXCEPT ![u] = Append(@, Len(claims) + 1)]
      /\ usdc' = usdc /\ legacy' = legacy /\ recoveries' = recoveries /\ reserve' = reserve
      /\ readable' = readable /\ halted' = halted
  BY DEF WithdrawToUsdc
<1>2. PICK handle \in PossibleHandles(x) :
        claims' = Append(claims, [to |-> u, handle |-> handle, burned |-> x, claimed |-> FALSE])
  BY DEF WithdrawToUsdc
<1>3. x \in Nat /\ x <= cash.bal[u]
  BY Nats, Bounds
<1> HIDE DEF x
<1> DEFINE c == [to |-> u, handle |-> handle, burned |-> x, claimed |-> FALSE]
<1>4. /\ c \in Claim /\ c.to = u /\ ~ c.claimed /\ c.burned = x
      /\ claims' = Append(claims, c)
  BY <1>1, <1>2, <1>3, HandlesInRange DEF Claim
<1> HIDE DEF c
<1>5. /\ claims' \in Seq(Claim) /\ Len(claims') = Len(claims) + 1
      /\ pending' \in [Users -> Seq(DOMAIN claims')]
      /\ PendingKept'
  BY <1>1, <1>4, RequestListed
<1>6. /\ cash' \in Ledger(Users) /\ cash'.supply = cash.supply - x /\ cash'.supply = Total(cash', Users)
      /\ \A v \in Users : cash'.bal[v] = cash.bal[v] - Out(v, u, x)
  BY <1>1, <1>3, Burned
<1>7. Typed' /\ ExitsTyped'
  <2>1. Typed'
    BY <1>1, <1>6, InvFacts DEF Typed
  <2>2. reserve' \in Reserves
    BY <1>1, InvFacts
  <2> QED
    BY <1>1, <1>5, <2>1, <2>2, InvFacts DEF ExitsTyped
<1>8. \A S : Owes(claims', S) = Owes(claims, S) + Debt(c, S)
  BY <1>4, InvFacts, OwesAppend
<1>9. Debt(c, Users) = x /\ \A v \in Users : Debt(c, {v}) = Out(v, u, x)
  BY <1>4 DEF Debt, Out
<1>10. Surplus' = Surplus
  <2>1. Owes(claims', Users) = Owes(claims, Users) + x
    BY <1>8, <1>9
  <2> QED
    BY <1>1, <1>3, <1>6, <2>1, Forms, Nats DEF Surplus
<1>11. ASSUME NEW v \in Users PROVE Worth(v)' = Worth(v)
  <2>1. Owes(claims', {v}) = Owes(claims, {v}) + Out(v, u, x) /\ cash'.bal[v] = cash.bal[v] - Out(v, u, x)
    BY <1>6, <1>8, <1>9
  <2>2. Out(v, u, x) \in Nat
    BY <1>3, OutIn
  <2> QED
    BY <1>1, <2>1, <2>2, Forms, Nats DEF Worth
<1> QED
  BY <1>7, <1>10, <1>11, Keeps, SameValue

LEMMA PublishKeeps ==
  ASSUME IInv, NEW handle \in ClaimIds, PublishDecryptResult(handle)
  PROVE  IInv' /\ Value' = Value
<1>1. /\ cash' = cash /\ usdc' = usdc /\ legacy' = legacy /\ recoveries' = recoveries /\ reserve' = reserve
      /\ claims' = claims /\ pending' = pending /\ halted' = halted /\ readable' \subseteq ClaimIds
  BY InvFacts DEF PublishDecryptResult
<1>2. PendingKept'
  BY <1>1, InvFacts DEF PendingKept
<1>3. Typed' /\ ExitsTyped'
  BY <1>1, <1>2, InvFacts DEF Typed, ExitsTyped, CashKept, ClaimsKept
<1>4. Surplus' = Surplus /\ \A v \in Users : Worth(v)' = Worth(v)
  BY <1>1, Forms DEF Surplus, Worth
<1> QED
  BY <1>3, <1>4, Keeps, SameValue

\* A settled claim leaves the lists of pending withdrawals.
LEMMA SettledListed ==
  ASSUME IInv, NEW id \in DOMAIN claims, ~ claims[id].claimed,
         claims' = [claims EXCEPT ![id].claimed = TRUE],
         pending' = [pending EXCEPT ![claims[id].to] = SwapAndPop(@, id)]
  PROVE  /\ claims' \in Seq(Claim) /\ Len(claims') = Len(claims) /\ claims[id].to \in Users
         /\ pending' \in [Users -> Seq(DOMAIN claims')]
         /\ PendingKept'
<1> DEFINE u == claims[id].to
           T == DOMAIN claims
<1>1. claims \in Seq(Claim) /\ MaxPending \in Nat /\ pending \in [Users -> Seq(T)] /\ PendingKept
  BY InvFacts, Parties
<1>2. /\ claims' \in Seq(Claim) /\ Len(claims') = Len(claims) /\ DOMAIN claims' = T
      /\ \A k \in T : claims'[k].to = claims[k].to /\ (claims'[k].claimed <=> claims[k].claimed \/ k = id)
  BY <1>1, OwesSettle
<1>3. u \in Users
  BY <1>1, ClaimsFinite, DebtNat
<1> HIDE DEF u
<1>4. \A v \in Users : OutstandingOf(claims', v) = OutstandingOf(claims, v) \ (IF v = u THEN {id} ELSE {})
  BY <1>2 DEF OutstandingOf, u
<1>5. id \in OutstandingOf(claims, u)
  BY DEF OutstandingOf, u
<1>6. ASSUME NEW v \in Users
      PROVE  /\ pending'[v] \in Seq(T) /\ Len(pending'[v]) <= MaxPending
             /\ Lists(pending'[v], OutstandingOf(claims', v))
  <2>1. pending[v] \in Seq(T) /\ Lists(pending[v], OutstandingOf(claims, v)) /\ Len(pending[v]) <= MaxPending
    BY <1>1 DEF PendingKept
  <2>2. CASE v # u
    <3>1. pending'[v] = pending[v] /\ OutstandingOf(claims', v) = OutstandingOf(claims, v)
      BY <1>1, <1>4, <2>2 DEF u
    <3> QED
      BY <2>1, <3>1
  <2>3. CASE v = u
    <3>1. pending'[v] = SwapAndPop(pending[v], id) /\ OutstandingOf(claims', v) = OutstandingOf(claims, v) \ {id}
      BY <1>1, <1>3, <1>4, <2>3 DEF u
    <3>2. /\ SwapAndPop(pending[v], id) \in Seq(T) /\ Len(SwapAndPop(pending[v], id)) = Len(pending[v]) - 1
          /\ Lists(SwapAndPop(pending[v], id), OutstandingOf(claims, v) \ {id})
      BY <1>5, <2>1, <2>3, SwapLists
    <3>3. Len(pending[v]) \in Nat
      BY <2>1, LenProperties
    <3>4. Len(pending'[v]) <= MaxPending
      BY <1>1, <2>1, <3>1, <3>2, <3>3
    <3> QED
      BY <3>1, <3>2, <3>4
  <2> QED
    BY <2>2, <2>3
<1>7. pending' \in [Users -> Seq(T)]
  BY <1>1, <1>6
<1>8. PendingKept'
  BY <1>6 DEF PendingKept
<1> QED
  BY <1>2, <1>3, <1>7, <1>8 DEF u

LEMMA ClaimKeeps ==
  ASSUME IInv, NEW id \in ClaimIds, ClaimUsdc(id)
  PROVE  IInv' /\ Value' = Value
<1> DEFINE c == claims[id]
           x == c.burned
           u == c.to
<1>1. id \in DOMAIN claims /\ ~ c.claimed
  BY DEF ClaimUsdc, Outstanding
<1>2. /\ claims' = [claims EXCEPT ![id].claimed = TRUE]
      /\ pending' = [pending EXCEPT ![u] = SwapAndPop(@, id)]
      /\ usdc' = Pay(reserve, Stable, u, x)
      /\ cash' = cash /\ legacy' = legacy /\ recoveries' = recoveries /\ reserve' = reserve
      /\ readable' = readable /\ halted' = halted
  BY DEF ClaimUsdc
<1>3. /\ claims' \in Seq(Claim) /\ Len(claims') = Len(claims) /\ u \in Users
      /\ pending' \in [Users -> Seq(DOMAIN claims')]
      /\ PendingKept'
  BY <1>1, <1>2, SettledListed
<1>4. c \in Claim /\ x \in Nat /\ claims # <<>> /\ reserve \in Reserves
  <2>1. c \in Claim
    BY <1>1, InvFacts, ClaimsFinite
  <2>2. claims # <<>>
    BY <1>1
  <2> QED
    BY <2>1, <2>2, InvFacts, DebtNat DEF ClaimsKept
<1>5. usdc[reserve][Stable] \in Nat /\ x <= usdc[reserve][Stable]
  <2>1. usdc[reserve][Stable] \in Nat
    BY <1>4, InvFacts, Parties, HeldNat
  <2>2. x > 0 => usdc[reserve][Stable] >= x
    BY DEF ClaimUsdc, ReserveCovers
  <2> QED
    BY <1>4, <2>1, <2>2
<1>6. \A S : Owes(claims', S) = Owes(claims, S) - Debt(c, S)
  BY <1>1, <1>2, InvFacts, OwesSettle
<1>7. Debt(c, Users) = x /\ \A v \in Users : Debt(c, {v}) = In(v, u, x)
  BY <1>1, <1>3 DEF Debt, In
<1> HIDE DEF c, x, u
<1>8. u \in Holders /\ Stable \in Holders /\ Owner \in Holders /\ u # Stable /\ u # Owner /\ Stable # Owner
  BY <1>3, Parties
<1>9. /\ usdc' \in UsdcType
      /\ \A h \in Holders : Held(usdc', h) = Held(usdc, h) - Out(h, Stable, x) + In(h, u, x)
  BY <1>2, <1>4, <1>5, <1>8, InvFacts, PayFacts
<1>10. Typed' /\ ExitsTyped'
  BY <1>2, <1>3, <1>4, <1>9, InvFacts DEF Typed, ExitsTyped, CashKept, ClaimsKept
<1>11. Held(usdc', Stable) = Held(usdc, Stable) - x /\ Held(usdc', Owner) = Held(usdc, Owner)
  BY <1>4, <1>8, <1>9, Nats DEF Out, In
<1>12. Surplus' = Surplus
  <2>1. Owes(claims', Users) = Owes(claims, Users) - x
    BY <1>6, <1>7
  <2> QED
    BY <1>2, <1>4, <1>11, <2>1, Forms, Nats DEF Surplus
<1>13. ASSUME NEW v \in Users PROVE Worth(v)' = Worth(v)
  <2>1. v \in Holders /\ Out(v, Stable, x) = 0 /\ In(v, u, x) \in Nat
    BY <1>4, Parties, OutIn DEF Out
  <2>4. Held(usdc', v) = Held(usdc, v) - Out(v, Stable, x) + In(v, u, x)
    BY <1>9, <2>1
  <2>5. Held(usdc, v) \in Nat
    BY Nats
  <2>2. Held(usdc', v) = Held(usdc, v) + In(v, u, x)
    BY <2>1, <2>4, <2>5
  <2>3. Owes(claims', {v}) = Owes(claims, {v}) - In(v, u, x)
    BY <1>6, <1>7
  <2> QED
    BY <1>2, <2>1, <2>2, <2>3, Forms, Nats DEF Worth
<1> QED
  BY <1>10, <1>12, <1>13, Keeps, SameValue

-----------------------------------------------------------------------------
(* The owner *)

\* The owner pays into the reserve or takes out of it.
LEMMA ReserveMoves ==
  ASSUME IInv, NEW from \in {Stable, Owner}, NEW to \in {Stable, Owner}, from # to, reserve # Unset,
         NEW amount \in Nat, amount <= usdc[reserve][from], usdc' = Pay(reserve, from, to, amount),
         UNCHANGED <<cash, legacy, recoveries, reserve, exits, halted>>
  PROVE  IInv' /\ Value' = Value
<1>1. reserve \in Reserves /\ from \in Holders /\ to \in Holders
  BY InvFacts, Parties
<1>2. /\ usdc' \in UsdcType
      /\ \A h \in Holders : Held(usdc', h) = Held(usdc, h) - Out(h, from, amount) + In(h, to, amount)
  BY <1>1, InvFacts, PayFacts
<1>3. Typed' /\ ExitsTyped' /\ \A S : Owes(claims', S) = Owes(claims, S)
  <2>1. cash' = cash /\ legacy' = legacy /\ recoveries' = recoveries /\ reserve' = reserve /\ halted' = halted
    OBVIOUS
  <2> QED
    BY <1>2, <2>1, InvFacts, ExitsStay DEF Typed, CashKept
<1>4. Held(usdc', Stable) + Held(usdc', Owner) = Held(usdc, Stable) + Held(usdc, Owner)
      /\ Held(usdc', Stable) \in Int /\ Held(usdc', Owner) \in Int
  <2>1. /\ Held(usdc', Stable) = Held(usdc, Stable) - Out(Stable, from, amount) + In(Stable, to, amount)
        /\ Held(usdc', Owner) = Held(usdc, Owner) - Out(Owner, from, amount) + In(Owner, to, amount)
    BY <1>2, Parties
  <2>2. /\ Out(Stable, from, amount) + Out(Owner, from, amount) = amount
        /\ In(Stable, to, amount) + In(Owner, to, amount) = amount
        /\ Out(Stable, from, amount) \in Nat /\ Out(Owner, from, amount) \in Nat
        /\ In(Stable, to, amount) \in Nat /\ In(Owner, to, amount) \in Nat
    BY Parties DEF Out, In
  <2> QED
    BY <2>1, <2>2, Nats
<1>5. Surplus' = Surplus
  BY <1>3, <1>4, Forms, Nats DEF Surplus
<1>6. ASSUME NEW v \in Users PROVE Worth(v)' = Worth(v)
  <2>1. v \in Holders /\ Out(v, from, amount) = 0 /\ In(v, to, amount) = 0
    BY Parties DEF Out, In
  <2>3. Held(usdc', v) = Held(usdc, v) - Out(v, from, amount) + In(v, to, amount)
    BY <1>2, <2>1
  <2>4. Held(usdc, v) \in Nat
    BY Nats
  <2>2. Held(usdc', v) = Held(usdc, v)
    BY <2>1, <2>3, <2>4
  <2> QED
    BY <1>3, <2>2, Forms, Nats DEF Worth
<1> QED
  BY <1>3, <1>5, <1>6, Keeps, SameValue

\* Stranded legacy tokens on their way to the reserve still back what is owed.
LEMMA RecoveryStarts ==
  ASSUME IInv, NEW amount \in Nat, RecoverStrandedPusdcStart(amount)
  PROVE  IInv' /\ Value' = Value
<1>1. /\ amount <= legacy[Stable] /\ legacy' = [legacy EXCEPT ![Stable] = legacy[Stable] - amount]
      /\ recoveries' = Append(recoveries, amount)
      /\ cash' = cash /\ usdc' = usdc /\ reserve' = reserve /\ halted' = halted /\ UNCHANGED exits
  BY DEF RecoverStrandedPusdcStart
<1>2. recoveries' \in Seq(Nat) /\ SumOf(recoveries') = SumOf(recoveries) + amount
  BY <1>1, InvFacts, RecoveriesAppend
<1>3. /\ legacy' \in [Users \cup {Stable} -> Nat] /\ legacy'[Stable] = legacy[Stable] - amount
      /\ \A v \in Users : legacy'[v] = legacy[v]
  <2>1. legacy \in [Users \cup {Stable} -> Nat] /\ legacy[Stable] - amount \in Nat /\ Stable \notin Users
    BY <1>1, InvFacts, Nats, Parties
  <2> QED
    BY <1>1, <2>1
<1>4. Typed' /\ ExitsTyped' /\ \A S : Owes(claims', S) = Owes(claims, S)
  BY <1>1, <1>2, <1>3, InvFacts, ExitsStay DEF Typed, CashKept
<1>5. Surplus' = Surplus
  BY <1>1, <1>2, <1>3, <1>4, Forms, Nats DEF Surplus
<1>6. \A v \in Users : Worth(v)' = Worth(v)
  BY <1>1, <1>3, <1>4, Forms DEF Worth
<1> QED
  BY <1>4, <1>5, <1>6, Keeps, SameValue

LEMMA RecoveryEnds ==
  ASSUME IInv, NEW k \in DOMAIN recoveries, RecoverStrandedPusdcClaim(k)
  PROVE  IInv' /\ Value' = Value
<1> DEFINE x == recoveries[k]
           row == [usdc[Underlying] EXCEPT ![Stable] = usdc[Underlying][Stable] + x]
<1>1. /\ usdc' = [usdc EXCEPT ![Underlying] = row]
      /\ recoveries' = [recoveries EXCEPT ![k] = 0]
      /\ cash' = cash /\ legacy' = legacy /\ reserve' = reserve /\ halted' = halted /\ UNCHANGED exits
  BY DEF RecoverStrandedPusdcClaim
<1>2. /\ recoveries' \in Seq(Nat) /\ SumOf(recoveries') = SumOf(recoveries) - x
      /\ x \in Nat
  BY <1>1, InvFacts, RecoveriesPaid, RecoveriesNat
<1> HIDE DEF x
<1>3. /\ usdc[Underlying] \in [Holders -> Nat] /\ row \in [Holders -> Nat]
      /\ row[Stable] = usdc[Underlying][Stable] + x /\ \A h \in Holders \ {Stable} : row[h] = usdc[Underlying][h]
  <2>1. usdc[Underlying] \in [Holders -> Nat] /\ Stable \in Holders
    BY InvFacts, Parties DEF UsdcType
  <2> QED
    BY <1>2, <2>1
<1> HIDE DEF row
<1>4. /\ usdc' \in UsdcType
      /\ \A h \in Holders : Held(usdc', h) = Held(usdc, h) - usdc[Underlying][h] + row[h]
  <2>1. usdc \in UsdcType /\ Underlying \in Reserves
    BY InvFacts, Parties
  <2>2. /\ [usdc EXCEPT ![Underlying] = row] \in UsdcType
        /\ \A h \in Holders : Held([usdc EXCEPT ![Underlying] = row], h)
                               = Held(usdc, h) - usdc[Underlying][h] + row[h]
    BY <1>3, <2>1, HeldPut
  <2> QED
    BY <1>1, <2>2
<1>5. Held(usdc', Stable) = Held(usdc, Stable) + x /\ \A h \in Holders \ {Stable} : Held(usdc', h) = Held(usdc, h)
  <2>1. \A h \in Holders : Held(usdc, h) \in Nat /\ usdc[Underlying][h] \in Nat
    BY <1>3, InvFacts
  <2> QED
    BY <1>2, <1>3, <1>4, <2>1, Parties
<1>6. Typed' /\ ExitsTyped' /\ \A S : Owes(claims', S) = Owes(claims, S)
  BY <1>1, <1>2, <1>4, InvFacts, ExitsStay DEF Typed, CashKept
<1>7. Surplus' = Surplus
  <2>1. Held(usdc', Owner) = Held(usdc, Owner)
    BY <1>5, Parties
  <2> QED
    BY <1>1, <1>2, <1>5, <1>6, <2>1, Forms, Nats DEF Surplus
<1>8. \A v \in Users : Worth(v)' = Worth(v)
  <2>1. \A v \in Users : Held(usdc', v) = Held(usdc, v)
    BY <1>5, Parties
  <2> QED
    BY <1>1, <1>6, <2>1, Forms DEF Worth
<1> QED
  BY <1>6, <1>7, <1>8, Keeps, SameValue

LEMMA SettingsKeep ==
  ASSUME IInv, UNCHANGED <<cash, usdc, legacy, recoveries, exits>>, halted' \subseteq Halts,
         reserve' = reserve \/ reserve' \in Reserves
  PROVE  IInv' /\ Value' = Value
<1>1. cash' = cash /\ usdc' = usdc /\ legacy' = legacy /\ recoveries' = recoveries
  OBVIOUS
<1>2. Typed' /\ ExitsTyped' /\ \A S : Owes(claims', S) = Owes(claims, S)
  BY <1>1, InvFacts, ExitsStay DEF Typed, CashKept
<1>3. Surplus' = Surplus /\ \A v \in Users : Worth(v)' = Worth(v)
  BY <1>1, <1>2, Forms DEF Surplus, Worth
<1> QED
  BY <1>2, <1>3, Keeps, SameValue

-----------------------------------------------------------------------------
(* The invariant *)

LEMMA InitOK == Init => IInv
<1> SUFFICES ASSUME Init PROVE IInv
  OBVIOUS
<1>1. /\ cash = [bal |-> [u \in Users |-> 0], opened |-> {}, supply |-> 0]
      /\ usdc = InitialUsdc /\ legacy = InitialLegacy /\ recoveries = <<>> /\ reserve = Unset
      /\ claims = <<>> /\ pending = [u \in Users |-> <<>>] /\ readable = {} /\ halted = {}
  BY DEF Init
<1>2. CashKept /\ cash.supply = 0
  <2>1. cash \in Ledger(Users)
    BY <1>1 DEF Ledger
  <2>2. \A u \in Users : cash.bal[u] = 0
    BY <1>1
  <2>3. SumFunctionOnSet(cash.bal, Users) = 0
    BY <2>2, Parties, SumZero
  <2> QED
    BY <1>1, <2>1, <2>3 DEF CashKept, Total
<1>3. claims \in Seq(Claim) /\ DOMAIN claims = {} /\ Len(claims) = 0 /\ recoveries \in Seq(Nat) /\ DOMAIN recoveries = {}
  BY <1>1
<1>4. TypeOK
  <2>1. pending \in [Users -> Seq(DOMAIN claims)]
    BY <1>1
  <2> QED
    BY <1>1, <1>2, <1>3, <2>1, Parties DEF TypeOK, CashKept, Ledger, UsdcType
<1>5. ClaimsKept
  BY <1>1, <1>3, Parties DEF ClaimsKept
<1>6. PendingKept
  <2>1. \A u \in Users : pending[u] = <<>> /\ OutstandingOf(claims, u) = {}
    BY <1>1, <1>3 DEF OutstandingOf
  <2>2. Lists(<<>>, {}) /\ Len(<<>>) = 0
    BY DEF Lists, Once
  <2>3. ASSUME NEW u \in Users
        PROVE  Lists(pending[u], OutstandingOf(claims, u)) /\ Len(pending[u]) <= MaxPending
    <3>1. pending[u] = <<>> /\ OutstandingOf(claims, u) = {}
      BY <2>1
    <3>2. Len(pending[u]) <= MaxPending
      <4>1. Len(pending[u]) = 0
        BY <3>1
      <4> QED
        BY <4>1, Parties
    <3> QED
      BY <2>2, <3>1, <3>2
  <2> QED
    BY <2>3 DEF PendingKept
<1>7. SumOf(recoveries) = 0 /\ \A S : Owes(claims, S) = 0
  BY <1>3, SumEmpty DEF SumOf, Owes
<1>8. Collateralised
  <2>1. \A h \in Holders : Held(usdc, h) \in Nat
    BY <1>1, Parties, HeldNat
  <2>2. legacy[Stable] \in Nat
    BY <1>1, Parties
  <2>3. Surplus = Start
    BY <1>1, <1>2, <1>7, StartNat DEF Surplus, Start
  <2> QED
    BY <1>2, <1>7, <2>1, <2>2, <2>3, SurplusIsStart
<1> QED
  BY <1>2, <1>4, <1>5, <1>6, <1>8 DEF IInv

\* Every step keeps the invariant, and changes what users are worth by a transfer only.
LEMMA StepKeeps ==
  ASSUME IInv, [Next]_vars
  PROVE  IInv' /\ (Value' = Value \/ ValueHeld!Next)
<1>1. CASE UserStep
  <2>1. PICK u \in Users, amount \in Amounts :
          \/ WrapUsdc(u, amount)
          \/ Wrap(u, amount)
          \/ Unwrap(u, amount)
          \/ WithdrawToUsdc(u, amount)
          \/ \E to \in Users : Transfer(u, to, amount)
    BY <1>1 DEF UserStep
  <2>2. amount \in Nat
    BY Parties
  <2>3. CASE WrapUsdc(u, amount)
    BY <2>2, <2>3, WrapUsdcKeeps
  <2>4. CASE Wrap(u, amount)
    BY <2>2, <2>4, WrapKeeps
  <2>5. CASE Unwrap(u, amount)
    BY <2>2, <2>5, UnwrapKeeps
  <2>6. CASE WithdrawToUsdc(u, amount)
    BY <2>2, <2>6, WithdrawKeeps
  <2>7. CASE \E to \in Users : Transfer(u, to, amount)
    <3>1. PICK to \in Users : Transfer(u, to, amount)
      BY <2>7
    <3> QED
      BY <2>2, <3>1, TransferKeeps
  <2> QED
    BY <2>1, <2>3, <2>4, <2>5, <2>6, <2>7
<1>2. CASE SettleStep
  <2>1. PICK id \in ClaimIds : PublishDecryptResult(id) \/ ClaimUsdc(id)
    BY <1>2 DEF SettleStep
  <2> QED
    BY <2>1, PublishKeeps, ClaimKeeps
<1>3. CASE OwnerStep
  <2>1. CASE \E token \in Reserves : SetUsdcReserveToken(token)
    <3>1. UNCHANGED <<cash, usdc, legacy, recoveries, exits>> /\ halted' = halted /\ reserve' \in Reserves
      BY <2>1 DEF SetUsdcReserveToken
    <3> QED
      BY <3>1, InvFacts, SettingsKeep
  <2>2. CASE \E amount \in Amounts : FundUsdcReserve(amount)
    <3>1. PICK amount \in Amounts : FundUsdcReserve(amount)
      BY <2>2
    <3>2. /\ reserve # Unset /\ amount <= usdc[reserve][Owner] /\ usdc' = Pay(reserve, Owner, Stable, amount)
          /\ UNCHANGED <<cash, legacy, recoveries, reserve, exits, halted>>
      BY <3>1 DEF FundUsdcReserve
    <3> QED
      BY <3>2, Parties, ReserveMoves
  <2>3. CASE \E amount \in Amounts : WithdrawUsdcReserve(amount)
    <3>1. PICK amount \in Amounts : WithdrawUsdcReserve(amount)
      BY <2>3
    <3>2. /\ reserve # Unset /\ amount <= usdc[reserve][Stable] /\ usdc' = Pay(reserve, Stable, Owner, amount)
          /\ UNCHANGED <<cash, legacy, recoveries, reserve, exits, halted>>
      BY <3>1 DEF WithdrawUsdcReserve
    <3> QED
      BY <3>2, Parties, ReserveMoves
  <2>4. CASE \E amount \in Amounts : RecoverStrandedPusdcStart(amount)
    BY <2>4, Parties, RecoveryStarts
  <2>5. CASE \E k \in DOMAIN recoveries : RecoverStrandedPusdcClaim(k)
    BY <2>5, RecoveryEnds
  <2>6. CASE \E switch \in Halts : SetPaused(switch)
    <3>1. UNCHANGED <<cash, usdc, legacy, recoveries, exits>> /\ reserve' = reserve /\ halted' \subseteq Halts
      BY <2>6, InvFacts DEF SetPaused
    <3> QED
      BY <3>1, SettingsKeep
  <2> QED
    BY <1>3, <2>1, <2>2, <2>3, <2>4, <2>5, <2>6 DEF OwnerStep
<1>4. CASE UNCHANGED vars
  <2>1. UNCHANGED <<cash, usdc, legacy, recoveries, exits>> /\ reserve' = reserve /\ halted' = halted
    BY <1>4 DEF vars, exits
  <2> QED
    BY <2>1, InvFacts, SettingsKeep
<1> QED
  BY <1>1, <1>2, <1>3, <1>4 DEF Next

LEMMA Invariant == Spec => []IInv
<1>1. IInv /\ [Next]_vars => IInv'
  BY StepKeeps
<1> QED
  BY InitOK, <1>1, PTL DEF Spec

\* Every variable has its type in every reachable state: no balance, ledger or
\* external, is ever negative.
THEOREM ReserveTyped == Spec => []TypeOK
<1>1. IInv => TypeOK
  BY DEF IInv
<1> QED
  BY <1>1, Invariant, PTL

\* MuHavenStable.sol: what the wrapper holds in reserve and legacy tokens, with the
\* recoveries in flight, is its ledger's supply and the burned amounts it still has
\* to pay, but for what its owner put in or took out.
THEOREM ReserveCollateralised == Spec => []Collateralised
<1>1. IInv => Collateralised
  BY DEF IInv
<1> QED
  BY <1>1, Invariant, PTL

\* _userWithdrawClaims stays exact through pushes and swap-and-pop removals in any
\* order, and within MAX_PENDING_WITHDRAWALS.
THEOREM ReservePendingListed == Spec => []PendingListed
<1>1. IInv => PendingListed
  <2> SUFFICES ASSUME IInv, NEW u \in Users
               PROVE  LET listed == {pending[u][k] : k \in DOMAIN pending[u]}
                      IN  /\ listed = {id \in DOMAIN claims : claims[id].to = u /\ ~ claims[id].claimed}
                          /\ Cardinality(listed) = Len(pending[u])
                          /\ Len(pending[u]) <= MaxPending
    BY DEF PendingListed
  <2>1. /\ pending[u] \in Seq(DOMAIN claims) /\ Lists(pending[u], OutstandingOf(claims, u))
        /\ Len(pending[u]) <= MaxPending
    BY InvFacts DEF PendingKept
  <2>2. Cardinality(OutstandingOf(claims, u)) = Len(pending[u])
    BY <2>1, ListCount
  <2>3. {pending[u][k] : k \in DOMAIN pending[u]} = OutstandingOf(claims, u)
    BY <2>1 DEF Lists
  <2> QED
    BY <2>1, <2>2, <2>3 DEF OutstandingOf
<1> QED
  BY <1>1, Invariant, PTL

\* Wrapping, unwrapping, the two-phase exit and whatever the owner does change no
\* user's total worth; only a transfer does, by moving it to another user.
THEOREM ReserveKeepsValue == Spec => ValuePromised
<1>1. Init => ValueHeld!Init
  <2> SUFFICES ASSUME Init PROVE ValueHeld!Init
    OBVIOUS
  <2>1. \A u \in Users : /\ cash.bal[u] = 0 /\ Owes(claims, {u}) = 0 /\ legacy[u] = InitialLegacy[u]
                        /\ Held(usdc, u) = Held(InitialUsdc, u)
    <3>1. claims = <<>> /\ DOMAIN claims = {} /\ usdc = InitialUsdc /\ legacy = InitialLegacy
      BY DEF Init
    <3>2. \A u \in Users : cash.bal[u] = 0
      BY DEF Init
    <3> QED
      BY <3>1, <3>2, SumEmpty DEF Owes
  <2>2. \A u \in Users : Held(InitialUsdc, u) \in Nat /\ InitialLegacy[u] \in Nat
    BY Parties, HeldNat
  <2>3. \A u \in Users : Worth(u) = Held(InitialUsdc, u) + InitialLegacy[u]
    BY <2>1, <2>2 DEF Worth
  <2>4. \A u \in Users : SumOf([token \in Reserves |-> InitialUsdc[token][u]]) = Held(InitialUsdc, u)
    BY DEF SumOf, Held
  <2>5. Value = [u \in Users |-> Worth(u)]
    BY Names DEF Value, Worth
  <2> QED
    BY <2>3, <2>4, <2>5 DEF ValueHeld!Init
<1>2. IInv /\ [Next]_vars => [ValueHeld!Next]_Value
  BY StepKeeps
<1> QED
  BY <1>1, <1>2, Invariant, PTL DEF Spec, ValuePromised, ValueHeld!Spec

-----------------------------------------------------------------------------
(* The width of the ledger *)

\* What all users are worth together, and what they started with.
Wealth == SumFunctionOnSet(Value, Users)
Brought == [u \in Users |-> SumOf([token \in Reserves |-> InitialUsdc[token][u]]) + InitialLegacy[u]]
AllBrought == SumFunctionOnSet(Brought, Users)

LEMMA ValueNat == IInv => Value \in [Users -> Nat] /\ \A u \in Users : cash.bal[u] <= Value[u]
<1> SUFFICES ASSUME IInv PROVE Value \in [Users -> Nat] /\ \A u \in Users : cash.bal[u] <= Value[u]
  OBVIOUS
<1>1. Value = [u \in Users |-> Worth(u)]
  BY Names DEF Value, Worth
<1>2. \A u \in Users : Worth(u) \in Nat /\ cash.bal[u] <= Worth(u)
  BY Nats DEF Worth
<1> QED
  BY <1>1, <1>2

\* A step moves worth between users; it makes none.
LEMMA WealthStays ==
  ASSUME IInv, [Next]_vars
  PROVE  Wealth' = Wealth
<1>1. Value \in [Users -> Nat] /\ IsFiniteSet(Users)
  BY ValueNat, Parties
<1>2. CASE Value' = Value
  BY <1>2 DEF Wealth
<1>3. CASE ValueHeld!Next
  <2>1. PICK from \in Users, to \in Users : from # to /\ \E x \in 0 .. Value[from] : ValueHeld!Transfer(from, to, x)
    BY <1>3 DEF ValueHeld!Next
  <2>11. PICK x \in 0 .. Value[from] :
          Value' = [Value EXCEPT ![from] = Value[from] - x, ![to] = Value[to] + x]
    BY <2>1 DEF ValueHeld!Transfer
  <2> DEFINE v == Value
             less == [v EXCEPT ![from] = v[from] - x]
             more == [less EXCEPT ![to] = v[to] + x]
  <2>2. x \in Nat /\ v[from] - x \in Nat /\ v \in [Users -> Nat]
    BY <1>1
  <2>3. Value' = more
    BY <1>1, <2>1, <2>11
  <2>4. less \in [Users -> Nat] /\ less[from] = v[from] - x /\ less[to] = v[to]
        /\ AgreeOn(v, less, Users \ {from})
    BY <2>1, <2>2 DEF AgreeOn
  <2>5. more \in [Users -> Nat] /\ more[to] = v[to] + x /\ AgreeOn(less, more, Users \ {to})
    BY <2>2, <2>4 DEF AgreeOn
  <2> HIDE DEF v, less, more
  <2>6. Summable(v, Users) /\ Summable(less, Users) /\ Summable(more, Users)
    BY <1>1, <2>2, <2>4, <2>5 DEF Summable
  <2>7. SumFunctionOnSet(less, Users) = SumFunctionOnSet(v, Users) - v[from] + less[from]
    <3>1. AgreeOn(v, less, Users \ {from}) /\ Summable(v, Users) /\ Summable(less, Users)
      BY <2>4, <2>6
    <3> QED
      BY <3>1, SumChange
  <2>8. SumFunctionOnSet(more, Users) = SumFunctionOnSet(less, Users) - less[to] + more[to]
    BY <2>5, <2>6, SumChange
  <2>9. SumFunctionOnSet(v, Users) \in Int /\ v[from] \in Int /\ v[to] \in Int
    BY <2>2, <2>6, SumInt
  <2>10. SumFunctionOnSet(more, Users) = SumFunctionOnSet(v, Users)
    BY <2>2, <2>4, <2>5, <2>7, <2>8, <2>9
  <2> QED
    BY <2>3, <2>10 DEF Wealth, v
<1> QED
  BY <1>2, <1>3, StepKeeps

\* MintInternal adds with the ledger's 64-bit width: no supply, hence no balance, ever
\* passes it while what users brought fits it, so the unwrapped addition is exact.
THEOREM ReserveFitsWidth ==
  ASSUME AllBrought <= CashMax
  PROVE  Spec => [](cash.supply <= CashMax)
<1> DEFINE Same == IInv /\ Wealth = AllBrought
<1>1. Init => Same
  <2>1. Init => Value = Brought
    <3> SUFFICES ASSUME Init PROVE \A u \in Users : Value[u] = Brought[u]
      BY DEF Value, Brought
    <3>1. TAKE u \in Users
    <3>2. cash.bal[u] = 0 /\ claims = <<>> /\ DOMAIN claims = {} /\ usdc = InitialUsdc /\ legacy = InitialLegacy
      BY DEF Init
    <3>3. Owes(claims, {u}) = 0
      BY <3>2, SumEmpty DEF Owes
    <3>4. Held(InitialUsdc, u) \in Nat /\ InitialLegacy[u] \in Nat
      BY Parties, HeldNat
    <3>5. Brought[u] = Held(InitialUsdc, u) + InitialLegacy[u]
      BY DEF Brought, SumOf, Held
    <3>6. Value[u] = Held(InitialUsdc, u) + InitialLegacy[u]
      BY <3>2, <3>3, <3>4, ValueForms DEF Worth
    <3> QED
      BY <3>5, <3>6
  <2> QED
    BY <2>1, InitOK DEF Wealth, AllBrought
<1>2. Same /\ [Next]_vars => Same'
  <2>1. AllBrought' = AllBrought
    BY DEF AllBrought, Brought, SumOf
  <2> QED
    BY <2>1, StepKeeps, WealthStays
<1>3. Same => cash.supply <= CashMax
  <2> SUFFICES ASSUME Same PROVE cash.supply <= CashMax
    OBVIOUS
  <2>1. cash.supply = SumFunctionOnSet(cash.bal, Users) /\ cash.bal \in [Users -> Nat] /\ IsFiniteSet(Users)
    BY InvFacts, Parties DEF CashKept, Total
  <2>2. Value \in [Users -> Nat] /\ \A u \in Users : cash.bal[u] <= Value[u]
    BY ValueNat
  <2> DEFINE b == cash.bal
             v == Value
  <2>3. \A u \in Users : b[u] \in Nat /\ v[u] \in Nat /\ 1 * b[u] <= 1 * v[u]
    BY <2>1, <2>2
  <2>4. SumFunctionOnSet(b, Users) \in Nat /\ SumFunctionOnSet(v, Users) \in Nat
    <3> HIDE DEF b, v
    <3> QED
      BY <2>1, <2>3, SumNat
  <2>5. 1 * SumFunctionOnSet(b, Users) <= 1 * SumFunctionOnSet(v, Users)
    <3> HIDE DEF b, v
    <3> QED
      BY <2>1, <2>3, SumScaled
  <2>6. SumFunctionOnSet(v, Users) = AllBrought
    BY DEF Wealth
  <2> HIDE DEF b, v
  <2>7. cash.supply = SumFunctionOnSet(b, Users)
    BY <2>1 DEF b
  <2> QED
    BY <2>4, <2>5, <2>6, <2>7, Parties
<1> HIDE DEF Same
<1> QED
  BY <1>1, <1>2, <1>3, PTL DEF Spec
================================================================================
