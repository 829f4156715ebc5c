---------------------- MODULE ConfidentialLedgerProofs ----------------------
(***************************************************************************)
(* What the ledger operators preserve, for any finite set of accounts: the *)
(* shape of the ledger, and the agreement of the supply with the balances. *)
(*                                                                         *)
(* First, facts about SumFunctionOnSet, the community modules' sum of the  *)
(* values of a function over a finite set of indices; every conservation   *)
(* law of the ledgers rests on them.  The sum is a fold, that is a         *)
(* function defined by recursion on the subsets of its index set.  That    *)
(* such a function exists, and that it does not depend on the order of the *)
(* additions, is proved by least counterexample on the cardinality of the  *)
(* subsets.                                                                *)
(***************************************************************************)
EXTENDS ConfidentialLedger, Functions, FiniteSets, FiniteSetTheorems, WellFoundedInduction, TLAPS

\* The element the fold removes first.
Pick(T) == CHOOSE x \in T : TRUE

\* g sums f over each of the sets in D, by removing the picked element.
SumsOver(g, f, D) ==
  g = [T \in D |-> IF T = {} THEN 0 ELSE f[Pick(T)] + g[T \ {Pick(T)}]]

\* f can be summed over S; f and e are the same on S.
Summable(f, S) == IsFiniteSet(S) /\ \A x \in S : f[x] \in Int
AgreeOn(f, e, S) == \A x \in S : f[x] = e[x]

SubsetsUpTo(S, n) == {T \in SUBSET S : Cardinality(T) <= n}

-----------------------------------------------------------------------------
\* The least-number principle.
LEMMA LeastOf ==
  ASSUME NEW B \in SUBSET Nat, B # {}
  PROVE  \E m \in B : \A k \in B : m <= k
<1>1. PICK m \in B : \A k \in B : ~ (<<k, m>> \in OpToRel(<, Nat))
  BY NatLessThanWellFounded, WFMin
<1>2. \A k \in B : ~ (k < m)
  BY <1>1 DEF OpToRel
<1> QED
  BY <1>2

\* A non-empty set has a picked element, and removing it takes one off its size.
LEMMA PickFacts ==
  ASSUME NEW T, IsFiniteSet(T), T # {}
  PROVE  /\ Pick(T) \in T
         /\ IsFiniteSet(T \ {Pick(T)})
         /\ Cardinality(T) \in Nat
         /\ Cardinality(T) > 0
         /\ Cardinality(T \ {Pick(T)}) = Cardinality(T) - 1
<1>1. Pick(T) \in T
  BY DEF Pick
<1>2. Cardinality(T) \in Nat /\ Cardinality(T \ {Pick(T)}) \in Nat
  <2>1. IsFiniteSet(T \ {Pick(T)})
    BY FS_RemoveElement
  <2> QED
    BY <2>1, FS_CardinalityType
<1>3. IsFiniteSet(T \ {Pick(T)}) /\ Cardinality(T \ {Pick(T)}) = Cardinality(T) - 1
  BY <1>1, FS_RemoveElement
<1> QED
  BY <1>1, <1>2, <1>3

\* The partial sums exist, as functions into the integers.
LEMMA PartialSumsExist ==
  ASSUME NEW S, IsFiniteSet(S), NEW f, \A x \in S : f[x] \in Int
  PROVE  \A n \in Nat : \E g \in [SubsetsUpTo(S, n) -> Int] : SumsOver(g, f, SubsetsUpTo(S, n))
<1> DEFINE Has(n) == \E g \in [SubsetsUpTo(S, n) -> Int] : SumsOver(g, f, SubsetsUpTo(S, n))
           Bad == {n \in Nat : ~ Has(n)}
<1>1. SUFFICES ASSUME Bad # {} PROVE FALSE
  OBVIOUS
<1>2. PICK m \in Bad : \A k \in Bad : m <= k
  <2>1. Bad \in SUBSET Nat
    OBVIOUS
  <2> HIDE DEF Bad
  <2> QED
    BY <1>1, <2>1, LeastOf
<1>3. m \in Nat /\ ~ Has(m)
  BY <1>2
<1> HIDE DEF Bad
<1>4. \A T \in SUBSET S : IsFiniteSet(T) /\ Cardinality(T) \in Nat
  BY FS_Subset, FS_CardinalityType
<1>5. CASE m = 0
  <2> DEFINE g == [T \in SubsetsUpTo(S, 0) |-> 0]
  <2>1. \A T \in SubsetsUpTo(S, 0) : T = {}
    BY <1>4, FS_EmptySet DEF SubsetsUpTo
  <2>2. g \in [SubsetsUpTo(S, 0) -> Int] /\ SumsOver(g, f, SubsetsUpTo(S, 0))
    BY <2>1 DEF SumsOver
  <2> QED
    BY <2>2, <1>3, <1>5
<1>6. CASE m # 0
  <2>1. m - 1 \in Nat /\ m - 1 \notin Bad
    BY <1>2, <1>3, <1>6
  <2>2. Has(m - 1)
    BY <2>1 DEF Bad
  <2>3. PICK h \in [SubsetsUpTo(S, m-1) -> Int] : SumsOver(h, f, SubsetsUpTo(S, m-1))
    BY <2>2
  <2> DEFINE D == SubsetsUpTo(S, m)
             E == SubsetsUpTo(S, m - 1)
             g == [T \in D |-> IF T = {} THEN 0 ELSE f[Pick(T)] + h[T \ {Pick(T)}]]
  <2>4. \A T \in D : T # {} => Pick(T) \in S /\ T \ {Pick(T)} \in E
    <3> SUFFICES ASSUME NEW T \in D, T # {} PROVE Pick(T) \in S /\ T \ {Pick(T)} \in E
      OBVIOUS
    <3>1. T \in SUBSET S /\ IsFiniteSet(T) /\ Cardinality(T) <= m
      BY <1>4 DEF SubsetsUpTo
    <3>2. Pick(T) \in T /\ Cardinality(T) \in Nat /\ Cardinality(T \ {Pick(T)}) = Cardinality(T) - 1
      BY <3>1, PickFacts
    <3> QED
      BY <3>1, <3>2, <1>3 DEF SubsetsUpTo
  <2>5. g \in [D -> Int]
    BY <2>4
  <2>6. \A T \in E : T \in D /\ g[T] = h[T]
    <3> SUFFICES ASSUME NEW T \in E PROVE T \in D /\ g[T] = h[T]
      OBVIOUS
    <3>1. T \in D
      BY <1>3, <1>4 DEF SubsetsUpTo
    <3>2. h[T] = IF T = {} THEN 0 ELSE f[Pick(T)] + h[T \ {Pick(T)}]
      BY <2>3 DEF SumsOver
    <3> QED
      BY <3>1, <3>2
  <2>7. SumsOver(g, f, D)
    <3>1. \A T \in D : g[T] = IF T = {} THEN 0 ELSE f[Pick(T)] + g[T \ {Pick(T)}]
      BY <2>4, <2>6
    <3>2. g = [T \in D |-> g[T]]
      OBVIOUS
    <3> HIDE DEF g
    <3>3. g = [T \in D |-> IF T = {} THEN 0 ELSE f[Pick(T)] + g[T \ {Pick(T)}]]
      BY <3>1, <3>2
    <3> QED
      BY <3>3 DEF SumsOver
  <2> QED
    BY <2>5, <2>7, <1>3
<1> QED
  BY <1>5, <1>6

\* The iterator of the fold, named.
SumIter(f, S) == CHOOSE g : SumsOver(g, f, SUBSET S)

LEMMA SumIsIter ==
  ASSUME NEW f, NEW S
  PROVE  SumFunctionOnSet(f, S) = SumIter(f, S)[S]
BY DEF SumFunctionOnSet, FoldFunctionOnSet, MapThenFoldSet, SumIter, SumsOver, Pick

LEMMA IterSums ==
  ASSUME NEW S, IsFiniteSet(S), NEW f, \A x \in S : f[x] \in Int
  PROVE  /\ SumsOver(SumIter(f, S), f, SUBSET S)
         /\ \A T \in SUBSET S : IsFiniteSet(T) /\ Cardinality(T) \in Nat
<1>1. \A T \in SUBSET S : IsFiniteSet(T) /\ Cardinality(T) \in Nat /\ Cardinality(T) <= Cardinality(S)
  BY FS_Subset, FS_CardinalityType
<1>2. SubsetsUpTo(S, Cardinality(S)) = SUBSET S
  BY <1>1 DEF SubsetsUpTo
<1>3. Cardinality(S) \in Nat
  BY FS_CardinalityType
<1>4. \E g \in [SubsetsUpTo(S, Cardinality(S)) -> Int] : SumsOver(g, f, SubsetsUpTo(S, Cardinality(S)))
  BY <1>3, PartialSumsExist
<1>5. \E g : SumsOver(g, f, SUBSET S)
  BY <1>2, <1>4
<1> QED
  BY <1>1, <1>5 DEF SumIter

\* Two iterators that sum functions equal on T agree on every subset of T.
LEMMA SumsAgree ==
  ASSUME NEW S, IsFiniteSet(S), NEW T \in SUBSET S, NEW f, NEW e, NEW g, NEW h,
         AgreeOn(f, e, T),
         SumsOver(g, f, SUBSET S), SumsOver(h, e, SUBSET T)
  PROVE  \A U \in SUBSET T : g[U] = h[U]
<1> DEFINE B == {n \in Nat : \E U \in SUBSET T : Cardinality(U) = n /\ g[U] # h[U]}
<1>1. SUFFICES ASSUME NEW V \in SUBSET T, g[V] # h[V] PROVE FALSE
  OBVIOUS
<1>2. \A U \in SUBSET T : IsFiniteSet(U) /\ Cardinality(U) \in Nat
  BY FS_Subset, FS_CardinalityType
<1>3. B \in SUBSET Nat /\ B # {}
  BY <1>1, <1>2
<1>4. PICK m \in B : \A k \in B : m <= k
  <2> HIDE DEF B
  <2> QED
    BY <1>3, LeastOf
<1>5. PICK U \in SUBSET T : Cardinality(U) = m /\ g[U] # h[U]
  BY <1>4
<1>6. g[U] = IF U = {} THEN 0 ELSE f[Pick(U)] + g[U \ {Pick(U)}]
  <2>1. U \in SUBSET S
    OBVIOUS
  <2> QED
    BY <2>1 DEF SumsOver
<1>7. h[U] = IF U = {} THEN 0 ELSE e[Pick(U)] + h[U \ {Pick(U)}]
  BY DEF SumsOver
<1>8. U # {}
  BY <1>5, <1>6, <1>7
<1>9. /\ Pick(U) \in U
      /\ Cardinality(U) \in Nat
      /\ Cardinality(U \ {Pick(U)}) = Cardinality(U) - 1
      /\ Cardinality(U) > 0
  BY <1>2, <1>8, PickFacts
<1>10. g[U \ {Pick(U)}] # h[U \ {Pick(U)}]
  BY <1>5, <1>6, <1>7, <1>8, <1>9 DEF AgreeOn
<1>11. m - 1 \in B
  BY <1>5, <1>9, <1>10
<1>12. m \in Nat
  BY <1>3, <1>4
<1> QED
  BY <1>4, <1>11, <1>12

\* Over the empty set the sum is zero.
LEMMA SumEmpty ==
  ASSUME NEW f
  PROVE  SumFunctionOnSet(f, {}) = 0
<1>1. IsFiniteSet({}) /\ \A x \in {} : f[x] \in Int
  BY FS_EmptySet
<1>2. SumsOver(SumIter(f, {}), f, SUBSET {})
  BY <1>1, IterSums
<1> QED
  BY <1>2, SumIsIter DEF SumsOver

\* The sum looks at the values on its index set only.
LEMMA SumEqual ==
  ASSUME NEW S, NEW f, NEW e, Summable(f, S), AgreeOn(f, e, S)
  PROVE  SumFunctionOnSet(f, S) = SumFunctionOnSet(e, S)
<1>1. SumsOver(SumIter(f, S), f, SUBSET S) /\ SumsOver(SumIter(e, S), e, SUBSET S)
  BY IterSums DEF Summable, AgreeOn
<1>2. S \in SUBSET S /\ IsFiniteSet(S)
  BY DEF Summable
<1>3. \A U \in SUBSET S : SumIter(f, S)[U] = SumIter(e, S)[U]
  BY <1>1, <1>2, SumsAgree
<1> QED
  BY <1>2, <1>3, SumIsIter

\* One unfolding of the fold.
LEMMA SumUnfold ==
  ASSUME NEW S, IsFiniteSet(S), S # {}, NEW f, \A x \in S : f[x] \in Int
  PROVE  SumFunctionOnSet(f, S) = f[Pick(S)] + SumFunctionOnSet(f, S \ {Pick(S)})
<1> DEFINE R == S \ {Pick(S)}
<1>1. Pick(S) \in S /\ IsFiniteSet(R)
  BY PickFacts
<1>2. SumsOver(SumIter(f, S), f, SUBSET S) /\ SumsOver(SumIter(f, R), f, SUBSET R)
  BY <1>1, IterSums
<1>3. SumIter(f, S)[S] = f[Pick(S)] + SumIter(f, S)[R]
  BY <1>2 DEF SumsOver
<1>4. SumIter(f, S)[R] = SumIter(f, R)[R]
  <2>1. R \in SUBSET S /\ R \in SUBSET R
    OBVIOUS
  <2>2. AgreeOn(f, f, R)
    BY DEF AgreeOn
  <2> HIDE DEF R
  <2>3. \A U \in SUBSET R : SumIter(f, S)[U] = SumIter(f, R)[U]
    BY <1>2, <2>1, <2>2, SumsAgree
  <2> QED
    BY <2>1, <2>3
<1> QED
  BY <1>3, <1>4, SumIsIter

\* A sum of integers is an integer.
THEOREM SumInt ==
  ASSUME NEW S, NEW f, Summable(f, S)
  PROVE  SumFunctionOnSet(f, S) \in Int
<1> DEFINE B == {n \in Nat : \E U \in SUBSET S : Cardinality(U) = n /\ SumFunctionOnSet(f, U) \notin Int}
<1>1. SUFFICES ASSUME SumFunctionOnSet(f, S) \notin Int PROVE FALSE
  OBVIOUS
<1>2. \A U \in SUBSET S : IsFiniteSet(U) /\ Cardinality(U) \in Nat /\ \A x \in U : f[x] \in Int
  BY FS_Subset, FS_CardinalityType DEF Summable
<1>3. B \in SUBSET Nat /\ B # {}
  BY <1>1, <1>2
<1>4. PICK m \in B : \A k \in B : m <= k
  <2> HIDE DEF B
  <2> QED
    BY <1>3, LeastOf
<1>5. PICK U \in SUBSET S : Cardinality(U) = m /\ SumFunctionOnSet(f, U) \notin Int
  BY <1>4
<1>6. U # {}
  BY <1>5, SumEmpty
<1>7. /\ Pick(U) \in U
      /\ Cardinality(U) \in Nat
      /\ Cardinality(U \ {Pick(U)}) = Cardinality(U) - 1
      /\ Cardinality(U) > 0
  BY <1>2, <1>6, PickFacts
<1>8. SumFunctionOnSet(f, U) = f[Pick(U)] + SumFunctionOnSet(f, U \ {Pick(U)})
  BY <1>2, <1>6, SumUnfold
<1>9. SumFunctionOnSet(f, U \ {Pick(U)}) \notin Int
  BY <1>2, <1>5, <1>7, <1>8
<1>10. m - 1 \in B
  BY <1>5, <1>7, <1>9
<1>11. m \in Nat
  BY <1>3, <1>4
<1> QED
  BY <1>4, <1>10, <1>11

\* Any element can be taken out first: the order of the additions is irrelevant.
THEOREM SumRemove ==
  ASSUME NEW S, NEW f, Summable(f, S), NEW y \in S
  PROVE  SumFunctionOnSet(f, S) = f[y] + SumFunctionOnSet(f, S \ {y})
<1> DEFINE Fails(U, z) == SumFunctionOnSet(f, U) # f[z] + SumFunctionOnSet(f, U \ {z})
           B == {n \in Nat : \E U \in SUBSET S : Cardinality(U) = n /\ \E z \in U : Fails(U, z)}
<1>1. SUFFICES ASSUME Fails(S, y) PROVE FALSE
  OBVIOUS
<1>2. \A U \in SUBSET S : IsFiniteSet(U) /\ Cardinality(U) \in Nat /\ \A x \in U : f[x] \in Int
  BY FS_Subset, FS_CardinalityType DEF Summable
<1>3. B \in SUBSET Nat /\ B # {}
  BY <1>1, <1>2
<1>4. PICK m \in B : \A k \in B : m <= k
  <2> HIDE DEF B
  <2> QED
    BY <1>3, LeastOf
<1>5. PICK U \in SUBSET S : Cardinality(U) = m /\ \E z \in U : Fails(U, z)
  BY <1>4
<1>6. PICK z \in U : Fails(U, z)
  BY <1>5
<1> DEFINE p == Pick(U)
<1>7. /\ p \in U
      /\ Cardinality(U) \in Nat
      /\ Cardinality(U \ {p}) = Cardinality(U) - 1
      /\ Cardinality(U) > 0
  BY <1>2, PickFacts
<1>8. Cardinality(U \ {z}) = Cardinality(U) - 1
  BY <1>2, FS_RemoveElement
<1>9. m - 1 \notin B
  BY <1>3, <1>4
<1>10. SumFunctionOnSet(f, U) = f[p] + SumFunctionOnSet(f, U \ {p})
  BY <1>2, SumUnfold
<1>11. p # z
  BY <1>6, <1>10
<1>12. \A W \in SUBSET S : \A w \in W :
          Cardinality(W) = m - 1 => SumFunctionOnSet(f, W) = f[w] + SumFunctionOnSet(f, W \ {w})
  BY <1>2, <1>9
<1>13. SumFunctionOnSet(f, U \ {p}) = f[z] + SumFunctionOnSet(f, (U \ {p}) \ {z})
  BY <1>5, <1>7, <1>11, <1>12
<1>14. SumFunctionOnSet(f, U \ {z}) = f[p] + SumFunctionOnSet(f, (U \ {z}) \ {p})
  BY <1>5, <1>7, <1>8, <1>11, <1>12
<1>15. (U \ {p}) \ {z} = (U \ {z}) \ {p}
  OBVIOUS
<1>16. f[p] \in Int /\ f[z] \in Int /\ SumFunctionOnSet(f, (U \ {z}) \ {p}) \in Int
  <2>1. Summable(f, (U \ {z}) \ {p})
    BY <1>2 DEF Summable
  <2>2. f[p] \in Int /\ f[z] \in Int
    BY <1>2, <1>7
  <2> QED
    BY <2>1, <2>2, SumInt
<1>17. SumFunctionOnSet(f, U) # f[z] + SumFunctionOnSet(f, U \ {z})
  BY <1>6
<1> HIDE DEF p, B, Fails
<1>18. SumFunctionOnSet(f, U) = f[p] + (f[z] + SumFunctionOnSet(f, (U \ {z}) \ {p}))
  BY <1>10, <1>13, <1>15
<1> QED
  BY <1>14, <1>16, <1>17, <1>18

\* Changing one value changes the sum by the difference.
THEOREM SumChange ==
  ASSUME NEW S, NEW f, NEW g, NEW y \in S,
         Summable(f, S), Summable(g, S), AgreeOn(f, g, S \ {y})
  PROVE  SumFunctionOnSet(g, S) = SumFunctionOnSet(f, S) - f[y] + g[y]
<1> DEFINE R == S \ {y}
<1>1. Summable(f, R) /\ AgreeOn(f, g, R)
  BY FS_RemoveElement DEF Summable
<1>2. SumFunctionOnSet(f, R) = SumFunctionOnSet(g, R) /\ SumFunctionOnSet(f, R) \in Int
  <2> HIDE DEF R
  <2> QED
    BY <1>1, SumEqual, SumInt
<1>3. SumFunctionOnSet(f, S) = f[y] + SumFunctionOnSet(f, R)
  BY SumRemove
<1>4. SumFunctionOnSet(g, S) = g[y] + SumFunctionOnSet(g, R)
  BY SumRemove
<1>5. f[y] \in Int /\ g[y] \in Int
  BY DEF Summable
<1> HIDE DEF R
<1> QED
  BY <1>2, <1>3, <1>4, <1>5

\* A sum of naturals is a natural, and no value exceeds it.
THEOREM SumNat ==
  ASSUME NEW S, IsFiniteSet(S), NEW f, \A x \in S : f[x] \in Nat
  PROVE  /\ SumFunctionOnSet(f, S) \in Nat
         /\ \A x \in S : f[x] <= SumFunctionOnSet(f, S)
<1> DEFINE B == {n \in Nat : \E U \in SUBSET S : Cardinality(U) = n /\ SumFunctionOnSet(f, U) \notin Nat}
<1>1. /\ \A U \in SUBSET S : IsFiniteSet(U) /\ Cardinality(U) \in Nat
      /\ \A x \in S : f[x] \in Int
  BY FS_Subset, FS_CardinalityType
<1>2. ASSUME NEW V \in SUBSET S, SumFunctionOnSet(f, V) \notin Nat PROVE FALSE
  <2>1. B \in SUBSET Nat /\ B # {}
    BY <1>1, <1>2
  <2>2. PICK m \in B : \A k \in B : m <= k
    <3> HIDE DEF B
    <3> QED
      BY <2>1, LeastOf
  <2>3. PICK U \in SUBSET S : Cardinality(U) = m /\ SumFunctionOnSet(f, U) \notin Nat
    BY <2>2
  <2>4. U # {}
    BY <2>3, SumEmpty
  <2>5. /\ Pick(U) \in U
        /\ Cardinality(U) \in Nat
        /\ Cardinality(U \ {Pick(U)}) = Cardinality(U) - 1
        /\ Cardinality(U) > 0
    BY <1>1, <2>4, PickFacts
  <2>6. SumFunctionOnSet(f, U) = f[Pick(U)] + SumFunctionOnSet(f, U \ {Pick(U)})
    BY <1>1, <2>4, SumUnfold
  <2>7. SumFunctionOnSet(f, U \ {Pick(U)}) \notin Nat
    BY <2>3, <2>5, <2>6
  <2>8. m - 1 \in B
    BY <2>3, <2>5, <2>7
  <2>9. m \in Nat
    BY <2>1, <2>2
  <2> QED
    BY <2>2, <2>8, <2>9
<1>3. \A V \in SUBSET S : SumFunctionOnSet(f, V) \in Nat
  BY <1>2
<1>4. ASSUME NEW x \in S PROVE f[x] <= SumFunctionOnSet(f, S)
  <2>1. SumFunctionOnSet(f, S) = f[x] + SumFunctionOnSet(f, S \ {x})
    BY <1>1, SumRemove DEF Summable
  <2>2. SumFunctionOnSet(f, S \ {x}) \in Nat
    BY <1>3
  <2> QED
    BY <2>1, <2>2
<1> QED
  BY <1>3, <1>4

\* A new index adds its value to the sum.
THEOREM SumAdd ==
  ASSUME NEW S, NEW y, y \notin S, NEW f, Summable(f, S \cup {y}), IsFiniteSet(S)
  PROVE  SumFunctionOnSet(f, S \cup {y}) = SumFunctionOnSet(f, S) + f[y]
<1>1. (S \cup {y}) \ {y} = S
  OBVIOUS
<1>2. SumFunctionOnSet(f, S \cup {y}) = f[y] + SumFunctionOnSet(f, S)
  BY <1>1, SumRemove
<1>3. Summable(f, S) /\ f[y] \in Int
  BY DEF Summable
<1>4. SumFunctionOnSet(f, S) \in Int
  BY <1>3, SumInt
<1> QED
  BY <1>2, <1>3, <1>4

\* A sum of zeros is zero.
THEOREM SumZero ==
  ASSUME NEW S, IsFiniteSet(S), NEW f, \A x \in S : f[x] = 0
  PROVE  SumFunctionOnSet(f, S) = 0
<1> DEFINE B == {n \in Nat : \E U \in SUBSET S : Cardinality(U) = n /\ SumFunctionOnSet(f, U) # 0}
<1>1. SUFFICES ASSUME SumFunctionOnSet(f, S) # 0 PROVE FALSE
  OBVIOUS
<1>2. \A U \in SUBSET S : IsFiniteSet(U) /\ Cardinality(U) \in Nat
  BY FS_Subset, FS_CardinalityType
<1>3. B \in SUBSET Nat /\ B # {}
  BY <1>1, <1>2
<1>4. PICK m \in B : \A k \in B : m <= k
  <2> HIDE DEF B
  <2> QED
    BY <1>3, LeastOf
<1>5. PICK U \in SUBSET S : Cardinality(U) = m /\ SumFunctionOnSet(f, U) # 0
  BY <1>4
<1>6. U # {}
  BY <1>5, SumEmpty
<1>7. /\ Pick(U) \in U
      /\ Cardinality(U) \in Nat
      /\ Cardinality(U) > 0
      /\ Cardinality(U \ {Pick(U)}) = Cardinality(U) - 1
  BY <1>2, <1>6, PickFacts
<1>8. SumFunctionOnSet(f, U) = f[Pick(U)] + SumFunctionOnSet(f, U \ {Pick(U)})
  BY <1>2, <1>6, SumUnfold
<1>9. SumFunctionOnSet(f, U \ {Pick(U)}) # 0
  BY <1>5, <1>7, <1>8
<1>10. m - 1 \in B
  BY <1>5, <1>7, <1>9
<1>11. m \in Nat
  BY <1>3, <1>4
<1> QED
  BY <1>4, <1>10, <1>11
\* The sums over two disjoint sets make the sum over both.
THEOREM SumUnion ==
  ASSUME NEW S, NEW T, NEW f, Summable(f, S \cup T), IsFiniteSet(S), IsFiniteSet(T), S \cap T = {}
  PROVE  SumFunctionOnSet(f, S \cup T) = SumFunctionOnSet(f, S) + SumFunctionOnSet(f, T)
<1> DEFINE Fails(U) == SumFunctionOnSet(f, S \cup U) # SumFunctionOnSet(f, S) + SumFunctionOnSet(f, U)
           B == {n \in Nat : \E U \in SUBSET T : Cardinality(U) = n /\ Fails(U)}
<1>1. SUFFICES ASSUME Fails(T) PROVE FALSE
  OBVIOUS
<1>2. /\ \A U \in SUBSET T : IsFiniteSet(U) /\ Cardinality(U) \in Nat
      /\ \A x \in S \cup T : f[x] \in Int
  BY FS_Subset, FS_CardinalityType DEF Summable
<1>3. B \in SUBSET Nat /\ B # {}
  BY <1>1, <1>2
<1>4. PICK m \in B : \A k \in B : m <= k
  <2> HIDE DEF B
  <2> QED
    BY <1>3, LeastOf
<1>5. PICK U \in SUBSET T : Cardinality(U) = m /\ Fails(U)
  BY <1>4
<1>6. SumFunctionOnSet(f, S) \in Int
  BY <1>2, SumInt DEF Summable
<1>7. U # {}
  <2>1. S \cup {} = S
    OBVIOUS
  <2> QED
    BY <1>5, <1>6, <2>1, SumEmpty
<1> DEFINE y == Pick(U)
           R == U \ {y}
<1>8. /\ y \in U /\ IsFiniteSet(R)
      /\ Cardinality(U) \in Nat
      /\ Cardinality(U) > 0
      /\ Cardinality(R) = Cardinality(U) - 1
  BY <1>2, <1>7, PickFacts
<1>9. SumFunctionOnSet(f, U) = f[y] + SumFunctionOnSet(f, R)
  BY <1>2, <1>7, SumUnfold
<1> HIDE DEF y
<1>10. SumFunctionOnSet(f, S \cup U) = SumFunctionOnSet(f, S \cup R) + f[y]
  <2>1. S \cup U = (S \cup R) \cup {y} /\ y \notin S \cup R
    BY <1>8
  <2>2. IsFiniteSet(S \cup R) /\ IsFiniteSet((S \cup R) \cup {y})
    BY <1>8, FS_Union, FS_AddElement
  <2>3. Summable(f, (S \cup R) \cup {y})
    BY <1>2, <1>8, <2>2 DEF Summable
  <2> HIDE DEF R
  <2> QED
    BY <2>1, <2>2, <2>3, SumAdd
<1>11. SumFunctionOnSet(f, R) \in Int /\ f[y] \in Int
  BY <1>2, <1>8, SumInt DEF Summable
<1>12. Fails(R)
  BY <1>5, <1>6, <1>9, <1>10, <1>11
<1>13. m \in Nat /\ Cardinality(R) \in Nat /\ R \in SUBSET T
  BY <1>2, <1>3, <1>4
<1>14. m - 1 \in B
  BY <1>5, <1>8, <1>12, <1>13
<1> HIDE DEF B, R
<1> QED
  BY <1>4, <1>13, <1>14

\* A factor may be taken out of a sum of two naturals.
LEMMA Distribute ==
  ASSUME NEW s \in Nat, NEW a \in Nat, NEW b \in Nat
  PROVE  s * (a + b) = s * a + s * b
OBVIOUS

\* What bounds each value, up to a factor on either side, bounds the sums.
THEOREM SumScaled ==
  ASSUME NEW S, IsFiniteSet(S), NEW f, NEW g, NEW s \in Nat, NEW r \in Nat,
         \A x \in S : f[x] \in Nat /\ g[x] \in Nat /\ s * f[x] <= r * g[x]
  PROVE  s * SumFunctionOnSet(f, S) <= r * SumFunctionOnSet(g, S)
<1> DEFINE Fails(U) == ~ (s * SumFunctionOnSet(f, U) <= r * SumFunctionOnSet(g, U))
           B == {n \in Nat : \E U \in SUBSET S : Cardinality(U) = n /\ Fails(U)}
<1>1. SUFFICES ASSUME Fails(S) PROVE FALSE
  OBVIOUS
<1>2. \A U \in SUBSET S : IsFiniteSet(U) /\ Cardinality(U) \in Nat
  BY FS_Subset, FS_CardinalityType
<1>3. B \in SUBSET Nat /\ B # {}
  BY <1>1, <1>2
<1>4. PICK m \in B : \A k \in B : m <= k
  <2> HIDE DEF B
  <2> QED
    BY <1>3, LeastOf
<1>5. PICK U \in SUBSET S : Cardinality(U) = m /\ Fails(U)
  BY <1>4
<1>6. U # {}
  BY <1>5, SumEmpty
<1> DEFINE y == Pick(U)
           R == U \ {y}
<1>7. /\ y \in U /\ IsFiniteSet(R)
      /\ Cardinality(U) \in Nat
      /\ Cardinality(U) > 0
      /\ Cardinality(R) = Cardinality(U) - 1
  BY <1>2, <1>6, PickFacts
<1>8. /\ SumFunctionOnSet(f, U) = f[y] + SumFunctionOnSet(f, R)
      /\ SumFunctionOnSet(g, U) = g[y] + SumFunctionOnSet(g, R)
  <2>1. \A x \in U : f[x] \in Int /\ g[x] \in Int
    OBVIOUS
  <2> QED
    BY <1>2, <1>6, <2>1, SumUnfold
<1>9. SumFunctionOnSet(f, R) \in Nat /\ SumFunctionOnSet(g, R) \in Nat
  BY <1>7, SumNat
<1> HIDE DEF y
<1>10. f[y] \in Nat /\ g[y] \in Nat /\ s * f[y] <= r * g[y]
  BY <1>7
<1>11. /\ s * SumFunctionOnSet(f, U) = s * f[y] + s * SumFunctionOnSet(f, R)
       /\ r * SumFunctionOnSet(g, U) = r * g[y] + r * SumFunctionOnSet(g, R)
  <2> HIDE DEF R
  <2> QED
    BY <1>8, <1>9, <1>10, Distribute
<1>12. s * f[y] \in Nat /\ r * g[y] \in Nat /\ s * SumFunctionOnSet(f, R) \in Nat /\ r * SumFunctionOnSet(g, R) \in Nat
  BY <1>9, <1>10
<1>13. Fails(R)
  BY <1>5, <1>10, <1>11, <1>12
<1>14. m \in Nat /\ Cardinality(R) \in Nat /\ R \in SUBSET S
  BY <1>2, <1>3, <1>4
<1>15. m - 1 \in B
  BY <1>5, <1>7, <1>13, <1>14
<1> QED
  BY <1>4, <1>14, <1>15

\* The sum of the sums of two values is the sum of their two sums.
THEOREM SumPlus ==
  ASSUME NEW S, NEW f, NEW g, NEW h, Summable(f, S), Summable(g, S), \A x \in S : h[x] = f[x] + g[x]
  PROVE  SumFunctionOnSet(h, S) = SumFunctionOnSet(f, S) + SumFunctionOnSet(g, S)
<1> DEFINE Fails(U) == SumFunctionOnSet(h, U) # SumFunctionOnSet(f, U) + SumFunctionOnSet(g, U)
           B == {n \in Nat : \E U \in SUBSET S : Cardinality(U) = n /\ Fails(U)}
<1>1. SUFFICES ASSUME Fails(S) PROVE FALSE
  OBVIOUS
<1>2. /\ \A U \in SUBSET S : IsFiniteSet(U) /\ Cardinality(U) \in Nat
      /\ \A x \in S : f[x] \in Int /\ g[x] \in Int /\ h[x] \in Int
  BY FS_Subset, FS_CardinalityType DEF Summable
<1>3. B \in SUBSET Nat /\ B # {}
  BY <1>1, <1>2
<1>4. PICK m \in B : \A k \in B : m <= k
  <2> HIDE DEF B
  <2> QED
    BY <1>3, LeastOf
<1>5. PICK U \in SUBSET S : Cardinality(U) = m /\ Fails(U)
  BY <1>4
<1>6. U # {}
  <2>1. SumFunctionOnSet(f, {}) = 0 /\ SumFunctionOnSet(g, {}) = 0 /\ SumFunctionOnSet(h, {}) = 0
    BY SumEmpty
  <2> QED
    BY <1>5, <2>1
<1> DEFINE y == Pick(U)
           R == U \ {y}
<1>7. /\ y \in U /\ IsFiniteSet(R)
      /\ Cardinality(U) \in Nat
      /\ Cardinality(U) > 0
      /\ Cardinality(R) = Cardinality(U) - 1
  BY <1>2, <1>6, PickFacts
<1>8. /\ SumFunctionOnSet(f, U) = f[y] + SumFunctionOnSet(f, R)
      /\ SumFunctionOnSet(g, U) = g[y] + SumFunctionOnSet(g, R)
      /\ SumFunctionOnSet(h, U) = h[y] + SumFunctionOnSet(h, R)
  <2>1. \A x \in U : f[x] \in Int /\ g[x] \in Int /\ h[x] \in Int
    BY <1>2
  <2> QED
    BY <1>2, <1>6, <2>1, SumUnfold
<1>9. SumFunctionOnSet(f, R) \in Int /\ SumFunctionOnSet(g, R) \in Int /\ SumFunctionOnSet(h, R) \in Int
  BY <1>2, <1>7, SumInt DEF Summable
<1> HIDE DEF y
<1>10. f[y] \in Int /\ g[y] \in Int /\ h[y] = f[y] + g[y]
  BY <1>2, <1>7
<1>11. Fails(R)
  BY <1>5, <1>8, <1>9, <1>10
<1>12. m \in Nat /\ Cardinality(R) \in Nat /\ R \in SUBSET S
  BY <1>2, <1>3, <1>4
<1>13. m - 1 \in B
  BY <1>5, <1>7, <1>11, <1>12
<1> QED
  BY <1>4, <1>12, <1>13

\* One more term at the end of a list of them.
THEOREM SumExtend ==
  ASSUME NEW n \in Nat, NEW f, NEW g, \A k \in 1 .. n : f[k] \in Int /\ g[k] = f[k], g[n + 1] \in Int
  PROVE  SumFunctionOnSet(g, 1 .. n + 1) = SumFunctionOnSet(f, 1 .. n) + g[n + 1]
<1>1. 1 .. n + 1 = (1 .. n) \cup {n + 1} /\ n + 1 \notin 1 .. n
  OBVIOUS
<1>2. IsFiniteSet(1 .. n) /\ IsFiniteSet(1 .. n + 1)
  BY FS_Interval
<1>3. \A k \in 1 .. n + 1 : g[k] \in Int
  BY <1>1
<1>4. Summable(g, (1 .. n) \cup {n + 1}) /\ Summable(g, 1 .. n)
  BY <1>1, <1>2, <1>3 DEF Summable
<1>5. SumFunctionOnSet(g, (1 .. n) \cup {n + 1}) = SumFunctionOnSet(g, 1 .. n) + g[n + 1]
  BY <1>1, <1>2, <1>4, SumAdd
<1>6. SumFunctionOnSet(g, 1 .. n) = SumFunctionOnSet(f, 1 .. n)
  BY <1>4, SumEqual DEF AgreeOn
<1> QED
  BY <1>1, <1>5, <1>6

-----------------------------------------------------------------------------
(* The ledger *)

Ledger(A) == [bal: [A -> Nat], opened: SUBSET A, supply: Nat]

Total(l, A) == SumFunctionOnSet(l.bal, A)

-----------------------------------------------------------------------------
\* Both bounds stay within the amount and within the limit.
LEMMA Bounds ==
  ASSUME NEW x \in Nat, NEW limit \in Nat
  PROVE  /\ SilentFail(x, limit) \in Nat /\ SilentFail(x, limit) <= limit /\ SilentFail(x, limit) <= x
         /\ x <= limit => SilentFail(x, limit) = x
         /\ Clamp(x, limit) \in Nat /\ Clamp(x, limit) <= limit /\ Clamp(x, limit) <= x
BY DEF SilentFail, Clamp

\* Narrowing yields a value of the width, and leaves one that fits alone.
LEMMA NarrowFits ==
  ASSUME NEW x \in Nat, NEW max \in Nat
  PROVE  /\ Narrow(x, max) \in Nat
         /\ x <= max => Narrow(x, max) = x
BY DEF Narrow

LEMMA CreditFacts ==
  ASSUME NEW A, IsFiniteSet(A), NEW l \in Ledger(A), NEW a \in A, NEW x \in Nat
  PROVE  /\ Credit(l, a, x) \in Ledger(A)
         /\ Credit(l, a, x).bal = [l.bal EXCEPT ![a] = l.bal[a] + x]
         /\ Credit(l, a, x).supply = l.supply
         /\ Credit(l, a, x).opened = l.opened \cup {a}
         /\ Total(Credit(l, a, x), A) = Total(l, A) + x
<1>1. l.bal \in [A -> Nat] /\ l.bal[a] \in Nat
  BY DEF Ledger
<1>2. Credit(l, a, x).bal = [l.bal EXCEPT ![a] = l.bal[a] + x]
  BY <1>1 DEF Credit, Ledger
<1>3. SumFunctionOnSet(Credit(l, a, x).bal, A) = SumFunctionOnSet(l.bal, A) - l.bal[a] + Credit(l, a, x).bal[a]
  <2>1. Summable(l.bal, A) /\ Summable(Credit(l, a, x).bal, A)
    BY <1>1, <1>2 DEF Summable
  <2>2. AgreeOn(l.bal, Credit(l, a, x).bal, A \ {a})
    BY <1>1, <1>2 DEF AgreeOn
  <2> QED
    BY <2>1, <2>2, SumChange
<1>4. SumFunctionOnSet(l.bal, A) \in Int
  BY <1>1, SumInt DEF Summable
<1>5. Total(Credit(l, a, x), A) = Total(l, A) + x
  BY <1>1, <1>2, <1>3, <1>4 DEF Total
<1>6. Credit(l, a, x) \in Ledger(A)
  <2>1. [l.bal EXCEPT ![a] = l.bal[a] + x] \in [A -> Nat]
    BY <1>1
  <2>2. l.opened \cup {a} \in SUBSET A /\ l.supply \in Nat
    BY DEF Ledger
  <2> QED
    BY <2>1, <2>2 DEF Credit, Ledger
<1>7. Credit(l, a, x).supply = l.supply /\ Credit(l, a, x).opened = l.opened \cup {a}
  BY DEF Credit, Ledger
<1> QED
  BY <1>2, <1>5, <1>6, <1>7

LEMMA DebitFacts ==
  ASSUME NEW A, IsFiniteSet(A), NEW l \in Ledger(A), NEW a \in A, NEW x \in Nat, x <= l.bal[a]
  PROVE  /\ Debit(l, a, x) \in Ledger(A)
         /\ Debit(l, a, x).bal = [l.bal EXCEPT ![a] = l.bal[a] - x]
         /\ Debit(l, a, x).supply = l.supply
         /\ Debit(l, a, x).opened = l.opened
         /\ Total(Debit(l, a, x), A) = Total(l, A) - x
<1>1. l.bal \in [A -> Nat] /\ l.bal[a] \in Nat
  BY DEF Ledger
<1>2. Debit(l, a, x).bal = [l.bal EXCEPT ![a] = l.bal[a] - x]
  BY <1>1 DEF Debit, Ledger
<1>3. SumFunctionOnSet(Debit(l, a, x).bal, A) = SumFunctionOnSet(l.bal, A) - l.bal[a] + Debit(l, a, x).bal[a]
  <2>1. Summable(l.bal, A) /\ Summable(Debit(l, a, x).bal, A)
    BY <1>1, <1>2 DEF Summable
  <2>2. AgreeOn(l.bal, Debit(l, a, x).bal, A \ {a})
    BY <1>1, <1>2 DEF AgreeOn
  <2> QED
    BY <2>1, <2>2, SumChange
<1>4. SumFunctionOnSet(l.bal, A) \in Int
  BY <1>1, SumInt DEF Summable
<1>5. Total(Debit(l, a, x), A) = Total(l, A) - x
  BY <1>1, <1>2, <1>3, <1>4 DEF Total
<1>6. Debit(l, a, x) \in Ledger(A)
  BY <1>1 DEF Debit, Ledger
<1>7. Debit(l, a, x).supply = l.supply /\ Debit(l, a, x).opened = l.opened
  BY DEF Debit, Ledger
<1> QED
  BY <1>2, <1>5, <1>6, <1>7

\* A covered move keeps the total and touches the two accounts only.
LEMMA MoveFacts ==
  ASSUME NEW A, IsFiniteSet(A), NEW l \in Ledger(A), NEW from \in A, NEW to \in A,
         NEW x \in Nat, x <= l.bal[from]
  PROVE  /\ Move(l, from, to, x) \in Ledger(A)
         /\ Move(l, from, to, x).supply = l.supply
         /\ Move(l, from, to, x).opened = l.opened \cup {to}
         /\ Total(Move(l, from, to, x), A) = Total(l, A)
         /\ \A a \in A \ {from, to} : Move(l, from, to, x).bal[a] = l.bal[a]
         /\ from # to => /\ Move(l, from, to, x).bal[from] = l.bal[from] - x
                         /\ Move(l, from, to, x).bal[to] = l.bal[to] + x
<1> DEFINE d == Debit(l, from, x)
<1>1. /\ d \in Ledger(A)
      /\ d.bal = [l.bal EXCEPT ![from] = l.bal[from] - x]
      /\ d.supply = l.supply
      /\ d.opened = l.opened
      /\ Total(d, A) = Total(l, A) - x
  BY DebitFacts
<1>2. /\ Credit(d, to, x) \in Ledger(A)
      /\ Credit(d, to, x).bal = [d.bal EXCEPT ![to] = d.bal[to] + x]
      /\ Credit(d, to, x).supply = d.supply
      /\ Credit(d, to, x).opened = d.opened \cup {to}
      /\ Total(Credit(d, to, x), A) = Total(d, A) + x
  <2> HIDE DEF d
  <2> QED
    BY <1>1, CreditFacts
<1>3. Move(l, from, to, x) = Credit(d, to, x)
  BY DEF Move
<1>4. l.bal \in [A -> Nat] /\ Total(l, A) \in Int
  <2>1. l.bal \in [A -> Nat]
    BY DEF Ledger
  <2> QED
    BY <2>1, SumInt DEF Total, Summable
<1> HIDE DEF d
<1>5. Total(Move(l, from, to, x), A) = Total(l, A)
  BY <1>1, <1>2, <1>3, <1>4
<1>6. \A a \in A \ {from, to} : Move(l, from, to, x).bal[a] = l.bal[a]
  BY <1>1, <1>2, <1>3, <1>4
<1>7. from # to => /\ Move(l, from, to, x).bal[from] = l.bal[from] - x
                   /\ Move(l, from, to, x).bal[to] = l.bal[to] + x
  BY <1>1, <1>2, <1>3, <1>4
<1> QED
  BY <1>1, <1>2, <1>3, <1>5, <1>6, <1>7

LEMMA MintFacts ==
  ASSUME NEW A, IsFiniteSet(A), NEW l \in Ledger(A), NEW to \in A, NEW x \in Nat
  PROVE  /\ MintInternal(l, to, x) \in Ledger(A)
         /\ MintInternal(l, to, x).supply = l.supply + x
         /\ MintInternal(l, to, x).opened = l.opened \cup {to}
         /\ MintInternal(l, to, x).bal = [l.bal EXCEPT ![to] = l.bal[to] + x]
         /\ Total(MintInternal(l, to, x), A) = Total(l, A) + x
<1> DEFINE c == Credit(l, to, x)
<1>1. /\ c \in Ledger(A)
      /\ c.bal = [l.bal EXCEPT ![to] = l.bal[to] + x]
      /\ c.supply = l.supply
      /\ c.opened = l.opened \cup {to}
      /\ Total(c, A) = Total(l, A) + x
  BY CreditFacts
<1>2. MintInternal(l, to, x) = [c EXCEPT !.supply = @ + x]
  BY DEF MintInternal
<1> HIDE DEF c
<1>3. /\ [c EXCEPT !.supply = @ + x] \in Ledger(A)
      /\ [c EXCEPT !.supply = @ + x].bal = c.bal
      /\ [c EXCEPT !.supply = @ + x].opened = c.opened
      /\ [c EXCEPT !.supply = @ + x].supply = c.supply + x
  BY <1>1 DEF Ledger
<1> QED
  BY <1>1, <1>2, <1>3 DEF Total

LEMMA BurnFacts ==
  ASSUME NEW A, IsFiniteSet(A), NEW l \in Ledger(A), NEW from \in A, NEW x \in Nat,
         x <= l.bal[from], x <= l.supply
  PROVE  /\ BurnInternal(l, from, x) \in Ledger(A)
         /\ BurnInternal(l, from, x).supply = l.supply - x
         /\ BurnInternal(l, from, x).opened = l.opened
         /\ BurnInternal(l, from, x).bal = [l.bal EXCEPT ![from] = l.bal[from] - x]
         /\ Total(BurnInternal(l, from, x), A) = Total(l, A) - x
<1> DEFINE d == Debit(l, from, x)
<1>1. /\ d \in Ledger(A)
      /\ d.bal = [l.bal EXCEPT ![from] = l.bal[from] - x]
      /\ d.supply = l.supply
      /\ d.opened = l.opened
      /\ Total(d, A) = Total(l, A) - x
  BY DebitFacts
<1>2. BurnInternal(l, from, x) = [d EXCEPT !.supply = @ - x]
  BY DEF BurnInternal
<1> HIDE DEF d
<1>3. /\ [d EXCEPT !.supply = @ - x] \in Ledger(A)
      /\ [d EXCEPT !.supply = @ - x].bal = d.bal
      /\ [d EXCEPT !.supply = @ - x].opened = d.opened
      /\ [d EXCEPT !.supply = @ - x].supply = d.supply - x
  BY <1>1 DEF Ledger
<1> QED
  BY <1>1, <1>2, <1>3 DEF Total

\* When the supply is the sum of the balances, no balance exceeds it.
LEMMA BalanceBelowSupply ==
  ASSUME NEW A, IsFiniteSet(A), NEW l \in Ledger(A), l.supply = Total(l, A), NEW a \in A
  PROVE  l.bal[a] <= l.supply
<1>1. \A b \in A : l.bal[b] \in Nat
  BY DEF Ledger
<1> QED
  BY <1>1, SumNat DEF Total
=============================================================================
