--------------------- MODULE IssuerControlledOracleProofs ---------------------
(***************************************************************************)
(* Proofs about IssuerControlledOracle, for any quotes, windows, bounds on *)
(* the deviation and grace periods: a fresh NAV was quoted within the      *)
(* window, the NAV in force never goes back to an older quote, and the     *)
(* oracle implements NavReading.                                           *)
(***************************************************************************)
EXTENDS IssuerControlledOracle, TLAPS

\* A NAV the writer sent at a time.
QuotedAt(nav, at) == [nav |-> nav, at |-> at] \in quotes

\* The NAV in force is a quote with its own date.
InForceQuoted ==
  /\ data.updatedAt <= now
  /\ data.nav # 0 => QuotedAt(data.nav, data.updatedAt)

\* So is a parked one, which is no older than the NAV it waits to replace.
ParkedQuoted ==
  data.pendingNAV # 0 =>
    /\ data.nav # 0
    /\ QuotedAt(data.pendingNAV, data.pendingUpdatedAt)
    /\ data.updatedAt <= data.pendingUpdatedAt
    /\ data.pendingUpdatedAt <= now

\* The inductive invariant.
IInv == TypeOK /\ now # 0 /\ InForceQuoted /\ ParkedQuoted

-----------------------------------------------------------------------------
LEMMA Facts ==
  /\ NAVs \subseteq Nat \ {0} /\ DefaultWindow \in Nat /\ Windows \subseteq Nat
  /\ MaxTime \in Nat \ {0} /\ Times = 0 .. MaxTime /\ Times \subseteq Nat
  /\ Deviations \subseteq Nat /\ GracePeriods \subseteq Nat /\ DefaultGrace \in Nat
BY OracleAssumption DEF Times

\* The fields of the record, by name.
LEMMA Fields ==
  ASSUME TypeOK
  PROVE  /\ now \in Times /\ now \in Nat
         /\ data.nav \in NAVs \cup {0} /\ data.updatedAt \in Times
         /\ data.maxStaleness \in Windows \cup {0} /\ data.maxDeviationBps \in Deviations \cup {0}
         /\ data.pendingNAV \in NAVs \cup {0} /\ data.pendingUpdatedAt \in Times
         /\ data.pendingNAV # 0 <=> data.pendingUpdatedAt # 0
         /\ data = [nav |-> data.nav, updatedAt |-> data.updatedAt, maxStaleness |-> data.maxStaleness,
                    maxDeviationBps |-> data.maxDeviationBps, pendingNAV |-> data.pendingNAV,
                    pendingUpdatedAt |-> data.pendingUpdatedAt]
         /\ feed \in Feeds /\ grace \in GracePeriods \cup {DefaultGrace}
         /\ quotes \subseteq [nav: NAVs, at: Times]
BY Facts DEF TypeOK

LEMMA InitOK == Init => IInv
BY Facts DEF Init, IInv, TypeOK, InForceQuoted, ParkedQuoted, Feeds

\* A quote: seeded or committed under its own date, or parked under it.
LEMMA SetNAVKeeps ==
  ASSUME IInv, NEW nav \in NAVs, SetNAV(nav)
  PROVE  IInv' /\ data'.updatedAt >= data.updatedAt
<1>1. TypeOK /\ now # 0 /\ InForceQuoted /\ ParkedQuoted /\ UNCHANGED <<now, feed, grace>>
  BY DEF IInv, SetNAV
<1>2. nav \in Nat /\ nav # 0 /\ now \in Times /\ Times \subseteq Nat
  BY <1>1, Facts, Fields
<1>3. quotes' \subseteq [nav: NAVs, at: Times] /\ QuotedAt(nav, now)' /\ quotes \subseteq quotes'
  BY <1>1, <1>2, Fields DEF SetNAV, QuotedAt
<1>4. CASE data' = Parked(nav) /\ data.nav # 0
  <2>1. data' = [nav |-> data.nav, updatedAt |-> data.updatedAt, maxStaleness |-> data.maxStaleness,
                 maxDeviationBps |-> data.maxDeviationBps, pendingNAV |-> nav, pendingUpdatedAt |-> now]
    BY <1>1, <1>4, Fields DEF Parked
  <2>2. TypeOK'
    BY <1>1, <1>2, <1>3, <2>1, Fields DEF TypeOK
  <2>3. InForceQuoted'
    BY <1>1, <1>3, <2>1 DEF InForceQuoted, QuotedAt
  <2>4. ParkedQuoted'
    <3>1. data.updatedAt <= now /\ now <= now
      BY <1>1, <1>2 DEF InForceQuoted
    <3> QED
      BY <1>1, <1>3, <1>4, <2>1, <3>1 DEF ParkedQuoted, QuotedAt
  <2> QED
    BY <1>1, <1>2, <2>1, <2>2, <2>3, <2>4, Fields DEF IInv
<1>5. CASE data' = Committed(nav) \/ (data' = Seeded(nav) /\ data.nav = 0)
  <2>1. data.nav = 0 => data.pendingNAV = 0 /\ data.pendingUpdatedAt = 0
    BY <1>1, Fields DEF ParkedQuoted
  <2>2. data' = [nav |-> nav, updatedAt |-> now, maxStaleness |-> data.maxStaleness,
                 maxDeviationBps |-> data.maxDeviationBps, pendingNAV |-> 0, pendingUpdatedAt |-> 0]
    BY <1>1, <1>5, <2>1, Fields DEF Seeded, Committed
  <2>3. TypeOK'
    BY <1>1, <1>2, <1>3, <2>2, Fields, Facts DEF TypeOK
  <2>4. InForceQuoted'
    BY <1>1, <1>2, <1>3, <2>2 DEF InForceQuoted, QuotedAt
  <2>5. ParkedQuoted'
    BY <2>2 DEF ParkedQuoted
  <2>6. data.updatedAt <= now
    BY <1>1 DEF InForceQuoted
  <2> QED
    BY <1>1, <1>2, <2>2, <2>3, <2>4, <2>5, <2>6, Fields DEF IInv
<1> QED
  BY <1>4, <1>5 DEF SetNAV

\* Only a parked quote can be accepted, and it is the younger of the two.
LEMMA AcceptKeeps ==
  ASSUME IInv, AcceptPendingNAV
  PROVE  IInv' /\ data'.updatedAt >= data.updatedAt
<1>1. TypeOK /\ now # 0 /\ ParkedQuoted /\ UNCHANGED <<now, feed, grace, quotes>> /\ data.pendingNAV # 0
  BY DEF IInv, AcceptPendingNAV, HasPending
<1>2. data' = [nav |-> data.pendingNAV, updatedAt |-> data.pendingUpdatedAt, maxStaleness |-> data.maxStaleness,
               maxDeviationBps |-> data.maxDeviationBps, pendingNAV |-> 0, pendingUpdatedAt |-> 0]
  BY <1>1, Fields DEF AcceptPendingNAV, AcceptedAt
<1>3. /\ QuotedAt(data.pendingNAV, data.pendingUpdatedAt)
      /\ data.updatedAt <= data.pendingUpdatedAt /\ data.pendingUpdatedAt <= now
  BY <1>1 DEF ParkedQuoted
<1>4. TypeOK'
  BY <1>1, <1>2, Fields, Facts DEF TypeOK
<1>5. InForceQuoted' /\ ParkedQuoted'
  BY <1>1, <1>2, <1>3 DEF InForceQuoted, ParkedQuoted, QuotedAt
<1>6. data'.updatedAt >= data.updatedAt
  BY <1>1, <1>2, <1>3, Fields, Facts
<1> QED
  BY <1>1, <1>4, <1>5, <1>6 DEF IInv

\* What leaves both NAVs and their dates alone, and drops the parked one at most.
LEMMA SettingsKeep ==
  ASSUME IInv, UNCHANGED <<now, feed, grace, quotes>>,
         NEW window \in Windows \cup {0}, NEW bps \in Deviations \cup {0}, NEW kept \in BOOLEAN,
         data' = [nav |-> data.nav, updatedAt |-> data.updatedAt, maxStaleness |-> window,
                  maxDeviationBps |-> bps, pendingNAV |-> IF kept THEN data.pendingNAV ELSE 0,
                  pendingUpdatedAt |-> IF kept THEN data.pendingUpdatedAt ELSE 0]
  PROVE  IInv' /\ data'.updatedAt >= data.updatedAt
<1>1. TypeOK /\ now # 0 /\ InForceQuoted /\ ParkedQuoted
  BY DEF IInv
<1>2. TypeOK'
  BY <1>1, Fields, Facts DEF TypeOK
<1>3. InForceQuoted' /\ ParkedQuoted'
  BY <1>1 DEF InForceQuoted, ParkedQuoted, QuotedAt
<1>4. data'.updatedAt >= data.updatedAt
  BY <1>1, Fields, Facts
<1> QED
  BY <1>1, <1>2, <1>3, <1>4 DEF IInv

\* What leaves the token's record alone while time does not go back.
LEMMA AroundKeeps ==
  ASSUME IInv, UNCHANGED <<data, quotes>>, now' \in Times, now' >= now,
         feed' \in Feeds, grace' \in GracePeriods \cup {DefaultGrace}
  PROVE  IInv' /\ data'.updatedAt >= data.updatedAt
<1>1. TypeOK /\ now # 0 /\ InForceQuoted /\ ParkedQuoted
  BY DEF IInv
<1>2. TypeOK'
  BY <1>1 DEF TypeOK
<1>3. now' # 0 /\ data.updatedAt \in Nat /\ data.pendingUpdatedAt \in Nat /\ now' \in Nat /\ now \in Nat
  BY <1>1, Fields, Facts
<1>4. InForceQuoted' /\ ParkedQuoted'
  BY <1>1, <1>3 DEF InForceQuoted, ParkedQuoted, QuotedAt
<1> QED
  BY <1>2, <1>3, <1>4 DEF IInv

LEMMA StepKeeps ==
  ASSUME IInv, [Next]_vars
  PROVE  IInv' /\ data'.updatedAt >= data.updatedAt
<1>1. TypeOK
  BY DEF IInv
<1>2. now \in Times /\ now >= now /\ feed \in Feeds /\ grace \in GracePeriods \cup {DefaultGrace}
  BY <1>1, Fields
<1>3. ASSUME NEW nav \in NAVs, SetNAV(nav) PROVE IInv' /\ data'.updatedAt >= data.updatedAt
  BY <1>3, SetNAVKeeps
<1>4. CASE AcceptPendingNAV
  BY <1>4, AcceptKeeps
<1>5. CASE RejectPendingNAV
  <2>1. data' = [nav |-> data.nav, updatedAt |-> data.updatedAt, maxStaleness |-> data.maxStaleness,
                 maxDeviationBps |-> data.maxDeviationBps, pendingNAV |-> IF FALSE THEN data.pendingNAV ELSE 0,
                 pendingUpdatedAt |-> IF FALSE THEN data.pendingUpdatedAt ELSE 0]
    BY <1>1, <1>5, Fields DEF RejectPendingNAV
  <2> QED
    BY <1>1, <1>5, <2>1, Fields, SettingsKeep DEF RejectPendingNAV
<1>6. ASSUME NEW window \in Windows, SetMaxStaleness(window) PROVE IInv' /\ data'.updatedAt >= data.updatedAt
  <2>1. data' = [nav |-> data.nav, updatedAt |-> data.updatedAt, maxStaleness |-> window,
                 maxDeviationBps |-> data.maxDeviationBps, pendingNAV |-> IF TRUE THEN data.pendingNAV ELSE 0,
                 pendingUpdatedAt |-> IF TRUE THEN data.pendingUpdatedAt ELSE 0]
    BY <1>1, <1>6, Fields DEF SetMaxStaleness
  <2> QED
    BY <1>1, <1>6, <2>1, Fields, SettingsKeep DEF SetMaxStaleness
<1>7. ASSUME NEW bps \in Deviations, SetMaxDeviationBps(bps) PROVE IInv' /\ data'.updatedAt >= data.updatedAt
  <2>1. data' = [nav |-> data.nav, updatedAt |-> data.updatedAt, maxStaleness |-> data.maxStaleness,
                 maxDeviationBps |-> bps, pendingNAV |-> IF TRUE THEN data.pendingNAV ELSE 0,
                 pendingUpdatedAt |-> IF TRUE THEN data.pendingUpdatedAt ELSE 0]
    BY <1>1, <1>7, Fields DEF SetMaxDeviationBps
  <2> QED
    BY <1>1, <1>7, <2>1, Fields, SettingsKeep DEF SetMaxDeviationBps
<1>8. ASSUME NEW period \in GracePeriods, SetSequencerGracePeriod(period)
      PROVE  IInv' /\ data'.updatedAt >= data.updatedAt
  BY <1>2, <1>8, AroundKeeps DEF SetSequencerGracePeriod
<1>9. ASSUME NEW f \in Feeds, FeedChanges(f) PROVE IInv' /\ data'.updatedAt >= data.updatedAt
  BY <1>2, <1>9, AroundKeeps DEF FeedChanges
<1>10. CASE Tick
  <2>1. now' \in Times /\ now' >= now
    BY <1>1, <1>10, Fields, Facts DEF Tick
  <2> QED
    BY <1>2, <1>10, <2>1, AroundKeeps DEF Tick
<1>11. CASE UNCHANGED vars
  BY <1>2, <1>11, AroundKeeps DEF vars
<1> QED
  BY <1>3, <1>4, <1>5, <1>6, <1>7, <1>8, <1>9, <1>10, <1>11 DEF Next

LEMMA Invariant == Spec => []IInv
<1>1. Init => IInv
  BY InitOK
<1>2. IInv /\ [Next]_vars => IInv'
  BY StepKeeps
<1> QED
  BY <1>1, <1>2, PTL DEF Spec

-----------------------------------------------------------------------------
(* What the invariant says *)

LEMMA FreshQuoted == IInv => FreshMeansQuoted
<1>1. SUFFICES ASSUME IInv, IsFresh
               PROVE  \E q \in quotes : q.nav = data.nav /\ now - q.at <= Window
  BY DEF FreshMeansQuoted
<1>2. /\ [nav |-> data.nav, at |-> data.updatedAt] \in quotes
      /\ now - data.updatedAt <= Window
  BY <1>1 DEF IInv, InForceQuoted, QuotedAt, IsFresh
<1> QED
  BY <1>2

\* A token without a NAV has no fresh reading, and a NAV once set stays set.
LEMMA ReadingStep ==
  ASSUME IInv, IInv', [Next]_vars
  PROVE  [Reading!Next]_([nav |-> data.nav, fresh |-> IsFresh])
<1>1. TypeOK /\ TypeOK' /\ data.nav \in NAVs \cup {0} /\ data'.nav \in NAVs \cup {0}
  BY DEF IInv, TypeOK
<1>2. IsFresh \in BOOLEAN /\ IsFresh' \in BOOLEAN
  BY DEF IsFresh
<1>3. CASE data'.nav # 0
  <2>1. data'.nav \in NAVs
    BY <1>1, <1>3
  <2> QED
    BY <1>2, <2>1 DEF Reading!Next
<1>4. CASE data'.nav = 0
  <2>1. data.nav = 0
    <3>1. 0 \notin NAVs
      BY Facts
    <3>2. data.pendingNAV # 0 => data.pendingNAV \in NAVs
      BY <1>1, Fields
    <3>3. data = [nav |-> data.nav, updatedAt |-> data.updatedAt, maxStaleness |-> data.maxStaleness,
                    maxDeviationBps |-> data.maxDeviationBps, pendingNAV |-> data.pendingNAV,
                    pendingUpdatedAt |-> data.pendingUpdatedAt]
      BY <1>1, Fields
    <3>4. ASSUME NEW nav \in NAVs, SetNAV(nav) PROVE data'.nav # 0 \/ data'.nav = data.nav
      BY <3>1, <3>3, <3>4 DEF SetNAV, Seeded, Committed, Parked
    <3>5. AcceptPendingNAV => data'.nav # 0
      BY <3>3 DEF AcceptPendingNAV, HasPending
    <3>6. ASSUME \/ RejectPendingNAV
                 \/ \E window \in Windows : SetMaxStaleness(window)
                 \/ \E bps \in Deviations : SetMaxDeviationBps(bps)
                 \/ \E period \in GracePeriods : SetSequencerGracePeriod(period)
                 \/ \E f \in Feeds : FeedChanges(f)
                 \/ Tick
                 \/ UNCHANGED vars
          PROVE  data'.nav = data.nav
      BY <3>3, <3>6 DEF RejectPendingNAV, SetMaxStaleness, SetMaxDeviationBps, SetSequencerGracePeriod,
                   FeedChanges, Tick, vars
    <3> QED
      BY <1>4, <3>4, <3>5, <3>6 DEF Next
  <2>2. IsFresh = FALSE /\ IsFresh' = FALSE
    BY <1>2, <1>4, <2>1 DEF IsFresh
  <2> QED
    BY <1>4, <2>1, <2>2
<1> QED
  BY <1>3, <1>4

-----------------------------------------------------------------------------
(* Theorems *)

\* The record of a token keeps its type, and a parked quote is always dated.
THEOREM OracleTyped == Spec => []TypeOK
<1>1. IInv => TypeOK
  BY DEF IInv
<1> QED
  BY <1>1, Invariant, PTL

\* acceptPendingNAV keeps the date of the quote: whatever the owner sits on,
\* a NAV that reads as fresh is one the writer itself sent within the window.
THEOREM OracleFreshMeansQuoted == Spec => []FreshMeansQuoted
BY Invariant, FreshQuoted, PTL

\* setNAV drops the parked quote when it commits: the NAV in force is never
\* replaced by one that was quoted before it.
THEOREM OracleNeverGoesBack == Spec => QuoteTimeMonotone
<1>1. IInv /\ [Next]_vars => [data'.updatedAt >= data.updatedAt]_data
  BY StepKeeps
<1> QED
  BY <1>1, Invariant, PTL DEF Spec, QuoteTimeMonotone

\* The oracle implements what the settlement contracts are entitled to assume
\* of a price: no NAV before the first quote, always one after it, and no fresh
\* reading of none.
THEOREM OracleImplementsReading == Spec => ReadingPromised
<1>1. Init => Reading!Init
  BY DEF Init, Reading!Init, IsFresh
<1>2. IInv /\ IInv' /\ [Next]_vars => [Reading!Next]_([nav |-> data.nav, fresh |-> IsFresh])
  BY ReadingStep
<1> QED
  BY <1>1, <1>2, Invariant, PTL DEF Spec, ReadingPromised, Reading!Spec
===============================================================================
