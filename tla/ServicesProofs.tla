--------------------------- MODULE ServicesProofs ---------------------------
(* Proofs about the backend's services that MCServices composes: escrows,    *)
(* deployments, NAV, checkout, yield; and the types that NAV and yield keep. *)
(* Each is an instance for a record c of its constants, and so are its       *)
(* lemmas: one proof serves every instance of a part.                        *)
EXTENDS MCServices, SequenceTheorems, FiniteSetTheorems, WellFoundedInduction, TLAPS

-----------------------------------------------------------------------------
\* The least-number principle.
LEMMA LeastOf ==
  ASSUME NEW B \in SUBSET Nat, B # {}
  PROVE  \E m \in B : \A k \in B : m <= k
<1>1. PICK m \in B : \A k \in B : ~ (<<k, m>> \in OpToRel(<, Nat))
  BY NatLessThanWellFounded, WFMin
<1>2. \A k \in B : ~ (k < m)
  BY <1>1 DEF OpToRel
<1> QED
  BY <1>2


-----------------------------------------------------------------------------
(* The escrow poller *)

Upto(S, i) == {j \in S : j <= i}

\* The k-th smallest of a set of numbers is one of them.
LEMMA NthIn ==
  ASSUME NEW n \in Nat, NEW S \in SUBSET (1 .. n), NEW k \in 1 .. Cardinality(S)
  PROVE  \E i \in S : Cardinality(Upto(S, i)) = k
<1> DEFINE Enough == {i \in Nat : Cardinality(Upto(S, i)) >= k}
<1>1. IsFiniteSet(S) /\ \A j \in S : j \in Nat /\ 1 <= j /\ j <= n
  <2>1. IsFiniteSet(1 .. n)
    BY FS_Interval
  <2>2. IsFiniteSet(S)
    BY <2>1, FS_Subset
  <2> QED BY <2>2
<1>2. Cardinality(S) \in Nat /\ k \in Nat /\ k >= 1 /\ k <= Cardinality(S)
  BY <1>1, FS_CardinalityType
<1>3. \A i : Upto(S, i) \in SUBSET S /\ \A j : j \in Upto(S, i) <=> j \in S /\ j <= i
  BY DEF Upto
<1>4. \A i : IsFiniteSet(Upto(S, i)) /\ Cardinality(Upto(S, i)) \in Nat
  BY <1>1, <1>3, FS_Subset, FS_CardinalityType
<1>5. Upto(S, n) = S
  BY <1>1, <1>3
<1>6. PICK m \in Nat : Cardinality(Upto(S, m)) >= k /\ \A i \in Nat : Cardinality(Upto(S, i)) >= k => m <= i
  <2>1. n \in Enough
    BY <1>2, <1>5
  <2>2. \E m \in Enough : \A i \in Enough : m <= i
    <3>1. Enough \in SUBSET Nat /\ Enough # {}
      BY <2>1
    <3> HIDE DEF Enough
    <3> QED BY <3>1, LeastOf
  <2> QED BY <2>2
<1> HIDE DEF Enough
<1>7. m # 0
  <2> SUFFICES ASSUME m = 0 PROVE FALSE
    OBVIOUS
  <2>1. Upto(S, m) = {}
    <3>1. ASSUME NEW j, j \in Upto(S, m) PROVE FALSE
      <4>1. j \in S /\ j <= m
        BY <1>3, <3>1
      <4>2. j \in Nat /\ 1 <= j
        BY <1>1, <4>1
      <4> QED BY <4>1, <4>2
    <3> QED BY <3>1
  <2>2. Cardinality(Upto(S, m)) = 0
    BY <2>1, FS_EmptySet
  <2> QED BY <1>2, <1>6, <2>2
<1> DEFINE p == m - 1
<1>8. p \in Nat /\ p < m /\ \A j \in Nat : j <= m <=> (j <= p \/ j = m)
  BY <1>7
<1> HIDE DEF p
<1>9. Cardinality(Upto(S, p)) < k
  <2>1. Cardinality(Upto(S, p)) \in Nat
    BY <1>4
  <2>2. ~ (Cardinality(Upto(S, p)) >= k)
    BY <1>6, <1>8
  <2> QED BY <1>2, <2>1, <2>2
<1>10. m \in S
  <2> SUFFICES ASSUME m \notin S PROVE FALSE
    OBVIOUS
  <2>1. Upto(S, m) = Upto(S, p)
    BY <1>1, <1>3, <1>8
  <2> QED BY <1>2, <1>4, <1>6, <1>9, <2>1
<1>11. Upto(S, m) = Upto(S, p) \cup {m} /\ m \notin Upto(S, p)
  <2>1. \A j : j \in Upto(S, m) <=> j \in Upto(S, p) \/ j = m
    BY <1>1, <1>3, <1>8, <1>10
  <2>2. m \notin Upto(S, p)
    BY <1>3, <1>8
  <2> QED BY <2>1, <2>2
<1>12. Cardinality(Upto(S, m)) = Cardinality(Upto(S, p)) + 1
  BY <1>4, <1>11, FS_AddElement
<1>13. Cardinality(Upto(S, m)) \in Nat /\ Cardinality(Upto(S, p)) \in Nat
  BY <1>4
<1>14. Cardinality(Upto(S, m)) = k
  BY <1>2, <1>6, <1>9, <1>12, <1>13
<1> QED BY <1>10, <1>14

LEMMA EscrowCardinality == ASSUME NEW c, NEW S PROVE Escrow(c)!Cardinality(S) = Cardinality(S)
BY Zenon DEF Escrow!Cardinality, Cardinality

LEMMA NthPicks ==
  ASSUME NEW c, NEW S, NEW k, \E i \in S : Cardinality(Upto(S, i)) = k
  PROVE  Escrow(c)!Nth(k, S) \in S
<1>1. PICK i \in S : Cardinality(Upto(S, i)) = k
  OBVIOUS
<1>2. Escrow(c)!Cardinality({j \in S : j <= i}) = k
  BY <1>1, EscrowCardinality DEF Upto
<1> QED BY Zenon, <1>2 DEF Escrow!Nth

Payload(c) == [kind : {"created", "redeemed"}, escrow : Escrow(c)!Escrows]
Block(c) ==
  {Escrow(c)!Nothing, Escrow(c)!Attached} \cup {Escrow(c)!Redeemed(e) : e \in Escrow(c)!Escrows}
Record(c) == [n : Nat, status : {"none", "claimable", "claimed"}]
Places == {"idle", "payload", "record", "claim"}

EscrowTyped(c) ==
  /\ escrowLog \in Seq(Block(c))
  /\ escrowCursor \in Nat
  /\ poll \in [at : Places, to : Nat, todo : Seq(Payload(c))]
  /\ escrowStatus \in [Escrow(c)!Escrows -> {"none", "on_chain", "redeemed"}]
  /\ records \in [Escrow(c)!Escrows -> Record(c)]

Logged(e) == \E b \in 1 .. Len(escrowLog) : escrowLog[b].kind = "redeemed" /\ e \in escrowLog[b].of

\* A redemption under way was logged, whatever the tick has done before it.
RedemptionsLogged ==
  /\ \A i \in DOMAIN poll.todo : poll.todo[i].kind = "redeemed" => Logged(poll.todo[i].escrow)
  /\ poll.at \in {"record", "claim"} => poll.todo # <<>>
  /\ poll.at = "claim" => poll.todo[1].kind = "redeemed"

\* An escrow that has no row, or whose row was written just now, has no record.
RecordsFew(c) ==
  \A e \in Escrow(c)!Escrows :
    /\ records[e].n <= 1
    /\ escrowStatus[e] = "none" \/ Escrow(c)!At("record", e) => records[e].n = 0
    /\ Escrow(c)!At("record", e) => escrowStatus[e] # "none"
    /\ records[e].status = "claimed" => Logged(e)

\* The inductive invariant of the poller.
EscrowInv(c) == EscrowTyped(c) /\ RedemptionsLogged /\ RecordsFew(c)

LEMMA EscrowStarts ==
  ASSUME NEW c, Escrow(c)!PollerAssumption, Escrow(c)!Init PROVE EscrowInv(c)
<1>1. c.MaxHeight \in Nat
  BY DEF Escrow!PollerAssumption
<1>2. poll = [at |-> "idle", to |-> 0, todo |-> <<>>]
  BY DEF Escrow!Init, Escrow!Idle
<1>3. EscrowTyped(c)
  <2>1. escrowLog \in Seq(Block(c)) /\ escrowCursor \in Nat
    BY <1>1 DEF Escrow!Init, Escrow!Unset
  <2>2. poll \in [at : Places, to : Nat, todo : Seq(Payload(c))]
    BY <1>2 DEF Places
  <2>3. escrowStatus \in [Escrow(c)!Escrows -> {"none", "on_chain", "redeemed"}]
    BY DEF Escrow!Init
  <2>4. records \in [Escrow(c)!Escrows -> Record(c)]
    BY DEF Escrow!Init, Record
  <2> QED BY <2>1, <2>2, <2>3, <2>4 DEF EscrowTyped
<1>4. RedemptionsLogged
  BY <1>2 DEF RedemptionsLogged
<1>5. RecordsFew(c)
  BY <1>2 DEF Escrow!Init, RecordsFew, Escrow!At
<1> QED BY <1>3, <1>4, <1>5 DEF EscrowInv

\* What a tick reads is what was logged, in the window's order.
LEMMA PayloadsLogged ==
  ASSUME NEW c, Escrow(c)!PollerAssumption, EscrowInv(c), Len(escrowLog) > escrowCursor,
         NEW todo, todo = Escrow(c)!Payloads(SubSeq(escrowLog, Escrow(c)!From, Escrow(c)!Height))
  PROVE  /\ todo \in Seq(Payload(c))
         /\ \A i \in DOMAIN todo : todo[i].kind = "redeemed" => Logged(todo[i].escrow)
<1> DEFINE window == SubSeq(escrowLog, Escrow(c)!From, Escrow(c)!Height)
           redeemed == Escrow(c)!RedeemedAt(window)
           first == Escrow(c)!Created(window)
           second == Escrow(c)!Redemptions(window)
<1>1. escrowLog \in Seq(Block(c)) /\ escrowCursor \in Nat /\ Len(escrowLog) \in Nat
  BY DEF EscrowInv, EscrowTyped
<1>2. /\ window \in Seq(Block(c)) /\ Len(window) \in Nat /\ DOMAIN window = 1 .. Len(window)
      /\ \A i \in DOMAIN window : \E b \in 1 .. Len(escrowLog) : window[i] = escrowLog[b]
  <2> DEFINE m == escrowCursor + 1
             n == Len(escrowLog)
  <2>1. m \in 1 .. n + 1 /\ n \in 0 .. Len(escrowLog) /\ m \in Nat /\ n \in Nat /\ m >= 1
    BY <1>1
  <2>2. window = SubSeq(escrowLog, m, n)
    BY DEF Escrow!From, Escrow!Height
  <2> HIDE DEF m, window
  <2>3. /\ window \in Seq(Block(c)) /\ Len(window) = n - m + 1
        /\ \A i \in 1 .. n - m + 1 : window[i] = escrowLog[m + i - 1]
    BY <1>1, <2>1, <2>2, SubSeqProperties
  <2>4. ASSUME NEW i \in 1 .. n - m + 1 PROVE m + i - 1 \in 1 .. Len(escrowLog)
    BY <1>1, <2>1
  <2>5. Len(window) \in Nat /\ DOMAIN window = 1 .. Len(window)
    BY <2>3
  <2>6. ASSUME NEW i \in DOMAIN window PROVE \E b \in 1 .. Len(escrowLog) : window[i] = escrowLog[b]
    <3>1. i \in 1 .. n - m + 1
      BY <2>3, <2>5
    <3> QED BY <2>3, <2>4, <3>1
  <2> QED BY <2>3, <2>5, <2>6
<1> HIDE DEF window
<1>11. redeemed \in SUBSET (1 .. Len(window)) /\ \A i \in redeemed : i \in DOMAIN window /\ window[i].kind = "redeemed"
  BY <1>2 DEF Escrow!RedeemedAt
<1>3. first \in Seq(Payload(c)) /\ \A i \in DOMAIN first : first[i].kind # "redeemed"
  <2>1. CASE first = <<>>
    BY <2>1
  <2>2. CASE first = [e \in Escrow(c)!Escrows |-> [kind |-> "created", escrow |-> e]]
    <3>1. c.Count \in Nat
      BY DEF Escrow!PollerAssumption
    <3>2. \A e \in 1 .. c.Count : first[e] \in Payload(c) /\ first[e].kind = "created"
      BY <2>2 DEF Payload, Escrow!Escrows
    <3>3. first \in [1 .. c.Count -> Payload(c)]
      BY <2>2, <3>2 DEF Escrow!Escrows
    <3> HIDE DEF first
    <3> QED BY <3>1, <3>2, <3>3
  <2> QED BY <2>1, <2>2 DEF Escrow!Created
<1>10. second = [k \in 1 .. Cardinality(redeemed) |-> Escrow(c)!Redemption(window[Escrow(c)!Nth(k, redeemed)])]
  <2>1. Escrow(c)!Cardinality(redeemed) = Cardinality(redeemed)
    BY EscrowCardinality
  <2>2. second = [k \in 1 .. Escrow(c)!Cardinality(redeemed) |->
                    Escrow(c)!Redemption(window[Escrow(c)!Nth(k, redeemed)])]
    BY DEF Escrow!Redemptions
  <2> HIDE DEF redeemed, second
  <2> QED BY <2>1, <2>2
<1> HIDE DEF redeemed, second
<1>4. ASSUME NEW k \in 1 .. Cardinality(redeemed)
      PROVE  /\ second[k] \in Payload(c) /\ Logged(second[k].escrow)
  <2> DEFINE i == Escrow(c)!Nth(k, redeemed)
  <2>1. \E j \in redeemed : Cardinality(Upto(redeemed, j)) = k
    BY <1>2, <1>11, NthIn
  <2>2. i \in redeemed
    BY <2>1, NthPicks
  <2>3. i \in DOMAIN window /\ window[i].kind = "redeemed"
    BY <1>11, <2>2
  <2>4. PICK b \in 1 .. Len(escrowLog) : window[i] = escrowLog[b]
    BY <1>2, <2>3
  <2>5. PICK e \in Escrow(c)!Escrows : window[i] = Escrow(c)!Redeemed(e)
    <3>1. window[i] \in Block(c)
      BY <1>2, <2>3
    <3> QED BY <2>3, <3>1 DEF Block, Escrow!Nothing, Escrow!Attached
  <2>6. window[i].of = {e}
    BY <2>5 DEF Escrow!Redeemed
  <2>7. second[k] = Escrow(c)!Redemption(window[i])
    BY <1>10
  <2>8. second[k] = [kind |-> "redeemed", escrow |-> e]
    <3>1. (CHOOSE x \in {e} : TRUE) = e
      OBVIOUS
    <3> QED BY <2>6, <2>7, <3>1 DEF Escrow!Redemption
  <2>9. Logged(e)
    BY <2>3, <2>4, <2>6 DEF Logged
  <2> QED BY <2>8, <2>9 DEF Payload
<1>5. Cardinality(redeemed) \in Nat
  <2>1. Len(window) \in Int
    BY <1>2
  <2>2. IsFiniteSet(1 .. Len(window))
    BY <2>1, FS_Interval
  <2>3. IsFiniteSet(redeemed)
    BY <1>11, <2>2, FS_Subset
  <2> QED BY <2>3, FS_CardinalityType
<1>6. second \in Seq(Payload(c)) /\ DOMAIN second = 1 .. Cardinality(redeemed)
  <2>1. second = [k \in 1 .. Cardinality(redeemed) |-> second[k]]
    BY <1>10
  <2>2. second \in [1 .. Cardinality(redeemed) -> Payload(c)]
    BY <1>4, <2>1
  <2> QED BY <1>5, <2>2
<1>7. todo = first \o second
  BY DEF Escrow!Payloads, window, second
<1> HIDE DEF first
<1>8. todo \in Seq(Payload(c))
  BY <1>3, <1>6, <1>7
<1>9. ASSUME NEW i \in DOMAIN todo, todo[i].kind = "redeemed" PROVE Logged(todo[i].escrow)
  <2>1. CASE i <= Len(first)
    BY <1>3, <1>6, <1>7, <1>9, <2>1
  <2>2. CASE i > Len(first)
    <3>1. todo[i] = second[i - Len(first)] /\ i - Len(first) \in 1 .. Cardinality(redeemed)
      BY <1>3, <1>5, <1>6, <1>7, <2>2
    <3> QED BY <1>4, <3>1
  <2> QED BY <1>3, <1>8, <2>1, <2>2
<1> QED BY <1>8, <1>9

\* A tick ends, goes on to its next payload, or to another place with this one.
TickMoves(c) ==
  \/ poll' = Escrow(c)!Idle
  \/ poll.todo # <<>> /\ Escrow(c)!Done
  \/ poll.todo # <<>> /\ Escrow(c)!Goes("record")
  \/ poll.todo # <<>> /\ poll.todo[1].kind = "redeemed" /\ Escrow(c)!Goes("claim")

LEMMA TickKeepsPayloads ==
  ASSUME NEW c, EscrowTyped(c), RedemptionsLogged, TickMoves(c), escrowLog' = escrowLog
  PROVE  poll' \in [at : Places, to : Nat, todo : Seq(Payload(c))] /\ RedemptionsLogged'
<1>1. poll \in [at : Places, to : Nat, todo : Seq(Payload(c))] /\ poll.todo \in Seq(Payload(c))
  BY DEF EscrowTyped
<1>2. \A e : Logged(e)' <=> Logged(e)
  BY DEF Logged
<1>3. CASE poll' = Escrow(c)!Idle
  <2>1. poll' = [at |-> "idle", to |-> 0, todo |-> <<>>]
    BY <1>3 DEF Escrow!Idle
  <2> QED BY <2>1 DEF RedemptionsLogged, Places
<1>4. CASE poll.todo # <<>> /\ Escrow(c)!Done
  <2>1. poll' = [poll EXCEPT !.at = "payload", !.todo = Tail(poll.todo)]
    BY <1>4 DEF Escrow!Done
  <2>2. /\ Tail(poll.todo) \in Seq(Payload(c))
        /\ \A i \in DOMAIN Tail(poll.todo) : i + 1 \in DOMAIN poll.todo /\ Tail(poll.todo)[i] = poll.todo[i + 1]
    BY <1>1, <1>4
  <2>3. poll' \in [at : Places, to : Nat, todo : Seq(Payload(c))] /\ poll'.todo = Tail(poll.todo) /\ poll'.at = "payload"
    BY <1>1, <2>1, <2>2 DEF Places
  <2> QED BY <1>2, <2>2, <2>3 DEF RedemptionsLogged
<1>5. ASSUME NEW at \in Places, Escrow(c)!Goes(at), poll.todo # <<>>, at = "claim" => poll.todo[1].kind = "redeemed"
      PROVE  poll' \in [at : Places, to : Nat, todo : Seq(Payload(c))] /\ RedemptionsLogged'
  <2>1. poll' = [poll EXCEPT !.at = at]
    BY <1>5 DEF Escrow!Goes
  <2>2. poll' \in [at : Places, to : Nat, todo : Seq(Payload(c))] /\ poll'.todo = poll.todo /\ poll'.at = at
    BY <1>1, <2>1
  <2> QED BY <1>2, <1>5, <2>2 DEF RedemptionsLogged
<1> QED BY <1>3, <1>4, <1>5 DEF TickMoves, Places

\* What is written of an escrow.
LEMMA RecordsKept ==
  ASSUME NEW c, RecordsFew(c), escrowLog' = escrowLog, UNCHANGED <<escrowStatus, records>>, poll'.at # "record"
  PROVE  RecordsFew(c)'
BY DEF RecordsFew, Escrow!At, Escrow!Escrows, Logged

LEMMA RowWritten ==
  ASSUME NEW c, EscrowTyped(c), RecordsFew(c), escrowLog' = escrowLog,
         NEW e \in Escrow(c)!Escrows, Escrow(c)!WritesRow(e), poll'.at = "record" => poll'.todo = poll.todo
  PROVE  escrowStatus' \in [Escrow(c)!Escrows -> {"none", "on_chain", "redeemed"}] /\ RecordsFew(c)'
<1>1. /\ poll.todo # <<>> /\ Head(poll.todo) = [kind |-> "created", escrow |-> e] /\ escrowStatus[e] = "none"
      /\ escrowStatus' = [escrowStatus EXCEPT ![e] = "on_chain"] /\ records' = records
      /\ poll.todo \in Seq(Payload(c))
      /\ escrowStatus \in [Escrow(c)!Escrows -> {"none", "on_chain", "redeemed"}]
  BY DEF Escrow!WritesRow, Escrow!Taking, Escrow!NotFound, EscrowTyped
<1>2. poll.todo[1].escrow = e
  BY <1>1
<1>3. records[e].n = 0
  BY <1>1 DEF RecordsFew
<1> QED BY <1>1, <1>2, <1>3 DEF RecordsFew, Escrow!At, Escrow!Escrows, Logged

LEMMA RecordWritten ==
  ASSUME NEW c, EscrowTyped(c), RecordsFew(c), escrowLog' = escrowLog,
         NEW e \in Escrow(c)!Escrows, Escrow(c)!WritesRecord(e), poll'.at # "record"
  PROVE  records' \in [Escrow(c)!Escrows -> Record(c)] /\ escrowStatus' = escrowStatus /\ RecordsFew(c)'
<1>1. /\ Escrow(c)!At("record", e) /\ escrowStatus' = escrowStatus /\ records \in [Escrow(c)!Escrows -> Record(c)]
      /\ records' = [records EXCEPT ![e] = [n |-> records[e].n + 1,
                                            status |-> IF records[e].n = 0 THEN "claimable" ELSE records[e].status]]
  BY DEF Escrow!WritesRecord, EscrowTyped
<1>2. records[e].n = 0 /\ escrowStatus[e] # "none"
  BY <1>1 DEF RecordsFew
<1>3. records' = [records EXCEPT ![e] = [n |-> 1, status |-> "claimable"]]
  BY <1>1, <1>2
<1>4. [n |-> 1, status |-> "claimable"] \in Record(c)
  BY DEF Record
<1>5. records' \in [Escrow(c)!Escrows -> Record(c)]
  BY <1>1, <1>3, <1>4
<1>6. ASSUME NEW x \in Escrow(c)!Escrows, x # e PROVE records'[x] = records[x]
  BY <1>1, <1>3, <1>6
<1>7. records'[e].n = 1 /\ records'[e].status = "claimable"
  BY <1>1, <1>3
<1> QED BY <1>1, <1>2, <1>5, <1>6, <1>7 DEF RecordsFew, Escrow!At, Escrow!Escrows, Logged

LEMMA RedeemedWritten ==
  ASSUME NEW c, EscrowTyped(c), RecordsFew(c), escrowLog' = escrowLog,
         NEW e \in Escrow(c)!Escrows, Escrow(c)!WritesRedeemed(e), poll'.at # "record"
  PROVE  escrowStatus' \in [Escrow(c)!Escrows -> {"none", "on_chain", "redeemed"}] /\ RecordsFew(c)'
<1>1. /\ escrowStatus' = [escrowStatus EXCEPT ![e] = "redeemed"] /\ records' = records
      /\ escrowStatus \in [Escrow(c)!Escrows -> {"none", "on_chain", "redeemed"}]
  BY DEF Escrow!WritesRedeemed, EscrowTyped
<1> QED BY <1>1 DEF RecordsFew, Escrow!At, Escrow!Escrows, Logged

LEMMA ClaimedWritten ==
  ASSUME NEW c, EscrowTyped(c), RedemptionsLogged, RecordsFew(c), escrowLog' = escrowLog,
         NEW e \in Escrow(c)!Escrows, Escrow(c)!WritesClaimed(e), poll'.at # "record"
  PROVE  records' \in [Escrow(c)!Escrows -> Record(c)] /\ escrowStatus' = escrowStatus /\ RecordsFew(c)'
<1>1. /\ poll.at = "claim" /\ poll.todo[1].escrow = e /\ escrowStatus' = escrowStatus
      /\ records \in [Escrow(c)!Escrows -> Record(c)] /\ poll.todo \in Seq(Payload(c))
      /\ records' = records \/ records' = [records EXCEPT ![e].status = "claimed"]
  BY DEF Escrow!WritesClaimed, Escrow!Claimed, Escrow!At, EscrowTyped
<1>2. Logged(e)
  <2>1. poll.todo # <<>> /\ poll.todo[1].kind = "redeemed"
    BY <1>1 DEF RedemptionsLogged
  <2>2. 1 \in DOMAIN poll.todo
    BY <1>1, <2>1
  <2> QED BY <1>1, <2>1, <2>2 DEF RedemptionsLogged
<1>3. CASE records' = records
  BY <1>1, <1>3 DEF RecordsFew, Escrow!At, Escrow!Escrows, Logged
<1>4. CASE records' = [records EXCEPT ![e].status = "claimed"]
  <2>1. records[e] \in Record(c)
    BY <1>1
  <2> DEFINE new == [records[e] EXCEPT !.status = "claimed"]
  <2>2. new \in Record(c) /\ new.n = records[e].n
    BY <2>1 DEF Record
  <2>3. records' = [records EXCEPT ![e] = new]
    BY <1>4
  <2> HIDE DEF new
  <2>4. /\ records' \in [Escrow(c)!Escrows -> Record(c)] /\ records'[e].n = records[e].n
        /\ \A x \in Escrow(c)!Escrows : x # e => records'[x] = records[x]
    BY <1>1, <2>2, <2>3
  <2> QED BY <1>1, <1>2, <2>4 DEF RecordsFew, Escrow!At, Escrow!Escrows, Logged
<1> QED BY <1>1, <1>3, <1>4

LEMMA ChainGrows ==
  ASSUME NEW c, EscrowInv(c), NEW block \in Block(c), Escrow(c)!Mine(block) PROVE EscrowInv(c)'
<1>1. /\ escrowLog' = Append(escrowLog, block) /\ UNCHANGED <<escrowCursor, poll, escrowStatus, records>>
      /\ escrowLog \in Seq(Block(c))
  BY DEF Escrow!Mine, Escrow!tables, EscrowInv, EscrowTyped
<1>2. escrowLog' \in Seq(Block(c)) /\ \A b \in 1 .. Len(escrowLog) : b \in 1 .. Len(escrowLog') /\ escrowLog'[b] = escrowLog[b]
  BY <1>1
<1>3. \A e : Logged(e) => Logged(e)'
  BY <1>2 DEF Logged
<1>4. EscrowTyped(c)'
  BY <1>1, <1>2 DEF EscrowInv, EscrowTyped, Payload, Block, Record, Escrow!Escrows, Escrow!Nothing, Escrow!Attached,
       Escrow!Redeemed
<1>5. RedemptionsLogged'
  BY <1>1, <1>3 DEF EscrowInv, RedemptionsLogged
<1>6. RecordsFew(c)'
  BY <1>1, <1>3 DEF EscrowInv, RecordsFew, Escrow!At, Escrow!Escrows
<1> QED BY <1>4, <1>5, <1>6 DEF EscrowInv

\* The parts of the invariant, for the steps that leave the chain alone.
LEMMA EscrowKeeps ==
  ASSUME NEW c, EscrowInv(c), escrowLog' = escrowLog, escrowCursor' \in Nat,
         poll' \in [at : Places, to : Nat, todo : Seq(Payload(c))], RedemptionsLogged',
         escrowStatus' \in [Escrow(c)!Escrows -> {"none", "on_chain", "redeemed"}],
         records' \in [Escrow(c)!Escrows -> Record(c)], RecordsFew(c)'
  PROVE  EscrowInv(c)'
BY DEF EscrowInv, EscrowTyped, Payload, Block, Record, Escrow!Escrows, Escrow!Nothing, Escrow!Attached, Escrow!Redeemed

LEMMA PollBegins ==
  ASSUME NEW c, Escrow(c)!PollerAssumption, EscrowInv(c), Escrow(c)!Begin PROVE EscrowInv(c)'
<1>1. /\ escrowLog' = escrowLog /\ UNCHANGED <<escrowStatus, records>> /\ Len(escrowLog) \in Nat /\ escrowCursor \in Nat
      /\ poll \in [at : Places, to : Nat, todo : Seq(Payload(c))] /\ poll.at = "idle" /\ EscrowTyped(c)
      /\ RedemptionsLogged /\ RecordsFew(c)
  BY DEF Escrow!Begin, Escrow!tables, EscrowInv, EscrowTyped
<1>2. CASE poll' = poll /\ escrowCursor' = Len(escrowLog)
  <2>1. RedemptionsLogged' /\ RecordsFew(c)'
    BY <1>1, <1>2, RecordsKept DEF RedemptionsLogged, Logged
  <2> QED BY <1>1, <1>2, <2>1, EscrowKeeps DEF EscrowTyped
<1>3. CASE /\ Len(escrowLog) > escrowCursor /\ escrowCursor' = escrowCursor
           /\ poll' = [at |-> "payload", to |-> Len(escrowLog),
                       todo |-> Escrow(c)!Payloads(SubSeq(escrowLog, Escrow(c)!From, Escrow(c)!Height))]
  <2> DEFINE todo == Escrow(c)!Payloads(SubSeq(escrowLog, Escrow(c)!From, Escrow(c)!Height))
  <2>1. todo \in Seq(Payload(c)) /\ \A i \in DOMAIN todo : todo[i].kind = "redeemed" => Logged(todo[i].escrow)
    BY <1>3, PayloadsLogged
  <2>2. poll' = [at |-> "payload", to |-> Len(escrowLog), todo |-> todo]
    BY <1>3
  <2> HIDE DEF todo
  <2>3. poll' \in [at : Places, to : Nat, todo : Seq(Payload(c))]
    BY <1>1, <2>1, <2>2 DEF Places
  <2>4. RedemptionsLogged'
    <3>1. \A e : Logged(e)' <=> Logged(e)
      BY <1>1 DEF Logged
    <3> QED BY <2>1, <2>2, <3>1 DEF RedemptionsLogged
  <2>5. RecordsFew(c)'
    BY <1>1, <2>2, RecordsKept
  <2> QED BY <1>1, <1>3, <2>3, <2>4, <2>5, EscrowKeeps DEF EscrowTyped
<1>4. \/ poll' = poll /\ escrowCursor' = Len(escrowLog)
      \/ /\ Len(escrowLog) > escrowCursor /\ escrowCursor' = escrowCursor
         /\ poll' = [at |-> "payload", to |-> Len(escrowLog),
                     todo |-> Escrow(c)!Payloads(SubSeq(escrowLog, Escrow(c)!From, Escrow(c)!Height))]
  BY DEF Escrow!Begin, Escrow!Height
<1> QED BY <1>2, <1>3, <1>4

\* The tables are written on the way of a tick that moves as it may.
LEMMA WritesKeep ==
  ASSUME NEW c, EscrowInv(c), NEW e \in Escrow(c)!Escrows, escrowLog' = escrowLog, escrowCursor' \in Nat,
         TickMoves(c), poll'.at = "record" => poll'.todo = poll.todo /\ Escrow(c)!WritesRow(e),
         \/ Escrow(c)!WritesRow(e) \/ Escrow(c)!WritesRecord(e) \/ Escrow(c)!WritesRedeemed(e)
         \/ Escrow(c)!WritesClaimed(e) \/ UNCHANGED <<escrowStatus, records>>
  PROVE  EscrowInv(c)'
<1>1. /\ EscrowTyped(c) /\ RedemptionsLogged /\ RecordsFew(c)
      /\ escrowStatus \in [Escrow(c)!Escrows -> {"none", "on_chain", "redeemed"}]
      /\ records \in [Escrow(c)!Escrows -> Record(c)]
  BY DEF EscrowInv, EscrowTyped
<1>2. poll' \in [at : Places, to : Nat, todo : Seq(Payload(c))] /\ RedemptionsLogged'
  BY <1>1, TickKeepsPayloads
<1>3. CASE Escrow(c)!WritesRow(e)
  <2>1. records' = records
    BY <1>3 DEF Escrow!WritesRow
  <2> QED BY <1>1, <1>2, <1>3, <2>1, RowWritten, EscrowKeeps
<1>4. ASSUME ~Escrow(c)!WritesRow(e) PROVE poll'.at # "record"
  BY <1>4
<1>5. CASE Escrow(c)!WritesRecord(e) /\ ~Escrow(c)!WritesRow(e)
  BY <1>1, <1>2, <1>4, <1>5, RecordWritten, EscrowKeeps
<1>6. CASE Escrow(c)!WritesRedeemed(e) /\ ~Escrow(c)!WritesRow(e)
  <2>1. records' = records
    BY <1>6 DEF Escrow!WritesRedeemed
  <2> QED BY <1>1, <1>2, <1>4, <1>6, <2>1, RedeemedWritten, EscrowKeeps
<1>7. CASE Escrow(c)!WritesClaimed(e) /\ ~Escrow(c)!WritesRow(e)
  BY <1>1, <1>2, <1>4, <1>7, ClaimedWritten, EscrowKeeps
<1>8. CASE UNCHANGED <<escrowStatus, records>> /\ ~Escrow(c)!WritesRow(e)
  BY <1>1, <1>2, <1>4, <1>8, RecordsKept, EscrowKeeps
<1> QED BY <1>3, <1>5, <1>6, <1>7, <1>8

LEMMA ProcessKeeps ==
  ASSUME NEW c, EscrowInv(c), NEW e \in Escrow(c)!Escrows,
         \/ Escrow(c)!CreatedAgain(e) \/ Escrow(c)!Buffers(e) \/ Escrow(c)!BufferThrows(e)
         \/ Escrow(c)!CreatesEscrow(e) \/ Escrow(c)!CreatesRecord(e)
         \/ Escrow(c)!RedeemedInVain(e) \/ Escrow(c)!MarksRedeemed(e) \/ Escrow(c)!MarksClaimed(e)
  PROVE  EscrowInv(c)'
<1>1. /\ escrowCursor \in Nat /\ poll.todo \in Seq(Payload(c)) /\ RedemptionsLogged
      /\ poll \in [at : Places, to : Nat, todo : Seq(Payload(c))]
  BY DEF EscrowInv, EscrowTyped
<1>2. ASSUME Escrow(c)!OnTable PROVE escrowLog' = escrowLog /\ escrowCursor' \in Nat
  BY <1>1, <1>2 DEF Escrow!OnTable
<1>3. ASSUME Escrow(c)!Done PROVE poll'.at = "payload"
  BY <1>1, <1>3 DEF Escrow!Done
<1>4. CASE Escrow(c)!CreatedAgain(e) \/ Escrow(c)!RedeemedInVain(e)
  <2>1. /\ Escrow(c)!OnTable /\ Escrow(c)!Done /\ poll.todo # <<>> /\ UNCHANGED <<escrowStatus, records>>
    BY <1>4 DEF Escrow!CreatedAgain, Escrow!RedeemedInVain, Escrow!tables, Escrow!Taking
  <2> QED BY <1>2, <1>3, <2>1, WritesKeep DEF TickMoves
<1>5. CASE Escrow(c)!Buffers(e)
  <2>1. /\ Escrow(c)!OnTable /\ Escrow(c)!Done /\ poll.todo # <<>> /\ UNCHANGED <<escrowStatus, records>>
    BY <1>5 DEF Escrow!Buffers, Escrow!CanBuffer, Escrow!WritesBuffer, Escrow!Taking
  <2> QED BY <1>2, <1>3, <2>1, WritesKeep DEF TickMoves
<1>6. CASE Escrow(c)!BufferThrows(e)
  <2>1. /\ Escrow(c)!OnTable /\ poll' = Escrow(c)!Idle /\ UNCHANGED <<escrowStatus, records>>
    BY <1>6 DEF Escrow!BufferThrows, Escrow!tables
  <2> QED BY <1>2, <2>1, WritesKeep DEF TickMoves, Escrow!Idle
<1>7. CASE Escrow(c)!CreatesEscrow(e)
  <2>1. Escrow(c)!OnTable /\ Escrow(c)!Goes("record") /\ Escrow(c)!WritesRow(e) /\ poll.todo # <<>>
    BY <1>7 DEF Escrow!CreatesEscrow, Escrow!WritesRow, Escrow!Taking
  <2>2. poll'.todo = poll.todo
    BY <1>1, <2>1 DEF Escrow!Goes
  <2> QED BY <1>2, <2>1, <2>2, WritesKeep DEF TickMoves
<1>8. CASE Escrow(c)!CreatesRecord(e)
  <2>1. Escrow(c)!OnTable /\ Escrow(c)!Done /\ Escrow(c)!WritesRecord(e) /\ poll.at = "record"
    BY <1>8 DEF Escrow!CreatesRecord, Escrow!WritesRecord, Escrow!At
  <2>2. poll.todo # <<>>
    BY <1>1, <2>1 DEF RedemptionsLogged
  <2> QED BY <1>2, <1>3, <2>1, <2>2, WritesKeep DEF TickMoves
<1>9. CASE Escrow(c)!MarksRedeemed(e)
  <2>1. /\ Escrow(c)!OnTable /\ Escrow(c)!Goes("claim") /\ Escrow(c)!WritesRedeemed(e) /\ poll.todo # <<>>
        /\ Head(poll.todo) = [kind |-> "redeemed", escrow |-> e]
    BY <1>9 DEF Escrow!MarksRedeemed, Escrow!WritesRedeemed, Escrow!Taking
  <2>2. poll.todo[1].kind = "redeemed"
    BY <1>1, <2>1
  <2>3. poll'.at = "claim"
    BY <1>1, <2>1 DEF Escrow!Goes
  <2> QED BY <1>2, <2>1, <2>2, <2>3, WritesKeep DEF TickMoves
<1>10. CASE Escrow(c)!MarksClaimed(e)
  <2>1. Escrow(c)!OnTable /\ Escrow(c)!Done /\ Escrow(c)!WritesClaimed(e) /\ poll.at = "claim"
    BY <1>10 DEF Escrow!MarksClaimed, Escrow!WritesClaimed, Escrow!At
  <2>2. poll.todo # <<>>
    BY <1>1, <2>1 DEF RedemptionsLogged
  <2> QED BY <1>2, <1>3, <2>1, <2>2, WritesKeep DEF TickMoves
<1> QED BY <1>4, <1>5, <1>6, <1>7, <1>8, <1>9, <1>10

LEMMA AnswerLostKeeps ==
  ASSUME NEW c, EscrowInv(c), NEW e \in Escrow(c)!Escrows, Escrow(c)!AnswerLost(e) PROVE EscrowInv(c)'
<1>1. /\ escrowLog' = escrowLog /\ escrowCursor' = escrowCursor /\ escrowCursor \in Nat
      /\ poll' = Escrow(c)!Idle
  BY DEF Escrow!AnswerLost, EscrowInv, EscrowTyped
<1>2. \/ Escrow(c)!WritesRow(e) \/ Escrow(c)!WritesRecord(e) \/ Escrow(c)!WritesRedeemed(e)
      \/ Escrow(c)!WritesClaimed(e) \/ UNCHANGED <<escrowStatus, records>>
  BY DEF Escrow!AnswerLost, Escrow!WritesBuffer
<1>3. poll'.at # "record"
  BY <1>1 DEF Escrow!Idle
<1> QED BY <1>1, <1>2, <1>3, WritesKeep DEF TickMoves

LEMMA EscrowSteps ==
  ASSUME NEW c, Escrow(c)!PollerAssumption, EscrowInv(c), Escrow(c)!Next PROVE EscrowInv(c)'
<1>1. Escrow(c)!Nothing \in Block(c) /\ Escrow(c)!Attached \in Block(c)
      /\ \A e \in Escrow(c)!Escrows : Escrow(c)!Redeemed(e) \in Block(c)
  BY DEF Block
<1>2. CASE Escrow(c)!NothingHappens \/ Escrow(c)!Attach \/ \E e \in Escrow(c)!Escrows : Escrow(c)!Redeem(e)
  BY <1>1, <1>2, ChainGrows DEF Escrow!NothingHappens, Escrow!Attach, Escrow!Redeem
<1>3. CASE UNCHANGED <<escrowLog, escrowCursor, poll, escrowStatus, records>>
  BY <1>3 DEF EscrowInv, EscrowTyped, RedemptionsLogged, RecordsFew, Escrow!At, Escrow!Escrows, Logged, Payload, Block,
       Record, Escrow!Nothing, Escrow!Attached, Escrow!Redeemed
<1>4. CASE Escrow(c)!CallFails \/ \E e \in Escrow(c)!Escrows : Escrow(c)!Register(e)
  BY <1>3, <1>4 DEF Escrow!CallFails, Escrow!Register, Escrow!tables
<1>5. CASE Escrow(c)!Begin
  BY <1>5, PollBegins
<1>6. CASE Escrow(c)!Process
  BY <1>6, ProcessKeeps DEF Escrow!Process
<1>7. CASE Escrow(c)!Advance \/ Escrow(c)!WriteFails \/ Escrow(c)!Restart
  <2>1. escrowLog' = escrowLog /\ UNCHANGED <<escrowStatus, records>> /\ poll' = Escrow(c)!Idle
    BY <1>7 DEF Escrow!Advance, Escrow!WriteFails, Escrow!Restart, Escrow!tables
  <2>2. escrowCursor' \in Nat
    BY <1>7 DEF Escrow!Advance, Escrow!WriteFails, Escrow!Restart, Escrow!Unset, EscrowInv, EscrowTyped,
         Escrow!PollerAssumption
  <2>3. 1 \in Escrow(c)!Escrows
    BY DEF Escrow!PollerAssumption, Escrow!Escrows
  <2>4. poll'.at # "record"
    BY <2>1 DEF Escrow!Idle
  <2> QED BY <2>1, <2>2, <2>3, <2>4, WritesKeep DEF TickMoves
<1>8. CASE \E e \in Escrow(c)!Escrows : Escrow(c)!AnswerLost(e)
  BY <1>8, AnswerLostKeeps
<1> QED BY <1>2, <1>4, <1>5, <1>6, <1>7, <1>8 DEF Escrow!Next

LEMMA EscrowStutters ==
  ASSUME NEW c, EscrowInv(c), UNCHANGED escrowVars PROVE EscrowInv(c)'
BY DEF escrowVars, EscrowInv, EscrowTyped, RedemptionsLogged, RecordsFew, Escrow!At, Escrow!Escrows, Logged, Payload, Block,
   Record, Escrow!Nothing, Escrow!Attached, Escrow!Redeemed

LEMMA EscrowHolds ==
  ASSUME NEW c, EscrowInv(c) PROVE Escrow(c)!OneRecord /\ Escrow(c)!ClaimedWasRedeemed
<1>1. Escrow(c)!OneRecord
  BY DEF EscrowInv, RecordsFew, Escrow!OneRecord
<1>2. ASSUME NEW e \in Escrow(c)!Escrows, records[e].status = "claimed" PROVE Escrow(c)!Logs("redeemed", e) # {}
  <2>1. Logged(e)
    BY <1>2 DEF EscrowInv, RecordsFew
  <2> QED BY <2>1 DEF Logged, Escrow!Logs, Escrow!Height
<1> QED BY <1>1, <1>2 DEF Escrow!ClaimedWasRedeemed

-----------------------------------------------------------------------------
(* The deployment wizard *)

Stages == {"none", "next", "sending", "waiting", "failing", "closing", "ended", "dead"}
Worker == [at : Stages, events : Nat]

\* The steps that took effect are the first m, but for those of contracts that
\* were handed on, and where the run is in the next one tells m.
Progress(c, wk, steps, gone, m) ==
  /\ steps \subseteq 1 .. m /\ 1 .. m \subseteq steps \cup gone
  /\ wk.at = "none" => wk.events = 0 /\ m = 0
  /\ wk.at = "next" => wk.events = 3 * m
  /\ wk.at = "sending" => wk.events = 3 * m + 1 /\ m < c.Steps
  /\ wk.at = "waiting" => wk.events = 3 * m + 2 /\ m < c.Steps

\* The inductive invariant of the deployments.
DeployInv(c) ==
  /\ \E S : deploys \in Seq(S)
  /\ DOMAIN deploys \subseteq Deploy(c)!Id
  /\ workers \in [Deploy(c)!Id -> Worker]
  /\ done \in [Deploy(c)!Id -> SUBSET Nat]
  /\ \A d \in Deploy(c)!Id :
       /\ \E m \in 0 .. c.Steps : Progress(c, workers[d], done[d], rotated, m)
       /\ d \notin DOMAIN deploys => workers[d].at = "none"

LEMMA DeployStarts == ASSUME NEW c, Deploy(c)!DeployAssumption, Deploy(c)!Init PROVE DeployInv(c)
<1>1. deploys = <<>> /\ workers = [d \in Deploy(c)!Id |-> [at |-> "none", events |-> 0]]
      /\ done = [d \in Deploy(c)!Id |-> {}]
  BY DEF Deploy!Init
<1>2. deploys \in Seq({}) /\ DOMAIN deploys = {}
  BY <1>1
<1>3. workers \in [Deploy(c)!Id -> Worker] /\ done \in [Deploy(c)!Id -> SUBSET Nat]
  BY <1>1 DEF Worker, Stages
<1>4. ASSUME NEW d \in Deploy(c)!Id
      PROVE  /\ \E m \in 0 .. c.Steps : Progress(c, workers[d], done[d], rotated, m)
             /\ workers[d].at = "none"
  <2>1. 0 \in 0 .. c.Steps
    BY DEF Deploy!DeployAssumption
  <2>2. Progress(c, workers[d], done[d], rotated, 0)
    BY <1>1 DEF Progress
  <2> QED BY <1>1, <2>1, <2>2
<1> QED BY <1>2, <1>3, <1>4 DEF DeployInv

\* A step of one run: it goes on as a worker that has made this progress.
LEMMA WorkerGoesOn ==
  ASSUME NEW c, DeployInv(c), NEW d \in Deploy(c)!Id, d \in DOMAIN deploys',
         NEW S, deploys' \in Seq(S), DOMAIN deploys' \subseteq Deploy(c)!Id, DOMAIN deploys \subseteq DOMAIN deploys',
         NEW wk \in Worker, workers' = [workers EXCEPT ![d] = wk],
         NEW steps \in SUBSET Nat, done' = [done EXCEPT ![d] = steps],
         NEW m \in 0 .. c.Steps, Progress(c, wk, steps, rotated, m), rotated' = rotated
  PROVE  DeployInv(c)'
<1>1. workers' \in [Deploy(c)!Id -> Worker] /\ done' \in [Deploy(c)!Id -> SUBSET Nat]
  BY DEF DeployInv
<1>2. ASSUME NEW x \in Deploy(c)!Id
      PROVE  /\ \E n \in 0 .. c.Steps : Progress(c, workers'[x], done'[x], rotated, n)
             /\ x \notin DOMAIN deploys' => workers'[x].at = "none"
  <2>1. CASE x = d
    BY <2>1 DEF DeployInv
  <2>2. CASE x # d
    <3>1. workers'[x] = workers[x] /\ done'[x] = done[x]
      BY <2>2 DEF DeployInv
    <3>2. /\ \E n \in 0 .. c.Steps : Progress(c, workers[x], done[x], rotated, n)
          /\ x \notin DOMAIN deploys => workers[x].at = "none"
      BY DEF DeployInv
    <3> QED BY <3>1, <3>2
  <2> QED BY <2>1, <2>2
<1> QED BY <1>1, <1>2 DEF DeployInv, Deploy!Id

\* A row of the table of deployments that is changed is still a row.
LEMMA DeploysSet ==
  ASSUME NEW c, DeployInv(c), NEW d \in DOMAIN deploys, NEW entry
  PROVE  \E S : [deploys EXCEPT ![d] = entry] \in Seq(S) /\ DOMAIN [deploys EXCEPT ![d] = entry] = DOMAIN deploys
<1>1. PICK T : deploys \in Seq(T)
  BY DEF DeployInv
<1> DEFINE S == T \cup {entry}
           new == [deploys EXCEPT ![d] = entry]
<1>2. deploys \in Seq(S) /\ entry \in S
  BY <1>1, SeqMonotonic
<1> HIDE DEF S
<1>3. d \in 1 .. Len(deploys)
  BY <1>2
<1>4. new \in Seq(S)
  BY <1>2, <1>3, ExceptSeq
<1> QED BY <1>4

\* A run's own steps: none is passed over whose contract is the deployer's.
LEMMA RunsKeep ==
  ASSUME NEW c, Deploy(c)!DeployAssumption, DeployInv(c),
         NEW d \in DOMAIN deploys, Deploy(c)!Run(d)
  PROVE  DeployInv(c)'
<1>1. /\ d \in Deploy(c)!Id /\ workers[d] \in Worker /\ done[d] \in SUBSET Nat
      /\ workers \in [Deploy(c)!Id -> Worker] /\ done \in [Deploy(c)!Id -> SUBSET Nat]
      /\ DOMAIN deploys \subseteq Deploy(c)!Id /\ workers[d].events \in Nat /\ c.Steps \in Nat
  BY DEF DeployInv, Worker, Deploy!DeployAssumption
<1>2. PICK m \in 0 .. c.Steps : Progress(c, workers[d], done[d], rotated, m)
  BY <1>1 DEF DeployInv
<1>3. m \in Nat /\ m <= c.Steps
  BY <1>1
<1>0. rotated' = rotated
  BY DEF Deploy!Run, Deploy!Refuse, Deploy!Begin, Deploy!Send, Deploy!Mined, Deploy!WaitFails, Deploy!Succeed,
       Deploy!Fail, Deploy!End
<1>4. \E S : deploys' \in Seq(S) /\ DOMAIN deploys' = DOMAIN deploys
  <2>1. CASE deploys' = deploys
    BY <2>1 DEF DeployInv
  <2>2. ASSUME NEW entry, deploys' = [deploys EXCEPT ![d] = entry] PROVE \E S : deploys' \in Seq(S) /\ DOMAIN deploys' = DOMAIN deploys
    BY <2>2, DeploysSet
  <2>3. \/ deploys' = deploys
        \/ \E entry : deploys' = [deploys EXCEPT ![d] = entry]
    BY DEF Deploy!Run, Deploy!Refuse, Deploy!Begin, Deploy!Send, Deploy!Mined, Deploy!WaitFails, Deploy!Succeed, Deploy!Fail, Deploy!End,
         Deploy!Finalized, Deploy!Move, Deploy!Publish, Deploy!Throws, Deploy!Unheeded
  <2> QED BY <2>1, <2>2, <2>3
<1>5. ASSUME NEW wk \in Worker, workers' = [workers EXCEPT ![d] = wk],
             NEW steps \in SUBSET Nat, done' = [done EXCEPT ![d] = steps],
             NEW n \in 0 .. c.Steps, Progress(c, wk, steps, rotated, n)
      PROVE  DeployInv(c)'
  BY <1>0, <1>1, <1>4, <1>5, WorkerGoesOn
<1>6. ASSUME NEW at \in Stages, NEW moves \in Nat, workers' = [workers EXCEPT ![d] = [at |-> at, events |-> moves]],
             done' = done, Progress(c, [at |-> at, events |-> moves], done[d], rotated, m)
      PROVE  DeployInv(c)'
  <2>1. [at |-> at, events |-> moves] \in Worker
    BY DEF Worker
  <2>2. done' = [done EXCEPT ![d] = done[d]]
    BY <1>1, <1>6
  <2> QED BY <1>1, <1>2, <1>5, <1>6, <2>1, <2>2
<1>7. ASSUME NEW at \in Stages PROVE /\ [workers[d] EXCEPT !.at = at] = [at |-> at, events |-> workers[d].events]
                                     /\ [[workers[d] EXCEPT !.at = at] EXCEPT !.events = workers[d].events + 1]
                                          = [at |-> at, events |-> workers[d].events + 1]
  <2>1. ASSUME NEW w \in Worker
        PROVE  [w EXCEPT !.at = at] = [at |-> at, events |-> w.events]
    BY DEF Worker
  <2>2. ASSUME NEW w \in Worker, NEW n
        PROVE  [[at |-> at, events |-> w.events] EXCEPT !.events = n] = [at |-> at, events |-> n]
    OBVIOUS
  <2> QED BY <1>1, <2>1, <2>2
<1>8. ASSUME NEW at \in {"failing", "closing", "ended", "dead"}, Deploy(c)!Move(d, at) PROVE DeployInv(c)'
  <2>1. at \in Stages
    BY DEF Stages
  <2>2. workers' = [workers EXCEPT ![d] = [at |-> at, events |-> workers[d].events]] /\ done' = done
    <3>1. workers' = [workers EXCEPT ![d] = [workers[d] EXCEPT !.at = at]] /\ done' = done
      BY <1>8 DEF Deploy!Move
    <3> QED BY <1>7, <2>1, <3>1
  <2>3. Progress(c, [at |-> at, events |-> workers[d].events], done[d], rotated, m)
    BY <1>2 DEF Progress
  <2> QED BY <1>1, <1>6, <2>1, <2>2, <2>3
<1>9. ASSUME NEW status, Deploy(c)!Finalized(d, status) PROVE DeployInv(c)'
  <2>1. workers' = [workers EXCEPT ![d] = [at |-> "closing", events |-> workers[d].events]] /\ done' = done
    <3>1. workers' = [workers EXCEPT ![d] = [workers[d] EXCEPT !.at = "closing"]] /\ done' = done
      BY <1>9 DEF Deploy!Finalized
    <3> QED BY <1>7, <3>1 DEF Stages
  <2>2. Progress(c, [at |-> "closing", events |-> workers[d].events], done[d], rotated, m)
    BY <1>2 DEF Progress
  <2>3. "closing" \in Stages
    BY DEF Stages
  <2> QED BY <1>1, <1>6, <2>1, <2>2, <2>3
<1>10. ASSUME NEW at \in Stages, Deploy(c)!Publish(d, at)
       PROVE  workers' = [workers EXCEPT ![d] = [at |-> at, events |-> workers[d].events + 1]]
  <2>1. workers' = [workers EXCEPT ![d] = [[workers[d] EXCEPT !.at = at] EXCEPT !.events = workers[d].events + 1]]
    BY <1>1, <1>10 DEF Deploy!Publish, Worker
  <2> QED BY <1>7, <2>1
<1>11. CASE Deploy(c)!Begin(d)
  <2>1. /\ workers[d].at = "next" /\ workers[d].events < 3 * c.Steps /\ Deploy(c)!Publish(d, "sending") /\ done' = done
    BY <1>11 DEF Deploy!Begin
  <2>2. Progress(c, [at |-> "sending", events |-> workers[d].events + 1], done[d], rotated, m)
    BY <1>1, <1>2, <1>3, <2>1 DEF Progress
  <2> QED BY <1>1, <1>6, <1>10, <2>1, <2>2 DEF Stages
<1>12. CASE Deploy(c)!Send(d)
  <2>1. CASE Deploy(c)!Publish(d, "waiting") /\ done' = done /\ workers[d].at = "sending"
    <3>1. Progress(c, [at |-> "waiting", events |-> workers[d].events + 1], done[d], rotated, m)
      BY <1>1, <1>2, <1>3, <2>1 DEF Progress
    <3> QED BY <1>1, <1>6, <1>10, <2>1, <3>1 DEF Stages
  <2>2. CASE Deploy(c)!Throws(d)
    BY <1>8, <2>2 DEF Deploy!Throws
  <2> QED BY <1>12, <2>1, <2>2 DEF Deploy!Send
<1>13. ASSUME workers[d].at = "waiting"
       PROVE  /\ Deploy(c)!Doing(d) = m + 1 /\ m + 1 \in 0 .. c.Steps /\ workers[d].events + 1 = 3 * (m + 1)
  <2>1. workers[d].events = 3 * m + 2 /\ m < c.Steps
    BY <1>2, <1>13 DEF Progress
  <2>2. Deploy(c)!Doing(d) = m + 1
    BY <1>3, <2>1 DEF Deploy!Doing, Deploy!Step
  <2> QED BY <1>1, <1>3, <2>1, <2>2
<1>21. PICK new : new = done[d] \cup ({m + 1} \ rotated)
  OBVIOUS
<1>22. new \in SUBSET Nat /\ new \subseteq 1 .. m + 1 /\ 1 .. m + 1 \subseteq new \cup rotated
  <2>1. done[d] \subseteq 1 .. m /\ 1 .. m \subseteq done[d] \cup rotated
    BY <1>2 DEF Progress
  <2>2. 1 .. m + 1 = (1 .. m) \cup {m + 1}
    BY <1>3
  <2>3. new \subseteq 1 .. m + 1 /\ 1 .. m + 1 \subseteq new \cup rotated
    BY <1>21, <2>1, <2>2
  <2> QED BY <1>3, <2>3
<1>14. CASE Deploy(c)!Mined(d)
  <2>1. /\ workers[d].at = "waiting" /\ Deploy(c)!Publish(d, "next")
        /\ done' = [done EXCEPT ![d] = done[d] \cup ({Deploy(c)!Doing(d)} \ rotated)]
    BY <1>14 DEF Deploy!Mined, Deploy!Unheeded, Deploy!TakesEffect
  <2>2. done' = [done EXCEPT ![d] = new]
    BY <1>13, <1>21, <2>1
  <2>3. workers' = [workers EXCEPT ![d] = [at |-> "next", events |-> 3 * (m + 1)]]
    BY <1>10, <1>13, <2>1 DEF Stages
  <2>4. [at |-> "next", events |-> 3 * (m + 1)] \in Worker
    BY <1>3 DEF Worker, Stages
  <2>5. Progress(c, [at |-> "next", events |-> 3 * (m + 1)], new, rotated, m + 1)
    BY <1>22 DEF Progress
  <2> QED BY <1>5, <1>13, <1>22, <2>1, <2>2, <2>3, <2>4, <2>5
<1>15. CASE Deploy(c)!WaitFails(d)
  <2>1. /\ workers[d].at = "waiting" /\ done' = [done EXCEPT ![d] = done[d] \cup ({Deploy(c)!Doing(d)} \ rotated)]
        /\ workers' = [workers EXCEPT ![d] = [workers[d] EXCEPT !.at = "failing"]]
    BY <1>15 DEF Deploy!WaitFails, Deploy!TakesEffect
  <2>2. done' = [done EXCEPT ![d] = new]
    BY <1>13, <1>21, <2>1
  <2>3. workers' = [workers EXCEPT ![d] = [at |-> "failing", events |-> workers[d].events]]
    BY <1>7, <2>1 DEF Stages
  <2>4. [at |-> "failing", events |-> workers[d].events] \in Worker
    BY <1>1, <1>3 DEF Worker, Stages
  <2>5. Progress(c, [at |-> "failing", events |-> workers[d].events], new, rotated, m + 1)
    BY <1>22 DEF Progress
  <2> QED BY <1>5, <1>13, <1>22, <2>1, <2>2, <2>3, <2>4, <2>5
<1>16. CASE Deploy(c)!Succeed(d) \/ Deploy(c)!Fail(d)
  BY <1>8, <1>9, <1>16 DEF Deploy!Succeed, Deploy!Fail
<1>17. CASE Deploy(c)!End(d)
  BY <1>8, <1>17 DEF Deploy!End
<1>18. CASE Deploy(c)!Refuse(d)
  BY <1>8, <1>18 DEF Deploy!Refuse
<1> QED BY <1>11, <1>12, <1>14, <1>15, <1>16, <1>17, <1>18 DEF Deploy!Run

LEMMA StartKeeps ==
  ASSUME NEW c, Deploy(c)!DeployAssumption, DeployInv(c), NEW p \in c.Pages, Deploy(c)!Start(p) PROVE DeployInv(c)'
<1> DEFINE d == Len(deploys) + 1
           entry == [symbol |-> pages[p].symbol, status |-> "running", lastStep |-> 0]
<1>1. /\ d \in Deploy(c)!Id /\ deploys' = Append(deploys, entry) /\ done' = done /\ rotated' = rotated
      /\ workers' = [workers EXCEPT ![d] = [workers[d] EXCEPT !.at = "next"]]
  BY DEF Deploy!Start
<1>2. PICK T : deploys \in Seq(T)
  BY DEF DeployInv
<1> DEFINE S == T \cup {entry}
<1> HIDE DEF entry
<1>3. deploys \in Seq(S) /\ entry \in S
  BY <1>2, SeqMonotonic
<1> HIDE DEF S
<1>4. deploys' \in Seq(S) /\ Len(deploys') = d /\ d \in DOMAIN deploys' /\ DOMAIN deploys' = DOMAIN deploys \cup {d}
      /\ d \notin DOMAIN deploys
  BY <1>1, <1>3
<1> HIDE DEF d
<1>5. workers[d] \in Worker /\ workers[d].at = "none" /\ done[d] \in SUBSET Nat
      /\ DOMAIN deploys' \subseteq Deploy(c)!Id
  BY <1>1, <1>4 DEF DeployInv
<1>6. PICK m \in 0 .. c.Steps : Progress(c, workers[d], done[d], rotated, m)
  BY <1>1 DEF DeployInv
<1> DEFINE wk == [workers[d] EXCEPT !.at = "next"]
<1>7. wk \in Worker /\ wk.at = "next" /\ wk.events = workers[d].events
  BY <1>5 DEF Worker, Stages
<1>8. wk.events = 3 * m /\ done[d] \subseteq 1 .. m /\ 1 .. m \subseteq done[d] \cup rotated
  BY <1>5, <1>6, <1>7 DEF Progress
<1>9. workers' = [workers EXCEPT ![d] = wk] /\ done' = [done EXCEPT ![d] = done[d]]
  BY <1>1 DEF DeployInv
<1> HIDE DEF wk
<1>10. Progress(c, wk, done[d], rotated, m)
  BY <1>7, <1>8 DEF Progress
<1> QED BY <1>1, <1>4, <1>5, <1>7, <1>9, <1>10, WorkerGoesOn

LEMMA DeployStutters ==
  ASSUME NEW c, DeployInv(c), UNCHANGED <<deploys, workers, done, rotated>> PROVE DeployInv(c)'
BY DEF DeployInv, Deploy!Id

LEMMA CrashKeeps == ASSUME NEW c, DeployInv(c), Deploy(c)!Crash PROVE DeployInv(c)'
<1>1. /\ UNCHANGED <<deploys, done, rotated>> /\ workers \in [Deploy(c)!Id -> Worker]
      /\ workers' = [d \in Deploy(c)!Id |->
           [workers[d] EXCEPT !.at = IF workers[d].at \in {"none", "ended"} THEN workers[d].at ELSE "dead"]]
  BY SMTT(60) DEF Deploy!Crash, DeployInv
<1>2. ASSUME NEW d \in Deploy(c)!Id
      PROVE  /\ workers'[d] \in Worker
             /\ \E m \in 0 .. c.Steps : Progress(c, workers'[d], done[d], rotated, m)
             /\ d \notin DOMAIN deploys => workers'[d].at = "none"
  <2>1. PICK m \in 0 .. c.Steps : Progress(c, workers[d], done[d], rotated, m)
    BY DEF DeployInv
  <2>2. workers[d] \in Worker /\ (d \notin DOMAIN deploys => workers[d].at = "none")
    BY DEF DeployInv
  <2> DEFINE at == IF workers[d].at \in {"none", "ended"} THEN workers[d].at ELSE "dead"
  <2>3. workers'[d] = [workers[d] EXCEPT !.at = at]
    BY <1>1, SMTT(60)
  <2>4. workers'[d] \in Worker /\ workers'[d].at = at /\ workers'[d].events = workers[d].events
    <3>1. at \in Stages
      BY <2>2 DEF Stages, Worker
    <3> HIDE DEF at
    <3> QED BY <2>2, <2>3, <3>1 DEF Worker
  <2>5. Progress(c, workers'[d], done[d], rotated, m)
    BY <2>1, <2>4 DEF Progress
  <2> QED BY <2>2, <2>4, <2>5
<1>3. workers' \in [Deploy(c)!Id -> Worker]
  BY <1>1, <1>2
<1> QED BY <1>1, <1>2, <1>3 DEF DeployInv, Deploy!Id

\* A contract that is handed on excuses what it was to grant, no less.
LEMMA RotationKeeps ==
  ASSUME NEW c, DeployInv(c), UNCHANGED <<deploys, workers, done>>, rotated \subseteq rotated'
  PROVE  DeployInv(c)'
<1>1. ASSUME NEW d \in Deploy(c)!Id
      PROVE  /\ \E m \in 0 .. c.Steps : Progress(c, workers[d], done[d], rotated', m)
             /\ d \notin DOMAIN deploys => workers[d].at = "none"
  <2>1. PICK m \in 0 .. c.Steps : Progress(c, workers[d], done[d], rotated, m)
    BY DEF DeployInv
  <2>2. Progress(c, workers[d], done[d], rotated', m)
    BY <2>1 DEF Progress
  <2> QED BY <2>2 DEF DeployInv
<1> QED BY <1>1 DEF DeployInv, Deploy!Id

LEMMA DeploySteps ==
  ASSUME NEW c, Deploy(c)!DeployAssumption, DeployInv(c), Deploy(c)!Next
  PROVE  DeployInv(c)'
<1>1. ASSUME NEW p \in c.Pages, Deploy(c)!Check(p) \/ Deploy(c)!View(p) \/ Deploy(c)!Reload(p) \/ Deploy(c)!StreamDrops(p)
      PROVE  UNCHANGED <<deploys, workers, done, rotated>>
  BY <1>1 DEF Deploy!Check, Deploy!View, Deploy!Reload, Deploy!StreamDrops, Deploy!Reattach, Deploy!Poll, Deploy!Look,
       Deploy!Subscribe, Deploy!Hear, Deploy!Page
<1>2. ASSUME NEW p \in c.Pages, Deploy(c)!Start(p) PROVE DeployInv(c)'
  BY <1>2, StartKeeps
<1>3. ASSUME NEW d \in DOMAIN deploys, Deploy(c)!Run(d) PROVE DeployInv(c)'
  BY <1>3, RunsKeep
<1>4. ASSUME NEW d \in DOMAIN deploys, Deploy(c)!Cleanup(d) PROVE UNCHANGED <<deploys, workers, done, rotated>>
  BY <1>4 DEF Deploy!Cleanup
<1>5. ASSUME NEW k, Deploy(c)!Rotate(k) PROVE DeployInv(c)'
  BY <1>5, RotationKeeps DEF Deploy!Rotate
<1> QED BY <1>1, <1>2, <1>3, <1>4, <1>5, CrashKeeps, DeployStutters DEF Deploy!Next

LEMMA DeployHolds ==
  ASSUME NEW c, Deploy(c)!DeployAssumption, DeployInv(c) PROVE Deploy(c)!RegisteredIsWired
<1> SUFFICES ASSUME NEW d \in DOMAIN deploys, c.Steps \in done[d] PROVE 1 .. c.Steps \subseteq done[d] \cup rotated
  BY DEF Deploy!RegisteredIsWired, Deploy!Registered
<1>1. d \in Deploy(c)!Id
  BY DEF DeployInv
<1>2. PICK m \in 0 .. c.Steps : Progress(c, workers[d], done[d], rotated, m)
  BY <1>1 DEF DeployInv
<1>3. done[d] \subseteq 1 .. m /\ 1 .. m \subseteq done[d] \cup rotated /\ m \in Nat /\ m <= c.Steps /\ c.Steps \in Nat
  BY <1>2 DEF Progress, Deploy!DeployAssumption
<1>4. m = c.Steps
  BY <1>3
<1> QED BY <1>3, <1>4

RecordsInv == EscrowInv(EscrowOf) /\ DeployInv(DeployOf)

\* However often a window of escrows is replayed, whatever is lost or restarted
\* on the way, an escrow has one record, claimed only after a redemption; and a
\* token in the registry has every step that was to come before, but for those
\* of contracts that were handed on meanwhile: the receipt of a reverted grant
\* is taken for success.
THEOREM RecordsKeptFaithful == Services => []RecordsFaithful
<1>1. Escrow(EscrowOf)!PollerAssumption /\ Deploy(DeployOf)!DeployAssumption
  BY ConstantsAssumption DEF ConstantsAssumption
<1>2. ServicesInit => RecordsInv
  BY <1>1, EscrowStarts, DeployStarts DEF ServicesInit, RecordsInv
<1>3. RecordsInv /\ [ServicesNext]_servicesVars => RecordsInv'
  <2> SUFFICES ASSUME RecordsInv, [ServicesNext]_servicesVars PROVE RecordsInv'
    OBVIOUS
  <2>1. UNCHANGED escrowVars \/ Escrow(EscrowOf)!Next
    BY DEF ServicesNext, Rest, servicesVars
  <2>2. UNCHANGED deployVars \/ Deploy(DeployOf)!Next
    BY DEF ServicesNext, Rest, servicesVars
  <2>3. EscrowInv(EscrowOf)'
    BY <1>1, <2>1, EscrowSteps, EscrowStutters DEF RecordsInv
  <2>4. DeployInv(DeployOf)'
    BY <1>1, <2>2, DeploySteps, DeployStutters DEF RecordsInv, deployVars
  <2> QED BY <2>3, <2>4 DEF RecordsInv
<1>4. RecordsInv => RecordsFaithful
  BY <1>1, EscrowHolds, DeployHolds DEF RecordsInv, RecordsFaithful
<1> QED BY <1>2, <1>3, <1>4, PTL DEF Services
-----------------------------------------------------------------------------
(* The NAV services *)

Cycling == {"view", "mirror", "decide", "send"}
Outcomes == {"none", "published", "fresh", "db-stale", "error"}

\* Where the two services are; a cycle and its transaction end before the next
\* cycle is due.
NavTyped(c) ==
  /\ navAge \in Nat /\ fedAge \in Nat /\ rowAge \in Nat /\ timer \in Nat
  /\ worker \in {"boot", "idle", "bump", "write"} /\ fetchDue \in BOOLEAN
  /\ pub \in [at : {"idle", "sent"} \cup Cycling, synthetic : BOOLEAN, waited : Nat]
  /\ health \in [fresh : BOOLEAN, outcome : Outcomes]
  /\ pub.at = "idle" => timer <= c.Interval
  /\ pub.at # "idle" => timer + pub.waited = c.Interval /\ pub.waited <= c.MaxDelay
  /\ pub.at \in Cycling => pub.waited = 0

\* A feed that answers is heard, and its row dated, within the tick; only where
\* the services start may the newest row be an old one of the backfill.
RowsRecent(c) ==
  /\ feed # "dead" /\ (rowAge <= 4 * c.Interval \/ navAge = 0)
  /\ worker = "idle" /\ ~fetchDue => rowAge = 0
  /\ newest = "none" => worker = "boot" /\ navAge = 0

\* What a cycle that went well leaves, until the next one.
HealthInv(c) ==
  /\ pub.at = "idle" /\ health.outcome = "none" => ~health.fresh
  /\ pub.at = "idle" /\ health.fresh /\ health.outcome \in {"published", "fresh", "db-stale"} =>
       navAge + timer <= 3 * c.Interval

\* Where no call fails there is time for a cycle and its transaction.
FreshInv(c) ==
  /\ pub.at = "idle" => navAge + timer <= 3 * c.Interval
  /\ pub.at \in Cycling => navAge <= 3 * c.Interval
  /\ pub.at = "sent" => navAge <= 3 * c.Interval + pub.waited

\* A row is never younger than the answer it was dated by, so a cycle that saw a
\* recent row of a feed renews what was heard of.
HeardInv(c) ==
  /\ newest = "feed" /\ fedAge <= rowAge
  /\ worker \in {"bump", "write"} => fedAge = 0
  /\ pub.synthetic = FALSE /\ pub.at # "mirror"
  /\ pub.at \in Cycling => fedAge <= 4 * c.Interval
  /\ pub.at = "sent" => fedAge <= 4 * c.Interval + pub.waited

NavSteady(c) == "dead" \notin c.Faults
NavSure(c) == {"dead", "rpc", "database"} \cap c.Faults = {}

LEMMA OlderBound ==
  ASSUME NEW c, Nav(c)!RefreshAssumption, NEW x \in Nat
  PROVE  Nav(c)!Older(x) \in Nat /\ Nav(c)!Older(x) <= x + 1 /\ Nav(c)!Older(x) # 0
BY DEF Nav!Older, Nav!Old, Nav!Window, Nav!RefreshAssumption

LEMMA NavStarts ==
  ASSUME NEW c, Nav(c)!RefreshAssumption, Nav(c)!Init
  PROVE  /\ NavTyped(c) /\ HealthInv(c) /\ FreshInv(c) /\ RowsRecent(c)
         /\ c.Initial = {"feed"} => HeardInv(c)
<1>1. /\ navAge = 0 /\ fedAge = 0 /\ rowAge = 0 /\ timer = 0 /\ worker = "boot" /\ fetchDue = TRUE /\ feed # "dead"
      /\ pub = [at |-> "idle", synthetic |-> FALSE, waited |-> 0] /\ health = [fresh |-> FALSE, outcome |-> "none"]
      /\ newest \in c.Initial
  BY DEF Nav!Init, Nav!Idle, Nav!NoStatus
<1>2. c.Interval \in Nat
  BY DEF Nav!RefreshAssumption
<1>3. NavTyped(c)
  BY <1>1, <1>2 DEF NavTyped, Cycling, Outcomes
<1>4. HealthInv(c) /\ FreshInv(c) /\ RowsRecent(c)
  BY <1>1, <1>2 DEF HealthInv, FreshInv, RowsRecent, Cycling
<1>5. c.Initial = {"feed"} => HeardInv(c)
  BY <1>1, <1>2 DEF HeardInv, Cycling
<1> QED BY <1>3, <1>4, <1>5

\* The feed and the worker leave the publisher and the chain alone.
WorkerSide(c) == \/ Nav(c)!FeedMoves \/ Nav(c)!FeedDies \/ Nav(c)!FeedReturns
                 \/ Nav(c)!WorkerStep \/ Nav(c)!WorkerRestarts

LEMMA WorkerKeeps ==
  ASSUME NEW c, Nav(c)!RefreshAssumption, NavTyped(c), WorkerSide(c)
  PROVE  /\ NavTyped(c)' /\ UNCHANGED <<navAge, pub, timer, health>>
         /\ HealthInv(c) => HealthInv(c)'
         /\ FreshInv(c) => FreshInv(c)'
         /\ NavSteady(c) /\ RowsRecent(c) => RowsRecent(c)'
         /\ HeardInv(c) => HeardInv(c)'
<1>1. UNCHANGED <<navAge, pub, timer, health>>
  BY DEF WorkerSide, Nav!FeedMoves, Nav!FeedDies, Nav!FeedReturns, Nav!WorkerStep, Nav!WorkerRestarts,
       Nav!Backfill, Nav!Fetch, Nav!Quoted, Nav!Deduped, Nav!Bump, Nav!WriteRow, Nav!Published
<1>2. /\ fedAge' \in {0, fedAge} /\ rowAge' \in {0, rowAge, c.BackfillAge}
      /\ worker' \in {"boot", "idle", "bump", "write"} /\ fetchDue' \in BOOLEAN
  BY DEF WorkerSide, Nav!FeedMoves, Nav!FeedDies, Nav!FeedReturns, Nav!WorkerStep, Nav!WorkerRestarts,
       Nav!Backfill, Nav!Fetch, Nav!Quoted, Nav!Deduped, Nav!Bump, Nav!WriteRow, Nav!rows, NavTyped
<1>3. c.BackfillAge \in Nat /\ c.Interval \in Nat
  BY DEF Nav!RefreshAssumption
<1>4. NavTyped(c)'
  <2>1. fedAge' \in Nat /\ rowAge' \in Nat
    BY <1>2, <1>3 DEF NavTyped
  <2> QED BY <1>1, <1>2, <2>1 DEF NavTyped
<1>5. (HealthInv(c) => HealthInv(c)') /\ (FreshInv(c) => FreshInv(c)')
  BY <1>1 DEF HealthInv, FreshInv
<1>6. ASSUME NavSteady(c), RowsRecent(c) PROVE RowsRecent(c)'
  <2>1. CASE Nav(c)!FeedMoves \/ Nav(c)!FeedDies \/ Nav(c)!FeedReturns \/ Nav(c)!WorkerRestarts
    BY <1>1, <1>6, <2>1 DEF Nav!FeedMoves, Nav!FeedDies, Nav!FeedReturns, Nav!WorkerRestarts, Nav!Fault, RowsRecent,
         NavSteady, Nav!rows
  <2>2. CASE Nav(c)!Backfill
    BY <1>1, <1>6, <2>2 DEF Nav!Backfill, Nav!Quoted, RowsRecent, Nav!rows
  <2>3. CASE Nav(c)!Fetch
    BY <1>1, <1>6, <2>3 DEF Nav!Fetch, Nav!Quoted, Nav!Deduped, RowsRecent, Nav!rows
  <2>4. CASE Nav(c)!Bump \/ Nav(c)!WriteRow
    BY <1>1, <1>3, <1>6, <2>4 DEF Nav!Bump, Nav!WriteRow, RowsRecent
  <2> QED BY <2>1, <2>2, <2>3, <2>4 DEF WorkerSide, Nav!WorkerStep
<1>7. ASSUME HeardInv(c) PROVE HeardInv(c)'
  <2>1. newest' = "feed" /\ fedAge' <= rowAge' /\ (worker' \in {"bump", "write"} => fedAge' = 0)
    <3>1. CASE Nav(c)!FeedMoves \/ Nav(c)!FeedDies \/ Nav(c)!FeedReturns \/ Nav(c)!WorkerRestarts
      BY <1>7, <3>1 DEF Nav!FeedMoves, Nav!FeedDies, Nav!FeedReturns, Nav!WorkerRestarts, HeardInv, Nav!rows
    <3>2. CASE Nav(c)!Backfill
      BY <1>7, <3>2 DEF Nav!Backfill, Nav!Quoted, HeardInv, Nav!rows, NavTyped
    <3>3. CASE Nav(c)!Fetch
      BY <1>7, <3>3 DEF Nav!Fetch, Nav!Quoted, Nav!Deduped, HeardInv, Nav!rows, NavTyped
    <3>4. CASE Nav(c)!Bump \/ Nav(c)!WriteRow
      BY <1>7, <3>4 DEF Nav!Bump, Nav!WriteRow, HeardInv, Nav!rows
    <3> QED BY <3>1, <3>2, <3>3, <3>4 DEF WorkerSide, Nav!WorkerStep
  <2>2. fedAge' <= fedAge
    BY <1>2 DEF NavTyped
  <2>3. /\ pub.at \in Cycling => fedAge' <= 4 * c.Interval
        /\ pub.at = "sent" => fedAge' <= 4 * c.Interval + pub.waited
    BY <1>2, <1>3, <1>7, <2>2 DEF HeardInv, NavTyped
  <2> QED BY <1>1, <1>7, <2>1, <2>3 DEF HeardInv
<1> QED BY <1>1, <1>4, <1>5, <1>6, <1>7

LEMMA TickKeeps ==
  ASSUME NEW c, Nav(c)!RefreshAssumption, NavTyped(c), Nav(c)!Tick
  PROVE  /\ NavTyped(c)' /\ navAge' # 0
         /\ HealthInv(c) => HealthInv(c)'
         /\ FreshInv(c) => FreshInv(c)'
         /\ RowsRecent(c) => RowsRecent(c)'
         /\ HeardInv(c) => HeardInv(c)'
<1>1. c.Interval \in Nat /\ c.Interval >= 1 /\ c.MaxDelay \in Nat /\ c.MaxDelay <= c.Interval - 1
  BY DEF Nav!RefreshAssumption
<1>2. /\ worker = "idle" /\ ~fetchDue /\ fetchDue' = TRUE /\ timer' = timer - 1
      /\ UNCHANGED <<feed, newest, worker, health>>
      /\ \/ pub.at = "idle" /\ timer > 0 /\ pub' = pub
         \/ pub.at = "sent" /\ pub.waited < c.MaxDelay /\ pub' = [pub EXCEPT !.waited = pub.waited + 1]
  BY DEF Nav!Tick
<1>3. navAge \in Nat /\ fedAge \in Nat /\ rowAge \in Nat
  BY DEF NavTyped
<1>4. /\ navAge' \in Nat /\ navAge' <= navAge + 1 /\ navAge' # 0
      /\ fedAge' \in Nat /\ fedAge' <= fedAge + 1
      /\ rowAge' \in Nat /\ rowAge' <= rowAge + 1
  <2>1. navAge' = Nav(c)!Older(navAge) /\ fedAge' = Nav(c)!Older(fedAge) /\ rowAge' = Nav(c)!Older(rowAge)
    BY DEF Nav!Tick
  <2>2. \A x \in Nat : Nav(c)!Older(x) \in Nat /\ Nav(c)!Older(x) <= x + 1 /\ Nav(c)!Older(x) # 0
    BY OlderBound
  <2> QED BY <1>3, <2>1, <2>2
<1>5. /\ pub'.at = pub.at /\ pub'.synthetic = pub.synthetic /\ pub'.waited \in Nat
      /\ pub' \in [at : {"idle", "sent"} \cup Cycling, synthetic : BOOLEAN, waited : Nat]
      /\ pub.at = "sent" => pub'.waited = pub.waited + 1 /\ pub'.waited <= c.MaxDelay
      /\ pub.at # "sent" => pub.at = "idle" /\ timer > 0
  BY <1>1, <1>2 DEF NavTyped
<1>6. timer' \in Nat
  BY <1>1, <1>2, <1>5 DEF NavTyped
<1>7. NavTyped(c)'
  <2>1. pub'.at = "idle" => timer' <= c.Interval
    BY <1>1, <1>2, <1>5 DEF NavTyped
  <2>2. pub'.at # "idle" => timer' + pub'.waited = c.Interval /\ pub'.waited <= c.MaxDelay
    BY <1>1, <1>2, <1>5 DEF NavTyped
  <2>3. pub'.at \in Cycling => pub'.waited = 0
    BY <1>5 DEF Cycling
  <2> QED BY <1>2, <1>4, <1>5, <1>6, <2>1, <2>2, <2>3 DEF NavTyped
<1>8. HealthInv(c) => HealthInv(c)'
  BY <1>1, <1>2, <1>3, <1>4, <1>5, <1>6 DEF HealthInv, NavTyped
<1>9. FreshInv(c) => FreshInv(c)'
  BY <1>1, <1>2, <1>3, <1>4, <1>5, <1>6 DEF FreshInv, NavTyped, Cycling
<1>10. RowsRecent(c) => RowsRecent(c)'
  BY <1>1, <1>2, <1>3, <1>4 DEF RowsRecent
<1>11. ASSUME HeardInv(c) PROVE HeardInv(c)'
  <2>1. fedAge' <= rowAge'
    <3>1. fedAge <= rowAge
      BY <1>11 DEF HeardInv
    <3> QED BY <1>1, <1>3, <3>1 DEF Nav!Tick, Nav!Older, Nav!Old, Nav!Window
  <2>2. pub.at = "sent" => fedAge' <= 4 * c.Interval + pub'.waited
    BY <1>1, <1>3, <1>4, <1>5, <1>11 DEF HeardInv, NavTyped
  <2> QED BY <1>2, <1>5, <1>11, <2>1, <2>2 DEF HeardInv, Cycling
<1> QED BY <1>4, <1>7, <1>8, <1>9, <1>10, <1>11

PublisherSide(c) == Nav(c)!PublisherStep \/ Nav(c)!PublisherRestarts

Publisher == [at : {"idle", "sent"} \cup Cycling, synthetic : BOOLEAN, waited : Nat]
Health == [fresh : BOOLEAN, outcome : Outcomes]

LEMMA NavEnds ==
  ASSUME NEW c, pub \in Publisher, health \in Health, NEW o \in Outcomes, Nav(c)!Ends(o)
  PROVE  /\ pub' \in Publisher /\ pub'.at = "idle" /\ pub'.waited = 0 /\ pub'.synthetic = FALSE
         /\ health' \in Health /\ health'.outcome = o /\ health'.fresh = health.fresh
<1>1. pub' = [at |-> "idle", synthetic |-> FALSE, waited |-> 0] /\ health' = [health EXCEPT !.outcome = o]
  BY DEF Nav!Ends, Nav!Idle
<1> QED BY <1>1 DEF Publisher, Health

LEMMA NavGoes ==
  ASSUME NEW at \in {"idle", "sent"} \cup Cycling, pub \in Publisher, pub' = [pub EXCEPT !.at = at]
  PROVE  pub' \in Publisher /\ pub'.at = at /\ pub'.waited = pub.waited /\ pub'.synthetic = pub.synthetic
BY DEF Publisher

\* What each step of a cycle does to it and to what /health answers from.
LEMMA NavSteps ==
  ASSUME NEW c, Nav(c)!RefreshAssumption, pub \in Publisher, health \in Health
  PROVE  /\ Nav(c)!Begin =>
              /\ pub.at = "idle" /\ timer = 0 /\ timer' = c.Interval /\ UNCHANGED navAge
              /\ pub' \in Publisher /\ health' \in Health /\ pub'.waited = 0
              /\ \/ pub'.at = "view" /\ UNCHANGED health /\ (pub'.synthetic = (newest # "feed"))
                    /\ (newest = "feed" => rowAge <= 4 * c.Interval)
                 \/ pub'.at = "idle" /\ health'.outcome = "db-stale" /\ health'.fresh = health.fresh
                    /\ newest = "feed" /\ ~(rowAge <= 4 * c.Interval) /\ pub'.synthetic = FALSE
         /\ Nav(c)!View =>
              /\ pub.at = "view" /\ UNCHANGED <<timer, navAge>> /\ pub' \in Publisher /\ health' \in Health
              /\ \/ pub'.at = (IF pub.synthetic THEN "mirror" ELSE "decide") /\ pub'.waited = pub.waited
                    /\ pub'.synthetic = pub.synthetic
                 \/ pub'.at = "idle" /\ pub'.waited = 0 /\ pub'.synthetic = FALSE /\ health'.outcome = "error"
                    /\ Nav(c)!Fault("rpc")
         /\ Nav(c)!Mirror =>
              /\ pub.at = "mirror" /\ pub'.at = "decide" /\ pub'.waited = pub.waited /\ pub'.synthetic = pub.synthetic
              /\ UNCHANGED <<timer, navAge, health>> /\ pub' \in Publisher
         /\ Nav(c)!Decide =>
              /\ pub.at = "decide" /\ UNCHANGED <<timer, navAge>> /\ pub' \in Publisher /\ health' \in Health
              /\ \/ pub'.at = "idle" /\ pub'.waited = 0 /\ pub'.synthetic = FALSE /\ health'.outcome = "fresh"
                    /\ navAge < 2 * c.Interval
                 \/ pub'.at = "send" /\ pub'.waited = pub.waited /\ pub'.synthetic = pub.synthetic /\ UNCHANGED health
         /\ Nav(c)!Send =>
              /\ pub.at = "send" /\ UNCHANGED <<timer, navAge>> /\ pub' \in Publisher /\ health' \in Health
              /\ \/ pub'.at = "sent" /\ pub'.waited = pub.waited /\ pub'.synthetic = pub.synthetic /\ UNCHANGED health
                 \/ pub'.at = "idle" /\ pub'.waited = 0 /\ pub'.synthetic = FALSE /\ health'.outcome = "error"
                    /\ Nav(c)!Fault("rpc")
         /\ Nav(c)!Mined =>
              /\ pub.at = "sent" /\ UNCHANGED timer /\ navAge' = 0 /\ pub' \in Publisher /\ health' \in Health
              /\ pub'.at = "idle" /\ pub'.waited = 0 /\ pub'.synthetic = FALSE /\ health'.outcome = "published"
<1>1. ASSUME Nav(c)!Begin
      PROVE  /\ pub.at = "idle" /\ timer = 0 /\ timer' = c.Interval /\ UNCHANGED navAge
             /\ pub' \in Publisher /\ health' \in Health /\ pub'.waited = 0
             /\ \/ pub'.at = "view" /\ UNCHANGED health /\ (pub'.synthetic = (newest # "feed"))
                   /\ (newest = "feed" => rowAge <= 4 * c.Interval)
                \/ pub'.at = "idle" /\ health'.outcome = "db-stale" /\ health'.fresh = health.fresh
                   /\ newest = "feed" /\ ~(rowAge <= 4 * c.Interval) /\ pub'.synthetic = FALSE
  <2>1. pub.at = "idle" /\ timer = 0 /\ timer' = c.Interval /\ UNCHANGED navAge
    BY <1>1 DEF Nav!Begin, Nav!Rearmed
  <2>2. CASE newest = "feed" /\ ~(rowAge <= 4 * c.Interval) /\ Nav(c)!Ends("db-stale")
    BY <2>1, <2>2, NavEnds DEF Outcomes
  <2>3. CASE /\ newest # "feed" \/ rowAge <= 4 * c.Interval
             /\ pub' = [at |-> "view", synthetic |-> (newest # "feed"), waited |-> 0] /\ UNCHANGED health
    BY <2>1, <2>3 DEF Publisher, Cycling
  <2> QED BY <1>1, <2>2, <2>3 DEF Nav!Begin, Nav!Recent, Nav!Liveness
<1>2. ASSUME Nav(c)!View
      PROVE  /\ pub.at = "view" /\ UNCHANGED <<timer, navAge>> /\ pub' \in Publisher /\ health' \in Health
             /\ \/ pub'.at = (IF pub.synthetic THEN "mirror" ELSE "decide") /\ pub'.waited = pub.waited
                   /\ pub'.synthetic = pub.synthetic
                \/ pub'.at = "idle" /\ pub'.waited = 0 /\ pub'.synthetic = FALSE /\ health'.outcome = "error"
                   /\ Nav(c)!Fault("rpc")
  <2>1. pub.at = "view" /\ UNCHANGED <<timer, navAge>>
    BY <1>2 DEF Nav!View
  <2>2. CASE Nav(c)!Ends("error") /\ Nav(c)!Fault("rpc")
    BY <2>1, <2>2, NavEnds DEF Outcomes
  <2>3. CASE /\ pub' = [pub EXCEPT !.at = IF pub.synthetic THEN "mirror" ELSE "decide"]
             /\ health' = [health EXCEPT !.fresh = Nav(c)!Fresh]
    <3> DEFINE at == IF pub.synthetic THEN "mirror" ELSE "decide"
    <3>1. at \in {"idle", "sent"} \cup Cycling
      BY DEF Cycling
    <3>2. pub' \in Publisher /\ pub'.at = at /\ pub'.waited = pub.waited /\ pub'.synthetic = pub.synthetic
      <4>1. pub' = [pub EXCEPT !.at = at]
        BY <2>3
      <4> HIDE DEF at
      <4> QED BY <3>1, <4>1, NavGoes
    <3>3. health' \in Health
      <4> DEFINE f == Nav(c)!Fresh
      <4>1. f \in BOOLEAN /\ health' = [health EXCEPT !.fresh = f]
        BY <2>3 DEF Nav!Fresh
      <4> HIDE DEF f
      <4> QED BY <4>1 DEF Health
    <3> QED BY <2>1, <3>2, <3>3
  <2> QED BY <1>2, <2>2, <2>3 DEF Nav!View
<1>3. ASSUME Nav(c)!Mirror
      PROVE  /\ pub.at = "mirror" /\ pub'.at = "decide" /\ pub'.waited = pub.waited /\ pub'.synthetic = pub.synthetic
             /\ UNCHANGED <<timer, navAge, health>> /\ pub' \in Publisher
  <2>1. pub.at = "mirror" /\ pub' = [pub EXCEPT !.at = "decide"] /\ UNCHANGED <<timer, navAge, health>>
    BY <1>3 DEF Nav!Mirror
  <2> QED BY <2>1, NavGoes DEF Cycling
<1>4. ASSUME Nav(c)!Decide
      PROVE  /\ pub.at = "decide" /\ UNCHANGED <<timer, navAge>> /\ pub' \in Publisher /\ health' \in Health
             /\ \/ pub'.at = "idle" /\ pub'.waited = 0 /\ pub'.synthetic = FALSE /\ health'.outcome = "fresh"
                   /\ navAge < 2 * c.Interval
                \/ pub'.at = "send" /\ pub'.waited = pub.waited /\ pub'.synthetic = pub.synthetic /\ UNCHANGED health
  <2>1. pub.at = "decide" /\ UNCHANGED <<timer, navAge>>
    BY <1>4 DEF Nav!Decide
  <2>2. CASE Nav(c)!Ends("fresh") /\ navAge < 2 * c.Interval
    BY <2>1, <2>2, NavEnds DEF Outcomes
  <2>3. CASE pub' = [pub EXCEPT !.at = "send"] /\ UNCHANGED health
    BY <2>1, <2>3, NavGoes DEF Cycling
  <2> QED BY <1>4, <2>2, <2>3 DEF Nav!Decide, Nav!Young
<1>5. ASSUME Nav(c)!Send
      PROVE  /\ pub.at = "send" /\ UNCHANGED <<timer, navAge>> /\ pub' \in Publisher /\ health' \in Health
             /\ \/ pub'.at = "sent" /\ pub'.waited = pub.waited /\ pub'.synthetic = pub.synthetic /\ UNCHANGED health
                \/ pub'.at = "idle" /\ pub'.waited = 0 /\ pub'.synthetic = FALSE /\ health'.outcome = "error"
                   /\ Nav(c)!Fault("rpc")
  <2>1. pub.at = "send" /\ UNCHANGED <<timer, navAge>>
    BY <1>5 DEF Nav!Send
  <2>2. CASE Nav(c)!Ends("error") /\ Nav(c)!Fault("rpc")
    BY <2>1, <2>2, NavEnds DEF Outcomes
  <2>3. CASE pub' = [pub EXCEPT !.at = "sent"] /\ UNCHANGED health
    BY <2>1, <2>3, NavGoes
  <2> QED BY <1>5, <2>2, <2>3 DEF Nav!Send
<1>6. ASSUME Nav(c)!Mined
      PROVE  /\ pub.at = "sent" /\ UNCHANGED timer /\ navAge' = 0 /\ pub' \in Publisher /\ health' \in Health
             /\ pub'.at = "idle" /\ pub'.waited = 0 /\ pub'.synthetic = FALSE /\ health'.outcome = "published"
  <2>1. /\ pub.at = "sent" /\ UNCHANGED timer /\ navAge' = 0
        /\ pub' = [at |-> "idle", synthetic |-> FALSE, waited |-> 0]
        /\ \/ health' = [fresh |-> TRUE, outcome |-> "published"]
           \/ health' = [health EXCEPT !.outcome = "published"]
    BY <1>6 DEF Nav!Mined, Nav!Idle
  <2>2. pub' \in Publisher /\ pub'.at = "idle" /\ pub'.waited = 0 /\ pub'.synthetic = FALSE
    BY <2>1 DEF Publisher
  <2>3. CASE health' = [fresh |-> TRUE, outcome |-> "published"]
    BY <2>1, <2>2, <2>3 DEF Health, Outcomes
  <2>4. CASE health' = [health EXCEPT !.outcome = "published"]
    BY <2>1, <2>2, <2>4 DEF Health, Outcomes
  <2> QED BY <2>1, <2>3, <2>4
<1> QED BY Zenon, <1>1, <1>2, <1>3, <1>4, <1>5, <1>6

LEMMA PublisherKeepsTypes ==
  ASSUME NEW c, Nav(c)!RefreshAssumption, NavTyped(c), PublisherSide(c)
  PROVE  NavTyped(c)'
<1>1. c.Interval \in Nat /\ c.MaxDelay \in Nat
  BY DEF Nav!RefreshAssumption
<1>2. UNCHANGED <<fedAge, worker, fetchDue>> /\ navAge' \in {0, navAge} /\ rowAge' \in {0, rowAge}
  BY DEF PublisherSide, Nav!PublisherStep, Nav!Begin, Nav!View, Nav!Mirror, Nav!Decide, Nav!Send, Nav!Mined,
       Nav!PublisherRestarts, Nav!Worked, Nav!rows
<1>3. navAge' \in Nat /\ rowAge' \in Nat /\ fedAge' \in Nat
  BY <1>2 DEF NavTyped
<1>0. pub \in Publisher /\ health \in Health
  BY DEF NavTyped, Publisher, Health
<1>4. /\ health' \in Health /\ timer' \in Nat /\ pub' \in Publisher
      /\ pub'.at = "idle" => timer' <= c.Interval
      /\ pub'.at # "idle" => timer' + pub'.waited = c.Interval /\ pub'.waited <= c.MaxDelay
      /\ pub'.at \in Cycling => pub'.waited = 0
  <2>1. CASE Nav(c)!PublisherRestarts
    BY <1>1, <2>1 DEF Nav!PublisherRestarts, Nav!Idle, Nav!NoStatus, Publisher, Health, Cycling, Outcomes
  <2>2. CASE Nav(c)!Begin
    <3>1. /\ pub' \in Publisher /\ health' \in Health /\ pub'.waited = 0 /\ timer' = c.Interval
      BY <1>0, <2>2, NavSteps
    <3> QED BY <1>1, <3>1
  <2>3. CASE Nav(c)!View \/ Nav(c)!Mirror \/ Nav(c)!Decide \/ Nav(c)!Send \/ Nav(c)!Mined
    <3>1. /\ health' \in Health /\ timer' = timer /\ pub' \in Publisher /\ pub.at # "idle"
          /\ \/ pub'.at = "idle"
             \/ pub'.at # "idle" /\ pub'.waited = pub.waited /\ pub.at \in Cycling
      BY <1>0, <2>3, NavSteps DEF Cycling
    <3> QED BY <1>1, <3>1 DEF NavTyped, Cycling
  <2> QED BY <2>1, <2>2, <2>3 DEF PublisherSide, Nav!PublisherStep
<1> QED BY <1>2, <1>3, <1>4 DEF NavTyped, Publisher, Health

LEMMA PublisherKeepsRows ==
  ASSUME NEW c, Nav(c)!RefreshAssumption, RowsRecent(c), PublisherSide(c) PROVE RowsRecent(c)'
<1>1. /\ UNCHANGED <<feed, worker, fetchDue>> /\ rowAge' \in {0, rowAge} /\ navAge' \in {0, navAge}
      /\ newest' \in {newest, "publisher"}
  BY DEF PublisherSide, Nav!PublisherStep, Nav!Begin, Nav!View, Nav!Mirror, Nav!Decide, Nav!Send, Nav!Mined,
       Nav!PublisherRestarts, Nav!Worked, Nav!rows
<1>2. c.Interval \in Nat
  BY DEF Nav!RefreshAssumption
<1> QED BY <1>1, <1>2 DEF RowsRecent

LEMMA PublisherKeepsHealth ==
  ASSUME NEW c, Nav(c)!RefreshAssumption, NavTyped(c), RowsRecent(c), HealthInv(c), PublisherSide(c)
  PROVE  HealthInv(c)'
<1>1. c.Interval \in Nat /\ pub \in Publisher /\ health \in Health
  BY DEF Nav!RefreshAssumption, NavTyped, Publisher, Health
<1>2. CASE Nav(c)!Begin
  <2>1. \/ pub'.at = "view"
        \/ pub'.at = "idle" /\ navAge' = navAge /\ timer' = c.Interval /\ health'.outcome = "db-stale" /\ navAge = 0
    BY <1>1, <1>2, NavSteps DEF RowsRecent
  <2> QED BY <1>1, <2>1 DEF HealthInv
<1>3. CASE Nav(c)!View \/ Nav(c)!Mirror \/ Nav(c)!Send
  <2>1. pub'.at # "idle" \/ health'.outcome = "error"
    BY <1>1, <1>3, NavSteps
  <2> QED BY <2>1 DEF HealthInv
<1>4. CASE Nav(c)!Decide
  <2>1. \/ pub'.at = "send"
        \/ timer' = timer /\ navAge' = navAge /\ navAge < 2 * c.Interval /\ health'.outcome = "fresh"
           /\ pub.at = "decide"
    BY <1>1, <1>4, NavSteps
  <2>2. timer' = timer /\ navAge' = navAge /\ navAge < 2 * c.Interval /\ pub.at = "decide"
          => navAge' + timer' <= 3 * c.Interval
    BY <1>1 DEF NavTyped, Cycling
  <2> QED BY <2>1, <2>2 DEF HealthInv
<1>5. CASE Nav(c)!Mined
  <2>1. timer' = timer /\ navAge' = 0 /\ health'.outcome = "published"
    BY <1>1, <1>5, NavSteps
  <2>2. navAge' + timer' <= 3 * c.Interval
    BY <1>1, <2>1 DEF NavTyped
  <2> QED BY <2>1, <2>2 DEF HealthInv
<1>6. CASE Nav(c)!PublisherRestarts
  BY <1>6 DEF Nav!PublisherRestarts, Nav!NoStatus, HealthInv
<1> QED BY <1>2, <1>3, <1>4, <1>5, <1>6 DEF PublisherSide, Nav!PublisherStep

LEMMA PublisherKeepsFresh ==
  ASSUME NEW c, Nav(c)!RefreshAssumption, NavSure(c), NavTyped(c), RowsRecent(c), FreshInv(c), PublisherSide(c)
  PROVE  FreshInv(c)'
<1>1. c.Interval \in Nat /\ pub \in Publisher /\ health \in Health
  BY DEF Nav!RefreshAssumption, NavTyped, Publisher, Health
<1>2. ~Nav(c)!Fault("rpc") /\ "rpc" \notin c.Faults
  BY DEF Nav!Fault, NavSure
<1>3. CASE Nav(c)!Begin
  <2>1. /\ pub.at = "idle" /\ timer = 0 /\ navAge' = navAge /\ timer' = c.Interval
        /\ pub'.at = "view" \/ (pub'.at = "idle" /\ navAge = 0)
    BY <1>1, <1>3, NavSteps DEF RowsRecent
  <2> QED BY <1>1, <2>1 DEF FreshInv, NavTyped, Cycling
<1>4. CASE Nav(c)!View \/ Nav(c)!Mirror
  <2>1. navAge' = navAge /\ pub.at \in Cycling /\ pub'.at \in Cycling
    BY <1>1, <1>2, <1>4, NavSteps DEF Cycling
  <2> QED BY <2>1 DEF FreshInv, Cycling
<1>5. CASE Nav(c)!Decide
  <2>1. /\ timer' = timer /\ navAge' = navAge /\ pub.at = "decide"
        /\ pub'.at = "send" \/ (pub'.at = "idle" /\ navAge < 2 * c.Interval)
    BY <1>1, <1>5, NavSteps
  <2> QED BY <1>1, <2>1 DEF FreshInv, NavTyped, Cycling
<1>6. CASE Nav(c)!Send
  <2>1. navAge' = navAge /\ pub.at = "send" /\ pub'.at = "sent" /\ pub'.waited = pub.waited
    BY <1>1, <1>2, <1>6, NavSteps
  <2> QED BY <1>1, <2>1 DEF FreshInv, NavTyped, Cycling
<1>7. CASE Nav(c)!Mined
  <2>1. timer' = timer /\ navAge' = 0 /\ pub'.at = "idle" /\ pub.at = "sent"
    BY <1>1, <1>7, NavSteps
  <2> QED BY <1>1, <2>1 DEF FreshInv, NavTyped, Cycling
<1>8. CASE Nav(c)!PublisherRestarts
  <2>1. pub'.at = "idle" /\ timer' = 0 /\ navAge' = (IF pub.at = "sent" THEN 0 ELSE navAge)
    BY <1>2, <1>8 DEF Nav!PublisherRestarts, Nav!Idle
  <2>2. pub.at # "sent" => navAge <= 3 * c.Interval
    BY <1>1 DEF FreshInv, NavTyped, Cycling
  <2>3. navAge' + timer' <= 3 * c.Interval
    BY <1>1, <2>1, <2>2 DEF NavTyped
  <2> QED BY <2>1, <2>3 DEF FreshInv, Cycling
<1> QED BY <1>3, <1>4, <1>5, <1>6, <1>7, <1>8 DEF PublisherSide, Nav!PublisherStep

LEMMA PublisherKeepsHeard ==
  ASSUME NEW c, Nav(c)!RefreshAssumption, NavTyped(c), HeardInv(c), PublisherSide(c) PROVE HeardInv(c)'
<1>1. UNCHANGED <<fedAge, worker>>
  BY DEF PublisherSide, Nav!PublisherStep, Nav!Begin, Nav!View, Nav!Mirror, Nav!Decide, Nav!Send, Nav!Mined,
       Nav!PublisherRestarts, Nav!Worked
<1>2. ~Nav(c)!Mirror
  BY DEF Nav!Mirror, HeardInv
<1>3. UNCHANGED <<newest, rowAge>>
  BY <1>2 DEF PublisherSide, Nav!PublisherStep, Nav!Begin, Nav!View, Nav!Decide, Nav!Send, Nav!Mined,
       Nav!PublisherRestarts, Nav!rows
<1>4. c.Interval \in Nat /\ pub \in Publisher /\ health \in Health
  BY DEF Nav!RefreshAssumption, NavTyped, Publisher, Health
<1>5. CASE Nav(c)!Begin
  <2>1. pub'.synthetic = FALSE /\ (pub'.at = "idle" \/ (pub'.at = "view" /\ rowAge <= 4 * c.Interval))
    BY <1>4, <1>5, NavSteps DEF HeardInv
  <2>2. rowAge <= 4 * c.Interval => fedAge <= 4 * c.Interval
    BY <1>4 DEF HeardInv, NavTyped
  <2> QED BY <1>1, <1>3, <2>1, <2>2 DEF HeardInv, Cycling
<1>6. CASE Nav(c)!View \/ Nav(c)!Decide
  <2>1. pub'.synthetic = FALSE /\ (pub'.at = "idle" \/ (pub.at \in Cycling /\ pub'.at \in {"decide", "send"}))
    BY <1>4, <1>6, NavSteps DEF HeardInv, Cycling
  <2> QED BY <1>1, <1>3, <2>1 DEF HeardInv, Cycling
<1>7. CASE Nav(c)!Send
  <2>1. /\ pub'.synthetic = FALSE /\ pub.at = "send"
        /\ pub'.at = "idle" \/ (pub'.at = "sent" /\ pub'.waited = pub.waited)
    BY <1>4, <1>7, NavSteps DEF HeardInv
  <2>2. pub'.at = "sent" => fedAge <= 4 * c.Interval + pub'.waited
    BY <1>4, <2>1 DEF HeardInv, NavTyped, Cycling
  <2> QED BY <1>1, <1>3, <2>1, <2>2 DEF HeardInv, Cycling
<1>8. CASE Nav(c)!Mined \/ Nav(c)!PublisherRestarts
  <2>1. pub'.synthetic = FALSE /\ pub'.at = "idle"
    BY <1>8 DEF Nav!Mined, Nav!PublisherRestarts, Nav!Idle
  <2> QED BY <1>1, <1>3, <2>1 DEF HeardInv, Cycling
<1> QED BY <1>2, <1>5, <1>6, <1>7, <1>8 DEF PublisherSide, Nav!PublisherStep

LEMMA NavSides == ASSUME NEW c, Nav(c)!Next PROVE WorkerSide(c) \/ PublisherSide(c) \/ Nav(c)!Tick
BY DEF Nav!Next, WorkerSide, PublisherSide

LEMMA NavStutters ==
  ASSUME NEW c, UNCHANGED navVars
  PROVE  /\ NavTyped(c) => NavTyped(c)'
         /\ HealthInv(c) => HealthInv(c)'
         /\ FreshInv(c) => FreshInv(c)'
         /\ RowsRecent(c) => RowsRecent(c)'
         /\ HeardInv(c) => HeardInv(c)'
BY DEF navVars, NavTyped, HealthInv, FreshInv, RowsRecent, HeardInv

HealthyInv(c) == NavTyped(c) /\ RowsRecent(c) /\ HealthInv(c)
ServedInv(c) == NavTyped(c) /\ RowsRecent(c) /\ FreshInv(c)

LEMMA HealthySteps ==
  ASSUME NEW c, Nav(c)!RefreshAssumption, NavSteady(c), HealthyInv(c), Nav(c)!Next PROVE HealthyInv(c)'
BY NavSides, WorkerKeeps, TickKeeps, PublisherKeepsTypes, PublisherKeepsRows, PublisherKeepsHealth DEF HealthyInv

LEMMA ServedSteps ==
  ASSUME NEW c, Nav(c)!RefreshAssumption, NavSure(c), ServedInv(c), Nav(c)!Next PROVE ServedInv(c)'
<1>1. NavSteady(c)
  BY DEF NavSure, NavSteady
<1> QED BY <1>1, NavSides, WorkerKeeps, TickKeeps, PublisherKeepsTypes, PublisherKeepsRows, PublisherKeepsFresh
        DEF ServedInv

LEMMA HealthyHolds ==
  ASSUME NEW c, Nav(c)!RefreshAssumption, HealthyInv(c) PROVE Nav(c)!HealthTruthful
<1>1. c.Interval \in Nat
  BY DEF Nav!RefreshAssumption
<1> QED BY <1>1 DEF HealthyInv, HealthInv, NavTyped, Nav!HealthTruthful, Nav!HealthOk, Nav!Window, Outcomes

LEMMA ServedHolds ==
  ASSUME NEW c, Nav(c)!RefreshAssumption, ServedInv(c) PROVE Nav(c)!FreshWhileFed
<1>1. c.Interval \in Nat /\ c.MaxDelay \in Nat /\ c.MaxDelay <= c.Interval
  BY DEF Nav!RefreshAssumption
<1>2. navAge <= 4 * c.Interval
  BY <1>1 DEF ServedInv, FreshInv, NavTyped, Cycling
<1> QED BY <1>1, <1>2 DEF ServedInv, NavTyped, Nav!FreshWhileFed, Nav!Fresh, Nav!Window

NavInv ==
  /\ part = "nav" => HealthyInv(NavOf)
  /\ part = "fed" => ServedInv(FedNav)

LEMMA FedIsSure == Nav(FedNav)!RefreshAssumption /\ NavSure(FedNav) /\ FedNav.Initial # {"feed"}
<1>1. /\ FedNav.Interval = 4 /\ FedNav.MaxDelay = 2 /\ FedNav.BackfillAge = 10 /\ FedNav.Initial = {"none", "feed"}
      /\ FedNav.Faults = {"restart", "worker"} /\ FedNav.MaxFaults = 2
  BY DEF FedNav, FaultyNav
<1> QED BY <1>1 DEF Nav!RefreshAssumption, NavSure

\* While the feed answers: where no call fails the NAV on chain never goes stale,
\* and whatever fails, /health does not call a stale one ok.
THEOREM NavServedAlways == ASSUME NavSteady(NavOf) PROVE Services => []NavServed
<1>0. Nav(NavOf)!RefreshAssumption
  BY ConstantsAssumption DEF ConstantsAssumption
<1>1. ServicesInit => NavInv
  <2> SUFFICES ASSUME ServicesInit PROVE NavInv
    OBVIOUS
  <2>1. Nav(NavOf)!Init
    BY DEF ServicesInit
  <2>2. HealthyInv(NavOf)
    BY <1>0, <2>1, NavStarts DEF HealthyInv
  <2>3. ASSUME part = "fed" PROVE Nav(FedNav)!Init
    <3>1. FedNav.Initial = {"none", "feed"} /\ NavOf.Initial \subseteq {"none", "feed"}
      BY <1>0 DEF FedNav, FaultyNav, Nav!RefreshAssumption
    <3>2. PICK kind \in NavOf.Initial : newest = kind /\ fed = (kind = "feed")
      BY <2>1 DEF Nav!Init
    <3>3. kind \in FedNav.Initial
      BY <3>1
    <3> QED BY <2>1, <3>2, <3>3 DEF Nav!Init, Nav!Idle, Nav!NoStatus
  <2> QED BY <2>2, <2>3, FedIsSure, NavStarts DEF NavInv, ServedInv
<1>2. NavInv /\ [ServicesNext]_servicesVars => NavInv'
  <2> SUFFICES ASSUME NavInv, [ServicesNext]_servicesVars PROVE NavInv'
    OBVIOUS
  <2>1. part' = part
    BY DEF ServicesNext, Follows, servicesVars
  <2>2. ASSUME part = "fed" PROVE ServedInv(FedNav)'
    <3>1. UNCHANGED navVars \/ Nav(FedNav)!Next
      BY <2>2 DEF ServicesNext, Follows, Rest, servicesVars
    <3>2. ServedInv(FedNav)
      BY <2>2 DEF NavInv
    <3>3. CASE UNCHANGED navVars
      BY <3>2, <3>3, NavStutters DEF ServedInv
    <3> QED BY <3>1, <3>2, <3>3, FedIsSure, ServedSteps
  <2>3. ASSUME part = "nav" PROVE HealthyInv(NavOf)'
    <3>1. UNCHANGED navVars \/ Nav(NavOf)!Next
      BY <2>3 DEF ServicesNext, Follows, Rest, servicesVars
    <3>2. HealthyInv(NavOf)
      BY <2>3 DEF NavInv
    <3>3. CASE UNCHANGED navVars
      BY <3>2, <3>3, NavStutters DEF HealthyInv
    <3> QED BY <1>0, <3>1, <3>2, <3>3, HealthySteps
  <2> QED BY <2>1, <2>2, <2>3 DEF NavInv
<1>3. NavInv => NavServed
  BY <1>0, FedIsSure, HealthyHolds, ServedHolds DEF NavInv, NavServed
<1> QED BY <1>1, <1>2, <1>3, PTL DEF Services

RenewInv == part = "nav" => NavTyped(NavOf) /\ HeardInv(NavOf)

\* Once the worker has a row of the feed, no NAV is renewed whose feed has been
\* silent for longer than the liveness gate and a transaction allow, whatever
\* fails and for whatever time.
THEOREM RenewedOnlyWhileHeard ==
  ASSUME NavOf.Initial = {"feed"}
  PROVE  Services => [][part = "nav" => Nav(NavOf)!RenewedWhileHeard]_navVars
<1>0. Nav(NavOf)!RefreshAssumption
  BY ConstantsAssumption DEF ConstantsAssumption
<1>1. ServicesInit => RenewInv
  BY <1>0, NavStarts DEF ServicesInit, RenewInv
<1>2. RenewInv /\ [ServicesNext]_servicesVars => RenewInv'
  <2> SUFFICES ASSUME RenewInv, [ServicesNext]_servicesVars, part' = "nav" PROVE NavTyped(NavOf)' /\ HeardInv(NavOf)'
    BY DEF RenewInv
  <2>1. part = "nav"
    BY DEF ServicesNext, Follows, servicesVars
  <2>2. UNCHANGED navVars \/ Nav(NavOf)!Next
    BY <2>1 DEF ServicesNext, Follows, Rest, servicesVars
  <2>3. NavTyped(NavOf) /\ HeardInv(NavOf)
    BY <2>1 DEF RenewInv
  <2> QED BY <1>0, <2>2, <2>3, NavStutters, NavSides, WorkerKeeps, TickKeeps, PublisherKeepsTypes, PublisherKeepsHeard
<1>3. RenewInv /\ [ServicesNext]_servicesVars => [part = "nav" => Nav(NavOf)!RenewedWhileHeard]_navVars
  <2> SUFFICES ASSUME RenewInv, [ServicesNext]_servicesVars, part = "nav", ~UNCHANGED navVars, navAge' = 0, navAge # 0
               PROVE  fedAge <= Nav(NavOf)!Liveness + NavOf.MaxDelay
    BY DEF Nav!RenewedWhileHeard
  <2>1. Nav(NavOf)!Next /\ NavTyped(NavOf) /\ HeardInv(NavOf)
    BY DEF ServicesNext, Follows, Rest, servicesVars, RenewInv
  <2>2. ~WorkerSide(NavOf) /\ ~Nav(NavOf)!Tick
    BY <1>0, <2>1, WorkerKeeps, TickKeeps
  <2>3. PublisherSide(NavOf)
    BY <2>1, <2>2, NavSides
  <2>4. pub.at = "sent"
    BY <2>3 DEF PublisherSide, Nav!PublisherStep, Nav!Begin, Nav!View, Nav!Mirror, Nav!Decide, Nav!Send, Nav!Mined,
         Nav!PublisherRestarts
  <2>5. NavOf.Interval \in Nat /\ NavOf.MaxDelay \in Nat
    BY <1>0 DEF Nav!RefreshAssumption
  <2> QED BY <2>1, <2>4, <2>5 DEF HeardInv, NavTyped, Nav!Liveness
<1> QED BY <1>1, <1>2, <1>3, PTL DEF Services

-----------------------------------------------------------------------------
(* The checkout *)

Rows == {"pending", "funded", "wrapped", "purchased", "settled", "expired", "failed"}

\* What a row says once it has said e.
Since(e) ==
  IF e = "funded" THEN {"funded", "wrapped", "purchased", "settled"}
  ELSE IF e = "wrapped" THEN {"wrapped", "purchased", "settled"}
  ELSE IF e = "purchased" THEN {"purchased", "settled"}
  ELSE IF e = "settled" THEN {"settled"}
  ELSE {}

PageRec(c) ==
  [of : c.Sessions, doing : {"closed", "idle", "funding", "wrapping", "buying", "bought", "reporting"},
   seen : Rows, tx : Nat]
Request(c) ==
  [tab : c.Tabs, of : c.Sessions, to : {"funded", "wrapped", "purchased"}, tx : Nat,
   at : {"sent", "checked", "stored"}, expected : Rows, heard : BOOLEAN]

\* The purchase tx was made for session s.
PaidFor(tx, s) == tx \in DOMAIN purchases /\ purchases[tx] = s

CheckoutTyped(c) ==
  /\ sessionStatus \in [c.Sessions -> Rows] /\ paidBy \in [c.Sessions -> Nat]
  /\ tabs \in [c.Tabs -> PageRec(c)] /\ handlers \subseteq Request(c)
  /\ purchases \in Seq(c.Sessions)
  /\ announced \in [c.Sessions -> [Rows -> Nat]]

\* A row names a purchase when it says so, and then one made for its session.
RowPaid(s) ==
  /\ paidBy[s] # 0 => sessionStatus[s] \in {"purchased", "settled"}
  /\ sessionStatus[s] \in {"purchased", "settled"} => PaidFor(paidBy[s], s)

\* What was announced has been reached.
ToldOnce(s, e) ==
  announced[s][e] # 0 => announced[s][e] = 1 /\ sessionStatus[s] \in Since(e)

\* A request carries a purchase of its session or none, decided on an edge of
\* the machine, and once stored is the one that will announce its step.
RequestFine(c, h) ==
  /\ IF h.to = "purchased" THEN PaidFor(h.tx, h.of) ELSE h.tx = 0
  /\ h.at = "checked" => h.to \in Checkout(c)!Forward[h.expected]
  /\ h.at = "stored" => sessionStatus[h.of] \in Since(h.to) /\ announced[h.of][h.to] = 0
Same(h, g) == h.of = g.of /\ h.to = g.to
OneTeller(H) == \A h, g \in H : h.at = "stored" /\ g.at = "stored" /\ Same(h, g) => h = g

PageFine(p) == p.doing = "bought" => PaidFor(p.tx, p.of)

CheckoutInv(c) ==
  /\ CheckoutTyped(c)
  /\ \A s \in c.Sessions : RowPaid(s) /\ \A e \in Rows : ToldOnce(s, e)
  /\ \A h \in handlers : RequestFine(c, h)
  /\ OneTeller(handlers)
  /\ \A t \in c.Tabs : PageFine(tabs[t])

LEMMA EdgesAre ==
  ASSUME NEW c
  PROVE  /\ Checkout(c)!Statuses = Rows
         /\ Checkout(c)!Forward["pending"] = {"funded", "failed"}
         /\ Checkout(c)!Forward["funded"] = {"wrapped", "failed"}
         /\ Checkout(c)!Forward["wrapped"] = {"purchased", "failed"}
         /\ Checkout(c)!Forward["purchased"] = {"settled", "failed"}
         /\ Checkout(c)!Forward["settled"] = {} /\ Checkout(c)!Forward["expired"] = {}
         /\ Checkout(c)!Forward["failed"] = {}
BY DEF Checkout!Statuses, Checkout!Forward, Checkout!Edges, Rows

\* An edge leads from what a row does not say yet to what it then has said.
LEMMA EdgeLeads ==
  ASSUME NEW c, NEW from \in Rows, NEW to \in {"funded", "wrapped", "purchased", "settled"},
         to \in Checkout(c)!Forward[from]
  PROVE  /\ from \notin Since(to) /\ to \in Since(to) /\ from # "settled"
         /\ \A e \in Rows : from \in Since(e) => to \in Since(e)
         /\ to = "purchased" <=> from = "wrapped"
         /\ to = "settled" <=> from = "purchased"
<1> USE EdgesAre DEF Rows, Since
<1>1. CASE from = "pending"
  BY <1>1
<1>2. CASE from = "funded"
  BY <1>2
<1>3. CASE from = "wrapped"
  BY <1>3
<1>4. CASE from = "purchased"
  BY <1>4
<1>5. CASE from \in {"settled", "expired", "failed"}
  BY <1>5
<1> QED BY <1>1, <1>2, <1>3, <1>4, <1>5

LEMMA CheckoutStarts == ASSUME NEW c, Checkout(c)!Init PROVE CheckoutInv(c)
<1>1. /\ sessionStatus = [s \in c.Sessions |-> "pending"] /\ paidBy = [s \in c.Sessions |-> 0]
      /\ tabs \in [c.Tabs -> [of : c.Sessions, doing : {"closed"}, seen : {"pending"}, tx : {0}]]
      /\ handlers = {} /\ purchases = <<>>
      /\ announced = [s \in c.Sessions |-> [e \in Rows |-> 0]]
  BY EdgesAre DEF Checkout!Init
<1>2. CheckoutTyped(c)
  <2>1. tabs \in [c.Tabs -> PageRec(c)]
    BY <1>1 DEF PageRec, Rows
  <2>2. announced \in [c.Sessions -> [Rows -> Nat]]
    BY <1>1
  <2> QED BY <1>1, <2>1, <2>2 DEF CheckoutTyped, Rows
<1>3. ASSUME NEW s \in c.Sessions PROVE RowPaid(s) /\ \A e \in Rows : ToldOnce(s, e)
  BY <1>1 DEF RowPaid, ToldOnce
<1>4. ASSUME NEW t \in c.Tabs PROVE PageFine(tabs[t])
  BY <1>1 DEF PageFine
<1> QED BY <1>1, <1>2, <1>3, <1>4 DEF CheckoutInv, OneTeller

\* The chain only grows.
Grows(c) == purchases' = purchases \/ \E s \in c.Sessions : purchases' = Append(purchases, s)

LEMMA PaidForKept ==
  ASSUME NEW c, purchases \in Seq(c.Sessions), Grows(c)
  PROVE  /\ purchases' \in Seq(c.Sessions)
         /\ \A tx, s : PaidFor(tx, s) => PaidFor(tx, s)'
<1>1. CASE purchases' = purchases
  BY <1>1 DEF PaidFor
<1>2. ASSUME NEW s \in c.Sessions, purchases' = Append(purchases, s)
      PROVE  /\ purchases' \in Seq(c.Sessions)
             /\ \A tx, q : PaidFor(tx, q) => PaidFor(tx, q)'
  <2>1. purchases' \in Seq(c.Sessions)
    BY <1>2, AppendProperties
  <2>2. ASSUME NEW tx, NEW q, PaidFor(tx, q) PROVE PaidFor(tx, q)'
    <3>1. tx \in 1 .. Len(purchases) /\ purchases[tx] = q
      BY <2>2 DEF PaidFor
    <3>2. Len(purchases') = Len(purchases) + 1 /\ purchases'[tx] = purchases[tx] /\ Len(purchases) \in Nat
      BY <1>2, <3>1, AppendProperties
    <3>3. DOMAIN purchases' = 1 .. Len(purchases')
      BY <2>1
    <3> QED BY <3>1, <3>2, <3>3 DEF PaidFor
  <2> QED BY <2>1, <2>2
<1> QED BY <1>1, <1>2 DEF Grows

\* Steps that leave the rows and what was announced alone.
LEMMA QuietKeeps ==
  ASSUME NEW c, CheckoutInv(c), UNCHANGED <<sessionStatus, paidBy, announced>>, Grows(c),
         handlers' \subseteq Request(c), \A h \in handlers' : RequestFine(c, h)', OneTeller(handlers'),
         tabs' \in [c.Tabs -> PageRec(c)], \A t \in c.Tabs : PageFine(tabs[t])'
  PROVE  CheckoutInv(c)'
<1>1. purchases' \in Seq(c.Sessions) /\ \A tx, s : PaidFor(tx, s) => PaidFor(tx, s)'
  BY PaidForKept DEF CheckoutInv, CheckoutTyped
<1>2. CheckoutTyped(c)'
  BY <1>1 DEF CheckoutInv, CheckoutTyped
<1>3. ASSUME NEW s \in c.Sessions PROVE RowPaid(s)' /\ \A e \in Rows : ToldOnce(s, e)'
  BY <1>1 DEF CheckoutInv, RowPaid, ToldOnce
<1> QED BY <1>2, <1>3 DEF CheckoutInv

\* A request kept, or kept unheard, stays fine.
LEMMA RequestKept ==
  ASSUME NEW c, CheckoutInv(c), UNCHANGED <<sessionStatus, paidBy, announced>>, Grows(c), NEW h \in handlers
  PROVE  RequestFine(c, h)' /\ RequestFine(c, [h EXCEPT !.heard = FALSE])' /\ [h EXCEPT !.heard = FALSE] \in Request(c)
<1>1. RequestFine(c, h) /\ h \in Request(c) /\ (PaidFor(h.tx, h.of) => PaidFor(h.tx, h.of)')
  BY PaidForKept DEF CheckoutInv, CheckoutTyped
<1>2. RequestFine(c, h)'
  BY <1>1 DEF RequestFine
<1> DEFINE g == [h EXCEPT !.heard = FALSE]
<1>3. /\ g \in Request(c) /\ g.to = h.to /\ g.tx = h.tx /\ g.of = h.of /\ g.at = h.at /\ g.expected = h.expected
  BY <1>1 DEF Request
<1> HIDE DEF g
<1>4. RequestFine(c, g)'
  BY <1>2, <1>3 DEF RequestFine
<1> QED BY <1>2, <1>3, <1>4 DEF g

LEMMA UnheardKept ==
  ASSUME NEW c, CheckoutInv(c), UNCHANGED <<sessionStatus, paidBy, announced>>, Grows(c), NEW t
  PROVE  /\ Checkout(c)!Unheard(t) \subseteq Request(c)
         /\ \A h \in Checkout(c)!Unheard(t) : RequestFine(c, h)'
         /\ OneTeller(Checkout(c)!Unheard(t))
<1> DEFINE U(h) == IF h.tab = t THEN [h EXCEPT !.heard = FALSE] ELSE h
<1>1. Checkout(c)!Unheard(t) = {U(h) : h \in handlers}
  BY DEF Checkout!Unheard
<1>2. ASSUME NEW h \in handlers
      PROVE  U(h) \in Request(c) /\ RequestFine(c, U(h))' /\ U(h).at = h.at /\ U(h).of = h.of /\ U(h).to = h.to
  <2>1. h \in Request(c)
    BY DEF CheckoutInv, CheckoutTyped
  <2>2. CASE h.tab = t
    <3> DEFINE g == [h EXCEPT !.heard = FALSE]
    <3>1. g \in Request(c) /\ RequestFine(c, g)'
      BY RequestKept
    <3>2. g.at = h.at /\ g.of = h.of /\ g.to = h.to
      BY <2>1 DEF Request
    <3>3. U(h) = g
      BY <2>2
    <3> HIDE DEF g, U
    <3> QED BY <3>1, <3>2, <3>3
  <2>3. CASE h.tab # t
    BY <2>1, <2>3, RequestKept
  <2> QED BY <2>2, <2>3
<1>3. ASSUME NEW h \in handlers, NEW g \in handlers, U(h).at = "stored", U(g).at = "stored", Same(U(h), U(g))
      PROVE  U(h) = U(g)
  <2> HIDE DEF U
  <2>1. h.at = "stored" /\ g.at = "stored" /\ Same(h, g)
    BY <1>2, <1>3 DEF Same
  <2> QED BY <2>1 DEF CheckoutInv, OneTeller
<1> HIDE DEF U
<1> QED BY <1>1, <1>2, <1>3 DEF OneTeller

\* A request that has yet to be decided on may come and go.
LEMMA TellerKept ==
  ASSUME NEW H, OneTeller(H), NEW G \in SUBSET H, NEW N, \A h \in N : h.at # "stored" PROVE OneTeller(G \cup N)
BY DEF OneTeller


\* Pages that are not told of a purchase do not take one for theirs.
LEMMA PagesKept ==
  ASSUME NEW c, CheckoutInv(c), Grows(c), tabs' \in [c.Tabs -> PageRec(c)],
         \A t \in c.Tabs : tabs'[t].doing = "bought" => tabs'[t].tx = tabs[t].tx /\ tabs'[t].of = tabs[t].of
                                                        /\ tabs[t].doing = "bought"
  PROVE  \A t \in c.Tabs : PageFine(tabs[t])'
BY PaidForKept DEF CheckoutInv, CheckoutTyped, PageFine

LEMMA SendKeeps ==
  ASSUME NEW c, CheckoutInv(c), NEW t \in c.Tabs,
         NEW to \in {"funded", "wrapped", "purchased"}, NEW tx \in Nat,
         NEW then \in {"funding", "wrapping", "reporting"},
         IF to = "purchased" THEN PaidFor(tx, tabs[t].of) ELSE tx = 0,
         Checkout(c)!Send(t, to, tx, then)
  PROVE  CheckoutInv(c)'
<1>2. tabs \in [c.Tabs -> PageRec(c)] /\ tabs[t] \in PageRec(c)
  BY DEF CheckoutInv, CheckoutTyped
<1>4. PICK new \in Request(c) :
        /\ new.at = "sent" /\ new.to = to /\ new.tx = tx /\ new.of = tabs[t].of
        /\ handlers' = Checkout(c)!Unheard(t) \cup {new}
  <2> DEFINE n == [tab |-> t, of |-> tabs[t].of, to |-> to, tx |-> tx, at |-> "sent", expected |-> "pending", heard |-> TRUE]
  <2>1. n \in Request(c) /\ n.at = "sent" /\ n.to = to /\ n.tx = tx /\ n.of = tabs[t].of
    BY <1>2 DEF Request, PageRec, Rows
  <2>2. handlers' = Checkout(c)!Unheard(t) \cup {n}
    BY DEF Checkout!Send
  <2> HIDE DEF n
  <2> QED BY <2>1, <2>2
<1>1. /\ tabs' = [tabs EXCEPT ![t].doing = then]
      /\ UNCHANGED <<sessionStatus, paidBy, purchases, announced>>
  BY DEF Checkout!Send
<1>3. Grows(c)
  BY <1>1 DEF Grows
<1>5. RequestFine(c, new)'
  <2>1. PaidFor(tx, new.of) => PaidFor(tx, new.of)'
    BY <1>1 DEF PaidFor
  <2> QED BY <1>4, <2>1 DEF RequestFine
<1>6. /\ Checkout(c)!Unheard(t) \subseteq Request(c)
      /\ \A h \in Checkout(c)!Unheard(t) : RequestFine(c, h)'
      /\ OneTeller(Checkout(c)!Unheard(t))
  BY <1>1, <1>3, UnheardKept
<1>7. handlers' \subseteq Request(c) /\ \A h \in handlers' : RequestFine(c, h)'
  BY <1>1, <1>4, <1>5, <1>6
<1>8. OneTeller(handlers')
  BY <1>1, <1>4, <1>6, TellerKept
<1> DEFINE page == [tabs[t] EXCEPT !.doing = then]
<1>9. page \in PageRec(c) /\ page.doing = then
  BY <1>2 DEF PageRec
<1>10. tabs' = [tabs EXCEPT ![t] = page]
  BY <1>1
<1> HIDE DEF page
<1>11. tabs' \in [c.Tabs -> PageRec(c)]
  BY <1>2, <1>9, <1>10
<1>12. \A q \in c.Tabs : PageFine(tabs[q])'
  <2>1. ASSUME NEW q \in c.Tabs, tabs'[q].doing = "bought" PROVE tabs'[q] = tabs[q]
    BY <1>2, <1>9, <1>10, <2>1
  <2> QED BY <1>3, <1>11, <2>1, PagesKept
<1> QED BY <1>1, <1>3, <1>7, <1>8, <1>11, <1>12, QuietKeeps

\* The requests are kept as they are.
LEMMA RequestsKept ==
  ASSUME NEW c, CheckoutInv(c), UNCHANGED <<sessionStatus, paidBy, announced>>, Grows(c), NEW G \in SUBSET handlers
  PROVE  G \subseteq Request(c) /\ (\A h \in G : RequestFine(c, h)') /\ OneTeller(G)
<1>1. \A h \in G : RequestFine(c, h)'
  BY RequestKept
<1> QED BY <1>1 DEF CheckoutInv, CheckoutTyped, OneTeller

LEMMA PageKeeps == ASSUME NEW c, CheckoutInv(c), NEW t \in c.Tabs, Checkout(c)!Page(t) PROVE CheckoutInv(c)'
<1>1. tabs \in [c.Tabs -> PageRec(c)] /\ tabs[t] \in PageRec(c) /\ PageFine(tabs[t])
      /\ sessionStatus \in [c.Sessions -> Rows] /\ purchases \in Seq(c.Sessions)
  BY DEF CheckoutInv, CheckoutTyped
<1>2. CASE Checkout(c)!ReportFunded(t)
  BY <1>2, SendKeeps DEF Checkout!ReportFunded
<1>3. CASE Checkout(c)!ReportWrapped(t)
  BY <1>3, SendKeeps DEF Checkout!ReportWrapped
<1>4. CASE Checkout(c)!ReportPurchased(t)
  <2>1. tabs[t].tx \in Nat /\ PaidFor(tabs[t].tx, tabs[t].of)
    BY <1>1, <1>4 DEF Checkout!ReportPurchased, PageRec, PageFine
  <2> QED BY <1>4, <2>1, SendKeeps DEF Checkout!ReportPurchased
<1>5. CASE Checkout(c)!Observe(t)
  <2> DEFINE page == [tabs[t] EXCEPT !.seen = sessionStatus[tabs[t].of],
                                     !.doing = IF tabs[t].doing = "closed" THEN "idle" ELSE tabs[t].doing]
  <2>1. tabs' = [tabs EXCEPT ![t] = page] /\ UNCHANGED <<sessionStatus, paidBy, handlers, purchases, announced>>
    BY <1>1, <1>5 DEF Checkout!Observe
  <2>2. page \in PageRec(c) /\ page.tx = tabs[t].tx /\ page.of = tabs[t].of
        /\ (page.doing = "bought" => tabs[t].doing = "bought")
    BY <1>1 DEF PageRec
  <2> HIDE DEF page
  <2>3. tabs' \in [c.Tabs -> PageRec(c)] /\ Grows(c)
    BY <1>1, <2>1, <2>2 DEF Grows
  <2>4. ASSUME NEW q \in c.Tabs, tabs'[q].doing = "bought"
        PROVE  tabs'[q].tx = tabs[q].tx /\ tabs'[q].of = tabs[q].of /\ tabs[q].doing = "bought"
    BY <1>1, <2>1, <2>2, <2>4
  <2>5. \A q \in c.Tabs : PageFine(tabs[q])'
    BY <2>3, <2>4, PagesKept
  <2>6. handlers' \subseteq Request(c) /\ (\A h \in handlers' : RequestFine(c, h)') /\ OneTeller(handlers')
    BY <2>1, <2>3, RequestsKept
  <2> QED BY <2>1, <2>3, <2>5, <2>6, QuietKeeps
<1>6. CASE Checkout(c)!Close(t)
  <2> DEFINE page == [tabs[t] EXCEPT !.doing = "closed", !.tx = 0]
  <2>1. /\ tabs' = [tabs EXCEPT ![t] = page] /\ UNCHANGED <<sessionStatus, paidBy, purchases, announced>>
        /\ handlers' = Checkout(c)!Unheard(t)
    BY <1>1, <1>6 DEF Checkout!Close
  <2>2. page \in PageRec(c) /\ page.doing = "closed"
    BY <1>1 DEF PageRec
  <2> HIDE DEF page
  <2>3. tabs' \in [c.Tabs -> PageRec(c)] /\ Grows(c)
    BY <1>1, <2>1, <2>2 DEF Grows
  <2>4. ASSUME NEW q \in c.Tabs, tabs'[q].doing = "bought" PROVE tabs'[q] = tabs[q]
    BY <1>1, <2>1, <2>2, <2>4
  <2>5. \A q \in c.Tabs : PageFine(tabs[q])'
    BY <2>3, <2>4, PagesKept
  <2> QED BY <2>1, <2>3, <2>5, UnheardKept, QuietKeeps
<1>7. CASE Checkout(c)!Purchase(t)
  <2>1. UNCHANGED <<sessionStatus, paidBy, handlers, announced>>
    BY <1>7 DEF Checkout!Purchase
  <2>2. PICK page \in PageRec(c) : tabs' = [tabs EXCEPT ![t] = page] /\ page.of = tabs[t].of
          /\ \/ /\ purchases' = Append(purchases, tabs[t].of)
                /\ page.tx = Len(purchases) + 1
             \/ purchases' = purchases /\ page.doing = "idle"
    <3>1. CASE /\ purchases' = Append(purchases, tabs[t].of)
               /\ tabs' = [tabs EXCEPT ![t].doing = "bought", ![t].tx = Len(purchases) + 1]
      <4> DEFINE page == [tabs[t] EXCEPT !.doing = "bought", !.tx = Len(purchases) + 1]
      <4>1. Len(purchases) + 1 \in Nat
        BY <1>1
      <4>2. page \in PageRec(c) /\ page.of = tabs[t].of /\ page.tx = Len(purchases) + 1
        BY <1>1, <4>1 DEF PageRec
      <4>3. tabs' = [tabs EXCEPT ![t] = page]
        BY <1>1, <3>1
      <4> HIDE DEF page
      <4> QED BY <3>1, <4>2, <4>3
    <3>2. CASE purchases' = purchases /\ tabs' = [tabs EXCEPT ![t].doing = "idle"]
      <4> DEFINE page == [tabs[t] EXCEPT !.doing = "idle"]
      <4>1. page \in PageRec(c) /\ page.of = tabs[t].of /\ page.doing = "idle"
        BY <1>1 DEF PageRec
      <4>2. tabs' = [tabs EXCEPT ![t] = page]
        BY <1>1, <3>2
      <4> HIDE DEF page
      <4> QED BY <3>2, <4>1, <4>2
    <3> QED BY <1>7, <3>1, <3>2 DEF Checkout!Purchase
  <2>3. tabs[t].of \in c.Sessions /\ tabs' \in [c.Tabs -> PageRec(c)]
    BY <1>1, <2>2 DEF PageRec
  <2>4. Grows(c)
    BY <2>2, <2>3 DEF Grows
  <2>5. ASSUME NEW q \in c.Tabs, tabs'[q].doing = "bought" PROVE PaidFor(tabs[q].tx, tabs[q].of)'
    <3>1. CASE q # t
      <4>1. tabs'[q] = tabs[q]
        BY <1>1, <2>2, <3>1
      <4>2. PaidFor(tabs[q].tx, tabs[q].of)
        BY <2>5, <4>1 DEF CheckoutInv, PageFine
      <4> QED BY <1>1, <2>4, <4>1, <4>2, PaidForKept
    <3>2. CASE q = t
      <4>1. tabs'[q] = page
        BY <1>1, <2>2, <3>2
      <4>2. purchases' = Append(purchases, tabs[t].of) /\ page.tx = Len(purchases) + 1
        BY <2>2, <2>5, <4>1
      <4>3. Len(purchases) \in Nat /\ Len(purchases') = Len(purchases) + 1
            /\ purchases'[Len(purchases) + 1] = tabs[t].of /\ DOMAIN purchases' = 1 .. Len(purchases')
        BY <1>1, <2>3, <4>2, AppendProperties
      <4> QED BY <2>2, <4>1, <4>2, <4>3 DEF PaidFor
    <3> QED BY <3>1, <3>2
  <2>6. \A q \in c.Tabs : PageFine(tabs[q])'
    BY <2>5 DEF PageFine
  <2>7. handlers' \subseteq Request(c) /\ (\A h \in handlers' : RequestFine(c, h)') /\ OneTeller(handlers')
    BY <2>1, <2>4, RequestsKept
  <2> QED BY <2>1, <2>3, <2>4, <2>6, <2>7, QuietKeeps
<1> QED BY <1>2, <1>3, <1>4, <1>5, <1>6, <1>7 DEF Checkout!Page

LEMMA AnsweredPages ==
  ASSUME NEW c, tabs \in [c.Tabs -> PageRec(c)], NEW h \in Request(c), NEW answer
  PROVE  /\ Checkout(c)!Answered(h, answer) \in [c.Tabs -> PageRec(c)]
         /\ \A t \in c.Tabs : Checkout(c)!Answered(h, answer)[t].doing = "bought" => Checkout(c)!Answered(h, answer)[t] = tabs[t]
<1> DEFINE doing == Checkout(c)!After(tabs[h.tab].doing, answer)
           tx == IF h.to = "purchased" THEN 0 ELSE tabs[h.tab].tx
           page == [tabs[h.tab] EXCEPT !.doing = doing, !.tx = tx]
<1>1. h.tab \in c.Tabs /\ tabs[h.tab] \in PageRec(c)
  BY DEF Request
<1>2. doing \in {"buying", "closed", "idle"}
  BY DEF Checkout!After
<1>3. tx \in Nat
  BY <1>1 DEF PageRec
<1>4. page \in PageRec(c) /\ page.doing # "bought"
  <2> HIDE DEF doing, tx
  <2> QED BY <1>1, <1>2, <1>3 DEF PageRec
<1>5. Checkout(c)!Answered(h, answer) = IF h.heard THEN [tabs EXCEPT ![h.tab] = page] ELSE tabs
  BY <1>1 DEF Checkout!Answered
<1> HIDE DEF page
<1> QED BY <1>1, <1>4, <1>5

LEMMA PublishedPages ==
  ASSUME NEW c, NEW p \in [c.Tabs -> PageRec(c)], NEW e \in Rows, NEW s
  PROVE  /\ Checkout(c)!Published(s, e, p) \in [c.Tabs -> PageRec(c)]
         /\ \A t \in c.Tabs : /\ Checkout(c)!Published(s, e, p)[t].doing = p[t].doing
                              /\ Checkout(c)!Published(s, e, p)[t].tx = p[t].tx
                              /\ Checkout(c)!Published(s, e, p)[t].of = p[t].of
<1>1. Checkout(c)!Published(s, e, p) =
        [t \in c.Tabs |-> IF p[t].of = s /\ p[t].doing # "closed" THEN [p[t] EXCEPT !.seen = e] ELSE p[t]]
  BY DEF Checkout!Published
<1>2. ASSUME NEW t \in c.Tabs
      PROVE  LET r == [p[t] EXCEPT !.seen = e] IN
             r \in PageRec(c) /\ r.doing = p[t].doing /\ r.tx = p[t].tx /\ r.of = p[t].of /\ p[t] \in PageRec(c)
  BY DEF PageRec
<1> QED BY <1>1, <1>2

\* A row moves along an edge, and names a purchase as it becomes purchased.
RowMove(c, s, to, tx) ==
  /\ s \in c.Sessions /\ to \in {"funded", "wrapped", "purchased", "settled"}
  /\ to \in Checkout(c)!Forward[sessionStatus[s]]
  /\ IF to = "purchased" THEN PaidFor(tx, s) ELSE tx = 0
  /\ sessionStatus' = [sessionStatus EXCEPT ![s] = to]
  /\ paidBy' = [paidBy EXCEPT ![s] = IF tx # 0 THEN tx ELSE paidBy[s]]
  /\ UNCHANGED purchases

LEMMA RowMoves ==
  ASSUME NEW c, CheckoutInv(c), NEW s, NEW to, NEW tx, RowMove(c, s, to, tx)
  PROVE  /\ sessionStatus' \in [c.Sessions -> Rows] /\ paidBy' \in [c.Sessions -> Nat]
         /\ sessionStatus'[s] \in Since(to) /\ announced[s][to] = 0
         /\ \A h \in handlers : h.at = "stored" => ~(h.of = s /\ h.to = to)
         /\ \A q \in c.Sessions : /\ RowPaid(q)' /\ (paidBy[q] # 0 => paidBy'[q] = paidBy[q])
                                  /\ \A e \in Rows : sessionStatus[q] \in Since(e) => sessionStatus'[q] \in Since(e)
         /\ Checkout(c)!StepsForward
<1>1. /\ sessionStatus \in [c.Sessions -> Rows] /\ paidBy \in [c.Sessions -> Nat] /\ purchases \in Seq(c.Sessions)
      /\ announced \in [c.Sessions -> [Rows -> Nat]] /\ handlers \subseteq Request(c)
  BY DEF CheckoutInv, CheckoutTyped
<1>2. s \in c.Sessions /\ sessionStatus[s] \in Rows /\ to \in {"funded", "wrapped", "purchased", "settled"} /\ to \in Rows
  BY <1>1 DEF RowMove, Rows
<1>3. /\ sessionStatus[s] \notin Since(to) /\ to \in Since(to) /\ sessionStatus[s] # "settled"
      /\ \A e \in Rows : sessionStatus[s] \in Since(e) => to \in Since(e)
      /\ to = "purchased" <=> sessionStatus[s] = "wrapped"
      /\ to = "settled" <=> sessionStatus[s] = "purchased"
  BY <1>2, EdgeLeads DEF RowMove
<1>4. tx \in Nat /\ (tx # 0 => to = "purchased") /\ (to = "purchased" => tx # 0)
  BY <1>1 DEF RowMove, PaidFor
<1>5. sessionStatus' = [sessionStatus EXCEPT ![s] = to] /\ paidBy' = [paidBy EXCEPT ![s] = IF tx # 0 THEN tx ELSE paidBy[s]]
      /\ purchases' = purchases
  BY DEF RowMove
<1>6. sessionStatus' \in [c.Sessions -> Rows] /\ paidBy' \in [c.Sessions -> Nat]
  BY <1>1, <1>2, <1>4, <1>5
<1>7. sessionStatus'[s] \in Since(to)
  BY <1>1, <1>2, <1>3, <1>5
<1>8. announced[s][to] = 0
  BY <1>2, <1>3 DEF CheckoutInv, ToldOnce
<1>9. \A h \in handlers : h.at = "stored" => ~(h.of = s /\ h.to = to)
  BY <1>3 DEF CheckoutInv, RequestFine
<1>10. ASSUME NEW q \in c.Sessions
       PROVE  /\ RowPaid(q)' /\ (paidBy[q] # 0 => paidBy'[q] = paidBy[q])
              /\ \A e \in Rows : sessionStatus[q] \in Since(e) => sessionStatus'[q] \in Since(e)
  <2>1. RowPaid(q)
    BY DEF CheckoutInv
  <2>2. CASE q # s
    <3>1. sessionStatus'[q] = sessionStatus[q] /\ paidBy'[q] = paidBy[q]
      BY <1>1, <1>5, <2>2
    <3> QED BY <1>5, <2>1, <3>1 DEF RowPaid, PaidFor
  <2>3. CASE q = s
    <3>1. sessionStatus'[q] = to /\ paidBy'[q] = IF tx # 0 THEN tx ELSE paidBy[q]
      BY <1>1, <1>2, <1>5, <2>3
    <3>2. to = "purchased" => PaidFor(tx, s)'
      BY <1>5 DEF RowMove, PaidFor
    <3>3. to = "settled" => PaidFor(paidBy[s], s)
      BY <1>3, <2>1, <2>3 DEF RowPaid
    <3>4. paidBy[q] # 0 => to = "settled"
      BY <1>2, <1>3, <2>1, <2>3 DEF RowPaid
    <3>5. paidBy[q] # 0 => paidBy'[q] = paidBy[q]
      BY <1>4, <3>1, <3>4
    <3>6. RowPaid(q)'
      <4>1. CASE to = "purchased"
        BY <1>4, <2>3, <3>1, <3>2, <4>1 DEF RowPaid
      <4>2. CASE to = "settled"
        <5>1. paidBy'[q] = paidBy[q] /\ PaidFor(paidBy[q], q)
          BY <1>4, <2>3, <3>1, <3>3, <4>2
        <5>2. PaidFor(paidBy'[q], q)
          BY <5>1
        <5> QED BY <1>5, <3>1, <4>2, <5>1 DEF RowPaid, PaidFor
      <4>3. CASE to \in {"funded", "wrapped"}
        <5>1. paidBy'[q] = 0
          BY <1>4, <3>1, <3>4, <4>3
        <5> QED BY <3>1, <4>3, <5>1 DEF RowPaid
      <4> QED BY <1>2, <4>1, <4>2, <4>3
    <3> QED BY <1>3, <2>3, <3>1, <3>5, <3>6
  <2> QED BY <2>2, <2>3
<1>11. Checkout(c)!StepsForward
  BY <1>1, <1>2, <1>5 DEF Checkout!StepsForward, RowMove
<1> QED BY <1>6, <1>7, <1>8, <1>9, <1>10, <1>11

\* A row that moves leaves what else there is to be kept in order.
LEMMA MoveKeeps ==
  ASSUME NEW c, CheckoutInv(c), NEW s, NEW to, NEW tx, RowMove(c, s, to, tx),
         tabs' \in [c.Tabs -> PageRec(c)],
         \A t \in c.Tabs : tabs'[t].doing = "bought" => tabs'[t].tx = tabs[t].tx /\ tabs'[t].of = tabs[t].of
                                                        /\ tabs[t].doing = "bought",
         announced' \in [c.Sessions -> [Rows -> Nat]],
         \A q \in c.Sessions, e \in Rows : announced'[q][e] = announced[q][e] \/ (q = s /\ e = to /\ announced'[q][e] = 1),
         handlers' \subseteq Request(c), \A h \in handlers' : RequestFine(c, h)', OneTeller(handlers')
  PROVE  CheckoutInv(c)'
<1>1. /\ sessionStatus' \in [c.Sessions -> Rows] /\ paidBy' \in [c.Sessions -> Nat]
      /\ sessionStatus'[s] \in Since(to)
      /\ \A q \in c.Sessions : /\ RowPaid(q)'
                               /\ \A e \in Rows : sessionStatus[q] \in Since(e) => sessionStatus'[q] \in Since(e)
  BY RowMoves
<1>2. Grows(c) /\ purchases' \in Seq(c.Sessions)
  BY DEF RowMove, Grows, CheckoutInv, CheckoutTyped
<1>3. CheckoutTyped(c)'
  BY <1>1, <1>2 DEF CheckoutTyped
<1>4. ASSUME NEW q \in c.Sessions, NEW e \in Rows PROVE ToldOnce(q, e)'
  <2>1. ToldOnce(q, e)
    BY DEF CheckoutInv
  <2>2. CASE announced'[q][e] = announced[q][e]
    BY <1>1, <2>1, <2>2 DEF ToldOnce
  <2>3. CASE q = s /\ e = to /\ announced'[q][e] = 1
    BY <1>1, <2>3 DEF ToldOnce
  <2> QED BY <2>2, <2>3
<1>5. \A t \in c.Tabs : PageFine(tabs[t])'
  BY <1>2, PagesKept
<1> QED BY <1>1, <1>3, <1>4, <1>5 DEF CheckoutInv

\* A request as it was, when the row of another or its own row moves on.
LEMMA RequestMoved ==
  ASSUME NEW c, CheckoutInv(c), NEW s, NEW to, NEW tx, RowMove(c, s, to, tx), NEW h \in handlers,
         announced'[h.of][h.to] = announced[h.of][h.to] \/ h.at # "stored"
  PROVE  RequestFine(c, h)'
<1>1. /\ h \in Request(c) /\ RequestFine(c, h)
      /\ \A q \in c.Sessions, e \in Rows : sessionStatus[q] \in Since(e) => sessionStatus'[q] \in Since(e)
  BY RowMoves DEF CheckoutInv, CheckoutTyped
<1>2. h.of \in c.Sessions /\ h.to \in Rows
  BY <1>1 DEF Request, Rows
<1>3. PaidFor(h.tx, h.of) => PaidFor(h.tx, h.of)'
  BY DEF RowMove, PaidFor
<1> QED BY <1>1, <1>2, <1>3 DEF RequestFine

LEMMA CheckKeeps == ASSUME NEW c, CheckoutInv(c), NEW h \in handlers, Checkout(c)!Check(h) PROVE CheckoutInv(c)'
<1>1. UNCHANGED <<sessionStatus, paidBy, purchases, announced>> /\ h.at = "sent"
  BY DEF Checkout!Check, Checkout!Refuse
<1>2. Grows(c) /\ h \in Request(c) /\ tabs \in [c.Tabs -> PageRec(c)]
  BY <1>1 DEF Grows, CheckoutInv, CheckoutTyped
<1>3. (handlers \ {h}) \subseteq Request(c) /\ (\A g \in handlers \ {h} : RequestFine(c, g)') /\ OneTeller(handlers \ {h})
  BY <1>1, <1>2, RequestsKept
<1>4. CASE Checkout(c)!Refuse(h)
  <2>1. tabs' = Checkout(c)!Answered(h, "conflict") /\ handlers' = handlers \ {h}
    BY <1>4 DEF Checkout!Refuse
  <2>2. tabs' \in [c.Tabs -> PageRec(c)] /\ \A t \in c.Tabs : tabs'[t].doing = "bought" => tabs'[t] = tabs[t]
    BY <1>2, <2>1, AnsweredPages
  <2>3. \A t \in c.Tabs : PageFine(tabs[t])'
    BY <1>2, <2>2, PagesKept
  <2> QED BY <1>1, <1>2, <1>3, <2>1, <2>2, <2>3, QuietKeeps
<1>5. CASE /\ Checkout(c)!Acceptable(h.of, h.to) /\ tabs' = tabs
           /\ handlers' = (handlers \ {h}) \cup {[h EXCEPT !.at = "checked", !.expected = sessionStatus[h.of]]}
  <2>1. PICK g \in Request(c) : /\ handlers' = (handlers \ {h}) \cup {g} /\ g.at = "checked" /\ g.expected = sessionStatus[h.of]
                                /\ g.of = h.of /\ g.to = h.to /\ g.tx = h.tx
    <3> DEFINE n == [h EXCEPT !.at = "checked", !.expected = sessionStatus[h.of]]
    <3>1. sessionStatus[h.of] \in Rows
      BY <1>2 DEF Request, CheckoutInv, CheckoutTyped
    <3>2. n \in Request(c) /\ n.at = "checked" /\ n.expected = sessionStatus[h.of] /\ n.of = h.of /\ n.to = h.to /\ n.tx = h.tx
      BY <1>2, <3>1 DEF Request
    <3>3. handlers' = (handlers \ {h}) \cup {n}
      BY <1>5
    <3> HIDE DEF n
    <3> QED BY <3>2, <3>3
  <2>2. RequestFine(c, g)'
    <3>1. RequestFine(c, h)'
      BY <1>1, <1>2, RequestKept
    <3>2. h.to \in Checkout(c)!Forward[sessionStatus[h.of]]
      BY <1>5 DEF Checkout!Acceptable
    <3> QED BY <2>1, <3>1, <3>2 DEF RequestFine
  <2>3. handlers' \subseteq Request(c) /\ \A x \in handlers' : RequestFine(c, x)'
    BY <1>3, <2>1, <2>2
  <2>4. OneTeller(handlers')
    BY <1>3, <2>1, TellerKept
  <2>5. \A t \in c.Tabs : PageFine(tabs[t])'
    BY <1>2, <1>5, PagesKept
  <2>6. tabs' \in [c.Tabs -> PageRec(c)]
    BY <1>2, <1>5
  <2> QED BY <1>1, <1>2, <2>3, <2>4, <2>5, <2>6, QuietKeeps
<1> QED BY <1>4, <1>5 DEF Checkout!Check

LEMMA StoreKeeps ==
  ASSUME NEW c, CheckoutInv(c), NEW h \in handlers, Checkout(c)!Store(h)
  PROVE  /\ CheckoutInv(c)'
         /\ UNCHANGED <<sessionStatus, paidBy>> \/ \E s, to, tx : RowMove(c, s, to, tx)
<1>1. UNCHANGED <<purchases, announced>> /\ h.at = "checked"
  BY DEF Checkout!Store, Checkout!Refuse
<1>2. h \in Request(c) /\ RequestFine(c, h) /\ tabs \in [c.Tabs -> PageRec(c)] /\ announced \in [c.Sessions -> [Rows -> Nat]]
  BY DEF CheckoutInv, CheckoutTyped
<1>3. CASE Checkout(c)!Refuse(h)
  <2>1. /\ tabs' = Checkout(c)!Answered(h, "conflict") /\ handlers' = handlers \ {h}
        /\ UNCHANGED <<sessionStatus, paidBy>>
    BY <1>3 DEF Checkout!Refuse
  <2>2. tabs' \in [c.Tabs -> PageRec(c)] /\ \A t \in c.Tabs : tabs'[t].doing = "bought" => tabs'[t] = tabs[t]
    BY <1>2, <2>1, AnsweredPages
  <2>3. Grows(c)
    BY <1>1 DEF Grows
  <2>4. \A t \in c.Tabs : PageFine(tabs[t])'
    BY <2>2, <2>3, PagesKept
  <2>5. handlers' \subseteq Request(c) /\ (\A g \in handlers' : RequestFine(c, g)') /\ OneTeller(handlers')
    BY <1>1, <2>1, <2>3, RequestsKept
  <2> QED BY <1>1, <2>1, <2>2, <2>3, <2>4, <2>5, QuietKeeps
<1>4. CASE /\ sessionStatus[h.of] = h.expected /\ Checkout(c)!Transition(h.of, h.to, h.tx) /\ tabs' = tabs
           /\ handlers' = (handlers \ {h}) \cup {[h EXCEPT !.at = "stored"]}
  <2>1. RowMove(c, h.of, h.to, h.tx)
    BY <1>1, <1>2, <1>4 DEF RowMove, Checkout!Transition, RequestFine, Request
  <2>2. PICK g \in Request(c) : /\ handlers' = (handlers \ {h}) \cup {g} /\ g.at = "stored" /\ g.of = h.of /\ g.to = h.to
                                /\ g.tx = h.tx
    <3> DEFINE n == [h EXCEPT !.at = "stored"]
    <3>1. n \in Request(c) /\ n.at = "stored" /\ n.of = h.of /\ n.to = h.to /\ n.tx = h.tx
      BY <1>2 DEF Request
    <3>2. handlers' = (handlers \ {h}) \cup {n}
      BY <1>4
    <3> HIDE DEF n
    <3> QED BY <3>1, <3>2
  <2>3. /\ sessionStatus'[h.of] \in Since(h.to) /\ announced[h.of][h.to] = 0
        /\ \A x \in handlers : x.at = "stored" => ~(x.of = h.of /\ x.to = h.to)
    BY <2>1, RowMoves
  <2>4. \A x \in handlers : RequestFine(c, x)'
    BY <1>1, <2>1, RequestMoved
  <2>5. RequestFine(c, g)'
    <3>1. RequestFine(c, h)'
      BY <2>4
    <3> QED BY <1>1, <2>2, <2>3, <3>1 DEF RequestFine
  <2>6. handlers' \subseteq Request(c) /\ \A x \in handlers' : RequestFine(c, x)'
    BY <2>2, <2>4, <2>5 DEF CheckoutInv, CheckoutTyped
  <2>7. OneTeller(handlers')
    BY <2>2, <2>3 DEF CheckoutInv, OneTeller, Same
  <2>8. CheckoutInv(c)'
    BY <1>1, <1>2, <1>4, <2>1, <2>6, <2>7, MoveKeeps
  <2> QED BY <2>1, <2>8
<1> QED BY <1>3, <1>4 DEF Checkout!Store, Checkout!Matches

\* An announcement counts one more.
LEMMA Announces ==
  ASSUME NEW c, announced \in [c.Sessions -> [Rows -> Nat]], NEW s \in c.Sessions, NEW e \in Rows,
         announced[s][e] = 0, Checkout(c)!Announce(s, e)
  PROVE  /\ announced' \in [c.Sessions -> [Rows -> Nat]]
         /\ \A q \in c.Sessions, d \in Rows : announced'[q][d] = IF q = s /\ d = e THEN 1 ELSE announced[q][d]
<1> DEFINE f == [announced[s] EXCEPT ![e] = 1]
<1>1. f \in [Rows -> Nat] /\ \A d \in Rows : f[d] = IF d = e THEN 1 ELSE announced[s][d]
  <2>1. announced[s] \in [Rows -> Nat]
    OBVIOUS
  <2> QED BY <2>1
<1>2. announced' = [announced EXCEPT ![s] = f]
  BY DEF Checkout!Announce
<1> HIDE DEF f
<1> QED BY <1>1, <1>2

LEMMA FinishKeeps == ASSUME NEW c, CheckoutInv(c), NEW h \in handlers, Checkout(c)!Finish(h) PROVE CheckoutInv(c)'
<1>1. /\ UNCHANGED <<sessionStatus, paidBy, purchases>> /\ h.at = "stored" /\ handlers' = handlers \ {h}
      /\ tabs' = Checkout(c)!Published(h.of, h.to, Checkout(c)!Answered(h, "ok")) /\ Checkout(c)!Announce(h.of, h.to)
  BY DEF Checkout!Finish
<1>2. /\ h \in Request(c) /\ RequestFine(c, h) /\ tabs \in [c.Tabs -> PageRec(c)]
      /\ announced \in [c.Sessions -> [Rows -> Nat]] /\ purchases \in Seq(c.Sessions) /\ handlers \subseteq Request(c)
      /\ sessionStatus \in [c.Sessions -> Rows] /\ paidBy \in [c.Sessions -> Nat]
  BY DEF CheckoutInv, CheckoutTyped
<1>3. h.of \in c.Sessions /\ h.to \in Rows
  BY <1>2 DEF Request, Rows
<1>4. announced[h.of][h.to] = 0 /\ sessionStatus[h.of] \in Since(h.to)
  BY <1>1, <1>2 DEF RequestFine
<1>5. /\ announced' \in [c.Sessions -> [Rows -> Nat]]
      /\ \A q \in c.Sessions, d \in Rows : announced'[q][d] = IF q = h.of /\ d = h.to THEN 1 ELSE announced[q][d]
  BY <1>1, <1>2, <1>3, <1>4, Announces
<1>6. tabs' \in [c.Tabs -> PageRec(c)] /\ \A t \in c.Tabs : tabs'[t].doing = "bought" =>
        tabs'[t].tx = tabs[t].tx /\ tabs'[t].of = tabs[t].of /\ tabs[t].doing = "bought"
  <2> DEFINE p == Checkout(c)!Answered(h, "ok")
  <2>1. p \in [c.Tabs -> PageRec(c)] /\ \A t \in c.Tabs : p[t].doing = "bought" => p[t] = tabs[t]
    BY <1>2, AnsweredPages
  <2>2. tabs' = Checkout(c)!Published(h.of, h.to, p)
    BY <1>1
  <2> HIDE DEF p
  <2>3. PICK pages0 \in [c.Tabs -> PageRec(c)] : pages0 = p
    BY <2>1
  <2>4. /\ tabs' \in [c.Tabs -> PageRec(c)]
        /\ \A t \in c.Tabs : tabs'[t].doing = p[t].doing /\ tabs'[t].tx = p[t].tx /\ tabs'[t].of = p[t].of
    BY <1>3, <2>2, <2>3, PublishedPages
  <2> QED BY <2>1, <2>4
<1>7. Grows(c)
  BY <1>1 DEF Grows
<1>8. \A t \in c.Tabs : PageFine(tabs[t])'
  BY <1>6, <1>7, PagesKept
<1>9. ASSUME NEW g \in handlers' PROVE RequestFine(c, g)'
  <2>1. g \in handlers /\ g # h /\ g \in Request(c) /\ RequestFine(c, g)
    BY <1>1, <1>2 DEF CheckoutInv
  <2>2. g.at = "stored" => ~(g.of = h.of /\ g.to = h.to)
    BY <1>1, <2>1 DEF CheckoutInv, OneTeller, Same
  <2>3. g.of \in c.Sessions /\ g.to \in Rows
    BY <2>1 DEF Request, Rows
  <2>4. g.at = "stored" => announced'[g.of][g.to] = announced[g.of][g.to]
    BY <1>5, <2>2, <2>3
  <2>5. PaidFor(g.tx, g.of) => PaidFor(g.tx, g.of)'
    BY <1>1 DEF PaidFor
  <2> QED BY <1>1, <2>1, <2>4, <2>5 DEF RequestFine
<1>10. OneTeller(handlers')
  BY <1>1 DEF CheckoutInv, OneTeller
<1>11. ASSUME NEW s \in c.Sessions PROVE RowPaid(s)'
  BY <1>1 DEF CheckoutInv, RowPaid, PaidFor
<1>12. ASSUME NEW s \in c.Sessions, NEW e \in Rows PROVE ToldOnce(s, e)'
  <2>1. ToldOnce(s, e)
    BY DEF CheckoutInv
  <2>2. CASE s = h.of /\ e = h.to
    BY <1>1, <1>4, <1>5, <2>2 DEF ToldOnce
  <2>3. CASE ~(s = h.of /\ e = h.to)
    BY <1>1, <1>5, <2>1, <2>3 DEF ToldOnce
  <2> QED BY <2>2, <2>3
<1>13. CheckoutTyped(c)'
  BY <1>1, <1>2, <1>5, <1>6 DEF CheckoutTyped
<1> QED BY <1>8, <1>9, <1>10, <1>11, <1>12, <1>13 DEF CheckoutInv

LEMMA LoseKeeps == ASSUME NEW c, CheckoutInv(c), NEW h \in handlers, Checkout(c)!Lose(h) PROVE CheckoutInv(c)'
<1>1. UNCHANGED <<sessionStatus, paidBy, purchases, announced>> /\ tabs' = Checkout(c)!Answered(h, "error")
  BY DEF Checkout!Lose
<1>2. Grows(c) /\ h \in Request(c) /\ tabs \in [c.Tabs -> PageRec(c)]
  BY <1>1 DEF Grows, CheckoutInv, CheckoutTyped
<1>3. tabs' \in [c.Tabs -> PageRec(c)] /\ \A t \in c.Tabs : tabs'[t].doing = "bought" => tabs'[t] = tabs[t]
  BY <1>1, <1>2, AnsweredPages
<1>4. \A t \in c.Tabs : PageFine(tabs[t])'
  BY <1>2, <1>3, PagesKept
<1>5. (handlers \ {h}) \subseteq Request(c) /\ (\A g \in handlers \ {h} : RequestFine(c, g)') /\ OneTeller(handlers \ {h})
  BY <1>1, <1>2, RequestsKept
<1>6. CASE handlers' = handlers \ {h}
  BY <1>1, <1>2, <1>3, <1>4, <1>5, <1>6, QuietKeeps
<1>7. CASE handlers' = (handlers \ {h}) \cup {[h EXCEPT !.heard = FALSE]}
  <2> DEFINE g == [h EXCEPT !.heard = FALSE]
  <2>1. g \in Request(c) /\ RequestFine(c, g)'
    BY <1>1, <1>2, RequestKept
  <2>2. g.at = h.at /\ g.of = h.of /\ g.to = h.to
    BY <1>2 DEF Request
  <2>3. handlers' = (handlers \ {h}) \cup {g}
    BY <1>7
  <2> HIDE DEF g
  <2>4. OneTeller(handlers')
    BY <2>2, <2>3 DEF CheckoutInv, OneTeller, Same
  <2>5. handlers' \subseteq Request(c) /\ \A x \in handlers' : RequestFine(c, x)'
    BY <1>5, <2>1, <2>3
  <2> QED BY <1>1, <1>2, <1>3, <1>4, <2>4, <2>5, QuietKeeps
<1> QED BY <1>6, <1>7 DEF Checkout!Lose

LEMMA RestartKeeps == ASSUME NEW c, CheckoutInv(c), Checkout(c)!Restart PROVE CheckoutInv(c)'
<1>1. UNCHANGED <<sessionStatus, paidBy, purchases, announced>> /\ handlers' = {}
  BY DEF Checkout!Restart
<1>2. Grows(c) /\ tabs \in [c.Tabs -> PageRec(c)]
  BY <1>1 DEF Grows, CheckoutInv, CheckoutTyped
<1> DEFINE page(t) == [tabs[t] EXCEPT !.doing = Checkout(c)!After(tabs[t].doing, "error"), !.tx = 0]
<1>3. tabs' = [t \in c.Tabs |-> IF \E h \in handlers : h.tab = t /\ h.heard THEN page(t) ELSE tabs[t]]
  BY DEF Checkout!Restart
<1>4. ASSUME NEW t \in c.Tabs PROVE page(t) \in PageRec(c) /\ page(t).doing # "bought"
  <2> DEFINE doing == Checkout(c)!After(tabs[t].doing, "error")
  <2>1. doing \in {"buying", "closed", "idle"}
    BY DEF Checkout!After
  <2>2. \A d \in {"buying", "closed", "idle"} :
          LET p == [tabs[t] EXCEPT !.doing = d, !.tx = 0] IN p \in PageRec(c) /\ p.doing = d
    BY <1>2 DEF PageRec
  <2> QED BY <2>1, <2>2
<1> HIDE DEF page
<1>5. tabs' \in [c.Tabs -> PageRec(c)] /\ \A t \in c.Tabs : tabs'[t].doing = "bought" => tabs'[t] = tabs[t]
  <2>1. ASSUME NEW t \in c.Tabs PROVE tabs'[t] \in PageRec(c) /\ (tabs'[t].doing = "bought" => tabs'[t] = tabs[t])
    <3>1. CASE tabs'[t] = page(t)
      BY <1>4, <3>1
    <3>2. CASE tabs'[t] = tabs[t]
      BY <1>2, <3>2
    <3> QED BY <1>3, <3>1, <3>2
  <2>2. DOMAIN tabs' = c.Tabs /\ tabs' = [t \in c.Tabs |-> tabs'[t]]
    BY <1>3
  <2> QED BY <2>1, <2>2
<1>6. \A t \in c.Tabs : PageFine(tabs[t])'
  BY <1>2, <1>5, PagesKept
<1>7. handlers' \subseteq Request(c) /\ (\A h \in handlers' : RequestFine(c, h)') /\ OneTeller(handlers')
  BY <1>1 DEF OneTeller
<1> QED BY <1>1, <1>2, <1>5, <1>6, <1>7, QuietKeeps

LEMMA SettleKeeps ==
  ASSUME NEW c, CheckoutInv(c), NEW s \in c.Sessions, Checkout(c)!Settle(s)
  PROVE  /\ CheckoutInv(c)'
         /\ UNCHANGED <<sessionStatus, paidBy>> \/ \E to, tx : RowMove(c, s, to, tx)
<1>1. UNCHANGED <<handlers, purchases>>
  BY DEF Checkout!Settle
<1>2. /\ tabs \in [c.Tabs -> PageRec(c)] /\ announced \in [c.Sessions -> [Rows -> Nat]] /\ handlers \subseteq Request(c)
      /\ sessionStatus \in [c.Sessions -> Rows]
  BY DEF CheckoutInv, CheckoutTyped
<1>3. Grows(c)
  BY <1>1 DEF Grows
<1>4. CASE UNCHANGED <<sessionStatus, paidBy, tabs, announced>>
  <2>1. tabs' \in [c.Tabs -> PageRec(c)] /\ \A t \in c.Tabs : PageFine(tabs[t])'
    BY <1>2, <1>3, <1>4, PagesKept
  <2>2. handlers' \subseteq Request(c) /\ (\A g \in handlers' : RequestFine(c, g)') /\ OneTeller(handlers')
    BY <1>1, <1>3, <1>4, RequestsKept
  <2> QED BY <1>3, <1>4, <2>1, <2>2, QuietKeeps
<1>5. CASE /\ sessionStatus[s] = "purchased" /\ Checkout(c)!Transition(s, "settled", 0)
           /\ Checkout(c)!Announce(s, "settled") /\ tabs' = Checkout(c)!Published(s, "settled", tabs)
  <2>1. RowMove(c, s, "settled", 0)
    BY <1>1, <1>5, EdgesAre DEF RowMove, Checkout!Transition
  <2>2. announced[s]["settled"] = 0 /\ "settled" \in Rows
    BY <2>1, RowMoves DEF Rows
  <2>3. /\ announced' \in [c.Sessions -> [Rows -> Nat]]
        /\ \A q \in c.Sessions, d \in Rows : announced'[q][d] = IF q = s /\ d = "settled" THEN 1 ELSE announced[q][d]
    BY <1>2, <1>5, <2>2, Announces
  <2>4. PICK pages0 \in [c.Tabs -> PageRec(c)] : pages0 = tabs
    BY <1>2
  <2>5. /\ tabs' \in [c.Tabs -> PageRec(c)]
        /\ \A t \in c.Tabs : tabs'[t].doing = tabs[t].doing /\ tabs'[t].tx = tabs[t].tx /\ tabs'[t].of = tabs[t].of
    BY <1>5, <2>2, <2>4, PublishedPages
  <2>6. ASSUME NEW h \in handlers PROVE RequestFine(c, h)'
    <3>1. h.of \in c.Sessions /\ h.to \in Rows /\ h.to # "settled"
      BY <1>2 DEF Request, Rows
    <3>2. announced'[h.of][h.to] = announced[h.of][h.to]
      BY <2>3, <3>1
    <3> QED BY <2>1, <3>2, RequestMoved
  <2>7. handlers' \subseteq Request(c) /\ (\A g \in handlers' : RequestFine(c, g)') /\ OneTeller(handlers')
    BY <1>1, <1>2, <2>6 DEF CheckoutInv
  <2>8. CheckoutInv(c)'
    BY <2>1, <2>3, <2>5, <2>7, MoveKeeps
  <2> QED BY <2>1, <2>8
<1> QED BY <1>4, <1>5 DEF Checkout!Settle

LEMMA CheckoutStutters ==
  ASSUME NEW c, CheckoutInv(c), UNCHANGED <<sessionStatus, paidBy, tabs, handlers, purchases, announced>>
  PROVE  CheckoutInv(c)'
<1>1. tabs \in [c.Tabs -> PageRec(c)] /\ Grows(c)
  BY DEF CheckoutInv, CheckoutTyped, Grows
<1>2. tabs' \in [c.Tabs -> PageRec(c)] /\ \A t \in c.Tabs : PageFine(tabs[t])'
  BY <1>1, PagesKept
<1>3. handlers' \subseteq Request(c) /\ (\A g \in handlers' : RequestFine(c, g)') /\ OneTeller(handlers')
  BY <1>1, RequestsKept
<1> QED BY <1>1, <1>2, <1>3, QuietKeeps

\* What a step may do to the rows.
RowsMove(c) == UNCHANGED <<sessionStatus, paidBy>> \/ \E s, to, tx : RowMove(c, s, to, tx)

LEMMA CheckoutSteps == ASSUME NEW c, CheckoutInv(c), Checkout(c)!Next PROVE CheckoutInv(c)' /\ RowsMove(c)
<1>1. ASSUME NEW t \in c.Tabs, Checkout(c)!Page(t) PROVE CheckoutInv(c)' /\ UNCHANGED <<sessionStatus, paidBy>>
  <2>1. UNCHANGED <<sessionStatus, paidBy>>
    BY <1>1 DEF Checkout!Page, Checkout!Observe, Checkout!Close, Checkout!ReportFunded, Checkout!ReportWrapped,
         Checkout!Purchase, Checkout!ReportPurchased, Checkout!Send
  <2> QED BY <1>1, <2>1, PageKeeps
<1>2. ASSUME NEW h \in handlers, Checkout(c)!Check(h) \/ Checkout(c)!Finish(h) \/ Checkout(c)!Lose(h)
      PROVE  CheckoutInv(c)' /\ UNCHANGED <<sessionStatus, paidBy>>
  <2>1. UNCHANGED <<sessionStatus, paidBy>>
    BY <1>2 DEF Checkout!Check, Checkout!Refuse, Checkout!Finish, Checkout!Lose
  <2> QED BY <1>2, <2>1, CheckKeeps, FinishKeeps, LoseKeeps
<1>3. ASSUME NEW h \in handlers, Checkout(c)!Store(h) PROVE CheckoutInv(c)' /\ RowsMove(c)
  BY <1>3, StoreKeeps DEF RowsMove
<1>4. ASSUME NEW s \in c.Sessions, Checkout(c)!Settle(s) PROVE CheckoutInv(c)' /\ RowsMove(c)
  BY <1>4, SettleKeeps DEF RowsMove
<1>5. CASE Checkout(c)!Restart
  <2>1. UNCHANGED <<sessionStatus, paidBy>>
    BY <1>5 DEF Checkout!Restart
  <2> QED BY <1>5, <2>1, RestartKeeps DEF RowsMove
<1>6. CASE \/ Checkout(c)!StartTick \/ Checkout(c)!LookUp \/ Checkout(c)!EndTick \/ Checkout(c)!SettleFails
           \/ Checkout(c)!TickFails \/ \E s \in c.Sessions : Checkout(c)!Expire(s)
  <2>1. UNCHANGED <<sessionStatus, paidBy, tabs, handlers, purchases, announced>>
    BY <1>6 DEF Checkout!StartTick, Checkout!LookUp, Checkout!EndTick, Checkout!SettleFails, Checkout!TickFails,
         Checkout!Expire
  <2> QED BY <2>1, CheckoutStutters DEF RowsMove
<1> QED BY <1>1, <1>2, <1>3, <1>4, <1>5, <1>6 DEF Checkout!Next, Checkout!Handler, Checkout!Indexer, RowsMove

LEMMA MovesArePaid ==
  ASSUME NEW c, CheckoutInv(c), CheckoutInv(c)', RowsMove(c)
  PROVE  Checkout(c)!KeepsPayment /\ Checkout(c)!StepsForward
<1>1. \A s \in c.Sessions : sessionStatus'[s] = "settled" => purchases'[paidBy'[s]] = s
  BY DEF CheckoutInv, RowPaid, PaidFor
<1>2. CASE UNCHANGED <<sessionStatus, paidBy>>
  BY <1>1, <1>2 DEF Checkout!KeepsPayment, Checkout!StepsForward
<1>3. ASSUME NEW s, NEW to, NEW tx, RowMove(c, s, to, tx) PROVE Checkout(c)!KeepsPayment /\ Checkout(c)!StepsForward
  <2>1. Checkout(c)!StepsForward /\ \A q \in c.Sessions : paidBy[q] # 0 => paidBy'[q] = paidBy[q]
    BY <1>3, RowMoves
  <2> QED BY <1>1, <2>1 DEF Checkout!KeepsPayment
<1> QED BY <1>2, <1>3 DEF RowsMove

LEMMA ToldAtMostOnce == ASSUME NEW c, CheckoutInv(c) PROVE Checkout(c)!AnnouncedOnce
<1>1. Checkout(c)!Statuses = Rows
  BY EdgesAre
<1>2. ASSUME NEW s \in c.Sessions, NEW e \in Rows PROVE announced[s][e] <= 1
  <2>1. ToldOnce(s, e) /\ announced[s][e] \in Nat
    BY DEF CheckoutInv, CheckoutTyped
  <2> QED BY <2>1 DEF ToldOnce
<1> QED BY <1>1, <1>2 DEF Checkout!AnnouncedOnce

PaymentsInv ==
  /\ part = "late" => CheckoutInv(LateCheckout)
  /\ part # "late" => CheckoutInv(CheckoutOf)

\* However many pages serve a session and however their requests, their retries
\* and the indexer interleave with a restart: a row moves one edge at a time,
\* keeps the purchase it names, which is one made for it, and every step of it
\* is announced once at most.
THEOREM PaidOnceAlways == Services => PaidOnce
<1>1. ServicesInit => PaymentsInv
  BY CheckoutStarts DEF ServicesInit, PaymentsInv
<1>2. PaymentsInv /\ [ServicesNext]_servicesVars =>
        /\ PaymentsInv'
        /\ [part = "checkout" => Checkout(CheckoutOf)!KeepsPayment /\ Checkout(CheckoutOf)!StepsForward]_checkoutVars
        /\ [part = "late" => Checkout(LateCheckout)!KeepsPayment /\ Checkout(LateCheckout)!StepsForward]_checkoutVars
  <2> SUFFICES ASSUME PaymentsInv, [ServicesNext]_servicesVars
      PROVE  /\ PaymentsInv'
             /\ part = "checkout" => UNCHANGED checkoutVars \/ (Checkout(CheckoutOf)!KeepsPayment /\ Checkout(CheckoutOf)!StepsForward)
             /\ part = "late" => UNCHANGED checkoutVars \/ (Checkout(LateCheckout)!KeepsPayment /\ Checkout(LateCheckout)!StepsForward)
    OBVIOUS
  <2>1. part' = part
    BY DEF ServicesNext, Follows, servicesVars
  <2>2. ASSUME part = "late"
        PROVE  /\ CheckoutInv(LateCheckout)'
               /\ UNCHANGED checkoutVars \/ (Checkout(LateCheckout)!KeepsPayment /\ Checkout(LateCheckout)!StepsForward)
    <3>1. UNCHANGED checkoutVars \/ Checkout(LateCheckout)!Next
      BY <2>2 DEF ServicesNext, Follows, Rest, servicesVars
    <3>2. CheckoutInv(LateCheckout)
      BY <2>2 DEF PaymentsInv
    <3>3. CASE UNCHANGED checkoutVars
      BY <3>2, <3>3, CheckoutStutters DEF checkoutVars
    <3> QED BY <3>1, <3>2, <3>3, CheckoutSteps, MovesArePaid
  <2>3. ASSUME part # "late"
        PROVE  /\ CheckoutInv(CheckoutOf)'
               /\ UNCHANGED checkoutVars \/ (Checkout(CheckoutOf)!KeepsPayment /\ Checkout(CheckoutOf)!StepsForward)
    <3>1. UNCHANGED checkoutVars \/ Checkout(CheckoutOf)!Next
      BY <2>3 DEF ServicesNext, Follows, Rest, servicesVars
    <3>2. CheckoutInv(CheckoutOf)
      BY <2>3 DEF PaymentsInv
    <3>3. CASE UNCHANGED checkoutVars
      BY <3>2, <3>3, CheckoutStutters DEF checkoutVars
    <3> QED BY <3>1, <3>2, <3>3, CheckoutSteps, MovesArePaid
  <2> QED BY <2>1, <2>2, <2>3 DEF PaymentsInv
<1>3. PaymentsInv => /\ part = "checkout" => Checkout(CheckoutOf)!AnnouncedOnce
                     /\ part = "late" => Checkout(LateCheckout)!AnnouncedOnce
  BY ToldAtMostOnce DEF PaymentsInv
<1> QED BY <1>1, <1>2, <1>3, PTL DEF Services, PaidOnce


-----------------------------------------------------------------------------
(* Yield epochs *)

YieldPlaces ==
  {"idle", "read", "decide", "opening", "capture", "capturing", "size", "fund", "sent", "waiting", "closing", "catch"}
YieldToken(c) == c.Tokens \cup {CHOOSE t \in c.Tokens : TRUE}
EpochRecord(c) ==
  [token : YieldToken(c), supply : Nat, funded : BOOLEAN, rate : Nat, amount : Nat, paid : Nat]
TxRecord(c) ==
  [kind : {"open", "capture", "fund"}, token : YieldToken(c), epoch : Nat, rate : Nat, amount : Nat,
   status : {"pending", "ok", "reverted"}]
Distribution ==
  [status : {"none", "in_progress", "snapshot_done", "funded_no_audit", "success", "failure"},
   rate : Nat, amount : Nat, tx : Nat]
RunRecord(c) ==
  [at : YieldPlaces, token : YieldToken(c), rate : Nat, current : Nat, row : Nat, epoch : Nat, resumed : BOOLEAN,
   fundRate : Nat, amount : Nat, tx : Nat]

YieldTyped(c) ==
  /\ epochs \in Seq(EpochRecord(c)) /\ txs \in Seq(TxRecord(c))
  /\ distributions \in [1 .. c.MaxEpochs -> Distribution]
  /\ balance \in Nat /\ dayDue \in BOOLEAN
  /\ floatSweep \in [on : BOOLEAN, left : SUBSET c.Tokens, ledger : Nat]
  /\ run \in RunRecord(c)

\* What an epoch with s shares is to be funded with at a rate.
Fit(c, s, rate) == Yield(c)!Sized(s, rate)
\* An amount that is, and is not nothing.
Fitting(c, s, rate, amount) == amount = Fit(c, s, rate) /\ (c.SnapshotBased => amount > 0)

InFlight(i) == txs[i].status = "pending"
HasRow(e) == distributions[e].status # "none"
Waits(e) == distributions[e].status \notin {"none", "success", "failure"}
Newest(e, t) ==
  /\ e \in DOMAIN epochs /\ epochs[e].token = t
  /\ \A f \in DOMAIN epochs : epochs[f].token = t => f <= e
NoneWaits(t) == \A e \in DOMAIN epochs : epochs[e].token = t => ~Waits(e)
Quiet(t) == \A i \in DOMAIN txs : InFlight(i) => txs[i].token # t
NoOpening(t) == \A i \in DOMAIN txs : InFlight(i) /\ txs[i].kind = "open" => txs[i].token # t

\* The epochs that transactions in flight will open are still within the bound.
Room(c) ==
  /\ Len(epochs) <= c.MaxEpochs
  /\ Len(epochs) + Cardinality({i \in DOMAIN txs : InFlight(i) /\ txs[i].kind = "open"}) <= c.MaxEpochs

\* What a transaction is about, and what it has done.
TxFine(c, x) ==
  /\ x.kind # "open" \/ x.status = "ok" => x.epoch \in DOMAIN epochs /\ epochs[x.epoch].token = x.token
  /\ x.kind = "capture" /\ x.status = "ok" => epochs[x.epoch].supply # 0
  /\ x.kind = "fund" =>
       /\ epochs[x.epoch].supply # 0 /\ Fitting(c, epochs[x.epoch].supply, x.rate, x.amount)
       /\ HasRow(x.epoch)
       /\ x.status = "pending" => x.rate = distributions[x.epoch].rate
       /\ x.status = "ok" => epochs[x.epoch].funded

\* An epoch that is funded has its row, at the same rate, and the pool that
\* fits its holders.
EpochFine(c, e) ==
  epochs[e].funded =>
    /\ epochs[e].supply # 0 /\ Fitting(c, epochs[e].supply, epochs[e].rate, epochs[e].amount)
    /\ HasRow(e) /\ epochs[e].rate = distributions[e].rate

\* A row is of an epoch. One that waits is of its token's newest epoch, while no
\* other is being opened.
RowFine(c, e) ==
  HasRow(e) =>
    /\ e \in DOMAIN epochs
    /\ distributions[e].status = "success" => epochs[e].funded
    /\ ~c.SnapshotBased => distributions[e].amount = Yield(c)!Estimate(distributions[e].rate)
    /\ distributions[e].status = "funded_no_audit" =>
         /\ distributions[e].tx \in DOMAIN txs /\ txs[distributions[e].tx].kind = "fund"
         /\ txs[distributions[e].tx].epoch = e
    /\ Waits(e) => Newest(e, epochs[e].token) /\ NoOpening(epochs[e].token)

ChainInv(c) ==
  /\ Room(c)
  /\ \A i \in DOMAIN txs : TxFine(c, txs[i])
  /\ \A e \in DOMAIN epochs : EpochFine(c, e)
  /\ \A e \in 1 .. c.MaxEpochs : RowFine(c, e)

\* What was sent today is of tokens the sweep has taken.
DayInv ==
  /\ dayDue => ~floatSweep.on /\ \A i \in DOMAIN txs : ~InFlight(i)
  /\ floatSweep.on => \A i \in DOMAIN txs : InFlight(i) => txs[i].token \notin floatSweep.left
  /\ ~floatSweep.on => run.at = "idle"

Decides ==
  /\ IF run.current = 0 THEN \A e \in DOMAIN epochs : epochs[e].token # run.token ELSE Newest(run.current, run.token)
  /\ IF run.row = 0 THEN NoneWaits(run.token)
     ELSE run.row \in DOMAIN epochs /\ epochs[run.row].token = run.token /\ Waits(run.row)
Opens ==
  /\ run.row = 0 /\ run.tx \in DOMAIN txs /\ txs[run.tx].kind = "open" /\ txs[run.tx].token = run.token
  /\ \A i \in DOMAIN txs : InFlight(i) /\ txs[i].token = run.token => i = run.tx
  /\ NoneWaits(run.token)
  /\ txs[run.tx].status = "ok" => Newest(txs[run.tx].epoch, run.token) /\ ~HasRow(txs[run.tx].epoch)
Works(c) ==
  /\ Newest(run.epoch, run.token) /\ HasRow(run.epoch) /\ NoOpening(run.token)
  /\ run.row \in {0, run.epoch} /\ (run.row = 0 => distributions[run.epoch].rate = run.rate)
  /\ run.at \notin {"capture", "capturing"} => epochs[run.epoch].supply # 0
  /\ run.at = "fund" =>
       /\ run.fundRate = distributions[run.epoch].rate
       /\ Fitting(c, epochs[run.epoch].supply, run.fundRate, run.amount)
  /\ run.at = "capturing" => run.tx \in DOMAIN txs /\ txs[run.tx].kind = "capture" /\ txs[run.tx].epoch = run.epoch
  /\ run.at \in {"sent", "waiting"} =>
       run.tx \in DOMAIN txs /\ txs[run.tx].kind = "fund" /\ txs[run.tx].epoch = run.epoch
  /\ run.at = "closing" => epochs[run.epoch].funded

\* A run knows its token's newest epoch: nothing of the token is in flight
\* but what the run itself has sent.
Working == {"capture", "capturing", "size", "fund", "sent", "waiting", "closing"}
RunInv(c) ==
  /\ run.epoch \in {0} \cup DOMAIN epochs
  /\ run.at # "idle" => run.token \notin floatSweep.left
  /\ run.at \in {"read", "decide"} => Quiet(run.token)
  /\ run.at = "decide" => Decides
  /\ run.at = "opening" => Opens
  /\ run.at \in Working => Works(c)

\* The inductive invariant of the epochs.
YieldInv(c) == YieldTyped(c) /\ ChainInv(c) /\ DayInv /\ RunInv(c)

\* Where only calls before their effect fail, and the process may be killed: at
\* most one funding is in flight, its amount is there, and the float ledger
\* does not promise more than there is.
FloatInv(c) ==
  /\ \A e \in DOMAIN epochs : epochs[e].funded => epochs[e].paid = epochs[e].amount
  /\ \A i, j \in DOMAIN txs : InFlight(i) /\ txs[i].kind = "fund" /\ InFlight(j) /\ txs[j].kind = "fund" => i = j
  /\ \A i \in DOMAIN txs : InFlight(i) /\ txs[i].kind = "fund" =>
       txs[i].amount <= balance /\ (floatSweep.on => run.at \in {"sent", "waiting"} /\ run.tx = i)
  /\ floatSweep.on =>
       IF run.at \in {"sent", "waiting"} /\ txs[run.tx].status = "ok" THEN floatSweep.ledger <= balance + run.amount
       ELSE floatSweep.ledger <= balance
  /\ run.at \in {"fund", "sent", "waiting"} => run.amount <= floatSweep.ledger
  /\ run.at \in {"sent", "waiting"} => run.amount = txs[run.tx].amount

LEMMA YieldMin ==
  ASSUME NEW c, NEW a \in Nat, NEW b \in Nat
  PROVE  Yield(c)!Min({a, b}) \in {a, b} /\ Yield(c)!Min({a, b}) <= a /\ Yield(c)!Min({a, b}) <= b
<1>1. \E x \in {a, b} : \A y \in {a, b} : x <= y
  <2>1. CASE a <= b
    BY <2>1
  <2>2. CASE b <= a
    BY <2>2
  <2> QED BY <2>1, <2>2
<1> QED BY <1>1 DEF Yield!Min

\* The latest of some epochs, or none.
LEMMA YieldMax ==
  ASSUME NEW c, NEW n \in Nat, NEW S \in SUBSET (1 .. n)
  PROVE  LET m == Yield(c)!Max({0} \cup S)
         IN  m \in {0} \cup S /\ \A e \in S : e <= m
<1> DEFINE Over == {k \in Nat : \A e \in S : e <= k}
<1>1. Over \in SUBSET Nat /\ n \in Over
  OBVIOUS
<1>2. PICK k \in Over : \A j \in Over : k <= j
  <2> HIDE DEF Over
  <2> QED BY <1>1, LeastOf
<1>3. k \in {0} \cup S
  <2> SUFFICES ASSUME k \notin {0} \cup S PROVE FALSE
    OBVIOUS
  <2>1. k \in Nat /\ k # 0 /\ \A e \in S : e <= k /\ e # k
    OBVIOUS
  <2>2. k - 1 \in Nat /\ \A e \in S : e <= k - 1
    BY <2>1
  <2>3. k - 1 \in Over
    BY <2>2
  <2>4. k <= k - 1
    BY <1>2, <2>3
  <2> QED BY <2>1, <2>4
<1>4. \E x \in {0} \cup S : \A y \in {0} \cup S : x >= y
  <2>1. \A y \in {0} \cup S : k >= y
    OBVIOUS
  <2> QED BY <1>3, <2>1
<1>5. LET m == Yield(c)!Max({0} \cup S) IN m \in {0} \cup S /\ \A y \in {0} \cup S : m >= y
  BY <1>4 DEF Yield!Max
<1> QED BY <1>5

LEMMA FitNat ==
  ASSUME NEW c, Yield(c)!YieldAssumption, NEW s \in Nat, NEW rate \in Nat
  PROVE  /\ Fit(c, s, rate) \in Nat /\ Yield(c)!Estimate(rate) \in Nat
         /\ ~c.SnapshotBased => Fit(c, s, rate) = Yield(c)!Estimate(rate)
<1>1. c.Cap \in Nat /\ c.RateScale \in Nat \ {0}
  BY DEF Yield!YieldAssumption
<1>2. Yield(c)!Min({s, c.Cap}) \in Nat
  <2>1. \A m \in Nat : Yield(c)!Min({s, m}) \in Nat
    <3> TAKE m \in Nat
    <3>1. Yield(c)!Min({s, m}) \in {s, m}
      BY YieldMin
    <3> QED BY <3>1
  <2> QED BY <1>1, <2>1
<1>3. PICK base : base = (IF c.SnapshotBased THEN Yield(c)!Min({s, c.Cap}) ELSE c.Cap)
  OBVIOUS
<1>4. base \in Nat
  BY <1>1, <1>2, <1>3
<1>5. \A n \in Nat : n * rate \in Nat /\ (n * rate) \div c.RateScale \in Nat
  <2> TAKE n \in Nat
  <2>1. PICK x \in Nat, d \in Nat \ {0} : x = n * rate /\ d = c.RateScale
    BY <1>1
  <2>2. x \div d \in Nat
    OBVIOUS
  <2> QED BY <2>1, <2>2
<1>6. Fit(c, s, rate) = (base * rate) \div c.RateScale
  BY <1>3 DEF Fit, Yield!Sized
<1>7. Yield(c)!Estimate(rate) = (c.Cap * rate) \div c.RateScale
  BY DEF Yield!Estimate
<1>8. ~c.SnapshotBased => base = c.Cap
  BY <1>3
<1> QED BY <1>1, <1>4, <1>5, <1>6, <1>7, <1>8

LEMMA YieldStarts ==
  ASSUME NEW c, Yield(c)!YieldAssumption, Yield(c)!Init
  PROVE  YieldInv(c)
<1>0. c.MaxEpochs \in Nat /\ c.Float \in Nat
  BY DEF Yield!YieldAssumption
<1>1. /\ epochs = <<>> /\ txs = <<>> /\ distributions = [e \in 1 .. c.MaxEpochs |-> Yield(c)!NoRow]
      /\ balance = c.Float /\ dayDue = TRUE /\ floatSweep = Yield(c)!Asleep /\ run = Yield(c)!Idle
  BY DEF Yield!Init
<1>2. /\ Len(epochs) = 0 /\ DOMAIN epochs = {} /\ DOMAIN txs = {}
      /\ \A e \in 1 .. c.MaxEpochs : ~HasRow(e)
      /\ run.at = "idle" /\ run.epoch = 0 /\ ~floatSweep.on
  BY <1>1 DEF HasRow, Yield!NoRow, Yield!Idle, Yield!Asleep
<1>3. YieldTyped(c)
  <2>1. epochs \in Seq(EpochRecord(c)) /\ txs \in Seq(TxRecord(c))
    BY <1>1
  <2>2. distributions \in [1 .. c.MaxEpochs -> Distribution]
    BY <1>1 DEF Distribution, Yield!NoRow
  <2>3. floatSweep \in [on : BOOLEAN, left : SUBSET c.Tokens, ledger : Nat]
    BY <1>1 DEF Yield!Asleep
  <2>4. run \in RunRecord(c)
    BY <1>1 DEF RunRecord, Yield!Idle, YieldPlaces, YieldToken
  <2> QED BY <1>0, <1>1, <2>1, <2>2, <2>3, <2>4 DEF YieldTyped
<1>4. ChainInv(c)
  <2>1. {i \in DOMAIN txs : InFlight(i) /\ txs[i].kind = "open"} = {}
    BY <1>2
  <2>2. Cardinality({i \in DOMAIN txs : InFlight(i) /\ txs[i].kind = "open"}) = 0
    BY <2>1, FS_EmptySet
  <2>3. Room(c)
    BY <1>0, <1>2, <2>2 DEF Room
  <2> QED BY <1>2, <2>3 DEF ChainInv, RowFine
<1>5. DayInv
  BY <1>2 DEF DayInv
<1>6. RunInv(c)
  BY <1>2 DEF RunInv, Working
<1> QED BY <1>3, <1>4, <1>5, <1>6 DEF YieldInv

\* Every step keeps what nothing it changes is about.
LEMMA ChainRests ==
  ASSUME NEW c, ChainInv(c), UNCHANGED <<epochs, txs, distributions>>
  PROVE  ChainInv(c)'
BY DEF ChainInv, Room, TxFine, EpochFine, RowFine, InFlight, HasRow, Waits, Newest, NoOpening

LEMMA YieldStutters ==
  ASSUME NEW c, YieldInv(c), UNCHANGED yieldVars
  PROVE  YieldInv(c)'
<1>1. /\ epochs' = epochs /\ txs' = txs /\ distributions' = distributions /\ balance' = balance
      /\ dayDue' = dayDue /\ floatSweep' = floatSweep /\ run' = run
  BY DEF yieldVars
<1>2. YieldTyped(c)'
  BY <1>1 DEF YieldInv, YieldTyped
<1>3. ChainInv(c)'
  BY <1>1, ChainRests DEF YieldInv
<1>4. DayInv'
  BY <1>1 DEF YieldInv, DayInv, InFlight
<1>5. RunInv(c)'
  BY <1>1 DEF YieldInv, RunInv, Working, Quiet, Decides, Opens, Works, InFlight, HasRow, Waits, Newest, NoneWaits, NoOpening
<1> QED BY <1>2, <1>3, <1>4, <1>5 DEF YieldInv

\* A row that may be written of an epoch: its rate is the one that was there,
\* unless nothing is funded or in flight at another.
Proper(c, e, w) ==
  /\ w.status # "none"
  /\ HasRow(e) => w.rate = distributions[e].rate \/ (~epochs[e].funded /\ Quiet(epochs[e].token))
  /\ w.status = "success" => epochs[e].funded
  /\ ~c.SnapshotBased => w.amount = Yield(c)!Estimate(w.rate)
  /\ w.status = "funded_no_audit" => w.tx \in DOMAIN txs /\ txs[w.tx].kind = "fund" /\ txs[w.tx].epoch = e
  /\ w.status \notin {"success", "failure"} => Newest(e, epochs[e].token) /\ NoOpening(epochs[e].token)

LEMMA AuditWritten ==
  ASSUME NEW c, YieldTyped(c), ChainInv(c), c.MaxEpochs \in Nat, NEW e \in DOMAIN epochs, NEW w \in Distribution,
         distributions' = [distributions EXCEPT ![e] = w], UNCHANGED <<epochs, txs>>, Proper(c, e, w)
  PROVE  /\ ChainInv(c)' /\ distributions' \in [1 .. c.MaxEpochs -> Distribution]
         /\ distributions'[e] = w /\ \A f \in DOMAIN epochs : f # e => distributions'[f] = distributions[f]
<1>1. /\ distributions \in [1 .. c.MaxEpochs -> Distribution] /\ epochs \in Seq(EpochRecord(c)) /\ txs \in Seq(TxRecord(c))
      /\ Len(epochs) <= c.MaxEpochs
  BY DEF YieldTyped, ChainInv, Room
<1>2. DOMAIN epochs = 1 .. Len(epochs) /\ Len(epochs) \in Nat /\ \A f \in DOMAIN epochs : f \in 1 .. c.MaxEpochs
  BY <1>1
<1>3. /\ distributions' \in [1 .. c.MaxEpochs -> Distribution] /\ distributions'[e] = w
      /\ \A f \in 1 .. c.MaxEpochs : f # e => distributions'[f] = distributions[f]
  BY <1>1, <1>2
<1>4. Room(c)'
  BY DEF ChainInv, Room, InFlight
<1>5. ASSUME NEW i \in DOMAIN txs PROVE TxFine(c, txs[i])'
  <2>1. TxFine(c, txs[i]) /\ txs' = txs /\ epochs' = epochs
    BY DEF ChainInv
  <2> DEFINE x == txs[i]
  <2>2. ASSUME x.kind = "fund" PROVE HasRow(x.epoch)' /\ (x.status = "pending" => x.rate = distributions'[x.epoch].rate)
    <3>1. /\ x.epoch \in DOMAIN epochs /\ epochs[x.epoch].token = x.token /\ HasRow(x.epoch)
          /\ x.status = "pending" => x.rate = distributions[x.epoch].rate
      BY <2>1, <2>2 DEF TxFine
    <3>2. CASE x.epoch = e
      <4>1. x.status = "pending" => ~Quiet(epochs[e].token)
        BY <3>1, <3>2 DEF Quiet, InFlight
      <4> QED BY <1>3, <3>1, <3>2, <4>1 DEF HasRow, Proper
    <3>3. CASE x.epoch # e
      BY <1>2, <1>3, <3>1, <3>3 DEF HasRow
    <3> QED BY <3>2, <3>3
  <2> QED BY <2>1, <2>2 DEF TxFine
<1>6. ASSUME NEW f \in DOMAIN epochs PROVE EpochFine(c, f)'
  <2>1. EpochFine(c, f) /\ epochs' = epochs
    BY DEF ChainInv
  <2>2. CASE f = e
    BY <1>3, <2>1, <2>2 DEF EpochFine, HasRow, Proper
  <2>3. CASE f # e
    BY <1>2, <1>3, <2>1, <2>3 DEF EpochFine, HasRow
  <2> QED BY <2>2, <2>3
<1>7. ASSUME NEW f \in 1 .. c.MaxEpochs PROVE RowFine(c, f)'
  <2>1. RowFine(c, f) /\ epochs' = epochs /\ txs' = txs
    BY DEF ChainInv
  <2>2. CASE f = e
    BY <1>3, <2>1, <2>2 DEF RowFine, HasRow, Proper, Waits, Newest, NoOpening, InFlight
  <2>3. CASE f # e
    BY <1>3, <2>1, <2>3 DEF RowFine, HasRow, Waits, Newest, NoOpening, InFlight
  <2> QED BY <2>2, <2>3
<1>8. ChainInv(c)'
  BY <1>4, <1>5, <1>6, <1>7 DEF ChainInv
<1> QED BY <1>2, <1>3, <1>8

\* A transaction is sent.
LEMMA TxSent ==
  ASSUME NEW c, YieldTyped(c), ChainInv(c), c.MaxEpochs \in Nat, NEW x \in TxRecord(c), x.status = "pending",
         txs' = Append(txs, x), UNCHANGED <<epochs, distributions>>, TxFine(c, x),
         x.kind = "open" =>
           /\ NoneWaits(x.token)
           /\ Len(epochs) + Cardinality({i \in DOMAIN txs : InFlight(i) /\ txs[i].kind = "open"}) < c.MaxEpochs
  PROVE  /\ ChainInv(c)' /\ txs' \in Seq(TxRecord(c)) /\ DOMAIN txs' = DOMAIN txs \cup {Len(txs) + 1}
         /\ Len(txs) + 1 \notin DOMAIN txs /\ txs'[Len(txs) + 1] = x /\ \A i \in DOMAIN txs : txs'[i] = txs[i]
<1>1. /\ txs \in Seq(TxRecord(c)) /\ epochs \in Seq(EpochRecord(c)) /\ Len(epochs) <= c.MaxEpochs
  BY DEF YieldTyped, ChainInv, Room
<1> DEFINE n == Len(txs) + 1
<1>2. /\ txs' \in Seq(TxRecord(c)) /\ DOMAIN txs' = DOMAIN txs \cup {n} /\ n \notin DOMAIN txs
      /\ txs'[n] = x /\ \A i \in DOMAIN txs : txs'[i] = txs[i]
  BY <1>1
<1> HIDE DEF n
<1> DEFINE Openings == {i \in DOMAIN txs : InFlight(i) /\ txs[i].kind = "open"}
<1>3. IsFiniteSet(Openings) /\ Cardinality(Openings) \in Nat
  <2>1. IsFiniteSet(DOMAIN txs)
    <3>1. IsFiniteSet(1 .. Len(txs))
      BY <1>1, FS_Interval
    <3> QED BY <1>1, <3>1
  <2>2. IsFiniteSet(Openings)
    BY <2>1, FS_Subset
  <2> QED BY <2>2, FS_CardinalityType
<1>4. Room(c)'
  <2>1. CASE x.kind = "open"
    <3>1. Openings' = Openings \cup {n} /\ n \notin Openings
      BY <1>2, <2>1 DEF InFlight
    <3>2. Cardinality(Openings') = Cardinality(Openings) + 1
      BY <1>3, <3>1, FS_AddElement
    <3>3. Len(epochs) + Cardinality(Openings) < c.MaxEpochs
      BY <2>1
    <3>4. Len(epochs) \in Nat
      BY <1>1
    <3> HIDE DEF Openings
    <3>5. Len(epochs)' <= c.MaxEpochs /\ Len(epochs)' + Cardinality(Openings') <= c.MaxEpochs
      BY <1>1, <1>3, <3>2, <3>3, <3>4
    <3> QED BY <3>5 DEF Room, Openings
  <2>2. CASE x.kind # "open"
    <3>1. Openings' = Openings
      BY <1>2, <2>2 DEF InFlight
    <3> QED BY <3>1 DEF ChainInv, Room
  <2> QED BY <2>1, <2>2
<1>5. ASSUME NEW i \in DOMAIN txs' PROVE TxFine(c, txs[i])'
  <2>1. CASE i = n
    BY <1>2, <2>1 DEF TxFine, HasRow
  <2>2. CASE i \in DOMAIN txs
    BY <1>2, <2>2 DEF ChainInv, TxFine, HasRow
  <2> QED BY <1>2, <2>1, <2>2
<1>6. ASSUME NEW f \in DOMAIN epochs PROVE EpochFine(c, f)'
  BY <1>6 DEF ChainInv, EpochFine, HasRow
<1>7. ASSUME NEW f \in 1 .. c.MaxEpochs PROVE RowFine(c, f)'
  <2>1. RowFine(c, f) /\ epochs' = epochs /\ distributions' = distributions
    BY DEF ChainInv
  <2>2. ASSUME Waits(f), HasRow(f) PROVE NoOpening(epochs[f].token)'
    <3>1. NoOpening(epochs[f].token) /\ f \in DOMAIN epochs
      BY <2>1, <2>2 DEF RowFine
    <3>2. x.kind = "open" => x.token # epochs[f].token
      BY <2>2, <3>1 DEF NoneWaits
    <3> QED BY <1>2, <2>1, <3>1, <3>2 DEF NoOpening, InFlight
  <2>3. HasRow(f) => /\ distributions[f].status = "funded_no_audit" =>
                          /\ distributions[f].tx \in DOMAIN txs' /\ txs'[distributions[f].tx].kind = "fund"
                          /\ txs'[distributions[f].tx].epoch = f
    BY <1>2, <2>1 DEF RowFine
  <2> QED BY <2>1, <2>2, <2>3 DEF RowFine, HasRow, Waits, Newest
<1>8. ChainInv(c)'
  BY <1>4, <1>5, <1>6, <1>7 DEF ChainInv
<1> QED BY <1>2, <1>8 DEF n

LEMMA TxMarked ==
  ASSUME NEW c, NEW y \in TxRecord(c), NEW s, NEW n
  PROVE  /\ [y EXCEPT !.status = s] =
              [kind |-> y.kind, token |-> y.token, epoch |-> y.epoch, rate |-> y.rate, amount |-> y.amount, status |-> s]
         /\ [y EXCEPT !.status = s, !.epoch = n] =
              [kind |-> y.kind, token |-> y.token, epoch |-> n, rate |-> y.rate, amount |-> y.amount, status |-> s]
<1> DEFINE y1 == [kind |-> y.kind, token |-> y.token, epoch |-> y.epoch, rate |-> y.rate, amount |-> y.amount,
                  status |-> s]
           y2 == [kind |-> y.kind, token |-> y.token, epoch |-> n, rate |-> y.rate, amount |-> y.amount, status |-> s]
<1>1. [y EXCEPT !.status = s] = y1
  BY DEF TxRecord
<1>2. [y1 EXCEPT !.epoch = n] = y2
  OBVIOUS
<1>3. [y EXCEPT !.status = s, !.epoch = n] = y2
  <2> HIDE DEF y1, y2
  <2> QED BY <1>1, <1>2
<1> QED BY <1>1, <1>3

\* A transaction is mined, so that it is in flight no more.
LEMMA TxMined ==
  ASSUME NEW c, YieldTyped(c), NEW i \in DOMAIN txs, InFlight(i), NEW x \in TxRecord(c), x.status # "pending",
         x.kind = txs[i].kind, x.token = txs[i].token, txs' = [txs EXCEPT ![i] = x]
  PROVE  /\ txs' \in Seq(TxRecord(c)) /\ DOMAIN txs' = DOMAIN txs /\ txs'[i] = x
         /\ \A j \in DOMAIN txs : j # i => txs'[j] = txs[j]
         /\ \A j \in DOMAIN txs : InFlight(j)' <=> InFlight(j) /\ j # i
         /\ LET openings == {j \in DOMAIN txs : InFlight(j) /\ txs[j].kind = "open"}
            IN  /\ Cardinality(openings) \in Nat /\ Cardinality(openings') \in Nat
                /\ Cardinality(openings') =
                     (IF x.kind = "open" THEN Cardinality(openings) - 1 ELSE Cardinality(openings))
<1>1. txs \in Seq(TxRecord(c))
  BY DEF YieldTyped
<1>2. /\ txs' \in Seq(TxRecord(c)) /\ DOMAIN txs' = DOMAIN txs /\ txs'[i] = x
      /\ \A j \in DOMAIN txs : j # i => txs'[j] = txs[j]
  BY <1>1
<1>3. \A j \in DOMAIN txs : InFlight(j)' <=> InFlight(j) /\ j # i
  BY <1>2 DEF InFlight
<1> DEFINE Openings == {j \in DOMAIN txs : InFlight(j) /\ txs[j].kind = "open"}
<1>4. IsFiniteSet(Openings)
  <2>1. IsFiniteSet(DOMAIN txs)
    <3>1. Len(txs) \in Int /\ 1 \in Int /\ DOMAIN txs = 1 .. Len(txs)
      BY <1>1
    <3>2. IsFiniteSet(1 .. Len(txs))
      BY <3>1, FS_Interval
    <3> QED BY <3>1, <3>2
  <2> QED BY <2>1, FS_Subset
<1>5. Cardinality(Openings') = (IF x.kind = "open" THEN Cardinality(Openings) - 1 ELSE Cardinality(Openings))
  <2>1. CASE x.kind = "open"
    <3>1. Openings' = Openings \ {i} /\ i \in Openings
      BY <1>2, <1>3, <2>1
    <3> HIDE DEF Openings
    <3>2. Cardinality(Openings') = Cardinality(Openings) - 1
      BY <1>4, <3>1, FS_RemoveElement
    <3> QED BY <2>1, <3>2
  <2>2. CASE x.kind # "open"
    <3>1. Openings' = Openings
      BY <1>2, <1>3, <2>2
    <3> HIDE DEF Openings
    <3> QED BY <2>2, <3>1
  <2> QED BY <2>1, <2>2
<1>6. Cardinality(Openings) \in Nat /\ Cardinality(Openings') \in Nat
  <2>1. IsFiniteSet(Openings')
    <3>1. Openings' \subseteq Openings
      BY <1>2, <1>3
    <3> HIDE DEF Openings
    <3> QED BY <1>4, <3>1, FS_Subset
  <2> HIDE DEF Openings
  <2> QED BY <1>4, <2>1, FS_CardinalityType
<1> QED BY <1>2, <1>3, <1>5, <1>6

\* What a run knows stays so while transactions are mined, unless it is its own
\* opening that is.
LEMMA MinedRun ==
  ASSUME NEW c, YieldTyped(c), RunInv(c), DayInv, NEW i \in DOMAIN txs, InFlight(i),
         txs' \in Seq(TxRecord(c)), DOMAIN txs' = DOMAIN txs, \A j \in DOMAIN txs : j # i => txs'[j] = txs[j],
         \A j \in DOMAIN txs : InFlight(j)' <=> InFlight(j) /\ j # i,
         txs'[i].kind = txs[i].kind, txs'[i].token = txs[i].token,
         txs'[i].kind # "open" => txs'[i].epoch = txs[i].epoch,
         UNCHANGED <<distributions, run, floatSweep>>,
         DOMAIN epochs \subseteq DOMAIN epochs',
         \A e \in DOMAIN epochs : epochs'[e].token = epochs[e].token,
         \A e \in DOMAIN epochs : epochs[e].supply # 0 => epochs'[e].supply = epochs[e].supply,
         \A e \in DOMAIN epochs : epochs[e].funded => epochs'[e].funded,
         \A e \in DOMAIN epochs' : e \notin DOMAIN epochs =>
           /\ epochs'[e].token = txs[i].token /\ txs[i].kind = "open" /\ ~HasRow(e)
           /\ \A f \in DOMAIN epochs' : f <= e,
         txs[i].kind = "open" => txs'[i].epoch \notin DOMAIN epochs /\ txs'[i].epoch \in DOMAIN epochs'
  PROVE  RunInv(c)'
<1>1. run.epoch \in {0} \cup DOMAIN epochs'
  BY DEF RunInv
<1>2. run.at # "idle" => run.token \notin floatSweep'.left
  BY DEF RunInv
<1>3. run.at \in {"read", "decide"} => Quiet(run.token)'
  BY DEF RunInv, Quiet
<1>4. ASSUME NEW t, \A j \in DOMAIN txs : InFlight(j) /\ txs[j].kind = "open" => txs[j].token # t
      PROVE  /\ \A e \in DOMAIN epochs' : epochs'[e].token = t => e \in DOMAIN epochs /\ epochs[e].token = t
             /\ NoOpening(t)'
  BY <1>4 DEF NoOpening
<1>5. ASSUME run.at = "decide" PROVE Decides'
  <2>1. Quiet(run.token) /\ Decides
    BY <1>5 DEF RunInv
  <2>2. \A e \in DOMAIN epochs' : epochs'[e].token = run.token => e \in DOMAIN epochs /\ epochs[e].token = run.token
    BY <1>4, <2>1 DEF Quiet
  <2> QED BY <2>1, <2>2 DEF Decides, Newest, NoneWaits, Waits
<1>6. ASSUME run.at = "opening" PROVE Opens'
  <2>1. Opens
    BY <1>6 DEF RunInv
  <2>2. /\ run.row = 0 /\ run.tx \in DOMAIN txs' /\ txs'[run.tx].kind = "open" /\ txs'[run.tx].token = run.token
        /\ \A j \in DOMAIN txs' : InFlight(j)' /\ txs'[j].token = run.token => j = run.tx
    BY <2>1 DEF Opens
  <2>3. NoneWaits(run.token)'
    BY <2>1 DEF Opens, NoneWaits, Waits, HasRow
  <2>4. ASSUME txs'[run.tx].status = "ok" PROVE Newest(txs[run.tx].epoch, run.token)' /\ ~HasRow(txs'[run.tx].epoch)
    <3>1. CASE run.tx = i
      BY <2>1, <3>1 DEF Opens, Newest
    <3>2. CASE run.tx # i
      <4>1. txs[i].token # run.token
        BY <2>1, <3>2 DEF Opens
      <4>2. Newest(txs[run.tx].epoch, run.token) /\ ~HasRow(txs[run.tx].epoch) /\ txs'[run.tx] = txs[run.tx]
        BY <2>1, <2>4, <3>2 DEF Opens
      <4> QED BY <4>1, <4>2 DEF Newest
    <3> QED BY <3>1, <3>2
  <2> QED BY <2>2, <2>3, <2>4 DEF Opens, HasRow
<1>7. ASSUME run.at \in Working PROVE Works(c)'
  <2>1. Works(c)
    BY <1>7 DEF RunInv
  <2>2. /\ NoOpening(run.token)'
        /\ \A e \in DOMAIN epochs' : epochs'[e].token = run.token => e \in DOMAIN epochs /\ epochs[e].token = run.token
    BY <1>4, <2>1 DEF Works, NoOpening
  <2>3. Newest(run.epoch, run.token)' /\ run.epoch \in DOMAIN epochs
    BY <2>1, <2>2 DEF Works, Newest
  <2> QED BY <2>1, <2>2, <2>3 DEF Works, HasRow
<1> QED BY <1>1, <1>2, <1>3, <1>5, <1>6, <1>7 DEF RunInv, Working

LEMMA MinedDay ==
  ASSUME DayInv, NEW i \in DOMAIN txs,
         DOMAIN txs' = DOMAIN txs, \A j \in DOMAIN txs : j # i => txs'[j] = txs[j],
         \A j \in DOMAIN txs : InFlight(j)' <=> InFlight(j) /\ j # i,
         UNCHANGED <<run, floatSweep, dayDue>>
  PROVE  DayInv'
BY DEF DayInv

LEMMA MineOpened ==
  ASSUME NEW c, YieldInv(c), c.MaxEpochs \in Nat, NEW i \in DOMAIN txs, InFlight(i), txs[i].kind = "open",
         Yield(c)!Opened(i), UNCHANGED <<distributions, dayDue, floatSweep, run>>
  PROVE  YieldInv(c)'
<1>1. /\ epochs \in Seq(EpochRecord(c)) /\ txs \in Seq(TxRecord(c)) /\ txs[i] \in TxRecord(c)
      /\ Len(epochs) \in Nat /\ YieldTyped(c) /\ ChainInv(c) /\ DayInv /\ RunInv(c)
  BY DEF YieldInv, YieldTyped
<1> DEFINE n == Len(epochs) + 1
           new == [token |-> txs[i].token, supply |-> 0, funded |-> FALSE, rate |-> 0, amount |-> 0, paid |-> 0]
           x == [kind |-> txs[i].kind, token |-> txs[i].token, epoch |-> n, rate |-> txs[i].rate,
                 amount |-> txs[i].amount, status |-> "ok"]
<1>2. /\ x \in TxRecord(c) /\ x.status = "ok" /\ x.kind = "open" /\ x.token = txs[i].token /\ x.epoch = n
      /\ new \in EpochRecord(c) /\ new.token = txs[i].token /\ new.supply = 0 /\ ~new.funded
  BY <1>1 DEF TxRecord, EpochRecord
<1>3. txs' = [txs EXCEPT ![i] = x] /\ epochs' = Append(epochs, new) /\ balance' = balance
  <2>1. [txs[i] EXCEPT !.status = "ok", !.epoch = n] = x
    BY <1>1, TxMarked
  <2>2. /\ txs' = [txs EXCEPT ![i].status = "ok", ![i].epoch = n] /\ epochs' = Append(epochs, new)
        /\ balance' = balance
    BY DEF Yield!Opened
  <2> HIDE DEF x
  <2>3. [txs EXCEPT ![i].status = "ok", ![i].epoch = n] = [txs EXCEPT ![i] = x]
    BY <1>1, <2>1
  <2> QED BY <2>2, <2>3
<1> HIDE DEF x, new
<1>4. /\ epochs' \in Seq(EpochRecord(c)) /\ Len(epochs') = n /\ DOMAIN epochs' = DOMAIN epochs \cup {n}
      /\ n \notin DOMAIN epochs /\ epochs'[n] = new /\ \A e \in DOMAIN epochs : epochs'[e] = epochs[e] /\ e <= n
  BY <1>1, <1>2, <1>3
<1> HIDE DEF n
<1>5. /\ txs' \in Seq(TxRecord(c)) /\ DOMAIN txs' = DOMAIN txs /\ txs'[i] = x
      /\ \A j \in DOMAIN txs : j # i => txs'[j] = txs[j]
      /\ \A j \in DOMAIN txs : InFlight(j)' <=> InFlight(j) /\ j # i
      /\ LET openings == {j \in DOMAIN txs : InFlight(j) /\ txs[j].kind = "open"}
         IN  /\ Cardinality(openings) \in Nat /\ Cardinality(openings') \in Nat
             /\ Cardinality(openings') = Cardinality(openings) - 1
  BY <1>1, <1>2, <1>3, TxMined
<1>6. Room(c)' /\ n <= c.MaxEpochs
  <2>1. Room(c)
    BY <1>1 DEF ChainInv
  <2>2. Len(epochs)' = Len(epochs) + 1 /\ n = Len(epochs) + 1
    BY <1>4 DEF n
  <2> QED BY <1>1, <1>5, <2>1, <2>2 DEF Room
<1>7. n \in 1 .. c.MaxEpochs /\ ~HasRow(n)
  <2>1. n \in 1 .. c.MaxEpochs
    BY <1>1, <1>6 DEF n
  <2> QED BY <1>1, <1>4, <2>1 DEF ChainInv, RowFine
<1>8. DOMAIN epochs \subseteq DOMAIN epochs' /\ \A e \in DOMAIN epochs' : e \in DOMAIN epochs \/ e = n
  BY <1>4
<1>9. RunInv(c)'
  <2>1. /\ txs'[i].kind = txs[i].kind /\ txs'[i].token = txs[i].token
        /\ txs'[i].kind # "open" => txs'[i].epoch = txs[i].epoch
        /\ txs[i].kind = "open" => txs'[i].epoch \notin DOMAIN epochs /\ txs'[i].epoch \in DOMAIN epochs'
    BY <1>2, <1>4, <1>5
  <2>2. /\ \A e \in DOMAIN epochs : epochs'[e].token = epochs[e].token
        /\ \A e \in DOMAIN epochs : epochs[e].supply # 0 => epochs'[e].supply = epochs[e].supply
        /\ \A e \in DOMAIN epochs : epochs[e].funded => epochs'[e].funded
    BY <1>4
  <2>3. \A e \in DOMAIN epochs' : e \notin DOMAIN epochs =>
           /\ epochs'[e].token = txs[i].token /\ txs[i].kind = "open" /\ ~HasRow(e)
           /\ \A f \in DOMAIN epochs' : f <= e
    <3>1. n <= n
      BY <1>7
    <3> QED BY <1>2, <1>4, <1>7, <1>8, <3>1
  <2> QED BY <1>1, <1>5, <1>8, <2>1, <2>2, <2>3, MinedRun
<1>10. DayInv'
  BY <1>1, <1>5, MinedDay
<1>11. ASSUME NEW j \in DOMAIN txs PROVE TxFine(c, txs[j])'
  <2>1. CASE j = i
    BY <1>2, <1>4, <1>5, <2>1 DEF TxFine
  <2>2. CASE j # i
    <3>1. TxFine(c, txs[j]) /\ txs'[j] = txs[j] /\ distributions' = distributions
      BY <1>1, <1>5, <2>2 DEF ChainInv
    <3> QED BY <1>4, <3>1 DEF TxFine, HasRow
  <2> QED BY <2>1, <2>2
<1>12. ASSUME NEW e \in DOMAIN epochs' PROVE EpochFine(c, e)'
  <2>1. CASE e = n
    BY <1>2, <1>4, <2>1 DEF EpochFine
  <2>2. CASE e \in DOMAIN epochs
    BY <1>1, <1>4, <2>2 DEF ChainInv, EpochFine, HasRow
  <2> QED BY <1>8, <2>1, <2>2
<1>13. ASSUME NEW e \in 1 .. c.MaxEpochs, HasRow(e)' PROVE RowFine(c, e)'
  <2>1. RowFine(c, e) /\ HasRow(e) /\ distributions' = distributions
    BY <1>1, <1>13 DEF ChainInv, HasRow
  <2>2. e \in DOMAIN epochs /\ epochs'[e] = epochs[e] /\ e \in DOMAIN epochs'
    BY <1>4, <2>1 DEF RowFine
  <2>3. distributions[e].status = "funded_no_audit" =>
          /\ distributions[e].tx \in DOMAIN txs' /\ txs'[distributions[e].tx].kind = "fund"
          /\ txs'[distributions[e].tx].epoch = e
    BY <1>2, <1>5, <2>1 DEF RowFine
  <2>4. ASSUME Waits(e) PROVE Newest(e, epochs[e].token)' /\ NoOpening(epochs[e].token)'
    <3>1. Newest(e, epochs[e].token) /\ NoOpening(epochs[e].token)
      BY <2>1, <2>4 DEF RowFine
    <3>2. txs[i].token # epochs[e].token
      BY <3>1 DEF NoOpening
    <3>3. Newest(e, epochs[e].token)'
      BY <1>2, <1>4, <2>2, <3>1, <3>2 DEF Newest
    <3>4. NoOpening(epochs[e].token)'
      BY <1>2, <1>5, <2>2, <3>1 DEF NoOpening
    <3> QED BY <3>3, <3>4
  <2> QED BY <2>1, <2>2, <2>3, <2>4 DEF RowFine, Waits
<1>14. ChainInv(c)'
  <2>1. \A e \in 1 .. c.MaxEpochs : RowFine(c, e)'
    BY <1>13 DEF RowFine
  <2> QED BY <1>5, <1>6, <1>11, <1>12, <2>1 DEF ChainInv
<1>15. YieldTyped(c)'
  BY <1>1, <1>3, <1>4, <1>5 DEF YieldTyped
<1> QED BY <1>9, <1>10, <1>14, <1>15 DEF YieldInv

\* An epoch of a transaction in flight changes: neither its token, nor what is
\* settled of it, nor what its row says.
LEMMA MineOther ==
  ASSUME NEW c, YieldInv(c), c.MaxEpochs \in Nat, NEW i \in DOMAIN txs, InFlight(i), txs[i].kind # "open",
         NEW s, s \in {"ok", "reverted"}, txs' = [txs EXCEPT ![i].status = s],
         UNCHANGED <<distributions, dayDue, floatSweep, run>>, balance' \in Nat,
         epochs' \in Seq(EpochRecord(c)), DOMAIN epochs' = DOMAIN epochs,
         \A e \in DOMAIN epochs : epochs'[e].token = epochs[e].token,
         \A e \in DOMAIN epochs : epochs[e].supply # 0 => epochs'[e].supply = epochs[e].supply,
         \A e \in DOMAIN epochs : epochs[e].funded => epochs'[e] = epochs[e],
         \A e \in DOMAIN epochs : epochs'[e].funded /\ ~epochs[e].funded =>
           /\ epochs[e].supply # 0 /\ Fitting(c, epochs[e].supply, epochs'[e].rate, epochs'[e].amount)
           /\ HasRow(e) /\ epochs'[e].rate = distributions[e].rate,
         s = "ok" /\ txs[i].kind = "capture" => epochs'[txs[i].epoch].supply # 0,
         s = "ok" /\ txs[i].kind = "fund" => epochs'[txs[i].epoch].funded
  PROVE  YieldInv(c)'
<1>1. /\ epochs \in Seq(EpochRecord(c)) /\ txs \in Seq(TxRecord(c)) /\ txs[i] \in TxRecord(c)
      /\ YieldTyped(c) /\ ChainInv(c) /\ DayInv /\ RunInv(c)
  BY DEF YieldInv, YieldTyped
<1> DEFINE x == [kind |-> txs[i].kind, token |-> txs[i].token, epoch |-> txs[i].epoch, rate |-> txs[i].rate,
                 amount |-> txs[i].amount, status |-> s]
<1>2. /\ x \in TxRecord(c) /\ x.status = s /\ s # "pending" /\ x.kind = txs[i].kind /\ x.token = txs[i].token
      /\ x.epoch = txs[i].epoch /\ x.rate = txs[i].rate /\ x.amount = txs[i].amount
  BY <1>1 DEF TxRecord
<1>3. txs' = [txs EXCEPT ![i] = x]
  <2>1. [txs[i] EXCEPT !.status = s] = x
    BY <1>1 DEF TxRecord
  <2> HIDE DEF x
  <2> QED BY <2>1
<1> HIDE DEF x
<1>4. /\ txs' \in Seq(TxRecord(c)) /\ DOMAIN txs' = DOMAIN txs /\ txs'[i] = x
      /\ \A j \in DOMAIN txs : j # i => txs'[j] = txs[j]
      /\ \A j \in DOMAIN txs : InFlight(j)' <=> InFlight(j) /\ j # i
      /\ LET openings == {j \in DOMAIN txs : InFlight(j) /\ txs[j].kind = "open"}
         IN  Cardinality(openings') = Cardinality(openings)
  BY <1>1, <1>2, <1>3, TxMined
<1>5. Len(epochs') = Len(epochs)
  BY <1>1
<1>6. Room(c)'
  BY <1>1, <1>4, <1>5 DEF ChainInv, Room
<1>7. RunInv(c)'
  <2>1. /\ txs'[i].kind = txs[i].kind /\ txs'[i].token = txs[i].token /\ txs'[i].epoch = txs[i].epoch
        /\ txs[i].kind # "open"
    BY <1>2, <1>4
  <2>2. DOMAIN epochs \subseteq DOMAIN epochs' /\ \A e \in DOMAIN epochs' : e \in DOMAIN epochs
    OBVIOUS
  <2> QED BY <1>1, <1>4, <2>1, <2>2, MinedRun
<1>8. DayInv'
  BY <1>1, <1>4, MinedDay
<1>9. ASSUME NEW j \in DOMAIN txs PROVE TxFine(c, txs[j])'
  <2>1. TxFine(c, txs[j]) /\ distributions' = distributions
    BY <1>1 DEF ChainInv
  <2>2. CASE j = i
    <3>1. TxFine(c, txs[i]) /\ txs'[j] = x
      BY <1>4, <2>1, <2>2
    <3> QED BY <1>2, <2>1, <3>1 DEF TxFine, HasRow
  <2>3. CASE j # i
    <3>1. txs'[j] = txs[j]
      BY <1>4, <2>3
    <3> QED BY <2>1, <3>1 DEF TxFine, HasRow
  <2> QED BY <2>2, <2>3
<1>10. ASSUME NEW e \in DOMAIN epochs PROVE EpochFine(c, e)'
  <2>1. EpochFine(c, e) /\ distributions' = distributions
    BY <1>1 DEF ChainInv
  <2> QED BY <2>1 DEF EpochFine, HasRow
<1>11. ASSUME NEW e \in 1 .. c.MaxEpochs, HasRow(e)' PROVE RowFine(c, e)'
  <2>1. RowFine(c, e) /\ HasRow(e) /\ distributions' = distributions /\ e \in DOMAIN epochs
    BY <1>1, <1>11 DEF ChainInv, HasRow, RowFine
  <2>2. distributions[e].status = "funded_no_audit" =>
          /\ distributions[e].tx \in DOMAIN txs' /\ txs'[distributions[e].tx].kind = "fund"
          /\ txs'[distributions[e].tx].epoch = e
    BY <1>2, <1>4, <2>1 DEF RowFine
  <2>3. ASSUME Waits(e) PROVE Newest(e, epochs[e].token)' /\ NoOpening(epochs[e].token)'
    BY <1>2, <1>4, <2>1, <2>3 DEF RowFine, Newest, NoOpening
  <2> QED BY <2>1, <2>2, <2>3 DEF RowFine, Waits
<1>12. ChainInv(c)'
  <2>1. \A e \in 1 .. c.MaxEpochs : RowFine(c, e)'
    BY <1>11 DEF RowFine
  <2> QED BY <1>4, <1>6, <1>9, <1>10, <2>1 DEF ChainInv
<1>13. YieldTyped(c)'
  BY <1>1, <1>4 DEF YieldTyped
<1> QED BY <1>7, <1>8, <1>12, <1>13 DEF YieldInv

LEMMA YieldMines ==
  ASSUME NEW c, YieldInv(c), Yield(c)!YieldAssumption, Yield(c)!Mine
  PROVE  YieldInv(c)'
<1>0. c.MaxEpochs \in Nat /\ c.Cap \in Nat /\ c.Supplies \subseteq Nat \ {0}
  BY DEF Yield!YieldAssumption
<1>1. /\ epochs \in Seq(EpochRecord(c)) /\ txs \in Seq(TxRecord(c)) /\ balance \in Nat
      /\ YieldTyped(c) /\ ChainInv(c)
  BY DEF YieldInv, YieldTyped
<1>2. PICK i : /\ i = Yield(c)!Min(Yield(c)!Pending)
               /\ \/ txs[i].kind = "open" /\ Yield(c)!Opened(i)
                  \/ txs[i].kind = "capture" /\ Yield(c)!Captured(i)
                  \/ txs[i].kind = "fund" /\ Yield(c)!Funded(i)
                  \/ Yield(c)!Reverted(i)
  BY DEF Yield!Mine
<1>3. Yield(c)!Pending # {} /\ UNCHANGED <<distributions, dayDue, floatSweep, run>>
  BY DEF Yield!Mine
<1>4. i \in DOMAIN txs /\ InFlight(i)
  <2>1. Yield(c)!Pending \in SUBSET Nat
    BY <1>1 DEF Yield!Pending
  <2>2. \E m \in Yield(c)!Pending : \A k \in Yield(c)!Pending : m <= k
    BY <1>3, <2>1, LeastOf
  <2>3. Yield(c)!Min(Yield(c)!Pending) \in Yield(c)!Pending
    BY <2>2 DEF Yield!Min
  <2> QED BY <1>2, <2>3 DEF Yield!Pending, InFlight
<1>5. txs[i] \in TxRecord(c) /\ txs[i].kind \in {"open", "capture", "fund"} /\ TxFine(c, txs[i])
  <2>1. txs[i] \in TxRecord(c)
    BY <1>1, <1>4
  <2> QED BY <1>1, <1>4, <2>1 DEF TxRecord, ChainInv
<1> DEFINE e == txs[i].epoch
<1>6. ASSUME txs[i].kind # "open" PROVE e \in DOMAIN epochs /\ epochs[e] \in EpochRecord(c) /\ EpochFine(c, e)
  BY <1>1, <1>5, <1>6 DEF TxFine, ChainInv
<1>7. CASE txs[i].kind = "open" /\ Yield(c)!Opened(i)
  BY <1>0, <1>3, <1>4, <1>7, MineOpened
<1>8. CASE txs[i].kind = "capture" /\ Yield(c)!Captured(i)
  <2>1. PICK s \in c.Supplies : epochs' = [epochs EXCEPT ![e].supply = s]
    BY <1>8 DEF Yield!Captured
  <2>2. epochs[e].supply = 0 /\ txs' = [txs EXCEPT ![i].status = "ok"] /\ balance' = balance
    BY <1>8 DEF Yield!Captured
  <2>3. e \in DOMAIN epochs /\ epochs[e] \in EpochRecord(c) /\ ~epochs[e].funded
    BY <1>6, <1>8, <2>2 DEF EpochFine
  <2> DEFINE new == [epochs[e] EXCEPT !.supply = s]
  <2>4. new \in EpochRecord(c) /\ new.token = epochs[e].token /\ new.supply = s /\ ~new.funded /\ s # 0
    BY <1>0, <2>3 DEF EpochRecord
  <2>5. epochs' = [epochs EXCEPT ![e] = new]
    BY <2>1
  <2> HIDE DEF new, e
  <2>6. /\ epochs' \in Seq(EpochRecord(c)) /\ DOMAIN epochs' = DOMAIN epochs /\ epochs'[e] = new
        /\ \A f \in DOMAIN epochs : f # e => epochs'[f] = epochs[f]
    BY <1>1, <2>3, <2>4, <2>5
  <2>7. /\ \A f \in DOMAIN epochs : epochs'[f].token = epochs[f].token
        /\ \A f \in DOMAIN epochs : epochs[f].supply # 0 => epochs'[f].supply = epochs[f].supply
        /\ \A f \in DOMAIN epochs : epochs[f].funded => epochs'[f] = epochs[f]
        /\ \A f \in DOMAIN epochs : ~ (epochs'[f].funded /\ ~epochs[f].funded)
    BY <2>2, <2>3, <2>4, <2>6
  <2>8. epochs'[txs[i].epoch].supply # 0 /\ txs[i].kind = "capture" /\ balance' \in Nat
    BY <1>1, <1>8, <2>2, <2>4, <2>6 DEF e
  <2> QED BY <1>0, <1>3, <1>4, <2>2, <2>6, <2>7, <2>8, MineOther
<1>9. CASE txs[i].kind = "fund" /\ Yield(c)!Funded(i)
  <2>1. /\ epochs[e].supply # 0 /\ ~epochs[e].funded /\ txs' = [txs EXCEPT ![i].status = "ok"]
        /\ balance' = balance - Yield(c)!Pulled(txs[i].amount)
        /\ epochs' = [epochs EXCEPT ![e] =
             [@ EXCEPT !.funded = TRUE, !.rate = txs[i].rate, !.amount = txs[i].amount,
                       !.paid = Yield(c)!Pulled(txs[i].amount)]]
    BY <1>9 DEF Yield!Funded
  <2>2. Yield(c)!Pulled(txs[i].amount) \in Nat /\ Yield(c)!Pulled(txs[i].amount) <= balance /\ balance' \in Nat
    BY <1>1, <1>5, <2>1 DEF Yield!Pulled, TxRecord
  <2>3. e \in DOMAIN epochs /\ epochs[e] \in EpochRecord(c)
    BY <1>6, <1>9
  <2> DEFINE new == [epochs[e] EXCEPT !.funded = TRUE, !.rate = txs[i].rate, !.amount = txs[i].amount,
                                     !.paid = Yield(c)!Pulled(txs[i].amount)]
  <2>4. /\ new \in EpochRecord(c) /\ new.token = epochs[e].token /\ new.supply = epochs[e].supply /\ new.funded
        /\ new.rate = txs[i].rate /\ new.amount = txs[i].amount
    <3>1. PICK rate, amount, sum \in Nat : rate = txs[i].rate /\ amount = txs[i].amount /\ sum = Yield(c)!Pulled(txs[i].amount)
      BY <1>5, <2>2 DEF TxRecord
    <3>2. PICK y \in EpochRecord(c) : y = epochs[e]
      BY <2>3
    <3>3. PICK z : z = new
      OBVIOUS
    <3> DEFINE y1 == [y EXCEPT !.funded = TRUE]
               y2 == [y1 EXCEPT !.rate = rate]
               y3 == [y2 EXCEPT !.amount = amount]
               y4 == [y3 EXCEPT !.paid = sum]
    <3>4. z = y4
      BY <3>1, <3>2, <3>3
    <3> HIDE DEF e, new, y2, y3, y4
    <3>5. y1 \in EpochRecord(c) /\ y1.token = y.token /\ y1.supply = y.supply /\ y1.funded
      BY DEF EpochRecord
    <3> HIDE DEF y1
    <3>6. y2 \in EpochRecord(c) /\ y2.token = y1.token /\ y2.supply = y1.supply /\ (y2.funded <=> y1.funded) /\ y2.rate = rate
      BY <3>5 DEF EpochRecord, y2
    <3>7. /\ y3 \in EpochRecord(c) /\ y3.token = y2.token /\ y3.supply = y2.supply /\ (y3.funded <=> y2.funded)
          /\ y3.rate = y2.rate /\ y3.amount = amount
      BY <3>6 DEF EpochRecord, y3
    <3>8. /\ y4 \in EpochRecord(c) /\ y4.token = y3.token /\ y4.supply = y3.supply /\ (y4.funded <=> y3.funded)
          /\ y4.rate = y3.rate /\ y4.amount = y3.amount /\ y4.paid = sum
      BY <3>7 DEF EpochRecord, y4
    <3>9. /\ y4 \in EpochRecord(c) /\ y4.token = y.token /\ y4.supply = y.supply /\ y4.funded
          /\ y4.rate = rate /\ y4.amount = amount
      BY <3>5, <3>6, <3>7, <3>8
    <3> QED BY <3>1, <3>2, <3>3, <3>4, <3>9
  <2>5. epochs' = [epochs EXCEPT ![e] = new]
    BY <2>1
  <2> HIDE DEF new
  <2>6. /\ epochs' \in Seq(EpochRecord(c)) /\ DOMAIN epochs' = DOMAIN epochs /\ epochs'[e] = new
        /\ \A f \in DOMAIN epochs : f # e => epochs'[f] = epochs[f]
    <3> HIDE DEF e
    <3> QED BY <1>1, <2>3, <2>4, <2>5
  <2>7. /\ Fitting(c, epochs[e].supply, new.rate, new.amount) /\ HasRow(e) /\ new.rate = distributions[e].rate
    BY <1>4, <1>5, <1>9, <2>4 DEF TxFine, InFlight
  <2>8. /\ \A f \in DOMAIN epochs : epochs'[f].token = epochs[f].token
        /\ \A f \in DOMAIN epochs : epochs[f].supply # 0 => epochs'[f].supply = epochs[f].supply
        /\ \A f \in DOMAIN epochs : epochs[f].funded => epochs'[f] = epochs[f]
        /\ \A f \in DOMAIN epochs : epochs'[f].funded /\ ~epochs[f].funded =>
              /\ epochs[f].supply # 0 /\ Fitting(c, epochs[f].supply, epochs'[f].rate, epochs'[f].amount)
              /\ HasRow(f) /\ epochs'[f].rate = distributions[f].rate
    <3> HIDE DEF e
    <3> QED BY <2>1, <2>3, <2>4, <2>6, <2>7
  <2>9. epochs'[txs[i].epoch].funded /\ txs[i].kind = "fund"
    BY <1>9, <2>4, <2>6
  <2> QED BY <1>0, <1>3, <1>4, <2>1, <2>2, <2>6, <2>8, <2>9, MineOther
<1>10. CASE Yield(c)!Reverted(i)
  <2>1. txs' = [txs EXCEPT ![i].status = "reverted"] /\ epochs' = epochs /\ balance' = balance /\ txs[i].kind # "open"
    BY <1>10 DEF Yield!Reverted
  <2> QED BY <1>0, <1>1, <1>3, <1>4, <2>1, MineOther
<1> QED BY <1>2, <1>7, <1>8, <1>9, <1>10

LEMMA YieldIdles ==
  ASSUME NEW c, run' = Yield(c)!Idle
  PROVE  run' \in RunRecord(c) /\ run'.at = "idle" /\ RunInv(c)'
<1>1. run' \in RunRecord(c) /\ run'.at = "idle" /\ run'.epoch = 0
  BY DEF RunRecord, Yield!Idle, YieldPlaces, YieldToken
<1> QED BY <1>1 DEF RunInv, Working

\* A step that leaves the chain's records and the rows alone.
LEMMA YieldThinks ==
  ASSUME NEW c, YieldInv(c), UNCHANGED <<epochs, txs, distributions>>, balance' \in Nat, dayDue' \in BOOLEAN,
         floatSweep' \in [on : BOOLEAN, left : SUBSET c.Tokens, ledger : Nat], run' \in RunRecord(c), DayInv', RunInv(c)'
  PROVE  YieldInv(c)'
<1>1. YieldTyped(c)'
  BY DEF YieldInv, YieldTyped
<1>2. ChainInv(c)'
  BY ChainRests DEF YieldInv
<1> QED BY <1>1, <1>2 DEF YieldInv

LEMMA YieldRunMoves ==
  ASSUME NEW c, YieldInv(c), UNCHANGED <<epochs, txs, distributions, run>>,
         run.at = "idle"
  PROVE  run' \in RunRecord(c) /\ RunInv(c)'
BY DEF YieldInv, YieldTyped, RunInv, Working

LEMMA YieldNewDay ==
  ASSUME NEW c, YieldInv(c), Yield(c)!YieldAssumption, Yield(c)!NewDay
  PROVE  YieldInv(c)'
<1>1. /\ dayDue' = TRUE /\ balance' = c.Float /\ Yield(c)!Pending = {} /\ ~floatSweep.on
      /\ UNCHANGED <<epochs, txs, distributions, floatSweep, run>> /\ c.Float \in Nat
  BY DEF Yield!NewDay, Yield!YieldAssumption
<1>2. run.at = "idle"
  BY <1>1 DEF YieldInv, DayInv
<1>3. DayInv'
  BY <1>1, <1>2 DEF DayInv, InFlight, Yield!Pending
<1> QED BY <1>1, <1>2, <1>3, YieldRunMoves, YieldThinks DEF YieldInv, YieldTyped

LEMMA YieldTicks ==
  ASSUME NEW c, YieldInv(c), Yield(c)!Tick
  PROVE  YieldInv(c)'
<1>1. /\ dayDue /\ ~floatSweep.on /\ dayDue' = FALSE
      /\ floatSweep' = floatSweep \/ floatSweep' = [on |-> TRUE, left |-> c.Tokens, ledger |-> balance]
      /\ UNCHANGED <<epochs, txs, balance, distributions, run>>
  BY DEF Yield!Tick, Yield!chain
<1>2. run.at = "idle" /\ \A i \in DOMAIN txs : ~InFlight(i)
  BY <1>1 DEF YieldInv, DayInv
<1>3. DayInv'
  BY <1>1, <1>2 DEF DayInv, InFlight
<1>4. floatSweep' \in [on : BOOLEAN, left : SUBSET c.Tokens, ledger : Nat] /\ balance' \in Nat
  <2>1. /\ balance \in Nat /\ balance' = balance
        /\ floatSweep \in [on : BOOLEAN, left : SUBSET c.Tokens, ledger : Nat]
    BY <1>1 DEF YieldInv, YieldTyped
  <2>2. [on |-> TRUE, left |-> c.Tokens, ledger |-> balance] \in [on : BOOLEAN, left : SUBSET c.Tokens, ledger : Nat]
    BY <2>1
  <2> QED BY <1>1, <2>1, <2>2
<1> QED BY <1>1, <1>2, <1>3, <1>4, YieldRunMoves, YieldThinks

LEMMA YieldSweepDone ==
  ASSUME NEW c, YieldInv(c), Yield(c)!SweepDone
  PROVE  YieldInv(c)'
<1>1. /\ floatSweep.on /\ run.at = "idle" /\ floatSweep' = Yield(c)!Asleep
      /\ UNCHANGED <<epochs, txs, balance, distributions, run, dayDue>>
  BY DEF Yield!SweepDone, Yield!chain
<1>2. floatSweep' \in [on : BOOLEAN, left : SUBSET c.Tokens, ledger : Nat] /\ ~floatSweep'.on
  BY <1>1 DEF Yield!Asleep
<1>3. DayInv'
  BY <1>1, <1>2 DEF YieldInv, DayInv, InFlight
<1> QED BY <1>1, <1>2, <1>3, YieldRunMoves, YieldThinks DEF YieldInv, YieldTyped

LEMMA YieldCrashes ==
  ASSUME NEW c, YieldInv(c), Yield(c)!Crash
  PROVE  YieldInv(c)'
<1>1. /\ floatSweep.on /\ floatSweep' = Yield(c)!Asleep /\ run' = Yield(c)!Idle
      /\ UNCHANGED <<epochs, txs, balance, distributions, dayDue>>
  BY DEF Yield!Crash, Yield!chain
<1>2. floatSweep' \in [on : BOOLEAN, left : SUBSET c.Tokens, ledger : Nat] /\ ~floatSweep'.on
  BY <1>1 DEF Yield!Asleep
<1>3. run' \in RunRecord(c) /\ run'.at = "idle" /\ RunInv(c)'
  BY <1>1, YieldIdles
<1>4. DayInv'
  BY <1>1, <1>2, <1>3 DEF YieldInv, DayInv, InFlight
<1> QED BY <1>1, <1>2, <1>3, <1>4, YieldThinks DEF YieldInv, YieldTyped

LEMMA YieldHandles ==
  ASSUME NEW c, YieldInv(c), Yield(c)!YieldAssumption, NEW t \in c.Tokens, Yield(c)!Handle(t)
  PROVE  YieldInv(c)'
<1>1. /\ floatSweep.on /\ run.at = "idle" /\ t \in floatSweep.left
      /\ floatSweep' = [floatSweep EXCEPT !.left = @ \ {t}]
      /\ UNCHANGED <<epochs, txs, balance, distributions, dayDue>>
      /\ floatSweep \in [on : BOOLEAN, left : SUBSET c.Tokens, ledger : Nat]
  BY DEF Yield!Handle, Yield!chain, Yield!At, YieldInv, YieldTyped
<1>2. /\ floatSweep' \in [on : BOOLEAN, left : SUBSET c.Tokens, ledger : Nat] /\ floatSweep'.on
      /\ floatSweep'.left = floatSweep.left \ {t}
  BY <1>1
<1>3. ~dayDue /\ \A i \in DOMAIN txs : InFlight(i) => txs[i].token \notin floatSweep.left
  BY <1>1 DEF YieldInv, DayInv
<1>4. DayInv'
  BY <1>1, <1>2, <1>3 DEF DayInv, InFlight
<1>5. CASE run' = Yield(c)!Idle
  <2>1. run' \in RunRecord(c) /\ RunInv(c)'
    BY <1>5, YieldIdles
  <2> QED BY <1>1, <1>2, <1>4, <2>1, YieldThinks DEF YieldInv, YieldTyped
<1>6. CASE run' # Yield(c)!Idle
  <2>1. PICK r \in c.Rates :
          run' = [Yield(c)!Idle EXCEPT !.at = "read", !.token = t, !.rate = r, !.fundRate = r]
    BY <1>6 DEF Yield!Handle
  <2>2. r \in Nat
    BY <2>1 DEF Yield!YieldAssumption
  <2>3. run' = [at |-> "read", token |-> t, rate |-> r, current |-> 0, row |-> 0, epoch |-> 0, resumed |-> FALSE,
                fundRate |-> r, amount |-> 0, tx |-> 0]
    BY <2>1 DEF Yield!Idle
  <2>4. run' \in RunRecord(c) /\ run'.at = "read" /\ run'.token = t /\ run'.epoch = 0
    BY <2>2, <2>3 DEF RunRecord, YieldPlaces, YieldToken
  <2>5. Quiet(t)'
    BY <1>1, <1>3 DEF Quiet, InFlight
  <2>6. RunInv(c)'
    BY <1>2, <2>4, <2>5 DEF RunInv, Working, Quiet
  <2> QED BY <1>1, <1>2, <1>4, <2>4, <2>6, YieldThinks DEF YieldInv, YieldTyped
<1> QED BY <1>5, <1>6

\* A step of a run: what it sends is of its own token.
LEMMA YieldStep ==
  ASSUME NEW c, YieldInv(c), run.at # "idle", UNCHANGED <<epochs, balance, dayDue>>,
         floatSweep' \in [on : BOOLEAN, left : SUBSET c.Tokens, ledger : Nat],
         floatSweep'.on = floatSweep.on, floatSweep'.left = floatSweep.left,
         txs' \in Seq(TxRecord(c)),
         \A i \in DOMAIN txs' : InFlight(i)' =>
           (i \in DOMAIN txs /\ InFlight(i) /\ txs'[i].token = txs[i].token) \/ txs'[i].token = run.token,
         distributions' \in [1 .. c.MaxEpochs -> Distribution], ChainInv(c)', run' \in RunRecord(c), RunInv(c)'
  PROVE  YieldInv(c)'
<1>1. YieldTyped(c)'
  BY DEF YieldInv, YieldTyped
<1>2. floatSweep.on /\ ~dayDue /\ run.token \notin floatSweep.left
  BY DEF YieldInv, DayInv, RunInv
<1>3. DayInv'
  BY <1>2 DEF YieldInv, DayInv
<1> QED BY <1>1, <1>3 DEF YieldInv

LEMMA YieldSteps ==
  ASSUME NEW c, YieldInv(c), run.at # "idle", UNCHANGED <<epochs, txs, distributions, balance, dayDue>>,
         floatSweep' \in [on : BOOLEAN, left : SUBSET c.Tokens, ledger : Nat],
         floatSweep'.on = floatSweep.on, floatSweep'.left = floatSweep.left, run' \in RunRecord(c), RunInv(c)'
  PROVE  YieldInv(c)'
<1>1. ChainInv(c)'
  BY ChainRests DEF YieldInv
<1>2. txs' \in Seq(TxRecord(c)) /\ distributions' \in [1 .. c.MaxEpochs -> Distribution]
  BY DEF YieldInv, YieldTyped
<1>3. \A i \in DOMAIN txs' : InFlight(i)' => i \in DOMAIN txs /\ InFlight(i) /\ txs'[i].token = txs[i].token
  BY DEF InFlight
<1> QED BY <1>1, <1>2, <1>3, YieldStep

\* A run that fails goes to its catch block.
LEMMA YieldThrows ==
  ASSUME NEW c, YieldInv(c), run.at # "idle", UNCHANGED <<epochs, txs, distributions, balance, dayDue, floatSweep>>,
         NEW r, r \in RunRecord(c), r.token = run.token, r.epoch \in {0} \cup DOMAIN epochs, run' = [r EXCEPT !.at = "catch"]
  PROVE  YieldInv(c)'
<1>1. run' \in RunRecord(c) /\ run'.at = "catch" /\ run'.token = run.token /\ run'.epoch = r.epoch
  BY DEF RunRecord, YieldPlaces
<1>2. run.token \notin floatSweep.left
  BY DEF YieldInv, RunInv
<1>3. RunInv(c)'
  BY <1>1, <1>2 DEF RunInv, Working
<1>4. floatSweep' \in [on : BOOLEAN, left : SUBSET c.Tokens, ledger : Nat]
  BY DEF YieldInv, YieldTyped
<1> QED BY <1>1, <1>3, <1>4, YieldSteps

LEMMA YieldReturns ==
  ASSUME NEW c, YieldInv(c), run.at # "idle", UNCHANGED <<epochs, txs, distributions, balance, dayDue, floatSweep>>,
         run' = Yield(c)!Idle
  PROVE  YieldInv(c)'
<1>1. run' \in RunRecord(c) /\ RunInv(c)'
  BY YieldIdles
<1>2. floatSweep' \in [on : BOOLEAN, left : SUBSET c.Tokens, ledger : Nat]
  BY DEF YieldInv, YieldTyped
<1> QED BY <1>1, <1>2, YieldSteps

\* What a run does after it has written a row.
LEMMA YieldWrites ==
  ASSUME NEW c, YieldInv(c), run.at # "idle", UNCHANGED <<epochs, txs, balance, dayDue>>,
         floatSweep' \in [on : BOOLEAN, left : SUBSET c.Tokens, ledger : Nat],
         floatSweep'.on = floatSweep.on, floatSweep'.left = floatSweep.left,
         ChainInv(c)', distributions' \in [1 .. c.MaxEpochs -> Distribution], run' \in RunRecord(c), RunInv(c)'
  PROVE  YieldInv(c)'
<1>1. txs' \in Seq(TxRecord(c))
  BY DEF YieldInv, YieldTyped
<1>2. \A i \in DOMAIN txs' : InFlight(i)' => i \in DOMAIN txs /\ InFlight(i) /\ txs'[i].token = txs[i].token
  BY DEF InFlight
<1> QED BY <1>1, <1>2, YieldStep

LEMMA YieldReads ==
  ASSUME NEW c, YieldInv(c), Yield(c)!YieldAssumption, Yield(c)!Read
  PROVE  YieldInv(c)'
<1>1. /\ run.at = "read" /\ UNCHANGED <<epochs, txs, distributions, balance, dayDue, floatSweep>>
      /\ run' = [run EXCEPT !.at = "decide", !.row = Yield(c)!Unresolved(run.token), !.current = Yield(c)!Current(run.token)]
  BY DEF Yield!Read, Yield!Continue, Yield!At, Yield!chain
<1>2. /\ run \in RunRecord(c) /\ epochs \in Seq(EpochRecord(c)) /\ Len(epochs) \in Nat /\ DOMAIN epochs = 1 .. Len(epochs)
      /\ floatSweep \in [on : BOOLEAN, left : SUBSET c.Tokens, ledger : Nat] /\ ChainInv(c)
      /\ distributions \in [1 .. c.MaxEpochs -> Distribution] /\ Len(epochs) <= c.MaxEpochs /\ c.MaxEpochs \in Nat
  BY DEF YieldInv, YieldTyped, ChainInv, Room, Yield!YieldAssumption
<1> DEFINE Ours == {e \in DOMAIN epochs : epochs[e].token = run.token}
           Waiting == {e \in DOMAIN epochs : /\ epochs[e].token = run.token
                                             /\ distributions[e].status \notin Yield(c)!Resolved \cup {"none"}}
<1>3. PICK latest : /\ latest = Yield(c)!Current(run.token)
                     /\ latest \in {0} \cup Ours /\ \A e \in Ours : e <= latest
  <2>1. Ours \in SUBSET (1 .. Len(epochs))
    BY <1>2
  <2>2. LET m == Yield(c)!Max({0} \cup Ours) IN m \in {0} \cup Ours /\ \A e \in Ours : e <= m
    <3> HIDE DEF Ours
    <3> QED BY <1>2, <2>1, YieldMax
  <2> QED BY <2>2 DEF Yield!Current
<1>4. PICK rw : /\ rw = Yield(c)!Unresolved(run.token)
                /\ rw \in {0} \cup Waiting /\ \A e \in Waiting : e <= rw
  <2>1. Waiting \in SUBSET (1 .. Len(epochs))
    BY <1>2
  <2>2. LET m == Yield(c)!Max({0} \cup Waiting) IN m \in {0} \cup Waiting /\ \A e \in Waiting : e <= m
    <3> HIDE DEF Waiting
    <3> QED BY <1>2, <2>1, YieldMax
  <2> QED BY <2>2 DEF Yield!Unresolved
<1>5. latest \in Nat /\ rw \in Nat
  BY <1>2, <1>3, <1>4
<1>6. /\ run' \in RunRecord(c) /\ run'.at = "decide" /\ run'.row = rw /\ run'.current = latest
      /\ run'.token = run.token /\ run'.epoch = run.epoch
  BY <1>1, <1>2, <1>3, <1>4, <1>5 DEF RunRecord, YieldPlaces
<1>7. \A e \in DOMAIN epochs : epochs[e].token = run.token /\ Waits(e) <=> e \in Waiting
  BY DEF Waits, Yield!Resolved
<1>8. IF latest = 0 THEN \A e \in DOMAIN epochs : epochs[e].token # run.token ELSE Newest(latest, run.token)
  BY <1>2, <1>3 DEF Newest
<1>9. IF rw = 0 THEN NoneWaits(run.token) ELSE rw \in DOMAIN epochs /\ epochs[rw].token = run.token /\ Waits(rw)
  BY <1>2, <1>4, <1>7 DEF NoneWaits
<1>10. Decides'
  BY <1>1, <1>6, <1>8, <1>9 DEF Decides, Newest, NoneWaits, Waits
<1>11. RunInv(c)'
  <2>1. Quiet(run.token) /\ run.token \notin floatSweep.left /\ run.epoch \in {0} \cup DOMAIN epochs
    BY <1>1 DEF YieldInv, RunInv
  <2> QED BY <1>1, <1>6, <1>10, <2>1 DEF RunInv, Working, Quiet, InFlight
<1> QED BY <1>1, <1>2, <1>6, <1>11, YieldSteps

\* The status of a row is written.
LEMMA RowMarked ==
  ASSUME NEW c, YieldInv(c), Yield(c)!YieldAssumption, NEW e \in DOMAIN epochs, HasRow(e), UNCHANGED <<epochs, txs>>,
         NEW s \in {"snapshot_done", "success", "failure"},
         distributions' = [distributions EXCEPT ![e] = [distributions[e] EXCEPT !.status = s]],
         s = "success" => epochs[e].funded,
         s = "snapshot_done" => Newest(e, epochs[e].token) /\ NoOpening(epochs[e].token)
  PROVE  /\ ChainInv(c)' /\ distributions' \in [1 .. c.MaxEpochs -> Distribution]
         /\ distributions'[e].status = s /\ distributions'[e].rate = distributions[e].rate
         /\ \A f \in DOMAIN epochs : f # e => distributions'[f] = distributions[f]
<1>1. /\ YieldTyped(c) /\ ChainInv(c) /\ c.MaxEpochs \in Nat /\ epochs \in Seq(EpochRecord(c)) /\ Len(epochs) <= c.MaxEpochs
      /\ distributions \in [1 .. c.MaxEpochs -> Distribution]
  BY DEF YieldInv, YieldTyped, ChainInv, Room, Yield!YieldAssumption
<1>2. e \in 1 .. c.MaxEpochs /\ distributions[e] \in Distribution /\ RowFine(c, e)
  <2>1. e \in 1 .. c.MaxEpochs
    BY <1>1
  <2> QED BY <1>1, <2>1 DEF ChainInv
<1>3. PICK w : w = [distributions[e] EXCEPT !.status = s]
  OBVIOUS
<1>4. w \in Distribution /\ w.status = s /\ w.rate = distributions[e].rate /\ w.amount = distributions[e].amount
  BY <1>2, <1>3 DEF Distribution
<1>5. distributions' = [distributions EXCEPT ![e] = w]
  BY <1>3
<1>6. /\ w.status # "none" /\ w.status # "funded_no_audit" /\ (w.status = "success" => epochs[e].funded)
      /\ ~c.SnapshotBased => w.amount = Yield(c)!Estimate(w.rate)
      /\ w.status \notin {"success", "failure"} => Newest(e, epochs[e].token) /\ NoOpening(epochs[e].token)
  BY <1>2, <1>4 DEF RowFine
<1>7. Proper(c, e, w)
  BY <1>4, <1>6 DEF Proper
<1>8. /\ ChainInv(c)' /\ distributions' \in [1 .. c.MaxEpochs -> Distribution]
      /\ distributions'[e] = w /\ \A f \in DOMAIN epochs : f # e => distributions'[f] = distributions[f]
  BY <1>1, <1>4, <1>5, <1>7, AuditWritten
<1> QED BY <1>4, <1>8

LEMMA YieldStranded ==
  ASSUME NEW c, YieldInv(c), Yield(c)!YieldAssumption, Yield(c)!Stranded
  PROVE  YieldInv(c)'
<1>1. /\ run.at = "decide" /\ run.row # 0 /\ distributions' = [distributions EXCEPT ![run.row].status = "failure"]
      /\ run' = [run EXCEPT !.row = 0] /\ UNCHANGED <<epochs, txs, balance, dayDue, floatSweep>>
  BY DEF Yield!Stranded, Yield!At, Yield!chain
<1>2. /\ run \in RunRecord(c) /\ ChainInv(c) /\ Decides /\ Quiet(run.token) /\ run.token \notin floatSweep.left
      /\ floatSweep \in [on : BOOLEAN, left : SUBSET c.Tokens, ledger : Nat] /\ run.epoch \in {0} \cup DOMAIN epochs
  BY <1>1 DEF YieldInv, YieldTyped, RunInv
<1>3. PICK e : e = run.row
  OBVIOUS
<1>4. e \in DOMAIN epochs /\ epochs[e].token = run.token /\ Waits(e) /\ HasRow(e)
  BY <1>1, <1>2, <1>3 DEF Decides, Waits, HasRow
<1>5. /\ ChainInv(c)' /\ distributions' \in [1 .. c.MaxEpochs -> Distribution] /\ distributions'[e].status = "failure"
      /\ \A f \in DOMAIN epochs : f # e => distributions'[f] = distributions[f]
  <2>1. distributions' = [distributions EXCEPT ![e] = [distributions[e] EXCEPT !.status = "failure"]]
    BY <1>1, <1>3
  <2> QED BY <1>1, <1>4, <2>1, RowMarked
<1>6. /\ run' \in RunRecord(c) /\ run'.at = "decide" /\ run'.row = 0 /\ run'.current = run.current
      /\ run'.token = run.token /\ run'.epoch = run.epoch
  BY <1>1, <1>2 DEF RunRecord
<1>7. \A f \in DOMAIN epochs : epochs[f].token = run.token /\ Waits(f) => f = e
  <2>1. ASSUME NEW f \in DOMAIN epochs, epochs[f].token = run.token, Waits(f) PROVE f = e
    <3>1. RowFine(c, f) /\ RowFine(c, e)
      <4>1. /\ epochs \in Seq(EpochRecord(c)) /\ Len(epochs) <= c.MaxEpochs /\ c.MaxEpochs \in Nat
        BY DEF YieldInv, YieldTyped, ChainInv, Room, Yield!YieldAssumption
      <4>2. f \in 1 .. c.MaxEpochs /\ e \in 1 .. c.MaxEpochs
        BY <1>4, <4>1
      <4> QED BY <1>2, <4>2 DEF ChainInv
    <3>2. Newest(f, run.token) /\ Newest(e, run.token)
      BY <1>4, <2>1, <3>1 DEF RowFine, HasRow, Waits
    <3>3. f <= e /\ e <= f /\ e \in Nat /\ f \in Nat
      BY <1>4, <3>2 DEF Newest, YieldInv, YieldTyped
    <3> QED BY <3>3
  <2> QED BY <2>1
<1>8. NoneWaits(run.token)'
  <2>1. ASSUME NEW f \in DOMAIN epochs, epochs[f].token = run.token PROVE distributions'[f].status \in {"none", "success", "failure"}
    <3>1. CASE f = e
      BY <1>5, <3>1
    <3>2. CASE f # e
      BY <1>5, <1>7, <2>1, <3>2 DEF Waits
    <3> QED BY <3>1, <3>2
  <2> QED BY <1>1, <1>6, <2>1 DEF NoneWaits, Waits
<1>9. Decides'
  BY <1>1, <1>2, <1>6, <1>8 DEF Decides, Newest
<1>10. RunInv(c)'
  BY <1>1, <1>2, <1>6, <1>9 DEF RunInv, Working, Quiet, InFlight
<1> QED BY <1>1, <1>2, <1>5, <1>6, <1>10, YieldWrites

\* A run that closes a row of a funded epoch returns.
LEMMA YieldCloses ==
  ASSUME NEW c, YieldInv(c), Yield(c)!YieldAssumption, run.at # "idle", NEW e \in DOMAIN epochs, HasRow(e), epochs[e].funded,
         UNCHANGED <<epochs, txs, balance, dayDue>>,
         distributions' = [distributions EXCEPT ![e] = Yield(c)!Closed(distributions[e])], run' = Yield(c)!Idle,
         floatSweep' \in [on : BOOLEAN, left : SUBSET c.Tokens, ledger : Nat],
         floatSweep'.on = floatSweep.on, floatSweep'.left = floatSweep.left
  PROVE  YieldInv(c)'
<1>1. distributions' = [distributions EXCEPT ![e] = [distributions[e] EXCEPT !.status = "success"]]
  BY DEF Yield!Closed
<1>2. /\ ChainInv(c)' /\ distributions' \in [1 .. c.MaxEpochs -> Distribution]
  BY <1>1, RowMarked
<1>3. run' \in RunRecord(c) /\ RunInv(c)'
  BY YieldIdles
<1> QED BY <1>2, <1>3, YieldWrites

LEMMA YieldResumes ==
  ASSUME NEW c, YieldInv(c), Yield(c)!YieldAssumption, Yield(c)!Resume
  PROVE  YieldInv(c)'
<1>1. /\ run.at = "decide" /\ run.row # 0
  BY DEF Yield!Resume, Yield!At
<1>2. /\ run \in RunRecord(c) /\ ChainInv(c) /\ Decides /\ Quiet(run.token) /\ run.token \notin floatSweep.left
      /\ floatSweep \in [on : BOOLEAN, left : SUBSET c.Tokens, ledger : Nat] /\ run.epoch \in {0} \cup DOMAIN epochs
      /\ epochs \in Seq(EpochRecord(c)) /\ Len(epochs) <= c.MaxEpochs /\ c.MaxEpochs \in Nat
  BY <1>1 DEF YieldInv, YieldTyped, RunInv, ChainInv, Room, Yield!YieldAssumption
<1>3. PICK e : e = run.row
  OBVIOUS
<1>4. e \in DOMAIN epochs /\ epochs[e].token = run.token /\ Waits(e) /\ HasRow(e)
  BY <1>1, <1>2, <1>3 DEF Decides, Waits, HasRow
<1>5. e \in Nat /\ e \in 1 .. c.MaxEpochs /\ RowFine(c, e)
  <2>1. e \in Nat /\ e \in 1 .. c.MaxEpochs
    BY <1>2, <1>4
  <2> QED BY <1>2, <2>1 DEF ChainInv
<1>6. PICK r : r = [run EXCEPT !.epoch = e]
  OBVIOUS
<1>7. r \in RunRecord(c) /\ r.token = run.token /\ r.epoch = e /\ r.row = e /\ r.at = "decide"
  BY <1>1, <1>2, <1>3, <1>5, <1>6 DEF RunRecord
<1>8. /\ UNCHANGED <<epochs, txs, balance, dayDue, floatSweep>>
      /\ \/ run' = Yield(c)!Idle /\ UNCHANGED distributions
         \/ /\ epochs[e].funded \/ (txs[distributions[e].tx].status = "ok" /\ distributions[e].status = "funded_no_audit")
            /\ run' = Yield(c)!Idle /\ distributions' = [distributions EXCEPT ![e] = Yield(c)!Closed(distributions[e])]
         \/ run' = [run EXCEPT !.at = "catch"] /\ UNCHANGED distributions
         \/ run' = [r EXCEPT !.at = "catch"] /\ UNCHANGED distributions
         \/ run' = [r EXCEPT !.at = "capture", !.resumed = TRUE] /\ UNCHANGED distributions
  BY <1>3, <1>6 DEF Yield!Resume, Yield!Return, Yield!Continue, Yield!Throw, Yield!Write, Yield!chain, Yield!AlreadyFunded
<1>9. CASE run' = Yield(c)!Idle /\ UNCHANGED distributions
  BY <1>1, <1>8, <1>9, YieldReturns
<1>10. CASE /\ epochs[e].funded \/ (txs[distributions[e].tx].status = "ok" /\ distributions[e].status = "funded_no_audit")
            /\ run' = Yield(c)!Idle /\ distributions' = [distributions EXCEPT ![e] = Yield(c)!Closed(distributions[e])]
  <2>1. epochs[e].funded
    <3>1. ASSUME distributions[e].status = "funded_no_audit", txs[distributions[e].tx].status = "ok" PROVE epochs[e].funded
      <4>1. /\ distributions[e].tx \in DOMAIN txs /\ txs[distributions[e].tx].kind = "fund"
            /\ txs[distributions[e].tx].epoch = e
        BY <1>4, <1>5, <3>1 DEF RowFine
      <4>2. TxFine(c, txs[distributions[e].tx])
        BY <1>2, <4>1 DEF ChainInv
      <4> QED BY <3>1, <4>1, <4>2 DEF TxFine
    <3> QED BY <1>10, <3>1
  <2> QED BY <1>1, <1>2, <1>4, <1>8, <1>10, <2>1, YieldCloses
<1>11. CASE run' = [run EXCEPT !.at = "catch"] /\ UNCHANGED distributions
  <2>1. PICK q : q = run
    OBVIOUS
  <2>2. q \in RunRecord(c) /\ q.token = run.token /\ q.epoch \in {0} \cup DOMAIN epochs /\ run' = [q EXCEPT !.at = "catch"]
    BY <1>2, <1>11, <2>1
  <2> QED BY <1>1, <1>8, <1>11, <2>2, YieldThrows
<1>12. CASE run' = [r EXCEPT !.at = "catch"] /\ UNCHANGED distributions
  <2>1. r.epoch \in {0} \cup DOMAIN epochs
    BY <1>4, <1>7
  <2> QED BY <1>1, <1>7, <1>8, <1>12, <2>1, YieldThrows
<1>13. CASE run' = [r EXCEPT !.at = "capture", !.resumed = TRUE] /\ UNCHANGED distributions
  <2>1. /\ run' \in RunRecord(c) /\ run'.at = "capture" /\ run'.token = run.token /\ run'.epoch = e /\ run'.row = e
    BY <1>7, <1>13 DEF RunRecord, YieldPlaces
  <2>2. Newest(e, run.token)
    BY <1>4, <1>5 DEF RowFine
  <2>3. NoOpening(run.token)
    BY <1>2 DEF Quiet, NoOpening
  <2>4. e # 0
    BY <1>5
  <2>5. Works(c)'
    BY <1>4, <1>8, <1>13, <2>1, <2>2, <2>3, <2>4 DEF Works, Newest, NoOpening, InFlight, HasRow
  <2>6. RunInv(c)'
    BY <1>2, <1>4, <1>8, <2>1, <2>5 DEF RunInv, Working
  <2> QED BY <1>1, <1>2, <1>8, <1>13, <2>1, <2>6, YieldSteps
<1> QED BY <1>8, <1>9, <1>10, <1>11, <1>12, <1>13

\* What every step of a run may rest on.
LEMMA YieldRunFacts ==
  ASSUME NEW c, YieldInv(c), Yield(c)!YieldAssumption, run.at # "idle"
  PROVE  /\ YieldTyped(c) /\ ChainInv(c) /\ run \in RunRecord(c) /\ epochs \in Seq(EpochRecord(c)) /\ txs \in Seq(TxRecord(c))
         /\ distributions \in [1 .. c.MaxEpochs -> Distribution] /\ Len(epochs) <= c.MaxEpochs /\ c.MaxEpochs \in Nat
         /\ floatSweep \in [on : BOOLEAN, left : SUBSET c.Tokens, ledger : Nat] /\ c.Cap \in Nat
         /\ run.epoch \in {0} \cup DOMAIN epochs /\ run.token \notin floatSweep.left
         /\ \A e \in DOMAIN epochs : e \in 1 .. c.MaxEpochs /\ e \in Nat /\ e # 0
BY DEF YieldInv, YieldTyped, ChainInv, Room, RunInv, Yield!YieldAssumption

\* The row of a run that begins an epoch, or takes up one whose row is lost.
LEMMA FreshRow ==
  ASSUME NEW c, YieldInv(c), Yield(c)!YieldAssumption, run.at # "idle", NEW e \in DOMAIN epochs, epochs[e].token = run.token,
         HasRow(e) => ~epochs[e].funded /\ Quiet(run.token), Newest(e, run.token), NoOpening(run.token),
         distributions' = [distributions EXCEPT ![e] = Yield(c)!Fresh], UNCHANGED <<epochs, txs>>
  PROVE  /\ ChainInv(c)' /\ distributions' \in [1 .. c.MaxEpochs -> Distribution]
         /\ distributions'[e].status = "in_progress" /\ distributions'[e].rate = run.rate
<1>1. /\ YieldTyped(c) /\ ChainInv(c) /\ run \in RunRecord(c) /\ c.MaxEpochs \in Nat /\ c.Cap \in Nat
  BY YieldRunFacts
<1>2. PICK w : w = Yield(c)!Fresh
  OBVIOUS
<1>3. w = [status |-> "in_progress", rate |-> run.rate, amount |-> Yield(c)!Estimate(run.rate), tx |-> 0]
  BY <1>2 DEF Yield!Fresh
<1>4. run.rate \in Nat /\ Yield(c)!Estimate(run.rate) \in Nat
  <2>1. PICK rate \in Nat : rate = run.rate
    BY <1>1 DEF RunRecord
  <2>2. 0 \in Nat /\ Yield(c)!Estimate(rate) \in Nat
    BY FitNat
  <2> QED BY <2>1, <2>2
<1>5. w \in Distribution /\ w.status = "in_progress" /\ w.rate = run.rate /\ w.amount = Yield(c)!Estimate(run.rate)
  BY <1>3, <1>4 DEF Distribution
<1>6. Proper(c, e, w)
  BY <1>5 DEF Proper
<1>7. distributions' = [distributions EXCEPT ![e] = w]
  BY <1>2
<1>8. /\ ChainInv(c)' /\ distributions' \in [1 .. c.MaxEpochs -> Distribution]
      /\ distributions'[e] = w /\ \A f \in DOMAIN epochs : f # e => distributions'[f] = distributions[f]
  BY <1>1, <1>5, <1>6, <1>7, AuditWritten
<1> QED BY <1>5, <1>8

LEMMA YieldBackFills ==
  ASSUME NEW c, YieldInv(c), Yield(c)!YieldAssumption, Yield(c)!BackFill
  PROVE  YieldInv(c)'
<1>1. PICK r : r = [run EXCEPT !.epoch = run.current, !.resumed = TRUE]
  OBVIOUS
<1>2. /\ run.at = "decide" /\ run.row = 0 /\ run.current # 0 /\ ~epochs[run.current].funded
      /\ UNCHANGED <<epochs, txs, balance, dayDue, floatSweep>>
      /\ \/ /\ run' = [r EXCEPT !.at = "capture"]
            /\ distributions' = [distributions EXCEPT ![run.current] = Yield(c)!Fresh]
         \/ run' = [r EXCEPT !.at = "catch"] /\ UNCHANGED distributions
  BY <1>1 DEF Yield!BackFill, Yield!At, Yield!Continue, Yield!Throw, Yield!Write, Yield!chain
<1>3. PICK e : e = run.current
  OBVIOUS
<1>4. Decides /\ Quiet(run.token)
  BY <1>2 DEF YieldInv, RunInv
<1>5. /\ run \in RunRecord(c) /\ run.token \notin floatSweep.left
      /\ floatSweep \in [on : BOOLEAN, left : SUBSET c.Tokens, ledger : Nat]
  BY <1>2, YieldRunFacts
<1>6. e \in DOMAIN epochs /\ epochs[e].token = run.token /\ Newest(e, run.token) /\ NoOpening(run.token)
  BY <1>2, <1>3, <1>4 DEF Decides, Newest, Quiet, NoOpening
<1>7. e \in Nat
  BY <1>2, <1>6, YieldRunFacts
<1>8. /\ r \in RunRecord(c) /\ r.epoch = e /\ r.token = run.token /\ r.row = 0 /\ r.rate = run.rate
  BY <1>1, <1>2, <1>3, <1>5, <1>7 DEF RunRecord
<1>9. CASE run' = [r EXCEPT !.at = "catch"] /\ UNCHANGED distributions
  <2>1. r.epoch \in {0} \cup DOMAIN epochs
    BY <1>6, <1>8
  <2> QED BY <1>2, <1>8, <1>9, <2>1, YieldThrows
<1>10. CASE run' = [r EXCEPT !.at = "capture"] /\ distributions' = [distributions EXCEPT ![run.current] = Yield(c)!Fresh]
  <2>1. /\ run' \in RunRecord(c) /\ run'.at = "capture" /\ run'.epoch = e /\ run'.token = run.token
        /\ run'.row = 0 /\ run'.rate = run.rate
    BY <1>8, <1>10 DEF RunRecord, YieldPlaces
  <2>2. /\ ChainInv(c)' /\ distributions' \in [1 .. c.MaxEpochs -> Distribution]
        /\ distributions'[e].status = "in_progress" /\ distributions'[e].rate = run.rate
    <3>1. distributions' = [distributions EXCEPT ![e] = Yield(c)!Fresh] /\ ~epochs[e].funded
      BY <1>2, <1>3, <1>10
    <3> QED BY <1>2, <1>4, <1>6, <3>1, FreshRow
  <2>3. Works(c)'
    BY <1>2, <1>6, <2>1, <2>2 DEF Works, Newest, NoOpening, InFlight, HasRow
  <2>4. RunInv(c)'
    BY <1>2, <1>5, <1>6, <2>1, <2>3 DEF RunInv, Working
  <2> QED BY <1>2, <1>5, <2>1, <2>2, <2>4, YieldWrites
<1> QED BY <1>2, <1>9, <1>10

\* A run sends a transaction, and waits for it.
LEMMA YieldSends ==
  ASSUME NEW c, YieldInv(c), Yield(c)!YieldAssumption, run.at # "idle", NEW x \in TxRecord(c), x.status = "pending",
         x.token = run.token, ChainInv(c)', txs' \in Seq(TxRecord(c)), DOMAIN txs' = DOMAIN txs \cup {Len(txs) + 1},
         txs'[Len(txs) + 1] = x, \A i \in DOMAIN txs : txs'[i] = txs[i],
         UNCHANGED <<epochs, balance, distributions, dayDue, floatSweep>>, run' \in RunRecord(c), RunInv(c)'
  PROVE  YieldInv(c)'
<1>1. \A i \in DOMAIN txs' : InFlight(i)' =>
        (i \in DOMAIN txs /\ InFlight(i) /\ txs'[i].token = txs[i].token) \/ txs'[i].token = run.token
  BY DEF InFlight
<1>2. /\ distributions' \in [1 .. c.MaxEpochs -> Distribution] /\ floatSweep' = floatSweep
      /\ floatSweep' \in [on : BOOLEAN, left : SUBSET c.Tokens, ledger : Nat]
  BY YieldRunFacts
<1> QED BY <1>1, <1>2, YieldStep

LEMMA YieldOpens ==
  ASSUME NEW c, YieldInv(c), Yield(c)!YieldAssumption, Yield(c)!Open
  PROVE  YieldInv(c)'
<1>1. /\ run.at = "decide" /\ run.row = 0 /\ UNCHANGED <<epochs, balance, distributions, dayDue, floatSweep>>
      /\ \/ /\ Len(epochs) + Cardinality({i \in Yield(c)!Pending : txs[i].kind = "open"}) < c.MaxEpochs
            /\ run' = [run EXCEPT !.at = "opening", !.tx = Len(txs) + 1]
            /\ txs' = Append(txs, Yield(c)!Tx("open", run.token, 0, 0, 0))
         \/ run' = Yield(c)!Idle /\ UNCHANGED txs
  BY Zenon DEF Yield!Open, Yield!At, Yield!Continue, Yield!Send, Yield!Return, Yield!chain, Yield!Cardinality, Cardinality
<1>2. Decides /\ Quiet(run.token)
  BY <1>1 DEF YieldInv, RunInv
<1>3. /\ run \in RunRecord(c) /\ run.token \notin floatSweep.left /\ txs \in Seq(TxRecord(c)) /\ YieldTyped(c) /\ ChainInv(c)
      /\ c.MaxEpochs \in Nat /\ run.epoch \in {0} \cup DOMAIN epochs
  BY <1>1, YieldRunFacts
<1>4. CASE run' = Yield(c)!Idle /\ UNCHANGED txs
  BY <1>1, <1>4, YieldReturns
<1>5. CASE /\ Len(epochs) + Cardinality({i \in Yield(c)!Pending : txs[i].kind = "open"}) < c.MaxEpochs
           /\ run' = [run EXCEPT !.at = "opening", !.tx = Len(txs) + 1]
           /\ txs' = Append(txs, Yield(c)!Tx("open", run.token, 0, 0, 0))
  <2>1. PICK x : x = Yield(c)!Tx("open", run.token, 0, 0, 0)
    OBVIOUS
  <2>2. x \in TxRecord(c) /\ x.status = "pending" /\ x.kind = "open" /\ x.token = run.token
    BY <1>3, <2>1 DEF Yield!Tx, TxRecord, RunRecord
  <2>3. TxFine(c, x)
    BY <2>2 DEF TxFine
  <2>4. {i \in Yield(c)!Pending : txs[i].kind = "open"} = {i \in DOMAIN txs : InFlight(i) /\ txs[i].kind = "open"}
    BY DEF Yield!Pending, InFlight
  <2>5. NoneWaits(x.token)
    BY <1>1, <1>2, <2>2 DEF Decides
  <2>6. x.kind = "open" =>
           /\ NoneWaits(x.token)
           /\ Len(epochs) + Cardinality({i \in DOMAIN txs : InFlight(i) /\ txs[i].kind = "open"}) < c.MaxEpochs
    BY <1>5, <2>4, <2>5
  <2>7. txs' = Append(txs, x)
    BY <1>5, <2>1
  <2>8. /\ ChainInv(c)' /\ txs' \in Seq(TxRecord(c)) /\ DOMAIN txs' = DOMAIN txs \cup {Len(txs) + 1}
        /\ Len(txs) + 1 \notin DOMAIN txs /\ txs'[Len(txs) + 1] = x /\ \A i \in DOMAIN txs : txs'[i] = txs[i]
    BY <1>1, <1>3, <2>2, <2>3, <2>6, <2>7, TxSent
  <2>9. PICK n \in Nat : n = Len(txs) + 1
    BY <1>3
  <2>10. /\ run' \in RunRecord(c) /\ run'.at = "opening" /\ run'.tx = n /\ run'.row = 0 /\ run'.token = run.token
         /\ run'.epoch = run.epoch
    BY <1>1, <1>3, <1>5, <2>9 DEF RunRecord, YieldPlaces
  <2>11. Opens'
    <3>1. \A i \in DOMAIN txs' : InFlight(i)' /\ txs'[i].token = run.token => i = n
      BY <1>2, <2>8, <2>9 DEF Quiet, InFlight
    <3>2. NoneWaits(run.token)'
      BY <1>1, <2>2, <2>5, <2>10 DEF NoneWaits, Waits
    <3> QED BY <2>2, <2>8, <2>9, <2>10, <3>1, <3>2 DEF Opens, NoneWaits, Waits, InFlight
  <2>12. RunInv(c)'
    BY <1>1, <1>3, <2>10, <2>11 DEF RunInv, Working
  <2> QED BY <1>1, <2>2, <2>8, <2>10, <2>12, YieldSends
<1> QED BY <1>1, <1>4, <1>5

LEMMA YieldRecords ==
  ASSUME NEW c, YieldInv(c), Yield(c)!YieldAssumption, Yield(c)!Record
  PROVE  YieldInv(c)'
<1>1. PICK r : r = [run EXCEPT !.epoch = txs[run.tx].epoch, !.tx = 0]
  OBVIOUS
<1>2. PICK e : e = txs[run.tx].epoch
  OBVIOUS
<1>3. run.at = "opening" /\ txs[run.tx].status = "ok" /\ UNCHANGED <<epochs, txs, balance, dayDue, floatSweep>>
  BY DEF Yield!Record, Yield!At, Yield!Confirmed, Yield!Continue, Yield!Throw, Yield!Write, Yield!chain
<1>4. Opens /\ run \in RunRecord(c) /\ run.token \notin floatSweep.left /\ floatSweep \in [on : BOOLEAN, left : SUBSET c.Tokens, ledger : Nat]
  <2>1. Opens
    BY <1>3 DEF YieldInv, RunInv
  <2> QED BY <1>3, <2>1, YieldRunFacts
<1>5. /\ Newest(e, run.token) /\ ~HasRow(e) /\ e \in DOMAIN epochs /\ epochs[e].token = run.token /\ run.row = 0
      /\ NoOpening(run.token)
  BY <1>2, <1>3, <1>4 DEF Opens, Newest, NoOpening, InFlight
<1>6. e \in Nat
  BY <1>3, <1>5, YieldRunFacts
<1>7. r \in RunRecord(c) /\ r.epoch = e /\ r.token = run.token /\ r.row = 0 /\ r.rate = run.rate
  BY <1>1, <1>2, <1>4, <1>5, <1>6 DEF RunRecord
<1>8. \/ /\ run' = [r EXCEPT !.at = "capture"]
         /\ distributions' = [distributions EXCEPT ![e] = Yield(c)!Fresh]
      \/ run' = [r EXCEPT !.at = "catch"] /\ UNCHANGED distributions
  <2>1. \/ /\ run' = [r EXCEPT !.at = "capture"]
           /\ distributions' = [distributions EXCEPT ![r.epoch] = Yield(c)!Fresh]
        \/ run' = [r EXCEPT !.at = "catch"] /\ UNCHANGED distributions
    BY <1>1 DEF Yield!Record, Yield!Continue, Yield!Throw, Yield!Write
  <2> QED BY <1>7, <2>1
<1>9. CASE run' = [r EXCEPT !.at = "catch"] /\ UNCHANGED distributions
  <2>1. r.epoch \in {0} \cup DOMAIN epochs
    BY <1>5, <1>7
  <2> QED BY <1>3, <1>7, <1>9, <2>1, YieldThrows
<1>10. CASE run' = [r EXCEPT !.at = "capture"] /\ distributions' = [distributions EXCEPT ![e] = Yield(c)!Fresh]
  <2>1. /\ run' \in RunRecord(c) /\ run'.at = "capture" /\ run'.epoch = e /\ run'.token = run.token
        /\ run'.row = 0 /\ run'.rate = run.rate
    BY <1>7, <1>10 DEF RunRecord, YieldPlaces
  <2>2. /\ ChainInv(c)' /\ distributions' \in [1 .. c.MaxEpochs -> Distribution]
        /\ distributions'[e].status = "in_progress" /\ distributions'[e].rate = run.rate
    BY <1>3, <1>5, <1>10, FreshRow
  <2>3. Works(c)'
    BY <1>3, <1>5, <2>1, <2>2 DEF Works, Newest, NoOpening, InFlight, HasRow
  <2>4. RunInv(c)'
    BY <1>3, <1>4, <1>5, <2>1, <2>3 DEF RunInv, Working
  <2> QED BY <1>3, <1>4, <2>1, <2>2, <2>4, YieldWrites
<1> QED BY <1>8, <1>9, <1>10

\* What a run that has its epoch knows of it.
LEMMA YieldWorkFacts ==
  ASSUME NEW c, YieldInv(c), Yield(c)!YieldAssumption, run.at \in Working
  PROVE  /\ Works(c) /\ run.epoch \in DOMAIN epochs /\ epochs[run.epoch].token = run.token /\ epochs[run.epoch] \in EpochRecord(c)
         /\ RowFine(c, run.epoch) /\ distributions[run.epoch] \in Distribution /\ HasRow(run.epoch)
         /\ Newest(run.epoch, run.token) /\ NoOpening(run.token)
<1>1. run.at # "idle"
  BY DEF Working
<1>2. Works(c)
  BY DEF YieldInv, RunInv
<1>3. /\ run.epoch \in DOMAIN epochs /\ epochs[run.epoch].token = run.token /\ HasRow(run.epoch)
      /\ Newest(run.epoch, run.token) /\ NoOpening(run.token)
  BY <1>2 DEF Works, Newest
<1>4. run.epoch \in 1 .. c.MaxEpochs /\ epochs \in Seq(EpochRecord(c)) /\ distributions \in [1 .. c.MaxEpochs -> Distribution] /\ ChainInv(c)
  BY <1>1, <1>3, YieldRunFacts
<1> QED BY <1>2, <1>3, <1>4 DEF ChainInv

LEMMA YieldCaptures ==
  ASSUME NEW c, YieldInv(c), Yield(c)!YieldAssumption, Yield(c)!Capture
  PROVE  YieldInv(c)'
<1>1. /\ run.at = "capture" /\ UNCHANGED <<epochs, balance, distributions, dayDue, floatSweep>>
      /\ \/ epochs[run.epoch].supply # 0 /\ run' = [run EXCEPT !.at = "size"] /\ UNCHANGED txs
         \/ /\ run' = [run EXCEPT !.at = "capturing", !.tx = Len(txs) + 1]
            /\ txs' = Append(txs, Yield(c)!Tx("capture", run.token, run.epoch, 0, 0))
  BY DEF Yield!Capture, Yield!At, Yield!Continue, Yield!Send, Yield!chain
<1>2. /\ run \in RunRecord(c) /\ run.token \notin floatSweep.left /\ txs \in Seq(TxRecord(c)) /\ YieldTyped(c) /\ ChainInv(c)
      /\ c.MaxEpochs \in Nat /\ run.epoch \in {0} \cup DOMAIN epochs
      /\ floatSweep \in [on : BOOLEAN, left : SUBSET c.Tokens, ledger : Nat]
  BY <1>1, YieldRunFacts
<1>3. Works(c) /\ run.epoch \in DOMAIN epochs /\ epochs[run.epoch].token = run.token
  <2>1. run.at \in Working
    BY <1>1 DEF Working
  <2> QED BY <2>1, YieldWorkFacts
<1>4. CASE epochs[run.epoch].supply # 0 /\ run' = [run EXCEPT !.at = "size"] /\ UNCHANGED txs
  <2>1. /\ run' \in RunRecord(c) /\ run'.at = "size" /\ run'.epoch = run.epoch /\ run'.token = run.token
        /\ run'.row = run.row /\ run'.rate = run.rate
    BY <1>2, <1>4 DEF RunRecord, YieldPlaces
  <2>2. Works(c)'
    BY <1>1, <1>3, <1>4, <2>1 DEF Works, Newest, NoOpening, InFlight, HasRow
  <2>3. RunInv(c)'
    BY <1>1, <1>2, <2>1, <2>2 DEF RunInv, Working
  <2> QED BY <1>1, <1>2, <1>4, <2>1, <2>3, YieldSteps
<1>5. CASE /\ run' = [run EXCEPT !.at = "capturing", !.tx = Len(txs) + 1]
           /\ txs' = Append(txs, Yield(c)!Tx("capture", run.token, run.epoch, 0, 0))
  <2>1. PICK x : x = Yield(c)!Tx("capture", run.token, run.epoch, 0, 0)
    OBVIOUS
  <2>2. /\ x \in TxRecord(c) /\ x.status = "pending" /\ x.kind = "capture" /\ x.token = run.token /\ x.epoch = run.epoch
    BY <1>2, <2>1 DEF Yield!Tx, TxRecord, RunRecord
  <2>3. TxFine(c, x)
    BY <1>3, <2>2 DEF TxFine
  <2>4. x.kind = "open" =>
           /\ NoneWaits(x.token)
           /\ Len(epochs) + Cardinality({i \in DOMAIN txs : InFlight(i) /\ txs[i].kind = "open"}) < c.MaxEpochs
    BY <2>2
  <2>5. txs' = Append(txs, x)
    BY <1>5, <2>1
  <2>6. /\ ChainInv(c)' /\ txs' \in Seq(TxRecord(c)) /\ DOMAIN txs' = DOMAIN txs \cup {Len(txs) + 1}
        /\ Len(txs) + 1 \notin DOMAIN txs /\ txs'[Len(txs) + 1] = x /\ \A i \in DOMAIN txs : txs'[i] = txs[i]
    BY <1>1, <1>2, <2>2, <2>3, <2>4, <2>5, TxSent
  <2>7. PICK n \in Nat : n = Len(txs) + 1
    BY <1>2
  <2>8. /\ run' \in RunRecord(c) /\ run'.at = "capturing" /\ run'.tx = n /\ run'.row = run.row /\ run'.token = run.token
        /\ run'.epoch = run.epoch /\ run'.rate = run.rate
    BY <1>2, <1>5, <2>7 DEF RunRecord, YieldPlaces
  <2>9. NoOpening(run.token)'
    BY <1>3, <2>2, <2>6, <2>8 DEF Works, NoOpening, InFlight
  <2>10. Works(c)'
    BY <1>1, <1>3, <2>2, <2>6, <2>7, <2>8, <2>9 DEF Works, Newest, HasRow
  <2>11. RunInv(c)'
    BY <1>1, <1>2, <2>8, <2>10 DEF RunInv, Working
  <2> QED BY <1>1, <2>2, <2>6, <2>8, <2>11, YieldSends
<1> QED BY <1>1, <1>4, <1>5

LEMMA YieldFinalizes ==
  ASSUME NEW c, YieldInv(c), Yield(c)!YieldAssumption, Yield(c)!Finalized
  PROVE  YieldInv(c)'
<1>1. /\ run.at = "capturing" /\ txs[run.tx].status = "ok" /\ UNCHANGED <<epochs, txs, balance, dayDue, floatSweep>>
      /\ \/ /\ run' = [run EXCEPT !.at = "size", !.tx = 0]
            /\ distributions' =
                 [distributions EXCEPT ![run.epoch] = [distributions[run.epoch] EXCEPT !.status = "snapshot_done"]]
         \/ run' = [run EXCEPT !.at = "catch"] /\ UNCHANGED distributions
  BY DEF Yield!Finalized, Yield!At, Yield!Continue, Yield!Throw, Yield!Write, Yield!Confirmed, Yield!chain
<1>2. /\ run \in RunRecord(c) /\ run.token \notin floatSweep.left /\ ChainInv(c) /\ run.epoch \in {0} \cup DOMAIN epochs
      /\ floatSweep \in [on : BOOLEAN, left : SUBSET c.Tokens, ledger : Nat]
  BY <1>1, YieldRunFacts
<1>3. PICK e : e = run.epoch
  OBVIOUS
<1>4. /\ Works(c) /\ e \in DOMAIN epochs /\ epochs[e].token = run.token /\ HasRow(e) /\ Newest(e, run.token) /\ NoOpening(run.token)
  <2>1. run.at \in Working
    BY <1>1 DEF Working
  <2> QED BY <1>3, <2>1, YieldWorkFacts
<1>5. epochs[e].supply # 0
  <2>1. run.tx \in DOMAIN txs /\ txs[run.tx].kind = "capture" /\ txs[run.tx].epoch = e
    BY <1>1, <1>3, <1>4 DEF Works
  <2>2. TxFine(c, txs[run.tx])
    BY <1>2, <2>1 DEF ChainInv
  <2> QED BY <1>1, <2>1, <2>2 DEF TxFine
<1>6. CASE run' = [run EXCEPT !.at = "catch"] /\ UNCHANGED distributions
  <2>1. PICK q : q = run
    OBVIOUS
  <2>2. q \in RunRecord(c) /\ q.token = run.token /\ q.epoch \in {0} \cup DOMAIN epochs /\ run' = [q EXCEPT !.at = "catch"]
    BY <1>2, <1>6, <2>1
  <2> QED BY <1>1, <1>6, <2>2, YieldThrows
<1>7. CASE /\ run' = [run EXCEPT !.at = "size", !.tx = 0]
           /\ distributions' =
                [distributions EXCEPT ![run.epoch] = [distributions[run.epoch] EXCEPT !.status = "snapshot_done"]]
  <2>1. /\ run' \in RunRecord(c) /\ run'.at = "size" /\ run'.epoch = e /\ run'.token = run.token
        /\ run'.row = run.row /\ run'.rate = run.rate
    BY <1>2, <1>3, <1>7 DEF RunRecord, YieldPlaces
  <2>2. /\ ChainInv(c)' /\ distributions' \in [1 .. c.MaxEpochs -> Distribution]
        /\ distributions'[e].status = "snapshot_done" /\ distributions'[e].rate = distributions[e].rate
    <3>1. distributions' = [distributions EXCEPT ![e] = [distributions[e] EXCEPT !.status = "snapshot_done"]]
      BY <1>3, <1>7
    <3>2. Newest(e, epochs[e].token) /\ NoOpening(epochs[e].token)
      BY <1>4
    <3> QED BY <1>1, <1>4, <3>1, <3>2, RowMarked
  <2>3. Works(c)'
    BY <1>1, <1>3, <1>4, <1>5, <2>1, <2>2 DEF Works, Newest, NoOpening, InFlight, HasRow
  <2>4. RunInv(c)'
    BY <1>1, <1>2, <1>4, <2>1, <2>3 DEF RunInv, Working
  <2> QED BY <1>1, <1>2, <2>1, <2>2, <2>4, YieldWrites
<1> QED BY <1>1, <1>6, <1>7

\* The amount a run works out fits the epoch, at the rate of its row.
LEMMA AmountFitting ==
  ASSUME NEW c, YieldInv(c), Yield(c)!YieldAssumption, run.at = "size"
  PROVE  /\ Yield(c)!RowRate = distributions[run.epoch].rate /\ Yield(c)!RowRate \in Nat
         /\ Yield(c)!Amount = Fit(c, epochs[run.epoch].supply, distributions[run.epoch].rate) /\ Yield(c)!Amount \in Nat
<1>1. /\ Works(c) /\ epochs[run.epoch] \in EpochRecord(c) /\ RowFine(c, run.epoch) /\ distributions[run.epoch] \in Distribution
      /\ HasRow(run.epoch)
  <2>1. run.at \in Working
    BY DEF Working
  <2> QED BY <2>1, YieldWorkFacts
<1>2. /\ epochs[run.epoch].supply \in Nat /\ distributions[run.epoch].rate \in Nat /\ c.SnapshotBased \in BOOLEAN
  BY <1>1 DEF EpochRecord, Distribution, Yield!YieldAssumption
<1>3. run.row # 0 => run.row = run.epoch
  BY <1>1 DEF Works
<1>4. Yield(c)!RowRate = distributions[run.epoch].rate
  BY <1>1, <1>3 DEF Works, Yield!RowRate
<1>5. Yield(c)!Amount = Fit(c, epochs[run.epoch].supply, distributions[run.epoch].rate)
  <2>1. CASE c.SnapshotBased
    BY <1>4, <2>1 DEF Yield!Amount, Fit
  <2>2. CASE ~c.SnapshotBased
    <3>1. distributions[run.epoch].amount = Yield(c)!Estimate(distributions[run.epoch].rate)
      BY <1>1, <2>2 DEF RowFine
    <3>2. run.row = 0 => run.rate = distributions[run.epoch].rate
      BY <1>1 DEF Works
    <3>3. PICK s \in Nat, rate \in Nat : s = epochs[run.epoch].supply /\ rate = distributions[run.epoch].rate
      BY <1>2
    <3>4. Fit(c, s, rate) = Yield(c)!Estimate(rate)
      BY <2>2, FitNat
    <3> QED BY <1>3, <1>4, <2>2, <3>1, <3>2, <3>3, <3>4 DEF Yield!Amount, Fit
  <2> QED BY <2>1, <2>2
<1>6. PICK s \in Nat, rate \in Nat : s = epochs[run.epoch].supply /\ rate = distributions[run.epoch].rate
  BY <1>2
<1>7. Fit(c, s, rate) \in Nat
  BY FitNat
<1> QED BY <1>2, <1>4, <1>5, <1>6, <1>7

LEMMA YieldSizes ==
  ASSUME NEW c, YieldInv(c), Yield(c)!YieldAssumption, Yield(c)!Size \/ Yield(c)!DecryptFails
  PROVE  YieldInv(c)'
<1>1. PICK e, sum, rate : e = run.epoch /\ sum = Yield(c)!Amount /\ rate = Yield(c)!RowRate
  OBVIOUS
<1>2. PICK r : r = [run EXCEPT !.at = "fund", !.amount = sum, !.fundRate = rate]
  OBVIOUS
<1>3. PICK q : q = [r EXCEPT !.amount = 0]
  OBVIOUS
<1>4. PICK w : w = [distributions[e] EXCEPT !.status = "snapshot_done", !.amount = sum]
  OBVIOUS
<1>5. /\ run.at = "size" /\ UNCHANGED <<epochs, txs, balance, dayDue, floatSweep>>
      /\ \/ ~c.SnapshotBased /\ run' = r /\ UNCHANGED distributions
         \/ c.SnapshotBased /\ sum > 0 /\ run' = r /\ distributions' = [distributions EXCEPT ![e] = w]
         \/ run' = [q EXCEPT !.at = "catch"] /\ UNCHANGED distributions
         \/ run' = Yield(c)!Idle /\ UNCHANGED distributions
  <2>1. run.at = "size" /\ UNCHANGED <<epochs, txs, balance, dayDue, floatSweep>>
    BY DEF Yield!Size, Yield!DecryptFails, Yield!At, Yield!Continue, Yield!Throw, Yield!Write, Yield!Return, Yield!chain
  <2>2. CASE Yield(c)!Size
    BY <1>1, <1>2, <1>3, <1>4, <2>1, <2>2 DEF Yield!Size, Yield!Continue, Yield!Throw, Yield!Write, Yield!Return, Yield!chain
  <2>3. CASE Yield(c)!DecryptFails
    BY <2>1, <2>3 DEF Yield!DecryptFails, Yield!chain
  <2> QED BY <2>1, <2>2, <2>3
<1>6. /\ run \in RunRecord(c) /\ run.token \notin floatSweep.left /\ ChainInv(c) /\ run.epoch \in {0} \cup DOMAIN epochs
      /\ floatSweep \in [on : BOOLEAN, left : SUBSET c.Tokens, ledger : Nat] /\ YieldTyped(c) /\ c.MaxEpochs \in Nat
  BY <1>5, YieldRunFacts
<1>7. /\ Works(c) /\ e \in DOMAIN epochs /\ epochs[e].token = run.token /\ HasRow(e) /\ Newest(e, run.token) /\ NoOpening(run.token)
      /\ RowFine(c, e) /\ distributions[e] \in Distribution
  <2>1. run.at \in Working
    BY <1>5 DEF Working
  <2> QED BY <1>1, <2>1, YieldWorkFacts
<1>8. /\ rate = distributions[e].rate /\ rate \in Nat /\ sum = Fit(c, epochs[e].supply, rate) /\ sum \in Nat
  BY <1>1, <1>5, AmountFitting
<1>9. /\ r \in RunRecord(c) /\ r.at = "fund" /\ r.amount = sum /\ r.fundRate = rate /\ r.epoch = e /\ r.token = run.token
      /\ r.row = run.row /\ r.rate = run.rate
  BY <1>1, <1>2, <1>6, <1>8 DEF RunRecord, YieldPlaces
<1>10. q \in RunRecord(c) /\ q.token = run.token /\ q.epoch = e
  BY <1>3, <1>9 DEF RunRecord
<1>11. epochs[e].supply # 0
  BY <1>1, <1>5, <1>7 DEF Works
<1>12. CASE ~c.SnapshotBased /\ run' = r /\ UNCHANGED distributions
  <2>1. Works(c)'
    BY <1>1, <1>5, <1>7, <1>8, <1>9, <1>11, <1>12 DEF Works, Newest, NoOpening, InFlight, HasRow, Fitting
  <2>2. RunInv(c)'
    BY <1>5, <1>7, <1>6, <1>9, <1>12, <2>1 DEF RunInv, Working
  <2> QED BY <1>5, <1>6, <1>9, <1>12, <2>2, YieldSteps
<1>13. CASE c.SnapshotBased /\ sum > 0 /\ run' = r /\ distributions' = [distributions EXCEPT ![e] = w]
  <2>1. w \in Distribution /\ w.status = "snapshot_done" /\ w.rate = distributions[e].rate
    BY <1>4, <1>7, <1>8 DEF Distribution
  <2>2. Proper(c, e, w)
    BY <1>7, <1>13, <2>1 DEF Proper
  <2>3. /\ ChainInv(c)' /\ distributions' \in [1 .. c.MaxEpochs -> Distribution]
        /\ distributions'[e] = w /\ \A f \in DOMAIN epochs : f # e => distributions'[f] = distributions[f]
    BY <1>5, <1>6, <1>7, <1>13, <2>1, <2>2, AuditWritten
  <2>4. Works(c)'
    <3>1. /\ run' = r /\ run'.at = "fund" /\ run'.epoch = e /\ run'.token = run.token /\ run'.row = run.row
          /\ run'.rate = run.rate /\ run'.fundRate = rate /\ run'.amount = sum
      BY <1>9, <1>13
    <3>2. Newest(e, run.token)' /\ NoOpening(run.token)' /\ epochs' = epochs
      BY <1>5, <1>7, <3>1 DEF Newest, NoOpening, InFlight
    <3>3. HasRow(e)' /\ distributions'[e].rate = rate
      BY <1>8, <2>1, <2>3 DEF HasRow
    <3>4. run.row \in {0, e} /\ (run.row = 0 => run.rate = rate)
      BY <1>1, <1>7, <1>8 DEF Works
    <3> QED BY <1>5, <1>8, <1>11, <1>13, <3>1, <3>2, <3>3, <3>4 DEF Works, HasRow, Newest, NoOpening, InFlight, Fitting
  <2>5. RunInv(c)'
    BY <1>5, <1>6, <1>7, <1>9, <1>13, <2>4 DEF RunInv, Working
  <2>6. run' \in RunRecord(c)
    BY <1>9, <1>13
  <2> QED BY <1>5, <1>6, <2>3, <2>5, <2>6, YieldWrites
<1>14. CASE run' = [q EXCEPT !.at = "catch"] /\ UNCHANGED distributions
  <2>1. q.epoch \in {0} \cup DOMAIN epochs
    BY <1>7, <1>10
  <2> QED BY <1>5, <1>10, <1>14, <2>1, YieldThrows
<1>15. CASE run' = Yield(c)!Idle /\ UNCHANGED distributions
  BY <1>5, <1>15, YieldReturns
<1> QED BY <1>5, <1>12, <1>13, <1>14, <1>15

LEMMA YieldFunds ==
  ASSUME NEW c, YieldInv(c), Yield(c)!YieldAssumption, Yield(c)!Fund
  PROVE  YieldInv(c)'
<1>1. /\ run.at = "fund" /\ UNCHANGED <<epochs, balance, distributions, dayDue, floatSweep>>
      /\ run' = [run EXCEPT !.at = "sent", !.tx = Len(txs) + 1]
      /\ txs' = Append(txs, Yield(c)!Tx("fund", run.token, run.epoch, run.fundRate, run.amount))
  BY DEF Yield!Fund, Yield!At, Yield!Continue, Yield!Send, Yield!chain
<1>2. /\ run \in RunRecord(c) /\ run.token \notin floatSweep.left /\ txs \in Seq(TxRecord(c)) /\ YieldTyped(c) /\ ChainInv(c)
      /\ c.MaxEpochs \in Nat /\ run.epoch \in {0} \cup DOMAIN epochs
  BY <1>1, YieldRunFacts
<1>3. Works(c) /\ run.epoch \in DOMAIN epochs /\ epochs[run.epoch].token = run.token /\ HasRow(run.epoch)
  <2>1. run.at \in Working
    BY <1>1 DEF Working
  <2> QED BY <2>1, YieldWorkFacts
<1>4. PICK x : x = Yield(c)!Tx("fund", run.token, run.epoch, run.fundRate, run.amount)
  OBVIOUS
<1>5. /\ x \in TxRecord(c) /\ x.status = "pending" /\ x.kind = "fund" /\ x.token = run.token /\ x.epoch = run.epoch
      /\ x.rate = run.fundRate /\ x.amount = run.amount
  BY <1>2, <1>4 DEF Yield!Tx, TxRecord, RunRecord
<1>6. TxFine(c, x)
  BY <1>1, <1>3, <1>5 DEF TxFine, Works
<1>7. x.kind = "open" =>
         /\ NoneWaits(x.token)
         /\ Len(epochs) + Cardinality({i \in DOMAIN txs : InFlight(i) /\ txs[i].kind = "open"}) < c.MaxEpochs
  BY <1>5
<1>8. txs' = Append(txs, x)
  BY <1>1, <1>4
<1>9. /\ ChainInv(c)' /\ txs' \in Seq(TxRecord(c)) /\ DOMAIN txs' = DOMAIN txs \cup {Len(txs) + 1}
      /\ Len(txs) + 1 \notin DOMAIN txs /\ txs'[Len(txs) + 1] = x /\ \A i \in DOMAIN txs : txs'[i] = txs[i]
  BY <1>1, <1>2, <1>5, <1>6, <1>7, <1>8, TxSent
<1>10. PICK n \in Nat : n = Len(txs) + 1
  BY <1>2
<1>11. /\ run' \in RunRecord(c) /\ run'.at = "sent" /\ run'.tx = n /\ run'.row = run.row /\ run'.token = run.token
       /\ run'.epoch = run.epoch /\ run'.rate = run.rate
  BY <1>1, <1>2, <1>10 DEF RunRecord, YieldPlaces
<1>12. NoOpening(run.token)'
  BY <1>3, <1>5, <1>9, <1>11 DEF Works, NoOpening, InFlight
<1>13. Works(c)'
  BY <1>1, <1>3, <1>5, <1>9, <1>10, <1>11, <1>12 DEF Works, Newest, HasRow
<1>14. RunInv(c)'
  BY <1>1, <1>2, <1>11, <1>13 DEF RunInv, Working
<1> QED BY <1>1, <1>5, <1>9, <1>11, <1>14, YieldSends

LEMMA YieldSent ==
  ASSUME NEW c, YieldInv(c), Yield(c)!YieldAssumption, Yield(c)!Sent
  PROVE  YieldInv(c)'
<1>1. PICK e, w : e = run.epoch /\ w = [distributions[e] EXCEPT !.status = "funded_no_audit", !.tx = run.tx]
  OBVIOUS
<1>2. /\ run.at = "sent" /\ UNCHANGED <<epochs, txs, balance, dayDue, floatSweep>>
      /\ \/ run' = [run EXCEPT !.at = "waiting"] /\ distributions' = [distributions EXCEPT ![e] = w]
         \/ run' = [run EXCEPT !.at = "catch"] /\ UNCHANGED distributions
  BY <1>1 DEF Yield!Sent, Yield!At, Yield!Continue, Yield!Throw, Yield!Write, Yield!chain
<1>3. /\ run \in RunRecord(c) /\ run.token \notin floatSweep.left /\ ChainInv(c) /\ run.epoch \in {0} \cup DOMAIN epochs
      /\ floatSweep \in [on : BOOLEAN, left : SUBSET c.Tokens, ledger : Nat] /\ YieldTyped(c) /\ c.MaxEpochs \in Nat
  BY <1>2, YieldRunFacts
<1>4. /\ Works(c) /\ e \in DOMAIN epochs /\ epochs[e].token = run.token /\ HasRow(e) /\ Newest(e, run.token) /\ NoOpening(run.token)
      /\ RowFine(c, e) /\ distributions[e] \in Distribution
  <2>1. run.at \in Working
    BY <1>2 DEF Working
  <2> QED BY <1>1, <2>1, YieldWorkFacts
<1>5. CASE run' = [run EXCEPT !.at = "catch"] /\ UNCHANGED distributions
  <2>1. PICK q : q = run
    OBVIOUS
  <2>2. q \in RunRecord(c) /\ q.token = run.token /\ q.epoch \in {0} \cup DOMAIN epochs /\ run' = [q EXCEPT !.at = "catch"]
    BY <1>3, <1>5, <2>1
  <2> QED BY <1>2, <1>5, <2>2, YieldThrows
<1>6. CASE run' = [run EXCEPT !.at = "waiting"] /\ distributions' = [distributions EXCEPT ![e] = w]
  <2>1. /\ run' \in RunRecord(c) /\ run'.at = "waiting" /\ run'.epoch = e /\ run'.token = run.token
        /\ run'.row = run.row /\ run'.rate = run.rate /\ run'.tx = run.tx
    BY <1>1, <1>3, <1>6 DEF RunRecord, YieldPlaces
  <2>2. run.tx \in Nat
    BY <1>3 DEF RunRecord
  <2>3. /\ w \in Distribution /\ w.status = "funded_no_audit" /\ w.rate = distributions[e].rate
        /\ w.amount = distributions[e].amount /\ w.tx = run.tx
    BY <1>1, <1>4, <2>2 DEF Distribution
  <2>4. run.tx \in DOMAIN txs /\ txs[run.tx].kind = "fund" /\ txs[run.tx].epoch = e
    BY <1>1, <1>2, <1>4 DEF Works
  <2>5. Proper(c, e, w)
    BY <1>4, <2>3, <2>4 DEF Proper, RowFine
  <2>6. /\ ChainInv(c)' /\ distributions' \in [1 .. c.MaxEpochs -> Distribution]
        /\ distributions'[e] = w /\ \A f \in DOMAIN epochs : f # e => distributions'[f] = distributions[f]
    BY <1>2, <1>3, <1>4, <1>6, <2>3, <2>5, AuditWritten
  <2>7. Works(c)'
    BY <1>1, <1>2, <1>4, <2>1, <2>3, <2>4, <2>6 DEF Works, Newest, NoOpening, InFlight, HasRow
  <2>8. RunInv(c)'
    BY <1>2, <1>3, <1>4, <2>1, <2>7 DEF RunInv, Working
  <2> QED BY <1>2, <1>3, <2>1, <2>6, <2>8, YieldWrites
<1> QED BY <1>2, <1>5, <1>6

\* The ledger of the float only ever goes down in a sweep.
LEMMA ConsumedNat ==
  ASSUME NEW c, NEW byRunner, NEW sum \in Nat, floatSweep.ledger \in Nat
  PROVE  Yield(c)!Consumed(byRunner, sum) \in Nat /\ Yield(c)!Consumed(byRunner, sum) <= floatSweep.ledger
<1>1. PICK m \in Nat : m = floatSweep.ledger
  OBVIOUS
<1>2. Yield(c)!Min({sum, m}) \in Nat /\ Yield(c)!Min({sum, m}) <= m
  <2>1. Yield(c)!Min({sum, m}) \in {sum, m} /\ Yield(c)!Min({sum, m}) <= m
    BY YieldMin
  <2> QED BY <2>1
<1> QED BY <1>1, <1>2 DEF Yield!Consumed

LEMMA YieldSettles ==
  ASSUME NEW c, YieldInv(c), Yield(c)!YieldAssumption, Yield(c)!Settle
  PROVE  YieldInv(c)'
<1>1. /\ run.at = "waiting" /\ txs[run.tx].status = "ok" /\ UNCHANGED <<epochs, txs, distributions, balance, dayDue>>
      /\ run' = [run EXCEPT !.at = "closing", !.tx = 0]
      /\ floatSweep' = [floatSweep EXCEPT !.ledger = Yield(c)!Consumed(TRUE, run.amount)]
  BY DEF Yield!Settle, Yield!At, Yield!Confirmed, Yield!chain
<1>2. /\ run \in RunRecord(c) /\ run.token \notin floatSweep.left /\ ChainInv(c) /\ run.epoch \in {0} \cup DOMAIN epochs
      /\ floatSweep \in [on : BOOLEAN, left : SUBSET c.Tokens, ledger : Nat]
  BY <1>1, YieldRunFacts
<1>3. /\ Works(c) /\ run.epoch \in DOMAIN epochs
  <2>1. run.at \in Working
    BY <1>1 DEF Working
  <2> QED BY <2>1, YieldWorkFacts
<1>4. epochs[run.epoch].funded /\ epochs[run.epoch].supply # 0
  <2>1. run.tx \in DOMAIN txs /\ txs[run.tx].kind = "fund" /\ txs[run.tx].epoch = run.epoch
    BY <1>1, <1>3 DEF Works
  <2>2. TxFine(c, txs[run.tx])
    BY <1>2, <2>1 DEF ChainInv
  <2> QED BY <1>1, <2>1, <2>2 DEF TxFine
<1>5. /\ floatSweep' \in [on : BOOLEAN, left : SUBSET c.Tokens, ledger : Nat] /\ floatSweep'.on = floatSweep.on
      /\ floatSweep'.left = floatSweep.left
  <2>1. run.amount \in Nat /\ floatSweep.ledger \in Nat
    BY <1>2 DEF RunRecord
  <2>2. PICK m : m = Yield(c)!Consumed(TRUE, run.amount)
    OBVIOUS
  <2>3. m \in Nat
    <3>1. \A s \in Nat : Yield(c)!Consumed(TRUE, s) \in Nat
      BY <2>1, ConsumedNat
    <3> QED BY <2>1, <2>2, <3>1
  <2>4. floatSweep' = [floatSweep EXCEPT !.ledger = m]
    BY <1>1, <2>2
  <2> QED BY <1>2, <2>3, <2>4
<1>6. /\ run' \in RunRecord(c) /\ run'.at = "closing" /\ run'.epoch = run.epoch /\ run'.token = run.token
      /\ run'.row = run.row /\ run'.rate = run.rate
  BY <1>1, <1>2 DEF RunRecord, YieldPlaces
<1>7. Works(c)'
  BY <1>1, <1>3, <1>4, <1>6 DEF Works, Newest, NoOpening, InFlight, HasRow
<1>8. RunInv(c)'
  BY <1>1, <1>2, <1>5, <1>6, <1>7 DEF RunInv, Working
<1> QED BY <1>1, <1>5, <1>6, <1>8, YieldSteps

LEMMA YieldClosing ==
  ASSUME NEW c, YieldInv(c), Yield(c)!YieldAssumption, Yield(c)!Close
  PROVE  YieldInv(c)'
<1>1. PICK e, m : e = run.epoch /\ m = IF run.resumed THEN floatSweep.ledger ELSE Yield(c)!Consumed(FALSE, run.amount)
  OBVIOUS
<1>2. /\ run.at = "closing" /\ UNCHANGED <<epochs, txs, balance, dayDue>>
      /\ \/ /\ distributions' = [distributions EXCEPT ![e] = Yield(c)!Closed(distributions[e])] /\ run' = Yield(c)!Idle
            /\ floatSweep' = [floatSweep EXCEPT !.ledger = m]
         \/ run' = [run EXCEPT !.at = "catch"] /\ UNCHANGED <<distributions, floatSweep>>
  BY <1>1 DEF Yield!Close, Yield!At, Yield!Throw, Yield!Write, Yield!chain
<1>3. /\ run \in RunRecord(c) /\ floatSweep \in [on : BOOLEAN, left : SUBSET c.Tokens, ledger : Nat] /\ run.epoch \in {0} \cup DOMAIN epochs
  BY <1>2, YieldRunFacts
<1>4. /\ Works(c) /\ e \in DOMAIN epochs /\ HasRow(e)
  <2>1. run.at \in Working
    BY <1>2 DEF Working
  <2> QED BY <1>1, <2>1, YieldWorkFacts
<1>5. epochs[e].funded
  BY <1>1, <1>2, <1>4 DEF Works
<1>6. m \in Nat
  <2>1. run.amount \in Nat /\ floatSweep.ledger \in Nat
    BY <1>3 DEF RunRecord
  <2>2. \A s \in Nat : Yield(c)!Consumed(FALSE, s) \in Nat
    BY <2>1, ConsumedNat
  <2> QED BY <1>1, <2>1, <2>2
<1>7. CASE /\ distributions' = [distributions EXCEPT ![e] = Yield(c)!Closed(distributions[e])] /\ run' = Yield(c)!Idle
           /\ floatSweep' = [floatSweep EXCEPT !.ledger = m]
  <2>1. /\ floatSweep' \in [on : BOOLEAN, left : SUBSET c.Tokens, ledger : Nat] /\ floatSweep'.on = floatSweep.on
        /\ floatSweep'.left = floatSweep.left
    BY <1>3, <1>6, <1>7
  <2> QED BY <1>2, <1>4, <1>5, <1>7, <2>1, YieldCloses
<1>8. CASE run' = [run EXCEPT !.at = "catch"] /\ UNCHANGED <<distributions, floatSweep>>
  <2>1. PICK q : q = run
    OBVIOUS
  <2>2. q \in RunRecord(c) /\ q.token = run.token /\ q.epoch \in {0} \cup DOMAIN epochs /\ run' = [q EXCEPT !.at = "catch"]
    BY <1>3, <1>8, <2>1
  <2> QED BY <1>2, <1>8, <2>2, YieldThrows
<1> QED BY <1>2, <1>7, <1>8

LEMMA YieldFails ==
  ASSUME NEW c, YieldInv(c), Yield(c)!YieldAssumption, Yield(c)!CallFails \/ Yield(c)!WaitFails
  PROVE  YieldInv(c)'
<1>1. /\ run.at # "idle" /\ run' = [run EXCEPT !.at = "catch"]
      /\ UNCHANGED <<epochs, txs, distributions, balance, dayDue, floatSweep>>
  BY DEF Yield!CallFails, Yield!WaitFails, Yield!Throw, Yield!At, Yield!chain
<1>2. PICK q : q = run
  OBVIOUS
<1>3. q \in RunRecord(c) /\ q.token = run.token /\ q.epoch \in {0} \cup DOMAIN epochs /\ run' = [q EXCEPT !.at = "catch"]
  BY <1>1, <1>2, YieldRunFacts
<1> QED BY <1>1, <1>3, YieldThrows

LEMMA YieldCatches ==
  ASSUME NEW c, YieldInv(c), Yield(c)!YieldAssumption, Yield(c)!Catch
  PROVE  YieldInv(c)'
<1>1. PICK e, s : e = run.epoch /\ s = Yield(c)!Verdict
  OBVIOUS
<1>2. /\ run.at = "catch" /\ run' = Yield(c)!Idle /\ UNCHANGED <<epochs, txs, balance, dayDue, floatSweep>>
      /\ \/ UNCHANGED distributions
         \/ /\ e # 0 /\ distributions[e].status # "none"
            /\ \/ distributions' = [distributions EXCEPT ![e].status = s]
               \/ distributions' = [distributions EXCEPT ![e].status = "failure"]
  BY <1>1 DEF Yield!Catch, Yield!At, Yield!chain
<1>3. CASE UNCHANGED distributions
  BY <1>2, <1>3, YieldReturns
<1>4. ASSUME NEW v \in {"success", "failure"}, v = "success" => epochs[e].funded, e # 0, HasRow(e),
             distributions' = [distributions EXCEPT ![e].status = v]
      PROVE  YieldInv(c)'
  <2>1. e \in DOMAIN epochs
    BY <1>1, <1>2, <1>4, YieldRunFacts
  <2>2. distributions' = [distributions EXCEPT ![e] = [distributions[e] EXCEPT !.status = v]]
    BY <1>4
  <2>3. v \in {"snapshot_done", "success", "failure"} /\ v # "snapshot_done"
    BY <1>4
  <2>4. /\ ChainInv(c)' /\ distributions' \in [1 .. c.MaxEpochs -> Distribution]
    BY <1>2, <1>4, <2>1, <2>2, <2>3, RowMarked
  <2>5. run' \in RunRecord(c) /\ RunInv(c)'
    BY <1>2, YieldIdles
  <2>6. floatSweep' \in [on : BOOLEAN, left : SUBSET c.Tokens, ledger : Nat] /\ floatSweep' = floatSweep
    BY <1>2, YieldRunFacts
  <2> QED BY <1>2, <2>4, <2>5, <2>6, YieldWrites
<1>5. s \in {"success", "failure"} /\ (s = "success" => epochs[e].funded)
  BY <1>1 DEF Yield!Verdict
<1>6. distributions[e].status # "none" => HasRow(e)
  BY DEF HasRow
<1> QED BY <1>2, <1>3, <1>4, <1>5, <1>6

\* The epochs' invariant is kept by every step of the cron, its runs and the
\* chain, whatever fails.
LEMMA YieldKeeps ==
  ASSUME NEW c, YieldInv(c), Yield(c)!YieldAssumption, Yield(c)!Next
  PROVE  YieldInv(c)'
<1>1. CASE Yield(c)!Mine
  BY <1>1, YieldMines
<1>2. CASE Yield(c)!NewDay
  BY <1>2, YieldNewDay
<1>3. CASE Yield(c)!Crash
  BY <1>3, YieldCrashes
<1>4. CASE Yield(c)!Tick
  BY <1>4, YieldTicks
<1>5. CASE Yield(c)!SweepDone
  BY <1>5, YieldSweepDone
<1>6. ASSUME NEW t \in c.Tokens, Yield(c)!Handle(t) PROVE YieldInv(c)'
  BY <1>6, YieldHandles
<1>7. CASE Yield(c)!Runner
  <2>1. CASE Yield(c)!Read
    BY <2>1, YieldReads
  <2>2. CASE Yield(c)!Stranded
    BY <2>2, YieldStranded
  <2>3. CASE Yield(c)!Resume
    BY <2>3, YieldResumes
  <2>4. CASE Yield(c)!BackFill
    BY <2>4, YieldBackFills
  <2>5. CASE Yield(c)!Open
    BY <2>5, YieldOpens
  <2>6. CASE Yield(c)!Record
    BY <2>6, YieldRecords
  <2>7. CASE Yield(c)!Capture
    BY <2>7, YieldCaptures
  <2>8. CASE Yield(c)!Finalized
    BY <2>8, YieldFinalizes
  <2>9. CASE Yield(c)!Size \/ Yield(c)!DecryptFails
    BY <2>9, YieldSizes
  <2>10. CASE Yield(c)!Fund
    BY <2>10, YieldFunds
  <2>11. CASE Yield(c)!Sent
    BY <2>11, YieldSent
  <2>12. CASE Yield(c)!Settle
    BY <2>12, YieldSettles
  <2>13. CASE Yield(c)!Close
    BY <2>13, YieldClosing
  <2>14. CASE Yield(c)!CallFails \/ Yield(c)!WaitFails
    BY <2>14, YieldFails
  <2>15. CASE Yield(c)!Catch
    BY <2>15, YieldCatches
  <2> QED BY <1>7, <2>1, <2>2, <2>3, <2>4, <2>5, <2>6, <2>7, <2>8, <2>9, <2>10, <2>11, <2>12, <2>13, <2>14, <2>15
          DEF Yield!Runner
<1> QED BY <1>1, <1>2, <1>3, <1>4, <1>5, <1>6, <1>7 DEF Yield!Next

\* What the float is for: nothing of it is promised twice.
LEMMA FloatThinks ==
  ASSUME NEW c, YieldTyped(c), YieldTyped(c)', FloatInv(c), UNCHANGED <<epochs, balance>>,
         floatSweep'.on => floatSweep.on /\ floatSweep'.ledger <= floatSweep.ledger,
         run.at \notin {"sent", "waiting"}, run'.at \notin {"fund", "sent", "waiting"},
         \A i \in DOMAIN txs' : InFlight(i)' /\ txs'[i].kind = "fund" =>
           i \in DOMAIN txs /\ InFlight(i) /\ txs[i].kind = "fund" /\ txs'[i].amount = txs[i].amount
  PROVE  FloatInv(c)'
<1>1. /\ floatSweep.ledger \in Nat /\ floatSweep'.ledger \in Nat /\ balance \in Nat
  BY DEF YieldTyped
<1>2. \A e \in DOMAIN epochs' : epochs'[e].funded => epochs'[e].paid = epochs'[e].amount
  BY DEF FloatInv
<1>3. \A i, j \in DOMAIN txs' : InFlight(i)' /\ txs'[i].kind = "fund" /\ InFlight(j)' /\ txs'[j].kind = "fund" => i = j
  BY DEF FloatInv
<1>4. \A i \in DOMAIN txs' : InFlight(i)' /\ txs'[i].kind = "fund" => txs'[i].amount <= balance' /\ ~floatSweep'.on
  BY DEF FloatInv
<1>5. floatSweep'.on => floatSweep'.ledger <= balance'
  BY <1>1 DEF FloatInv
<1> QED BY <1>2, <1>3, <1>4, <1>5 DEF FloatInv

LEMMA FloatStutters ==
  ASSUME NEW c, FloatInv(c), UNCHANGED yieldVars
  PROVE  FloatInv(c)'
<1>1. epochs' = epochs /\ txs' = txs /\ balance' = balance /\ floatSweep' = floatSweep /\ run' = run
  BY DEF yieldVars
<1> QED BY <1>1 DEF FloatInv, InFlight

LEMMA FloatStarts ==
  ASSUME NEW c, Yield(c)!Init
  PROVE  FloatInv(c)
<1>1. DOMAIN epochs = {} /\ DOMAIN txs = {} /\ ~floatSweep.on /\ run.at = "idle"
  BY DEF Yield!Init, Yield!Asleep, Yield!Idle
<1> QED BY <1>1 DEF FloatInv

LEMMA FloatMines ==
  ASSUME NEW c, YieldInv(c), YieldInv(c)', FloatInv(c), Yield(c)!Mine
  PROVE  FloatInv(c)'
<1>1. /\ epochs \in Seq(EpochRecord(c)) /\ txs \in Seq(TxRecord(c)) /\ balance \in Nat /\ floatSweep.ledger \in Nat
      /\ txs' \in Seq(TxRecord(c)) /\ ChainInv(c) /\ run \in RunRecord(c)
  BY DEF YieldInv, YieldTyped
<1>2. PICK i : /\ i = Yield(c)!Min(Yield(c)!Pending)
               /\ \/ txs[i].kind = "open" /\ Yield(c)!Opened(i)
                  \/ txs[i].kind = "capture" /\ Yield(c)!Captured(i)
                  \/ txs[i].kind = "fund" /\ Yield(c)!Funded(i)
                  \/ Yield(c)!Reverted(i)
  BY DEF Yield!Mine
<1>3. Yield(c)!Pending # {} /\ UNCHANGED <<floatSweep, run>>
  BY DEF Yield!Mine
<1>4. i \in DOMAIN txs /\ InFlight(i)
  <2>1. Yield(c)!Pending \in SUBSET Nat
    BY <1>1 DEF Yield!Pending
  <2>2. \E m \in Yield(c)!Pending : \A k \in Yield(c)!Pending : m <= k
    BY <1>3, <2>1, LeastOf
  <2>3. Yield(c)!Min(Yield(c)!Pending) \in Yield(c)!Pending
    BY <2>2 DEF Yield!Min
  <2> QED BY <1>2, <2>3 DEF Yield!Pending, InFlight
<1>5. txs[i] \in TxRecord(c) /\ txs[i].amount \in Nat
  <2>1. txs[i] \in TxRecord(c)
    BY <1>1, <1>4
  <2> QED BY <2>1 DEF TxRecord
<1>6. ASSUME run.at \in {"sent", "waiting"} PROVE run.tx \in DOMAIN txs /\ txs[run.tx].kind = "fund" /\ run.amount \in Nat
  BY <1>1, <1>6 DEF YieldInv, RunInv, Working, Works, RunRecord
\* Whatever is mined, a transaction keeps its kind and its amount.
<1>7. /\ DOMAIN txs' = DOMAIN txs /\ \A j \in DOMAIN txs : txs'[j].kind = txs[j].kind /\ txs'[j].amount = txs[j].amount
      /\ \A j \in DOMAIN txs : j # i => txs'[j] = txs[j]
      /\ txs'[i].status \in {"ok", "reverted"}
  <2>1. CASE txs' = [txs EXCEPT ![i].status = "ok", ![i].epoch = Len(epochs) + 1]
    <3>1. PICK t, n : t = txs[i] /\ n = Len(epochs) + 1
      OBVIOUS
    <3>2. PICK x : x = [t EXCEPT !.status = "ok", !.epoch = n]
      OBVIOUS
    <3>3. x.kind = t.kind /\ x.amount = t.amount /\ x.status = "ok"
      <4>1. t \in TxRecord(c) /\ "ok" # "pending"
        BY <1>5, <3>1
      <4>2. DOMAIN t = {"kind", "token", "epoch", "rate", "amount", "status"}
        BY <4>1 DEF TxRecord
      <4> QED BY <3>2, <4>2
    <3>4. DOMAIN txs' = DOMAIN txs /\ txs'[i] = x /\ \A j \in DOMAIN txs : j # i => txs'[j] = txs[j]
      BY <1>1, <1>4, <2>1, <3>1, <3>2
    <3> QED BY <3>1, <3>3, <3>4
  <2>2. ASSUME NEW s \in {"ok", "reverted"}, txs' = [txs EXCEPT ![i].status = s]
        PROVE  /\ DOMAIN txs' = DOMAIN txs /\ \A j \in DOMAIN txs : txs'[j].kind = txs[j].kind /\ txs'[j].amount = txs[j].amount
               /\ \A j \in DOMAIN txs : j # i => txs'[j] = txs[j]
               /\ txs'[i].status = s
    <3>1. PICK t : t = txs[i]
      OBVIOUS
    <3>2. PICK x : x = [t EXCEPT !.status = s]
      OBVIOUS
    <3>3. x.kind = t.kind /\ x.amount = t.amount /\ x.status = s
      <4>1. DOMAIN t = {"kind", "token", "epoch", "rate", "amount", "status"}
        BY <1>5, <3>1 DEF TxRecord
      <4> QED BY <3>2, <4>1
    <3>4. DOMAIN txs' = DOMAIN txs /\ txs'[i] = x /\ \A j \in DOMAIN txs : j # i => txs'[j] = txs[j]
      BY <1>1, <1>4, <2>2, <3>1, <3>2
    <3> QED BY <3>1, <3>3, <3>4
  <2>3. \/ txs' = [txs EXCEPT ![i].status = "ok", ![i].epoch = Len(epochs) + 1]
        \/ txs' = [txs EXCEPT ![i].status = "ok"]
        \/ txs' = [txs EXCEPT ![i].status = "reverted"]
    BY <1>2 DEF Yield!Opened, Yield!Captured, Yield!Funded, Yield!Reverted
  <2>4. CASE txs' = [txs EXCEPT ![i].status = "ok"]
    BY <2>2, <2>4
  <2>5. CASE txs' = [txs EXCEPT ![i].status = "reverted"]
    BY <2>2, <2>5
  <2> QED BY <2>1, <2>3, <2>4, <2>5
<1>8. \A j \in DOMAIN txs' : InFlight(j)' => j \in DOMAIN txs /\ InFlight(j) /\ j # i
  BY <1>7 DEF InFlight
<1>9. CASE txs[i].kind = "fund" /\ Yield(c)!Funded(i)
  <2> DEFINE e == txs[i].epoch
  <2>1. PICK sum, new : sum = Yield(c)!Pulled(txs[i].amount) /\ new = epochs'[e]
    OBVIOUS
  <2>2. txs[i].amount <= balance
    BY <1>4, <1>9 DEF FloatInv
  <2>3. sum = txs[i].amount
    BY <1>1, <1>5, <2>1, <2>2 DEF Yield!Pulled
  <2>4. /\ balance' = balance - txs[i].amount
        /\ epochs' = [epochs EXCEPT ![e] =
             [@ EXCEPT !.funded = TRUE, !.rate = txs[i].rate, !.amount = txs[i].amount, !.paid = sum]]
    BY <1>9, <2>1, <2>3 DEF Yield!Funded
  <2>5. DOMAIN epochs' = DOMAIN epochs /\ \A f \in DOMAIN epochs : f # e => epochs'[f] = epochs[f]
    BY <1>1, <2>4
  <2>6. e \in DOMAIN epochs => epochs'[e].paid = epochs'[e].amount
    <3>1. ASSUME e \in DOMAIN epochs PROVE epochs'[e].paid = sum /\ epochs'[e].amount = txs[i].amount
      <4>1. epochs[e] \in EpochRecord(c)
        BY <1>1, <3>1
      <4>2. PICK y, a, t, r : y = epochs[e] /\ a = txs[i].amount /\ t = txs[i] /\ r = txs[i].rate
        OBVIOUS
      <4>3. epochs'[e] = [y EXCEPT !.funded = TRUE, !.rate = r, !.amount = a, !.paid = sum]
        BY <1>1, <2>4, <3>1, <4>2
      <4> HIDE DEF e
      <4>4. DOMAIN y = {"token", "supply", "funded", "rate", "amount", "paid"}
        BY <4>1, <4>2 DEF EpochRecord
      <4> QED BY <4>2, <4>3, <4>4
    <3> QED BY <2>3, <3>1
  <2>7. \A f \in DOMAIN epochs' : epochs'[f].funded => epochs'[f].paid = epochs'[f].amount
    BY <2>5, <2>6 DEF FloatInv
  <2>8. \A j \in DOMAIN txs' : ~ (InFlight(j)' /\ txs'[j].kind = "fund")
    BY <1>4, <1>7, <1>8, <1>9 DEF FloatInv
  <2>9. floatSweep.on => /\ run.at \in {"sent", "waiting"} /\ run.tx = i /\ run.amount = txs[i].amount
                         /\ floatSweep.ledger <= balance
    BY <1>4, <1>9 DEF FloatInv, InFlight
  <2>10. floatSweep.on => floatSweep.ledger <= balance' + run.amount
    BY <1>1, <1>5, <2>4, <2>9
  <2>11. floatSweep.on => floatSweep.ledger <= balance' + run.amount /\ txs'[run.tx].status = "ok"
    <3>1. txs'[i].status = "ok"
      <4>1. txs' = [txs EXCEPT ![i].status = "ok"]
        BY <1>9 DEF Yield!Funded
      <4>2. [txs[i] EXCEPT !.status = "ok"].status = "ok"
        BY <1>5, TxMarked
      <4> QED BY <1>1, <1>4, <4>1, <4>2
    <3> QED BY <2>9, <2>10, <3>1
  <2>12. run.at \in {"sent", "waiting"} => run.amount = txs'[run.tx].amount
    BY <1>6, <1>7 DEF FloatInv
  <2>13. run.at \in {"fund", "sent", "waiting"} => run.amount <= floatSweep.ledger
    BY DEF FloatInv
  <2> HIDE DEF e
  <2> QED BY <1>3, <2>7, <2>8, <2>9, <2>11, <2>12, <2>13 DEF FloatInv
<1>10. CASE ~ (txs[i].kind = "fund" /\ Yield(c)!Funded(i))
  <2>1. balance' = balance /\ (txs[i].kind = "fund" => txs'[i].status = "reverted")
    <3>1. balance' = balance
      BY <1>2, <1>10 DEF Yield!Opened, Yield!Captured, Yield!Reverted
    <3>2. ASSUME txs[i].kind = "fund" PROVE txs'[i].status = "reverted"
      <4>1. txs' = [txs EXCEPT ![i].status = "reverted"]
        BY <1>2, <1>10, <3>2 DEF Yield!Reverted
      <4>2. [txs[i] EXCEPT !.status = "reverted"].status = "reverted"
        BY <1>5, TxMarked
      <4> QED BY <1>1, <1>4, <4>1, <4>2
    <3> QED BY <3>1, <3>2
  <2>2. \A f \in DOMAIN epochs' : epochs'[f].funded => epochs'[f].paid = epochs'[f].amount
    <3>1. CASE Yield(c)!Opened(i)
      <4>1. PICK new : epochs' = Append(epochs, new) /\ ~new.funded
        BY <3>1 DEF Yield!Opened
      <4> QED BY <1>1, <4>1 DEF FloatInv
    <3>2. CASE Yield(c)!Captured(i)
      <4> DEFINE e == txs[i].epoch
      <4>1. PICK s : epochs' = [epochs EXCEPT ![e].supply = s]
        BY <3>2 DEF Yield!Captured
      <4>2. /\ DOMAIN epochs' = DOMAIN epochs
            /\ \A f \in DOMAIN epochs : /\ epochs'[f].funded <=> epochs[f].funded
                                        /\ epochs'[f].paid = epochs[f].paid /\ epochs'[f].amount = epochs[f].amount
        <5> HIDE DEF e
        <5>1. DOMAIN epochs' = DOMAIN epochs
          BY <4>1
        <5>2. ASSUME NEW f \in DOMAIN epochs
              PROVE  /\ epochs'[f].funded <=> epochs[f].funded
                     /\ epochs'[f].paid = epochs[f].paid /\ epochs'[f].amount = epochs[f].amount
          <6>1. CASE f # e
            BY <4>1, <6>1
          <6>2. CASE f = e
            <7>1. PICK y \in EpochRecord(c) : y = epochs[f]
              BY <1>1
            <7>2. epochs'[f] = [y EXCEPT !.supply = s]
              BY <4>1, <6>2, <7>1
            <7> QED BY <7>1, <7>2 DEF EpochRecord
          <6> QED BY <6>1, <6>2
        <5> QED BY <5>1, <5>2
      <4> QED BY <4>2 DEF FloatInv
    <3>3. CASE Yield(c)!Reverted(i)
      BY <3>3 DEF Yield!Reverted, FloatInv
    <3> QED BY <1>2, <1>10, <3>1, <3>2, <3>3
  <2>3. \A j, k \in DOMAIN txs' : InFlight(j)' /\ txs'[j].kind = "fund" /\ InFlight(k)' /\ txs'[k].kind = "fund" => j = k
    BY <1>7, <1>8 DEF FloatInv
  <2>4. \A j \in DOMAIN txs' : InFlight(j)' /\ txs'[j].kind = "fund" =>
          txs'[j].amount <= balance' /\ (floatSweep'.on => run'.at \in {"sent", "waiting"} /\ run'.tx = j)
    BY <1>3, <1>7, <1>8, <2>1 DEF FloatInv
  <2>5. run.at \in {"sent", "waiting"} => run.amount = txs'[run.tx].amount
    BY <1>6, <1>7 DEF FloatInv
  <2>6. run.at \in {"sent", "waiting"} /\ txs'[run.tx].status = "ok" => txs[run.tx].status = "ok"
    BY <1>6, <1>7, <2>1
  <2>7. floatSweep'.on =>
          IF run'.at \in {"sent", "waiting"} /\ txs'[run'.tx].status = "ok" THEN floatSweep'.ledger <= balance' + run'.amount
          ELSE floatSweep'.ledger <= balance'
    <3>1. CASE run.at \in {"sent", "waiting"} /\ txs'[run.tx].status = "ok"
      BY <1>3, <2>1, <2>6, <3>1 DEF FloatInv
    <3>2. CASE ~ (run.at \in {"sent", "waiting"} /\ txs'[run.tx].status = "ok")
      <4>1. ASSUME floatSweep.on, run.at \in {"sent", "waiting"}, txs[run.tx].status = "ok" PROVE FALSE
        <5>1. run.tx # i
          BY <1>4, <4>1 DEF InFlight
        <5> QED BY <1>6, <1>7, <3>2, <4>1, <5>1
      <4> QED BY <1>3, <2>1, <3>2, <4>1 DEF FloatInv
    <3> QED BY <3>1, <3>2
  <2>8. run.at \in {"fund", "sent", "waiting"} => run.amount <= floatSweep.ledger
    BY DEF FloatInv
  <2> QED BY <1>3, <2>2, <2>3, <2>4, <2>5, <2>7, <2>8 DEF FloatInv
<1> QED BY <1>9, <1>10

LEMMA FloatCron ==
  ASSUME NEW c, YieldInv(c), YieldInv(c)', FloatInv(c), Yield(c)!YieldAssumption,
         Yield(c)!NewDay \/ Yield(c)!Crash \/ Yield(c)!Tick \/ Yield(c)!SweepDone \/ (\E t \in c.Tokens : Yield(c)!Handle(t))
  PROVE  FloatInv(c)'
<1>1. /\ YieldTyped(c) /\ YieldTyped(c)' /\ UNCHANGED <<epochs, txs>>
  BY DEF YieldInv, Yield!NewDay, Yield!Crash, Yield!Tick, Yield!SweepDone, Yield!Handle, Yield!chain
<1>2. \A i \in DOMAIN txs' : InFlight(i)' /\ txs'[i].kind = "fund" =>
        i \in DOMAIN txs /\ InFlight(i) /\ txs[i].kind = "fund" /\ txs'[i].amount = txs[i].amount
  BY <1>1 DEF InFlight
<1>3. CASE Yield(c)!NewDay
  <2>1. /\ ~floatSweep'.on /\ run' = run /\ \A i \in DOMAIN txs' : ~InFlight(i)'
    BY <1>1, <1>3 DEF Yield!NewDay, Yield!Pending, InFlight
  <2>2. run'.at = "idle"
    BY <2>1 DEF YieldInv, DayInv
  <2> QED BY <1>1, <2>1, <2>2 DEF FloatInv
<1>4. CASE Yield(c)!Crash
  <2>1. /\ ~floatSweep'.on /\ run'.at = "idle" /\ balance' = balance
    BY <1>4 DEF Yield!Crash, Yield!Idle, Yield!Asleep, Yield!chain
  <2> QED BY <1>1, <1>2, <2>1 DEF FloatInv
<1>5. CASE Yield(c)!Tick
  <2>1. /\ dayDue /\ ~floatSweep.on /\ balance' = balance /\ run' = run
        /\ floatSweep' = floatSweep \/ floatSweep' = [on |-> TRUE, left |-> c.Tokens, ledger |-> balance]
    BY <1>5 DEF Yield!Tick, Yield!chain
  <2>2. run'.at = "idle" /\ \A i \in DOMAIN txs' : ~InFlight(i)'
    BY <1>1, <2>1 DEF YieldInv, DayInv, InFlight
  <2>3. floatSweep'.on => floatSweep'.ledger <= balance'
    BY <1>1, <2>1 DEF YieldTyped
  <2> QED BY <1>1, <2>1, <2>2, <2>3 DEF FloatInv
<1>6. CASE Yield(c)!SweepDone
  <2>1. /\ ~floatSweep'.on /\ run' = run /\ run.at = "idle" /\ balance' = balance
    BY <1>6 DEF Yield!SweepDone, Yield!Asleep, Yield!chain
  <2> QED BY <1>1, <1>2, <2>1 DEF FloatInv
<1>7. CASE \E t \in c.Tokens : Yield(c)!Handle(t)
  <2>1. PICK t \in c.Tokens : Yield(c)!Handle(t)
    BY <1>7
  <2>2. /\ floatSweep.on /\ run.at = "idle" /\ floatSweep' = [floatSweep EXCEPT !.left = @ \ {t}] /\ balance' = balance
    BY <2>1 DEF Yield!Handle, Yield!At, Yield!chain
  <2>3. floatSweep'.ledger = floatSweep.ledger /\ floatSweep.ledger \in Nat
    BY <1>1, <2>2 DEF YieldTyped
  <2>4. run'.at \in {"idle", "read"}
    <3>1. PICK r : \/ run' = [Yield(c)!Idle EXCEPT !.at = "read", !.token = t, !.rate = r, !.fundRate = r]
                   \/ run' = Yield(c)!Idle
      BY <2>1 DEF Yield!Handle
    <3>2. PICK idle : idle = Yield(c)!Idle
      OBVIOUS
    <3>3. idle.at = "idle" /\ DOMAIN idle = {"at", "token", "rate", "current", "row", "epoch", "resumed", "fundRate", "amount", "tx"}
      BY <3>2 DEF Yield!Idle
    <3>4. run' = [idle EXCEPT !.at = "read", !.token = t, !.rate = r, !.fundRate = r] \/ run' = idle
      BY <3>1, <3>2
    <3> QED BY <3>3, <3>4
  <2> QED BY <1>1, <1>2, <2>2, <2>3, <2>4, FloatThinks
<1> QED BY <1>3, <1>4, <1>5, <1>6, <1>7

\* Where a run goes next, short of funding an epoch or after it.
LEMMA RunGoes ==
  ASSUME NEW c, YieldTyped(c), c.Faults \cap {"wait", "database"} = {},
         \/ Yield(c)!Read \/ Yield(c)!Stranded \/ Yield(c)!Resume \/ Yield(c)!BackFill \/ Yield(c)!Open \/ Yield(c)!Record
         \/ Yield(c)!Capture \/ Yield(c)!Finalized \/ Yield(c)!DecryptFails \/ Yield(c)!Close \/ Yield(c)!CallFails \/ Yield(c)!Catch
  PROVE  run'.at \notin {"fund", "sent", "waiting"} /\ run.at \notin {"idle", "sent", "waiting"}
<1>1. PICK r : r = run
  OBVIOUS
<1>2. r \in RunRecord(c) /\ DOMAIN r = {"at", "token", "rate", "current", "row", "epoch", "resumed", "fundRate", "amount", "tx"}
  BY <1>1 DEF YieldTyped, RunRecord
<1>3. ~Yield(c)!Fault("database") /\ Yield(c)!Idle.at = "idle"
  BY DEF Yield!Fault, Yield!Idle
<1>4. CASE Yield(c)!Read
  <2>1. PICK m, n : run' = [r EXCEPT !.at = "decide", !.row = m, !.current = n]
    BY <1>1, <1>4 DEF Yield!Read, Yield!Continue
  <2> QED BY <1>2, <1>4, <2>1 DEF Yield!Read, Yield!At
<1>5. CASE Yield(c)!Stranded
  <2>1. run' = [r EXCEPT !.row = 0] /\ run.at = "decide"
    BY <1>1, <1>5 DEF Yield!Stranded, Yield!At
  <2> QED BY <1>1, <1>2, <2>1
<1>6. CASE Yield(c)!Resume
  <2>1. /\ run.at = "decide"
        /\ \/ run' = Yield(c)!Idle
           \/ \E m : run' = [[r EXCEPT !.epoch = m] EXCEPT !.at = "catch"]
           \/ \E m : run' = [[r EXCEPT !.epoch = m] EXCEPT !.at = "capture", !.resumed = TRUE]
    BY <1>1, <1>3, <1>6 DEF Yield!Resume, Yield!At, Yield!Return, Yield!Continue, Yield!Throw
  <2>2. ASSUME NEW m PROVE DOMAIN [r EXCEPT !.epoch = m] = DOMAIN r
    OBVIOUS
  <2>3. CASE \E m : run' = [[r EXCEPT !.epoch = m] EXCEPT !.at = "catch"]
    <3>1. PICK m, q : q = [r EXCEPT !.epoch = m] /\ run' = [q EXCEPT !.at = "catch"]
      BY <2>3
    <3> QED BY <1>2, <2>1, <2>2, <3>1
  <2>4. CASE \E m : run' = [[r EXCEPT !.epoch = m] EXCEPT !.at = "capture", !.resumed = TRUE]
    <3>1. PICK m, q : q = [r EXCEPT !.epoch = m] /\ run' = [q EXCEPT !.at = "capture", !.resumed = TRUE]
      BY <2>4
    <3> QED BY <1>2, <2>1, <2>2, <3>1
  <2> QED BY <1>3, <2>1, <2>3, <2>4
<1>7. CASE Yield(c)!BackFill
  <2>1. PICK m, q : q = [r EXCEPT !.epoch = m, !.resumed = TRUE] /\ run' = [q EXCEPT !.at = "capture"]
    BY <1>1, <1>3, <1>7 DEF Yield!BackFill, Yield!Continue
  <2>2. DOMAIN q = DOMAIN r
    BY <2>1
  <2> QED BY <1>2, <1>7, <2>1, <2>2 DEF Yield!BackFill, Yield!At
<1>8. CASE Yield(c)!Open
  <2>1. /\ run.at = "decide"
        /\ run' = Yield(c)!Idle \/ \E n : run' = [r EXCEPT !.at = "opening", !.tx = n]
    BY <1>1, <1>8 DEF Yield!Open, Yield!At, Yield!Return, Yield!Continue
  <2>2. CASE \E n : run' = [r EXCEPT !.at = "opening", !.tx = n]
    <3>1. PICK n : run' = [r EXCEPT !.at = "opening", !.tx = n]
      BY <2>2
    <3> QED BY <1>2, <2>1, <3>1
  <2> QED BY <1>3, <2>1, <2>2
<1>9. CASE Yield(c)!Record
  <2>1. PICK m, q : q = [r EXCEPT !.epoch = m, !.tx = 0] /\ run' = [q EXCEPT !.at = "capture"]
    BY <1>1, <1>3, <1>9 DEF Yield!Record, Yield!Continue
  <2>2. DOMAIN q = DOMAIN r
    BY <2>1
  <2> QED BY <1>2, <1>9, <2>1, <2>2 DEF Yield!Record, Yield!At
<1>10. CASE Yield(c)!Capture
  <2>1. /\ run.at = "capture"
        /\ run' = [r EXCEPT !.at = "size"] \/ \E n : run' = [r EXCEPT !.at = "capturing", !.tx = n]
    BY <1>1, <1>10 DEF Yield!Capture, Yield!At, Yield!Continue
  <2>2. CASE \E n : run' = [r EXCEPT !.at = "capturing", !.tx = n]
    <3>1. PICK n : run' = [r EXCEPT !.at = "capturing", !.tx = n]
      BY <2>2
    <3> QED BY <1>2, <2>1, <3>1
  <2> QED BY <1>2, <2>1, <2>2
<1>11. CASE Yield(c)!Finalized
  <2>1. run.at = "capturing" /\ run' = [r EXCEPT !.at = "size", !.tx = 0]
    BY <1>1, <1>3, <1>11 DEF Yield!Finalized, Yield!At, Yield!Continue
  <2> QED BY <1>2, <2>1
<1>12. CASE Yield(c)!DecryptFails
  BY <1>3, <1>12 DEF Yield!DecryptFails, Yield!At
<1>13. CASE Yield(c)!Close
  BY <1>3, <1>13 DEF Yield!Close, Yield!At
<1>14. CASE Yield(c)!CallFails
  <2>1. run' = [r EXCEPT !.at = "catch"] /\ run.at \in {"read", "capture", "fund", "decide"}
    BY <1>1, <1>14 DEF Yield!CallFails, Yield!Throw, Yield!At
  <2> QED BY <1>2, <2>1
<1>15. CASE Yield(c)!Catch
  BY <1>3, <1>15 DEF Yield!Catch, Yield!At
<1> QED BY <1>4, <1>5, <1>6, <1>7, <1>8, <1>9, <1>10, <1>11, <1>12, <1>13, <1>14, <1>15

\* The steps of a run before it funds an epoch, and after.
LEMMA FloatRuns ==
  ASSUME NEW c, YieldInv(c), YieldInv(c)', FloatInv(c), c.SnapshotBased, c.Faults \cap {"wait", "database"} = {},
         \/ Yield(c)!Read \/ Yield(c)!Stranded \/ Yield(c)!Resume \/ Yield(c)!BackFill \/ Yield(c)!Open \/ Yield(c)!Record
         \/ Yield(c)!Capture \/ Yield(c)!Finalized \/ Yield(c)!DecryptFails \/ Yield(c)!Close \/ Yield(c)!CallFails \/ Yield(c)!Catch
  PROVE  FloatInv(c)'
<1>1. /\ YieldTyped(c) /\ YieldTyped(c)' /\ txs \in Seq(TxRecord(c))
      /\ floatSweep \in [on : BOOLEAN, left : SUBSET c.Tokens, ledger : Nat]
  BY DEF YieldInv, YieldTyped
<1>2. run'.at \notin {"fund", "sent", "waiting"} /\ run.at \notin {"idle", "sent", "waiting"}
  BY <1>1, RunGoes
<1>3. UNCHANGED <<epochs, balance>>
  BY DEF Yield!Read, Yield!Stranded, Yield!Resume, Yield!BackFill, Yield!Open, Yield!Record, Yield!Capture, Yield!Finalized,
         Yield!DecryptFails, Yield!Close, Yield!CallFails, Yield!Catch, Yield!Continue, Yield!Throw, Yield!Return,
         Yield!Write, Yield!Send, Yield!chain
<1>4. floatSweep'.on => floatSweep.on /\ floatSweep'.ledger <= floatSweep.ledger
  <2>1. floatSweep' = floatSweep \/ Yield(c)!Close
    BY DEF Yield!Read, Yield!Stranded, Yield!Resume, Yield!BackFill, Yield!Open, Yield!Record, Yield!Capture, Yield!Finalized,
           Yield!DecryptFails, Yield!CallFails, Yield!Catch, Yield!Continue, Yield!Throw, Yield!Return
  <2>2. ASSUME Yield(c)!Close PROVE floatSweep' = floatSweep
    <3>1. \/ floatSweep' = floatSweep
          \/ floatSweep' = [floatSweep EXCEPT !.ledger = IF run.resumed THEN @ ELSE Yield(c)!Consumed(FALSE, run.amount)]
      BY <2>2 DEF Yield!Close, Yield!Throw
    <3>2. Yield(c)!Consumed(FALSE, run.amount) = floatSweep.ledger
      BY DEF Yield!Consumed
    <3>3. floatSweep' = floatSweep \/ floatSweep' = [floatSweep EXCEPT !.ledger = floatSweep.ledger]
      BY <3>1, <3>2
    <3> QED BY <1>1, <3>3
  <2>3. floatSweep.ledger \in Nat
    BY <1>1
  <2> QED BY <2>1, <2>2, <2>3
<1>5. txs' = txs \/ \E x : txs' = Append(txs, x) /\ x.kind # "fund"
  <2>1. CASE Yield(c)!Open
    <3>1. txs' = txs \/ txs' = Append(txs, Yield(c)!Tx("open", run.token, 0, 0, 0))
      BY <2>1 DEF Yield!Open, Yield!Return, Yield!Send, Yield!chain
    <3>2. Yield(c)!Tx("open", run.token, 0, 0, 0).kind # "fund"
      BY DEF Yield!Tx
    <3> QED BY <3>1, <3>2
  <2>2. CASE Yield(c)!Capture
    <3>1. txs' = txs \/ txs' = Append(txs, Yield(c)!Tx("capture", run.token, run.epoch, 0, 0))
      BY <2>2 DEF Yield!Capture, Yield!Send, Yield!chain
    <3>2. Yield(c)!Tx("capture", run.token, run.epoch, 0, 0).kind # "fund"
      BY DEF Yield!Tx
    <3> QED BY <3>1, <3>2
  <2>3. CASE ~Yield(c)!Open /\ ~Yield(c)!Capture
    BY <2>3 DEF Yield!Read, Yield!Stranded, Yield!Resume, Yield!BackFill, Yield!Record, Yield!Finalized,
         Yield!DecryptFails, Yield!Close, Yield!CallFails, Yield!Catch, Yield!Continue, Yield!Throw, Yield!Return,
         Yield!Write, Yield!chain
  <2> QED BY <2>1, <2>2, <2>3
<1>6. \A i \in DOMAIN txs' : InFlight(i)' /\ txs'[i].kind = "fund" =>
        i \in DOMAIN txs /\ InFlight(i) /\ txs[i].kind = "fund" /\ txs'[i].amount = txs[i].amount
  <2>1. CASE \E x : txs' = Append(txs, x) /\ x.kind # "fund"
    <3>1. PICK x : txs' = Append(txs, x) /\ x.kind # "fund"
      BY <2>1
    <3>2. DOMAIN txs' = DOMAIN txs \cup {Len(txs) + 1} /\ txs'[Len(txs) + 1] = x /\ \A i \in DOMAIN txs : txs'[i] = txs[i]
      BY <1>1, <3>1
    <3> QED BY <3>1, <3>2 DEF InFlight
  <2> QED BY <1>5, <2>1 DEF InFlight
<1> QED BY <1>1, <1>2, <1>3, <1>4, <1>6, FloatThinks

\* Sizing a pool: what is to be funded is there in the ledger, and nothing of
\* the float is promised to another.
LEMMA FloatSizes ==
  ASSUME NEW c, YieldInv(c), YieldInv(c)', FloatInv(c), Yield(c)!YieldAssumption, c.SnapshotBased,
         c.Faults \cap {"wait", "database"} = {}, Yield(c)!Size
  PROVE  FloatInv(c)'
<1>1. /\ YieldTyped(c) /\ YieldTyped(c)' /\ run \in RunRecord(c)
      /\ floatSweep \in [on : BOOLEAN, left : SUBSET c.Tokens, ledger : Nat]
  BY DEF YieldInv, YieldTyped
<1>2. run.at = "size" /\ UNCHANGED <<epochs, txs, balance, floatSweep>>
  BY DEF Yield!Size, Yield!At, Yield!Continue, Yield!Throw, Yield!Return, Yield!Write, Yield!chain
<1>3. \/ run' = Yield(c)!Idle
      \/ /\ floatSweep.ledger >= Yield(c)!Amount
         /\ run' = [run EXCEPT !.at = "fund", !.amount = Yield(c)!Amount, !.fundRate = Yield(c)!RowRate]
  <2>1. ~Yield(c)!Fault("database")
    BY DEF Yield!Fault
  <2> QED BY <2>1 DEF Yield!Size, Yield!Continue, Yield!Return
<1>4. PICK r, a, f : r = run /\ a = Yield(c)!Amount /\ f = Yield(c)!RowRate
  OBVIOUS
<1>5. DOMAIN r = {"at", "token", "rate", "current", "row", "epoch", "resumed", "fundRate", "amount", "tx"}
  BY <1>1, <1>4 DEF RunRecord
<1>6. \/ run'.at = "idle"
      \/ run'.at = "fund" /\ run'.amount = a /\ floatSweep.ledger >= a
  <2>1. Yield(c)!Idle.at = "idle"
    BY DEF Yield!Idle
  <2>2. CASE floatSweep.ledger >= a /\ run' = [r EXCEPT !.at = "fund", !.amount = a, !.fundRate = f]
    BY <1>5, <2>2
  <2> QED BY <1>3, <1>4, <2>1, <2>2
<1>7. run'.at = "fund" => run'.amount <= floatSweep'.ledger
  <2>1. run'.amount \in Nat
    BY <1>1 DEF YieldTyped, RunRecord
  <2> QED BY <1>1, <1>2, <1>6, <2>1
<1>8. \A i \in DOMAIN txs : InFlight(i) /\ txs[i].kind = "fund" => txs[i].amount <= balance /\ ~floatSweep.on
  BY <1>2 DEF FloatInv
<1>9. floatSweep.on => floatSweep.ledger <= balance
  BY <1>2 DEF FloatInv
<1>10. run'.at \notin {"sent", "waiting"} /\ (run'.at = "fund" \/ run'.at = "idle")
  BY <1>6
<1> QED BY <1>2, <1>7, <1>8, <1>9, <1>10 DEF FloatInv, InFlight

\* Funding: the only one in flight, and its amount is there.
LEMMA FloatFunds ==
  ASSUME NEW c, YieldInv(c), YieldInv(c)', FloatInv(c), Yield(c)!Fund
  PROVE  FloatInv(c)'
<1>1. /\ run \in RunRecord(c) /\ txs \in Seq(TxRecord(c)) /\ balance \in Nat /\ run.amount \in Nat
      /\ floatSweep.ledger \in Nat /\ (~floatSweep.on => run.at = "idle")
  BY DEF YieldInv, YieldTyped, DayInv, RunRecord
<1>2. run.at = "fund" /\ UNCHANGED <<epochs, balance, floatSweep>>
  BY DEF Yield!Fund, Yield!At, Yield!Continue, Yield!Send
<1>3. floatSweep.on
  BY <1>1, <1>2
<1>4. PICK r, n, x : r = run /\ n = Len(txs) + 1 /\ x = Yield(c)!Tx("fund", run.token, run.epoch, run.fundRate, run.amount)
  OBVIOUS
<1>5. run' = [r EXCEPT !.at = "sent", !.tx = n] /\ txs' = Append(txs, x)
  BY <1>4 DEF Yield!Fund, Yield!Continue, Yield!Send
<1>6. run'.at = "sent" /\ run'.tx = n /\ run'.amount = run.amount
  <2>1. DOMAIN r = {"at", "token", "rate", "current", "row", "epoch", "resumed", "fundRate", "amount", "tx"}
    BY <1>1, <1>4 DEF RunRecord
  <2> QED BY <1>4, <1>5, <2>1
<1>7. x.kind = "fund" /\ x.amount = run.amount /\ x.status = "pending"
  BY <1>4 DEF Yield!Tx
<1>8. /\ DOMAIN txs' = DOMAIN txs \cup {n} /\ txs'[n] = x /\ \A i \in DOMAIN txs : txs'[i] = txs[i]
  BY <1>1, <1>4, <1>5
<1>9. \A i \in DOMAIN txs' : InFlight(i)' /\ txs'[i].kind = "fund" => i = n
  BY <1>2, <1>3, <1>8 DEF FloatInv, InFlight
<1>10. run.amount <= balance /\ run.amount <= floatSweep.ledger /\ floatSweep.ledger <= balance
  <2>1. run.amount <= floatSweep.ledger /\ floatSweep.ledger <= balance
    BY <1>2, <1>3 DEF FloatInv
  <2> QED BY <1>1, <2>1
<1> QED BY <1>2, <1>3, <1>6, <1>7, <1>8, <1>9, <1>10 DEF FloatInv

LEMMA FloatSent ==
  ASSUME NEW c, YieldInv(c), YieldInv(c)', FloatInv(c), c.Faults \cap {"wait", "database"} = {}, Yield(c)!Sent
  PROVE  FloatInv(c)'
<1>1. run.at = "sent" /\ UNCHANGED <<epochs, txs, balance, floatSweep>>
  BY DEF Yield!Sent, Yield!At, Yield!Continue, Yield!Throw, Yield!Write, Yield!chain
<1>2. run' = [run EXCEPT !.at = "waiting"]
  <2>1. ~Yield(c)!Fault("database")
    BY DEF Yield!Fault
  <2> QED BY <2>1 DEF Yield!Sent, Yield!Continue
<1>3. run \in RunRecord(c)
  BY DEF YieldInv, YieldTyped
<1>4. run'.at = "waiting" /\ run'.tx = run.tx /\ run'.amount = run.amount
  <2>1. PICK r : r = run
    OBVIOUS
  <2>2. DOMAIN r = {"at", "token", "rate", "current", "row", "epoch", "resumed", "fundRate", "amount", "tx"}
    BY <1>3, <2>1 DEF RunRecord
  <2> QED BY <1>2, <2>1, <2>2
<1>5. /\ \A i \in DOMAIN txs : InFlight(i) /\ txs[i].kind = "fund" =>
           txs[i].amount <= balance /\ (floatSweep.on => run.tx = i)
      /\ floatSweep.on =>
           IF txs[run.tx].status = "ok" THEN floatSweep.ledger <= balance + run.amount ELSE floatSweep.ledger <= balance
      /\ run.amount <= floatSweep.ledger /\ run.amount = txs[run.tx].amount
  BY <1>1 DEF FloatInv
<1> QED BY <1>1, <1>4, <1>5 DEF FloatInv, InFlight

\* What was funded leaves the ledger as it has left the balance.
LEMMA FloatSettles ==
  ASSUME NEW c, YieldInv(c), YieldInv(c)', FloatInv(c), c.SnapshotBased, Yield(c)!Settle
  PROVE  FloatInv(c)'
<1>1. /\ run \in RunRecord(c) /\ balance \in Nat /\ run.amount \in Nat /\ floatSweep.ledger \in Nat
      /\ floatSweep \in [on : BOOLEAN, left : SUBSET c.Tokens, ledger : Nat] /\ (~floatSweep.on => run.at = "idle")
  BY DEF YieldInv, YieldTyped, DayInv, RunRecord
<1>2. run.at = "waiting" /\ txs[run.tx].status = "ok" /\ UNCHANGED <<epochs, txs, balance>>
  BY DEF Yield!Settle, Yield!At, Yield!Confirmed, Yield!chain
<1>3. floatSweep.on
  BY <1>1, <1>2
<1>4. run.amount <= floatSweep.ledger /\ floatSweep.ledger <= balance + run.amount
  BY <1>2, <1>3 DEF FloatInv
<1>5. Yield(c)!Min({run.amount, floatSweep.ledger}) = run.amount
  <2>1. \A a, b \in Nat : a <= b => Yield(c)!Min({a, b}) = a
    <3> TAKE a, b \in Nat
    <3>1. Yield(c)!Min({a, b}) \in {a, b} /\ Yield(c)!Min({a, b}) <= a
      BY YieldMin
    <3> QED BY <3>1
  <2> QED BY <1>1, <1>4, <2>1
<1>6. Yield(c)!Consumed(TRUE, run.amount) = floatSweep.ledger - run.amount
  BY <1>5 DEF Yield!Consumed
<1>7. floatSweep' = [floatSweep EXCEPT !.ledger = floatSweep.ledger - run.amount]
  BY <1>6 DEF Yield!Settle
<1>8. floatSweep'.on = floatSweep.on /\ floatSweep'.ledger <= balance
  <2>1. floatSweep'.on = floatSweep.on /\ floatSweep'.ledger = floatSweep.ledger - run.amount
    BY <1>1, <1>7
  <2> QED BY <1>1, <1>4, <2>1
<1>9. run'.at = "closing"
  <2>1. PICK r : r = run
    OBVIOUS
  <2>2. run' = [r EXCEPT !.at = "closing", !.tx = 0]
    BY <2>1 DEF Yield!Settle
  <2>3. DOMAIN r = {"at", "token", "rate", "current", "row", "epoch", "resumed", "fundRate", "amount", "tx"}
    BY <1>1, <2>1 DEF RunRecord
  <2> QED BY <2>2, <2>3
<1>10. \A i \in DOMAIN txs : ~(InFlight(i) /\ txs[i].kind = "fund")
  BY <1>2, <1>3 DEF FloatInv, InFlight
<1> QED BY <1>2, <1>8, <1>9, <1>10 DEF FloatInv, InFlight

\* A funding that failed is in flight no more.
LEMMA FloatFails ==
  ASSUME NEW c, YieldInv(c), YieldInv(c)', FloatInv(c), c.Faults \cap {"wait", "database"} = {}, Yield(c)!WaitFails
  PROVE  FloatInv(c)'
<1>1. /\ run \in RunRecord(c) /\ (~floatSweep.on => run.at = "idle")
  BY DEF YieldInv, YieldTyped, DayInv
<1>2. /\ run.at \in {"opening", "capturing", "waiting"} /\ txs[run.tx].status = "reverted"
      /\ UNCHANGED <<epochs, txs, balance, floatSweep>>
  <2>1. ~Yield(c)!Fault("wait")
    BY DEF Yield!Fault
  <2> QED BY <2>1 DEF Yield!WaitFails, Yield!Failed, Yield!Throw, Yield!chain
<1>3. run'.at = "catch"
  <2>1. run' = [run EXCEPT !.at = "catch"]
    BY DEF Yield!WaitFails, Yield!Throw
  <2> QED BY <1>1, <2>1 DEF RunRecord
<1>4. floatSweep.on
  BY <1>1, <1>2
<1>5. floatSweep.ledger <= balance
  BY <1>2, <1>4 DEF FloatInv
<1>6. \A i \in DOMAIN txs : ~(InFlight(i) /\ txs[i].kind = "fund")
  BY <1>2, <1>4 DEF FloatInv, InFlight
<1> QED BY <1>2, <1>3, <1>5, <1>6 DEF FloatInv, InFlight

\* Every step keeps the promises.
LEMMA FloatKeeps ==
  ASSUME NEW c, YieldInv(c), FloatInv(c), Yield(c)!YieldAssumption, c.SnapshotBased,
         c.Faults \cap {"wait", "database"} = {}, Yield(c)!Next
  PROVE  FloatInv(c)'
<1>1. YieldInv(c)'
  BY YieldKeeps
<1>2. CASE Yield(c)!Mine
  BY <1>1, <1>2, FloatMines
<1>3. CASE Yield(c)!NewDay \/ Yield(c)!Crash \/ Yield(c)!Tick \/ Yield(c)!SweepDone \/ (\E t \in c.Tokens : Yield(c)!Handle(t))
  BY <1>1, <1>3, FloatCron
<1>4. CASE \/ Yield(c)!Read \/ Yield(c)!Stranded \/ Yield(c)!Resume \/ Yield(c)!BackFill \/ Yield(c)!Open \/ Yield(c)!Record
           \/ Yield(c)!Capture \/ Yield(c)!Finalized \/ Yield(c)!DecryptFails \/ Yield(c)!Close \/ Yield(c)!CallFails \/ Yield(c)!Catch
  BY <1>1, <1>4, FloatRuns
<1>5. CASE Yield(c)!Size
  BY <1>1, <1>5, FloatSizes
<1>6. CASE Yield(c)!Fund
  BY <1>1, <1>6, FloatFunds
<1>7. CASE Yield(c)!Sent
  BY <1>1, <1>7, FloatSent
<1>8. CASE Yield(c)!Settle
  BY <1>1, <1>8, FloatSettles
<1>9. CASE Yield(c)!WaitFails
  BY <1>1, <1>9, FloatFails
<1> QED BY <1>2, <1>3, <1>4, <1>5, <1>6, <1>7, <1>8, <1>9 DEF Yield!Next, Yield!Runner

\* What the invariant says of the rows, of the amounts, and of what is resumed.
LEMMA YieldAgrees ==
  ASSUME NEW c, YieldInv(c)
  PROVE  Yield(c)!RowsAgree /\ Yield(c)!AmountFits /\ Yield(c)!NoOrphan
<1>1. /\ epochs \in Seq(EpochRecord(c)) /\ Len(epochs) <= c.MaxEpochs
      /\ \A e \in DOMAIN epochs : EpochFine(c, e)
      /\ \A e \in 1 .. c.MaxEpochs : RowFine(c, e)
  BY DEF YieldInv, YieldTyped, ChainInv, Room
<1>2. Yield(c)!RowsAgree
  BY <1>1 DEF Yield!RowsAgree, Yield!Rowed, EpochFine, RowFine, HasRow
<1>3. Yield(c)!AmountFits
  BY <1>1 DEF Yield!AmountFits, EpochFine, Fitting, Fit
<1>4. Yield(c)!NoOrphan
  <2> SUFFICES ASSUME NEW e \in 1 .. c.MaxEpochs, Yield(c)!Rowed(e), distributions[e].status \notin Yield(c)!Resolved
        PROVE  Yield(c)!Current(epochs[e].token) = e
    BY DEF Yield!NoOrphan
  <2>1. e \in DOMAIN epochs /\ Newest(e, epochs[e].token)
    BY <1>1 DEF Yield!Rowed, Yield!Resolved, RowFine, HasRow, Waits
  <2>2. PICK t, S : t = epochs[e].token /\ S = {f \in DOMAIN epochs : epochs[f].token = t}
    OBVIOUS
  <2>3. PICK m : m = Yield(c)!Max({0} \cup S)
    OBVIOUS
  <2>4. S \in SUBSET (1 .. Len(epochs)) /\ Len(epochs) \in Nat
    BY <1>1, <2>2
  <2>5. m \in {0} \cup S /\ \A f \in S : f <= m
    BY <2>3, <2>4, YieldMax
  <2>6. e \in S /\ \A f \in S : f <= e
    BY <2>1, <2>2 DEF Newest
  <2>7. m = e
    BY <2>4, <2>5, <2>6
  <2> QED BY <2>2, <2>3, <2>7 DEF Yield!Current
<1> QED BY <1>2, <1>3, <1>4

\* The instances fulfil what is assumed of them.
LEMMA ShortAssumption ==
  Yield(ShortYield)!YieldAssumption /\ ShortYield.SnapshotBased /\ ShortYield.Faults \cap {"wait", "database"} = {}
BY DEF Yield!YieldAssumption, ShortYield, FaultyYield

LEMMA CappedAssumption == Yield(CappedYield)!YieldAssumption
BY DEF Yield!YieldAssumption, CappedYield, FaultyYield

\* Whichever part runs, its epochs keep the invariant.
EpochsInv ==
  IF part = "short" THEN YieldInv(ShortYield) /\ FloatInv(ShortYield)
  ELSE IF part = "capped" THEN YieldInv(CappedYield) ELSE YieldInv(YieldOf)

\* yield-epoch-runner.ts:882-1140, yield-cron.ts:1200-1240: an epoch is funded at
\* the rate of its audit row and for its own holders, whatever fails and
\* whichever day it is resumed on; what is resumed is its token's current epoch;
\* and where no write or wait fails, the sweep never promises the same mhUSDC twice.
THEOREM FundedAsPromisedAlways == Services => []FundedAsPromised
<1>1. ServicesInit => EpochsInv
  <2>1. ServicesInit /\ part = "short" => EpochsInv
    BY ShortAssumption, YieldStarts, FloatStarts DEF ServicesInit, EpochsInv
  <2>2. ServicesInit /\ part = "capped" => EpochsInv
    BY CappedAssumption, YieldStarts DEF ServicesInit, EpochsInv
  <2>3. ServicesInit /\ part \notin {"short", "capped"} => EpochsInv
    BY ConstantsAssumption, YieldStarts DEF ServicesInit, EpochsInv
  <2> QED BY <2>1, <2>2, <2>3
<1>2. EpochsInv /\ [ServicesNext]_servicesVars => EpochsInv'
  <2> SUFFICES ASSUME EpochsInv, [ServicesNext]_servicesVars PROVE EpochsInv'
    OBVIOUS
  <2>1. part' = part
    BY DEF ServicesNext, Follows, servicesVars
  <2>2. ASSUME part = "short" PROVE YieldInv(ShortYield)' /\ FloatInv(ShortYield)'
    <3>1. UNCHANGED yieldVars \/ Yield(ShortYield)!Next
      BY <2>2 DEF ServicesNext, Follows, Rest, servicesVars
    <3>2. YieldInv(ShortYield) /\ FloatInv(ShortYield)
      BY <2>2 DEF EpochsInv
    <3>3. CASE UNCHANGED yieldVars
      BY <3>2, <3>3, YieldStutters, FloatStutters
    <3>4. CASE Yield(ShortYield)!Next
      BY <3>2, <3>4, ShortAssumption, YieldKeeps, FloatKeeps
    <3> QED BY <3>1, <3>3, <3>4
  <2>3. ASSUME part = "capped" PROVE YieldInv(CappedYield)'
    <3>1. UNCHANGED yieldVars \/ Yield(CappedYield)!Next
      BY <2>3 DEF ServicesNext, Follows, Rest, servicesVars
    <3>2. YieldInv(CappedYield)
      BY <2>3 DEF EpochsInv
    <3>3. CASE UNCHANGED yieldVars
      BY <3>2, <3>3, YieldStutters
    <3>4. CASE Yield(CappedYield)!Next
      BY <3>2, <3>4, CappedAssumption, YieldKeeps
    <3> QED BY <3>1, <3>3, <3>4
  <2>4. ASSUME part \notin {"short", "capped"} PROVE YieldInv(YieldOf)'
    <3>1. UNCHANGED yieldVars \/ Yield(YieldOf)!Next
      BY <2>4 DEF ServicesNext, Follows, Rest, servicesVars
    <3>2. YieldInv(YieldOf)
      BY <2>4 DEF EpochsInv
    <3>3. CASE UNCHANGED yieldVars
      BY <3>2, <3>3, YieldStutters
    <3>4. CASE Yield(YieldOf)!Next
      BY <3>2, <3>4, ConstantsAssumption, YieldKeeps
    <3> QED BY <3>1, <3>3, <3>4
  <2> QED BY <2>1, <2>2, <2>3, <2>4 DEF EpochsInv
<1>3. EpochsInv => FundedAsPromised
  <2> SUFFICES ASSUME EpochsInv PROVE FundedAsPromised
    OBVIOUS
  <2>1. part = "yield" => Yield(YieldOf)!RowsAgree /\ Yield(YieldOf)!AmountFits /\ Yield(YieldOf)!NoOrphan
    BY YieldAgrees DEF EpochsInv
  <2>2. part = "capped" => Yield(CappedYield)!AmountFits
    BY YieldAgrees DEF EpochsInv
  <2>3. part = "short" => Yield(ShortYield)!RowsAgree /\ Yield(ShortYield)!AmountFits /\ Yield(ShortYield)!NoOrphan
    BY YieldAgrees DEF EpochsInv
  <2>4. part = "short" => Yield(ShortYield)!PaidInFull
    BY DEF EpochsInv, FloatInv, Yield!PaidInFull
  <2> QED BY <2>1, <2>2, <2>3, <2>4 DEF FundedAsPromised
<1> QED BY <1>1, <1>2, <1>3, PTL DEF Services

-----------------------------------------------------------------------------
(* What the NAV services keep within its set *)

\* Ages stop at Old; and the newest row is the feed's only if there is one.
NavAged(c) ==
  /\ navAge <= 5 * c.Interval /\ fedAge <= 5 * c.Interval /\ rowAge <= 5 * c.Interval
  /\ feed \in {"same", "other", "dead"} /\ newest \in {"none", "feed", "publisher"} /\ fed \in BOOLEAN
  /\ newest = "feed" => fed
  /\ pub.at = "idle" => pub.waited = 0
  /\ mishaps \in 0 .. c.MaxFaults

NavKept(c) == NavTyped(c) /\ NavAged(c)

LEMMA NavKeptStarts ==
  ASSUME NEW c, Nav(c)!RefreshAssumption, Nav(c)!Init PROVE NavKept(c)
<1>1. NavTyped(c)
  BY NavStarts
<1>2. /\ navAge = 0 /\ fedAge = 0 /\ rowAge = 0 /\ feed \in {"same", "other"} /\ mishaps = 0
      /\ newest \in c.Initial /\ fed = (newest = "feed") /\ pub.waited = 0
  BY DEF Nav!Init, Nav!Idle
<1>3. c.Interval \in Nat /\ c.MaxFaults \in Nat /\ c.Initial \subseteq {"none", "feed"}
  BY DEF Nav!RefreshAssumption
<1>4. fed \in BOOLEAN /\ (newest = "feed" => fed)
  BY <1>2
<1> QED BY <1>1, <1>2, <1>3, <1>4 DEF NavKept, NavAged

LEMMA NavStaysAged ==
  ASSUME NEW c, Nav(c)!RefreshAssumption, NavTyped(c), NavAged(c), Nav(c)!Next PROVE NavAged(c)'
<1>1. c.Interval \in Nat /\ c.BackfillAge \in 0 .. 5 * c.Interval /\ c.MaxFaults \in Nat
  BY DEF Nav!RefreshAssumption
<1>2. /\ navAge \in Nat /\ fedAge \in Nat /\ rowAge \in Nat
      /\ navAge <= 5 * c.Interval /\ fedAge <= 5 * c.Interval /\ rowAge <= 5 * c.Interval
  BY DEF NavTyped, NavAged
<1>3. ASSUME NEW a \in Nat, a <= 5 * c.Interval PROVE Nav(c)!Older(a) <= 5 * c.Interval
  BY <1>1, <1>3 DEF Nav!Older, Nav!Old, Nav!Window
<1>4. /\ navAge' \in {0, navAge, Nav(c)!Older(navAge)} /\ fedAge' \in {0, fedAge, Nav(c)!Older(fedAge)}
      /\ rowAge' \in {0, rowAge, c.BackfillAge, Nav(c)!Older(rowAge)}
  <2>1. CASE WorkerSide(c)
    BY <2>1 DEF WorkerSide, Nav!FeedMoves, Nav!FeedDies, Nav!FeedReturns, Nav!WorkerStep, Nav!WorkerRestarts,
       Nav!Backfill, Nav!Fetch, Nav!Quoted, Nav!Deduped, Nav!Bump, Nav!WriteRow, Nav!Published, Nav!rows
  <2>2. CASE PublisherSide(c)
    BY <2>2 DEF PublisherSide, Nav!PublisherStep, Nav!Begin, Nav!View, Nav!Mirror, Nav!Decide, Nav!Send, Nav!Mined,
       Nav!PublisherRestarts, Nav!Worked, Nav!rows
  <2>3. CASE Nav(c)!Tick
    BY <2>3 DEF Nav!Tick
  <2> QED BY <2>1, <2>2, <2>3, NavSides
<1>5. /\ navAge' <= 5 * c.Interval /\ fedAge' <= 5 * c.Interval /\ rowAge' <= 5 * c.Interval
  BY <1>1, <1>2, <1>3, <1>4
<1>6. feed \in {"same", "other", "dead"} /\ newest \in {"none", "feed", "publisher"} /\ fed \in BOOLEAN /\ (newest = "feed" => fed)
  BY DEF NavAged
<1>7. /\ feed' \in {"same", "other", "dead"} /\ newest' \in {"none", "feed", "publisher"}
      /\ fed' \in BOOLEAN /\ (newest' = "feed" => fed')
  <2>1. CASE WorkerSide(c)
    BY <1>6, <2>1 DEF WorkerSide, Nav!FeedMoves, Nav!FeedDies, Nav!FeedReturns, Nav!WorkerStep, Nav!WorkerRestarts,
       Nav!Backfill, Nav!Fetch, Nav!Quoted, Nav!Deduped, Nav!Bump, Nav!WriteRow, Nav!rows
  <2>2. CASE PublisherSide(c)
    BY <1>6, <2>2 DEF PublisherSide, Nav!PublisherStep, Nav!Begin, Nav!View, Nav!Mirror, Nav!Decide, Nav!Send, Nav!Mined,
       Nav!PublisherRestarts, Nav!Worked, Nav!rows
  <2>3. CASE Nav(c)!Tick
    BY <1>6, <2>3 DEF Nav!Tick
  <2> QED BY <2>1, <2>2, <2>3, NavSides
<1>8. mishaps' = mishaps \/ \E kind : Nav(c)!Fault(kind)
  <2>1. CASE WorkerSide(c)
    BY <2>1 DEF WorkerSide, Nav!FeedMoves, Nav!FeedDies, Nav!FeedReturns, Nav!WorkerStep, Nav!WorkerRestarts,
       Nav!Backfill, Nav!Fetch, Nav!Quoted, Nav!Deduped, Nav!Bump, Nav!WriteRow
  <2>2. CASE PublisherSide(c)
    BY <2>2 DEF PublisherSide, Nav!PublisherStep, Nav!Begin, Nav!View, Nav!Mirror, Nav!Decide, Nav!Send, Nav!Mined,
       Nav!PublisherRestarts
  <2>3. CASE Nav(c)!Tick
    BY <2>3 DEF Nav!Tick
  <2> QED BY <2>1, <2>2, <2>3, NavSides
<1>9. mishaps' \in 0 .. c.MaxFaults
  BY <1>1, <1>8 DEF Nav!Fault, NavAged
<1>10. pub'.at = "idle" => pub'.waited = 0
  <2> DEFINE Stays == UNCHANGED pub \/ pub'.at # "idle" \/ pub' = Nav(c)!Idle
  <2>1. pub \in Publisher /\ (pub.at = "idle" => pub.waited = 0)
    BY DEF NavTyped, NavAged, Publisher
  <2>2. ASSUME NEW at \in {"sent"} \cup Cycling, pub' = [pub EXCEPT !.at = at] PROVE pub'.at # "idle"
    BY <2>1, <2>2 DEF Publisher, Cycling
  <2>3. ASSUME WorkerSide(c) PROVE Stays
    BY <2>3, WorkerKeeps
  <2>4. ASSUME Nav(c)!Begin PROVE Stays
    BY <2>4 DEF Nav!Begin, Nav!Ends
  <2>5. ASSUME Nav(c)!View PROVE Stays
    <3>1. \/ pub' = Nav(c)!Idle
          \/ pub' = [pub EXCEPT !.at = "mirror"] \/ pub' = [pub EXCEPT !.at = "decide"]
      BY <2>5 DEF Nav!View, Nav!Ends
    <3> QED BY <2>2, <3>1 DEF Cycling
  <2>6. ASSUME Nav(c)!Mirror PROVE Stays
    <3>1. pub' = [pub EXCEPT !.at = "decide"]
      BY <2>6 DEF Nav!Mirror
    <3> QED BY <2>2, <3>1 DEF Cycling
  <2>7. ASSUME Nav(c)!Decide PROVE Stays
    <3>1. pub' = Nav(c)!Idle \/ pub' = [pub EXCEPT !.at = "send"]
      BY <2>7 DEF Nav!Decide, Nav!Ends
    <3> QED BY <2>2, <3>1 DEF Cycling
  <2>8. ASSUME Nav(c)!Send PROVE Stays
    <3>1. pub' = Nav(c)!Idle \/ pub' = [pub EXCEPT !.at = "sent"]
      BY <2>8 DEF Nav!Send, Nav!Ends
    <3> QED BY <2>2, <3>1 DEF Cycling
  <2>9. ASSUME Nav(c)!Mined \/ Nav(c)!PublisherRestarts PROVE Stays
    BY <2>9 DEF Nav!Mined, Nav!PublisherRestarts
  <2>10. ASSUME Nav(c)!Tick PROVE Stays
    <3>1. UNCHANGED pub \/ (pub.at = "sent" /\ pub' = [pub EXCEPT !.waited = pub.waited + 1])
      BY <2>10 DEF Nav!Tick
    <3> QED BY <2>1, <3>1 DEF Publisher
  <2>11. pub' = Nav(c)!Idle => pub'.waited = 0
    BY DEF Nav!Idle
  <2>12. Stays
    BY <2>3, <2>4, <2>5, <2>6, <2>7, <2>8, <2>9, <2>10, NavSides DEF PublisherSide, Nav!PublisherStep
  <2> QED BY <2>1, <2>11, <2>12
<1> QED BY <1>5, <1>7, <1>9, <1>10 DEF NavAged

LEMMA NavKeptSteps ==
  ASSUME NEW c, Nav(c)!RefreshAssumption, NavKept(c), Nav(c)!Next PROVE NavKept(c)'
<1>1. NavTyped(c)'
  BY NavSides, WorkerKeeps, TickKeeps, PublisherKeepsTypes DEF NavKept
<1> QED BY <1>1, NavStaysAged DEF NavKept

LEMMA NavKeptStutters ==
  ASSUME NEW c, NavKept(c), UNCHANGED <<navVars, mishaps>> PROVE NavKept(c)'
<1>1. NavTyped(c)'
  BY NavStutters DEF NavKept
<1>2. UNCHANGED <<navAge, fedAge, rowAge, feed, newest, fed, pub, mishaps>>
  BY DEF navVars
<1> QED BY <1>1, <1>2 DEF NavKept, NavAged

LEMMA NavIsTyped ==
  ASSUME NEW c, Nav(c)!RefreshAssumption, NavKept(c) PROVE Nav(c)!TypeOK
<1>1. c.Interval \in Nat /\ c.MaxDelay \in 0 .. c.Interval - 1
  BY DEF Nav!RefreshAssumption
<1>2. NavTyped(c) /\ NavAged(c)
  BY DEF NavKept
<1>3. {navAge, fedAge, rowAge} \subseteq 0 .. Nav(c)!Old
  BY <1>1, <1>2 DEF NavTyped, NavAged, Nav!Old, Nav!Window
<1>4. /\ pub \in [at : {"idle", "view", "mirror", "decide", "send", "sent"}, synthetic : BOOLEAN, waited : 0 .. c.MaxDelay]
      /\ timer \in 0 .. c.Interval /\ (pub.at # "idle" => timer > 0)
  <2>1. pub \in [at : {"idle", "sent"} \cup Cycling, synthetic : BOOLEAN, waited : Nat] /\ timer \in Nat
    BY <1>2 DEF NavTyped
  <2>2. pub.at = "idle" => timer <= c.Interval
    BY <1>2 DEF NavTyped
  <2>3. pub.at # "idle" => timer + pub.waited = c.Interval /\ pub.waited <= c.MaxDelay
    BY <1>2 DEF NavTyped
  <2>4. pub.at = "idle" => pub.waited = 0
    BY <1>2 DEF NavAged
  <2>5. pub.waited \in 0 .. c.MaxDelay /\ timer \in 0 .. c.Interval /\ (pub.at # "idle" => timer > 0)
    BY <1>1, <2>1, <2>2, <2>3, <2>4
  <2>6. pub.at \in {"idle", "view", "mirror", "decide", "send", "sent"}
    BY <2>1 DEF Cycling
  <2> QED BY <2>1, <2>5, <2>6
<1>5. health \in [fresh : BOOLEAN, outcome : {"none", "published", "fresh", "db-stale", "error"}]
  BY <1>2 DEF NavTyped, Outcomes
<1> QED BY <1>2, <1>3, <1>4, <1>5 DEF NavTyped, NavAged, Nav!TypeOK

-----------------------------------------------------------------------------
(* Yield epochs: what is within its set and its bound                      *)

\* Every epoch and transaction is of one of the tokens, every supply one that
\* was captured, and the float never more than what the day began with.
EpochsFit(c) ==
  /\ \A e \in DOMAIN epochs : epochs[e].token \in c.Tokens /\ epochs[e].supply \in {0} \cup c.Supplies
  /\ \A i \in DOMAIN txs : txs[i].token \in c.Tokens
FloatFits(c) == balance <= c.Float /\ floatSweep.ledger <= c.Float
RunFits(c) == run.at # "idle" => run.token \in c.Tokens
YieldFits(c) == EpochsFit(c) /\ FloatFits(c) /\ RunFits(c)
YieldKept(c) == YieldInv(c) /\ YieldFits(c)

LEMMA YieldKeptStarts ==
  ASSUME NEW c, Yield(c)!YieldAssumption, Yield(c)!Init
  PROVE  YieldKept(c)
<1>1. epochs = <<>> /\ txs = <<>> /\ balance = c.Float /\ floatSweep.ledger = 0 /\ run.at = "idle" /\ c.Float \in Nat
  BY DEF Yield!Init, Yield!YieldAssumption, Yield!Asleep, Yield!Idle
<1>2. YieldFits(c)
  BY <1>1 DEF YieldFits, EpochsFit, FloatFits, RunFits
<1> QED BY <1>2, YieldStarts DEF YieldKept

LEMMA YieldKeptStutters ==
  ASSUME NEW c, YieldKept(c), UNCHANGED yieldVars
  PROVE  YieldKept(c)'
<1>1. epochs' = epochs /\ txs' = txs /\ balance' = balance /\ floatSweep' = floatSweep /\ run' = run
  BY DEF yieldVars
<1>2. YieldFits(c)'
  BY <1>1 DEF YieldKept, YieldFits, EpochsFit, FloatFits, RunFits
<1> QED BY <1>2, YieldStutters DEF YieldKept

LEMMA YieldIsTyped ==
  ASSUME NEW c, Yield(c)!YieldAssumption, YieldKept(c)
  PROVE  Yield(c)!TypeOK
<1>1. /\ YieldTyped(c) /\ ChainInv(c) /\ DayInv /\ EpochsFit(c) /\ FloatFits(c) /\ c.MaxEpochs \in Nat /\ c.Float \in Nat
  BY DEF YieldKept, YieldInv, YieldFits, Yield!YieldAssumption
<1>2. ASSUME NEW e \in DOMAIN epochs
      PROVE  /\ epochs[e].token \in c.Tokens /\ epochs[e].supply \in {0} \cup c.Supplies
             /\ epochs[e].funded => epochs[e].supply # 0
  BY <1>1 DEF EpochsFit, ChainInv, EpochFine
<1>3. ASSUME NEW i \in DOMAIN txs PROVE txs[i].status \in {"pending", "ok", "reverted"}
  <2>1. txs[i] \in TxRecord(c)
    <3>1. txs \in Seq(TxRecord(c))
      BY <1>1 DEF YieldTyped
    <3> QED BY <3>1
  <2> QED BY <2>1 DEF TxRecord
<1>4. ASSUME NEW e \in DOMAIN distributions
      PROVE  distributions[e].status \in Yield(c)!Resolved \cup {"none", "in_progress", "snapshot_done", "funded_no_audit"}
  <2>1. distributions[e] \in Distribution
    BY <1>1 DEF YieldTyped
  <2> QED BY <2>1 DEF Distribution, Yield!Resolved
<1>5. Len(epochs) <= c.MaxEpochs
  BY <1>1 DEF ChainInv, Room
<1>6. balance \in 0 .. c.Float /\ floatSweep.ledger \in 0 .. c.Float
  BY <1>1 DEF YieldTyped, FloatFits
<1>7. run.at # "idle" => floatSweep.on
  BY <1>1 DEF DayInv
<1> QED BY <1>2, <1>3, <1>4, <1>5, <1>6, <1>7 DEF Yield!TypeOK

\* What is mined is of the token it was sent for, and takes no more than there is.
LEMMA FitsMined ==
  ASSUME NEW c, YieldKept(c), Yield(c)!YieldAssumption, Yield(c)!Mine
  PROVE  YieldFits(c)'
<1>1. /\ epochs \in Seq(EpochRecord(c)) /\ txs \in Seq(TxRecord(c)) /\ balance \in Nat /\ floatSweep.ledger \in Nat
      /\ EpochsFit(c) /\ FloatFits(c) /\ RunFits(c)
  BY DEF YieldKept, YieldInv, YieldTyped, YieldFits
<1>2. PICK i : /\ i = Yield(c)!Min(Yield(c)!Pending)
               /\ \/ txs[i].kind = "open" /\ Yield(c)!Opened(i)
                  \/ txs[i].kind = "capture" /\ Yield(c)!Captured(i)
                  \/ txs[i].kind = "fund" /\ Yield(c)!Funded(i)
                  \/ Yield(c)!Reverted(i)
  BY DEF Yield!Mine
<1>3. Yield(c)!Pending # {} /\ UNCHANGED <<floatSweep, run>>
  BY DEF Yield!Mine
<1>4. i \in DOMAIN txs
  <2>1. Yield(c)!Pending \in SUBSET Nat
    BY <1>1 DEF Yield!Pending
  <2>2. \E m \in Yield(c)!Pending : \A k \in Yield(c)!Pending : m <= k
    BY <1>3, <2>1, LeastOf
  <2>3. Yield(c)!Min(Yield(c)!Pending) \in Yield(c)!Pending
    BY <2>2 DEF Yield!Min
  <2> QED BY <1>2, <2>3 DEF Yield!Pending
<1>5. txs[i] \in TxRecord(c) /\ txs[i].amount \in Nat /\ txs[i].token \in c.Tokens
  <2>1. txs[i] \in TxRecord(c)
    BY <1>1, <1>4
  <2> QED BY <1>1, <1>4, <2>1 DEF TxRecord, EpochsFit
<1>6. RunFits(c)' /\ floatSweep'.ledger <= c.Float
  BY <1>1, <1>3 DEF RunFits, FloatFits
<1>7. DOMAIN txs' = DOMAIN txs /\ \A j \in DOMAIN txs : txs'[j].token = txs[j].token
  <2>1. CASE txs' = [txs EXCEPT ![i].status = "ok", ![i].epoch = Len(epochs) + 1]
    <3>1. PICK t, n : t = txs[i] /\ n = Len(epochs) + 1
      OBVIOUS
    <3>2. PICK x : x = [t EXCEPT !.status = "ok", !.epoch = n]
      OBVIOUS
    <3>3. x.token = t.token
      <4>1. DOMAIN t = {"kind", "token", "epoch", "rate", "amount", "status"}
        BY <1>5, <3>1 DEF TxRecord
      <4> QED BY <3>2, <4>1
    <3>4. DOMAIN txs' = DOMAIN txs /\ txs'[i] = x /\ \A j \in DOMAIN txs : j # i => txs'[j] = txs[j]
      BY <1>1, <1>4, <2>1, <3>1, <3>2
    <3> QED BY <3>1, <3>3, <3>4
  <2>2. ASSUME NEW s, txs' = [txs EXCEPT ![i].status = s]
        PROVE  DOMAIN txs' = DOMAIN txs /\ \A j \in DOMAIN txs : txs'[j].token = txs[j].token
    <3>1. PICK t : t = txs[i]
      OBVIOUS
    <3>2. PICK x : x = [t EXCEPT !.status = s]
      OBVIOUS
    <3>3. x.token = t.token
      BY <1>5, <3>1, <3>2 DEF TxRecord
    <3>4. DOMAIN txs' = DOMAIN txs /\ txs'[i] = x /\ \A j \in DOMAIN txs : j # i => txs'[j] = txs[j]
      BY <1>1, <1>4, <2>2, <3>1, <3>2
    <3> QED BY <3>1, <3>3, <3>4
  <2> QED BY <1>2, <2>1, <2>2 DEF Yield!Opened, Yield!Captured, Yield!Funded, Yield!Reverted
<1>8. \A j \in DOMAIN txs' : txs'[j].token \in c.Tokens
  BY <1>1, <1>7 DEF EpochsFit
<1>9. ASSUME balance' = balance, UNCHANGED epochs PROVE YieldFits(c)'
  BY <1>1, <1>6, <1>8, <1>9 DEF YieldFits, EpochsFit, FloatFits
<1>10. CASE txs[i].kind = "open" /\ Yield(c)!Opened(i)
  <2>1. PICK new : new = [token |-> txs[i].token, supply |-> 0, funded |-> FALSE, rate |-> 0, amount |-> 0, paid |-> 0]
    OBVIOUS
  <2>2. epochs' = Append(epochs, new) /\ balance' = balance /\ new.token \in c.Tokens /\ new.supply = 0
    BY <1>5, <1>10, <2>1 DEF Yield!Opened
  <2>3. \A e \in DOMAIN epochs' : epochs'[e] = new \/ (e \in DOMAIN epochs /\ epochs'[e] = epochs[e])
    BY <1>1, <2>2
  <2>4. \A e \in DOMAIN epochs' : epochs'[e].token \in c.Tokens /\ epochs'[e].supply \in {0} \cup c.Supplies
    BY <1>1, <2>2, <2>3 DEF EpochsFit
  <2> QED BY <1>1, <1>6, <1>8, <2>2, <2>4 DEF YieldFits, EpochsFit, FloatFits
<1>11. CASE txs[i].kind = "capture" /\ Yield(c)!Captured(i)
  <2>1. PICK e, s : s \in c.Supplies /\ epochs' = [epochs EXCEPT ![e].supply = s] /\ balance' = balance
    BY <1>11 DEF Yield!Captured
  <2>2. ASSUME NEW f \in DOMAIN epochs
        PROVE  epochs'[f].token = epochs[f].token /\ epochs'[f].supply \in {s, epochs[f].supply}
    <3>1. epochs[f] \in EpochRecord(c)
      BY <1>1
    <3>2. CASE f = e
      <4>1. PICK y : y = epochs[f]
        OBVIOUS
      <4>2. epochs'[f] = [y EXCEPT !.supply = s]
        BY <1>1, <2>1, <3>2, <4>1
      <4> QED BY <3>1, <4>1, <4>2 DEF EpochRecord
    <3>3. CASE f # e
      BY <1>1, <2>1, <3>3
    <3> QED BY <3>2, <3>3
  <2>3. DOMAIN epochs' = DOMAIN epochs
    BY <1>1, <2>1
  <2>4. \A f \in DOMAIN epochs' : epochs'[f].token \in c.Tokens /\ epochs'[f].supply \in {0} \cup c.Supplies
    BY <1>1, <2>1, <2>2, <2>3 DEF EpochsFit
  <2> QED BY <1>1, <1>6, <1>8, <2>1, <2>4 DEF YieldFits, EpochsFit, FloatFits
<1>12. CASE txs[i].kind = "fund" /\ Yield(c)!Funded(i)
  <2>1. PICK e, r, a, p : /\ e = txs[i].epoch /\ r = txs[i].rate /\ a = txs[i].amount
                          /\ p = Yield(c)!Pulled(txs[i].amount)
    OBVIOUS
  <2>2. /\ epochs' = [epochs EXCEPT ![e] = [@ EXCEPT !.funded = TRUE, !.rate = r, !.amount = a, !.paid = p]]
        /\ balance' = balance - p
    BY <1>12, <2>1 DEF Yield!Funded
  <2>3. p \in Nat
    BY <1>5, <2>1 DEF Yield!Pulled
  <2>4. balance' <= c.Float
    <3>1. c.Float \in Nat /\ balance <= c.Float
      BY <1>1 DEF FloatFits, Yield!YieldAssumption
    <3> QED BY <1>1, <2>2, <2>3, <3>1
  <2>5. ASSUME NEW f \in DOMAIN epochs
        PROVE  epochs'[f].token = epochs[f].token /\ epochs'[f].supply = epochs[f].supply
    <3>1. DOMAIN epochs[f] = {"token", "supply", "funded", "rate", "amount", "paid"}
      <4>1. epochs[f] \in EpochRecord(c)
        BY <1>1
      <4> QED BY <4>1 DEF EpochRecord
    <3>2. CASE f = e
      <4>1. PICK y : y = epochs[f]
        OBVIOUS
      <4>2. epochs'[f] = [y EXCEPT !.funded = TRUE, !.rate = r, !.amount = a, !.paid = p]
        BY <1>1, <2>2, <3>2, <4>1
      <4> QED BY <3>1, <4>1, <4>2
    <3>3. CASE f # e
      BY <1>1, <2>2, <3>3
    <3> QED BY <3>2, <3>3
  <2>6. DOMAIN epochs' = DOMAIN epochs
    BY <1>1, <2>2
  <2>7. \A f \in DOMAIN epochs' : epochs'[f].token \in c.Tokens /\ epochs'[f].supply \in {0} \cup c.Supplies
    BY <1>1, <2>5, <2>6 DEF EpochsFit
  <2> QED BY <1>6, <1>8, <2>4, <2>7 DEF YieldFits, EpochsFit, FloatFits
<1>13. CASE Yield(c)!Reverted(i)
  BY <1>9, <1>13 DEF Yield!Reverted
<1> QED BY <1>2, <1>10, <1>11, <1>12, <1>13

\* The cron: a sweep begins with the balance there is.
LEMMA FitsSwept ==
  ASSUME NEW c, YieldKept(c), Yield(c)!YieldAssumption,
         Yield(c)!NewDay \/ Yield(c)!Crash \/ Yield(c)!Tick \/ Yield(c)!SweepDone \/ (\E t \in c.Tokens : Yield(c)!Handle(t))
  PROVE  YieldFits(c)'
<1>1. /\ YieldTyped(c) /\ EpochsFit(c) /\ FloatFits(c) /\ RunFits(c) /\ UNCHANGED <<epochs, txs>>
      /\ Yield(c)!Idle.at = "idle" /\ Yield(c)!Asleep.ledger = 0 /\ c.Float \in Nat
  BY DEF YieldKept, YieldInv, YieldFits, Yield!NewDay, Yield!Crash, Yield!Tick, Yield!SweepDone, Yield!Handle,
         Yield!chain, Yield!Idle, Yield!Asleep, Yield!YieldAssumption
<1>2. EpochsFit(c)'
  BY <1>1 DEF EpochsFit
<1>3. CASE Yield(c)!NewDay
  BY <1>1, <1>2, <1>3 DEF Yield!NewDay, YieldFits, FloatFits, RunFits
<1>4. CASE Yield(c)!Crash
  BY <1>1, <1>2, <1>4 DEF Yield!Crash, Yield!chain, YieldFits, FloatFits, RunFits
<1>5. CASE Yield(c)!Tick
  BY <1>1, <1>2, <1>5 DEF Yield!Tick, Yield!chain, YieldFits, FloatFits, RunFits
<1>6. CASE Yield(c)!SweepDone
  BY <1>1, <1>2, <1>6 DEF Yield!SweepDone, Yield!chain, YieldFits, FloatFits, RunFits
<1>7. CASE \E t \in c.Tokens : Yield(c)!Handle(t)
  <2>1. PICK t \in c.Tokens : Yield(c)!Handle(t)
    BY <1>7
  <2>2. floatSweep' = [floatSweep EXCEPT !.left = @ \ {t}] /\ balance' = balance
    BY <2>1 DEF Yield!Handle, Yield!chain
  <2>3. floatSweep'.ledger = floatSweep.ledger
    BY <1>1, <2>2 DEF YieldTyped
  <2>4. RunFits(c)'
    <3>1. PICK r : \/ run' = [Yield(c)!Idle EXCEPT !.at = "read", !.token = t, !.rate = r, !.fundRate = r]
                   \/ run' = Yield(c)!Idle
      BY <2>1 DEF Yield!Handle
    <3>2. PICK idle : idle = Yield(c)!Idle
      OBVIOUS
    <3>3. idle.at = "idle" /\ DOMAIN idle = {"at", "token", "rate", "current", "row", "epoch", "resumed", "fundRate", "amount", "tx"}
      BY <3>2 DEF Yield!Idle
    <3>4. run' = [idle EXCEPT !.at = "read", !.token = t, !.rate = r, !.fundRate = r] \/ run' = idle
      BY <3>1, <3>2
    <3>5. run'.token = t \/ run'.at = "idle"
      BY <3>3, <3>4
    <3> QED BY <3>5 DEF RunFits
  <2> QED BY <1>1, <1>2, <2>2, <2>3, <2>4 DEF YieldFits, FloatFits
<1> QED BY <1>3, <1>4, <1>5, <1>6, <1>7

\* A run is about one token from its first step to its last.
LEMMA RunSticks ==
  ASSUME NEW c, YieldTyped(c), Yield(c)!Runner
  PROVE  run.at # "idle" /\ (run'.at = "idle" \/ run'.token = run.token)
<1>1. PICK r : r = run
  OBVIOUS
<1>2. DOMAIN r = {"at", "token", "rate", "current", "row", "epoch", "resumed", "fundRate", "amount", "tx"}
  BY <1>1 DEF YieldTyped, RunRecord
<1>3. Yield(c)!Idle.at = "idle"
  BY DEF Yield!Idle
<1>4. ASSUME run' = [r EXCEPT !.at = "catch"] PROVE run'.token = run.token
  BY <1>1, <1>2, <1>4
<1>7. CASE Yield(c)!Read \/ Yield(c)!Stranded
  <2>1. PICK m, n : run' = [r EXCEPT !.at = "decide", !.row = m, !.current = n] \/ run' = [r EXCEPT !.row = 0]
    BY <1>1, <1>7 DEF Yield!Read, Yield!Stranded, Yield!Continue
  <2> QED BY <1>1, <1>2, <1>7, <2>1 DEF Yield!Read, Yield!Stranded, Yield!At
<1>8. CASE Yield(c)!Resume
  <2>1. /\ run.at = "decide"
        /\ \/ run' = Yield(c)!Idle \/ run' = [r EXCEPT !.at = "catch"]
           \/ \E m, q : /\ q = [r EXCEPT !.epoch = m]
                        /\ run' = [q EXCEPT !.at = "catch"] \/ run' = [q EXCEPT !.at = "capture", !.resumed = TRUE]
    BY <1>1, <1>8 DEF Yield!Resume, Yield!At, Yield!Return, Yield!Continue, Yield!Throw
  <2>2. ASSUME NEW m, NEW q, q = [r EXCEPT !.epoch = m],
               run' = [q EXCEPT !.at = "catch"] \/ run' = [q EXCEPT !.at = "capture", !.resumed = TRUE]
        PROVE  run'.token = run.token
    <3>1. q.token = run.token /\ DOMAIN q = DOMAIN r
      BY <1>1, <1>2, <2>2
    <3> QED BY <1>2, <2>2, <3>1
  <2> QED BY <1>3, <1>4, <2>1, <2>2
<1>9. CASE Yield(c)!BackFill \/ Yield(c)!Record
  <2>1. run.at \in {"decide", "opening"}
    BY <1>9 DEF Yield!BackFill, Yield!Record, Yield!At
  <2>2. PICK m, q : /\ q = [r EXCEPT !.epoch = m, !.resumed = TRUE] \/ q = [r EXCEPT !.epoch = m, !.tx = 0]
                    /\ run' = [q EXCEPT !.at = "capture"] \/ run' = [q EXCEPT !.at = "catch"]
    <3>1. CASE Yield(c)!BackFill
      BY <1>1, <3>1 DEF Yield!BackFill, Yield!Continue, Yield!Throw
    <3>2. CASE Yield(c)!Record
      BY <1>1, <3>2 DEF Yield!Record, Yield!Continue, Yield!Throw
    <3> QED BY <1>9, <3>1, <3>2
  <2>3. q.token = run.token /\ DOMAIN q = DOMAIN r
    BY <1>1, <1>2, <2>2
  <2>4. run'.token = run.token
    BY <1>2, <2>2, <2>3
  <2> QED BY <2>1, <2>4
<1>10. CASE Yield(c)!Open
  <2>1. run.at = "decide" /\ (run' = Yield(c)!Idle \/ \E n : run' = [r EXCEPT !.at = "opening", !.tx = n])
    BY <1>1, <1>10 DEF Yield!Open, Yield!At, Yield!Return, Yield!Continue
  <2>2. ASSUME NEW n, run' = [r EXCEPT !.at = "opening", !.tx = n] PROVE run'.token = run.token
    BY <1>1, <1>2, <2>2
  <2> QED BY <1>3, <2>1, <2>2
<1>11. CASE Yield(c)!Capture
  <2>1. run.at = "capture" /\ (run' = [r EXCEPT !.at = "size"] \/ \E n : run' = [r EXCEPT !.at = "capturing", !.tx = n])
    BY <1>1, <1>11 DEF Yield!Capture, Yield!At, Yield!Continue
  <2>2. ASSUME NEW n, run' = [r EXCEPT !.at = "capturing", !.tx = n] PROVE run'.token = run.token
    BY <1>1, <1>2, <2>2
  <2> QED BY <1>1, <1>2, <2>1, <2>2
<1>12. CASE Yield(c)!Finalized
  <2>1. run.at = "capturing" /\ (run' = [r EXCEPT !.at = "size", !.tx = 0] \/ run' = [r EXCEPT !.at = "catch"])
    BY <1>1, <1>12 DEF Yield!Finalized, Yield!At, Yield!Continue, Yield!Throw
  <2> QED BY <1>1, <1>2, <2>1
<1>13. CASE Yield(c)!Size
  <2>1. /\ run.at = "size"
        /\ \/ run' = Yield(c)!Idle
           \/ \E m, n, q : /\ q = [r EXCEPT !.at = "fund", !.amount = m, !.fundRate = n]
                           /\ run' = q \/ run' = [[q EXCEPT !.amount = 0] EXCEPT !.at = "catch"]
    BY <1>1, <1>13 DEF Yield!Size, Yield!At, Yield!Return, Yield!Continue, Yield!Throw
  <2>2. CASE run' = Yield(c)!Idle
    BY <1>3, <2>1, <2>2
  <2>3. CASE run' # Yield(c)!Idle
    <3>1. PICK m, n, q : /\ q = [r EXCEPT !.at = "fund", !.amount = m, !.fundRate = n]
                         /\ run' = q \/ run' = [[q EXCEPT !.amount = 0] EXCEPT !.at = "catch"]
      BY <2>1, <2>3
    <3>2. q.token = run.token /\ DOMAIN q = DOMAIN r
      BY <1>1, <1>2, <3>1
    <3>3. PICK y : y = [q EXCEPT !.amount = 0]
      OBVIOUS
    <3>4. y.token = run.token /\ DOMAIN y = DOMAIN r
      BY <1>2, <3>2, <3>3
    <3>5. run' = q \/ run' = [y EXCEPT !.at = "catch"]
      BY <3>1, <3>3
    <3>6. run'.token = run.token
      BY <1>2, <3>2, <3>4, <3>5
    <3> QED BY <2>1, <3>6
  <2> QED BY <2>2, <2>3
<1>14. CASE Yield(c)!Fund
  <2>1. run.at = "fund" /\ \E n : run' = [r EXCEPT !.at = "sent", !.tx = n]
    BY <1>1, <1>14 DEF Yield!Fund, Yield!At, Yield!Continue
  <2>2. ASSUME NEW n, run' = [r EXCEPT !.at = "sent", !.tx = n] PROVE run'.token = run.token
    BY <1>1, <1>2, <2>2
  <2> QED BY <2>1, <2>2
<1>15. CASE Yield(c)!Sent
  <2>1. run.at = "sent" /\ (run' = [r EXCEPT !.at = "waiting"] \/ run' = [r EXCEPT !.at = "catch"])
    BY <1>1, <1>15 DEF Yield!Sent, Yield!At, Yield!Continue, Yield!Throw
  <2> QED BY <1>1, <1>2, <2>1
<1>16. CASE Yield(c)!Settle
  <2>1. run.at = "waiting" /\ run' = [r EXCEPT !.at = "closing", !.tx = 0]
    BY <1>1, <1>16 DEF Yield!Settle, Yield!At
  <2> QED BY <1>1, <1>2, <2>1
<1>17. CASE Yield(c)!Close \/ Yield(c)!DecryptFails \/ Yield(c)!Catch
  <2>1. /\ run.at \in {"closing", "size", "catch"}
        /\ run' = Yield(c)!Idle \/ run' = [r EXCEPT !.at = "catch"]
    BY <1>1, <1>17 DEF Yield!Close, Yield!DecryptFails, Yield!Catch, Yield!At, Yield!Throw
  <2> QED BY <1>3, <1>4, <2>1
<1>18. CASE Yield(c)!CallFails \/ Yield(c)!WaitFails
  <2>1. run' = [r EXCEPT !.at = "catch"] /\ run.at \in {"read", "capture", "fund", "decide", "opening", "capturing", "waiting"}
    BY <1>1, <1>18 DEF Yield!CallFails, Yield!WaitFails, Yield!Throw, Yield!At
  <2> QED BY <1>4, <2>1
<1> QED BY <1>7, <1>8, <1>9, <1>10, <1>11, <1>12, <1>13, <1>14, <1>15, <1>16, <1>17, <1>18 DEF Yield!Runner

\* A run sends only for its token, and takes nothing from the balance.
LEMMA FitsRun ==
  ASSUME NEW c, YieldKept(c), Yield(c)!YieldAssumption, Yield(c)!Runner
  PROVE  YieldFits(c)'
<1>1. /\ YieldTyped(c) /\ txs \in Seq(TxRecord(c)) /\ EpochsFit(c) /\ FloatFits(c) /\ RunFits(c) /\ run \in RunRecord(c)
      /\ floatSweep \in [on : BOOLEAN, left : SUBSET c.Tokens, ledger : Nat] /\ c.Float \in Nat
  BY DEF YieldKept, YieldInv, YieldTyped, YieldFits, Yield!YieldAssumption
<1>2. run.at # "idle" /\ (run'.at = "idle" \/ run'.token = run.token)
  BY <1>1, RunSticks
<1>3. run.token \in c.Tokens /\ RunFits(c)'
  BY <1>1, <1>2 DEF RunFits
<1>4. UNCHANGED <<epochs, balance>>
  BY DEF Yield!Runner, Yield!Read, Yield!Stranded, Yield!Resume, Yield!BackFill, Yield!Open, Yield!Record, Yield!Capture,
         Yield!Finalized, Yield!Size, Yield!DecryptFails, Yield!Fund, Yield!Sent, Yield!Settle, Yield!Close, Yield!CallFails,
         Yield!WaitFails, Yield!Catch, Yield!Continue, Yield!Throw, Yield!Return, Yield!Write, Yield!Send, Yield!chain
<1>5. txs' = txs \/ \E x : txs' = Append(txs, x) /\ x.token = run.token
  <2>1. CASE Yield(c)!Open \/ Yield(c)!Capture \/ Yield(c)!Fund
    <3>1. \/ txs' = txs \/ txs' = Append(txs, Yield(c)!Tx("open", run.token, 0, 0, 0))
          \/ txs' = Append(txs, Yield(c)!Tx("capture", run.token, run.epoch, 0, 0))
          \/ txs' = Append(txs, Yield(c)!Tx("fund", run.token, run.epoch, run.fundRate, run.amount))
      BY <2>1 DEF Yield!Open, Yield!Capture, Yield!Fund, Yield!Return, Yield!Send, Yield!chain
    <3>2. /\ Yield(c)!Tx("open", run.token, 0, 0, 0).token = run.token
          /\ Yield(c)!Tx("capture", run.token, run.epoch, 0, 0).token = run.token
          /\ Yield(c)!Tx("fund", run.token, run.epoch, run.fundRate, run.amount).token = run.token
      BY DEF Yield!Tx
    <3> QED BY <3>1, <3>2
  <2>2. CASE ~Yield(c)!Open /\ ~Yield(c)!Capture /\ ~Yield(c)!Fund
    BY <2>2 DEF Yield!Runner, Yield!Read, Yield!Stranded, Yield!Resume, Yield!BackFill, Yield!Record, Yield!Finalized,
         Yield!Size, Yield!DecryptFails, Yield!Sent, Yield!Settle, Yield!Close, Yield!CallFails, Yield!WaitFails, Yield!Catch,
         Yield!Continue, Yield!Throw, Yield!Return, Yield!Write, Yield!chain
  <2> QED BY <2>1, <2>2
<1>6. \A i \in DOMAIN txs' : txs'[i].token \in c.Tokens
  <2>1. ASSUME NEW x, txs' = Append(txs, x), x.token = run.token PROVE \A i \in DOMAIN txs' : txs'[i].token \in c.Tokens
    <3>1. \A i \in DOMAIN txs' : txs'[i] = x \/ (i \in DOMAIN txs /\ txs'[i] = txs[i])
      BY <1>1, <2>1
    <3> QED BY <1>1, <1>3, <2>1, <3>1 DEF EpochsFit
  <2>2. CASE txs' = txs
    BY <1>1, <2>2 DEF EpochsFit
  <2> QED BY <1>5, <2>1, <2>2
<1>7. floatSweep'.ledger <= c.Float
  <2>1. PICK s : s = run.amount
    OBVIOUS
  <2>2. s \in Nat /\ floatSweep.ledger \in Nat
    BY <1>1, <2>1 DEF RunRecord
  <2>3. PICK a, b : a = Yield(c)!Consumed(TRUE, s) /\ b = Yield(c)!Consumed(FALSE, s)
    OBVIOUS
  <2>4. a \in Nat /\ a <= floatSweep.ledger /\ b \in Nat /\ b <= floatSweep.ledger
    <3>1. \A flag : Yield(c)!Consumed(flag, s) \in Nat /\ Yield(c)!Consumed(flag, s) <= floatSweep.ledger
      BY <2>2, ConsumedNat
    <3> QED BY <2>3, <3>1
  <2>5. floatSweep' = floatSweep \/ \E m \in {a, b, floatSweep.ledger} : floatSweep' = [floatSweep EXCEPT !.ledger = m]
    <3>1. CASE Yield(c)!Settle
      BY <2>1, <2>3, <3>1 DEF Yield!Settle
    <3>2. CASE Yield(c)!Close
      BY <2>1, <2>3, <3>2 DEF Yield!Close, Yield!Throw
    <3>3. CASE ~Yield(c)!Settle /\ ~Yield(c)!Close
      BY <3>3 DEF Yield!Runner, Yield!Read, Yield!Stranded, Yield!Resume, Yield!BackFill, Yield!Open, Yield!Record,
         Yield!Capture, Yield!Finalized, Yield!Size, Yield!DecryptFails, Yield!Fund, Yield!Sent, Yield!CallFails,
         Yield!WaitFails, Yield!Catch, Yield!Continue, Yield!Throw, Yield!Return
    <3> QED BY <3>1, <3>2, <3>3
  <2>6. floatSweep'.ledger \in {floatSweep.ledger, a, b}
    BY <1>1, <2>5
  <2> QED BY <1>1, <2>2, <2>4, <2>6 DEF FloatFits
<1>8. EpochsFit(c)'
  BY <1>1, <1>4, <1>6 DEF EpochsFit
<1>9. FloatFits(c)'
  BY <1>1, <1>4, <1>7 DEF FloatFits
<1> QED BY <1>3, <1>8, <1>9 DEF YieldFits

LEMMA YieldKeptSteps ==
  ASSUME NEW c, YieldKept(c), Yield(c)!YieldAssumption, Yield(c)!Next
  PROVE  YieldKept(c)'
<1>1. YieldInv(c)'
  BY YieldKeeps DEF YieldKept
<1>2. YieldFits(c)'
  <2>1. CASE Yield(c)!Mine
    BY <2>1, FitsMined
  <2>2. CASE Yield(c)!Runner
    BY <2>2, FitsRun
  <2>3. CASE Yield(c)!NewDay \/ Yield(c)!Crash \/ Yield(c)!Tick \/ Yield(c)!SweepDone \/ (\E t \in c.Tokens : Yield(c)!Handle(t))
    BY <2>3, FitsSwept
  <2> QED BY <2>1, <2>2, <2>3 DEF Yield!Next
<1> QED BY <1>1, <1>2 DEF YieldKept
=============================================================================
