---------------------------- MODULE PartsProofs -----------------------------
(***************************************************************************)
(* The types the remaining services keep: with ServicesProofs and          *)
(* AgentProofs, that all the services keep the types of their variables,   *)
(* for every value of their constants.  The rest of what the other         *)
(* proofs say of two of them: that the activity indexer loses no event and *)
(* follows every rotation of the chain, and that the wizard tells how a    *)
(* deployment ended.                                                       *)
(***************************************************************************)
EXTENDS ServicesProofs, AgentProofs

-----------------------------------------------------------------------------
(* The activity indexer *)

\* What a tick has read so far is in the table or among its rows.
Collected ==
  tick.at # "idle" =>
    \A b \in began .. tick.next - 1 : Holds(b, Strict) => b \in rows \cup tick.found

\* A rotation a tick has read is still to be written, after every written one,
\* or the registry of tokens has it or a newer one.
Applied ==
  tick.at # "idle" =>
    \A b \in began .. tick.next - 1 :
      Holds(b, {"rotation"}) => b \in tick.todo \/ (issuer >= b /\ \A c \in tick.todo : b < c)

IndInv == TypeOK /\ NothingLost /\ RotationsFollowed /\ Collected /\ Applied

-----------------------------------------------------------------------------

LEMMA InitHolds == ASSUME Init PROVE IndInv
<1> USE IndexerAssumption
<1>1. PICK kind \in {None, "rotation"} : log = <<kind>>
  BY DEF Init
<1>2. log \in Seq(Kinds) /\ Height = 1
  BY <1>1 DEF Kinds, Height
<1> QED
  BY <1>2 DEF Init, IndInv, TypeOK, NothingLost, RotationsFollowed, Collected, Applied, Covered,
              Unset, Stopped

\* A new block leaves what the earlier ones hold.
LEMMA MineHolds ==
  ASSUME IndInv, NEW kind \in Kinds, Mine(kind)
  PROVE  IndInv'
<1> USE IndexerAssumption
<1>1. /\ log' \in Seq(Kinds) /\ Len(log') = Len(log) + 1 /\ Len(log) \in Nat
      /\ \A b \in 1 .. Len(log) : log'[b] = log[b]
  BY AppendProperties, LenProperties DEF IndInv, TypeOK, Mine
<1>2. TypeOK'
  BY <1>1 DEF IndInv, TypeOK, Mine, Height, Unset
<1>3. ASSUME NEW b \in 1 .. Height, NEW kinds PROVE Holds(b, kinds)' <=> Holds(b, kinds)
  BY <1>1 DEF Holds, Height
<1>4. Covered' = Covered /\ Covered \subseteq 1 .. Height
  BY DEF Covered, Mine, IndInv, TypeOK, Unset
<1>5. tick.at # "idle" => began .. tick.next - 1 \subseteq 1 .. Height
  BY DEF IndInv, TypeOK
<1>6. NothingLost' /\ RotationsFollowed'
  BY <1>3, <1>4 DEF IndInv, NothingLost, RotationsFollowed, Mine
<1>7. Collected' /\ Applied'
  BY <1>3, <1>5 DEF IndInv, Collected, Applied, Mine
<1> QED
  BY <1>2, <1>6, <1>7 DEF IndInv

LEMMA BeginHolds == ASSUME IndInv, Begin PROVE IndInv'
<1> USE IndexerAssumption
<1>1. UNCHANGED <<log, rows, issuer, faults>> /\ Height \in 1 .. MaxHeight /\ Height' = Height
  BY DEF Begin, IndInv, TypeOK, Height
<1>2. \A b, kinds : Holds(b, kinds)' <=> Holds(b, kinds)
  BY <1>1 DEF Holds, Height
<1>3. CASE cursor = Unset
  <2>1. cursor' = Height - 1 /\ began' = Height /\ UNCHANGED tick /\ tick.at = "idle"
    BY <1>3 DEF Begin, StartsAt, Before
  <2>2. TypeOK'
    BY <1>1, <2>1 DEF IndInv, TypeOK, Unset
  <2>3. Covered' = {}
    BY <1>1, <2>1 DEF Covered, Unset
  <2> QED
    BY <2>1, <2>2, <2>3 DEF IndInv, NothingLost, RotationsFollowed, Collected, Applied
<1>4. CASE cursor # Unset
  <2>1. /\ Height > cursor /\ UNCHANGED <<cursor, began>> /\ tick.at = "idle"
        /\ tick' = [at |-> "fetch", to |-> Height, next |-> cursor + 1, found |-> {}, todo |-> {}]
    BY <1>4 DEF Begin, Stopped
  <2>2. /\ tick'.at = "fetch" /\ tick'.to = Height /\ tick'.next = cursor + 1
        /\ tick'.found = {} /\ tick'.todo = {}
        /\ tick' \in [at : {"idle", "fetch", "apply"}, to : 0 .. MaxHeight, next : 0 .. MaxHeight + 1,
                      found : SUBSET (1 .. MaxHeight), todo : SUBSET (1 .. MaxHeight)]
    BY <2>1, <1>1, <1>4 DEF IndInv, TypeOK, Unset
  <2>3. began <= cursor + 1
    BY <2>1, <1>4 DEF IndInv, TypeOK
  <2>4. TypeOK'
    BY <1>1, <2>1, <2>2, <2>3 DEF IndInv, TypeOK, Unset
  <2>5. NothingLost' /\ RotationsFollowed'
    BY <1>1, <1>2, <2>1 DEF IndInv, NothingLost, RotationsFollowed, Covered, Unset
  <2>6. Covered = began .. tick'.next - 1
    BY <1>4, <2>2 DEF Covered, IndInv, TypeOK
  <2>7. Collected' /\ Applied'
    BY <1>1, <1>2, <2>1, <2>2, <2>6 DEF IndInv, NothingLost, RotationsFollowed, Collected, Applied
  <2> QED
    BY <2>4, <2>5, <2>7 DEF IndInv
<1> QED
  BY <1>3, <1>4

\* The state after a failure: the tick is dropped, the cursor stays.
LEMMA DroppedHolds ==
  ASSUME IndInv, tick' = Stopped, UNCHANGED <<log, cursor, began>>,
         faults' \in 0 .. MaxFaults,
         rows' \in SUBSET (1 .. MaxHeight), rows \subseteq rows',
         issuer' = issuer \/ issuer' \in tick.todo
  PROVE  IndInv'
<1> USE IndexerAssumption
<1>1. \A b, kinds : Holds(b, kinds)' <=> Holds(b, kinds)
  BY DEF Holds, Height
<1>2. Covered' = Covered /\ \A b \in Covered : b <= cursor /\ b \in Nat /\ cursor \in Nat
  BY DEF Covered, Unset, IndInv, TypeOK
<1>3. tick'.at = "idle" /\ tick'.todo = {}
  BY DEF Stopped
<1>4. \A b \in tick.todo : cursor < b /\ b \in 1 .. MaxHeight
  BY DEF IndInv, TypeOK
<1>5. TypeOK'
  BY <1>3, <1>4 DEF IndInv, TypeOK, Height, Unset, Stopped
<1>6. NothingLost'
  BY <1>1, <1>2 DEF IndInv, NothingLost
<1>7. RotationsFollowed'
  BY <1>1, <1>2, <1>4 DEF IndInv, RotationsFollowed
<1> QED
  BY <1>3, <1>5, <1>6, <1>7 DEF IndInv, Collected, Applied

LEMMA FailureHolds ==
  ASSUME IndInv, TickFails \/ AnswerLost
  PROVE  IndInv'
<1> USE IndexerAssumption
<1>1. ASSUME NEW kind, Fault(kind) PROVE faults' \in 0 .. MaxFaults
  BY <1>1 DEF Fault, IndInv, TypeOK
<1>2. rows \in SUBSET (1 .. MaxHeight) /\ tick.found \in SUBSET (1 .. MaxHeight)
  BY DEF IndInv, TypeOK
<1>3. CASE TickFails
  BY <1>1, <1>2, <1>3, DroppedHolds DEF TickFails, CursorStays
<1>4. CASE AnswerLost
  <2>1. CASE \E b \in tick.todo : Written(b) /\ UNCHANGED rows
    BY <1>1, <1>2, <1>4, <2>1, DroppedHolds DEF AnswerLost, CursorStays, Written
  <2>2. CASE Insert(tick.found) /\ UNCHANGED issuer
    BY <1>1, <1>2, <1>4, <2>2, DroppedHolds DEF AnswerLost, CursorStays, Insert
  <2> QED
    BY <1>4, <2>1, <2>2 DEF AnswerLost
<1> QED
  BY <1>3, <1>4

LEMMA RestartHolds == ASSUME IndInv, Restart PROVE IndInv'
<1> USE IndexerAssumption
<1>1. cursor' = Unset /\ Covered' = {} /\ tick'.at = "idle" /\ tick'.todo = {}
  BY DEF Restart, Covered, Stopped, Unset
<1>2. TypeOK'
  BY <1>1 DEF IndInv, TypeOK, Restart, Stopped, Unset, Height, Fault
<1> QED
  BY <1>1, <1>2 DEF IndInv, NothingLost, RotationsFollowed, Collected, Applied

\* A chunk is read whole but for a leg whose failure is caught.
LEMMA ReadHolds ==
  ASSUME IndInv, NEW failed \in SUBSET Legs, Read(failed), faults' \in 0 .. MaxFaults
  PROVE  IndInv'
<1> USE IndexerAssumption
<1> DEFINE End == ChunkEnd
<1>1. /\ UNCHANGED <<log, cursor, began, rows, issuer>>
      /\ tick.at = "fetch" /\ tick.next <= tick.to /\ tick.todo = {}
      /\ tick.to \in 0 .. MaxHeight /\ tick.next \in Nat /\ cursor < tick.next /\ tick.to <= Height
      /\ tick.found \in SUBSET (1 .. MaxHeight) /\ Height \in 1 .. MaxHeight
      /\ cursor \in Nat /\ began \in 1 .. MaxHeight
  BY DEF Read, IndInv, TypeOK, Unset
<1>2. tick.next <= End /\ End <= tick.to /\ End \in Nat
  BY <1>1 DEF ChunkEnd
<1>3. tick' = [at |-> IF Rotations # {} THEN "apply" ELSE "fetch", to |-> tick.to,
               next |-> End + 1, found |-> tick.found \cup Given(failed), todo |-> Rotations]
  BY DEF Read, IndInv, TypeOK
<1>4. \A b, kinds : Holds(b, kinds)' <=> Holds(b, kinds)
  BY <1>1 DEF Holds, Height
<1>5. /\ Rotations \subseteq 1 .. MaxHeight /\ Given(failed) \subseteq 1 .. MaxHeight
      /\ \A b \in Rotations : tick.next <= b
  BY <1>1, <1>2 DEF Rotations, Given, Holds
<1>6. ASSUME NEW b \in tick.next .. End
      PROVE  (Holds(b, Strict) => b \in Given(failed)) /\ (Holds(b, {"rotation"}) => b \in Rotations)
  BY DEF Given, Rotations, Holds, Strict
<1> HIDE DEF End
<1>7. TypeOK'
  BY <1>1, <1>2, <1>3, <1>5 DEF IndInv, TypeOK, Unset, Height
<1>8. NothingLost' /\ RotationsFollowed'
  BY <1>1, <1>4 DEF IndInv, NothingLost, RotationsFollowed, Covered, Unset
<1>9. began .. tick'.next - 1 = began .. End
  BY <1>2, <1>3
<1>10. \A b \in began .. End : b \in began .. tick.next - 1 \/ b \in tick.next .. End
  BY <1>1, <1>2
<1>11. Collected'
  BY <1>1, <1>3, <1>4, <1>6, <1>9, <1>10 DEF IndInv, Collected
<1>12. Applied'
  <2> SUFFICES ASSUME NEW b \in began .. End, Holds(b, {"rotation"})
               PROVE  b \in Rotations \/ (issuer >= b /\ \A c \in Rotations : b < c)
    BY <1>1, <1>3, <1>4, <1>9 DEF Applied
  <2>1. CASE b \in tick.next .. End
    BY <2>1, <1>6
  <2>2. CASE b \in began .. tick.next - 1
    <3>1. issuer >= b
      BY <1>1, <2>2 DEF IndInv, Applied
    <3>2. \A c \in Rotations : b < c
      BY <1>1, <1>5, <2>2
    <3> QED
      BY <3>1, <3>2
  <2> QED
    BY <1>10, <2>1, <2>2
<1> QED
  BY <1>7, <1>8, <1>11, <1>12 DEF IndInv

\* Rotations are written in order: what is left is newer than what was written.
LEMMA ApplyHolds == ASSUME IndInv, Apply PROVE IndInv'
<1> USE IndexerAssumption
<1>1. PICK m \in tick.todo :
        /\ Written(m)
        /\ tick' = [tick EXCEPT !.todo = @ \ {m}, !.at = IF tick.todo = {m} THEN "fetch" ELSE "apply"]
  BY DEF Apply
<1>2. /\ UNCHANGED <<log, cursor, began, rows, faults>> /\ issuer' = m /\ tick.at = "apply"
      /\ \A c \in tick.todo : m <= c /\ c \in 1 .. MaxHeight /\ cursor < c
  BY <1>1 DEF Apply, Written, IndInv, TypeOK
<1>3. tick' = [at |-> IF tick.todo = {m} THEN "fetch" ELSE "apply", to |-> tick.to, next |-> tick.next,
               found |-> tick.found, todo |-> tick.todo \ {m}]
  BY <1>1 DEF IndInv, TypeOK
<1>4. \A b, kinds : Holds(b, kinds)' <=> Holds(b, kinds)
  BY <1>2 DEF Holds, Height
<1>5. /\ cursor \in Nat /\ began \in Nat /\ tick.next \in Nat /\ cursor < tick.next
      /\ issuer \in Nat
  BY <1>2 DEF IndInv, TypeOK, Unset
<1>6. TypeOK'
  BY <1>2, <1>3 DEF IndInv, TypeOK, Unset, Height
<1>7. NothingLost'
  BY <1>2, <1>4 DEF IndInv, NothingLost, Covered, Unset
<1>8. RotationsFollowed'
  BY <1>2, <1>4, <1>5 DEF IndInv, RotationsFollowed, Covered, Unset
<1>9. Collected'
  BY <1>2, <1>3, <1>4 DEF IndInv, Collected
<1>10. Applied'
  <2> SUFFICES ASSUME NEW b \in began .. tick.next - 1, Holds(b, {"rotation"}), b \notin tick.todo \ {m}
               PROVE  m >= b /\ \A c \in tick.todo \ {m} : b < c
    BY <1>2, <1>3, <1>4 DEF Applied
  <2>1. CASE b = m
    BY <1>2, <2>1
  <2>2. CASE b \notin tick.todo
    BY <1>2, <2>2 DEF IndInv, Applied
  <2> QED
    BY <2>1, <2>2
<1> QED
  BY <1>6, <1>7, <1>8, <1>9, <1>10 DEF IndInv

LEMMA SaveHolds == ASSUME IndInv, Save PROVE IndInv'
<1> USE IndexerAssumption
<1>1. /\ UNCHANGED <<log, began, issuer, faults>> /\ cursor' = tick.to /\ tick' = Stopped
      /\ rows' = rows \cup tick.found /\ tick.at = "fetch" /\ tick.todo = {}
      /\ tick.next = tick.to + 1 /\ tick.to \in 0 .. MaxHeight /\ tick.to <= Height
      /\ tick.found \in SUBSET (1 .. MaxHeight) /\ cursor < tick.next /\ cursor \in Nat
      /\ began \in 1 .. MaxHeight /\ cursor # Unset
  BY DEF Save, Insert, IndInv, TypeOK, Unset
<1>2. \A b, kinds : Holds(b, kinds)' <=> Holds(b, kinds)
  BY <1>1 DEF Holds, Height
<1>3. tick'.at = "idle" /\ tick'.todo = {}
  BY <1>1 DEF Stopped
<1>4. began <= tick.to + 1
  BY <1>1 DEF IndInv, TypeOK
<1>5. TypeOK'
  <2>1. log' \in Seq(Kinds) /\ Height' \in 1 .. MaxHeight /\ began' \in 1 .. MaxHeight
    BY <1>1 DEF IndInv, TypeOK, Height
  <2>2. cursor' \in 0 .. Unset /\ cursor' <= Height' /\ began' <= cursor' + 1
    BY <1>1, <1>4 DEF Unset, Height
  <2>3. tick' \in [at : {"idle", "fetch", "apply"}, to : 0 .. MaxHeight, next : 0 .. MaxHeight + 1,
                   found : SUBSET (1 .. MaxHeight), todo : SUBSET (1 .. MaxHeight)]
    BY <1>1 DEF Stopped
  <2>4. rows' \in SUBSET (1 .. MaxHeight) /\ issuer' \in 0 .. MaxHeight /\ faults' \in 0 .. MaxFaults
    BY <1>1 DEF IndInv, TypeOK
  <2> QED
    BY <1>3, <2>1, <2>2, <2>3, <2>4 DEF TypeOK
<1>6. Covered' = began .. tick.next - 1
  BY <1>1 DEF Covered, Unset
<1>7. NothingLost' /\ RotationsFollowed'
  BY <1>1, <1>2, <1>6 DEF IndInv, NothingLost, RotationsFollowed, Collected, Applied
<1> QED
  BY <1>3, <1>5, <1>7 DEF IndInv, Collected, Applied

LEMMA StepHolds == ASSUME IndInv, [Next]_vars PROVE IndInv'
<1> USE IndexerAssumption
<1>1. CASE \E kind \in Kinds : Mine(kind)
  BY <1>1, MineHolds
<1>2. CASE Begin
  BY <1>2, BeginHolds
<1>3. CASE Fetch
  BY <1>3, ReadHolds DEF Fetch, IndInv, TypeOK
<1>4. CASE LegFails
  <2>1. faults' \in 0 .. MaxFaults
    BY <1>4 DEF LegFails, Fault, IndInv, TypeOK
  <2> QED
    BY <1>4, <2>1, ReadHolds DEF LegFails
<1>5. CASE Apply
  BY <1>5, ApplyHolds
<1>6. CASE Save
  BY <1>6, SaveHolds
<1>7. CASE TickFails \/ AnswerLost
  BY <1>7, FailureHolds
<1>8. CASE Restart
  BY <1>8, RestartHolds
<1>9. CASE UNCHANGED vars
  BY <1>9 DEF vars, IndInv, TypeOK, NothingLost, RotationsFollowed, Collected, Applied, Covered,
             Holds, Height, Unset
<1> QED
  BY <1>1, <1>2, <1>3, <1>4, <1>5, <1>6, <1>7, <1>8, <1>9 DEF Next

LEMMA Inductive == Spec => []IndInv
<1>1. Init => IndInv
  BY InitHolds
<1>2. IndInv /\ [Next]_vars => IndInv'
  BY StepHolds
<1> QED
  BY <1>1, <1>2, PTL DEF Spec

-----------------------------------------------------------------------------

\* The state the indexer keeps is well formed whatever fails.
THEOREM IndexerTyped == Spec => []TypeOK
<1>1. IndInv => TypeOK
  BY DEF IndInv
<1> QED
  BY <1>1, Inductive, PTL

\* tax-event-indexer.ts:313-351: no failure of a call or of a write, no lost
\* answer, no failed leg and no restart loses a row of a strict leg between the
\* block the indexer started in and its cursor.
THEOREM IndexerLosesNothing == Spec => []NothingLost
<1>1. IndInv => NothingLost
  BY DEF IndInv
<1> QED
  BY <1>1, Inductive, PTL

\* tax-event-indexer.ts:696-698: and its cursor passes no rotation that was not
\* written, though a replay writes older ones again.
THEOREM IndexerFollowsRotations == Spec => []RotationsFollowed
<1>1. IndInv => RotationsFollowed
  BY DEF IndInv
<1> QED
  BY <1>1, Inductive, PTL

\* tax-event-indexer.ts:313-351, :696-698: what the cursor has passed is written,
\* rows and rotations alike, whatever fails and whenever the process restarts.
THEOREM IndexerMissesNothing == Spec => []NothingMissed
<1>1. IndInv => NothingMissed
  BY DEF IndInv, NothingMissed
<1> QED
  BY <1>1, Inductive, PTL

-----------------------------------------------------------------------------
(* Escrows *)

\* What the types of the poller say beyond what its proof needed.
PollerBounded(c) ==
  /\ Len(escrowLog) <= c.MaxHeight
  /\ escrowCursor # Escrow(c)!Unset => escrowCursor <= Len(escrowLog)
  /\ polledFrom \in 1 .. c.MaxHeight + 1
  /\ poll.to <= Len(escrowLog)
  /\ mishaps \in 0 .. c.MaxFaults

PollerSets(c) ==
  /\ users \subseteq Escrow(c)!Escrows /\ escrowBuffer \subseteq Escrow(c)!Escrows
  /\ \A e \in paid : e \in Escrow(c)!Escrows /\ Logged(e)

\* The row of the escrow that is written next was written just before.
RowAhead ==
  /\ poll.at = "record" => escrowStatus[poll.todo[1].escrow] = "on_chain"
  /\ poll.at = "claim" => escrowStatus[poll.todo[1].escrow] = "redeemed"

PollerInv(c) == EscrowInv(c) /\ PollerBounded(c) /\ PollerSets(c) /\ RowAhead

LEMMA PollerStarts ==
  ASSUME NEW c, Escrow(c)!PollerAssumption, Escrow(c)!Init PROVE PollerInv(c)
<1>1. EscrowInv(c)
  BY EscrowStarts
<1>2. c.MaxHeight \in Nat /\ c.MaxFaults \in Nat /\ c.Members \subseteq Escrow(c)!Escrows
  BY DEF Escrow!PollerAssumption
<1>3. poll.at = "idle" /\ poll.to = 0
  BY DEF Escrow!Init, Escrow!Idle
<1>4. PollerBounded(c)
  BY <1>2, <1>3 DEF Escrow!Init, PollerBounded, Escrow!Unset
<1>5. PollerSets(c)
  BY <1>2 DEF Escrow!Init, PollerSets
<1>6. RowAhead
  BY <1>3 DEF RowAhead
<1> QED BY <1>1, <1>4, <1>5, <1>6 DEF PollerInv

LEMMA PollerStaysBounded ==
  ASSUME NEW c, Escrow(c)!PollerAssumption, EscrowInv(c), PollerBounded(c), Escrow(c)!Next
  PROVE  PollerBounded(c)'
<1>1. /\ escrowLog \in Seq(Block(c)) /\ Len(escrowLog) \in Nat /\ escrowCursor \in Nat
      /\ poll \in [at : Places, to : Nat, todo : Seq(Payload(c))]
  BY DEF EscrowInv, EscrowTyped
<1>2. c.MaxHeight \in Nat /\ c.MaxFaults \in Nat
  BY DEF Escrow!PollerAssumption
<1>3. ASSUME NEW block, Escrow(c)!Mine(block) PROVE PollerBounded(c)'
  <2>1. Len(escrowLog') = Len(escrowLog) + 1 /\ Len(escrowLog) < c.MaxHeight
    BY <1>1, <1>3 DEF Escrow!Mine, Escrow!Height
  <2> QED BY <1>1, <1>2, <1>3, <2>1 DEF PollerBounded, Escrow!Mine, Escrow!Unset
<1>4. ASSUME Escrow(c)!OnTable, Escrow(c)!Done \/ poll' = Escrow(c)!Idle \/ \E at : Escrow(c)!Goes(at),
             mishaps' \in 0 .. c.MaxFaults
      PROVE  PollerBounded(c)'
  <2>3. ASSUME NEW at, Escrow(c)!Goes(at) PROVE poll'.to = poll.to
    BY <1>1, <2>3 DEF Escrow!Goes
  <2>4. poll'.to \in {poll.to, 0}
    <3>1. CASE Escrow(c)!Done
      BY <1>1, <3>1 DEF Escrow!Done
    <3>2. CASE poll' = Escrow(c)!Idle
      BY <3>2 DEF Escrow!Idle
    <3>3. CASE \E at : Escrow(c)!Goes(at)
      BY <2>3, <3>3
    <3> QED BY <1>4, <3>1, <3>2, <3>3
  <2> QED BY <1>1, <1>2, <1>4, <2>4 DEF PollerBounded, Escrow!OnTable, Escrow!Unset
<1>5. mishaps \in 0 .. c.MaxFaults /\ \A kind : Escrow(c)!Fault(kind) => mishaps' \in 0 .. c.MaxFaults
  BY <1>2 DEF PollerBounded, Escrow!Fault
<1>6. CASE Escrow(c)!NothingHappens \/ Escrow(c)!Attach \/ \E e \in Escrow(c)!Escrows : Escrow(c)!Redeem(e)
  BY <1>3, <1>6 DEF Escrow!NothingHappens, Escrow!Attach, Escrow!Redeem
<1>7. CASE Escrow(c)!CallFails \/ \E e \in Escrow(c)!Escrows : Escrow(c)!Register(e)
  BY <1>5, <1>7 DEF Escrow!CallFails, Escrow!Register, PollerBounded, Escrow!Unset
<1>8. CASE Escrow(c)!Begin
  <2>1. CASE escrowCursor = Escrow(c)!Unset
    BY <1>1, <1>2, <1>8, <2>1 DEF PollerBounded, Escrow!Begin, Escrow!Unset, Escrow!Height
  <2>2. CASE escrowCursor # Escrow(c)!Unset
    <3>1. poll'.to = Len(escrowLog) /\ UNCHANGED <<escrowLog, escrowCursor, polledFrom, mishaps>>
      BY <1>8, <2>2 DEF Escrow!Begin, Escrow!Height
    <3> QED BY <1>1, <3>1 DEF PollerBounded, Escrow!Unset
  <2> QED BY <2>1, <2>2
<1>9. CASE Escrow(c)!Process
  BY <1>4, <1>5, <1>9 DEF Escrow!Process, Escrow!CreatedAgain, Escrow!Buffers, Escrow!BufferThrows, Escrow!CreatesEscrow,
       Escrow!CreatesRecord, Escrow!RedeemedInVain, Escrow!MarksRedeemed, Escrow!MarksClaimed
<1>10. CASE Escrow(c)!Advance
  <2>1. /\ escrowCursor' = poll.to /\ poll'.to = 0 /\ UNCHANGED <<escrowLog, polledFrom, mishaps>>
    BY <1>10 DEF Escrow!Advance, Escrow!Idle
  <2> QED BY <1>1, <2>1 DEF PollerBounded, Escrow!Unset
<1>11. CASE Escrow(c)!WriteFails \/ Escrow(c)!Restart
  <2>1. /\ escrowCursor' \in {escrowCursor, Escrow(c)!Unset} /\ poll'.to = 0 /\ UNCHANGED <<escrowLog, polledFrom>>
    BY <1>11 DEF Escrow!WriteFails, Escrow!Restart, Escrow!Idle
  <2>2. mishaps' \in 0 .. c.MaxFaults
    BY <1>5, <1>11 DEF Escrow!WriteFails, Escrow!Restart
  <2> QED BY <1>1, <2>1, <2>2 DEF PollerBounded, Escrow!Unset
<1>12. CASE \E e \in Escrow(c)!Escrows : Escrow(c)!AnswerLost(e)
  BY <1>4, <1>5, <1>12 DEF Escrow!AnswerLost, Escrow!OnTable
<1> QED BY <1>6, <1>7, <1>8, <1>9, <1>10, <1>11, <1>12 DEF Escrow!Next

LEMMA PollerKeepsSets ==
  ASSUME NEW c, Escrow(c)!PollerAssumption, EscrowInv(c), PollerSets(c), Escrow(c)!Next
  PROVE  PollerSets(c)'
<1>1. escrowLog \in Seq(Block(c)) /\ Len(escrowLog) \in Nat
  BY DEF EscrowInv, EscrowTyped
<1>2. ASSUME NEW block, Escrow(c)!Mine(block) PROVE \A e : Logged(e) => Logged(e)'
  <2>1. /\ Len(escrowLog') = Len(escrowLog) + 1
        /\ \A b \in 1 .. Len(escrowLog) : escrowLog'[b] = escrowLog[b]
    BY <1>1, <1>2 DEF Escrow!Mine
  <2> QED BY <1>1, <2>1 DEF Logged
<1>3. ASSUME UNCHANGED escrowLog PROVE \A e : Logged(e) => Logged(e)'
  BY <1>3 DEF Logged
<1>4. CASE Escrow(c)!NothingHappens \/ Escrow(c)!Attach
  <2>1. /\ UNCHANGED <<paid, users, escrowBuffer>>
        /\ \A e : Logged(e) => Logged(e)'
    BY <1>2, <1>4 DEF Escrow!NothingHappens, Escrow!Attach, Escrow!Mine, Escrow!tables
  <2> QED BY <2>1 DEF PollerSets, Escrow!Escrows
<1>5. ASSUME NEW e \in Escrow(c)!Escrows, Escrow(c)!Redeem(e) PROVE PollerSets(c)'
  <2>1. /\ UNCHANGED <<users, escrowBuffer>> /\ paid' \in {paid, paid \cup {e}}
        /\ escrowLog' = Append(escrowLog, Escrow(c)!Redeemed(e))
        /\ \A x : Logged(x) => Logged(x)'
    BY <1>2, <1>5 DEF Escrow!Redeem, Escrow!Mine, Escrow!tables
  <2>2. escrowLog'[Len(escrowLog')] = [kind |-> "redeemed", of |-> {e}] /\ Len(escrowLog') \in 1 .. Len(escrowLog')
    BY <1>1, <2>1 DEF Escrow!Redeemed
  <2>3. Logged(e)'
    BY <2>2 DEF Logged
  <2> QED BY <2>1, <2>3 DEF PollerSets, Escrow!Escrows
<1>6. ASSUME UNCHANGED <<escrowLog, paid>>, users' \subseteq Escrow(c)!Escrows, escrowBuffer' \subseteq Escrow(c)!Escrows
      PROVE  PollerSets(c)'
  BY <1>3, <1>6 DEF PollerSets, Escrow!Escrows
<1>7. users \subseteq Escrow(c)!Escrows /\ escrowBuffer \subseteq Escrow(c)!Escrows
  BY DEF PollerSets
<1>8. CASE Escrow(c)!Begin \/ Escrow(c)!Advance \/ Escrow(c)!CallFails \/ Escrow(c)!WriteFails \/ Escrow(c)!Restart
  <2>1. UNCHANGED <<escrowLog, paid, users, escrowBuffer>>
    BY <1>8 DEF Escrow!Begin, Escrow!Advance, Escrow!CallFails, Escrow!WriteFails, Escrow!Restart, Escrow!tables
  <2> QED BY <1>6, <1>7, <2>1
<1>9. ASSUME NEW e \in Escrow(c)!Escrows, Escrow(c)!Register(e) PROVE PollerSets(c)'
  <2>1. UNCHANGED <<escrowLog, paid, escrowBuffer>> /\ users' = users \cup {e}
    BY <1>9 DEF Escrow!Register, Escrow!tables
  <2> QED BY <1>6, <1>7, <2>1
<1>10. ASSUME NEW e \in Escrow(c)!Escrows, Escrow(c)!OnTable, escrowBuffer' \in {escrowBuffer, escrowBuffer \cup {e}}
       PROVE  PollerSets(c)'
  <2>1. UNCHANGED <<escrowLog, paid, users>>
    BY <1>10 DEF Escrow!OnTable
  <2> QED BY <1>6, <1>7, <1>10, <2>1
<1>11. CASE Escrow(c)!Process
  BY <1>10, <1>11 DEF Escrow!Process, Escrow!CreatedAgain, Escrow!Buffers, Escrow!BufferThrows, Escrow!CreatesEscrow,
       Escrow!CreatesRecord, Escrow!RedeemedInVain, Escrow!MarksRedeemed, Escrow!MarksClaimed, Escrow!tables,
       Escrow!WritesBuffer, Escrow!WritesRow, Escrow!WritesRecord, Escrow!WritesRedeemed, Escrow!WritesClaimed
<1>12. CASE \E e \in Escrow(c)!Escrows : Escrow(c)!AnswerLost(e)
  BY <1>10, <1>12 DEF Escrow!AnswerLost, Escrow!OnTable,
       Escrow!WritesBuffer, Escrow!WritesRow, Escrow!WritesRecord, Escrow!WritesRedeemed, Escrow!WritesClaimed
<1> QED BY <1>4, <1>5, <1>8, <1>9, <1>11, <1>12 DEF Escrow!Next

LEMMA RowStaysAhead ==
  ASSUME NEW c, EscrowInv(c), RowAhead, Escrow(c)!Next PROVE RowAhead'
<1>1. /\ poll \in [at : Places, to : Nat, todo : Seq(Payload(c))]
      /\ escrowStatus \in [Escrow(c)!Escrows -> {"none", "on_chain", "redeemed"}]
  BY DEF EscrowInv, EscrowTyped
<1>2. ASSUME poll'.at \notin {"record", "claim"} PROVE RowAhead'
  BY <1>2 DEF RowAhead
<1>3. CASE UNCHANGED <<poll, escrowStatus>>
  BY <1>3 DEF RowAhead
<1>4. CASE poll' = Escrow(c)!Idle \/ Escrow(c)!Done
  <2>1. CASE poll' = Escrow(c)!Idle
    BY <1>2, <2>1 DEF Escrow!Idle
  <2>2. CASE Escrow(c)!Done
    <3>1. poll' = [poll EXCEPT !.at = "payload", !.todo = Tail(poll.todo)]
      BY <2>2 DEF Escrow!Done
    <3>2. poll'.at = "payload"
      BY <1>1, <3>1
    <3> QED BY <1>2, <3>2
  <2> QED BY <1>4, <2>1, <2>2
<1>5. CASE Escrow(c)!Begin
  <2>1. UNCHANGED escrowStatus
    BY <1>5 DEF Escrow!Begin, Escrow!tables
  <2>2. UNCHANGED poll \/ poll'.at = "payload"
    BY <1>5 DEF Escrow!Begin
  <2> QED BY <1>2, <1>3, <2>1, <2>2
<1>6. ASSUME NEW e \in Escrow(c)!Escrows, Escrow(c)!CreatesEscrow(e) PROVE RowAhead'
  <2>1. /\ poll.todo # <<>> /\ Head(poll.todo) = [kind |-> "created", escrow |-> e]
        /\ escrowStatus' = [escrowStatus EXCEPT ![e] = "on_chain"] /\ poll' = [poll EXCEPT !.at = "record"]
    BY <1>6 DEF Escrow!CreatesEscrow, Escrow!WritesRow, Escrow!Taking, Escrow!Goes
  <2>2. poll'.at = "record" /\ poll'.todo = poll.todo /\ poll.todo[1].escrow = e
    BY <1>1, <2>1
  <2> QED BY <1>1, <2>1, <2>2 DEF RowAhead
<1>7. ASSUME NEW e \in Escrow(c)!Escrows, Escrow(c)!MarksRedeemed(e) PROVE RowAhead'
  <2>1. /\ poll.todo # <<>> /\ Head(poll.todo) = [kind |-> "redeemed", escrow |-> e]
        /\ escrowStatus' = [escrowStatus EXCEPT ![e] = "redeemed"] /\ poll' = [poll EXCEPT !.at = "claim"]
    BY <1>7 DEF Escrow!MarksRedeemed, Escrow!WritesRedeemed, Escrow!Taking, Escrow!Goes
  <2>2. poll'.at = "claim" /\ poll'.todo = poll.todo /\ poll.todo[1].escrow = e
    BY <1>1, <2>1
  <2> QED BY <1>1, <2>1, <2>2 DEF RowAhead
<1>8. ASSUME NEW block, Escrow(c)!Mine(block) PROVE UNCHANGED <<poll, escrowStatus>>
  BY <1>8 DEF Escrow!Mine, Escrow!tables
<1>9. CASE Escrow(c)!NothingHappens \/ Escrow(c)!Attach \/ \E e \in Escrow(c)!Escrows : Escrow(c)!Redeem(e) \/ Escrow(c)!Register(e)
  BY <1>3, <1>8, <1>9 DEF Escrow!NothingHappens, Escrow!Attach, Escrow!Redeem, Escrow!Register, Escrow!tables
<1>10. CASE Escrow(c)!Process
  BY <1>4, <1>6, <1>7, <1>10 DEF Escrow!Process, Escrow!CreatedAgain, Escrow!Buffers, Escrow!BufferThrows,
       Escrow!CreatesRecord, Escrow!RedeemedInVain, Escrow!MarksClaimed
<1>11. CASE Escrow(c)!Advance \/ Escrow(c)!WriteFails \/ Escrow(c)!Restart \/ \E e \in Escrow(c)!Escrows : Escrow(c)!AnswerLost(e)
  BY <1>4, <1>11 DEF Escrow!Advance, Escrow!WriteFails, Escrow!Restart, Escrow!AnswerLost
<1>12. CASE Escrow(c)!CallFails
  BY <1>3, <1>12 DEF Escrow!CallFails, Escrow!tables
<1> QED BY <1>5, <1>9, <1>10, <1>11, <1>12 DEF Escrow!Next

LEMMA PollerSteps ==
  ASSUME NEW c, Escrow(c)!PollerAssumption, PollerInv(c), Escrow(c)!Next PROVE PollerInv(c)'
BY EscrowSteps, PollerStaysBounded, PollerKeepsSets, RowStaysAhead DEF PollerInv

LEMMA PollerStutters ==
  ASSUME NEW c, PollerInv(c), UNCHANGED <<escrowVars, mishaps>> PROVE PollerInv(c)'
<1>1. EscrowInv(c)'
  BY EscrowStutters DEF PollerInv
<1>2. UNCHANGED <<escrowLog, paid, escrowCursor, polledFrom, poll, users, escrowStatus, escrowBuffer, mishaps>>
  BY DEF escrowVars
<1> QED BY <1>1, <1>2 DEF PollerInv, PollerBounded, PollerSets, RowAhead, Escrow!Unset, Escrow!Escrows, Logged

LEMMA PollerIsTyped ==
  ASSUME NEW c, Escrow(c)!PollerAssumption, PollerInv(c) PROVE Escrow(c)!TypeOK
<1>1. EscrowTyped(c) /\ RecordsFew(c) /\ PollerBounded(c) /\ PollerSets(c) /\ RowAhead
  BY DEF PollerInv, EscrowInv
<1>2. escrowLog \in Seq(Block(c)) /\ Escrow(c)!Height \in 0 .. c.MaxHeight
  BY <1>1 DEF EscrowTyped, PollerBounded, Escrow!Height, Escrow!PollerAssumption
<1>3. paid \subseteq {e \in Escrow(c)!Escrows : Escrow(c)!Logs("redeemed", e) # {}}
  BY <1>1 DEF PollerSets, Logged, Escrow!Logs, Escrow!Height
<1>4. /\ escrowCursor \in 0 .. Escrow(c)!Unset
      /\ escrowCursor # Escrow(c)!Unset => escrowCursor <= Escrow(c)!Height
      /\ polledFrom \in 1 .. c.MaxHeight + 1
  BY <1>1, <1>2 DEF EscrowTyped, PollerBounded, Escrow!Height, Escrow!PollerAssumption, Escrow!Unset
<1>5. poll \in [at : {"idle", "payload", "record", "claim"}, to : 0 .. c.MaxHeight, todo : Seq(Payload(c))]
  <2>1. poll \in [at : Places, to : Nat, todo : Seq(Payload(c))]
    BY <1>1 DEF EscrowTyped
  <2>2. poll.to \in 0 .. c.MaxHeight
    BY <1>1, <1>2, <2>1 DEF PollerBounded, Escrow!Height, Escrow!PollerAssumption
  <2> QED BY <2>1, <2>2 DEF Places
<1>6. records \in [Escrow(c)!Escrows -> [n : 0 .. 2, status : {"none", "claimable", "claimed"}]]
  <2>1. \A e \in Escrow(c)!Escrows : records[e] \in Record(c) /\ records[e].n \in 0 .. 2
    BY <1>1 DEF EscrowTyped, RecordsFew, Record
  <2>2. \A e \in Escrow(c)!Escrows : records[e] \in [n : 0 .. 2, status : {"none", "claimable", "claimed"}]
    BY <2>1 DEF Record
  <2> QED BY <1>1, <2>2 DEF EscrowTyped
<1>7. poll.at = "record" => escrowStatus[poll.todo[1].escrow] = "on_chain"
  BY <1>1 DEF RowAhead
<1>8. poll.at = "claim" => escrowStatus[poll.todo[1].escrow] = "redeemed"
  BY <1>1 DEF RowAhead
<1>9. /\ users \subseteq Escrow(c)!Escrows /\ escrowBuffer \subseteq Escrow(c)!Escrows /\ mishaps \in 0 .. c.MaxFaults
      /\ escrowStatus \in [Escrow(c)!Escrows -> {"none", "on_chain", "redeemed"}]
  BY <1>1 DEF PollerSets, PollerBounded, EscrowTyped
<1> QED BY <1>2, <1>3, <1>4, <1>5, <1>6, <1>7, <1>8, <1>9 DEF Escrow!TypeOK, Payload, Block

-----------------------------------------------------------------------------
(* The deployment wizard: its rows, its runs and its pages                 *)

DeployRow(c) == [symbol : c.Symbols, status : {"running", "succeeded", "failed"}, lastStep : 0 .. c.Steps]
PacedWorker(c) == [at : Stages, events : 0 .. 3 * c.Steps]

\* Where a run is in its next step tells how many events it has published.
Paced(c, wk, m) ==
  /\ wk.at = "none" => wk.events = 0
  /\ wk.at = "next" => wk.events = 3 * m
  /\ wk.at = "sending" => wk.events = 3 * m + 1 /\ m < c.Steps
  /\ wk.at = "waiting" => wk.events = 3 * m + 2 /\ m < c.Steps

DeployTyped(c) ==
  /\ deploys \in Seq(DeployRow(c)) /\ Len(deploys) <= c.MaxDeploys
  /\ workers \in [Deploy(c)!Id -> PacedWorker(c)]
  /\ done \in [Deploy(c)!Id -> SUBSET (1 .. c.Steps)]
  /\ history \subseteq Deploy(c)!Id /\ rotated \subseteq Deploy(c)!Grant .. c.Steps
  /\ mishaps \in 0 .. c.MaxFaults

\* A run that is over has said so in its row first.
RunsPaced(c) ==
  \A d \in Deploy(c)!Id :
    /\ \E m \in 0 .. c.Steps : Paced(c, workers[d], m)
    /\ d \notin DOMAIN deploys => workers[d].at = "none"
    /\ workers[d].at \in {"closing", "ended"} => deploys[d].status # "running"

\* What a stream may have handed on, and the closing event.
Published(d) == workers[d].events + (IF workers[d].at = "ended" THEN 1 ELSE 0)
WizardFine(c, pg) ==
  /\ DOMAIN pg = {"at", "symbol", "deploy", "shown", "final", "heard"}
  /\ pg.at \in {"form", "checked", "loaded", "lost", "looked", "stream", "end"} /\ pg.symbol \in c.Symbols
  /\ pg.final \in {"none", "succeeded", "failed"}
  /\ pg.at \in {"form", "checked"} => pg.heard = 0
  /\ pg.at \in {"loaded", "lost", "looked", "stream"} => pg.deploy # 0
  /\ pg.deploy # 0 => pg.deploy \in DOMAIN deploys /\ pg.heard \in Nat /\ pg.heard <= Published(pg.deploy)
WizardsFine(c) == DOMAIN pages = c.Pages /\ \A p \in c.Pages : WizardFine(c, pages[p])

DeployKept(c) == DeployTyped(c) /\ RunsPaced(c) /\ WizardsFine(c)

LEMMA DeployKeptStarts ==
  ASSUME NEW c, Deploy(c)!DeployAssumption, Deploy(c)!Init
  PROVE  DeployKept(c)
<1>1. /\ deploys = <<>> /\ workers = [d \in Deploy(c)!Id |-> [at |-> "none", events |-> 0]]
      /\ done = [d \in Deploy(c)!Id |-> {}] /\ history = {} /\ rotated = {} /\ mishaps = 0
      /\ c.Steps \in Nat /\ c.MaxDeploys \in Nat /\ c.MaxFaults \in Nat
  BY DEF Deploy!Init, Deploy!DeployAssumption
<1>2. DeployTyped(c)
  <2>1. [at |-> "none", events |-> 0] \in PacedWorker(c)
    BY <1>1 DEF PacedWorker, Stages
  <2> QED BY <1>1, <2>1 DEF DeployTyped
<1>3. RunsPaced(c)
  <2> SUFFICES ASSUME NEW d \in Deploy(c)!Id
               PROVE  (\E m \in 0 .. c.Steps : Paced(c, workers[d], m)) /\ workers[d].at = "none"
    BY DEF RunsPaced
  <2>1. workers[d].at = "none" /\ workers[d].events = 0
    BY <1>1
  <2>2. 0 \in 0 .. c.Steps /\ Paced(c, workers[d], 0)
    BY <1>1, <2>1 DEF Paced
  <2> QED BY <2>1, <2>2
<1>4. WizardsFine(c)
  <2>1. pages \in [c.Pages -> {[Deploy(c)!Away EXCEPT !.symbol = s] : s \in c.Symbols}]
    BY DEF Deploy!Init
  <2>2. ASSUME NEW p \in c.Pages PROVE WizardFine(c, pages[p])
    <3>1. PICK s \in c.Symbols : pages[p] = [Deploy(c)!Away EXCEPT !.symbol = s]
      BY <2>1
    <3>2. PICK away : away = Deploy(c)!Away
      OBVIOUS
    <3>3. /\ DOMAIN away = {"at", "symbol", "deploy", "shown", "final", "heard"}
          /\ away.at = "form" /\ away.deploy = 0 /\ away.final = "none" /\ away.heard = 0
      BY <3>2 DEF Deploy!Away
    <3>4. pages[p] = [away EXCEPT !.symbol = s]
      BY <3>1, <3>2
    <3> QED BY <3>3, <3>4 DEF WizardFine
  <2> QED BY <2>1, <2>2 DEF WizardsFine
<1> QED BY <1>2, <1>3, <1>4 DEF DeployKept

LEMMA DeployKeptStutters ==
  ASSUME NEW c, DeployKept(c), UNCHANGED <<deployVars, mishaps>>
  PROVE  DeployKept(c)'
<1>1. /\ deploys' = deploys /\ workers' = workers /\ done' = done /\ history' = history /\ pages' = pages
      /\ mishaps' = mishaps /\ rotated' = rotated
  BY DEF deployVars
<1>2. DeployTyped(c)'
  BY <1>1 DEF DeployKept, DeployTyped, Deploy!Id
<1>3. RunsPaced(c)'
  BY <1>1 DEF DeployKept, RunsPaced, Deploy!Id
<1>4. WizardsFine(c)'
  BY <1>1 DEF DeployKept, WizardsFine, WizardFine, Published
<1> QED BY <1>2, <1>3, <1>4 DEF DeployKept

LEMMA DeployIsTyped ==
  ASSUME NEW c, Deploy(c)!DeployAssumption, DeployKept(c)
  PROVE  Deploy(c)!TypeOK
<1>1. DeployTyped(c) /\ WizardsFine(c)
  BY DEF DeployKept
<1>2. /\ deploys \in Seq([symbol : c.Symbols, status : {"running", "succeeded", "failed"}, lastStep : 0 .. c.Steps])
      /\ Len(deploys) <= c.MaxDeploys
  BY <1>1 DEF DeployTyped, DeployRow
<1>3. workers \in [Deploy(c)!Id -> [at : {"none", "next", "sending", "waiting", "failing", "closing", "ended", "dead"},
                         events : 0 .. 3 * c.Steps]]
  BY <1>1 DEF DeployTyped, PacedWorker, Stages
<1>4. done \in [Deploy(c)!Id -> SUBSET (1 .. c.Steps)] /\ history \subseteq Deploy(c)!Id /\ mishaps \in 0 .. c.MaxFaults
      /\ rotated \subseteq Deploy(c)!Grant .. c.Steps
  BY <1>1 DEF DeployTyped
<1>5. ASSUME NEW p \in c.Pages
      PROVE  /\ pages[p].at \in {"form", "checked", "loaded", "lost", "looked", "stream", "end"}
             /\ pages[p].deploy # 0 => pages[p].heard <= LET w == workers[pages[p].deploy] IN
                                  w.events + (IF w.at = "ended" THEN 1 ELSE 0)
             /\ pages[p].final \in {"none", "succeeded", "failed"}
  BY <1>1, <1>5 DEF WizardsFine, WizardFine, Published
<1> QED BY <1>2, <1>3, <1>4, <1>5 DEF Deploy!TypeOK

LEMMA DeployFaults ==
  ASSUME NEW c, Deploy(c)!DeployAssumption, mishaps \in 0 .. c.MaxFaults, NEW kind, Deploy(c)!Fault(kind)
  PROVE  mishaps' \in 0 .. c.MaxFaults
BY DEF Deploy!DeployAssumption, Deploy!Fault

\* A step of one run: what pages have heard of it is still no more than it
\* published.
LEMMA RunPaces ==
  ASSUME NEW c, Deploy(c)!DeployAssumption, DeployKept(c), NEW d \in DOMAIN deploys,
         NEW entry \in DeployRow(c), deploys' = [deploys EXCEPT ![d] = entry],
         NEW wk \in PacedWorker(c), workers' = [workers EXCEPT ![d] = wk],
         NEW steps \in SUBSET (1 .. c.Steps), done' = [done EXCEPT ![d] = steps],
         \E m \in 0 .. c.Steps : Paced(c, wk, m),
         wk.at \in {"closing", "ended"} => entry.status # "running",
         workers[d].at # "ended", workers[d].events <= wk.events,
         UNCHANGED <<history, pages, rotated>>, mishaps' \in 0 .. c.MaxFaults
  PROVE  DeployKept(c)'
<1>1. /\ deploys \in Seq(DeployRow(c)) /\ Len(deploys) <= c.MaxDeploys /\ c.MaxDeploys \in Nat
      /\ workers \in [Deploy(c)!Id -> PacedWorker(c)] /\ done \in [Deploy(c)!Id -> SUBSET (1 .. c.Steps)]
      /\ history \subseteq Deploy(c)!Id /\ rotated \subseteq Deploy(c)!Grant .. c.Steps
  BY DEF DeployKept, DeployTyped, Deploy!DeployAssumption
<1>2. d \in Deploy(c)!Id /\ DOMAIN deploys = 1 .. Len(deploys) /\ Len(deploys) \in Nat
  BY <1>1 DEF Deploy!Id
<1>3. /\ deploys' \in Seq(DeployRow(c)) /\ Len(deploys') = Len(deploys) /\ DOMAIN deploys' = DOMAIN deploys
      /\ deploys'[d] = entry /\ \A x \in DOMAIN deploys : x # d => deploys'[x] = deploys[x]
  BY <1>1, <1>2, ExceptSeq
<1>4. /\ workers' \in [Deploy(c)!Id -> PacedWorker(c)] /\ done' \in [Deploy(c)!Id -> SUBSET (1 .. c.Steps)]
      /\ workers'[d] = wk /\ \A x \in Deploy(c)!Id : x # d => workers'[x] = workers[x]
  BY <1>1, <1>2
<1>5. DeployTyped(c)'
  BY <1>1, <1>3, <1>4 DEF DeployTyped, Deploy!Id, Deploy!Grant
<1>6. ASSUME NEW x \in Deploy(c)!Id
      PROVE  /\ \E m \in 0 .. c.Steps : Paced(c, workers'[x], m)
             /\ x \notin DOMAIN deploys' => workers'[x].at = "none"
             /\ workers'[x].at \in {"closing", "ended"} => deploys'[x].status # "running"
  <2>1. CASE x = d
    BY <1>3, <1>4, <2>1
  <2>2. CASE x # d
    <3>1. /\ \E m \in 0 .. c.Steps : Paced(c, workers[x], m)
          /\ x \notin DOMAIN deploys => workers[x].at = "none"
          /\ workers[x].at \in {"closing", "ended"} => deploys[x].status # "running"
      BY DEF DeployKept, RunsPaced
    <3>2. workers'[x] = workers[x] /\ (x \in DOMAIN deploys => deploys'[x] = deploys[x])
      BY <1>3, <1>4, <2>2
    <3> QED BY <1>3, <3>1, <3>2
  <2> QED BY <2>1, <2>2
<1>7. RunsPaced(c)'
  BY <1>6 DEF RunsPaced, Deploy!Id
<1>8. ASSUME NEW p \in c.Pages PROVE WizardFine(c, pages[p])'
  <2>1. WizardFine(c, pages[p]) /\ pages' = pages
    BY DEF DeployKept, WizardsFine
  <2>2. ASSUME pages[p].deploy # 0
        PROVE  pages[p].deploy \in DOMAIN deploys' /\ pages[p].heard \in Nat /\ pages[p].heard <= Published(pages[p].deploy)'
    <3>1. PICK x, n : x = pages[p].deploy /\ n = pages[p].heard
      OBVIOUS
    <3>2. x \in DOMAIN deploys /\ n \in Nat /\ n <= Published(x)
      BY <2>1, <2>2, <3>1 DEF WizardFine
    <3>3. x \in Deploy(c)!Id
      BY <1>1, <1>2, <3>2 DEF Deploy!Id
    <3>4. n <= Published(x)'
      <4>1. CASE x = d
        <5>1. wk.events \in Nat /\ workers[d].events \in Nat
          <6>1. workers[d] \in PacedWorker(c)
            BY <1>1, <1>2
          <6> QED BY <6>1 DEF PacedWorker
        <5>2. n <= workers[d].events
          BY <3>2, <4>1, <5>1 DEF Published
        <5>3. n <= wk.events /\ n <= wk.events + 1
          BY <3>2, <5>1, <5>2
        <5> QED BY <1>4, <4>1, <5>1, <5>3 DEF Published
      <4>2. CASE x # d
        BY <1>4, <3>2, <3>3, <4>2 DEF Published
      <4> QED BY <4>1, <4>2
    <3> QED BY <1>3, <3>1, <3>2, <3>4
  <2> QED BY <2>1, <2>2 DEF WizardFine
<1>9. WizardsFine(c)'
  BY <1>8 DEF WizardsFine, DeployKept
<1> QED BY <1>5, <1>7, <1>9 DEF DeployKept

\* What a run does, told as a change of its row, its worker and its steps.
LEMMA RunsStayPaced ==
  ASSUME NEW c, Deploy(c)!DeployAssumption, DeployKept(c), NEW d \in DOMAIN deploys, Deploy(c)!Run(d)
  PROVE  DeployKept(c)'
<1>1. /\ deploys \in Seq(DeployRow(c)) /\ d \in Deploy(c)!Id /\ workers[d] \in PacedWorker(c)
      /\ workers \in [Deploy(c)!Id -> PacedWorker(c)] /\ done \in [Deploy(c)!Id -> SUBSET (1 .. c.Steps)]
      /\ done[d] \in SUBSET (1 .. c.Steps) /\ c.Steps \in Nat /\ mishaps \in 0 .. c.MaxFaults
  <2>1. /\ deploys \in Seq(DeployRow(c)) /\ Len(deploys) <= c.MaxDeploys /\ c.MaxDeploys \in Nat /\ c.Steps \in Nat
        /\ workers \in [Deploy(c)!Id -> PacedWorker(c)] /\ done \in [Deploy(c)!Id -> SUBSET (1 .. c.Steps)]
        /\ mishaps \in 0 .. c.MaxFaults
    BY DEF DeployKept, DeployTyped, Deploy!DeployAssumption
  <2>2. d \in Deploy(c)!Id
    BY <2>1 DEF Deploy!Id
  <2> QED BY <2>1, <2>2
<1>2. PICK wk : wk = workers[d]
  OBVIOUS
<1>3. wk \in PacedWorker(c) /\ wk.at \in Stages /\ wk.events \in 0 .. 3 * c.Steps
  <2>1. wk \in PacedWorker(c)
    BY <1>1, <1>2
  <2> QED BY <2>1 DEF PacedWorker
<1>4. PICK m \in 0 .. c.Steps : Paced(c, wk, m)
  BY <1>1, <1>2 DEF DeployKept, RunsPaced
<1>5. PICK row0 : row0 = deploys[d]
  OBVIOUS
<1>6. row0 \in DeployRow(c) /\ deploys = [deploys EXCEPT ![d] = row0] /\ done = [done EXCEPT ![d] = done[d]]
      /\ (wk.at \in {"closing", "ended"} => row0.status # "running")
  BY <1>1, <1>2, <1>5 DEF DeployKept, RunsPaced
<1>7. ASSUME Deploy(c)!Run(d) PROVE UNCHANGED <<history, pages, rotated>> /\ mishaps' \in 0 .. c.MaxFaults
  <2>1. UNCHANGED <<history, pages, rotated>>
    BY <1>7 DEF Deploy!Run, Deploy!Refuse, Deploy!Begin, Deploy!Send, Deploy!Mined, Deploy!WaitFails, Deploy!Succeed, Deploy!Fail, Deploy!End
  <2>2. mishaps' = mishaps \/ \E kind \in {"database", "call", "wait"} : Deploy(c)!Fault(kind)
    BY <1>7 DEF Deploy!Run, Deploy!Refuse, Deploy!Begin, Deploy!Send, Deploy!Mined, Deploy!WaitFails, Deploy!Succeed, Deploy!Fail, Deploy!End
  <2> QED BY <1>1, <2>1, <2>2, DeployFaults
<1>8. ASSUME NEW entry \in DeployRow(c), deploys' = [deploys EXCEPT ![d] = entry],
             NEW at \in Stages, NEW n \in 0 .. 3 * c.Steps, workers' = [workers EXCEPT ![d] = [at |-> at, events |-> n]],
             NEW steps \in SUBSET (1 .. c.Steps), done' = [done EXCEPT ![d] = steps],
             NEW k \in 0 .. c.Steps, Paced(c, [at |-> at, events |-> n], k),
             at \in {"closing", "ended"} => entry.status # "running",
             wk.at # "ended", wk.events <= n
      PROVE  DeployKept(c)'
  <2>1. PICK v : v = [at |-> at, events |-> n]
    OBVIOUS
  <2>2. v \in PacedWorker(c) /\ v.at = at /\ v.events = n
    BY <2>1 DEF PacedWorker
  <2>3. UNCHANGED <<history, pages, rotated>> /\ mishaps' \in 0 .. c.MaxFaults
    BY <1>7
  <2>4. workers' = [workers EXCEPT ![d] = v] /\ \E q \in 0 .. c.Steps : Paced(c, v, q)
    BY <1>8, <2>1
  <2> QED BY <1>2, <1>8, <2>2, <2>3, <2>4, RunPaces
<1>9. ASSUME NEW at
      PROVE  /\ [wk EXCEPT !.at = at] = [at |-> at, events |-> wk.events]
             /\ [wk EXCEPT !.at = at, !.events = wk.events + 1] = [at |-> at, events |-> wk.events + 1]
  <2>1. [wk EXCEPT !.at = at] = [at |-> at, events |-> wk.events]
    BY <1>3 DEF PacedWorker
  <2>2. PICK v : v = [at |-> at, events |-> wk.events]
    OBVIOUS
  <2>3. [v EXCEPT !.events = wk.events + 1] = [at |-> at, events |-> wk.events + 1]
    BY <2>2
  <2>4. [wk EXCEPT !.at = at, !.events = wk.events + 1] = [v EXCEPT !.events = wk.events + 1]
    BY <2>1, <2>2
  <2> QED BY <2>1, <2>3, <2>4
<1>10. ASSUME NEW at, Deploy(c)!Publish(d, at)
       PROVE  workers' = [workers EXCEPT ![d] = [at |-> at, events |-> wk.events + 1]]
  <2>1. workers' = [workers EXCEPT ![d] = [wk EXCEPT !.at = at, !.events = wk.events + 1]]
    <3>1. workers' = [workers EXCEPT ![d].at = at, ![d].events = @ + 1]
      BY <1>10 DEF Deploy!Publish
    <3>2. PICK v : v = [wk EXCEPT !.at = at]
      OBVIOUS
    <3>3. v.events = wk.events
      BY <1>3, <3>2 DEF PacedWorker
    <3>4. workers' = [workers EXCEPT ![d] = [v EXCEPT !.events = wk.events + 1]]
      BY <1>1, <1>2, <3>1, <3>2, <3>3
    <3> QED BY <3>2, <3>4
  <2> QED BY <1>9, <2>1
<1>11. ASSUME NEW at \in {"failing", "ended", "dead"}, Deploy(c)!Move(d, at), wk.at # "ended",
              at = "ended" => row0.status # "running"
       PROVE  DeployKept(c)'
  <2>1. workers' = [workers EXCEPT ![d] = [at |-> at, events |-> wk.events]] /\ UNCHANGED <<deploys, done>>
    <3>1. workers' = [workers EXCEPT ![d] = [wk EXCEPT !.at = at]] /\ UNCHANGED <<deploys, done>>
      BY <1>2, <1>11 DEF Deploy!Move
    <3> QED BY <1>9, <3>1
  <2>2. Paced(c, [at |-> at, events |-> wk.events], m) /\ at \in Stages /\ wk.events <= wk.events
    BY <1>3, <1>11 DEF Paced, Stages
  <2> QED BY <1>1, <1>3, <1>4, <1>6, <1>8, <1>11, <2>1, <2>2
<1>12. ASSUME NEW status \in {"succeeded", "failed"}, Deploy(c)!Finalized(d, status), wk.at # "ended"
       PROVE  DeployKept(c)'
  <2>1. PICK last \in 0 .. c.Steps : last = IF status = "succeeded" THEN c.Steps ELSE row0.lastStep
    <3>1. row0.lastStep \in 0 .. c.Steps
      BY <1>6 DEF DeployRow
    <3> QED BY <1>1, <3>1
  <2>2. PICK entry : entry = [symbol |-> row0.symbol, status |-> status, lastStep |-> last]
    OBVIOUS
  <2>3. entry \in DeployRow(c) /\ entry.status # "running"
    BY <1>6, <1>12, <2>1, <2>2 DEF DeployRow
  <2>4. deploys' = [deploys EXCEPT ![d] = entry]
    <3>1. deploys' = [deploys EXCEPT ![d].status = status,
                                ![d].lastStep = IF status = "succeeded" THEN c.Steps ELSE @]
      BY <1>12 DEF Deploy!Finalized
    <3>2. PICK mid : mid = [row0 EXCEPT !.status = status]
      OBVIOUS
    <3>3. mid = [symbol |-> row0.symbol, status |-> status, lastStep |-> row0.lastStep]
      BY <1>6, <3>2 DEF DeployRow
    <3>4. mid.lastStep = row0.lastStep /\ [mid EXCEPT !.lastStep = last] = entry
      BY <2>2, <3>3
    <3>5. deploys' = [deploys EXCEPT ![d] = [mid EXCEPT !.lastStep = last]]
      BY <1>1, <1>5, <2>1, <3>1, <3>2, <3>4
    <3> QED BY <3>4, <3>5
  <2>5. workers' = [workers EXCEPT ![d] = [at |-> "closing", events |-> wk.events]] /\ UNCHANGED done
    <3>1. workers' = [workers EXCEPT ![d] = [wk EXCEPT !.at = "closing"]] /\ UNCHANGED done
      BY <1>2, <1>12 DEF Deploy!Finalized
    <3> QED BY <1>9, <3>1
  <2>6. Paced(c, [at |-> "closing", events |-> wk.events], m) /\ "closing" \in Stages /\ wk.events <= wk.events
    BY <1>3 DEF Paced, Stages
  <2> QED BY <1>1, <1>3, <1>4, <1>6, <1>8, <1>12, <2>3, <2>4, <2>5, <2>6
<1>13. CASE Deploy(c)!Begin(d)
  <2>1. /\ wk.at = "next" /\ wk.events < 3 * c.Steps /\ Deploy(c)!Publish(d, "sending") /\ done' = done
        /\ deploys' = deploys \/ deploys' = [deploys EXCEPT ![d].lastStep = Deploy(c)!Step(wk.events + 1)]
    BY <1>2, <1>13 DEF Deploy!Begin
  <2>2. wk.events = 3 * m /\ m < c.Steps /\ m \in Nat
    BY <1>1, <1>4, <2>1 DEF Paced
  <2>3. PICK k : k = Deploy(c)!Step(wk.events + 1)
    OBVIOUS
  <2>4. k = m + 1 /\ k \in 0 .. c.Steps
    BY <1>1, <2>2, <2>3 DEF Deploy!Step
  <2>5. \E entry \in DeployRow(c) : deploys' = [deploys EXCEPT ![d] = entry]
    <3>1. PICK entry : entry = [row0 EXCEPT !.lastStep = k]
      OBVIOUS
    <3>2. entry \in DeployRow(c)
      BY <1>6, <2>4, <3>1 DEF DeployRow
    <3>3. deploys' = deploys \/ deploys' = [deploys EXCEPT ![d] = entry]
      BY <1>5, <2>1, <2>3, <3>1
    <3> QED BY <1>6, <3>2, <3>3
  <2>6. workers' = [workers EXCEPT ![d] = [at |-> "sending", events |-> wk.events + 1]] /\ "sending" \in Stages
    BY <1>10, <2>1 DEF Stages
  <2>7. wk.events + 1 \in 0 .. 3 * c.Steps /\ wk.events <= wk.events + 1 /\ wk.at # "ended"
    BY <1>1, <1>3, <2>1
  <2>8. Paced(c, [at |-> "sending", events |-> wk.events + 1], m)
    BY <2>2 DEF Paced
  <2>9. PICK entry \in DeployRow(c) : deploys' = [deploys EXCEPT ![d] = entry]
    BY <2>5
  <2>10. done' = [done EXCEPT ![d] = done[d]] /\ "sending" \notin {"closing", "ended"}
    BY <1>6, <2>1
  <2> QED BY <1>1, <1>8, <2>6, <2>7, <2>8, <2>9, <2>10
<1>14. CASE Deploy(c)!Send(d)
  <2>1. CASE Deploy(c)!Publish(d, "waiting") /\ UNCHANGED <<deploys, done>>
    <3>1. wk.at = "sending" /\ wk.events = 3 * m + 1 /\ m < c.Steps /\ m \in Nat
      BY <1>1, <1>2, <1>4, <1>14 DEF Paced, Deploy!Send
    <3>2. workers' = [workers EXCEPT ![d] = [at |-> "waiting", events |-> wk.events + 1]] /\ "waiting" \in Stages
      BY <1>10, <2>1 DEF Stages
    <3>3. wk.events + 1 \in 0 .. 3 * c.Steps /\ wk.events <= wk.events + 1
      BY <1>1, <3>1
    <3>4. Paced(c, [at |-> "waiting", events |-> wk.events + 1], m)
      BY <3>1 DEF Paced
    <3> QED BY <1>1, <1>4, <1>6, <1>8, <2>1, <3>1, <3>2, <3>3, <3>4
  <2>2. CASE Deploy(c)!Throws(d)
    BY <1>2, <1>11, <1>14, <2>2 DEF Deploy!Throws, Deploy!Send
  <2> QED BY <1>14, <2>1, <2>2 DEF Deploy!Send
<1>15. ASSUME wk.at = "waiting"
       PROVE  /\ Deploy(c)!Doing(d) = m + 1 /\ m + 1 \in 0 .. c.Steps /\ m + 1 \in 1 .. c.Steps
              /\ wk.events + 1 = 3 * (m + 1) /\ wk.events + 1 \in 0 .. 3 * c.Steps
  <2>1. wk.events = 3 * m + 2 /\ m < c.Steps /\ m \in Nat
    BY <1>1, <1>4, <1>15 DEF Paced
  <2>2. Deploy(c)!Doing(d) = m + 1
    BY <1>2, <2>1 DEF Deploy!Doing, Deploy!Step
  <2> QED BY <1>1, <2>1, <2>2
<1>16. CASE Deploy(c)!Mined(d)
  <2>1. wk.at = "waiting" /\ Deploy(c)!Publish(d, "next") /\ deploys' = deploys
        /\ done' = [done EXCEPT ![d] = done[d] \cup ({Deploy(c)!Doing(d)} \ rotated)]
    BY <1>2, <1>16 DEF Deploy!Mined, Deploy!Unheeded, Deploy!TakesEffect
  <2>2. \E steps \in SUBSET (1 .. c.Steps) : done' = [done EXCEPT ![d] = steps]
    <3>1. done[d] \cup ({m + 1} \ rotated) \in SUBSET (1 .. c.Steps)
      BY <1>1, <1>15, <2>1
    <3> QED BY <1>15, <2>1, <3>1
  <2>3. workers' = [workers EXCEPT ![d] = [at |-> "next", events |-> wk.events + 1]] /\ "next" \in Stages
    BY <1>10, <2>1 DEF Stages
  <2>4. Paced(c, [at |-> "next", events |-> wk.events + 1], m + 1) /\ wk.events <= wk.events + 1
    BY <1>3, <1>15, <2>1 DEF Paced
  <2> QED BY <1>6, <1>8, <1>15, <2>1, <2>2, <2>3, <2>4
<1>17. CASE Deploy(c)!WaitFails(d)
  <2>1. /\ wk.at = "waiting" /\ done' = [done EXCEPT ![d] = done[d] \cup ({Deploy(c)!Doing(d)} \ rotated)]
        /\ deploys' = deploys /\ workers' = [workers EXCEPT ![d] = [wk EXCEPT !.at = "failing"]]
    BY <1>2, <1>17 DEF Deploy!WaitFails, Deploy!TakesEffect
  <2>2. /\ done[d] \cup ({m + 1} \ rotated) \in SUBSET (1 .. c.Steps)
        /\ done' = [done EXCEPT ![d] = done[d] \cup ({m + 1} \ rotated)]
    BY <1>1, <1>15, <2>1
  <2>3. workers' = [workers EXCEPT ![d] = [at |-> "failing", events |-> wk.events]] /\ "failing" \in Stages
    BY <1>9, <2>1 DEF Stages
  <2>4. Paced(c, [at |-> "failing", events |-> wk.events], m) /\ wk.events <= wk.events
    BY <1>3 DEF Paced
  <2> QED BY <1>3, <1>4, <1>6, <1>8, <2>1, <2>2, <2>3, <2>4
<1>18. CASE Deploy(c)!Succeed(d)
  BY <1>2, <1>11, <1>12, <1>18 DEF Deploy!Succeed
<1>19. CASE Deploy(c)!Fail(d)
  BY <1>2, <1>11, <1>12, <1>19 DEF Deploy!Fail
<1>20. CASE Deploy(c)!End(d)
  BY <1>2, <1>6, <1>11, <1>20 DEF Deploy!End
<1>21. CASE Deploy(c)!Refuse(d)
  BY <1>2, <1>11, <1>21 DEF Deploy!Refuse
<1> QED BY <1>13, <1>14, <1>16, <1>17, <1>18, <1>19, <1>20, <1>21 DEF Deploy!Run

\* Only one page changes, and neither rows nor runs do.
LEMMA WizardMoves ==
  ASSUME NEW c, Deploy(c)!DeployAssumption, DeployKept(c), NEW p \in c.Pages, NEW new,
         UNCHANGED <<deploys, workers, done, rotated, history>>, pages' = [pages EXCEPT ![p] = new], WizardFine(c, new),
         mishaps' \in 0 .. c.MaxFaults
  PROVE  DeployKept(c)'
<1>1. DeployTyped(c)'
  BY DEF DeployKept, DeployTyped, Deploy!Id
<1>2. RunsPaced(c)'
  BY DEF DeployKept, RunsPaced, Deploy!Id
<1>3. \A pg : WizardFine(c, pg) => WizardFine(c, pg)'
  BY DEF WizardFine, Published
<1>4. ASSUME NEW x \in c.Pages PROVE WizardFine(c, pages[x])'
  <2>1. PICK pg : pg = pages'[x]
    OBVIOUS
  <2>2. pg = IF x = p THEN new ELSE pages[x]
    BY <2>1 DEF DeployKept, WizardsFine
  <2>3. WizardFine(c, pages[x])
    BY DEF DeployKept, WizardsFine
  <2>4. WizardFine(c, pg)
    BY <2>2, <2>3
  <2>5. WizardFine(c, pg)'
    BY <1>3, <2>4
  <2>6. WizardFine(c, pages[x])' <=> WizardFine(c, pg)'
    BY <2>1 DEF WizardFine, Published
  <2> QED BY <2>5, <2>6
<1>5. DOMAIN pages' = c.Pages
  BY DEF DeployKept, WizardsFine
<1>6. WizardsFine(c)'
  BY <1>4, <1>5 DEF WizardsFine
<1> QED BY <1>1, <1>2, <1>6 DEF DeployKept

\* A page of a deployment knows one that was begun, whose events are counted.
LEMMA WizardKnows ==
  ASSUME NEW c, Deploy(c)!DeployAssumption, DeployKept(c), NEW p \in c.Pages, NEW pg, pg = pages[p], pg.deploy # 0
  PROVE  /\ pg.deploy \in DOMAIN deploys /\ deploys[pg.deploy].status \in {"running", "succeeded", "failed"}
         /\ workers[pg.deploy].events \in Nat
         /\ workers[pg.deploy].at = "ended" => deploys[pg.deploy].status # "running"
<1>1. /\ deploys \in Seq(DeployRow(c)) /\ Len(deploys) <= c.MaxDeploys /\ c.MaxDeploys \in Nat /\ c.Steps \in Nat
      /\ workers \in [Deploy(c)!Id -> PacedWorker(c)] /\ WizardFine(c, pg)
  BY DEF DeployKept, DeployTyped, WizardsFine, Deploy!DeployAssumption
<1>2. PICK d : d = pg.deploy
  OBVIOUS
<1>3. d \in DOMAIN deploys
  BY <1>1, <1>2 DEF WizardFine
<1>4. d \in Deploy(c)!Id
  BY <1>1, <1>3 DEF Deploy!Id
<1>5. deploys[d].status \in {"running", "succeeded", "failed"}
  <2>1. deploys[d] \in DeployRow(c)
    BY <1>1, <1>3
  <2> QED BY <2>1 DEF DeployRow
<1>6. workers[d].events \in Nat
  <2>1. workers[d] \in PacedWorker(c)
    BY <1>1, <1>4
  <2> QED BY <1>1, <2>1 DEF PacedWorker
<1>7. workers[d].at = "ended" => deploys[d].status # "running"
  BY <1>4 DEF DeployKept, RunsPaced
<1> QED BY <1>2, <1>3, <1>5, <1>6, <1>7

\* What a page may become.
LEMMA WizardsView ==
  ASSUME NEW c, Deploy(c)!DeployAssumption, DeployKept(c), NEW p \in c.Pages,
         Deploy(c)!Check(p) \/ Deploy(c)!View(p) \/ Deploy(c)!Reload(p) \/ Deploy(c)!StreamDrops(p)
  PROVE  DeployKept(c)'
<1>1. PICK pg : pg = pages[p]
  OBVIOUS
<1>2. WizardFine(c, pg) /\ DOMAIN pages = c.Pages
  BY <1>1 DEF DeployKept, WizardsFine
<1>3. DOMAIN pg = {"at", "symbol", "deploy", "shown", "final", "heard"}
  BY <1>2 DEF WizardFine
<1>4. mishaps' \in 0 .. c.MaxFaults
  <2>1. mishaps \in 0 .. c.MaxFaults
    BY DEF DeployKept, DeployTyped
  <2>2. mishaps' = mishaps \/ \E kind \in {"reload", "reattach", "network"} : Deploy(c)!Fault(kind)
    BY DEF Deploy!Check, Deploy!View, Deploy!Reload, Deploy!StreamDrops, Deploy!Reattach, Deploy!Poll, Deploy!Look,
       Deploy!Subscribe, Deploy!Hear
  <2> QED BY <2>1, <2>2, DeployFaults
<1>5. UNCHANGED <<deploys, workers, done, rotated, history>>
  BY DEF Deploy!Check, Deploy!View, Deploy!Reload, Deploy!StreamDrops, Deploy!Reattach, Deploy!Poll, Deploy!Look,
       Deploy!Subscribe, Deploy!Hear, Deploy!Page
<1>6. ASSUME NEW new, pages' = [pages EXCEPT ![p] = new], WizardFine(c, new) PROVE DeployKept(c)'
  BY <1>4, <1>5, <1>6, WizardMoves
<1>7. ASSUME pg.deploy # 0
      PROVE  /\ pg.deploy \in DOMAIN deploys /\ deploys[pg.deploy].status \in {"running", "succeeded", "failed"}
             /\ workers[pg.deploy].events \in Nat
             /\ workers[pg.deploy].at = "ended" => deploys[pg.deploy].status # "running"
  BY <1>1, <1>7, WizardKnows
\* A page that goes elsewhere with what it knows, or that is told the end.
<1>8. ASSUME NEW at \in {"checked", "lost", "looked"}, at # "checked" => pg.deploy # 0, at = "checked" => pg.heard = 0,
             NEW steps, NEW new, new = [pg EXCEPT !.at = at] \/ new = [[pg EXCEPT !.shown = steps] EXCEPT !.at = at]
      PROVE  WizardFine(c, new)
  <2>1. /\ DOMAIN new = DOMAIN pg /\ new.at = at /\ new.symbol = pg.symbol /\ new.deploy = pg.deploy
        /\ new.final = pg.final /\ new.heard = pg.heard
    <3>1. CASE new = [pg EXCEPT !.at = at]
      BY <1>3, <3>1
    <3>2. CASE new = [[pg EXCEPT !.shown = steps] EXCEPT !.at = at]
      <4>1. PICK y : y = [pg EXCEPT !.shown = steps]
        OBVIOUS
      <4>2. /\ DOMAIN y = DOMAIN pg /\ y.symbol = pg.symbol /\ y.deploy = pg.deploy /\ y.final = pg.final
            /\ y.heard = pg.heard
        BY <1>3, <4>1
      <4>3. new = [y EXCEPT !.at = at]
        BY <3>2, <4>1
      <4> QED BY <1>3, <4>2, <4>3
    <3> QED BY <1>8, <3>1, <3>2
  <2> QED BY <1>2, <1>8, <2>1 DEF WizardFine
<1>9. ASSUME pg.deploy # 0, NEW status \in {"succeeded", "failed"}, NEW heard \in Nat, heard <= Published(pg.deploy),
             NEW new, DOMAIN new = DOMAIN pg, new.at = "end", new.symbol = pg.symbol, new.deploy = pg.deploy,
             new.final = status, new.heard = heard
      PROVE  WizardFine(c, new)
  BY <1>2, <1>3, <1>7, <1>9 DEF WizardFine
<1>10. ASSUME pg.deploy # 0 PROVE pg.heard \in Nat /\ pg.heard <= Published(pg.deploy)
  BY <1>2, <1>10 DEF WizardFine
<1>11. ASSUME pg.at \in {"loaded", "lost", "looked", "stream"} PROVE pg.deploy # 0
  BY <1>2, <1>11 DEF WizardFine
<1>12. ASSUME NEW status
       PROVE  LET told == [pg EXCEPT !.at = "end", !.final = status] IN
              /\ Deploy(c)!Told(p, status) = told
              /\ DOMAIN told = DOMAIN pg /\ told.at = "end" /\ told.symbol = pg.symbol /\ told.deploy = pg.deploy
              /\ told.final = status /\ told.heard = pg.heard
  BY <1>1, <1>3 DEF Deploy!Told
<1>13. CASE Deploy(c)!Check(p)
  <2>1. PICK new : new = [pg EXCEPT !.at = "checked"]
    OBVIOUS
  <2>2. pages' = [pages EXCEPT ![p] = new] /\ pg.at = "form"
    BY <1>1, <1>13, <2>1 DEF Deploy!Check
  <2>3. pg.heard = 0
    BY <1>2, <2>2 DEF WizardFine
  <2>4. WizardFine(c, new)
    BY <1>8, <2>1, <2>3
  <2> QED BY <1>6, <2>2, <2>4
<1>14. CASE Deploy(c)!Reload(p)
  <2>1. PICK new, blank : blank = Deploy(c)!Blank /\ new = [pg EXCEPT !.at = "loaded", !.shown = blank, !.heard = 0]
    OBVIOUS
  <2>2. pages' = [pages EXCEPT ![p] = new] /\ pg.at \in {"lost", "looked", "stream"}
    BY <1>1, <1>14, <2>1 DEF Deploy!Reload, Deploy!Page
  <2>3. /\ DOMAIN new = DOMAIN pg /\ new.at = "loaded" /\ new.symbol = pg.symbol /\ new.deploy = pg.deploy
        /\ new.final = pg.final /\ new.heard = 0
    BY <1>3, <2>1
  <2>4. pg.deploy # 0 /\ 0 <= Published(pg.deploy)
    BY <1>7, <1>11, <2>2 DEF Published
  <2>5. WizardFine(c, new)
    BY <1>2, <2>3, <2>4 DEF WizardFine
  <2> QED BY <1>6, <2>2, <2>5
<1>15. CASE Deploy(c)!StreamDrops(p)
  <2>1. PICK new : new = [pg EXCEPT !.at = "lost"]
    OBVIOUS
  <2>2. pages' = [pages EXCEPT ![p] = new] /\ pg.at \in {"looked", "stream"}
    BY <1>1, <1>15, <2>1 DEF Deploy!StreamDrops, Deploy!Page
  <2>3. WizardFine(c, new)
    BY <1>8, <1>11, <2>1, <2>2
  <2> QED BY <1>6, <2>2, <2>3
<1>16. CASE Deploy(c)!Reattach(p)
  <2>1. PICK y, snap, d : d = pg.deploy /\ snap = Deploy(c)!Snapshot(d) /\ y = [pg EXCEPT !.shown = snap]
    OBVIOUS
  <2>2. /\ DOMAIN y = DOMAIN pg /\ y.symbol = pg.symbol /\ y.deploy = pg.deploy /\ y.heard = pg.heard
    BY <1>3, <2>1
  <2>3. pg.at = "loaded" /\ d # 0 /\ deploys[d].status \in {"running", "succeeded", "failed"}
    BY <1>1, <1>7, <1>11, <1>16, <2>1 DEF Deploy!Reattach
  <2>4. \/ /\ deploys[d].status = "running" /\ pages' = [pages EXCEPT ![p] = [y EXCEPT !.at = "lost"]]
        \/ /\ deploys[d].status # "running"
           /\ pages' = [pages EXCEPT ![p] = [y EXCEPT !.at = "end", !.final = deploys[d].status]]
        \/ pages' = [pages EXCEPT ![p] = [Deploy(c)!Away EXCEPT !.symbol = pg.symbol]]
    BY <1>1, <1>16, <2>1 DEF Deploy!Reattach, Deploy!Page, Deploy!Running
  <2>5. CASE deploys[d].status = "running" /\ pages' = [pages EXCEPT ![p] = [y EXCEPT !.at = "lost"]]
    <3>1. PICK new : new = [y EXCEPT !.at = "lost"]
      OBVIOUS
    <3>2. WizardFine(c, new)
      BY <1>8, <2>1, <2>3, <3>1
    <3> QED BY <1>6, <2>5, <3>1, <3>2
  <2>6. CASE /\ deploys[d].status # "running"
             /\ pages' = [pages EXCEPT ![p] = [y EXCEPT !.at = "end", !.final = deploys[d].status]]
    <3>1. PICK new, s : s = deploys[d].status /\ new = [y EXCEPT !.at = "end", !.final = s]
      OBVIOUS
    <3>2. /\ DOMAIN new = DOMAIN pg /\ new.at = "end" /\ new.symbol = pg.symbol /\ new.deploy = pg.deploy
          /\ new.final = s /\ new.heard = pg.heard /\ s \in {"succeeded", "failed"}
      BY <1>3, <2>2, <2>3, <2>6, <3>1
    <3>3. WizardFine(c, new)
      BY <1>9, <1>10, <2>1, <2>3, <3>2
    <3> QED BY <1>6, <2>6, <3>1, <3>3
  <2>7. CASE pages' = [pages EXCEPT ![p] = [Deploy(c)!Away EXCEPT !.symbol = pg.symbol]]
    <3>1. PICK away, new, s : away = Deploy(c)!Away /\ s = pg.symbol /\ new = [away EXCEPT !.symbol = s]
      OBVIOUS
    <3>2. /\ DOMAIN away = {"at", "symbol", "deploy", "shown", "final", "heard"}
          /\ away.at = "form" /\ away.deploy = 0 /\ away.final = "none" /\ away.heard = 0
      BY <3>1 DEF Deploy!Away
    <3>3. s \in c.Symbols
      BY <1>2, <3>1 DEF WizardFine
    <3>4. WizardFine(c, new)
      BY <3>1, <3>2, <3>3 DEF WizardFine
    <3> QED BY <1>6, <2>7, <3>1, <3>4
  <2> QED BY <2>4, <2>5, <2>6, <2>7
<1>17. CASE Deploy(c)!Poll(p)
  <2>1. PICK snap, s, told, new : /\ snap = Deploy(c)!Snapshot(pg.deploy) /\ s = deploys[pg.deploy].status
                                  /\ told = [pg EXCEPT !.at = "end", !.final = s] /\ new = [told EXCEPT !.shown = snap]
    OBVIOUS
  <2>2. /\ pg.at = "lost"
        /\ (s # "running" /\ pages' = [pages EXCEPT ![p] = new]) \/ pages' = [pages EXCEPT ![p] = pg]
    BY <1>1, <1>12, <1>17, <2>1 DEF Deploy!Poll, Deploy!Page, Deploy!Running
  <2>3. s # "running" => pg.deploy # 0 /\ s \in {"succeeded", "failed"}
    BY <1>7, <1>11, <2>1, <2>2
  <2>4. /\ DOMAIN new = DOMAIN pg /\ new.at = "end" /\ new.symbol = pg.symbol /\ new.deploy = pg.deploy
        /\ new.final = s /\ new.heard = pg.heard
    <3>1. /\ DOMAIN told = DOMAIN pg /\ told.at = "end" /\ told.symbol = pg.symbol /\ told.deploy = pg.deploy
          /\ told.final = s /\ told.heard = pg.heard
      BY <1>12, <2>1
    <3> QED BY <1>3, <2>1, <3>1
  <2>5. s # "running" => WizardFine(c, new)
    BY <1>9, <1>10, <2>3, <2>4
  <2> QED BY <1>2, <1>6, <2>2, <2>5
<1>18. CASE Deploy(c)!Look(p)
  <2>1. PICK s, told, new : /\ s = deploys[pg.deploy].status /\ told = [pg EXCEPT !.at = "end", !.final = s]
                            /\ new = [pg EXCEPT !.at = "looked"]
    OBVIOUS
  <2>2. /\ pg.at = "lost"
        /\ pages' = [pages EXCEPT ![p] = new] \/ (s # "running" /\ pages' = [pages EXCEPT ![p] = told])
    BY <1>1, <1>12, <1>18, <2>1 DEF Deploy!Look, Deploy!Page, Deploy!Running
  <2>3. pg.deploy # 0 /\ s \in {"running", "succeeded", "failed"}
    BY <1>7, <1>11, <2>1, <2>2
  <2>4. WizardFine(c, new)
    BY <1>8, <2>1, <2>3
  <2>5. ASSUME s # "running" PROVE WizardFine(c, told)
    <3>1. /\ DOMAIN told = DOMAIN pg /\ told.at = "end" /\ told.symbol = pg.symbol /\ told.deploy = pg.deploy
          /\ told.final = s /\ told.heard = pg.heard
      BY <1>3, <2>1
    <3>2. s \in {"succeeded", "failed"} /\ pg.heard \in Nat /\ pg.heard <= Published(pg.deploy)
      BY <1>10, <2>3, <2>5
    <3> QED BY <1>9, <2>3, <3>1, <3>2
  <2> QED BY <1>6, <2>2, <2>4, <2>5
<1>19. CASE Deploy(c)!Subscribe(p)
  <2>1. PICK w : w = workers[pg.deploy]
    OBVIOUS
  <2>2. /\ pg.at = "looked"
        /\ \/ w.at = "ended" /\ pages' = [pages EXCEPT ![p] = [pg EXCEPT !.at = "stream", !.heard = w.events + 1]]
           \/ \E n \in {0, w.events} : pages' = [pages EXCEPT ![p] = [pg EXCEPT !.at = "stream", !.heard = n]]
    BY <1>1, <1>19, <2>1 DEF Deploy!Subscribe, Deploy!Page, Deploy!Replayed
  <2>3. pg.deploy # 0 /\ w.events \in Nat
    BY <1>7, <1>11, <2>1, <2>2
  <2>4. PICK n : /\ pages' = [pages EXCEPT ![p] = [pg EXCEPT !.at = "stream", !.heard = n]]
                 /\ (w.at = "ended" /\ n = w.events + 1) \/ n = 0 \/ n = w.events
    BY <2>2
  <2>5. n \in Nat /\ n <= Published(pg.deploy)
    <3>1. CASE w.at = "ended"
      BY <2>1, <2>3, <2>4, <3>1 DEF Published
    <3>2. CASE w.at # "ended"
      BY <2>1, <2>3, <2>4, <3>2 DEF Published
    <3> QED BY <3>1, <3>2
  <2>6. PICK new : new = [pg EXCEPT !.at = "stream", !.heard = n]
    OBVIOUS
  <2>7. /\ DOMAIN new = DOMAIN pg /\ new.at = "stream" /\ new.symbol = pg.symbol /\ new.deploy = pg.deploy
        /\ new.final = pg.final /\ new.heard = n
    BY <1>3, <2>6
  <2>8. WizardFine(c, new)
    BY <1>2, <2>3, <2>5, <2>7 DEF WizardFine
  <2> QED BY <1>6, <2>4, <2>6, <2>8
<1>20. CASE Deploy(c)!Hear(p)
  <2>0. PICK n, k, s : n = pg.heard + 1 /\ k = Deploy(c)!Step(n) /\ s = Deploy(c)!Kind(n)
    OBVIOUS
  <2>1. PICK d, w : d = pg.deploy /\ w = workers[d]
    OBVIOUS
  <2>2. /\ pg.at = "stream"
        /\ \/ /\ n <= w.events /\ pages' = [pages EXCEPT ![p] = [pg EXCEPT !.heard = n, !.shown[k] = s]]
           \/ /\ n = w.events + 1 /\ w.at = "ended"
              /\ pages' = [pages EXCEPT ![p] = [Deploy(c)!Told(p, deploys[d].status) EXCEPT !.heard = n]]
    BY <1>1, <1>20, <2>0, <2>1 DEF Deploy!Hear, Deploy!Page, Deploy!Available
  <2>3. d # 0 /\ w.events \in Nat /\ n \in Nat
    <3>1. pg.deploy # 0
      BY <1>11, <2>2
    <3> QED BY <1>7, <1>10, <2>0, <2>1, <3>1
  <2>4. ASSUME n <= w.events, pages' = [pages EXCEPT ![p] = [pg EXCEPT !.heard = n, !.shown[k] = s]]
        PROVE  DeployKept(c)'
    <3>1. PICK new : new = [pg EXCEPT !.heard = n, !.shown[k] = s]
      OBVIOUS
    <3>2. /\ DOMAIN new = DOMAIN pg /\ new.at = "stream" /\ new.symbol = pg.symbol /\ new.deploy = pg.deploy
          /\ new.final = pg.final /\ new.heard = n
      BY <1>3, <2>2, <3>1
    <3>3. n <= Published(d)
      BY <2>1, <2>3, <2>4 DEF Published
    <3>4. WizardFine(c, new)
      BY <1>2, <2>1, <2>3, <3>2, <3>3 DEF WizardFine
    <3> QED BY <1>6, <2>4, <3>1, <3>4
  <2>5. ASSUME n = w.events + 1, w.at = "ended",
               pages' = [pages EXCEPT ![p] = [Deploy(c)!Told(p, deploys[d].status) EXCEPT !.heard = n]]
        PROVE  DeployKept(c)'
    <3>1. PICK v, told, new : v = deploys[d].status /\ told = [pg EXCEPT !.at = "end", !.final = v] /\ new = [told EXCEPT !.heard = n]
      OBVIOUS
    <3>2. pages' = [pages EXCEPT ![p] = new]
      BY <1>12, <2>5, <3>1
    <3>3. /\ DOMAIN new = DOMAIN pg /\ new.at = "end" /\ new.symbol = pg.symbol /\ new.deploy = pg.deploy
          /\ new.final = v /\ new.heard = n
      <4>1. /\ DOMAIN told = DOMAIN pg /\ told.at = "end" /\ told.symbol = pg.symbol /\ told.deploy = pg.deploy
            /\ told.final = v
        BY <1>12, <3>1
      <4> QED BY <1>3, <3>1, <4>1
    <3>4. v \in {"succeeded", "failed"} /\ n <= Published(pg.deploy)
      BY <1>7, <2>1, <2>3, <2>5, <3>1 DEF Published
    <3>5. WizardFine(c, new)
      BY <1>9, <2>1, <2>3, <3>3, <3>4
    <3> QED BY <1>6, <3>2, <3>5
  <2> QED BY <2>2, <2>4, <2>5
<1> QED BY <1>13, <1>14, <1>15, <1>16, <1>17, <1>18, <1>19, <1>20 DEF Deploy!View

\* A request that is accepted: no page knows the run yet that it begins.
LEMMA StartsPaced ==
  ASSUME NEW c, Deploy(c)!DeployAssumption, DeployKept(c), NEW p \in c.Pages, Deploy(c)!Start(p)
  PROVE  DeployKept(c)'
<1>1. PICK d, pg : d = Len(deploys) + 1 /\ pg = pages[p]
  OBVIOUS
<1>2. PICK entry : entry = [symbol |-> pg.symbol, status |-> "running", lastStep |-> 0]
  OBVIOUS
<1>3. /\ pg.at = "checked" /\ d \in Deploy(c)!Id /\ deploys' = Append(deploys, entry) /\ UNCHANGED <<done, rotated>>
      /\ workers' = [workers EXCEPT ![d] = [workers[d] EXCEPT !.at = "next"]] /\ history' = history \cup {d}
      /\ \/ /\ pages' = [pages EXCEPT ![p].at = "lost", ![p].deploy = d] /\ mishaps' = mishaps
         \/ Deploy(c)!Fault("network") /\ pages' = [pages EXCEPT ![p].at = "form"]
  BY <1>1, <1>2 DEF Deploy!Start
<1>4. /\ deploys \in Seq(DeployRow(c)) /\ Len(deploys) <= c.MaxDeploys /\ c.MaxDeploys \in Nat /\ c.Steps \in Nat
      /\ workers \in [Deploy(c)!Id -> PacedWorker(c)] /\ done \in [Deploy(c)!Id -> SUBSET (1 .. c.Steps)]
      /\ history \subseteq Deploy(c)!Id /\ mishaps \in 0 .. c.MaxFaults
      /\ rotated \subseteq Deploy(c)!Grant .. c.Steps
      /\ WizardFine(c, pg) /\ DOMAIN pages = c.Pages
  BY <1>1 DEF DeployKept, DeployTyped, WizardsFine, Deploy!DeployAssumption
<1>5. entry \in DeployRow(c) /\ entry.status = "running"
  BY <1>2, <1>4 DEF WizardFine, DeployRow
<1>6. /\ deploys' \in Seq(DeployRow(c)) /\ Len(deploys') = d /\ DOMAIN deploys' = DOMAIN deploys \cup {d}
      /\ d \notin DOMAIN deploys /\ deploys'[d] = entry /\ \A x \in DOMAIN deploys : deploys'[x] = deploys[x]
      /\ d \in Nat /\ d # 0 /\ d <= c.MaxDeploys
  BY <1>1, <1>3, <1>4, <1>5 DEF Deploy!Id
<1>7. workers[d].at = "none" /\ \E m \in 0 .. c.Steps : Paced(c, workers[d], m)
  BY <1>3, <1>6 DEF DeployKept, RunsPaced
<1>8. PICK wk : wk = [workers[d] EXCEPT !.at = "next"]
  OBVIOUS
<1>9. wk \in PacedWorker(c) /\ wk.at = "next" /\ wk.events = 0 /\ workers[d] \in PacedWorker(c)
  <2>1. workers[d].events = 0
    BY <1>7 DEF Paced
  <2>2. workers[d] \in PacedWorker(c)
    BY <1>3, <1>4
  <2> QED BY <1>8, <2>1, <2>2 DEF PacedWorker, Stages
<1>10. /\ workers' \in [Deploy(c)!Id -> PacedWorker(c)] /\ workers'[d] = wk
       /\ \A x \in Deploy(c)!Id : x # d => workers'[x] = workers[x]
  BY <1>3, <1>4, <1>8, <1>9
<1>11. mishaps' \in 0 .. c.MaxFaults
  BY <1>3, <1>4, DeployFaults
<1>12. DeployTyped(c)'
  BY <1>3, <1>4, <1>6, <1>10, <1>11 DEF DeployTyped, Deploy!Id, Deploy!Grant
<1>13. ASSUME NEW x \in Deploy(c)!Id
       PROVE  /\ \E m \in 0 .. c.Steps : Paced(c, workers'[x], m)
              /\ x \notin DOMAIN deploys' => workers'[x].at = "none"
              /\ workers'[x].at \in {"closing", "ended"} => deploys'[x].status # "running"
  <2>1. CASE x = d
    <3>1. 0 \in 0 .. c.Steps /\ Paced(c, wk, 0)
      BY <1>4, <1>9 DEF Paced
    <3> QED BY <1>6, <1>9, <1>10, <2>1, <3>1
  <2>2. CASE x # d
    <3>1. /\ \E m \in 0 .. c.Steps : Paced(c, workers[x], m)
          /\ x \notin DOMAIN deploys => workers[x].at = "none"
          /\ workers[x].at \in {"closing", "ended"} => deploys[x].status # "running"
      BY DEF DeployKept, RunsPaced
    <3>2. workers'[x] = workers[x] /\ (x \in DOMAIN deploys => deploys'[x] = deploys[x])
      BY <1>6, <1>10, <2>2
    <3> QED BY <1>6, <2>2, <3>1, <3>2
  <2> QED BY <2>1, <2>2
<1>14. RunsPaced(c)'
  BY <1>13 DEF RunsPaced, Deploy!Id
<1>15. ASSUME NEW pg0, WizardFine(c, pg0) PROVE WizardFine(c, pg0)'
  <2>1. ASSUME pg0.deploy # 0
        PROVE  pg0.deploy \in DOMAIN deploys' /\ pg0.heard \in Nat /\ pg0.heard <= Published(pg0.deploy)'
    <3>1. PICK x, n : x = pg0.deploy /\ n = pg0.heard
      OBVIOUS
    <3>2. x \in DOMAIN deploys /\ n \in Nat /\ n <= Published(x)
      BY <1>15, <2>1, <3>1 DEF WizardFine
    <3>3. x # d /\ x \in Deploy(c)!Id /\ x \in DOMAIN deploys'
      BY <1>4, <1>6, <3>2 DEF Deploy!Id
    <3>4. n <= Published(x)'
      BY <1>10, <3>2, <3>3 DEF Published
    <3> QED BY <3>1, <3>2, <3>3, <3>4
  <2> QED BY <1>15, <2>1 DEF WizardFine
<1>16. DOMAIN pg = {"at", "symbol", "deploy", "shown", "final", "heard"} /\ pg.heard = 0
  BY <1>3, <1>4 DEF WizardFine
<1>17. PICK lost, form : lost = [pg EXCEPT !.at = "lost", !.deploy = d] /\ form = [pg EXCEPT !.at = "form"]
  OBVIOUS
<1>18. WizardFine(c, form)'
  <2>1. /\ DOMAIN form = DOMAIN pg /\ form.at = "form" /\ form.symbol = pg.symbol /\ form.deploy = pg.deploy
        /\ form.final = pg.final /\ form.heard = pg.heard
    BY <1>16, <1>17
  <2>2. WizardFine(c, form)
    BY <1>4, <1>16, <2>1 DEF WizardFine
  <2> QED BY <1>15, <2>2
<1>19. WizardFine(c, lost)'
  <2>1. /\ DOMAIN lost = DOMAIN pg /\ lost.at = "lost" /\ lost.symbol = pg.symbol /\ lost.deploy = d
        /\ lost.final = pg.final /\ lost.heard = 0
    BY <1>16, <1>17
  <2>2. 0 <= Published(d)' /\ d \in DOMAIN deploys'
    BY <1>6, <1>9, <1>10 DEF Published
  <2> QED BY <1>4, <1>6, <1>16, <2>1, <2>2 DEF WizardFine
<1>20. ASSUME NEW x \in c.Pages PROVE WizardFine(c, pages[x])'
  <2>1. PICK y : y = pages'[x]
    OBVIOUS
  <2>2. WizardFine(c, y)'
    <3>1. CASE x = p
      <4>1. y \in {lost, form}
        BY <1>1, <1>3, <1>4, <1>17, <2>1, <3>1
      <4> QED BY <1>18, <1>19, <4>1
    <3>2. CASE x # p
      <4>1. y = pages[x] /\ WizardFine(c, pages[x])
        BY <1>3, <1>4, <2>1, <3>2 DEF DeployKept, WizardsFine
      <4>2. WizardFine(c, y)
        BY <4>1
      <4> QED BY <1>15, <4>2
    <3> QED BY <3>1, <3>2
  <2>3. WizardFine(c, pages[x])' <=> WizardFine(c, y)'
    BY <2>1 DEF WizardFine, Published
  <2> QED BY <2>2, <2>3
<1>21. DOMAIN pages' = c.Pages
  BY <1>3, <1>4
<1>22. WizardsFine(c)'
  BY <1>20, <1>21 DEF WizardsFine
<1> QED BY <1>12, <1>14, <1>22 DEF DeployKept

\* The process is killed: its runs are dead but for those that had ended, and
\* the pages lose their streams.
LEMMA CrashPaces ==
  ASSUME NEW c, Deploy(c)!DeployAssumption, DeployKept(c), Deploy(c)!Crash
  PROVE  DeployKept(c)'
<1> DEFINE After(at) == IF at \in {"none", "ended"} THEN at ELSE "dead"
           Aside(at) == IF at = "checked" THEN "form" ELSE IF at \in {"looked", "stream"} THEN "lost" ELSE at
<1>1. /\ UNCHANGED <<deploys, done, rotated>> /\ history' = {} /\ mishaps' \in 0 .. c.MaxFaults
      /\ deploys \in Seq(DeployRow(c)) /\ Len(deploys) <= c.MaxDeploys
      /\ rotated \subseteq Deploy(c)!Grant .. c.Steps
      /\ workers \in [Deploy(c)!Id -> PacedWorker(c)] /\ done \in [Deploy(c)!Id -> SUBSET (1 .. c.Steps)]
  <2>1. mishaps' \in 0 .. c.MaxFaults
    BY DeployFaults DEF Deploy!Crash, DeployKept, DeployTyped
  <2> QED BY <2>1 DEF Deploy!Crash, DeployKept, DeployTyped
<1>2. /\ workers' = [d \in Deploy(c)!Id |-> [workers[d] EXCEPT !.at = After(workers[d].at)]]
      /\ pages' = [p \in c.Pages |-> [pages[p] EXCEPT !.at = Aside(pages[p].at)]]
  <2>2. workers' = [d \in Deploy(c)!Id |-> [workers[d] EXCEPT !.at = After(workers[d].at)]]
    BY SMTT(60) DEF Deploy!Crash
  <2>3. pages' = [p \in c.Pages |-> [pages[p] EXCEPT !.at = Aside(pages[p].at)]]
    BY SMTT(60) DEF Deploy!Crash
  <2> QED BY <2>2, <2>3
<1>3. ASSUME NEW d \in Deploy(c)!Id
      PROVE  /\ workers'[d] \in PacedWorker(c) /\ workers'[d].at = After(workers[d].at)
             /\ workers'[d].events = workers[d].events /\ workers[d].events \in Nat
  <2>1. workers[d] \in PacedWorker(c)
    BY <1>1
  <2>2. PICK wk, at : wk = workers[d] /\ at = After(workers[d].at)
    OBVIOUS
  <2>3. workers'[d] = [wk EXCEPT !.at = at]
    BY <1>2, <2>2
  <2>4. at \in Stages /\ wk \in PacedWorker(c)
    BY <2>1, <2>2 DEF PacedWorker, Stages
  <2> HIDE DEF After
  <2> QED BY <2>2, <2>3, <2>4 DEF PacedWorker, Deploy!DeployAssumption
<1>4. workers' \in [Deploy(c)!Id -> PacedWorker(c)]
  <2>1. DOMAIN workers' = Deploy(c)!Id /\ workers' = [d \in Deploy(c)!Id |-> workers'[d]]
    BY <1>2
  <2> HIDE DEF After
  <2> QED BY <1>3, <2>1
<1>5. DeployTyped(c)'
  BY <1>1, <1>4 DEF DeployTyped, Deploy!Id, Deploy!Grant
<1>6. ASSUME NEW d \in Deploy(c)!Id
      PROVE  /\ \E m \in 0 .. c.Steps : Paced(c, workers'[d], m)
             /\ d \notin DOMAIN deploys => workers'[d].at = "none"
             /\ workers'[d].at \in {"closing", "ended"} => deploys[d].status # "running"
  <2>1. /\ \E m \in 0 .. c.Steps : Paced(c, workers[d], m)
        /\ d \notin DOMAIN deploys => workers[d].at = "none"
        /\ workers[d].at \in {"closing", "ended"} => deploys[d].status # "running"
    BY DEF DeployKept, RunsPaced
  <2>2. PICK m \in 0 .. c.Steps : Paced(c, workers[d], m)
    BY <2>1
  <2>3. Paced(c, workers'[d], m)
    BY <1>3, <2>2 DEF Paced
  <2> QED BY <1>3, <2>1, <2>3
<1>7. RunsPaced(c)'
  BY <1>1, <1>6 DEF RunsPaced, Deploy!Id
<1>8. ASSUME NEW p \in c.Pages PROVE WizardFine(c, pages[p])'
  <2>1. PICK pg, at, new : pg = pages[p] /\ at = Aside(pg.at) /\ new = [pg EXCEPT !.at = at]
    OBVIOUS
  <2>2. WizardFine(c, pg)
    BY <2>1 DEF DeployKept, WizardsFine
  <2>3. pages'[p] = new
    BY <1>2, <2>1
  <2>4. /\ DOMAIN new = DOMAIN pg /\ new.at = at /\ new.symbol = pg.symbol /\ new.deploy = pg.deploy
        /\ new.final = pg.final /\ new.heard = pg.heard
    <3>1. DOMAIN pg = {"at", "symbol", "deploy", "shown", "final", "heard"}
      BY <2>2 DEF WizardFine
    <3> HIDE DEF Aside
    <3> QED BY <2>1, <3>1
  <2>5. /\ at \in {"form", "loaded", "lost", "end"} /\ (at = "form" => pg.heard = 0)
        /\ (at \in {"loaded", "lost"} => pg.deploy # 0)
    BY <2>1, <2>2 DEF WizardFine
  <2> HIDE DEF Aside, After
  <2>6. ASSUME pg.deploy # 0
        PROVE  pg.deploy \in DOMAIN deploys /\ pg.heard \in Nat /\ pg.heard <= Published(pg.deploy)'
    <3>1. PICK x, n : x = pg.deploy /\ n = pg.heard
      OBVIOUS
    <3>2. x \in DOMAIN deploys /\ n \in Nat /\ n <= Published(x)
      BY <2>2, <2>6, <3>1 DEF WizardFine
    <3>3. x \in Deploy(c)!Id
      BY <1>1, <3>2 DEF Deploy!Id, Deploy!DeployAssumption
    <3>4. workers'[x].events = workers[x].events /\ (workers'[x].at = "ended" <=> workers[x].at = "ended")
      BY <1>3, <3>3 DEF After
    <3> QED BY <3>1, <3>2, <3>4 DEF Published
  <2>7. WizardFine(c, new)'
    BY <1>1, <2>2, <2>4, <2>5, <2>6 DEF WizardFine
  <2>8. WizardFine(c, pages[p])' <=> WizardFine(c, new)'
    BY <2>3 DEF WizardFine, Published
  <2> QED BY <2>7, <2>8
<1>9. DOMAIN pages' = c.Pages
  BY <1>2
<1>10. WizardsFine(c)'
  BY <1>8, <1>9 DEF WizardsFine
<1> QED BY <1>5, <1>7, <1>10 DEF DeployKept

LEMMA CleanupPaces ==
  ASSUME NEW c, DeployKept(c), NEW d, Deploy(c)!Cleanup(d)
  PROVE  DeployKept(c)'
<1>1. UNCHANGED <<deploys, workers, done, rotated, pages, mishaps>> /\ history' \subseteq history
  BY DEF Deploy!Cleanup
<1>2. DeployTyped(c)'
  BY <1>1 DEF DeployKept, DeployTyped, Deploy!Id
<1>3. RunsPaced(c)'
  BY <1>1 DEF DeployKept, RunsPaced, Deploy!Id
<1>4. WizardsFine(c)'
  BY <1>1 DEF DeployKept, WizardsFine, WizardFine, Published
<1> QED BY <1>2, <1>3, <1>4 DEF DeployKept

LEMMA RotationPaces ==
  ASSUME NEW c, Deploy(c)!DeployAssumption, DeployKept(c), NEW k \in Deploy(c)!Grant .. c.Steps, Deploy(c)!Rotate(k)
  PROVE  DeployKept(c)'
<1>1. UNCHANGED <<deploys, workers, done, pages, history>> /\ rotated' = rotated \cup {k} /\ Deploy(c)!Fault("rotation")
  BY DEF Deploy!Rotate
<1>2. DeployTyped(c)'
  <2>1. mishaps' \in 0 .. c.MaxFaults
    BY <1>1, DeployFaults DEF DeployKept, DeployTyped
  <2> QED BY <1>1, <2>1 DEF DeployKept, DeployTyped, Deploy!Id, Deploy!Grant
<1>3. RunsPaced(c)'
  BY <1>1 DEF DeployKept, RunsPaced, Deploy!Id
<1>4. WizardsFine(c)'
  BY <1>1 DEF DeployKept, WizardsFine, WizardFine, Published
<1> QED BY <1>2, <1>3, <1>4 DEF DeployKept

LEMMA DeployKeptSteps ==
  ASSUME NEW c, Deploy(c)!DeployAssumption, DeployKept(c), Deploy(c)!Next
  PROVE  DeployKept(c)'
<1>1. ASSUME NEW p \in c.Pages, Deploy(c)!Check(p) \/ Deploy(c)!View(p) \/ Deploy(c)!Reload(p) \/ Deploy(c)!StreamDrops(p)
      PROVE  DeployKept(c)'
  BY <1>1, WizardsView
<1>2. ASSUME NEW p \in c.Pages, Deploy(c)!Start(p) PROVE DeployKept(c)'
  BY <1>2, StartsPaced
<1>3. ASSUME NEW d \in DOMAIN deploys, Deploy(c)!Run(d) PROVE DeployKept(c)'
  BY <1>3, RunsStayPaced
<1>4. ASSUME NEW d \in DOMAIN deploys, Deploy(c)!Cleanup(d) PROVE DeployKept(c)'
  BY <1>4, CleanupPaces
<1>5. CASE Deploy(c)!Crash
  BY <1>5, CrashPaces
<1>6. ASSUME NEW k \in Deploy(c)!Grant .. c.Steps, Deploy(c)!Rotate(k) PROVE DeployKept(c)'
  BY <1>6, RotationPaces
<1> QED BY <1>1, <1>2, <1>3, <1>4, <1>5, <1>6 DEF Deploy!Next

-----------------------------------------------------------------------------
(* What pages are told of the end *)

\* Where no receipt is missed and no write of the end fails.
EndIsKnown(c) == {"wait", "database"} \cap c.Faults = {}

\* A row says how its run ended, and a run that goes on has registered its
\* token only when it has nothing left to do; "gone" are the steps of contracts
\* that were handed on.
Tells(c, status, wk, steps, gone) ==
  /\ wk.at \in {"next", "sending", "waiting", "failing"} => status = "running"
  /\ wk.at \in {"sending", "waiting", "failing"} => c.Steps \notin steps
  /\ wk.at = "next" => IF wk.events = 3 * c.Steps THEN c.Steps \in steps \cup gone ELSE c.Steps \notin steps
  /\ status = "succeeded" => c.Steps \in steps \cup gone
  /\ status = "failed" => c.Steps \notin steps
RunsTell(c) ==
  \A d \in Deploy(c)!Id : IF d \in DOMAIN deploys THEN Tells(c, deploys[d].status, workers[d], done[d], rotated)
                          ELSE c.Steps \notin done[d]

\* A page that was told of an end was told what the row says.
ToldSo(pg) == pg.final # "none" => pg.at = "end" /\ pg.deploy \in DOMAIN deploys /\ pg.final = deploys[pg.deploy].status
WizardsTold(c) == \A p \in c.Pages : ToldSo(pages[p])

DeployTold(c) == DeployKept(c) /\ RunsTell(c) /\ WizardsTold(c)

LEMMA DeployToldStarts ==
  ASSUME NEW c, Deploy(c)!DeployAssumption, Deploy(c)!Init
  PROVE  DeployTold(c) /\ \A p \in c.Pages : pages[p].final = "none"
<1>1. deploys = <<>> /\ done = [d \in Deploy(c)!Id |-> {}]
  BY DEF Deploy!Init
<1>2. RunsTell(c)
  BY <1>1 DEF RunsTell
<1>3. ASSUME NEW p \in c.Pages PROVE pages[p].final = "none"
  <2>1. PICK s \in c.Symbols : pages[p] = [Deploy(c)!Away EXCEPT !.symbol = s]
    BY DEF Deploy!Init
  <2> QED BY <2>1 DEF Deploy!Away
<1> QED BY <1>2, <1>3, DeployKeptStarts DEF DeployTold, WizardsTold, ToldSo

LEMMA DeployToldStutters ==
  ASSUME NEW c, DeployTold(c), UNCHANGED <<deployVars, mishaps>>
  PROVE  DeployTold(c)'
<1>1. UNCHANGED <<deploys, workers, done, rotated, history, pages>>
  BY DEF deployVars
<1>2. DeployKept(c)'
  BY DeployKeptStutters DEF DeployTold
<1>3. RunsTell(c)'
  BY <1>1 DEF DeployTold, RunsTell, Tells, Deploy!Id
<1>4. WizardsTold(c)'
  BY <1>1 DEF DeployTold, WizardsTold, ToldSo
<1> QED BY <1>2, <1>3, <1>4 DEF DeployTold

LEMMA ToldIsTruthful == ASSUME NEW c, Deploy(c)!DeployAssumption, DeployTold(c) PROVE Deploy(c)!EndTruthful
<1>1. ASSUME NEW p \in c.Pages
      PROVE  /\ pages[p].final = "succeeded" => pages[p].deploy \in Deploy(c)!Registered \/ c.Steps \in rotated
             /\ pages[p].final = "failed" => pages[p].deploy \notin Deploy(c)!Registered
  <2>1. PICK d : d = pages[p].deploy
    OBVIOUS
  <2>2. pages[p].final # "none" => d \in DOMAIN deploys /\ pages[p].final = deploys[d].status
    BY <2>1 DEF DeployTold, WizardsTold, ToldSo
  <2>3. DOMAIN deploys \subseteq Deploy(c)!Id
    BY DEF DeployTold, DeployKept, DeployTyped, Deploy!Id, Deploy!DeployAssumption
  <2>4. ASSUME d \in DOMAIN deploys PROVE Tells(c, deploys[d].status, workers[d], done[d], rotated)
    BY <2>3, <2>4 DEF DeployTold, RunsTell
  <2> QED BY <2>1, <2>2, <2>4 DEF Tells, Deploy!Registered
<1> QED BY <1>1 DEF Deploy!EndTruthful

\* A step of one run: what its row says stays true, and pages were told
\* nothing of a run that is not over.
LEMMA RunTells ==
  ASSUME NEW c, Deploy(c)!DeployAssumption, DeployTold(c), NEW d \in DOMAIN deploys,
         NEW entry, deploys' = [deploys EXCEPT ![d] = entry],
         NEW wk, workers' = [workers EXCEPT ![d] = wk],
         NEW steps, done' = [done EXCEPT ![d] = steps], pages' = pages, rotated' = rotated,
         Tells(c, entry.status, wk, steps, rotated),
         deploys[d].status # "running" => entry.status = deploys[d].status
  PROVE  RunsTell(c)' /\ WizardsTold(c)'
<1>1. /\ deploys \in Seq(DeployRow(c)) /\ Len(deploys) <= c.MaxDeploys /\ c.MaxDeploys \in Nat
      /\ workers \in [Deploy(c)!Id -> PacedWorker(c)] /\ done \in [Deploy(c)!Id -> SUBSET (1 .. c.Steps)]
  BY DEF DeployTold, DeployKept, DeployTyped, Deploy!DeployAssumption
<1>2. d \in Deploy(c)!Id /\ DOMAIN deploys' = DOMAIN deploys /\ deploys'[d] = entry
      /\ workers'[d] = wk /\ done'[d] = steps
  BY <1>1 DEF Deploy!Id
<1>3. ASSUME NEW x \in Deploy(c)!Id
      PROVE  IF x \in DOMAIN deploys' THEN Tells(c, deploys'[x].status, workers'[x], done'[x], rotated')
             ELSE c.Steps \notin done'[x]
  <2>1. CASE x = d
    BY <1>2, <2>1
  <2>2. CASE x # d
    <3>1. workers'[x] = workers[x] /\ done'[x] = done[x] /\ (x \in DOMAIN deploys => deploys'[x] = deploys[x])
      BY <1>1, <2>2
    <3>2. IF x \in DOMAIN deploys THEN Tells(c, deploys[x].status, workers[x], done[x], rotated) ELSE c.Steps \notin done[x]
      BY DEF DeployTold, RunsTell
    <3> QED BY <1>2, <3>1, <3>2
  <2> QED BY <2>1, <2>2
<1>4. RunsTell(c)'
  BY <1>3 DEF RunsTell, Tells, Deploy!Id
<1>5. ASSUME NEW p \in c.Pages PROVE ToldSo(pages[p])'
  <2>1. PICK pg : pg = pages[p]
    OBVIOUS
  <2>2. ToldSo(pg) /\ pg.final \in {"none", "succeeded", "failed"}
    BY <2>1 DEF DeployTold, WizardsTold, DeployKept, WizardsFine, WizardFine
  <2>3. PICK x : x = pg.deploy
    OBVIOUS
  <2>4. ASSUME pg.final # "none" PROVE pg.at = "end" /\ x \in DOMAIN deploys' /\ pg.final = deploys'[x].status
    <3>1. pg.at = "end" /\ x \in DOMAIN deploys /\ pg.final = deploys[x].status /\ pg.final # "running"
      BY <2>2, <2>3, <2>4 DEF ToldSo
    <3>2. x # d => deploys'[x] = deploys[x]
      BY <3>1
    <3> QED BY <1>2, <3>1, <3>2
  <2> QED BY <2>1, <2>3, <2>4 DEF ToldSo
<1> QED BY <1>4, <1>5 DEF WizardsTold

LEMMA RunsTellSo ==
  ASSUME NEW c, Deploy(c)!DeployAssumption, EndIsKnown(c), DeployTold(c), NEW d \in DOMAIN deploys, Deploy(c)!Run(d)
  PROVE  RunsTell(c)' /\ WizardsTold(c)'
<1>1. /\ deploys \in Seq(DeployRow(c)) /\ Len(deploys) <= c.MaxDeploys /\ c.MaxDeploys \in Nat
      /\ workers \in [Deploy(c)!Id -> PacedWorker(c)] /\ done \in [Deploy(c)!Id -> SUBSET (1 .. c.Steps)]
      /\ c.Steps \in Nat /\ c.Steps >= 2
  BY DEF DeployTold, DeployKept, DeployTyped, Deploy!DeployAssumption
<1>2. d \in Deploy(c)!Id /\ DOMAIN deploys \subseteq Deploy(c)!Id
  BY <1>1 DEF Deploy!Id
<1>3. PICK wk, entry, steps : wk = workers[d] /\ entry = deploys[d] /\ steps = done[d]
  OBVIOUS
<1>4. /\ wk \in PacedWorker(c) /\ DOMAIN wk = {"at", "events"} /\ wk.events \in Nat
      /\ entry \in DeployRow(c) /\ DOMAIN entry = {"symbol", "status", "lastStep"}
  <2>1. wk \in PacedWorker(c) /\ entry \in DeployRow(c)
    BY <1>1, <1>2, <1>3
  <2> QED BY <2>1 DEF PacedWorker, DeployRow
<1>5. PICK m \in 0 .. c.Steps : Paced(c, wk, m)
  BY <1>2, <1>3 DEF DeployTold, DeployKept, RunsPaced
<1>6. Tells(c, entry.status, wk, steps, rotated)
  BY <1>2, <1>3 DEF DeployTold, RunsTell
<1>7. deploys = [deploys EXCEPT ![d] = entry] /\ done = [done EXCEPT ![d] = steps]
  BY <1>1, <1>2, <1>3
<1>8. pages' = pages /\ rotated' = rotated
  BY DEF Deploy!Run, Deploy!Refuse, Deploy!Begin, Deploy!Send, Deploy!Mined, Deploy!WaitFails, Deploy!Succeed, Deploy!Fail, Deploy!End
<1>9. ~ Deploy(c)!Fault("wait") /\ ~ Deploy(c)!Fault("database")
  BY DEF EndIsKnown, Deploy!Fault
<1>10. ASSUME NEW at, Deploy(c)!Publish(d, at)
       PROVE  \E v : v.at = at /\ v.events = wk.events + 1 /\ workers' = [workers EXCEPT ![d] = v]
  <2>1. PICK u, v : u = [wk EXCEPT !.at = at] /\ v = [u EXCEPT !.events = wk.events + 1]
    OBVIOUS
  <2>2. u.events = wk.events /\ v.at = at /\ v.events = wk.events + 1
    BY <1>4, <2>1
  <2>3. workers' = [workers EXCEPT ![d].at = at, ![d].events = @ + 1]
    BY <1>10 DEF Deploy!Publish
  <2>4. workers' = [workers EXCEPT ![d] = v]
    BY <1>1, <1>2, <1>3, <2>1, <2>2, <2>3
  <2> QED BY <2>2, <2>4
<1>11. ASSUME NEW at, workers' = [workers EXCEPT ![d].at = at]
       PROVE  \E v : v.at = at /\ v.events = wk.events /\ workers' = [workers EXCEPT ![d] = v]
  <2>1. PICK v : v = [wk EXCEPT !.at = at]
    OBVIOUS
  <2>2. v.at = at /\ v.events = wk.events
    BY <1>4, <2>1
  <2> QED BY <1>3, <1>11, <2>1, <2>2
<1>12. CASE Deploy(c)!Begin(d)
  <2>1. wk.at = "next" /\ wk.events < 3 * c.Steps /\ Deploy(c)!Publish(d, "sending") /\ done' = done
        /\ deploys' = [deploys EXCEPT ![d].lastStep = Deploy(c)!Step(wk.events + 1)]
    BY <1>3, <1>9, <1>12 DEF Deploy!Begin
  <2>2. PICK v : v.at = "sending" /\ workers' = [workers EXCEPT ![d] = v]
    BY <1>10, <2>1
  <2>3. PICK new : new = [entry EXCEPT !.lastStep = Deploy(c)!Step(wk.events + 1)]
    OBVIOUS
  <2>4. deploys' = [deploys EXCEPT ![d] = new] /\ new.status = entry.status
    BY <1>3, <1>4, <2>1, <2>3
  <2>5. Tells(c, new.status, v, steps, rotated)
    BY <1>4, <1>6, <2>1, <2>2, <2>4 DEF Tells
  <2> QED BY <1>3, <1>7, <1>8, <2>1, <2>2, <2>4, <2>5, RunTells
<1>13. CASE Deploy(c)!Send(d)
  <2>1. wk.at = "sending"
    BY <1>3, <1>13 DEF Deploy!Send
  <2>2. UNCHANGED <<deploys, done>>
    BY <1>13 DEF Deploy!Send, Deploy!Throws, Deploy!Move
  <2>3. CASE Deploy(c)!Publish(d, "waiting")
    <3>1. PICK v : v.at = "waiting" /\ v.events = wk.events + 1 /\ workers' = [workers EXCEPT ![d] = v]
      BY <1>10, <2>3
    <3>2. Tells(c, entry.status, v, steps, rotated)
      BY <1>6, <2>1, <3>1 DEF Tells
    <3> QED BY <1>3, <1>7, <1>8, <2>2, <3>1, <3>2, RunTells
  <2>4. CASE Deploy(c)!Throws(d)
    <3>1. workers' = [workers EXCEPT ![d].at = "failing"]
      BY <2>4 DEF Deploy!Throws, Deploy!Move
    <3>2. PICK v : v.at = "failing" /\ v.events = wk.events /\ workers' = [workers EXCEPT ![d] = v]
      BY <1>11, <3>1
    <3>3. Tells(c, entry.status, v, steps, rotated)
      BY <1>6, <2>1, <3>2 DEF Tells
    <3> QED BY <1>3, <1>7, <1>8, <2>2, <3>2, <3>3, RunTells
  <2> QED BY <1>13, <2>3, <2>4 DEF Deploy!Send
<1>14. CASE Deploy(c)!Mined(d)
  <2>1. wk.at = "waiting" /\ Deploy(c)!Publish(d, "next") /\ deploys' = deploys
        /\ done' = [done EXCEPT ![d] = done[d] \cup ({Deploy(c)!Doing(d)} \ rotated)]
    BY <1>3, <1>14 DEF Deploy!Mined, Deploy!Unheeded, Deploy!TakesEffect
  <2>2. wk.events = 3 * m + 2 /\ m < c.Steps /\ m \in Nat
    BY <1>1, <1>5, <2>1 DEF Paced
  <2>3. Deploy(c)!Doing(d) = m + 1
    BY <1>3, <2>2 DEF Deploy!Doing, Deploy!Step
  <2>4. PICK v : v.at = "next" /\ v.events = 3 * (m + 1) /\ workers' = [workers EXCEPT ![d] = v]
    <3>1. PICK u : u.at = "next" /\ u.events = wk.events + 1 /\ workers' = [workers EXCEPT ![d] = u]
      BY <1>10, <2>1
    <3>2. wk.events + 1 = 3 * (m + 1)
      BY <2>2
    <3> QED BY <3>1, <3>2
  <2>5. PICK new : new = steps \cup ({m + 1} \ rotated)
    OBVIOUS
  <2>6. done' = [done EXCEPT ![d] = new]
    BY <1>3, <2>1, <2>3, <2>5
  <2>7. entry.status = "running" /\ c.Steps \notin steps
    BY <1>6, <2>1 DEF Tells
  <2>8. IF v.events = 3 * c.Steps THEN c.Steps \in new \cup rotated ELSE c.Steps \notin new
    <3>1. PICK n \in Nat : n = c.Steps
      BY <1>1
    <3>2. 3 * (m + 1) = 3 * n <=> m + 1 = n
      BY <2>2
    <3> QED BY <2>4, <2>5, <2>7, <3>1, <3>2
  <2>9. Tells(c, entry.status, v, new, rotated)
    BY <2>4, <2>7, <2>8 DEF Tells
  <2> QED BY <1>3, <1>7, <1>8, <2>1, <2>4, <2>6, <2>9, RunTells
<1>15. CASE Deploy(c)!WaitFails(d)
  BY <1>9, <1>15 DEF Deploy!WaitFails
<1>16. ASSUME NEW status \in {"succeeded", "failed"}, Deploy(c)!Finalized(d, status), entry.status = "running",
              status = "succeeded" => c.Steps \in steps \cup rotated, status = "failed" => c.Steps \notin steps
       PROVE  RunsTell(c)' /\ WizardsTold(c)'
  <2>1. PICK last : last = IF status = "succeeded" THEN c.Steps ELSE entry.lastStep
    OBVIOUS
  <2>2. PICK mid, new : mid = [entry EXCEPT !.status = status] /\ new = [mid EXCEPT !.lastStep = last]
    OBVIOUS
  <2>3. mid.lastStep = entry.lastStep /\ new.status = status
    BY <1>4, <2>2
  <2>4. deploys' = [deploys EXCEPT ![d] = new]
    <3>1. deploys' = [deploys EXCEPT ![d].status = status,
                                ![d].lastStep = IF status = "succeeded" THEN c.Steps ELSE @]
      BY <1>16 DEF Deploy!Finalized
    <3> QED BY <1>1, <1>3, <2>1, <2>2, <2>3, <3>1
  <2>5. PICK v : v.at = "closing" /\ workers' = [workers EXCEPT ![d] = v]
    BY <1>11, <1>16 DEF Deploy!Finalized
  <2>6. done' = done
    BY <1>16 DEF Deploy!Finalized
  <2>7. Tells(c, new.status, v, steps, rotated)
    BY <1>16, <2>3, <2>5 DEF Tells
  <2> QED BY <1>3, <1>7, <1>8, <1>16, <2>4, <2>5, <2>6, <2>7, RunTells
<1>17. CASE Deploy(c)!Succeed(d)
  <2>1. wk.at = "next" /\ wk.events = 3 * c.Steps /\ Deploy(c)!Finalized(d, "succeeded")
    BY <1>3, <1>9, <1>17 DEF Deploy!Succeed
  <2>2. entry.status = "running" /\ c.Steps \in steps \cup rotated
    BY <1>6, <2>1 DEF Tells
  <2> QED BY <1>16, <2>1, <2>2
<1>18. CASE Deploy(c)!Fail(d)
  <2>1. wk.at = "failing" /\ Deploy(c)!Finalized(d, "failed")
    BY <1>3, <1>9, <1>18 DEF Deploy!Fail
  <2>2. entry.status = "running" /\ c.Steps \notin steps
    BY <1>6, <2>1 DEF Tells
  <2> QED BY <1>16, <2>1, <2>2
<1>19. CASE Deploy(c)!End(d)
  <2>1. wk.at = "closing" /\ workers' = [workers EXCEPT ![d].at = "ended"] /\ UNCHANGED <<deploys, done>>
    BY <1>3, <1>19 DEF Deploy!End, Deploy!Move
  <2>2. PICK v : v.at = "ended" /\ workers' = [workers EXCEPT ![d] = v]
    BY <1>11, <2>1
  <2>3. Tells(c, entry.status, v, steps, rotated)
    BY <1>6, <2>2 DEF Tells
  <2> QED BY <1>3, <1>7, <1>8, <2>1, <2>2, <2>3, RunTells
<1>20. CASE Deploy(c)!Refuse(d)
  <2>1. wk.at = "next" /\ wk.events = 0 /\ Deploy(c)!Move(d, "failing")
    BY <1>3, <1>20 DEF Deploy!Refuse
  <2>2. workers' = [workers EXCEPT ![d].at = "failing"] /\ UNCHANGED <<deploys, done>>
    BY <2>1 DEF Deploy!Move
  <2>3. PICK v : v.at = "failing" /\ workers' = [workers EXCEPT ![d] = v]
    BY <1>11, <2>2
  <2>4. c.Steps \notin steps /\ entry.status = "running"
    BY <1>1, <1>6, <2>1 DEF Tells
  <2>5. Tells(c, entry.status, v, steps, rotated)
    BY <1>6, <2>3, <2>4 DEF Tells
  <2> QED BY <1>3, <1>7, <1>8, <2>2, <2>3, <2>5, RunTells
<1> QED BY <1>12, <1>13, <1>14, <1>15, <1>17, <1>18, <1>19, <1>20 DEF Deploy!Run

\* A page that moves has not been told yet, and is told what the row says.
LEMMA WizardToldSo ==
  ASSUME NEW c, Deploy(c)!DeployAssumption, DeployTold(c), NEW p \in c.Pages,
         Deploy(c)!Check(p) \/ Deploy(c)!View(p) \/ Deploy(c)!Reload(p) \/ Deploy(c)!StreamDrops(p)
  PROVE  RunsTell(c)' /\ WizardsTold(c)'
<1>1. UNCHANGED <<deploys, workers, done, rotated>>
  BY DEF Deploy!Check, Deploy!View, Deploy!Reload, Deploy!StreamDrops, Deploy!Reattach, Deploy!Poll, Deploy!Look,
         Deploy!Subscribe, Deploy!Hear, Deploy!Page
<1>2. RunsTell(c)'
  BY <1>1 DEF DeployTold, RunsTell, Tells, Deploy!Id
<1>3. PICK pg : pg = pages[p]
  OBVIOUS
<1>4. /\ DOMAIN pg = {"at", "symbol", "deploy", "shown", "final", "heard"} /\ DOMAIN pages = c.Pages
      /\ pg.at \in {"loaded", "lost", "looked", "stream"} => pg.deploy \in DOMAIN deploys
      /\ pg.at # "end" => pg.final = "none"
  BY <1>3 DEF DeployTold, DeployKept, WizardsFine, WizardFine, WizardsTold, ToldSo
<1>5. PICK st : st = deploys[pg.deploy].status
  OBVIOUS
<1>6. \E new : /\ pages' = [pages EXCEPT ![p] = new]
               /\ new.final = "none" \/ (pg.at # "end" /\ new.at = "end" /\ new.deploy = pg.deploy
                                           /\ pg.deploy \in DOMAIN deploys /\ new.final = st)
  <2>1. CASE Deploy(c)!Check(p)
    <3>1. pg.at = "form" /\ pages' = [pages EXCEPT ![p] = [pg EXCEPT !.at = "checked"]]
      BY <1>3, <2>1 DEF Deploy!Check
    <3>2. [pg EXCEPT !.at = "checked"].final = "none"
      BY <1>4, <3>1
    <3> QED BY <3>1, <3>2
  <2>2. CASE Deploy(c)!Reload(p)
    <3>1. /\ pg.at # "end"
          /\ pages' = [pages EXCEPT ![p] = [pg EXCEPT !.at = "loaded", !.shown = Deploy(c)!Blank, !.heard = 0]]
      BY <1>3, <2>2 DEF Deploy!Reload, Deploy!Page
    <3>2. [pg EXCEPT !.at = "loaded", !.shown = Deploy(c)!Blank, !.heard = 0].final = "none"
      BY <1>4, <3>1
    <3> QED BY <3>1, <3>2
  <2>3. CASE Deploy(c)!StreamDrops(p)
    <3>1. pg.at # "end" /\ pages' = [pages EXCEPT ![p] = [pg EXCEPT !.at = "lost"]]
      BY <1>3, <2>3 DEF Deploy!StreamDrops, Deploy!Page
    <3>2. [pg EXCEPT !.at = "lost"].final = "none"
      BY <1>4, <3>1
    <3> QED BY <3>1, <3>2
  <2>4. CASE Deploy(c)!Reattach(p)
    <3>1. PICK snap : snap = [pg EXCEPT !.shown = Deploy(c)!Snapshot(pg.deploy)]
      OBVIOUS
    <3>2. DOMAIN snap = DOMAIN pg /\ snap.final = pg.final /\ snap.deploy = pg.deploy /\ pg.at = "loaded"
      BY <1>3, <1>4, <2>4, <3>1 DEF Deploy!Reattach
    <3>3. \/ pages' = [pages EXCEPT ![p] = [snap EXCEPT !.at = "lost"]]
          \/ pages' = [pages EXCEPT ![p] = [snap EXCEPT !.at = "end", !.final = st]]
          \/ pages' = [pages EXCEPT ![p] = [Deploy(c)!Away EXCEPT !.symbol = pg.symbol]]
      BY <1>3, <1>5, <2>4, <3>1 DEF Deploy!Reattach, Deploy!Page
    <3>4. [snap EXCEPT !.at = "lost"].final = "none" /\ [Deploy(c)!Away EXCEPT !.symbol = pg.symbol].final = "none"
      BY <1>4, <3>2 DEF Deploy!Away
    <3>5. PICK end : end = [snap EXCEPT !.at = "end", !.final = st]
      OBVIOUS
    <3>6. end.at = "end" /\ end.final = st /\ end.deploy = pg.deploy /\ pg.deploy \in DOMAIN deploys
      BY <1>4, <3>2, <3>5
    <3> QED BY <3>2, <3>3, <3>4, <3>5, <3>6
  <2>5. PICK told : told = [pg EXCEPT !.at = "end", !.final = st]
    OBVIOUS
  <2>6. DOMAIN told = DOMAIN pg /\ told.at = "end" /\ told.final = st /\ told.deploy = pg.deploy
    BY <1>4, <2>5
  <2>7. CASE Deploy(c)!Poll(p)
    <3>1. PICK end : end = [told EXCEPT !.shown = Deploy(c)!Snapshot(pg.deploy)]
      OBVIOUS
    <3>2. pg.at = "lost" /\ (pages' = [pages EXCEPT ![p] = end] \/ pages' = [pages EXCEPT ![p] = pg])
      BY <1>3, <1>5, <2>5, <2>7, <3>1 DEF Deploy!Poll, Deploy!Page, Deploy!Told
    <3>3. end.at = "end" /\ end.final = st /\ end.deploy = pg.deploy /\ pg.deploy \in DOMAIN deploys
      BY <1>4, <2>6, <3>1, <3>2
    <3>4. pg.final = "none"
      BY <1>4, <3>2
    <3> QED BY <3>2, <3>3, <3>4
  <2>8. CASE Deploy(c)!Look(p)
    <3>1. /\ pg.at = "lost"
          /\ \/ pages' = [pages EXCEPT ![p] = told] \/ pages' = [pages EXCEPT ![p] = [pg EXCEPT !.at = "looked"]]
      BY <1>3, <1>5, <2>5, <2>8 DEF Deploy!Look, Deploy!Page, Deploy!Told
    <3>2. [pg EXCEPT !.at = "looked"].final = "none" /\ pg.deploy \in DOMAIN deploys
      BY <1>4, <3>1
    <3> QED BY <2>6, <3>1, <3>2
  <2>9. CASE Deploy(c)!Subscribe(p)
    <3>1. /\ pg.at = "looked"
          /\ \E n : pages' = [pages EXCEPT ![p] = [pg EXCEPT !.at = "stream", !.heard = n]]
      BY <1>3, <2>9 DEF Deploy!Subscribe, Deploy!Page
    <3>2. PICK n : pages' = [pages EXCEPT ![p] = [pg EXCEPT !.at = "stream", !.heard = n]]
      BY <3>1
    <3>3. [pg EXCEPT !.at = "stream", !.heard = n].final = "none"
      BY <1>4, <3>1
    <3> QED BY <3>2, <3>3
  <2>10. CASE Deploy(c)!Hear(p)
    <3>1. PICK n : n = pg.heard + 1
      OBVIOUS
    <3>2. /\ pg.at = "stream"
          /\ \/ pages' = [pages EXCEPT ![p] = [pg EXCEPT !.heard = n, !.shown[Deploy(c)!Step(n)] = Deploy(c)!Kind(n)]]
             \/ pages' = [pages EXCEPT ![p] = [told EXCEPT !.heard = n]]
      BY <1>3, <1>5, <2>5, <2>10, <3>1 DEF Deploy!Hear, Deploy!Page, Deploy!Told
    <3>3. PICK heard, end : /\ heard = [pg EXCEPT !.heard = n, !.shown[Deploy(c)!Step(n)] = Deploy(c)!Kind(n)]
                            /\ end = [told EXCEPT !.heard = n]
      OBVIOUS
    <3>4. heard.final = "none"
      BY <1>4, <3>2, <3>3
    <3>5. end.at = "end" /\ end.final = st /\ end.deploy = pg.deploy /\ pg.deploy \in DOMAIN deploys
      BY <1>4, <2>6, <3>2, <3>3
    <3> QED BY <3>2, <3>3, <3>4, <3>5
  <2> QED BY <2>1, <2>2, <2>3, <2>4, <2>7, <2>8, <2>9, <2>10 DEF Deploy!View
<1>7. PICK new : /\ pages' = [pages EXCEPT ![p] = new]
                 /\ new.final = "none" \/ (pg.at # "end" /\ new.at = "end" /\ new.deploy = pg.deploy
                                             /\ pg.deploy \in DOMAIN deploys /\ new.final = st)
  BY <1>6
<1>8. ToldSo(new)
  BY <1>5, <1>7 DEF ToldSo
<1>9. ASSUME NEW x \in c.Pages PROVE ToldSo(pages[x])'
  <2>1. pages'[x] = IF x = p THEN new ELSE pages[x]
    BY <1>4, <1>7
  <2>2. PICK nx : nx = pages'[x]
    OBVIOUS
  <2>3. ToldSo(nx)
    BY <1>8, <2>1, <2>2 DEF DeployTold, WizardsTold
  <2> QED BY <1>1, <2>2, <2>3 DEF ToldSo
<1> QED BY <1>2, <1>9 DEF WizardsTold

LEMMA StartTellsNone ==
  ASSUME NEW c, Deploy(c)!DeployAssumption, DeployTold(c), NEW p \in c.Pages, Deploy(c)!Start(p)
  PROVE  RunsTell(c)' /\ WizardsTold(c)'
<1>1. PICK d, pg : d = Len(deploys) + 1 /\ pg = pages[p]
  OBVIOUS
<1>2. PICK entry : entry = [symbol |-> pg.symbol, status |-> "running", lastStep |-> 0]
  OBVIOUS
<1>3. /\ pg.at = "checked" /\ d \in Deploy(c)!Id /\ UNCHANGED <<done, rotated>>
      /\ deploys' = Append(deploys, entry) /\ workers' = [workers EXCEPT ![d].at = "next"]
      /\ \/ pages' = [pages EXCEPT ![p] = [pg EXCEPT !.at = "lost", !.deploy = d]]
         \/ pages' = [pages EXCEPT ![p] = [pg EXCEPT !.at = "form"]]
  BY <1>1, <1>2 DEF Deploy!Start
<1>4. /\ deploys \in Seq(DeployRow(c)) /\ Len(deploys) \in Nat /\ DOMAIN deploys = 1 .. Len(deploys)
      /\ workers \in [Deploy(c)!Id -> PacedWorker(c)] /\ c.Steps \in Nat /\ c.Steps >= 2
  BY DEF DeployTold, DeployKept, DeployTyped, Deploy!DeployAssumption
<1>5. d \notin DOMAIN deploys /\ DOMAIN deploys' = 1 .. d /\ deploys'[d] = entry
      /\ \A x \in DOMAIN deploys : x \in DOMAIN deploys' /\ deploys'[x] = deploys[x]
  BY <1>1, <1>3, <1>4
<1>6. workers[d].at = "none" /\ workers[d].events = 0 /\ DOMAIN workers[d] = {"at", "events"}
  <2>1. workers[d] \in PacedWorker(c)
    BY <1>3, <1>4
  <2>2. workers[d].at = "none" /\ \E m \in 0 .. c.Steps : Paced(c, workers[d], m)
    BY <1>3, <1>5 DEF DeployTold, DeployKept, RunsPaced
  <2>3. workers[d].events = 0
    BY <2>2 DEF Paced
  <2> QED BY <2>1, <2>2, <2>3 DEF PacedWorker
<1>7. workers'[d].at = "next" /\ workers'[d].events = 0
  BY <1>3, <1>4, <1>6
<1>8. ASSUME NEW x \in Deploy(c)!Id
      PROVE  IF x \in DOMAIN deploys' THEN Tells(c, deploys'[x].status, workers'[x], done'[x], rotated')
             ELSE c.Steps \notin done'[x]
  <2>1. IF x \in DOMAIN deploys THEN Tells(c, deploys[x].status, workers[x], done[x], rotated) ELSE c.Steps \notin done[x]
    BY DEF DeployTold, RunsTell
  <2>2. CASE x = d
    <3>1. c.Steps \notin done'[d]
      BY <1>3, <1>5, <2>1, <2>2
    <3>2. Tells(c, "running", workers'[d], done'[d], rotated)
      BY <1>4, <1>7, <3>1 DEF Tells
    <3>3. deploys'[d].status = "running"
      BY <1>2, <1>5
    <3> QED BY <1>3, <2>2, <3>1, <3>2, <3>3
  <2>3. CASE x # d
    <3>1. workers'[x] = workers[x] /\ done'[x] = done[x] /\ (x \in DOMAIN deploys' <=> x \in DOMAIN deploys)
      BY <1>1, <1>3, <1>4, <1>5, <2>3 DEF Deploy!Id
    <3> QED BY <1>3, <1>5, <2>1, <3>1
  <2> QED BY <2>2, <2>3
<1>9. RunsTell(c)'
  BY <1>8 DEF RunsTell, Tells, Deploy!Id
<1>10. ASSUME NEW x \in c.Pages PROVE ToldSo(pages[x])'
  <2>1. DOMAIN pages = c.Pages /\ DOMAIN pg = {"at", "symbol", "deploy", "shown", "final", "heard"} /\ pg.final = "none"
    BY <1>1, <1>3 DEF DeployTold, DeployKept, WizardsFine, WizardFine, WizardsTold, ToldSo
  <2>2. CASE x = p
    <3>1. pages'[x].final = "none"
      BY <1>3, <2>1, <2>2
    <3> QED BY <3>1 DEF ToldSo
  <2>3. CASE x # p
    <3>1. PICK other, e : other = pages[x] /\ e = pages[x].deploy
      OBVIOUS
    <3>2. pages'[x] = other
      BY <1>3, <2>1, <2>3, <3>1
    <3>3. ToldSo(other)
      BY <3>1 DEF DeployTold, WizardsTold
    <3> QED BY <1>5, <3>1, <3>2, <3>3 DEF ToldSo
  <2> QED BY <2>2, <2>3
<1> QED BY <1>9, <1>10 DEF WizardsTold

LEMMA CrashTellsNone ==
  ASSUME NEW c, Deploy(c)!DeployAssumption, DeployTold(c), Deploy(c)!Crash
  PROVE  RunsTell(c)' /\ WizardsTold(c)'
<1>1. UNCHANGED <<deploys, done, rotated>>
  BY DEF Deploy!Crash
<1>2. ASSUME NEW x \in Deploy(c)!Id PROVE workers'[x].at \in {"none", "ended", "dead"}
  <2>1. workers \in [Deploy(c)!Id -> PacedWorker(c)]
    BY DEF DeployTold, DeployKept, DeployTyped
  <2>2. PICK wk, at : wk = workers[x] /\ at = IF wk.at \in {"none", "ended"} THEN wk.at ELSE "dead"
    OBVIOUS
  <2>3. workers'[x] = [wk EXCEPT !.at = at]
    BY <2>2 DEF Deploy!Crash
  <2>4. "at" \in DOMAIN wk
    <3>1. wk \in PacedWorker(c)
      BY <2>1, <2>2
    <3> QED BY <3>1 DEF PacedWorker
  <2> QED BY <2>2, <2>3, <2>4
<1>3. ASSUME NEW x \in Deploy(c)!Id
      PROVE  IF x \in DOMAIN deploys' THEN Tells(c, deploys'[x].status, workers'[x], done'[x], rotated')
             ELSE c.Steps \notin done'[x]
  <2>1. IF x \in DOMAIN deploys THEN Tells(c, deploys[x].status, workers[x], done[x], rotated) ELSE c.Steps \notin done[x]
    BY DEF DeployTold, RunsTell
  <2> QED BY <1>1, <1>2, <2>1 DEF Tells
<1>4. RunsTell(c)'
  BY <1>3 DEF RunsTell, Tells, Deploy!Id
<1>5. ASSUME NEW p \in c.Pages PROVE ToldSo(pages[p])'
  <2>1. PICK pg, at : pg = pages[p] /\ at = IF pg.at = "checked" THEN "form"
                                            ELSE IF pg.at \in {"looked", "stream"} THEN "lost" ELSE pg.at
    OBVIOUS
  <2>2. pages'[p] = [pg EXCEPT !.at = at]
    BY <2>1 DEF Deploy!Crash
  <2>3. DOMAIN pg = {"at", "symbol", "deploy", "shown", "final", "heard"} /\ ToldSo(pg)
    BY <2>1 DEF DeployTold, DeployKept, WizardsFine, WizardFine, WizardsTold
  <2>4. pages'[p].final = pg.final /\ pages'[p].deploy = pg.deploy /\ pages'[p].at = at
    BY <2>2, <2>3
  <2>5. PICK nx : nx = pages'[p]
    OBVIOUS
  <2>6. ToldSo(nx)
    BY <2>1, <2>3, <2>4, <2>5 DEF ToldSo
  <2> QED BY <1>1, <2>5, <2>6 DEF ToldSo
<1> QED BY <1>4, <1>5 DEF WizardsTold

LEMMA DeployToldSteps ==
  ASSUME NEW c, Deploy(c)!DeployAssumption, EndIsKnown(c), DeployTold(c), Deploy(c)!Next
  PROVE  DeployTold(c)'
<1>1. DeployKept(c)'
  BY DeployKeptSteps DEF DeployTold
<1>2. ASSUME NEW p \in c.Pages, Deploy(c)!Check(p) \/ Deploy(c)!View(p) \/ Deploy(c)!Reload(p) \/ Deploy(c)!StreamDrops(p)
      PROVE  RunsTell(c)' /\ WizardsTold(c)'
  BY <1>2, WizardToldSo
<1>3. ASSUME NEW p \in c.Pages, Deploy(c)!Start(p) PROVE RunsTell(c)' /\ WizardsTold(c)'
  BY <1>3, StartTellsNone
<1>4. ASSUME NEW d \in DOMAIN deploys, Deploy(c)!Run(d) PROVE RunsTell(c)' /\ WizardsTold(c)'
  BY <1>4, RunsTellSo
<1>5. ASSUME NEW d \in DOMAIN deploys, Deploy(c)!Cleanup(d) PROVE RunsTell(c)' /\ WizardsTold(c)'
  <2>1. UNCHANGED <<deploys, workers, done, rotated, pages>>
    BY <1>5 DEF Deploy!Cleanup
  <2> QED BY <2>1 DEF DeployTold, RunsTell, Tells, WizardsTold, ToldSo, Deploy!Id
<1>6. ASSUME Deploy(c)!Crash PROVE RunsTell(c)' /\ WizardsTold(c)'
  BY <1>6, CrashTellsNone
<1>8. ASSUME NEW k, Deploy(c)!Rotate(k) PROVE RunsTell(c)' /\ WizardsTold(c)'
  <2>1. UNCHANGED <<deploys, workers, done, pages>> /\ rotated \subseteq rotated'
    BY <1>8 DEF Deploy!Rotate
  <2> QED BY <2>1 DEF DeployTold, RunsTell, Tells, WizardsTold, ToldSo, Deploy!Id
<1>7. RunsTell(c)' /\ WizardsTold(c)'
  BY <1>2, <1>3, <1>4, <1>5, <1>6, <1>8 DEF Deploy!Next
<1> QED BY <1>1, <1>7 DEF DeployTold

\* What is followed, or that no page has been told of an end.
WizardsInv(c) ==
  IF part = "deploy" THEN DeployTold(c) ELSE \A p \in c.Pages : pages[p].final = "none"

\* deploy-token.library.ts:416, events.ts:96: a page that is told its deployment
\* succeeded finds the token in the registry, or the registry was handed on, and
\* one that is told it failed does not find it, however streams drop and pages
\* are reloaded; unless a receipt is missed or a write of the end fails.
THEOREM EndToldTruthfully == ASSUME EndIsKnown(DeployOf) PROVE Services => []Deploy(DeployOf)!EndTruthful
<1>0. Deploy(DeployOf)!DeployAssumption
  BY ConstantsAssumption DEF ConstantsAssumption
<1>1. ServicesInit => WizardsInv(DeployOf)
  BY <1>0, DeployToldStarts DEF ServicesInit, WizardsInv
<1>2. WizardsInv(DeployOf) /\ [ServicesNext]_servicesVars => WizardsInv(DeployOf)'
  <2> SUFFICES ASSUME WizardsInv(DeployOf), [ServicesNext]_servicesVars PROVE WizardsInv(DeployOf)'
    OBVIOUS
  <2>1. part' = part
    BY DEF ServicesNext, Follows, servicesVars
  <2>2. ASSUME part = "deploy" PROVE DeployTold(DeployOf)'
    <3>1. DeployTold(DeployOf) /\ (Deploy(DeployOf)!Next \/ UNCHANGED <<deployVars, mishaps>>)
      BY <2>2 DEF WizardsInv, ServicesNext, Follows, servicesVars
    <3> QED BY <1>0, <3>1, DeployToldSteps, DeployToldStutters
  <2>3. ASSUME part # "deploy" PROVE (\A p \in DeployOf.Pages : pages[p].final = "none")'
    <3>1. pages' = pages
      BY <2>3 DEF ServicesNext, Follows, Rest, servicesVars, deployVars
    <3> QED BY <2>3, <3>1 DEF WizardsInv
  <2> QED BY <2>1, <2>2, <2>3 DEF WizardsInv
<1>3. WizardsInv(DeployOf) => Deploy(DeployOf)!EndTruthful
  BY <1>0, ToldIsTruthful DEF WizardsInv, Deploy!EndTruthful
<1> QED BY <1>1, <1>2, <1>3, PTL DEF Services

-----------------------------------------------------------------------------
(* What the checkout keeps within its set *)

\* Purchases that pages still hold are on the chain.
PagesKnow(c) == \A t \in c.Tabs : tabs[t].tx <= Len(purchases)

\* The tick looks at logs there are; what it has found is at one of them.
Scans(c) ==
  [active : BOOLEAN, next : Nat, to : Nat, clamp : 1 .. Checkout(c)!None, found : SUBSET c.Sessions]
ScanFits(c) ==
  /\ purchaseCursor \in 0 .. Checkout(c)!None
  /\ scan \in Scans(c)
  /\ scan.next <= scan.to + 1 /\ scan.to <= c.MaxPurchases
  /\ scan.active /\ scan.found # {} => scan.next <= scan.to
  /\ scan.active => scan.next >= 1

ChainFits(c) ==
  /\ Len(purchases) <= c.MaxPurchases
  /\ late \subseteq c.Sessions
  /\ mishaps \in 0 .. c.MaxFaults

CheckoutKept(c) == CheckoutInv(c) /\ PagesKnow(c) /\ ScanFits(c) /\ ChainFits(c)

LEMMA CheckoutExtremes ==
  ASSUME NEW c, NEW a \in Nat, NEW b \in Nat
  PROVE  /\ Checkout(c)!Min({a, b}) \in {a, b} /\ Checkout(c)!Min({a, b}) <= a /\ Checkout(c)!Min({a, b}) <= b
         /\ Checkout(c)!Max({a, b}) \in {a, b}
<1>1. \E x \in {a, b} : \A y \in {a, b} : x =< y
  <2>1. CASE a <= b
    BY <2>1
  <2>2. CASE b <= a
    BY <2>2
  <2> QED BY <2>1, <2>2
<1>2. \E x \in {a, b} : \A y \in {a, b} : x >= y
  <2>1. CASE a <= b
    BY <2>1
  <2>2. CASE b <= a
    BY <2>2
  <2> QED BY <2>1, <2>2
<1>3. Checkout(c)!Min({a, b}) \in {a, b} /\ \A y \in {a, b} : Checkout(c)!Min({a, b}) =< y
  BY <1>1 DEF Checkout!Min
<1>4. Checkout(c)!Max({a, b}) \in {a, b}
  BY <1>2 DEF Checkout!Max
<1> QED BY <1>3, <1>4

LEMMA CheckoutKeptStarts ==
  ASSUME NEW c, Checkout(c)!FaultsAssumption, Checkout(c)!Init PROVE CheckoutKept(c)
<1>1. CheckoutInv(c)
  BY CheckoutStarts
<1>2. c.MaxPurchases \in Nat /\ c.MaxFaults \in Nat
  BY DEF Checkout!FaultsAssumption
<1>3. /\ purchases = <<>> /\ late = {} /\ mishaps = 0 /\ purchaseCursor = Checkout(c)!None
      /\ scan = [active |-> FALSE, next |-> 0, to |-> 0, clamp |-> Checkout(c)!None, found |-> {}]
      /\ \A t \in c.Tabs : tabs[t].tx = 0
  BY DEF Checkout!Init, Checkout!Resting
<1>4. ScanFits(c)
  BY <1>2, <1>3 DEF ScanFits, Scans, Checkout!None
<1>5. PagesKnow(c) /\ ChainFits(c)
  BY <1>2, <1>3 DEF PagesKnow, ChainFits
<1> QED BY <1>1, <1>4, <1>5 DEF CheckoutKept

LEMMA CheckoutChainFits ==
  ASSUME NEW c, Checkout(c)!FaultsAssumption, CheckoutTyped(c), ChainFits(c), Checkout(c)!Next
  PROVE  ChainFits(c)' /\ Len(purchases') >= Len(purchases)
<1>1. /\ c.MaxPurchases \in Nat /\ c.MaxFaults \in Nat /\ tabs \in [c.Tabs -> PageRec(c)]
      /\ purchases \in Seq(c.Sessions) /\ Len(purchases) \in Nat
  BY DEF Checkout!FaultsAssumption, CheckoutTyped
<1>2. ASSUME UNCHANGED <<purchases, late>>, mishaps' = mishaps \/ \E kind : Checkout(c)!Fault(kind)
      PROVE  ChainFits(c)' /\ Len(purchases') >= Len(purchases)
  BY <1>1, <1>2 DEF ChainFits, Checkout!Fault
<1>3. ASSUME NEW t \in c.Tabs, Checkout(c)!Page(t) PROVE ChainFits(c)' /\ Len(purchases') >= Len(purchases)
  <2>1. CASE Checkout(c)!Purchase(t)
    <3>1. /\ UNCHANGED <<late, mishaps>>
          /\ UNCHANGED purchases \/ (Len(purchases) < c.MaxPurchases /\ purchases' = Append(purchases, tabs[t].of))
      BY <2>1 DEF Checkout!Purchase
    <3>2. tabs[t].of \in c.Sessions
      BY <1>1 DEF PageRec
    <3> QED BY <1>1, <3>1, <3>2 DEF ChainFits
  <2>2. CASE ~Checkout(c)!Purchase(t)
    BY <1>2, <1>3, <2>2 DEF Checkout!Page, Checkout!Observe, Checkout!Close, Checkout!ReportFunded, Checkout!ReportWrapped,
       Checkout!ReportPurchased, Checkout!Send
  <2> QED BY <2>1, <2>2
<1>4. ASSUME NEW h \in handlers, Checkout(c)!Handler(h) \/ Checkout(c)!Lose(h)
      PROVE ChainFits(c)' /\ Len(purchases') >= Len(purchases)
  BY <1>2, <1>4 DEF Checkout!Handler, Checkout!Check, Checkout!Store, Checkout!Finish, Checkout!Lose
<1>5. CASE Checkout(c)!Indexer \/ Checkout(c)!SettleFails \/ Checkout(c)!TickFails \/ Checkout(c)!Restart
  BY <1>2, <1>5 DEF Checkout!Indexer, Checkout!StartTick, Checkout!LookUp, Checkout!Settle, Checkout!EndTick,
     Checkout!SettleFails, Checkout!TickFails, Checkout!Restart
<1>6. ASSUME NEW s \in c.Sessions, Checkout(c)!Expire(s) PROVE ChainFits(c)' /\ Len(purchases') >= Len(purchases)
  BY <1>1, <1>6 DEF Checkout!Expire, ChainFits
<1> QED BY <1>3, <1>4, <1>5, <1>6 DEF Checkout!Next

LEMMA ScanStaysFit ==
  ASSUME NEW c, Checkout(c)!FaultsAssumption, CheckoutTyped(c), ChainFits(c), ScanFits(c), Checkout(c)!Next
  PROVE  ScanFits(c)'
<1>1. /\ c.MaxPurchases \in Nat /\ c.MaxRange \in Nat /\ c.MaxRange >= 1
      /\ Len(purchases) \in Nat /\ Len(purchases) <= c.MaxPurchases
      /\ Checkout(c)!None = c.MaxPurchases + 1
  BY DEF Checkout!FaultsAssumption, CheckoutTyped, ChainFits, Checkout!None
<1>2. /\ purchaseCursor \in 0 .. Checkout(c)!None /\ scan \in Scans(c)
      /\ scan.next \in Nat /\ scan.to \in Nat /\ scan.clamp \in 1 .. Checkout(c)!None /\ scan.found \subseteq c.Sessions
      /\ scan.next <= scan.to + 1 /\ scan.to <= c.MaxPurchases
      /\ scan.active /\ scan.found # {} => scan.next <= scan.to
      /\ scan.active => scan.next >= 1
  BY DEF ScanFits, Scans
<1>15. /\ purchaseCursor \in Nat /\ scan.clamp \in Nat /\ purchaseCursor + c.MaxRange \in Nat /\ scan.next + 1 \in Nat
       /\ Checkout(c)!None \in 0 .. Checkout(c)!None
  BY <1>1, <1>2
<1>3. CASE UNCHANGED <<purchaseCursor, scan>>
  BY <1>3 DEF ScanFits, Scans, Checkout!None
<1>4. ASSUME scan' = Checkout(c)!Resting, purchaseCursor' \in 0 .. Checkout(c)!None PROVE ScanFits(c)'
  <2>1. scan' = [active |-> FALSE, next |-> 0, to |-> 0, clamp |-> Checkout(c)!None, found |-> {}]
    BY <1>4 DEF Checkout!Resting
  <2>2. scan' \in Scans(c)
    BY <1>1, <2>1 DEF Scans
  <2> QED BY <1>1, <1>4, <2>1, <2>2 DEF ScanFits, Scans, Checkout!None
<1>5. ASSUME NEW n \in Nat, NEW k \in 1 .. Checkout(c)!None, NEW F \in SUBSET c.Sessions, UNCHANGED purchaseCursor,
             scan' = [scan EXCEPT !.found = F, !.next = n, !.clamp = k], n >= 1, n <= scan.to + 1,
             F # {} => n <= scan.to
      PROVE  ScanFits(c)'
  <2>1. /\ scan' \in Scans(c) /\ scan'.next = n /\ scan'.to = scan.to /\ scan'.found = F /\ scan'.active = scan.active
    BY <1>2, <1>5 DEF Scans
  <2> QED BY <1>1, <1>2, <1>5, <2>1 DEF ScanFits, Scans, Checkout!None
<1>6. ASSUME NEW F, NEW n
      PROVE  /\ [scan EXCEPT !.found = F] = [scan EXCEPT !.found = F, !.next = scan.next, !.clamp = scan.clamp]
             /\ [scan EXCEPT !.next = n] = [scan EXCEPT !.found = scan.found, !.next = n, !.clamp = scan.clamp]
             /\ [scan EXCEPT !.found = F, !.next = n] = [scan EXCEPT !.found = F, !.next = n, !.clamp = scan.clamp]
  BY <1>2 DEF Scans
<1>7. CASE Checkout(c)!StartTick
  <2>1. CASE UNCHANGED scan
    <3>1. purchaseCursor' \in 0 .. Checkout(c)!None
      BY <1>1, <1>2, <1>7 DEF Checkout!StartTick
    <3> QED BY <1>1, <1>2, <2>1, <3>1 DEF ScanFits, Scans, Checkout!None
  <2>2. CASE ~UNCHANGED scan
    <3> DEFINE to == Checkout(c)!Min({purchaseCursor + c.MaxRange, Len(purchases)})
    <3>1. /\ purchaseCursor < Len(purchases) /\ UNCHANGED purchaseCursor
          /\ scan' = [Checkout(c)!Resting EXCEPT !.active = TRUE, !.next = purchaseCursor + 1, !.to = to]
      BY <1>7, <2>2 DEF Checkout!StartTick
    <3>2. to \in {purchaseCursor + c.MaxRange, Len(purchases)} /\ to <= Len(purchases)
      BY <1>1, <1>15, CheckoutExtremes
    <3> HIDE DEF to
    <3>3. scan' = [active |-> TRUE, next |-> purchaseCursor + 1, to |-> to, clamp |-> Checkout(c)!None, found |-> {}]
      BY <3>1 DEF Checkout!Resting
    <3>4. to \in Nat /\ purchaseCursor + 1 <= to + 1 /\ purchaseCursor + 1 \in Nat /\ purchaseCursor + 1 >= 1
      BY <1>1, <1>2, <3>1, <3>2
    <3>5. scan' \in Scans(c)
      BY <1>1, <3>3, <3>4 DEF Scans
    <3> QED BY <1>1, <1>2, <3>1, <3>2, <3>3, <3>4, <3>5 DEF ScanFits, Scans, Checkout!None
  <2> QED BY <2>1, <2>2
<1>8. CASE Checkout(c)!LookUp
  <2>1. /\ scan.active /\ scan.found = {} /\ scan.next <= scan.to /\ UNCHANGED purchaseCursor
        /\ \/ scan' = [scan EXCEPT !.next = scan.next + 1]
           \/ scan' = [scan EXCEPT !.found = Checkout(c)!Recorded(scan.next)]
    BY <1>8 DEF Checkout!LookUp
  <2>2. Checkout(c)!Recorded(scan.next) \in SUBSET c.Sessions
    BY DEF Checkout!Recorded
  <2>3. CASE scan' = [scan EXCEPT !.next = scan.next + 1]
    <3>1. scan' = [scan EXCEPT !.found = scan.found, !.next = scan.next + 1, !.clamp = scan.clamp]
      BY <1>6, <2>3
    <3>2. scan.next + 1 >= 1 /\ scan.next + 1 <= scan.to + 1 /\ scan.found = {}
      BY <1>2, <2>1
    <3> QED BY <1>2, <1>5, <1>15, <2>1, <3>1, <3>2
  <2>4. CASE scan' = [scan EXCEPT !.found = Checkout(c)!Recorded(scan.next)]
    <3>1. scan' = [scan EXCEPT !.found = Checkout(c)!Recorded(scan.next), !.next = scan.next, !.clamp = scan.clamp]
      BY <1>6, <2>4
    <3> QED BY <1>2, <1>5, <2>1, <2>2, <3>1
  <2> QED BY <2>1, <2>3, <2>4
<1>9. CASE Checkout(c)!SettleFails \/ \E s \in c.Sessions : Checkout(c)!Settle(s)
  <2> DEFINE clamp == Checkout(c)!Min({scan.clamp, scan.next})
  <2>1. /\ scan.active /\ scan.found # {} /\ UNCHANGED purchaseCursor
        /\ scan' = Checkout(c)!Passed \/ scan' = Checkout(c)!Retried
    BY <1>9 DEF Checkout!Settle, Checkout!SettleFails
  <2>2. scan.next <= scan.to /\ scan.next >= 1
    BY <1>2, <2>1
  <2>3. clamp \in 1 .. Checkout(c)!None
    <3>1. clamp \in {scan.clamp, scan.next}
      BY <1>2, <1>15, CheckoutExtremes
    <3> QED BY <1>1, <1>2, <2>2, <3>1
  <2>4. Checkout(c)!Passed = [scan EXCEPT !.found = {}, !.next = scan.next + 1, !.clamp = scan.clamp]
    BY <1>6 DEF Checkout!Passed
  <2>5. Checkout(c)!Retried = [scan EXCEPT !.found = {}, !.next = scan.next + 1, !.clamp = clamp]
    BY <1>2, <2>4 DEF Checkout!Retried, Scans
  <2> HIDE DEF clamp
  <2>6. scan.next + 1 >= 1 /\ scan.next + 1 <= scan.to + 1 /\ {} \in SUBSET c.Sessions
    BY <1>2, <2>2
  <2>7. CASE scan' = Checkout(c)!Passed
    BY <1>2, <1>5, <1>15, <2>1, <2>4, <2>6, <2>7
  <2>8. CASE scan' = Checkout(c)!Retried
    BY <1>5, <1>15, <2>1, <2>3, <2>5, <2>6, <2>8
  <2> QED BY <2>1, <2>7, <2>8
<1>10. CASE Checkout(c)!TickFails \/ Checkout(c)!Restart
  <2>1. scan' = Checkout(c)!Resting /\ purchaseCursor' \in {purchaseCursor, Checkout(c)!None}
    BY <1>10 DEF Checkout!TickFails, Checkout!Restart
  <2> QED BY <1>2, <1>4, <1>15, <2>1
<1>11. CASE Checkout(c)!EndTick
  <2> DEFINE n == Checkout(c)!NextCursor(scan)
  <2>1. n \in 0 .. Checkout(c)!None
    BY <1>1, <1>2 DEF Checkout!NextCursor
  <2>2. purchaseCursor' = Checkout(c)!Max({purchaseCursor, n}) /\ scan' = Checkout(c)!Resting
    BY <1>11 DEF Checkout!EndTick
  <2> HIDE DEF n
  <2>3. purchaseCursor' \in {purchaseCursor, n}
    <3>1. n \in Nat
      BY <1>1, <2>1
    <3> QED BY <1>15, <2>2, <3>1, CheckoutExtremes
  <2> QED BY <1>2, <1>4, <2>1, <2>2, <2>3
<1>12. CASE \E t \in c.Tabs : Checkout(c)!Page(t)
  BY <1>3, <1>12 DEF Checkout!Page, Checkout!Observe, Checkout!Close, Checkout!ReportFunded, Checkout!ReportWrapped,
     Checkout!Purchase, Checkout!ReportPurchased, Checkout!Send
<1>13. CASE \E h \in handlers : Checkout(c)!Handler(h) \/ Checkout(c)!Lose(h)
  BY <1>3, <1>13 DEF Checkout!Handler, Checkout!Check, Checkout!Store, Checkout!Finish, Checkout!Lose
<1>14. CASE \E s \in c.Sessions : Checkout(c)!Expire(s)
  BY <1>3, <1>14 DEF Checkout!Expire
<1> QED BY <1>7, <1>8, <1>9, <1>10, <1>11, <1>12, <1>13, <1>14 DEF Checkout!Next, Checkout!Indexer

LEMMA PagesStayKnown ==
  ASSUME NEW c, Checkout(c)!FaultsAssumption, CheckoutTyped(c), CheckoutTyped(c)', PagesKnow(c), Checkout(c)!Next,
         Len(purchases') >= Len(purchases)
  PROVE  PagesKnow(c)'
<1>1. /\ tabs \in [c.Tabs -> PageRec(c)] /\ handlers \subseteq Request(c)
      /\ purchases \in Seq(c.Sessions) /\ Len(purchases) \in Nat /\ Len(purchases') \in Nat
      /\ \A t \in c.Tabs : tabs[t].tx <= Len(purchases) /\ tabs[t].tx \in Nat /\ tabs[t] \in PageRec(c)
  BY DEF CheckoutTyped, PagesKnow, PageRec
<1>2. ASSUME \A t \in c.Tabs : tabs'[t].tx \in {0, tabs[t].tx} PROVE PagesKnow(c)'
  BY <1>1, <1>2 DEF PagesKnow
<1>3. ASSUME NEW t \in c.Tabs, NEW r, tabs' = [tabs EXCEPT ![t] = r], r.tx \in {0, tabs[t].tx, Len(purchases')}
      PROVE  PagesKnow(c)'
  BY <1>1, <1>3 DEF PagesKnow
<1>4. ASSUME NEW t \in c.Tabs, NEW d, NEW e, NEW n
      PROVE  /\ [tabs[t] EXCEPT !.doing = d].tx = tabs[t].tx
             /\ [tabs[t] EXCEPT !.seen = e, !.doing = d].tx = tabs[t].tx
             /\ [tabs[t] EXCEPT !.doing = d, !.tx = n].tx = n
  BY <1>1 DEF PageRec
<1>5. ASSUME NEW t \in c.Tabs, Checkout(c)!Page(t) PROVE PagesKnow(c)'
  <2>1. CASE Checkout(c)!Observe(t)
    <3>1. PICK d : tabs' = [tabs EXCEPT ![t] = [tabs[t] EXCEPT !.seen = sessionStatus[tabs[t].of], !.doing = d]]
      BY <1>1, <2>1 DEF Checkout!Observe
    <3> QED BY <1>3, <1>4, <3>1
  <2>2. CASE Checkout(c)!Close(t)
    <3>1. tabs' = [tabs EXCEPT ![t] = [tabs[t] EXCEPT !.doing = "closed", !.tx = 0]]
      BY <1>1, <2>2 DEF Checkout!Close
    <3>2. [tabs[t] EXCEPT !.doing = "closed", !.tx = 0].tx = 0
      BY <1>1 DEF PageRec
    <3> QED BY <1>3, <3>1, <3>2
  <2>3. CASE Checkout(c)!ReportFunded(t) \/ Checkout(c)!ReportWrapped(t) \/ Checkout(c)!ReportPurchased(t)
    <3>1. PICK d : tabs' = [tabs EXCEPT ![t] = [tabs[t] EXCEPT !.doing = d]]
      BY <1>1, <2>3 DEF Checkout!ReportFunded, Checkout!ReportWrapped, Checkout!ReportPurchased, Checkout!Send
    <3> QED BY <1>3, <1>4, <3>1
  <2>4. CASE Checkout(c)!Purchase(t)
    <3>1. \/ /\ purchases' = Append(purchases, tabs[t].of)
             /\ tabs' = [tabs EXCEPT ![t] = [tabs[t] EXCEPT !.doing = "bought", !.tx = Len(purchases) + 1]]
          \/ tabs' = [tabs EXCEPT ![t] = [tabs[t] EXCEPT !.doing = "idle"]]
      BY <1>1, <2>4 DEF Checkout!Purchase
    <3>2. tabs[t].of \in c.Sessions
      BY <1>1 DEF PageRec
    <3>3. purchases' = Append(purchases, tabs[t].of) => Len(purchases') = Len(purchases) + 1
      BY <1>1, <3>2
    <3>4. /\ [tabs[t] EXCEPT !.doing = "bought", !.tx = Len(purchases) + 1].tx = Len(purchases) + 1
          /\ [tabs[t] EXCEPT !.doing = "idle"].tx = tabs[t].tx
      BY <1>1 DEF PageRec
    <3>5. CASE tabs' = [tabs EXCEPT ![t] = [tabs[t] EXCEPT !.doing = "idle"]]
      BY <1>3, <3>4, <3>5
    <3>6. CASE /\ purchases' = Append(purchases, tabs[t].of)
               /\ tabs' = [tabs EXCEPT ![t] = [tabs[t] EXCEPT !.doing = "bought", !.tx = Len(purchases) + 1]]
      BY <1>3, <3>3, <3>4, <3>6
    <3> QED BY <3>1, <3>5, <3>6
  <2> QED BY <1>5, <2>1, <2>2, <2>3, <2>4 DEF Checkout!Page
<1>6. ASSUME NEW h \in Request(c), NEW answer, NEW t \in c.Tabs
      PROVE  Checkout(c)!Answered(h, answer)[t].tx \in {0, tabs[t].tx}
  <2> DEFINE tx == IF h.to = "purchased" THEN 0 ELSE tabs[h.tab].tx
             page == [tabs[h.tab] EXCEPT !.doing = Checkout(c)!After(tabs[h.tab].doing, answer), !.tx = tx]
  <2>1. h.tab \in c.Tabs
    BY DEF Request
  <2>2. Checkout(c)!Answered(h, answer) = IF h.heard THEN [tabs EXCEPT ![h.tab] = page] ELSE tabs
    BY <1>1, <2>1 DEF Checkout!Answered
  <2>3. page.tx = tx
    BY <1>4, <2>1
  <2> HIDE DEF page
  <2> QED BY <1>1, <2>1, <2>2, <2>3
<1>7. ASSUME NEW p \in [c.Tabs -> PageRec(c)], NEW e \in Rows, NEW s, NEW t \in c.Tabs
      PROVE  Checkout(c)!Published(s, e, p)[t].tx = p[t].tx
  BY <1>7, PublishedPages
<1>8. ASSUME NEW h \in handlers, Checkout(c)!Handler(h) \/ Checkout(c)!Lose(h) PROVE PagesKnow(c)'
  <2>1. h \in Request(c) /\ h.to \in Rows
    BY <1>1 DEF Request, Rows
  <2>2. \/ UNCHANGED tabs \/ \E answer : tabs' = Checkout(c)!Answered(h, answer)
        \/ tabs' = Checkout(c)!Published(h.of, h.to, Checkout(c)!Answered(h, "ok"))
    BY <1>8 DEF Checkout!Handler, Checkout!Check, Checkout!Store, Checkout!Finish, Checkout!Lose, Checkout!Refuse
  <2>3. CASE UNCHANGED tabs
    BY <1>2, <2>3
  <2>4. CASE \E answer : tabs' = Checkout(c)!Answered(h, answer)
    BY <1>2, <1>6, <2>1, <2>4
  <2>5. CASE tabs' = Checkout(c)!Published(h.of, h.to, Checkout(c)!Answered(h, "ok"))
    <3>1. Checkout(c)!Answered(h, "ok") \in [c.Tabs -> PageRec(c)]
      BY <1>1, <2>1, AnsweredPages
    <3>2. \A t \in c.Tabs : tabs'[t].tx = Checkout(c)!Answered(h, "ok")[t].tx
      BY <1>7, <2>1, <2>5, <3>1
    <3> QED BY <1>2, <1>6, <2>1, <3>2
  <2> QED BY <2>2, <2>3, <2>4, <2>5
<1>9. CASE Checkout(c)!Indexer \/ Checkout(c)!SettleFails \/ Checkout(c)!TickFails
  <2>1. UNCHANGED tabs \/ \E s : tabs' = Checkout(c)!Published(s, "settled", tabs)
    BY <1>9 DEF Checkout!Indexer, Checkout!StartTick, Checkout!LookUp, Checkout!Settle, Checkout!EndTick,
       Checkout!SettleFails, Checkout!TickFails
  <2>2. "settled" \in Rows
    BY DEF Rows
  <2>3. CASE UNCHANGED tabs
    BY <1>2, <2>3
  <2>4. ASSUME NEW s, tabs' = Checkout(c)!Published(s, "settled", tabs) PROVE PagesKnow(c)'
    <3>1. \A t \in c.Tabs : tabs'[t].tx = tabs[t].tx
      BY <1>1, <1>7, <2>2, <2>4
    <3> QED BY <1>2, <3>1
  <2> QED BY <2>1, <2>3, <2>4
<1>10. CASE Checkout(c)!Restart
  <2>1. ASSUME NEW t \in c.Tabs PROVE tabs'[t].tx \in {0, tabs[t].tx}
    <3>1. \/ tabs'[t] = [tabs[t] EXCEPT !.doing = Checkout(c)!After(tabs[t].doing, "error"), !.tx = 0]
          \/ tabs'[t] = tabs[t]
      BY <1>10 DEF Checkout!Restart
    <3>2. \A d : [tabs[t] EXCEPT !.doing = d, !.tx = 0].tx = 0
      BY <1>1 DEF PageRec
    <3> QED BY <3>1, <3>2
  <2> QED BY <1>2, <2>1
<1>11. CASE \E s \in c.Sessions : Checkout(c)!Expire(s)
  BY <1>2, <1>11 DEF Checkout!Expire
<1> QED BY <1>5, <1>8, <1>9, <1>10, <1>11 DEF Checkout!Next

LEMMA CheckoutKeptSteps ==
  ASSUME NEW c, Checkout(c)!FaultsAssumption, CheckoutKept(c), Checkout(c)!Next PROVE CheckoutKept(c)'
<1>1. CheckoutInv(c)' /\ CheckoutTyped(c) /\ CheckoutTyped(c)'
  BY CheckoutSteps DEF CheckoutKept, CheckoutInv
<1>2. ChainFits(c)' /\ Len(purchases') >= Len(purchases)
  BY <1>1, CheckoutChainFits DEF CheckoutKept
<1>3. ScanFits(c)'
  BY <1>1, ScanStaysFit DEF CheckoutKept
<1>4. PagesKnow(c)'
  BY <1>1, <1>2, PagesStayKnown DEF CheckoutKept
<1> QED BY <1>1, <1>2, <1>3, <1>4 DEF CheckoutKept

LEMMA CheckoutKeptStutters ==
  ASSUME NEW c, CheckoutKept(c), UNCHANGED <<checkoutVars, mishaps>> PROVE CheckoutKept(c)'
<1>1. UNCHANGED <<sessionStatus, paidBy, late, tabs, handlers, purchases, purchaseCursor, scan, announced, mishaps>>
  BY DEF checkoutVars
<1>2. CheckoutInv(c)'
  BY <1>1, CheckoutStutters DEF CheckoutKept
<1> QED BY <1>1, <1>2 DEF CheckoutKept, PagesKnow, ScanFits, Scans, ChainFits, Checkout!None

LEMMA CheckoutIsTyped ==
  ASSUME NEW c, Checkout(c)!FaultsAssumption, CheckoutKept(c) PROVE Checkout(c)!TypeOK
<1>1. /\ c.MaxPurchases \in Nat /\ Len(purchases) \in Nat /\ Len(purchases) <= c.MaxPurchases
      /\ purchases \in Seq(c.Sessions) /\ Checkout(c)!Statuses = Rows /\ Checkout(c)!None = c.MaxPurchases + 1
      /\ CheckoutTyped(c) /\ CheckoutInv(c)
  BY EdgesAre DEF CheckoutKept, CheckoutInv, CheckoutTyped, Checkout!FaultsAssumption, ChainFits, Checkout!None
<1>2. \A tx, s : PaidFor(tx, s) => tx \in 0 .. c.MaxPurchases
  BY <1>1 DEF PaidFor
<1>3. paidBy \in [c.Sessions -> 0 .. c.MaxPurchases]
  <2>1. ASSUME NEW s \in c.Sessions PROVE paidBy[s] \in 0 .. c.MaxPurchases
    <3>1. RowPaid(s) /\ paidBy[s] \in Nat
      BY <1>1 DEF CheckoutInv, CheckoutTyped
    <3>2. CASE paidBy[s] = 0
      BY <1>1, <3>2
    <3>3. CASE paidBy[s] # 0
      BY <1>2, <3>1, <3>3 DEF RowPaid
    <3> QED BY <3>2, <3>3
  <2> QED BY <1>1, <2>1 DEF CheckoutTyped
<1>4. tabs \in [c.Tabs -> [of : c.Sessions, doing : Checkout(c)!Doing, seen : Rows, tx : 0 .. c.MaxPurchases]]
  <2>1. ASSUME NEW t \in c.Tabs
        PROVE  tabs[t] \in [of : c.Sessions, doing : Checkout(c)!Doing, seen : Rows, tx : 0 .. c.MaxPurchases]
    <3>1. tabs[t] \in PageRec(c) /\ tabs[t].tx <= Len(purchases)
      BY <1>1 DEF CheckoutKept, CheckoutTyped, PagesKnow
    <3>2. tabs[t].tx \in 0 .. c.MaxPurchases
      BY <1>1, <3>1 DEF PageRec
    <3> QED BY <3>1, <3>2 DEF PageRec, Checkout!Doing
  <2> QED BY <1>1, <2>1 DEF CheckoutTyped
<1>5. handlers \subseteq [tab : c.Tabs, of : c.Sessions, to : Checkout(c)!Reported, tx : 0 .. c.MaxPurchases,
                         at : {"sent", "checked", "stored"}, expected : Rows, heard : BOOLEAN]
  <2>1. ASSUME NEW h \in handlers
        PROVE  h \in [tab : c.Tabs, of : c.Sessions, to : Checkout(c)!Reported, tx : 0 .. c.MaxPurchases,
                     at : {"sent", "checked", "stored"}, expected : Rows, heard : BOOLEAN]
    <3>1. h \in Request(c) /\ RequestFine(c, h)
      BY <1>1 DEF CheckoutInv, CheckoutTyped
    <3>2. h.tx \in 0 .. c.MaxPurchases
      BY <1>1, <1>2, <3>1 DEF RequestFine
    <3> QED BY <3>1, <3>2 DEF Request, Checkout!Reported
  <2> QED BY <2>1
<1>6. scan \in [active : BOOLEAN, next : 0 .. Checkout(c)!None, to : 0 .. c.MaxPurchases,
               clamp : 0 .. Checkout(c)!None, found : SUBSET c.Sessions]
  <2>1. scan \in Scans(c) /\ scan.next <= scan.to + 1 /\ scan.to <= c.MaxPurchases
    BY DEF CheckoutKept, ScanFits
  <2>2. scan.next \in 0 .. Checkout(c)!None /\ scan.to \in 0 .. c.MaxPurchases /\ scan.clamp \in 0 .. Checkout(c)!None
    BY <1>1, <2>1 DEF Scans
  <2> QED BY <2>1, <2>2 DEF Scans
<1>7. /\ sessionStatus \in [c.Sessions -> Rows] /\ late \subseteq c.Sessions
      /\ purchaseCursor \in 0 .. Checkout(c)!None /\ announced \in [c.Sessions -> [Rows -> Nat]]
      /\ mishaps \in 0 .. c.MaxFaults
  BY <1>1 DEF CheckoutKept, CheckoutTyped, ScanFits, ChainFits
<1> QED BY <1>1, <1>3, <1>4, <1>5, <1>6, <1>7 DEF Checkout!TypeOK

-----------------------------------------------------------------------------
(* The agent's tiers, with the cron and without it *)

PolicySidesFit(c) ==
  /\ tier \in [Faces -> TierSet] /\ trail \in [Faces -> TierSet] /\ held \subseteq Faces
  /\ Len(tokens) <= c.MaxTokens /\ mishaps \in 0 .. c.MaxFaults

PolicySwept ==
  /\ sessionActive \in BOOLEAN /\ keyBought \in BOOLEAN
  /\ policySweep \subseteq Faces /\ breach \in {"none", "own", "kyc"}

PolicyKept(c) == PolicyTyped(c) /\ PolicySidesFit(c) /\ PolicySwept

LEMMA PolicyKeptStarts ==
  ASSUME NEW c, Policy(c)!PolicyAssumption, Policy(c)!Init PROVE PolicyKept(c)
<1>1. PolicyTyped(c) /\ tokens = <<>> /\ held = {} /\ mishaps = 0 /\ trail = tier /\ tier \in [Faces -> TierSet]
  BY PolicyStarts
<1>2. c.MaxTokens \in Nat /\ c.MaxFaults \in Nat
  BY DEF Policy!PolicyAssumption
<1>3. Len(tokens) = 0
  BY <1>1
<1>4. PolicySidesFit(c)
  BY <1>1, <1>2, <1>3 DEF PolicySidesFit
<1> QED BY <1>1, <1>4 DEF PolicyKept, PolicySwept, Policy!Init

LEMMA UserFits ==
  ASSUME NEW c, Policy(c)!PolicyAssumption, PolicyKept(c), NEW w, Policy(c)!User(w) PROVE PolicyKept(c)'
<1>1. Comes(c, w)
  BY UserComes DEF PolicyKept
<1>2. held' \subseteq held
  BY <1>1 DEF Comes
<1>3. PolicySidesFit(c)'
  BY <1>1, <1>2 DEF Comes, StillThere, PolicyKept, PolicySidesFit
<1>4. UNCHANGED <<sessionActive, policySweep, breach>> /\ keyBought' = FALSE
  BY DEF Policy!User, Policy!Request, Policy!Commit, Policy!Pause, Policy!Resume, Policy!Mint, Policy!Starts
<1> QED BY <1>1, <1>3, <1>4 DEF PolicyKept, PolicySwept, Comes

LEMMA TierWritten ==
  ASSUME NEW c, PolicyTyped(c), NEW w \in Policy(c)!Workers
  PROVE  job[w] \in JobSet /\ JobFine(job[w], DOMAIN tokens) /\ job[w].target \in TierSet /\ Policy(c)!Surface(job[w]) \in Faces
<1>1. job[w] \in JobSet /\ JobFine(job[w], DOMAIN tokens)
  BY DEF PolicyTyped
<1> QED BY <1>1, SurfaceIn DEF JobSet

LEMMA PolicyWorkFits ==
  ASSUME NEW c, Policy(c)!PolicyAssumption, PolicyKept(c), NEW w \in Policy(c)!Workers, Policy(c)!Step(w) PROVE PolicyKept(c)'
<1>0. PolicyTyped(c) /\ PolicySidesFit(c) /\ PolicySwept
  BY DEF PolicyKept
<1>1. CASE Policy(c)!Read(w)
  <2>1. ReadDoes(c, w)
    BY <1>0, <1>1, ReadIs
  <2>2. PolicySwept'
    BY <1>0, <1>1 DEF PolicySwept, Policy!Read, Policy!Rest
  <2>3. PolicySidesFit(c)'
    BY <1>0, <2>1 DEF ReadDoes, StillThere, PolicySidesFit
  <2> QED BY <2>1, <2>2, <2>3 DEF ReadDoes, PolicyKept
<1>2. CASE Policy(c)!Issue(w)
  <2>1. PolicyTyped(c)' /\ UNCHANGED <<tier, trail, held, mishaps>> /\ \E k \in TokenSet : tokens' = Append(tokens, k)
    BY <1>0, <1>2, IssueIs
  <2>2. PolicySwept'
    BY <1>0, <1>2 DEF PolicySwept, Policy!Issue, Policy!Rest
  <2>3. Len(tokens) < c.MaxTokens /\ c.MaxTokens \in Nat /\ tokens \in Seq(TokenSet)
    BY <1>0, <1>2 DEF Policy!Issue, Policy!PolicyAssumption, PolicyTyped
  <2>4. Len(tokens') = Len(tokens) + 1 /\ Len(tokens) \in Nat
    BY <2>1, <2>3
  <2>5. PolicySidesFit(c)'
    BY <1>0, <2>1, <2>3, <2>4 DEF PolicySidesFit
  <2> QED BY <2>1, <2>2, <2>5 DEF PolicyKept
<1>3. CASE Policy(c)!Consume(w)
  <2>1. /\ PolicyTyped(c)' /\ UNCHANGED <<tier, trail, held, mishaps>> /\ job[w].token \in DOMAIN tokens
        /\ tokens' = tokens \/ tokens' = [tokens EXCEPT ![job[w].token].live = FALSE]
    BY <1>0, <1>3, ConsumeIs
  <2>2. PolicySwept'
    BY <1>0, <1>3 DEF PolicySwept, Policy!Consume, Policy!Rest
  <2>3. Len(tokens') = Len(tokens)
    <3>1. tokens \in Seq(TokenSet) /\ tokens' \in Seq(TokenSet)
      BY <1>0, <2>1 DEF PolicyTyped
    <3>2. DOMAIN tokens' = DOMAIN tokens
      BY <2>1
    <3> QED BY <3>1, <3>2
  <2>5. PolicySidesFit(c)'
    BY <1>0, <2>1, <2>3 DEF PolicySidesFit
  <2> QED BY <2>1, <2>2, <2>5 DEF PolicyKept
<1>4. CASE Policy(c)!Write(w)
  <2>1. WriteDoes(c, w)
    BY <1>0, <1>4, WriteIs
  <2>2. PolicySwept'
    BY <1>0, <1>4 DEF PolicySwept, Policy!Write, Policy!Rest
  <2>3. /\ PolicyTyped(c)' /\ UNCHANGED <<trail, held, mishaps>> /\ DOMAIN tokens' = DOMAIN tokens
        /\ tier' = [tier EXCEPT ![Policy(c)!Surface(job[w])] = job[w].target]
    BY <2>1 DEF WriteDoes, Marked
  <2>4. Len(tokens') = Len(tokens)
    <3>1. tokens \in Seq(TokenSet) /\ tokens' \in Seq(TokenSet)
      BY <1>0, <2>3 DEF PolicyTyped
    <3> QED BY <2>3, <3>1
  <2>5. tier' \in [Faces -> TierSet]
    BY <1>0, <2>3, TierWritten DEF PolicySidesFit
  <2>6. PolicySidesFit(c)'
    BY <1>0, <2>3, <2>4, <2>5 DEF PolicySidesFit
  <2> QED BY <2>2, <2>3, <2>6 DEF PolicyKept
<1>5. CASE Policy(c)!Audit(w)
  <2>1. AuditDoes(c, w)
    BY <1>0, <1>5, AuditIs
  <2>2. PolicySwept'
    BY <1>0, <1>5 DEF PolicySwept, Policy!Audit, Policy!Rest
  <2>3. PolicyTyped(c)' /\ UNCHANGED <<tier, tokens>>
    BY <2>1 DEF AuditDoes
  <2>4. trail' \in [Faces -> TierSet]
    <3>1. trail' = trail \/ trail' = [trail EXCEPT ![Policy(c)!Surface(job[w])] = job[w].target]
      BY <2>1 DEF AuditDoes
    <3> QED BY <1>0, <3>1, TierWritten DEF PolicySidesFit
  <2>5. held' \subseteq Faces
    <3>1. held' = held \/ held' = held \cup {job[w].list[i] : i \in 1 .. job[w].n}
      BY <2>1 DEF AuditDoes
    <3>2. job[w].list \in Lists /\ job[w].n \in Nat /\ job[w].n <= Len(job[w].list)
      BY <1>0, TierWritten DEF JobSet, JobFine
    <3>3. Len(job[w].list) \in 1 .. 2 /\ \A i \in 1 .. Len(job[w].list) : job[w].list[i] \in Faces
      BY <3>2, ListsAre
    <3>4. \A i \in 1 .. job[w].n : job[w].list[i] \in Faces
      BY <3>2, <3>3
    <3> QED BY <1>0, <3>1, <3>4 DEF PolicySidesFit
  <2>6. mishaps' \in 0 .. c.MaxFaults
    <3>1. mishaps' = mishaps \/ (mishaps' = mishaps + 1 /\ mishaps < c.MaxFaults)
      BY <1>5 DEF Policy!Audit, Policy!Fault
    <3> QED BY <1>0, <3>1 DEF PolicySidesFit, Policy!PolicyAssumption
  <2>7. PolicySidesFit(c)'
    BY <1>0, <2>3, <2>4, <2>5, <2>6 DEF PolicySidesFit
  <2> QED BY <2>2, <2>3, <2>7 DEF PolicyKept
<1>6. CASE Policy(c)!Create(w)
  <2>1. ReadDoes(c, w)
    BY <1>0, <1>6, CreateIs
  <2>2. PolicySwept'
    BY <1>0, <1>6 DEF PolicySwept, Policy!Create, Policy!Rest
  <2>3. PolicySidesFit(c)'
    BY <1>0, <2>1 DEF ReadDoes, StillThere, PolicySidesFit
  <2> QED BY <2>1, <2>2, <2>3 DEF ReadDoes, PolicyKept
<1> QED BY <1>1, <1>2, <1>3, <1>4, <1>5, <1>6 DEF Policy!Step

\* The cron reads the silent tiers, and pauses on a breach.
LEMMA LookFits ==
  ASSUME NEW c, Policy(c)!PolicyAssumption, PolicyKept(c), Policy(c)!Look PROVE PolicyKept(c)'
<1>0. PolicyTyped(c) /\ PolicySidesFit(c) /\ PolicySwept /\ "cron" \in Policy(c)!Workers
  BY DEF PolicyKept, Policy!Look, Policy!Workers
<1>1. PICK s \in policySweep :
        /\ policySweep' = policySweep \ {s}
        /\ \/ breach = "none" /\ UNCHANGED <<job, mishaps>>
           \/ /\ breach # "none" /\ UNCHANGED mishaps
              /\ job' = [job EXCEPT !["cron"] = Policy(c)!Started("pause", IF breach = "kyc" THEN Policy(c)!Order ELSE <<s>>, "paused", 0)]
           \/ Policy(c)!Fault("engine") /\ UNCHANGED job
  BY DEF Policy!Look
<1>2. keyBought' = FALSE /\ UNCHANGED <<tier, tokens, trail, sessionActive, breach, held>>
  BY DEF Policy!Look
<1>3. PolicyTyped(c)'
  <2>1. CASE job' = job
    BY <1>0, <1>2, <2>1 DEF PolicyTyped, Policy!Workers
  <2>2. CASE job' = [job EXCEPT !["cron"] = Policy(c)!Started("pause", IF breach = "kyc" THEN Policy(c)!Order ELSE <<s>>, "paused", 0)]
    <3>1. PICK list \in Lists : list = IF breach = "kyc" THEN Policy(c)!Order ELSE <<s>>
      <4>1. s \in Faces
        BY <1>0 DEF PolicySwept
      <4> QED BY <4>1, FacesAre, ListsAre
    <3>2. PICK k : k = Policy(c)!Started("pause", list, "paused", 0)
      OBVIOUS
    <3>3. k \in JobSet /\ JobFine(k, DOMAIN tokens)
      BY <3>2, StartedIs DEF JobKinds, TierSet
    <3>4. JobFine(k, DOMAIN tokens') /\ tokens' \in Seq(TokenSet) /\ DOMAIN tokens \subseteq DOMAIN tokens'
      BY <1>0, <1>2, <3>3 DEF PolicyTyped
    <3>5. job' = [job EXCEPT !["cron"] = k]
      BY <2>2, <3>1, <3>2
    <3> QED BY <1>0, <3>3, <3>4, <3>5, JobPut
  <2> QED BY <1>1, <2>1, <2>2
<1>4. mishaps' \in 0 .. c.MaxFaults
  <2>1. mishaps' = mishaps \/ (mishaps' = mishaps + 1 /\ mishaps < c.MaxFaults)
    BY <1>1 DEF Policy!Fault
  <2> QED BY <1>0, <2>1 DEF PolicySidesFit, Policy!PolicyAssumption
<1>5. PolicySidesFit(c)'
  BY <1>0, <1>2, <1>4 DEF PolicySidesFit
<1>6. PolicySwept'
  BY <1>0, <1>1, <1>2 DEF PolicySwept
<1> QED BY <1>3, <1>5, <1>6 DEF PolicyKept

LEMMA PolicyKeptStutters ==
  ASSUME NEW c, PolicyKept(c), UNCHANGED <<policyVars, mishaps>> PROVE PolicyKept(c)'
BY DEF PolicyKept, PolicyTyped, PolicySidesFit, PolicySwept, policyVars, Policy!Workers

LEMMA PolicyKeptSteps ==
  ASSUME NEW c, Policy(c)!PolicyAssumption, PolicyKept(c), Policy(c)!Next PROVE PolicyKept(c)'
<1>0. PolicyTyped(c) /\ PolicySidesFit(c) /\ PolicySwept
  BY DEF PolicyKept
<1>1. ASSUME NEW w \in c.Requests, Policy(c)!User(w) PROVE PolicyKept(c)'
  BY <1>1, UserFits
<1>2. ASSUME NEW w \in c.Requests, Policy(c)!Step(w) PROVE PolicyKept(c)'
  BY <1>2, PolicyWorkFits DEF Policy!Workers
<1>3. CASE Policy(c)!SessionEnds \/ Policy(c)!Buy
  <2>1. UNCHANGED <<tier, tokens, job, trail, policySweep, breach, held, mishaps>> /\ PolicySwept'
    BY <1>0, <1>3 DEF Policy!SessionEnds, Policy!Buy, PolicySwept
  <2> QED BY <1>0, <2>1 DEF PolicyKept, PolicyTyped, PolicySidesFit, Policy!Workers
<1>4. CASE Policy(c)!Lapse
  <2>1. PolicyTyped(c)' /\ UNCHANGED <<job, tier, trail, held, mishaps>> /\ DOMAIN tokens' = DOMAIN tokens
    BY <1>0, <1>4, LapseIs
  <2>2. Len(tokens') = Len(tokens)
    <3>1. tokens \in Seq(TokenSet) /\ tokens' \in Seq(TokenSet)
      BY <1>0, <2>1 DEF PolicyTyped
    <3> QED BY <2>1, <3>1
  <2>3. PolicySwept'
    BY <1>0, <1>4 DEF Policy!Lapse, Policy!Rest, PolicySwept
  <2>4. PolicySidesFit(c)'
    BY <1>0, <2>1, <2>2 DEF PolicySidesFit
  <2> QED BY <2>1, <2>3, <2>4 DEF PolicyKept
<1>5. CASE Policy(c)!Crash
  <2>1. PolicyTyped(c)' /\ UNCHANGED <<tier, tokens, trail, held>>
    BY <1>0, <1>5, CrashIs
  <2>2. mishaps' = mishaps + 1 /\ mishaps < c.MaxFaults /\ PolicySwept'
    BY <1>0, <1>5 DEF Policy!Crash, Policy!Fault, PolicySwept
  <2>3. PolicySidesFit(c)'
    BY <1>0, <2>1, <2>2 DEF PolicySidesFit, Policy!PolicyAssumption
  <2> QED BY <2>1, <2>2, <2>3 DEF PolicyKept
<1>6. CASE Policy(c)!Tick
  <2>1. UNCHANGED <<tier, tokens, job, trail, held, mishaps>> /\ PolicySwept'
    BY <1>0, <1>6, FacesAre DEF Policy!Tick, PolicySwept
  <2> QED BY <1>0, <2>1 DEF PolicyKept, PolicyTyped, PolicySidesFit, Policy!Workers
<1>7. CASE Policy(c)!Look
  BY <1>7, LookFits
<1>8. CASE c.Engine /\ Policy(c)!Step("cron")
  <2>1. "cron" \in Policy(c)!Workers
    BY <1>8 DEF Policy!Workers
  <2> QED BY <1>8, <2>1, PolicyWorkFits
<1>9. CASE Policy(c)!Breaches
  <2>1. UNCHANGED <<tier, tokens, job, trail, held, mishaps>> /\ PolicySwept'
    BY <1>0, <1>9 DEF Policy!Breaches, PolicySwept
  <2> QED BY <1>0, <2>1 DEF PolicyKept, PolicyTyped, PolicySidesFit, Policy!Workers
<1> QED BY <1>1, <1>2, <1>3, <1>4, <1>5, <1>6, <1>7, <1>8, <1>9 DEF Policy!Next, Policy!CronStep

LEMMA PolicyIsTyped ==
  ASSUME NEW c, Policy(c)!PolicyAssumption, PolicyKept(c) PROVE Policy(c)!TypeOK
<1>0. PolicyTyped(c) /\ PolicySidesFit(c) /\ PolicySwept /\ c.MaxTokens \in Nat
  BY DEF PolicyKept, Policy!PolicyAssumption
<1>1. /\ Policy(c)!Surfaces = Faces /\ Policy(c)!Order = <<"havenbot", "mcp">>
      /\ DOMAIN Policy(c)!Rank = Consents /\ Policy(c)!Tiers = TierSet
  BY FacesAre
<1>2. DOMAIN tokens = 1 .. Len(tokens) /\ Len(tokens) \in Nat /\ Len(tokens) <= c.MaxTokens
  BY <1>0 DEF PolicyTyped, PolicySidesFit
<1>3. ASSUME NEW i \in DOMAIN tokens
      PROVE  tokens[i] \in [surface : Faces, target : Consents, live : BOOLEAN, old : BOOLEAN, writes : Nat]
  <2>1. tokens[i] \in TokenSet
    BY <1>0 DEF PolicyTyped
  <2> QED BY <2>1, Zenon DEF TokenSet
<1>4. ASSUME NEW w \in Policy(c)!Workers
      PROVE  /\ job[w] \in Policy(c)!Jobs /\ job[w].n <= Len(job[w].list)
             /\ job[w].at \in {"issue", "consume"} => job[w].target # "paused"
  <2>1. job[w] \in JobSet /\ JobFine(job[w], DOMAIN tokens)
    BY <1>0 DEF PolicyTyped
  <2>2. PICK k \in JobSet : k = job[w] /\ JobFine(k, DOMAIN tokens)
    BY <2>1
  <2>3. k.token \in 0 .. c.MaxTokens
    <3>1. k.token \in DOMAIN tokens \/ k.token = 0
      BY <2>2 DEF JobFine
    <3> QED BY <1>0, <1>2, <3>1
  <2>4. k.list \in {<<"havenbot", "mcp">>} \cup {<<s>> : s \in Faces}
    BY DEF JobSet, Lists, Faces
  <2>5. Len(Policy(c)!Order) = 2
    BY <1>1
  <2>6. k \in Policy(c)!Jobs
    <3>1. /\ k.kind \in {"none", "request", "commit", "pause", "resume", "mint"}
          /\ k.at \in {"read", "issue", "consume", "write", "audit", "create"}
          /\ k.n \in 1 .. 2 /\ k.target \in TierSet
      BY DEF JobSet, JobKinds, JobPlaces
    <3>2. k = [kind |-> k.kind, at |-> k.at, list |-> k.list, n |-> k.n, target |-> k.target, token |-> k.token]
      BY DEF JobSet
    <3>3. k \in [kind : {"none", "request", "commit", "pause", "resume", "mint"},
                 at : {"read", "issue", "consume", "write", "audit", "create"},
                 list : {<<"havenbot", "mcp">>} \cup {<<s>> : s \in Faces}, n : 1 .. 2, target : TierSet, token : 0 .. c.MaxTokens]
      BY <2>3, <2>4, <3>1, <3>2
    <3> QED BY <1>1, <2>5, <3>3, Zenon DEF Policy!Jobs
  <2>7. k.n <= Len(k.list) /\ (k.at \in {"issue", "consume"} => k.target # "paused")
    <3>1. k.at \in {"issue", "consume"} => k.target \in Consents
      BY <2>2 DEF JobFine
    <3> QED BY <2>2, <3>1 DEF JobFine, Consents
  <2> QED BY <2>2, <2>6, <2>7
<1>5. job \in [Policy(c)!Workers -> Policy(c)!Jobs]
  <2>1. job \in [Policy(c)!Workers -> JobSet]
    BY <1>0 DEF PolicyTyped
  <2> QED BY <1>4, <2>1
<1>6. tier \in [Policy(c)!Surfaces -> Policy(c)!Tiers] /\ trail \in [Policy(c)!Surfaces -> Policy(c)!Tiers]
  BY <1>0, <1>1 DEF PolicySidesFit
<1>7. \A i \in DOMAIN tokens : tokens[i] \in [surface : Policy(c)!Surfaces, target : DOMAIN Policy(c)!Rank, live : BOOLEAN, old : BOOLEAN, writes : Nat]
  BY <1>1, <1>3
<1>8. policySweep \in SUBSET Policy(c)!Surfaces /\ held \subseteq Policy(c)!Surfaces
  BY <1>0, <1>1 DEF PolicySidesFit, PolicySwept
<1>9. sessionActive \in BOOLEAN /\ keyBought \in BOOLEAN /\ breach \in {"none", "own", "kyc"} /\ mishaps \in 0 .. c.MaxFaults
  BY <1>0 DEF PolicySidesFit, PolicySwept
<1> QED BY <1>2, <1>4, <1>5, <1>6, <1>7, <1>8, <1>9 DEF Policy!TypeOK

-----------------------------------------------------------------------------
(* The services together *)

\* Whichever part is followed, its invariant.
PartsKept ==
  /\ part = "checkout" => CheckoutKept(CheckoutOf)
  /\ part = "late" => CheckoutKept(LateCheckout)
  /\ part = "yield" => YieldKept(YieldOf)
  /\ part = "short" => YieldKept(ShortYield)
  /\ part = "capped" => YieldKept(CappedYield)
  /\ part = "deploy" => DeployKept(DeployOf)
  /\ part = "nav" => NavKept(NavOf)
  /\ part = "fed" => NavKept(FedNav)
  /\ part = "indexer" => IndInv
  /\ part = "escrow" => PollerInv(EscrowOf)
  /\ part = "session" => SessionKept(SessionOf)
  /\ part = "both" => SessionKept(BothSession)
  /\ part = "reinvest" => ReinvestKept(ReinvestOf)
  /\ part = "halted" => ReinvestKept(HaltedReinvest)
  /\ part = "policy" => PolicyKept(PolicyOf)
  /\ part = "taps" => PolicyKept(TapsPolicy)
  /\ part = "agent" => AgentKeptAll
  /\ part = "alone" => AloneKeptAll

\* The instances that fix some of the constants meet the modules' assumptions.
LEMMA InstancesAssume ==
  /\ Checkout(CheckoutOf)!FaultsAssumption
  /\ Checkout(LateCheckout)!FaultsAssumption
  /\ Yield(YieldOf)!YieldAssumption
  /\ Yield(ShortYield)!YieldAssumption
  /\ Yield(CappedYield)!YieldAssumption
  /\ Deploy(DeployOf)!DeployAssumption
  /\ Nav(NavOf)!RefreshAssumption
  /\ Nav(FedNav)!RefreshAssumption
  /\ Escrow(EscrowOf)!PollerAssumption
  /\ Session(SessionOf)!SessionAssumption
  /\ Session(BothSession)!SessionAssumption
  /\ Reinvest(ReinvestOf)!ReinvestAssumption
  /\ Reinvest(HaltedReinvest)!ReinvestAssumption
  /\ Policy(PolicyOf)!PolicyAssumption
  /\ Policy(TapsPolicy)!PolicyAssumption
<1>1. Checkout(LateCheckout)!FaultsAssumption
  BY DEF LateCheckout, FaultyCheckout, Checkout!FaultsAssumption
<1>2. Session(BothSession)!SessionAssumption
  BY DEF BothSession, FaultySession, Session!SessionAssumption
<1>3. Reinvest(HaltedReinvest)!ReinvestAssumption
  BY DEF HaltedReinvest, FaultyReinvest, Reinvest!ReinvestAssumption
<1>4. /\ Yield(ShortYield)!YieldAssumption /\ Yield(CappedYield)!YieldAssumption
      /\ Nav(FedNav)!RefreshAssumption /\ Policy(TapsPolicy)!PolicyAssumption
  BY ShortAssumption, CappedAssumption, FedIsSure, TapsAreSafe
<1> QED BY <1>1, <1>2, <1>3, <1>4, ConstantsAssumption DEF ConstantsAssumption

LEMMA FedStarts == ASSUME Nav(NavOf)!Init PROVE Nav(FedNav)!Init
<1>1. FedNav.Initial = {"none", "feed"} /\ NavOf.Initial \subseteq {"none", "feed"}
  BY InstancesAssume DEF FedNav, FaultyNav, Nav!RefreshAssumption
<1>2. PICK kind \in NavOf.Initial : newest = kind /\ fed = (kind = "feed")
  BY DEF Nav!Init
<1>3. kind \in FedNav.Initial
  BY <1>1
<1> QED BY <1>2, <1>3 DEF Nav!Init, Nav!Idle, Nav!NoStatus

LEMMA PartsStart == ASSUME ServicesInit PROVE PartsKept
<1>1. ASSUME part = "checkout" PROVE CheckoutKept(CheckoutOf)
  <2>1. Checkout(CheckoutOf)!Init
    BY <1>1 DEF ServicesInit
  <2> QED BY <2>1, InstancesAssume, CheckoutKeptStarts
<1>2. ASSUME part = "late" PROVE CheckoutKept(LateCheckout)
  <2>1. Checkout(LateCheckout)!Init
    BY <1>2 DEF ServicesInit
  <2> QED BY <2>1, InstancesAssume, CheckoutKeptStarts
<1>3. ASSUME part = "yield" PROVE YieldKept(YieldOf)
  <2>1. Yield(YieldOf)!Init
    BY <1>3 DEF ServicesInit
  <2> QED BY <2>1, InstancesAssume, YieldKeptStarts
<1>4. ASSUME part = "short" PROVE YieldKept(ShortYield)
  <2>1. Yield(ShortYield)!Init
    BY <1>4 DEF ServicesInit
  <2> QED BY <2>1, InstancesAssume, YieldKeptStarts
<1>5. ASSUME part = "capped" PROVE YieldKept(CappedYield)
  <2>1. Yield(CappedYield)!Init
    BY <1>5 DEF ServicesInit
  <2> QED BY <2>1, InstancesAssume, YieldKeptStarts
<1>6. ASSUME part = "deploy" PROVE DeployKept(DeployOf)
  <2>1. Deploy(DeployOf)!Init
    BY <1>6 DEF ServicesInit
  <2> QED BY <2>1, InstancesAssume, DeployKeptStarts
<1>7. ASSUME part = "nav" PROVE NavKept(NavOf)
  <2>1. Nav(NavOf)!Init
    BY <1>7 DEF ServicesInit
  <2> QED BY <2>1, InstancesAssume, NavKeptStarts
<1>8. ASSUME part = "fed" PROVE NavKept(FedNav)
  <2>1. Nav(FedNav)!Init
    BY FedStarts DEF ServicesInit
  <2> QED BY <2>1, InstancesAssume, NavKeptStarts
<1>9. ASSUME part = "indexer" PROVE IndInv
  BY InitHolds DEF ServicesInit
<1>10. ASSUME part = "escrow" PROVE PollerInv(EscrowOf)
  <2>1. Escrow(EscrowOf)!Init
    BY <1>10 DEF ServicesInit
  <2> QED BY <2>1, InstancesAssume, PollerStarts
<1>11. ASSUME part = "session" PROVE SessionKept(SessionOf)
  <2>1. Session(SessionOf)!Init
    BY <1>11 DEF ServicesInit
  <2> QED BY <2>1, InstancesAssume, SessionKeptStarts
<1>12. ASSUME part = "both" PROVE SessionKept(BothSession)
  <2>1. Session(BothSession)!Init
    BY <1>12 DEF ServicesInit
  <2> QED BY <2>1, InstancesAssume, SessionKeptStarts
<1>13. ASSUME part = "reinvest" PROVE ReinvestKept(ReinvestOf)
  <2>1. Reinvest(ReinvestOf)!Init
    BY <1>13 DEF ServicesInit
  <2> QED BY <2>1, InstancesAssume, ReinvestKeptStarts
<1>14. ASSUME part = "halted" PROVE ReinvestKept(HaltedReinvest)
  <2>1. Reinvest(HaltedReinvest)!Init
    BY <1>14 DEF ServicesInit
  <2> QED BY <2>1, InstancesAssume, ReinvestKeptStarts
<1>15. ASSUME part = "policy" PROVE PolicyKept(PolicyOf)
  <2>1. Policy(PolicyOf)!Init
    BY <1>15 DEF ServicesInit
  <2> QED BY <2>1, InstancesAssume, PolicyKeptStarts
<1>16. ASSUME part = "taps" PROVE PolicyKept(TapsPolicy)
  <2>1. Policy(TapsPolicy)!Init
    BY <1>16 DEF ServicesInit
  <2> QED BY <2>1, InstancesAssume, PolicyKeptStarts
<1>17. ASSUME part = "agent" PROVE AgentKeptAll
  <2>1. Agent!Init
    BY <1>17 DEF ServicesInit
  <2> QED BY <2>1, AgentKeptStarts
<1>18. ASSUME part = "alone" PROVE AloneKeptAll
  <2>1. Alone!Init
    BY <1>18 DEF ServicesInit
  <2> QED BY <2>1, AloneKeptStarts
<1> QED BY <1>1, <1>2, <1>3, <1>4, <1>5, <1>6, <1>7, <1>8, <1>9, <1>10, <1>11, <1>12, <1>13, <1>14, <1>15, <1>16, <1>17, <1>18 DEF PartsKept

LEMMA PartsStep == ASSUME PartsKept, [ServicesNext]_servicesVars PROVE PartsKept'
<1>0. part' = part
  BY DEF ServicesNext, Follows, servicesVars
<1>1. ASSUME part = "checkout" PROVE CheckoutKept(CheckoutOf)'
  <2>1. CheckoutKept(CheckoutOf) /\ (Checkout(CheckoutOf)!Next \/ UNCHANGED <<checkoutVars, mishaps>>)
    BY <1>1 DEF PartsKept, ServicesNext, Follows, servicesVars
  <2> QED BY <2>1, InstancesAssume, CheckoutKeptSteps, CheckoutKeptStutters
<1>2. ASSUME part = "late" PROVE CheckoutKept(LateCheckout)'
  <2>1. CheckoutKept(LateCheckout) /\ (Checkout(LateCheckout)!Next \/ UNCHANGED <<checkoutVars, mishaps>>)
    BY <1>2 DEF PartsKept, ServicesNext, Follows, servicesVars
  <2> QED BY <2>1, InstancesAssume, CheckoutKeptSteps, CheckoutKeptStutters
<1>3. ASSUME part = "yield" PROVE YieldKept(YieldOf)'
  <2>1. YieldKept(YieldOf) /\ (Yield(YieldOf)!Next \/ UNCHANGED yieldVars)
    BY <1>3 DEF PartsKept, ServicesNext, Follows, servicesVars
  <2> QED BY <2>1, InstancesAssume, YieldKeptSteps, YieldKeptStutters
<1>4. ASSUME part = "short" PROVE YieldKept(ShortYield)'
  <2>1. YieldKept(ShortYield) /\ (Yield(ShortYield)!Next \/ UNCHANGED yieldVars)
    BY <1>4 DEF PartsKept, ServicesNext, Follows, servicesVars
  <2> QED BY <2>1, InstancesAssume, YieldKeptSteps, YieldKeptStutters
<1>5. ASSUME part = "capped" PROVE YieldKept(CappedYield)'
  <2>1. YieldKept(CappedYield) /\ (Yield(CappedYield)!Next \/ UNCHANGED yieldVars)
    BY <1>5 DEF PartsKept, ServicesNext, Follows, servicesVars
  <2> QED BY <2>1, InstancesAssume, YieldKeptSteps, YieldKeptStutters
<1>6. ASSUME part = "deploy" PROVE DeployKept(DeployOf)'
  <2>1. DeployKept(DeployOf) /\ (Deploy(DeployOf)!Next \/ UNCHANGED <<deployVars, mishaps>>)
    BY <1>6 DEF PartsKept, ServicesNext, Follows, servicesVars
  <2> QED BY <2>1, InstancesAssume, DeployKeptSteps, DeployKeptStutters
<1>7. ASSUME part = "nav" PROVE NavKept(NavOf)'
  <2>1. NavKept(NavOf) /\ (Nav(NavOf)!Next \/ UNCHANGED <<navVars, mishaps>>)
    BY <1>7 DEF PartsKept, ServicesNext, Follows, servicesVars
  <2> QED BY <2>1, InstancesAssume, NavKeptSteps, NavKeptStutters
<1>8. ASSUME part = "fed" PROVE NavKept(FedNav)'
  <2>1. NavKept(FedNav) /\ (Nav(FedNav)!Next \/ UNCHANGED <<navVars, mishaps>>)
    BY <1>8 DEF PartsKept, ServicesNext, Follows, servicesVars
  <2> QED BY <2>1, InstancesAssume, NavKeptSteps, NavKeptStutters
<1>9. ASSUME part = "indexer" PROVE IndInv'
  <2>1. IndInv /\ [Next]_vars
    BY <1>9 DEF PartsKept, ServicesNext, Follows, servicesVars, indexerVars, vars
  <2> QED BY <2>1, StepHolds
<1>10. ASSUME part = "escrow" PROVE PollerInv(EscrowOf)'
  <2>1. PollerInv(EscrowOf) /\ (Escrow(EscrowOf)!Next \/ UNCHANGED <<escrowVars, mishaps>>)
    BY <1>10 DEF PartsKept, ServicesNext, Follows, servicesVars
  <2> QED BY <2>1, InstancesAssume, PollerSteps, PollerStutters
<1>11. ASSUME part = "session" PROVE SessionKept(SessionOf)'
  <2>1. SessionKept(SessionOf) /\ (Session(SessionOf)!Next \/ UNCHANGED <<sessionVars, mishaps>>)
    BY <1>11 DEF PartsKept, ServicesNext, Follows, servicesVars
  <2> QED BY <2>1, InstancesAssume, SessionKeptSteps, SessionKeptStutters
<1>12. ASSUME part = "both" PROVE SessionKept(BothSession)'
  <2>1. SessionKept(BothSession) /\ (Session(BothSession)!Next \/ UNCHANGED <<sessionVars, mishaps>>)
    BY <1>12 DEF PartsKept, ServicesNext, Follows, servicesVars
  <2> QED BY <2>1, InstancesAssume, SessionKeptSteps, SessionKeptStutters
<1>13. ASSUME part = "reinvest" PROVE ReinvestKept(ReinvestOf)'
  <2>1. ReinvestKept(ReinvestOf) /\ (Reinvest(ReinvestOf)!Next \/ UNCHANGED <<reinvestVars, mishaps>>)
    BY <1>13 DEF PartsKept, ServicesNext, Follows, servicesVars
  <2> QED BY <2>1, InstancesAssume, ReinvestKeptSteps, ReinvestKeptStutters
<1>14. ASSUME part = "halted" PROVE ReinvestKept(HaltedReinvest)'
  <2>1. ReinvestKept(HaltedReinvest) /\ (Reinvest(HaltedReinvest)!Next \/ UNCHANGED <<reinvestVars, mishaps>>)
    BY <1>14 DEF PartsKept, ServicesNext, Follows, servicesVars
  <2> QED BY <2>1, InstancesAssume, ReinvestKeptSteps, ReinvestKeptStutters
<1>15. ASSUME part = "policy" PROVE PolicyKept(PolicyOf)'
  <2>1. PolicyKept(PolicyOf) /\ (Policy(PolicyOf)!Next \/ UNCHANGED <<policyVars, mishaps>>)
    BY <1>15 DEF PartsKept, ServicesNext, Follows, servicesVars
  <2> QED BY <2>1, InstancesAssume, PolicyKeptSteps, PolicyKeptStutters
<1>16. ASSUME part = "taps" PROVE PolicyKept(TapsPolicy)'
  <2>1. PolicyKept(TapsPolicy) /\ (Policy(TapsPolicy)!Next \/ UNCHANGED <<policyVars, mishaps>>)
    BY <1>16 DEF PartsKept, ServicesNext, Follows, servicesVars
  <2> QED BY <2>1, InstancesAssume, PolicyKeptSteps, PolicyKeptStutters
<1>17. ASSUME part = "agent" PROVE AgentKeptAll'
  <2>1. AgentKeptAll /\ (Agent!Next \/ UNCHANGED <<agentVars, mishaps>>)
    BY <1>17 DEF PartsKept, ServicesNext, Follows, servicesVars
  <2> QED BY <2>1, AgentKeptSteps, AgentKeptStutters
<1>18. ASSUME part = "alone" PROVE AloneKeptAll'
  <2>1. AloneKeptAll /\ (Alone!Next \/ UNCHANGED <<agentVars, mishaps>>)
    BY <1>18 DEF PartsKept, ServicesNext, Follows, servicesVars
  <2> QED BY <2>1, AloneKeptSteps, AloneKeptStutters
<1> QED BY <1>0, <1>1, <1>2, <1>3, <1>4, <1>5, <1>6, <1>7, <1>8, <1>9, <1>10, <1>11, <1>12, <1>13, <1>14, <1>15, <1>16, <1>17, <1>18 DEF PartsKept

LEMMA PartsTyped == ASSUME PartsKept PROVE ServicesTypeOK
<1>1. ASSUME part = "checkout" PROVE Checkout(CheckoutOf)!TypeOK
  <2>1. CheckoutKept(CheckoutOf)
    BY <1>1 DEF PartsKept
  <2> QED BY <2>1, InstancesAssume, CheckoutIsTyped
<1>2. ASSUME part = "late" PROVE Checkout(LateCheckout)!TypeOK
  <2>1. CheckoutKept(LateCheckout)
    BY <1>2 DEF PartsKept
  <2> QED BY <2>1, InstancesAssume, CheckoutIsTyped
<1>3. ASSUME part = "yield" PROVE Yield(YieldOf)!TypeOK
  <2>1. YieldKept(YieldOf)
    BY <1>3 DEF PartsKept
  <2> QED BY <2>1, InstancesAssume, YieldIsTyped
<1>4. ASSUME part = "short" PROVE Yield(ShortYield)!TypeOK
  <2>1. YieldKept(ShortYield)
    BY <1>4 DEF PartsKept
  <2> QED BY <2>1, InstancesAssume, YieldIsTyped
<1>5. ASSUME part = "capped" PROVE Yield(CappedYield)!TypeOK
  <2>1. YieldKept(CappedYield)
    BY <1>5 DEF PartsKept
  <2> QED BY <2>1, InstancesAssume, YieldIsTyped
<1>6. ASSUME part = "deploy" PROVE Deploy(DeployOf)!TypeOK
  <2>1. DeployKept(DeployOf)
    BY <1>6 DEF PartsKept
  <2> QED BY <2>1, InstancesAssume, DeployIsTyped
<1>7. ASSUME part = "nav" PROVE Nav(NavOf)!TypeOK
  <2>1. NavKept(NavOf)
    BY <1>7 DEF PartsKept
  <2> QED BY <2>1, InstancesAssume, NavIsTyped
<1>8. ASSUME part = "fed" PROVE Nav(FedNav)!TypeOK
  <2>1. NavKept(FedNav)
    BY <1>8 DEF PartsKept
  <2> QED BY <2>1, InstancesAssume, NavIsTyped
<1>9. ASSUME part = "indexer" PROVE TypeOK
  BY <1>9 DEF PartsKept, IndInv
<1>10. ASSUME part = "escrow" PROVE Escrow(EscrowOf)!TypeOK
  <2>1. PollerInv(EscrowOf)
    BY <1>10 DEF PartsKept
  <2> QED BY <2>1, InstancesAssume, PollerIsTyped
<1>11. ASSUME part = "session" PROVE Session(SessionOf)!TypeOK
  <2>1. SessionKept(SessionOf)
    BY <1>11 DEF PartsKept
  <2> QED BY <2>1, InstancesAssume, SessionIsTyped
<1>12. ASSUME part = "both" PROVE Session(BothSession)!TypeOK
  <2>1. SessionKept(BothSession)
    BY <1>12 DEF PartsKept
  <2> QED BY <2>1, InstancesAssume, SessionIsTyped
<1>13. ASSUME part = "reinvest" PROVE Reinvest(ReinvestOf)!TypeOK
  <2>1. ReinvestKept(ReinvestOf)
    BY <1>13 DEF PartsKept
  <2> QED BY <2>1, InstancesAssume, ReinvestIsTyped
<1>14. ASSUME part = "halted" PROVE Reinvest(HaltedReinvest)!TypeOK
  <2>1. ReinvestKept(HaltedReinvest)
    BY <1>14 DEF PartsKept
  <2> QED BY <2>1, InstancesAssume, ReinvestIsTyped
<1>15. ASSUME part = "policy" PROVE Policy(PolicyOf)!TypeOK
  <2>1. PolicyKept(PolicyOf)
    BY <1>15 DEF PartsKept
  <2> QED BY <2>1, InstancesAssume, PolicyIsTyped
<1>16. ASSUME part = "taps" PROVE Policy(TapsPolicy)!TypeOK
  <2>1. PolicyKept(TapsPolicy)
    BY <1>16 DEF PartsKept
  <2> QED BY <2>1, InstancesAssume, PolicyIsTyped
<1>17. ASSUME part = "agent" PROVE Agent!TypeOK
  <2>1. AgentKeptAll
    BY <1>17 DEF PartsKept
  <2> QED BY <2>1, AgentIsTyped
<1>18. ASSUME part = "alone" PROVE Alone!TypeOK
  <2>1. AloneKeptAll
    BY <1>18 DEF PartsKept
  <2> QED BY <2>1, AloneIsTyped
<1> QED BY <1>1, <1>2, <1>3, <1>4, <1>5, <1>6, <1>7, <1>8, <1>9, <1>10, <1>11, <1>12, <1>13, <1>14, <1>15, <1>16, <1>17, <1>18 DEF ServicesTypeOK

\* Whatever fails, each service keeps the types of its variables: a session's
\* row, an epoch's, a run's, a cursor, an attempt's place, a tier and a dialogue
\* take no value the code does not know, and no counter leaves its range.
THEOREM ServicesTyped == Services => []ServicesTypeOK
<1>1. ServicesInit => PartsKept
  BY PartsStart
<1>2. PartsKept /\ [ServicesNext]_servicesVars => PartsKept'
  BY PartsStep
<1>3. PartsKept => ServicesTypeOK
  BY PartsTyped
<1> QED BY <1>1, <1>2, <1>3, PTL DEF Services
=============================================================================
