---------------------------- MODULE EscrowPoller ----------------------------
(***************************************************************************)
(* The poller of the escrows of a yield distribution. A tick reads the     *)
(* logs between its cursor and the head and gives the use case one payload *)
(* per escrow of an EscrowIdsAttached and per EscrowRedeemed; each payload *)
(* writes an escrow's row, then its yield record. A throw ends the tick    *)
(* with the cursor where it was: all its payloads come again. The cursor   *)
(* is kept in memory.                                                      *)
(*                                                                         *)
(* One distribution, whose escrows are attached once; a window is no       *)
(* longer than what one chunk may hold. An escrow can be redeemed by       *)
(* anyone at any time: the event is emitted whether or not it paid.        *)
(***************************************************************************)
EXTENDS Integers, Sequences, FiniteSets

CONSTANTS
  Count,      \* escrows of the distribution, in the order of the investors
  Members,    \* escrows whose investor has an account at first
  MaxHeight,  \* bound: height of the chain
  Faults,     \* what goes wrong in this instance
  MaxFaults   \* bound: how often

Escrows == 1 .. Count

PollerAssumption ==
  /\ Count \in Nat \ {0} /\ Members \subseteq Escrows /\ MaxHeight \in Nat /\ MaxFaults \in Nat
  /\ Faults \subseteq {"call", "database", "answer", "restart"}

VARIABLES
  chain,    \* blocks: what each logs and of which escrows
  paid,     \* escrows whose payout was moved
  cursor,   \* lastProcessedBlock; Unset is null
  began,    \* the first block the poller answers for since it started
  poll,     \* where the tick is, the end of its window, the payloads left
  users,    \* escrows whose investor has an account
  status,   \* of each escrow's row
  records,  \* of each escrow: how many yield records, the status of the first
  buffered, \* escrows in escrow_events
  faults

vars == <<chain, paid, cursor, began, poll, users, status, records, buffered, faults>>
tables == <<status, records, buffered>>

Height == Len(chain)
Unset == MaxHeight + 1
Nothing == [kind |-> "none", of |-> {}]
Attached == [kind |-> "attached", of |-> Escrows]
Redeemed(e) == [kind |-> "redeemed", of |-> {e}]
Logs(kind, e) == {b \in 1 .. Height : chain[b].kind = kind /\ e \in chain[b].of}
Idle == [at |-> "idle", to |-> 0, todo |-> <<>>]

TypeOK ==
  /\ chain \in Seq({Nothing, Attached} \cup {Redeemed(e) : e \in Escrows}) /\ Height \in 0 .. MaxHeight
  /\ paid \subseteq {e \in Escrows : Logs("redeemed", e) # {}}
  /\ cursor \in 0 .. Unset /\ (cursor # Unset => cursor <= Height) /\ began \in 1 .. MaxHeight + 1
  /\ poll \in [at : {"idle", "payload", "record", "claim"}, to : 0 .. MaxHeight,
               todo : Seq([kind : {"created", "redeemed"}, escrow : Escrows])]
  /\ poll.at = "record" => status[poll.todo[1].escrow] = "on_chain"
  /\ poll.at = "claim" => status[poll.todo[1].escrow] = "redeemed"
  /\ users \subseteq Escrows /\ buffered \subseteq Escrows
  /\ status \in [Escrows -> {"none", "on_chain", "redeemed"}]
  /\ records \in [Escrows -> [n : 0 .. 2, status : {"none", "claimable", "claimed"}]]
  /\ faults \in 0 .. MaxFaults

Init ==
  /\ chain = <<>> /\ paid = {} /\ cursor = Unset /\ began = 1 /\ poll = Idle
  /\ users = Members /\ status = [e \in Escrows |-> "none"] /\ buffered = {}
  /\ records = [e \in Escrows |-> [n |-> 0, status |-> "none"]]
  /\ faults = 0

Fault(kind) == kind \in Faults /\ faults < MaxFaults /\ faults' = faults + 1

-----------------------------------------------------------------------------
(* The chain and the accounts *)

Mine(block) ==
  /\ Height < MaxHeight /\ chain' = Append(chain, block)
  /\ UNCHANGED <<cursor, began, poll, users, tables, faults>>

NothingHappens == Mine(Nothing) /\ UNCHANGED paid

Attach == Logs("attached", 1) = {} /\ Mine(Attached) /\ UNCHANGED paid

Redeem(e) ==
  /\ Cardinality(Logs("redeemed", e)) < 2 /\ Mine(Redeemed(e))
  /\ paid' \in {paid, paid \cup {e}}

Register(e) ==
  /\ e \notin users /\ users' = users \cup {e}
  /\ UNCHANGED <<chain, paid, cursor, began, poll, tables, faults>>

-----------------------------------------------------------------------------
(* A tick *)

Created(window) ==
  IF \A i \in DOMAIN window : window[i].kind # "attached" THEN <<>>
  ELSE [e \in Escrows |-> [kind |-> "created", escrow |-> e]]

\* The logs are handed on in the order of their blocks.
RedeemedAt(window) == {i \in DOMAIN window : window[i].kind = "redeemed"}
Nth(k, set) == CHOOSE i \in set : Cardinality({j \in set : j <= i}) = k
Redemption(block) == [kind |-> "redeemed", escrow |-> CHOOSE e \in block.of : TRUE]
Redemptions(window) ==
  [k \in 1 .. Cardinality(RedeemedAt(window)) |-> Redemption(window[Nth(k, RedeemedAt(window))])]

\* Mutant: the redemptions come first.
RedemptionsFirst(window) == Redemptions(window) \o Created(window)
Payloads(window) == Created(window) \o Redemptions(window)

\* Mutant: the window begins one block late.
OneLate == cursor + 2
From == cursor + 1

Begin ==
  /\ poll.at = "idle"
  /\ IF cursor = Unset THEN cursor' = Height /\ began' = Height + 1 /\ UNCHANGED poll
     ELSE /\ Height > cursor
          /\ poll' = [at |-> "payload", to |-> Height, todo |-> Payloads(SubSeq(chain, From, Height))]
          /\ UNCHANGED <<cursor, began>>
  /\ UNCHANGED <<chain, paid, users, tables, faults>>

Done == poll' = [poll EXCEPT !.at = "payload", !.todo = Tail(@)]
Goes(at) == poll' = [poll EXCEPT !.at = at]
Taking(kind, e) == poll.at = "payload" /\ poll.todo # <<>> /\ Head(poll.todo) = [kind |-> kind, escrow |-> e]
OnTable == UNCHANGED <<chain, paid, cursor, began, users>>

\* Mutant: an escrow's row is not looked for first.
Unknown(e) == TRUE
NotFound(e) == status[e] = "none"

\* An escrow that has a row is skipped: it was processed before.
CreatedAgain(e) ==
  /\ Taking("created", e) /\ ~NotFound(e)
  /\ Done /\ OnTable /\ UNCHANGED <<tables, faults>>

\* An investor without an account: the event is put aside, a plain insertion.
CanBuffer(e) == Taking("created", e) /\ NotFound(e) /\ e \notin users
WritesBuffer(e) == e \notin buffered /\ buffered' = buffered \cup {e} /\ UNCHANGED <<status, records>>

Buffers(e) == CanBuffer(e) /\ WritesBuffer(e) /\ Done /\ OnTable /\ UNCHANGED faults

\* The same event again: the insertion throws.
BufferThrows(e) ==
  /\ CanBuffer(e) /\ e \in buffered
  /\ poll' = Idle /\ OnTable /\ UNCHANGED <<tables, faults>>

WritesRow(e) ==
  /\ Taking("created", e) /\ NotFound(e) /\ e \in users
  /\ status' = [status EXCEPT ![e] = "on_chain"] /\ UNCHANGED <<records, buffered>>

CreatesEscrow(e) == WritesRow(e) /\ Goes("record") /\ OnTable /\ UNCHANGED faults

At(at, e) == poll.at = at /\ poll.todo[1].escrow = e
WritesRecord(e) ==
  /\ At("record", e)
  /\ records' = [records EXCEPT ![e] = [n |-> @.n + 1, status |-> IF @.n = 0 THEN "claimable" ELSE @.status]]
  /\ UNCHANGED <<status, buffered>>

CreatesRecord(e) == WritesRecord(e) /\ Done /\ OnTable /\ UNCHANGED faults

\* A redemption of an escrow without a row, or redeemed before, changes nothing.
RedeemedInVain(e) ==
  /\ Taking("redeemed", e) /\ status[e] # "on_chain"
  /\ Done /\ OnTable /\ UNCHANGED <<tables, faults>>

WritesRedeemed(e) ==
  /\ Taking("redeemed", e) /\ status[e] = "on_chain"
  /\ status' = [status EXCEPT ![e] = "redeemed"] /\ UNCHANGED <<records, buffered>>

MarksRedeemed(e) == WritesRedeemed(e) /\ Goes("claim") /\ OnTable /\ UNCHANGED faults

\* Mutant: any redemption of the window marks every record.
ClaimsAll(e) == [x \in Escrows |-> IF records[x].n = 0 THEN records[x] ELSE [records[x] EXCEPT !.status = "claimed"]]
Claimed(e) == IF records[e].n = 0 THEN records ELSE [records EXCEPT ![e].status = "claimed"]
WritesClaimed(e) == At("claim", e) /\ records' = Claimed(e) /\ UNCHANGED <<status, buffered>>

MarksClaimed(e) == WritesClaimed(e) /\ Done /\ OnTable /\ UNCHANGED faults

Advance ==
  /\ poll.at = "payload" /\ poll.todo = <<>>
  /\ cursor' = poll.to /\ poll' = Idle
  /\ UNCHANGED <<chain, paid, began, users, tables, faults>>

-----------------------------------------------------------------------------
(* Failures *)

\* Of a call of the node: nothing is processed before they are all done.
CallFails ==
  /\ poll.at = "idle" /\ Fault("call")
  /\ UNCHANGED <<chain, paid, cursor, began, poll, users, tables>>

WriteFails ==
  /\ poll.at # "idle" /\ Fault("database")
  /\ poll' = Idle
  /\ UNCHANGED <<chain, paid, cursor, began, users, tables>>

\* A write is done and its answer lost.
AnswerLost(e) ==
  /\ Fault("answer")
  /\ \/ CanBuffer(e) /\ WritesBuffer(e)
     \/ WritesRow(e) \/ WritesRecord(e) \/ WritesRedeemed(e) \/ WritesClaimed(e)
  /\ poll' = Idle
  /\ UNCHANGED <<chain, paid, cursor, began, users>>

Restart ==
  /\ Fault("restart") /\ cursor' = Unset /\ poll' = Idle
  /\ UNCHANGED <<chain, paid, began, users, tables>>

-----------------------------------------------------------------------------

Process ==
  \E e \in Escrows :
    CreatedAgain(e) \/ Buffers(e) \/ BufferThrows(e) \/ CreatesEscrow(e) \/ CreatesRecord(e)
      \/ RedeemedInVain(e) \/ MarksRedeemed(e) \/ MarksClaimed(e)

Next ==
  \/ NothingHappens \/ Attach \/ \E e \in Escrows : Redeem(e) \/ Register(e)
  \/ Begin \/ Process \/ Advance
  \/ CallFails \/ WriteFails \/ Restart \/ \E e \in Escrows : AnswerLost(e)

Spec == Init /\ [][Next]_vars

\* The interval fires and a tick goes on.
FairSpec == Spec /\ WF_vars(Begin) /\ WF_vars(Process \/ Advance)

-----------------------------------------------------------------------------
(* Properties *)

Passed(b) == cursor # Unset /\ b >= began /\ b <= cursor

\* process-escrow-event.use-case.ts:81-85: however often a window is replayed,
\* an escrow gets at most one yield record.
OneRecord == \A e \in Escrows : records[e].n <= 1

\* process-escrow-event.use-case.ts:143-160: a record says claimed only of an
\* escrow for which a redemption was logged.
ClaimedWasRedeemed ==
  \A e \in Escrows : records[e].status = "claimed" => Logs("redeemed", e) # {}

\* event-poller.ts:113-130, process-escrow-event.use-case.ts:80-124: an investor
\* with an account has the record of an escrow attached while the poller runs.
Recorded ==
  \A e \in Members :
    (cursor # Unset /\ \E b \in Logs("attached", e) : b >= began) ~> (records[e].n = 1)

\* The same of a redemption logged after the attachment: the record is claimed.
RedemptionShown ==
  \A e \in Members :
    (cursor # Unset /\ \E b \in Logs("attached", e), c \in Logs("redeemed", e) : b >= began /\ c > b)
      ~> (records[e].status = "claimed")

-----------------------------------------------------------------------------
(* Said of the code and not so: each has a counterexample under the faults *)
(* above, which the README tells.                                           *)

\* process-escrow-event.use-case.ts:81: crash recovery: past the attachment an
\* escrow with a row has its record.
RowHasRecord ==
  \A e \in Escrows : status[e] # "none" /\ (\E b \in Logs("attached", e) : Passed(b)) => records[e].n = 1

\* event-poller.ts:240: the cursor is kept "so we can retry next tick": the
\* retries come through.
RetriesSucceed == \A b \in 1 .. MaxHeight : (b <= Height) ~> (cursor # Unset /\ cursor >= b)

\* process-escrow-event.use-case.ts:88: the event of an investor without an
\* account is kept as they "may register later": then they have a record.
LateUserRecorded ==
  \A b \in 1 .. MaxHeight, e \in Escrows : (Passed(b) /\ b \in Logs("attached", e) /\ e \in users) ~> (records[e].n = 1)

\* process-escrow-event.use-case.ts:168-169: the record is flipped to claimed once
\* the beneficiary redeems, whenever that is.
AnyRedemptionShown ==
  \A e \in Escrows :
    (\E b \in Logs("attached", e) : Passed(b)) /\ (\E c \in Logs("redeemed", e) : Passed(c)) /\ records[e].n = 1
      => records[e].status = "claimed"

\* docs/SDK.md:393, MuHavenEscrow.sol:209-213: the poller verifies the payout
\* before it takes a redemption for confirmed.
ClaimedIsPaid == \A e \in Escrows : records[e].status = "claimed" => e \in paid
=============================================================================
