-------------------------- MODULE ActivityIndexer --------------------------
(***************************************************************************)
(* The indexer behind /activity. Every tick reads the logs between its     *)
(* cursor and the head in chunks of BlockRange blocks, applies the registry's   *)
(* rotations as it meets them, saves the rows at the end and moves the     *)
(* cursor, which lives in memory only. The legs differ: a leg over a list  *)
(* the database supplies (transfers, yield claims, USDC sends) gives no    *)
(* logs when it fails; any other failure ends the tick and leaves the      *)
(* cursor, so that the next tick reads the same blocks again.              *)
(*                                                                         *)
(* A block holds one log. Rows are told apart by their block: the table's  *)
(* key makes a second insertion of a row do nothing. A rotation is known   *)
(* by the block of its log, 0 for what the database had at first.          *)
(***************************************************************************)
EXTENDS Integers, Sequences, FiniteSets

CONSTANTS
  BlockRange,     \* MAX_BLOCK_RANGE, blocks of a chunk
  Legs,      \* the legs whose failure is caught that this instance has
  MaxHeight, \* bound: height of the chain
  Faults,    \* what goes wrong in this instance
  MaxFaults  \* bound: how often

ASSUME IndexerAssumption ==
  /\ Legs \subseteq {"transfer", "claim", "send"}
  /\ BlockRange \in Nat \ {0} /\ MaxHeight \in Nat \ {0} /\ MaxFaults \in Nat
  /\ Faults \subseteq {"call", "leg", "database", "answer", "restart"}

None == "none"
Strict == {"trade"}     \* purchases, redemptions, queue claims, wraps
Kinds == {None, "rotation"} \cup Strict \cup Legs

VARIABLES
  log,    \* what each block of the chain holds, from block 1
  cursor, \* lastProcessedBlock; Unset is null
  began,  \* the first block the indexer answers for since it started
  tick,   \* where the tick is, the end of its range, its next chunk, its rows
  rows,   \* blocks whose row is in tax_events
  issuer, \* the rotation rwa_tokens.issuer_address is from
  faults

vars == <<log, cursor, began, tick, rows, issuer, faults>>

Height == Len(log)
Unset == MaxHeight + 1
Stopped == [at |-> "idle", to |-> 0, next |-> 0, found |-> {}, todo |-> {}]

TypeOK ==
  /\ log \in Seq(Kinds) /\ Height \in 1 .. MaxHeight
  /\ cursor \in 0 .. Unset /\ (cursor # Unset => cursor <= Height /\ began <= cursor + 1)
  /\ began \in 1 .. MaxHeight
  /\ tick \in [at : {"idle", "fetch", "apply"}, to : 0 .. MaxHeight, next : 0 .. MaxHeight + 1,
               found : SUBSET (1 .. MaxHeight), todo : SUBSET (1 .. MaxHeight)]
  /\ tick.at # "idle" => /\ cursor < tick.next /\ tick.next <= tick.to + 1 /\ tick.to <= Height
                        /\ \A b \in tick.todo : cursor < b
  /\ tick.at = "apply" <=> tick.todo # {}
  /\ rows \in SUBSET (1 .. MaxHeight) /\ issuer \in 0 .. MaxHeight
  /\ faults \in 0 .. MaxFaults

\* The chain has a block before the indexer starts.
Init ==
  /\ \E kind \in {None, "rotation"} : log = <<kind>>
  /\ cursor = Unset /\ began = 1 /\ tick = Stopped
  /\ rows = {} /\ issuer = 0 /\ faults = 0

Fault(kind) == kind \in Faults /\ faults < MaxFaults /\ faults' = faults + 1

Holds(b, kinds) == b \in 1 .. Height /\ log[b] \in kinds

-----------------------------------------------------------------------------

Mine(kind) ==
  /\ Height < MaxHeight /\ log' = Append(log, kind)
  /\ UNCHANGED <<cursor, began, tick, rows, issuer, faults>>

\* Mutant: the cursor at the head itself, which skips the block of the start.
FromHere(head) == head
Before(head) == head - 1

StartsAt == /\ cursor' = Before(Height) /\ began' = Height /\ UNCHANGED tick

\* A tick while another is running returns: this one begins when none is.
Begin ==
  /\ tick.at = "idle"
  /\ IF cursor = Unset THEN StartsAt
     ELSE /\ Height > cursor
          /\ tick' = [Stopped EXCEPT !.at = "fetch", !.to = Height, !.next = cursor + 1]
          /\ UNCHANGED <<cursor, began>>
  /\ UNCHANGED <<log, rows, issuer, faults>>

ChunkEnd == IF tick.next + BlockRange - 1 > tick.to THEN tick.to ELSE tick.next + BlockRange - 1

\* What the chunk's legs give when those of "failed" give nothing.
Given(failed) == {b \in tick.next .. ChunkEnd : Holds(b, (Strict \cup Legs) \ failed)}
Rotations == {b \in tick.next .. ChunkEnd : Holds(b, {"rotation"})}

Read(failed) ==
  /\ tick.at = "fetch" /\ tick.next <= tick.to
  /\ tick' = [tick EXCEPT !.at = IF Rotations # {} THEN "apply" ELSE "fetch",
                          !.next = ChunkEnd + 1, !.found = @ \cup Given(failed), !.todo = Rotations]
  /\ UNCHANGED <<log, cursor, began, rows, issuer>>

\* All the legs answer; or one whose failure is caught does not.
Fetch == Read({}) /\ UNCHANGED faults
LegFails == /\ Fault("leg") /\ \E leg \in Legs : Read({leg})

\* The chunk's rotations are written in the order of their logs.
Written(b) ==
  /\ tick.at = "apply" /\ b \in tick.todo /\ \A c \in tick.todo : b <= c
  /\ issuer' = b

Apply ==
  /\ \E b \in tick.todo :
       /\ Written(b)
       /\ tick' = [tick EXCEPT !.todo = @ \ {b}, !.at = IF tick.todo = {b} THEN "fetch" ELSE "apply"]
  /\ UNCHANGED <<log, cursor, began, rows, faults>>

\* Mutant: an insertion without ON CONFLICT DO NOTHING.
InsertPlain(new) == (new \cap rows = {}) /\ rows' = rows \cup new
Insert(new) == rows' = rows \cup new

Save ==
  /\ tick.at = "fetch" /\ tick.next > tick.to
  /\ Insert(tick.found)
  /\ cursor' = tick.to /\ tick' = Stopped
  /\ UNCHANGED <<log, began, issuer, faults>>

-----------------------------------------------------------------------------
(* Failures *)

\* Mutant: the failure is caught and the cursor goes to the end of its range.
CursorMoves == cursor' = tick.to
CursorStays == UNCHANGED cursor

\* Of a call of the node, at any point of a tick, or of a write of the database.
TickFails ==
  /\ tick.at # "idle"
  /\ Fault("call") \/ Fault("database")
  /\ CursorStays /\ tick' = Stopped
  /\ UNCHANGED <<log, began, rows, issuer>>

\* A write was done, but its answer is lost.
AnswerLost ==
  /\ Fault("answer")
  /\ \/ tick.at = "fetch" /\ tick.next > tick.to /\ Insert(tick.found) /\ UNCHANGED issuer
     \/ \E b \in tick.todo : Written(b) /\ UNCHANGED rows
  /\ CursorStays /\ tick' = Stopped
  /\ UNCHANGED <<log, began>>

Restart ==
  /\ Fault("restart")
  /\ cursor' = Unset /\ tick' = Stopped
  /\ UNCHANGED <<log, began, rows, issuer>>

-----------------------------------------------------------------------------

Next ==
  \/ \E kind \in Kinds : Mine(kind)
  \/ Begin \/ Fetch \/ LegFails \/ Apply \/ Save
  \/ TickFails \/ AnswerLost \/ Restart

Spec == Init /\ [][Next]_vars

\* The interval fires and a tick goes on.
FairSpec == Spec /\ WF_vars(Begin) /\ WF_vars(Fetch \/ Apply \/ Save)

-----------------------------------------------------------------------------
(* Properties *)

Covered == IF cursor = Unset THEN {} ELSE began .. cursor

\* tax-event-indexer.ts:322-345, :354-362: whatever tick fails and wherever,
\* each trade, queue claim and cash movement between the block the indexer
\* started in and the cursor has its row.
NothingLost == \A b \in Covered : Holds(b, Strict) => b \in rows

\* tax-event-indexer.ts:696-698, token-registry-handler.ts:16-20: the cursor
\* never passes a rotation that the registry of tokens does not have.
RotationsFollowed == \A b \in Covered : Holds(b, {"rotation"}) => issuer >= b

\* Behind the cursor nothing is missing: neither a row nor a rotation.
NothingMissed == NothingLost /\ RotationsFollowed

\* tax-event-indexer.ts:313-351: a log of a strict leg is in the table some
\* time after it was mined, whatever failed in between.
Indexed == \A b \in 1 .. MaxHeight : (cursor # Unset /\ b >= began /\ Holds(b, Strict)) ~> (b \in rows)

-----------------------------------------------------------------------------
(* Said of the code and not so: each has a counterexample under the faults *)
(* above, which the README tells.                                           *)

\* tax-event-indexer.ts:18-20: the same of every log, "without losing events".
EveryEvent == \A b \in Covered : Holds(b, Strict \cup Legs) => b \in rows

\* token-registry-handler.ts:19-20: a replay changes nothing, "no thrash": a
\* token's issuer never goes back to an earlier rotation.
NeverBack == [][issuer' >= issuer]_vars

\* dev-server.ts:463-465: the registry leg replaces the manual synchronisation:
\* an indexer that has read everything has the newest rotation.
RotationKept ==
  cursor = Height => \A b \in 1 .. Height : log[b] = "rotation" => issuer >= b
=============================================================================
