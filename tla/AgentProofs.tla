----------------------------- MODULE AgentProofs ----------------------------
(* Proofs about the agent's side of MCServices: the scoped sessions, the     *)
(* reinvest runner, the tiers, the intents and the purchases of the agent    *)
(* page, with the types each keeps.  They are instances for a record c of    *)
(* their constants, and so are their lemmas: one proof serves every instance *)
(* of a part.                                                                *)
EXTENDS MCServices, SequenceTheorems, FiniteSetTheorems, WellFoundedInduction, TLAPS

-----------------------------------------------------------------------------
(* Scoped sessions *)

SessionRow ==
  [status : {"active", "revoked", "expired"}, enable : {"pending", "enabled", "failed"}, nonce : Nat]
Phases == {"idle", "sync", "store", "gate", "install", "shares", "sign", "waiting", "landed"}
Attempt == [at : Phases, s : Nat, seen : Nat, enable : BOOLEAN]
Operation(c) == [client : Session(c)!Clients, s : Nat, seen : Nat, enable : BOOLEAN]

SessionTyped(c) ==
  /\ sessionRows \in Seq(SessionRow)
  /\ draft \in [at : {"none", "signed", "reveal"}, nonce : Nat, s : Nat]
  /\ key \in [c.Brokers -> Nat]
  /\ snapshots \in [c.Brokers -> SUBSET Nat]
  /\ clients \in [Session(c)!Clients -> Attempt]
  /\ mempool \subseteq Operation(c)
  /\ installed \subseteq Nat /\ accountNonce \in Nat
  /\ callbacks \in [c.Brokers -> SUBSET installed]
  /\ indexer \in [anchored : BOOLEAN, logs : SUBSET installed]

\* Only the newest session can be active, and the keys in the brokers only
\* become newer.
NewestOnly(c) ==
  /\ \A s \in Session(c)!LatestActive : s = Len(sessionRows)
  /\ draft.at = "reveal" => draft.s = Len(sessionRows)
  /\ \A b \in c.Brokers : key[b] <= Len(sessionRows)

\* An attempt is for the broker's key or for one before. What it saw of the
\* mirror is its own session, or the key has gone on to what it saw: then
\* the broker no longer signs.
Fits(k, attempt) ==
  /\ attempt.s <= key[k[1]]
  /\ attempt.seen \in {0, attempt.s} \/ (attempt.s < attempt.seen /\ attempt.seen <= key[k[1]])
  /\ attempt.at = "landed" => attempt.s \in installed

UnderKey(c) ==
  /\ \A k \in Session(c)!Clients : Fits(k, clients[k])
  /\ \A o \in mempool : o.s <= key[o.client[1]]
  /\ \A s \in installed : \E b \in c.Brokers : s <= key[b]

\* The inductive invariant of the sessions.
SessionInv(c) ==
  SessionTyped(c) /\ NewestOnly(c) /\ UnderKey(c) /\ Session(c)!KillSwitch /\ Session(c)!EnabledIsInstalled

OneBroker(c) == \A a, b \in c.Brokers : a = b

LEMMA SessionStarts == ASSUME NEW c, Session(c)!Init PROVE SessionInv(c)
<1>1. SessionTyped(c)
  <2>1. sessionRows \in Seq(SessionRow)
    BY DEF Session!Init
  <2>2. Session(c)!Idle \in Attempt
    BY DEF Session!Idle, Attempt, Phases
  <2>3. draft \in [at : {"none", "signed", "reveal"}, nonce : Nat, s : Nat]
    BY DEF Session!Init, Session!NoDraft
  <2> QED BY <2>1, <2>2, <2>3 DEF Session!Init, SessionTyped
<1>2. NewestOnly(c)
  BY DEF Session!Init, NewestOnly, Session!LatestActive, Session!NoDraft
<1>3. UnderKey(c)
  BY DEF Session!Init, UnderKey, Fits, Session!Idle, Session!Clients
<1>4. Session(c)!KillSwitch /\ Session(c)!EnabledIsInstalled
  BY DEF Session!Init, Session!KillSwitch, Session!EnabledIsInstalled
<1> QED BY <1>1, <1>2, <1>3, <1>4 DEF SessionInv

\* Steps of the user.
LEMMA SignKeeps == ASSUME NEW c, SessionInv(c), Session(c)!Sign PROVE SessionInv(c)'
BY DEF Session!Sign, SessionInv, SessionTyped, NewestOnly, UnderKey, Fits, Operation, Session!KillSwitch,
       Session!EnabledIsInstalled, Session!LatestActive, Session!Clients

LEMMA MintKeeps == ASSUME NEW c, SessionInv(c), Session(c)!Mint PROVE SessionInv(c)'
<1> DEFINE swept == Session(c)!Sweep
           new == [status |-> "active", enable |-> "pending", nonce |-> draft.nonce]
<1>1. /\ sessionRows \in Seq(SessionRow) /\ draft \in [at : {"none", "signed", "reveal"}, nonce : Nat, s : Nat]
      /\ draft.at = "signed" /\ Session(c)!LatestActive = {} /\ sessionRows' = Append(swept, new)
      /\ UNCHANGED <<overdue, key, snapshots, clients, mempool, installed, accountNonce, callbacks, indexer>>
      /\ draft' = [at |-> "reveal", nonce |-> 0, s |-> Len(sessionRows) + 1]
           \/ draft' = [at |-> "none", nonce |-> 0, s |-> 0]
  BY DEF SessionInv, SessionTyped, Session!Mint, Session!NoDraft
<1>2. /\ swept \in Seq(SessionRow) /\ Len(swept) = Len(sessionRows)
      /\ \A s \in DOMAIN sessionRows :
           swept[s].enable = sessionRows[s].enable /\ (swept[s].status # "active" \/ s \in overdue)
  <2>1. \A s \in DOMAIN sessionRows : ~(sessionRows[s].status = "active" /\ s \notin overdue)
    BY <1>1 DEF Session!LatestActive
  <2>2. \A s \in DOMAIN sessionRows :
          sessionRows[s] \in SessionRow /\ [sessionRows[s] EXCEPT !.status = "expired"] \in SessionRow
    <3>1. ASSUME NEW r \in SessionRow PROVE [r EXCEPT !.status = "expired"] \in SessionRow
      BY DEF SessionRow
    <3>2. \A s \in DOMAIN sessionRows : sessionRows[s] \in SessionRow
      BY <1>1
    <3> QED BY <3>1, <3>2
  <2>3. \A s \in DOMAIN sessionRows : swept[s] \in SessionRow
    BY <2>2 DEF Session!Sweep
  <2>4. swept \in Seq(SessionRow) /\ Len(swept) = Len(sessionRows)
    <3>1. Len(sessionRows) \in Nat /\ DOMAIN sessionRows = 1 .. Len(sessionRows)
      BY <1>1
    <3>2. swept \in [1 .. Len(sessionRows) -> SessionRow]
      BY <2>3, <3>1 DEF Session!Sweep
    <3> QED BY <3>1, <3>2
  <2> QED BY <2>1, <2>2, <2>4 DEF Session!Sweep
<1>3. new \in SessionRow
  BY <1>1 DEF SessionRow
<1> HIDE DEF swept, new
<1>4. /\ sessionRows' \in Seq(SessionRow) /\ Len(sessionRows') = Len(sessionRows) + 1
      /\ sessionRows'[Len(sessionRows) + 1] = new
      /\ \A s \in DOMAIN sessionRows : sessionRows'[s] = swept[s] /\ s \in DOMAIN sessionRows'
      /\ \A s \in DOMAIN sessionRows' : s \in DOMAIN sessionRows \/ s = Len(sessionRows) + 1
  BY <1>1, <1>2, <1>3
<1>5. SessionTyped(c)'
  BY <1>1, <1>4 DEF SessionInv, SessionTyped, Session!Clients, Operation
<1>6. NewestOnly(c)'
  <2>1. \A s \in (Session(c)!LatestActive)' : s = Len(sessionRows')
    BY <1>1, <1>2, <1>4 DEF Session!LatestActive
  <2>2. \A b \in c.Brokers : key[b] <= Len(sessionRows) /\ key[b] \in Nat
    BY DEF SessionInv, SessionTyped, NewestOnly
  <2> QED BY <1>1, <1>4, <2>1, <2>2 DEF NewestOnly
<1>7. UnderKey(c)'
  BY <1>1 DEF SessionInv, UnderKey, Fits, Session!Clients
<1>8. Session(c)!KillSwitch'
  BY <1>1 DEF SessionInv, Session!KillSwitch
<1>9. Session(c)!EnabledIsInstalled'
  BY <1>1, <1>2, <1>4 DEF SessionInv, Session!EnabledIsInstalled, new
<1> QED BY <1>5, <1>6, <1>7, <1>8, <1>9 DEF SessionInv

LEMMA PasteKeeps == ASSUME NEW c, SessionInv(c), NEW b \in c.Brokers, Session(c)!Paste(b) PROVE SessionInv(c)'
<1>1. SessionTyped(c)'
  BY DEF SessionInv, SessionTyped, Session!Paste, Session!NoDraft, Session!Clients, Operation
<1>2. \A x \in c.Brokers : key[x] \in Nat /\ key'[x] \in Nat /\ key[x] <= key'[x] /\ key'[x] <= Len(sessionRows)
  BY DEF SessionInv, SessionTyped, NewestOnly, Session!Paste
<1>3. NewestOnly(c)'
  BY <1>2 DEF SessionInv, NewestOnly, Session!Paste, Session!LatestActive, Session!NoDraft
<1>4. UnderKey(c)'
  <2>1. ASSUME NEW k \in Session(c)!Clients PROVE Fits(k, clients[k])'
    <3>1. k[1] \in c.Brokers /\ clients[k] \in Attempt /\ Fits(k, clients[k])
      BY DEF SessionInv, SessionTyped, UnderKey, Session!Clients
    <3> QED BY <1>2, <3>1 DEF Fits, Attempt, Session!Paste
  <2>2. ASSUME NEW o \in mempool PROVE o.s <= key'[o.client[1]]
    <3>1. o.client[1] \in c.Brokers /\ o.s \in Nat /\ o.s <= key[o.client[1]]
      BY DEF SessionInv, SessionTyped, UnderKey, Session!Clients, Operation
    <3> QED BY <1>2, <3>1
  <2>3. ASSUME NEW s \in installed PROVE \E x \in c.Brokers : s <= key'[x]
    <3>1. PICK x \in c.Brokers : s <= key[x]
      BY DEF SessionInv, UnderKey
    <3>2. s \in Nat /\ key[x] \in Nat /\ key'[x] \in Nat /\ key[x] <= key'[x]
      BY <1>2 DEF SessionInv, SessionTyped
    <3> QED BY <3>1, <3>2
  <2> QED BY <2>1, <2>2, <2>3 DEF UnderKey, Session!Paste, Session!Clients
<1>5. Session(c)!KillSwitch' /\ Session(c)!EnabledIsInstalled'
  BY DEF SessionInv, Session!KillSwitch, Session!EnabledIsInstalled, Session!Paste
<1> QED BY <1>1, <1>3, <1>4, <1>5 DEF SessionInv

\* One lemma for all steps of an attempt: it goes on as another that fits, and
\* what it submits is of its own session, as it saw it.
LEMMA AttemptKeeps ==
  ASSUME NEW c, SessionInv(c), NEW k \in Session(c)!Clients, NEW next \in Attempt, Fits(k, next),
         clients' = [clients EXCEPT ![k] = next],
         UNCHANGED <<sessionRows, overdue, draft, key, installed, accountNonce, indexer>>,
         snapshots' \in [c.Brokers -> SUBSET Nat], callbacks' \in [c.Brokers -> SUBSET installed],
         \A o \in mempool' :
           \/ o \in mempool
           \/ o \in Operation(c) /\ o.s <= key[o.client[1]] /\ o.seen \in {o.s, 0}
  PROVE  SessionInv(c)'
<1>1. SessionTyped(c)'
  BY DEF SessionInv, SessionTyped, Session!Clients, Operation
<1>2. NewestOnly(c)'
  BY DEF SessionInv, NewestOnly, Session!LatestActive
<1>3. UnderKey(c)'
  <2>1. ASSUME NEW x \in Session(c)!Clients PROVE Fits(x, clients[x])'
    <3>1. clients'[x] = IF x = k THEN next ELSE clients[x]
      BY DEF SessionInv, SessionTyped
    <3>2. Fits(x, clients[x])
      BY DEF SessionInv, UnderKey
    <3> QED BY <3>1, <3>2 DEF Fits
  <2>2. \A o \in mempool' : o.s <= key[o.client[1]]
    BY DEF SessionInv, UnderKey
  <2>3. \A s \in installed : \E b \in c.Brokers : s <= key[b]
    BY DEF SessionInv, UnderKey
  <2> QED BY <2>1, <2>2, <2>3 DEF UnderKey, Session!Clients
<1>4. Session(c)!KillSwitch' /\ Session(c)!EnabledIsInstalled'
  BY DEF SessionInv, Session!KillSwitch, Session!EnabledIsInstalled
<1> QED BY <1>1, <1>2, <1>3, <1>4 DEF SessionInv

\* The attempts most steps lead to: none, or the same elsewhere.
LEMMA EndsFits ==
  ASSUME NEW c, SessionInv(c), NEW k \in Session(c)!Clients
  PROVE  Session(c)!Idle \in Attempt /\ Fits(k, Session(c)!Idle)
<1>1. key[k[1]] \in Nat
  BY DEF SessionInv, SessionTyped, Session!Clients
<1> QED BY <1>1 DEF Session!Idle, Attempt, Phases, Fits

LEMMA TakesFits ==
  ASSUME NEW c, SessionInv(c), NEW k \in Session(c)!Clients, NEW at \in Phases \ {"landed"}, key[k[1]] \in Nat
  PROVE  LET next == [Session(c)!Idle EXCEPT !.at = at, !.s = key[k[1]]]
         IN  next \in Attempt /\ Fits(k, next)
<1>1. ASSUME NEW a \in Attempt, NEW s \in Nat
      PROVE  LET next == [a EXCEPT !.at = at, !.s = s]
             IN  next \in Attempt /\ next.at = at /\ next.s = s /\ next.seen = a.seen
  BY DEF Attempt
<1>2. Session(c)!Idle \in Attempt /\ Session(c)!Idle.seen = 0
  BY EndsFits DEF Session!Idle
<1> DEFINE next == [Session(c)!Idle EXCEPT !.at = at, !.s = key[k[1]]]
<1>3. next \in Attempt /\ next.at = at /\ next.s = key[k[1]] /\ next.seen = 0
  BY <1>1, <1>2
<1> HIDE DEF next
<1>4. Fits(k, next)
  BY <1>3 DEF Fits
<1> QED BY <1>3, <1>4 DEF next

LEMMA GoesFits ==
  ASSUME NEW c, SessionInv(c), NEW k \in Session(c)!Clients, NEW at \in Phases \ {"landed"}
  PROVE  [clients[k] EXCEPT !.at = at] \in Attempt /\ Fits(k, [clients[k] EXCEPT !.at = at])
<1>1. clients[k] \in Attempt /\ Fits(k, clients[k])
  BY DEF SessionInv, SessionTyped, UnderKey
<1> QED BY <1>1 DEF Attempt, Phases, Fits

\* A step of an attempt that touches nothing else.
LEMMA SessionQuiet ==
  ASSUME NEW c, SessionInv(c), NEW k \in Session(c)!Clients, NEW next \in Attempt, Fits(k, next),
         clients' = [clients EXCEPT ![k] = next], Session(c)!Untouched,
         snapshots' \in [c.Brokers -> SUBSET Nat], mempool' = mempool, callbacks' = callbacks
  PROVE  SessionInv(c)'
<1>1. callbacks \in [c.Brokers -> SUBSET installed]
  BY DEF SessionInv, SessionTyped
<1>2. UNCHANGED <<sessionRows, overdue, draft, key, installed, accountNonce, indexer>>
  BY DEF Session!Untouched
<1>3. callbacks' \in [c.Brokers -> SUBSET installed]
  BY <1>1
<1> QED BY <1>2, <1>3, AttemptKeeps

LEMMA ProbeKeeps ==
  ASSUME NEW c, SessionInv(c), NEW k \in Session(c)!Clients, Session(c)!Probe(k) PROVE SessionInv(c)'
<1>1. k[1] \in c.Brokers /\ key[k[1]] \in Nat /\ snapshots \in [c.Brokers -> SUBSET Nat]
  BY DEF SessionInv, SessionTyped, Session!Clients
<1>2. Session(c)!Untouched /\ UNCHANGED <<snapshots, mempool, callbacks>>
  BY DEF Session!Probe
<1>3. ASSUME NEW s \in Session(c)!ActiveSnapshot(k[1]),
             clients' = [clients EXCEPT ![k] = [Session(c)!Idle EXCEPT !.at = "gate", !.s = s]]
      PROVE  SessionInv(c)'
  <2> DEFINE next == [Session(c)!Idle EXCEPT !.at = "gate", !.s = key[k[1]]]
  <2>1. next \in Attempt /\ Fits(k, next)
    BY <1>1, TakesFits DEF Phases
  <2>2. s = key[k[1]]
    BY DEF Session!ActiveSnapshot
  <2> QED BY <1>1, <1>2, <1>3, <2>1, <2>2, SessionQuiet
<1>4. ASSUME clients' = [clients EXCEPT ![k] = [clients[k] EXCEPT !.at = "sync"]] PROVE SessionInv(c)'
  <2>1. [clients[k] EXCEPT !.at = "sync"] \in Attempt /\ Fits(k, [clients[k] EXCEPT !.at = "sync"])
    BY GoesFits DEF Phases
  <2> QED BY <1>1, <1>2, <1>4, <2>1, SessionQuiet
<1> QED BY <1>3, <1>4 DEF Session!Probe, Session!Goes

LEMMA SyncKeeps ==
  ASSUME NEW c, SessionInv(c), NEW k \in Session(c)!Clients, Session(c)!Sync(k) PROVE SessionInv(c)'
<1>1. k[1] \in c.Brokers /\ key[k[1]] \in Nat /\ snapshots \in [c.Brokers -> SUBSET Nat]
  BY DEF SessionInv, SessionTyped, Session!Clients
<1>2. Session(c)!Untouched /\ UNCHANGED <<snapshots, mempool, callbacks>>
  BY DEF Session!Sync
<1>3. CASE Session(c)!Ends(k)
  BY <1>1, <1>2, <1>3, EndsFits, SessionQuiet DEF Session!Ends
<1>4. ASSUME NEW s \in Session(c)!LatestActive \cap {key[k[1]]},
             clients' = [clients EXCEPT ![k] = [Session(c)!Idle EXCEPT !.at = "store", !.s = s]]
      PROVE  SessionInv(c)'
  <2> DEFINE next == [Session(c)!Idle EXCEPT !.at = "store", !.s = key[k[1]]]
  <2>1. next \in Attempt /\ Fits(k, next)
    BY <1>1, TakesFits DEF Phases
  <2> QED BY <1>1, <1>2, <1>4, <2>1, SessionQuiet
<1> QED BY <1>3, <1>4 DEF Session!Sync

LEMMA SnapshotKeeps ==
  ASSUME NEW c, SessionInv(c), NEW k \in Session(c)!Clients, Session(c)!Store(k) PROVE SessionInv(c)'
<1>1. Session(c)!Untouched /\ UNCHANGED <<mempool, callbacks>>
  BY DEF Session!Store
<1>2. snapshots' \in [c.Brokers -> SUBSET Nat]
  BY DEF Session!Store, SessionInv, SessionTyped, Attempt
<1>3. CASE Session(c)!Ends(k)
  BY <1>1, <1>2, <1>3, EndsFits, SessionQuiet DEF Session!Ends
<1>4. CASE Session(c)!Goes(k, "gate")
  <2>1. [clients[k] EXCEPT !.at = "gate"] \in Attempt /\ Fits(k, [clients[k] EXCEPT !.at = "gate"])
    BY GoesFits DEF Phases
  <2> QED BY <1>1, <1>2, <1>4, <2>1, SessionQuiet DEF Session!Goes
<1> QED BY <1>3, <1>4 DEF Session!Store

\* With one broker, an enabled row is one whose key the broker has held: an
\* attempt of another session that goes on with it is of an earlier key.
LEMMA ReadsFits ==
  ASSUME NEW c, SessionInv(c), OneBroker(c), NEW k \in Session(c)!Clients, NEW s \in Session(c)!LatestActive,
         sessionRows[s].enable = "enabled" \/ s = clients[k].s,
         NEW at \in Phases \ {"landed"}, NEW enable \in BOOLEAN
  PROVE  LET next == [clients[k] EXCEPT !.at = at, !.seen = s, !.enable = enable]
         IN  next \in Attempt /\ Fits(k, next)
<1> DEFINE next == [clients[k] EXCEPT !.at = at, !.seen = s, !.enable = enable]
<1>1. /\ k[1] \in c.Brokers /\ key[k[1]] \in Nat /\ clients[k] \in Attempt /\ Fits(k, clients[k])
      /\ key[k[1]] <= Len(sessionRows) /\ s = Len(sessionRows) /\ Len(sessionRows) \in Nat
      /\ s \in DOMAIN sessionRows
  BY DEF SessionInv, SessionTyped, NewestOnly, UnderKey, Session!Clients, Session!LatestActive
<1>2. next \in Attempt
  BY <1>1 DEF Attempt, Phases
<1>3. clients[k].s = s \/ (clients[k].s < s /\ s <= key[k[1]])
  <2>1. CASE s = clients[k].s
    BY <2>1
  <2>2. CASE sessionRows[s].enable = "enabled"
    <3>1. s \in installed
      BY <1>1, <2>2 DEF SessionInv, Session!EnabledIsInstalled
    <3>2. PICK b \in c.Brokers : s <= key[b]
      BY <3>1 DEF SessionInv, UnderKey
    <3>3. s = key[k[1]]
      BY <1>1, <3>2 DEF OneBroker
    <3>4. clients[k].s \in Nat /\ clients[k].s <= key[k[1]]
      BY <1>1 DEF Attempt, Fits
    <3> QED BY <1>1, <3>3, <3>4
  <2> QED BY <2>1, <2>2
<1>4. Fits(k, next)
  BY <1>1, <1>3 DEF Fits, Attempt, Phases
<1> QED BY <1>2, <1>4

LEMMA GateKeeps ==
  ASSUME NEW c, SessionInv(c), OneBroker(c), NEW k \in Session(c)!Clients, Session(c)!Gate(k)
  PROVE  SessionInv(c)'
<1>1. Session(c)!Untouched /\ UNCHANGED <<mempool, callbacks>>
  BY DEF Session!Gate
<1>2. snapshots' \in [c.Brokers -> SUBSET Nat]
  <2>1. snapshots \in [c.Brokers -> SUBSET Nat] /\ k[1] \in c.Brokers
    BY DEF SessionInv, SessionTyped, Session!Clients
  <2>2. \/ snapshots' = snapshots
        \/ snapshots' = [snapshots EXCEPT ![k[1]] = @ \ {clients[k].s}]
    BY DEF Session!Gate, Session!Gone
  <2> QED BY <2>1, <2>2
<1>3. CASE Session(c)!Ends(k)
  BY <1>1, <1>2, <1>3, EndsFits, SessionQuiet DEF Session!Ends
<1>4. CASE Session(c)!Reads(k, 0, "shares", FALSE)
  <2> DEFINE next == [clients[k] EXCEPT !.at = "shares", !.seen = 0, !.enable = FALSE]
  <2>1. clients[k] \in Attempt /\ Fits(k, clients[k])
    BY DEF SessionInv, SessionTyped, UnderKey
  <2>2. next \in Attempt /\ Fits(k, next)
    BY <2>1 DEF Attempt, Phases, Fits
  <2> QED BY <1>1, <1>2, <1>4, <2>2, SessionQuiet DEF Session!Reads
<1>5. ASSUME NEW s \in Session(c)!LatestActive, NEW at \in Phases \ {"landed"}, NEW enable \in BOOLEAN,
             Session(c)!Reads(k, s, at, enable), sessionRows[s].enable = "enabled" \/ s = clients[k].s
      PROVE  SessionInv(c)'
  <2> DEFINE next == [clients[k] EXCEPT !.at = at, !.seen = s, !.enable = enable]
  <2>1. next \in Attempt /\ Fits(k, next)
    BY <1>5, ReadsFits
  <2> QED BY <1>1, <1>2, <1>5, <2>1, SessionQuiet DEF Session!Reads
<1>6. ASSUME NEW s \in Session(c)!LatestActive, Session(c)!Compared(k, s) PROVE SessionInv(c)'
  <2>1. CASE s = clients[k].s
    BY <1>5, <1>6, <2>1 DEF Session!Compared, Phases
  <2>2. CASE s # clients[k].s
    BY <1>3, <1>6, <2>2 DEF Session!Compared
  <2> QED BY <2>1, <2>2
<1>7. ASSUME NEW s \in Session(c)!LatestActive, sessionRows[s].enable = "enabled", Session(c)!Reads(k, s, "shares", FALSE)
      PROVE  SessionInv(c)'
  BY <1>5, <1>7 DEF Phases
<1> QED BY <1>3, <1>4, <1>6, <1>7 DEF Session!Gate, Session!Gone

LEMMA InstallKeeps ==
  ASSUME NEW c, SessionInv(c), NEW k \in Session(c)!Clients, Session(c)!Install(k) \/ Session(c)!Shares(k)
  PROVE  SessionInv(c)'
<1>1. Session(c)!Untouched /\ UNCHANGED <<snapshots, mempool, callbacks>> /\ snapshots \in [c.Brokers -> SUBSET Nat]
  BY DEF Session!Install, Session!Shares, SessionInv, SessionTyped
<1>2. CASE Session(c)!Ends(k)
  BY <1>1, <1>2, EndsFits, SessionQuiet DEF Session!Ends
<1>3. ASSUME NEW at \in Phases \ {"landed"}, Session(c)!Goes(k, at) PROVE SessionInv(c)'
  <2>1. [clients[k] EXCEPT !.at = at] \in Attempt /\ Fits(k, [clients[k] EXCEPT !.at = at])
    BY GoesFits
  <2> QED BY <1>1, <1>3, <2>1, SessionQuiet DEF Session!Goes
<1>4. "shares" \in Phases \ {"landed"} /\ "sign" \in Phases \ {"landed"}
  BY DEF Phases
<1> QED BY <1>2, <1>3, <1>4 DEF Session!Install, Session!Shares

\* The broker signs only for the key it holds: the attempt has seen its own
\* session, or nothing.
LEMMA SubmitKeeps ==
  ASSUME NEW c, SessionInv(c), NEW k \in Session(c)!Clients, Session(c)!Submit(k) PROVE SessionInv(c)'
<1> DEFINE op == [client |-> k, s |-> clients[k].s, seen |-> clients[k].seen, enable |-> clients[k].enable]
<1>1. /\ k[1] \in c.Brokers /\ key[k[1]] \in Nat /\ snapshots \in [c.Brokers -> SUBSET Nat]
      /\ clients[k] \in Attempt /\ Fits(k, clients[k]) /\ callbacks \in [c.Brokers -> SUBSET installed]
  BY DEF SessionInv, SessionTyped, UnderKey, Session!Clients
<1>2. Session(c)!Untouched /\ UNCHANGED <<snapshots, callbacks>>
  BY DEF Session!Submit
<1>3. CASE Session(c)!Ends(k) /\ mempool' = mempool
  BY <1>1, <1>2, <1>3, EndsFits, SessionQuiet DEF Session!Ends
<1>4. CASE mempool' = mempool \cup {op} /\ Session(c)!BrokerSigns(k)
  <2>1. op \in Operation(c) /\ op.client = k /\ op.s = clients[k].s /\ op.seen = clients[k].seen
    BY <1>1 DEF Operation, Attempt
  <2>2. op.s <= key[op.client[1]] /\ op.seen \in {op.s, 0}
    BY <1>1, <1>4, <2>1 DEF Fits, Attempt, Session!BrokerSigns
  <2> HIDE DEF op
  <2>3. \A o \in mempool' :
          \/ o \in mempool
          \/ o \in Operation(c) /\ o.s <= key[o.client[1]] /\ o.seen \in {o.s, 0}
    BY <1>4, <2>1, <2>2
  <2>4. UNCHANGED <<sessionRows, overdue, draft, key, installed, accountNonce, indexer>>
    BY <1>2 DEF Session!Untouched
  <2>5. snapshots' \in [c.Brokers -> SUBSET Nat] /\ callbacks' \in [c.Brokers -> SUBSET installed]
    BY <1>1, <1>2
  <2>6. ASSUME NEW next \in Attempt, Fits(k, next), clients' = [clients EXCEPT ![k] = next] PROVE SessionInv(c)'
    BY <2>3, <2>4, <2>5, <2>6, AttemptKeeps
  <2>7. CASE Session(c)!Ends(k)
    BY <2>6, <2>7, EndsFits DEF Session!Ends
  <2>8. CASE Session(c)!Goes(k, "waiting")
    <3>1. [clients[k] EXCEPT !.at = "waiting"] \in Attempt /\ Fits(k, [clients[k] EXCEPT !.at = "waiting"])
      BY GoesFits DEF Phases
    <3> QED BY <2>6, <2>8, <3>1 DEF Session!Goes
  <2> QED BY <2>7, <2>8 DEF Session!Submit
<1> QED BY <1>3, <1>4 DEF Session!Submit

LEMMA ReceiptKeeps ==
  ASSUME NEW c, SessionInv(c), NEW k \in Session(c)!Clients, Session(c)!Receipt(k) PROVE SessionInv(c)'
<1>1. /\ clients[k].s \in installed /\ snapshots \in [c.Brokers -> SUBSET Nat]
      /\ callbacks \in [c.Brokers -> SUBSET installed]
  BY DEF Session!Receipt, SessionInv, SessionTyped, UnderKey, Fits
<1>2. callbacks' \in [c.Brokers -> SUBSET installed]
  BY <1>1 DEF Session!Receipt
<1>3. UNCHANGED <<sessionRows, overdue, draft, key, installed, accountNonce, indexer, snapshots, mempool>>
  BY DEF Session!Receipt, Session!Untouched
<1>4. clients' = [clients EXCEPT ![k] = Session(c)!Idle]
  BY DEF Session!Receipt, Session!Ends
<1> QED BY <1>1, <1>2, <1>3, <1>4, EndsFits, AttemptKeeps

LEMMA TimeoutKeeps ==
  ASSUME NEW c, SessionInv(c), NEW k \in Session(c)!Clients, Session(c)!Timeout(k) PROVE SessionInv(c)'
<1>1. Session(c)!Untouched /\ UNCHANGED <<snapshots, mempool, callbacks>> /\ Session(c)!Ends(k)
  BY DEF Session!Timeout
<1>2. snapshots \in [c.Brokers -> SUBSET Nat]
  BY DEF SessionInv, SessionTyped
<1> QED BY <1>1, <1>2, EndsFits, SessionQuiet DEF Session!Ends

\* Steps of the chain and of the backend.
LEMMA LandKeeps ==
  ASSUME NEW c, SessionInv(c), NEW o \in mempool, Session(c)!Land(o) PROVE SessionInv(c)'
<1> DEFINE k == o.client
<1>1. /\ k \in Session(c)!Clients /\ k[1] \in c.Brokers /\ o.s \in Nat /\ o.s <= key[k[1]]
      /\ clients \in [Session(c)!Clients -> Attempt] /\ o.enable \in BOOLEAN
  BY DEF SessionInv, SessionTyped, UnderKey, Operation, Session!Clients
<1>2. /\ UNCHANGED <<sessionRows, overdue, draft, key, snapshots, callbacks>> /\ mempool' \subseteq mempool
      /\ installed \subseteq installed' /\ installed' \subseteq installed \cup {o.s}
  BY DEF Session!Land
<1>3. /\ accountNonce' \in Nat /\ indexer' \in [anchored : BOOLEAN, logs : SUBSET installed']
  <2>1. accountNonce' \in Nat
    BY DEF SessionInv, SessionTyped, Session!Land
  <2>2. indexer \in [anchored : BOOLEAN, logs : SUBSET installed]
    BY DEF SessionInv, SessionTyped
  <2>3. ASSUME indexer' = indexer PROVE indexer' \in [anchored : BOOLEAN, logs : SUBSET installed']
    BY <1>2, <2>2, <2>3
  <2>4. ASSUME indexer' = [indexer EXCEPT !.logs = indexer.logs \cup {o.s}], o.s \in installed'
        PROVE  indexer' \in [anchored : BOOLEAN, logs : SUBSET installed']
    BY <1>2, <2>2, <2>4
  <2>5. \/ indexer' = indexer
        \/ indexer' = [indexer EXCEPT !.logs = indexer.logs \cup {o.s}] /\ o.s \in installed'
    BY DEF Session!Land
  <2> QED BY <2>1, <2>3, <2>4, <2>5
<1>4. \/ clients' = clients
      \/ /\ clients' = [clients EXCEPT ![k].at = "landed"] /\ clients[k].s = o.s /\ o.s \in installed'
  BY <1>1 DEF Session!Land, Session!Valid
<1> HIDE DEF k
<1>5. SessionTyped(c)'
  <2>1. clients' \in [Session(c)!Clients -> Attempt]
    <3>1. [clients[k] EXCEPT !.at = "landed"] \in Attempt
      BY <1>1 DEF Attempt, Phases
    <3> QED BY <1>1, <1>4, <3>1
  <2>2. callbacks' \in [c.Brokers -> SUBSET installed'] /\ installed' \subseteq Nat
    BY <1>1, <1>2 DEF SessionInv, SessionTyped
  <2>3. (Session(c)!Clients)' = Session(c)!Clients /\ Operation(c)' = Operation(c)
    BY DEF Session!Clients, Operation
  <2> QED BY <1>2, <1>3, <2>1, <2>2, <2>3 DEF SessionInv, SessionTyped
<1>6. NewestOnly(c)'
  BY <1>2 DEF SessionInv, NewestOnly, Session!LatestActive
<1>7. UnderKey(c)'
  <2>1. ASSUME NEW x \in Session(c)!Clients PROVE Fits(x, clients[x])'
    <3>1. Fits(x, clients[x]) /\ clients[x] \in Attempt
      BY <1>1 DEF SessionInv, UnderKey
    <3>2. CASE clients'[x] = clients[x]
      BY <1>2, <3>1, <3>2 DEF Fits
    <3>3. CASE x = k /\ clients'[x] = [clients[x] EXCEPT !.at = "landed"] /\ clients[x].s = o.s /\ o.s \in installed'
      <4>1. clients'[x].s = clients[x].s /\ clients'[x].seen = clients[x].seen
        BY <3>1, <3>3 DEF Attempt
      <4> QED BY <1>2, <3>1, <3>3, <4>1 DEF Fits
    <3> QED BY <1>1, <1>4, <3>2, <3>3
  <2>2. \A p \in mempool' : p.s <= key'[p.client[1]]
    BY <1>2 DEF SessionInv, UnderKey
  <2>3. \A s \in installed' : \E b \in c.Brokers : s <= key'[b]
    BY <1>1, <1>2 DEF SessionInv, UnderKey
  <2> QED BY <2>1, <2>2, <2>3 DEF UnderKey, Session!Clients
<1>8. Session(c)!KillSwitch' /\ Session(c)!EnabledIsInstalled'
  BY <1>2 DEF SessionInv, Session!KillSwitch, Session!EnabledIsInstalled
<1> QED BY <1>5, <1>6, <1>7, <1>8 DEF SessionInv

\* Rows change their status or, of an installed permission, what they say of
\* it; nothing becomes active again.
LEMMA RowsKeep ==
  ASSUME NEW c, SessionInv(c), sessionRows' \in Seq(SessionRow), Len(sessionRows') = Len(sessionRows),
         \A s \in DOMAIN sessionRows :
           /\ sessionRows'[s].status = "active" => sessionRows[s].status = "active"
           /\ sessionRows'[s].enable = "enabled" => s \in installed,
         overdue \subseteq overdue', UNCHANGED <<draft, key, snapshots, clients, mempool, installed, accountNonce>>,
         callbacks' \in [c.Brokers -> SUBSET installed], indexer' \in [anchored : BOOLEAN, logs : SUBSET installed]
  PROVE  SessionInv(c)'
<1>1. DOMAIN sessionRows' = DOMAIN sessionRows
  BY DEF SessionInv, SessionTyped
<1>2. SessionTyped(c)'
  BY DEF SessionInv, SessionTyped, Session!Clients, Operation
<1>3. NewestOnly(c)'
  BY <1>1 DEF SessionInv, NewestOnly, Session!LatestActive
<1>4. UnderKey(c)'
  BY DEF SessionInv, UnderKey, Fits, Session!Clients
<1>5. Session(c)!KillSwitch' /\ Session(c)!EnabledIsInstalled'
  BY <1>1 DEF SessionInv, Session!KillSwitch, Session!EnabledIsInstalled
<1> QED BY <1>2, <1>3, <1>4, <1>5 DEF SessionInv

LEMMA RowSet ==
  ASSUME NEW c, SessionInv(c), NEW s \in DOMAIN sessionRows, NEW entry \in SessionRow
  PROVE  /\ [sessionRows EXCEPT ![s] = entry] \in Seq(SessionRow)
         /\ Len([sessionRows EXCEPT ![s] = entry]) = Len(sessionRows)
         /\ sessionRows[s] \in SessionRow
BY DEF SessionInv, SessionTyped

LEMMA RowsTyped ==
  ASSUME NEW c, SessionInv(c)
  PROVE  /\ sessionRows \in Seq(SessionRow)
         /\ \A s \in DOMAIN sessionRows : sessionRows[s].enable = "enabled" => s \in installed
         /\ callbacks \in [c.Brokers -> SUBSET installed] /\ indexer \in [anchored : BOOLEAN, logs : SUBSET installed]
BY DEF SessionInv, SessionTyped, Session!EnabledIsInstalled

LEMMA RevokeKeeps ==
  ASSUME NEW c, SessionInv(c), NEW s \in DOMAIN sessionRows, Session(c)!Revoke(s) PROVE SessionInv(c)'
<1>1. sessionRows[s] \in SessionRow
  BY RowSet, RowsTyped
<1>2. [sessionRows[s] EXCEPT !.status = "revoked"] \in SessionRow
  BY <1>1 DEF SessionRow
<1>3. sessionRows' = [sessionRows EXCEPT ![s] = [sessionRows[s] EXCEPT !.status = "revoked"]]
  BY DEF Session!Revoke
<1>4. sessionRows' \in Seq(SessionRow) /\ Len(sessionRows') = Len(sessionRows)
  BY <1>2, <1>3, RowSet
<1>5. \A x \in DOMAIN sessionRows :
        /\ sessionRows'[x].status = "active" => sessionRows[x].status = "active"
        /\ sessionRows'[x].enable = "enabled" => x \in installed
  BY <1>1, <1>3, RowsTyped DEF SessionRow
<1> QED BY <1>4, <1>5, RowsTyped, RowsKeep DEF Session!Revoke

LEMMA ExpireKeeps ==
  ASSUME NEW c, SessionInv(c), NEW s \in DOMAIN sessionRows, Session(c)!Expire(s) PROVE SessionInv(c)'
BY RowsTyped, RowsKeep DEF Session!Expire

LEMMA WatchdogKeeps ==
  ASSUME NEW c, SessionInv(c), NEW s \in DOMAIN sessionRows, Session(c)!Watchdog(s) PROVE SessionInv(c)'
<1>1. sessionRows[s] \in SessionRow
  BY RowSet, RowsTyped
<1>2. [sessionRows[s] EXCEPT !.enable = "failed"] \in SessionRow
  BY <1>1 DEF SessionRow
<1>3. sessionRows' = [sessionRows EXCEPT ![s] = [sessionRows[s] EXCEPT !.enable = "failed"]]
  BY DEF Session!Watchdog
<1>4. sessionRows' \in Seq(SessionRow) /\ Len(sessionRows') = Len(sessionRows)
  BY <1>2, <1>3, RowSet
<1>5. \A x \in DOMAIN sessionRows :
        /\ sessionRows'[x].status = "active" => sessionRows[x].status = "active"
        /\ sessionRows'[x].enable = "enabled" => x \in installed
  BY <1>1, <1>3, RowsTyped DEF SessionRow
<1> QED BY <1>4, <1>5, RowsTyped, RowsKeep DEF Session!Watchdog, Session!Rest

\* The backend is told only of what is installed.
LEMMA EnabledSets ==
  ASSUME NEW c, SessionInv(c), NEW s \in DOMAIN sessionRows, s \in installed, Session(c)!Enabled(s)
  PROVE  /\ sessionRows' \in Seq(SessionRow) /\ Len(sessionRows') = Len(sessionRows)
         /\ \A x \in DOMAIN sessionRows :
              /\ sessionRows'[x].status = "active" => sessionRows[x].status = "active"
              /\ sessionRows'[x].enable = "enabled" => x \in installed
<1>1. sessionRows[s] \in SessionRow
  BY RowSet, RowsTyped
<1>2. [sessionRows[s] EXCEPT !.enable = "enabled"] \in SessionRow
  BY <1>1 DEF SessionRow
<1>3. \/ sessionRows' = sessionRows
      \/ sessionRows' = [sessionRows EXCEPT ![s] = [sessionRows[s] EXCEPT !.enable = "enabled"]]
  BY DEF Session!Enabled
<1>4. sessionRows' \in Seq(SessionRow) /\ Len(sessionRows') = Len(sessionRows)
  <2> DEFINE entry == [sessionRows[s] EXCEPT !.enable = "enabled"]
  <2>1. entry \in SessionRow
    BY <1>2
  <2>2. sessionRows' = sessionRows \/ sessionRows' = [sessionRows EXCEPT ![s] = entry]
    BY <1>3
  <2> HIDE DEF entry
  <2>3. [sessionRows EXCEPT ![s] = entry] \in Seq(SessionRow) /\ Len([sessionRows EXCEPT ![s] = entry]) = Len(sessionRows)
    BY <2>1, RowSet
  <2>4. sessionRows \in Seq(SessionRow)
    BY RowsTyped
  <2> QED BY <2>2, <2>3, <2>4
<1>5. \A x \in DOMAIN sessionRows :
        /\ sessionRows'[x].status = "active" => sessionRows[x].status = "active"
        /\ sessionRows'[x].enable = "enabled" => x \in installed
  BY <1>1, <1>3, RowsTyped DEF SessionRow
<1> QED BY <1>4, <1>5


LEMMA CallbackKeeps ==
  ASSUME NEW c, SessionInv(c), NEW b \in c.Brokers, NEW s \in Session(c)!Id, Session(c)!Callback(b, s)
  PROVE  SessionInv(c)'
<1>1. s \in installed /\ callbacks' \in [c.Brokers -> SUBSET installed]
  BY RowsTyped DEF Session!Callback
<1>2. s \in DOMAIN sessionRows
  <2>1. PICK x \in c.Brokers : s <= key[x]
    BY <1>1 DEF SessionInv, UnderKey
  <2>2. s \in Nat /\ key[x] \in Nat /\ key[x] <= Len(sessionRows)
    BY <1>1, <2>1 DEF SessionInv, SessionTyped, NewestOnly
  <2>3. 1 <= s
    BY <2>2 DEF Session!Id
  <2>4. Len(sessionRows) \in Nat /\ DOMAIN sessionRows = 1 .. Len(sessionRows)
    BY RowsTyped
  <2> QED BY <2>1, <2>2, <2>3, <2>4
<1>3. UNCHANGED <<indexer, overdue, draft, key, snapshots, clients, mempool, installed, accountNonce>>
  BY DEF Session!Callback, Session!Rest
<1>4. CASE Session(c)!Enabled(s)
  BY <1>1, <1>2, <1>3, <1>4, EnabledSets, RowsTyped, RowsKeep
<1>5. CASE sessionRows' = sessionRows
  BY <1>1, <1>3, <1>5, RowsTyped, RowsKeep
<1> QED BY <1>4, <1>5 DEF Session!Callback

LEMMA SessionTickKeeps ==
  ASSUME NEW c, SessionInv(c), NEW s \in DOMAIN sessionRows, Session(c)!Tick(s) PROVE SessionInv(c)'
<1>1. s \in installed /\ indexer' \in [anchored : BOOLEAN, logs : SUBSET installed]
  BY RowsTyped DEF Session!Tick
<1>2. UNCHANGED <<callbacks, overdue, draft, key, snapshots, clients, mempool, installed, accountNonce>>
  BY DEF Session!Tick, Session!Rest
<1>3. CASE Session(c)!Enabled(s)
  BY <1>1, <1>2, <1>3, EnabledSets, RowsTyped, RowsKeep
<1>4. CASE sessionRows' = sessionRows
  BY <1>1, <1>2, <1>4, RowsTyped, RowsKeep
<1> QED BY <1>3, <1>4 DEF Session!Tick

LEMMA CursorKeeps ==
  ASSUME NEW c, SessionInv(c), Session(c)!Anchor \/ Session(c)!Restart PROVE SessionInv(c)'
<1>1. indexer' \in [anchored : BOOLEAN, logs : SUBSET installed]
  <2>1. indexer \in [anchored : BOOLEAN, logs : SUBSET installed]
    BY RowsTyped
  <2>2. CASE Session(c)!Anchor
    <3>1. indexer' = [indexer EXCEPT !.anchored = TRUE]
      BY <2>2 DEF Session!Anchor
    <3> QED BY <2>1, <3>1
  <2>3. CASE Session(c)!Restart
    <3>1. indexer' = [anchored |-> FALSE, logs |-> {}]
      BY <2>3 DEF Session!Restart
    <3> QED BY <3>1
  <2> QED BY <2>2, <2>3
<1>2. UNCHANGED <<sessionRows, callbacks, overdue, draft, key, snapshots, clients, mempool, installed, accountNonce>>
  BY DEF Session!Anchor, Session!Restart, Session!Rest
<1> QED BY <1>1, <1>2, RowsTyped, RowsKeep

LEMMA SessionSteps ==
  ASSUME NEW c, SessionInv(c), OneBroker(c), Session(c)!Next PROVE SessionInv(c)'
<1>1. CASE Session(c)!Sign \/ Session(c)!Mint \/ Session(c)!Anchor \/ Session(c)!Restart
  BY <1>1, SignKeeps, MintKeeps, CursorKeeps
<1>2. ASSUME NEW b \in c.Brokers, Session(c)!Paste(b) PROVE SessionInv(c)'
  BY <1>2, PasteKeeps
<1>3. ASSUME NEW s \in DOMAIN sessionRows,
             Session(c)!Revoke(s) \/ Session(c)!Expire(s) \/ Session(c)!Watchdog(s) \/ Session(c)!Tick(s)
      PROVE  SessionInv(c)'
  BY <1>3, RevokeKeeps, ExpireKeeps, WatchdogKeeps, SessionTickKeeps
<1>4. ASSUME NEW k \in Session(c)!Clients, Session(c)!Step(k) PROVE SessionInv(c)'
  BY <1>4, ProbeKeeps, SyncKeeps, SnapshotKeeps, GateKeeps, InstallKeeps, SubmitKeeps, ReceiptKeeps, TimeoutKeeps
     DEF Session!Step
<1>5. ASSUME NEW o \in mempool, Session(c)!Land(o) PROVE SessionInv(c)'
  BY <1>5, LandKeeps
<1>6. ASSUME NEW b \in c.Brokers, NEW s \in Session(c)!Id, Session(c)!Callback(b, s) PROVE SessionInv(c)'
  BY <1>6, CallbackKeeps
<1> QED BY <1>1, <1>2, <1>3, <1>4, <1>5, <1>6 DEF Session!Next

LEMMA SessionStutters ==
  ASSUME NEW c, SessionInv(c), UNCHANGED sessionVars PROVE SessionInv(c)'
<1>1. UNCHANGED <<sessionRows, callbacks, indexer, overdue, draft, key, snapshots, clients, mempool, installed, accountNonce>>
  BY DEF sessionVars
<1> QED BY <1>1, RowsTyped, RowsKeep

\* The sessions of a behaviour of the services: those of the part followed.
MirrorInv ==
  /\ part = "both" => SessionInv(BothSession)
  /\ part # "both" => SessionInv(SessionOf)

\* What a program submits is of the session it last saw active, and the mirror
\* says enabled only of a permission on the account, when one broker holds the
\* account's keys: a second one may be given the next session's key while the
\* first still signs with the old one, whose row nothing compares.
THEOREM MirrorKept ==
  ASSUME OneBroker(SessionOf)
  PROVE  Services => []MirrorHolds
<1>1. OneBroker(BothSession)
  <2>1. BothSession.Brokers = {"b"}
    BY DEF BothSession, FaultySession
  <2> QED BY <2>1 DEF OneBroker
<1>2. ServicesInit => MirrorInv
  BY SessionStarts DEF ServicesInit, MirrorInv
<1>3. MirrorInv /\ [ServicesNext]_servicesVars => MirrorInv'
  <2> SUFFICES ASSUME MirrorInv, [ServicesNext]_servicesVars PROVE MirrorInv'
    OBVIOUS
  <2>1. part' = part
    BY DEF ServicesNext, Follows, servicesVars
  <2>2. ASSUME part = "both" PROVE SessionInv(BothSession)'
    <3>1. UNCHANGED sessionVars \/ Session(BothSession)!Next
      BY <2>2 DEF ServicesNext, Follows, Rest, servicesVars
    <3>2. SessionInv(BothSession)
      BY <2>2 DEF MirrorInv
    <3> QED BY <1>1, <3>1, <3>2, SessionSteps, SessionStutters
  <2>3. ASSUME part # "both" PROVE SessionInv(SessionOf)'
    <3>1. UNCHANGED sessionVars \/ Session(SessionOf)!Next
      BY <2>3 DEF ServicesNext, Follows, Rest, servicesVars
    <3>2. SessionInv(SessionOf)
      BY <2>3 DEF MirrorInv
    <3> QED BY <3>1, <3>2, SessionSteps, SessionStutters
  <2> QED BY <2>1, <2>2, <2>3 DEF MirrorInv
<1>4. MirrorInv => MirrorHolds
  BY DEF MirrorInv, SessionInv, MirrorHolds
<1> QED BY <1>2, <1>3, <1>4, PTL DEF Services

-----------------------------------------------------------------------------
(* The reinvest runner *)

\* The inductive invariant of the purchases.
BuyInv(c) ==
  /\ claims \in [Reinvest(c)!Epoch -> {"no", "batch", "hand"}]
  /\ reinvested \in [Reinvest(c)!Epoch -> Nat]
  /\ Reinvest(c)!BuyIsClaimed

LEMMA ReinvestStarts == ASSUME NEW c, Reinvest(c)!Init PROVE BuyInv(c)
BY DEF Reinvest!Init, BuyInv, Reinvest!BuyIsClaimed

LEMMA BatchKeeps == ASSUME NEW c, BuyInv(c), NEW e, Reinvest(c)!Batch(e) PROVE BuyInv(c)'
<1>1. CASE UNCHANGED <<claims, reinvested>>
  BY <1>1 DEF BuyInv, Reinvest!BuyIsClaimed, Reinvest!Epoch
<1>2. CASE /\ Reinvest(c)!Simulated(e)
           /\ claims' = [claims EXCEPT ![e] = "batch"] /\ reinvested' = [reinvested EXCEPT ![e] = reinvested[e] + 1]
  <2>1. claims[e] = "no"
    BY <1>2 DEF Reinvest!Simulated, Reinvest!Pays
  <2>2. claims' \in [Reinvest(c)!Epoch -> {"no", "batch", "hand"}] /\ reinvested' \in [Reinvest(c)!Epoch -> Nat]
    <3> DEFINE D == Reinvest(c)!Epoch
    <3>1. claims \in [D -> {"no", "batch", "hand"}] /\ reinvested \in [D -> Nat]
      BY DEF BuyInv
    <3> HIDE DEF D
    <3>2. claims' \in [D -> {"no", "batch", "hand"}]
      BY <1>2, <3>1
    <3>3. ASSUME NEW x \in D PROVE reinvested'[x] \in Nat
      <4>1. CASE x = e
        BY <1>2, <3>1, <4>1
      <4>2. CASE x # e
        BY <1>2, <3>1, <4>2
      <4> QED BY <4>1, <4>2
    <3>4. reinvested' \in [D -> Nat]
      BY <1>2, <3>1, <3>3
    <3> QED BY <3>2, <3>4 DEF D
  <2>3. ASSUME NEW x \in Reinvest(c)!Epoch PROVE reinvested'[x] = IF claims'[x] = "batch" THEN 1 ELSE 0
    BY <1>2, <2>1 DEF BuyInv, Reinvest!BuyIsClaimed
  <2> QED BY <2>2, <2>3 DEF BuyInv, Reinvest!BuyIsClaimed, Reinvest!Epoch
<1> QED BY <1>1, <1>2 DEF Reinvest!Batch

LEMMA ReinvestSteps == ASSUME NEW c, BuyInv(c), Reinvest(c)!Next PROVE BuyInv(c)'
<1>1. CASE UNCHANGED <<claims, reinvested>>
  BY <1>1 DEF BuyInv, Reinvest!BuyIsClaimed, Reinvest!Epoch
<1>2. ASSUME NEW r \in c.Runners,
             \/ Reinvest(c)!Start(r) \/ Reinvest(c)!Works(r) \/ Reinvest(c)!Exit(r) \/ Reinvest(c)!Crash(r)
             \/ \E e \in Reinvest(c)!Epoch : Reinvest(c)!Elapses(r, e)
      PROVE  UNCHANGED <<claims, reinvested>>
  <2>1. CASE Reinvest(c)!Works(r)
    BY <2>1 DEF Reinvest!Works, Reinvest!Boot, Reinvest!Write, Reinvest!Gate, Reinvest!CycleEnds, Reinvest!Prepare,
         Reinvest!Submit, Reinvest!Receipt, Reinvest!NoReceipt, Reinvest!Record, Reinvest!Results, Reinvest!Result,
         Reinvest!chain
  <2>2. CASE ~Reinvest(c)!Works(r)
    BY <1>2, <2>2 DEF Reinvest!Start, Reinvest!Exit, Reinvest!Crash, Reinvest!Elapses, Reinvest!chain
  <2> QED BY <2>1, <2>2
<1>3. CASE Reinvest(c)!Stop \/ Reinvest(c)!Stopped
  BY <1>1, <1>3 DEF Reinvest!Stop, Reinvest!Stopped, Reinvest!chain
<1>4. CASE Reinvest(c)!Fund
  BY <1>1, <1>4 DEF Reinvest!Fund
<1>5. ASSUME NEW e \in Reinvest(c)!Epoch, Reinvest(c)!Expire(e) \/ Reinvest(c)!Sweep(e) PROVE BuyInv(c)'
  BY <1>1, <1>5 DEF Reinvest!Expire, Reinvest!Sweep
<1>6. ASSUME NEW e \in Reinvest(c)!Epoch, Reinvest(c)!ClaimByHand(e) PROVE BuyInv(c)'
  BY <1>6 DEF Reinvest!ClaimByHand, Reinvest!Pays, BuyInv, Reinvest!BuyIsClaimed, Reinvest!Epoch
<1>7. ASSUME NEW o \in ops, Reinvest(c)!Land(o) PROVE BuyInv(c)'
  BY <1>7, BatchKeeps DEF Reinvest!Land
<1>8. ASSUME NEW o \in ops, Reinvest(c)!Drop(o) PROVE BuyInv(c)'
  BY <1>1, <1>8 DEF Reinvest!Drop, Reinvest!chain
<1>9. ASSUME Reinvest(c)!Reopen \/ \E m \in {"unlisted", "shut"} : Reinvest(c)!Close(m) PROVE BuyInv(c)'
  BY <1>1, <1>9 DEF Reinvest!Reopen, Reinvest!Close
<1> QED BY <1>1, <1>2, <1>3, <1>4, <1>5, <1>6, <1>7, <1>8, <1>9 DEF Reinvest!Next

LEMMA ReinvestStutters == ASSUME NEW c, BuyInv(c), UNCHANGED reinvestVars PROVE BuyInv(c)'
BY DEF reinvestVars, BuyInv, Reinvest!BuyIsClaimed, Reinvest!Epoch

RunnersInv ==
  /\ part = "halted" => BuyInv(HaltedReinvest)
  /\ part # "halted" => BuyInv(ReinvestOf)

\* An epoch's yield buys once, and only in the batch that claimed it, however
\* many runners submit however often and in whatever order operations land.
THEOREM BuyIsClaimedAlways == Services => []BuyIsClaimed
<1>1. ServicesInit => RunnersInv
  BY ReinvestStarts DEF ServicesInit, RunnersInv
<1>2. RunnersInv /\ [ServicesNext]_servicesVars => RunnersInv'
  <2> SUFFICES ASSUME RunnersInv, [ServicesNext]_servicesVars PROVE RunnersInv'
    OBVIOUS
  <2>1. part' = part
    BY DEF ServicesNext, Follows, servicesVars
  <2>2. ASSUME part = "halted" PROVE BuyInv(HaltedReinvest)'
    <3>1. UNCHANGED reinvestVars \/ Reinvest(HaltedReinvest)!Next
      BY <2>2 DEF ServicesNext, Follows, Rest, servicesVars
    <3>2. BuyInv(HaltedReinvest)
      BY <2>2 DEF RunnersInv
    <3> QED BY <3>1, <3>2, ReinvestSteps, ReinvestStutters
  <2>3. ASSUME part # "halted" PROVE BuyInv(ReinvestOf)'
    <3>1. UNCHANGED reinvestVars \/ Reinvest(ReinvestOf)!Next
      BY <2>3 DEF ServicesNext, Follows, Rest, servicesVars
    <3>2. BuyInv(ReinvestOf)
      BY <2>3 DEF RunnersInv
    <3> QED BY <3>1, <3>2, ReinvestSteps, ReinvestStutters
  <2> QED BY <2>1, <2>2, <2>3 DEF RunnersInv
<1>3. RunnersInv => BuyIsClaimed
  BY DEF RunnersInv, BuyInv, BuyIsClaimed
<1> QED BY <1>1, <1>2, <1>3, PTL DEF Services
-----------------------------------------------------------------------------
(* The agent's tiers *)

Faces == {"havenbot", "mcp"}
Consents == {"advisory", "confirm", "bound", "scoped"}
TierSet == Consents \cup {"paused"}
JobKinds == {"none", "request", "commit", "pause", "resume", "mint"}
JobPlaces == {"read", "issue", "consume", "write", "audit", "create"}
Lists == {<<"havenbot", "mcp">>, <<"havenbot">>, <<"mcp">>}
JobSet == [kind : JobKinds, at : JobPlaces, list : Lists, n : 1 .. 2, target : TierSet, token : Nat]
TokenSet == [surface : Faces, target : Consents, live : BOOLEAN, old : BOOLEAN, writes : Nat]

\* Where a job of each kind can be, and the token it posts.
JobFine(j, D) ==
  /\ j.n <= Len(j.list)
  /\ j.kind # "pause" => j.n = 1
  /\ j.kind \notin {"pause", "none"} => Len(j.list) = 1
  /\ j.kind = "none" => j.at = "read"
  /\ j.at = "issue" => j.kind = "request"
  /\ j.at = "consume" => j.kind = "commit"
  /\ j.at = "create" => j.kind = "mint"
  /\ j.at \in {"write", "audit"} => j.kind # "mint"
  /\ IF j.kind = "commit" THEN j.token \in D ELSE j.token = 0
  /\ j.kind \in {"request", "commit"} => j.target \in Consents
  /\ j.kind = "pause" => j.target = "paused"
  /\ j.kind = "resume" => j.target = "advisory"

PolicyTyped(c) ==
  /\ tokens \in Seq(TokenSet)
  /\ job \in [Policy(c)!Workers -> JobSet]
  /\ \A w \in Policy(c)!Workers : JobFine(job[w], DOMAIN tokens)

LEMMA FacesAre ==
  ASSUME NEW c
  PROVE  /\ Policy(c)!Surfaces = Faces /\ Policy(c)!Order = <<"havenbot", "mcp">>
         /\ DOMAIN Policy(c)!Rank = Consents /\ Policy(c)!Tiers = TierSet
<1>1. Policy(c)!Surfaces = Faces
  <2>1. DOMAIN Policy(c)!Order = {1, 2} /\ Policy(c)!Order[1] = "havenbot" /\ Policy(c)!Order[2] = "mcp"
    BY DEF Policy!Order
  <2> QED BY <2>1 DEF Policy!Surfaces, Faces
<1>2. DOMAIN Policy(c)!Rank = Consents
  BY DEF Policy!Rank, Consents
<1> QED BY <1>1, <1>2 DEF Policy!Order, Policy!Tiers, TierSet

LEMMA ListsAre ==
  /\ \A l \in Lists : Len(l) \in 1 .. 2 /\ DOMAIN l = 1 .. Len(l) /\ \A i \in 1 .. Len(l) : l[i] \in Faces
  /\ \A s \in Faces : <<s>> \in Lists /\ Len(<<s>>) = 1 /\ <<s>>[1] = s
  /\ <<"havenbot", "mcp">> \in Lists /\ Len(<<"havenbot", "mcp">>) = 2
<1>1. ASSUME NEW l \in Lists PROVE Len(l) \in 1 .. 2 /\ DOMAIN l = 1 .. Len(l) /\ \A i \in 1 .. Len(l) : l[i] \in Faces
  <2>1. CASE l = <<"havenbot", "mcp">>
    BY <2>1 DEF Faces
  <2>2. CASE l = <<"havenbot">>
    BY <2>2 DEF Faces
  <2>3. CASE l = <<"mcp">>
    BY <2>3 DEF Faces
  <2> QED BY <2>1, <2>2, <2>3 DEF Lists
<1> QED BY <1>1 DEF Lists, Faces

LEMMA IdleIsFine ==
  ASSUME NEW c, NEW D
  PROVE  /\ Policy(c)!Idle \in JobSet /\ JobFine(Policy(c)!Idle, D)
         /\ Policy(c)!Idle.kind = "none" /\ Policy(c)!Idle.at = "read" /\ Policy(c)!Idle.token = 0
<1>1. Policy(c)!Idle = [kind |-> "none", at |-> "read", list |-> <<"havenbot", "mcp">>, n |-> 1, target |-> "paused", token |-> 0]
  BY FacesAre DEF Policy!Idle
<1> QED BY <1>1, ListsAre DEF JobSet, JobFine, TierSet, JobKinds, JobPlaces

LEMMA StartedIs ==
  ASSUME NEW c, NEW kind \in JobKinds \ {"none"}, NEW list \in Lists, NEW target \in TierSet,
         NEW number \in Nat, NEW D,
         kind # "pause" => Len(list) = 1,
         IF kind = "commit" THEN number \in D ELSE number = 0,
         kind \in {"request", "commit"} => target \in Consents,
         kind = "pause" => target = "paused", kind = "resume" => target = "advisory"
  PROVE  LET j == Policy(c)!Started(kind, list, target, number) IN
         /\ j \in JobSet /\ JobFine(j, D) /\ j.kind = kind /\ j.at = "read" /\ j.list = list /\ j.n = 1
         /\ j.target = target /\ j.token = number
<1>1. Len(list) \in 1 .. 2
  BY ListsAre
<1>2. PICK j : j = [kind |-> kind, at |-> "read", list |-> list, n |-> 1, target |-> target, token |-> number]
  OBVIOUS
<1>3. /\ j \in JobSet /\ j.kind = kind /\ j.at = "read" /\ j.list = list /\ j.n = 1 /\ j.target = target /\ j.token = number
  BY <1>2 DEF JobSet, JobKinds, JobPlaces
<1>4. j.n <= Len(j.list) /\ j.kind # "none"
  <2> PICK m : m = Len(list)
    OBVIOUS
  <2>0. 1 <= m
    BY <1>1
  <2>1. Len(j.list) = m
    <3>1. j.list = list
      BY <1>3
    <3> QED BY <3>1, Zenon
  <2>2. j.n = 1 /\ j.kind = kind /\ kind # "none"
    BY <1>3
  <2> QED BY <2>0, <2>1, <2>2
<1>5. IF j.kind = "commit" THEN j.token \in D ELSE j.token = 0
  BY <1>3
<1>6. /\ j.kind # "pause" => Len(j.list) = 1
      /\ j.kind \in {"request", "commit"} => j.target \in Consents
      /\ j.kind = "pause" => j.target = "paused"
      /\ j.kind = "resume" => j.target = "advisory"
  BY <1>3
<1>7. JobFine(j, D)
  BY <1>3, <1>4, <1>5, <1>6 DEF JobFine
<1> QED BY <1>2, <1>3, <1>7 DEF Policy!Started

LEMMA MovedIs ==
  ASSUME NEW j \in JobSet, NEW at \in JobPlaces
  PROVE  LET k == [j EXCEPT !.at = at] IN
         /\ k \in JobSet /\ k.at = at /\ k.kind = j.kind /\ k.list = j.list /\ k.n = j.n /\ k.target = j.target
         /\ k.token = j.token
BY DEF JobSet

\* A pause goes on to its next surface.
LEMMA TurnedIs ==
  ASSUME NEW j \in JobSet, NEW m \in 1 .. 2
  PROVE  LET k == [j EXCEPT !.at = "read", !.n = m] IN
         /\ k \in JobSet /\ k.at = "read" /\ k.kind = j.kind /\ k.list = j.list /\ k.n = m /\ k.target = j.target
         /\ k.token = j.token
BY DEF JobSet, JobPlaces

LEMMA LessLiveIs ==
  ASSUME NEW k \in TokenSet
  PROVE  LET m == [k EXCEPT !.live = FALSE] IN
         m \in TokenSet /\ ~m.live /\ m.writes = k.writes
BY DEF TokenSet

LEMMA UsedIs ==
  ASSUME NEW k \in TokenSet, NEW old \in BOOLEAN, NEW m \in Nat
  PROVE  LET u == [k EXCEPT !.old = old, !.writes = m] IN
         u \in TokenSet /\ u.live = k.live /\ u.writes = m
BY DEF TokenSet

\* A token that is still to be found may be found among more of them.
LEMMA FineMore == ASSUME NEW j, NEW D, NEW E, D \subseteq E, JobFine(j, D) PROVE JobFine(j, E)
BY DEF JobFine

LEMMA SurfaceIn ==
  ASSUME NEW c, NEW j \in JobSet, NEW D, JobFine(j, D)
  PROVE  Policy(c)!Surface(j) \in Faces /\ j.n \in 1 .. Len(j.list)
<1>1. j.list \in Lists /\ j.n \in 1 .. 2 /\ j.n <= Len(j.list)
  BY DEF JobSet, JobFine
<1>2. Len(j.list) \in 1 .. 2 /\ \A i \in 1 .. Len(j.list) : j.list[i] \in Faces
  BY <1>1, ListsAre
<1>3. j.n \in 1 .. Len(j.list)
  BY <1>1, <1>2
<1> QED BY <1>2, <1>3 DEF Policy!Surface

\* One worker's job changes, and tokens are only added or marked.
LEMMA JobPut ==
  ASSUME NEW c, PolicyTyped(c), NEW w \in Policy(c)!Workers, NEW k \in JobSet, JobFine(k, DOMAIN tokens'),
         job' = [job EXCEPT ![w] = k], tokens' \in Seq(TokenSet), DOMAIN tokens \subseteq DOMAIN tokens'
  PROVE  PolicyTyped(c)' /\ job'[w] = k /\ \A v \in Policy(c)!Workers : v # w => job'[v] = job[v]
<1>1. job'[w] = k /\ \A v \in Policy(c)!Workers : v # w => job'[v] = job[v]
  BY DEF PolicyTyped
<1>2. job' \in [Policy(c)!Workers -> JobSet]
  BY DEF PolicyTyped
<1>3. ASSUME NEW v \in Policy(c)!Workers PROVE JobFine(job'[v], DOMAIN tokens')
  <2>1. CASE v = w
    BY <1>1, <2>1
  <2>2. CASE v # w
    <3>1. job'[v] = job[v] /\ JobFine(job[v], DOMAIN tokens)
      BY <1>1, <2>2 DEF PolicyTyped
    <3> QED BY <3>1, FineMore
  <2> QED BY <2>1, <2>2
<1>4. PolicyTyped(c)'
  BY <1>2, <1>3 DEF PolicyTyped, Policy!Workers
<1> QED BY <1>1, <1>4

\* A worker starts nothing new: its job is done, or goes on somewhere else.
LEMMA EndsIs ==
  ASSUME NEW c, PolicyTyped(c), NEW w \in Policy(c)!Workers, Policy(c)!Ends(w), tokens' \in Seq(TokenSet),
         DOMAIN tokens \subseteq DOMAIN tokens'
  PROVE  /\ PolicyTyped(c)' /\ \A v \in Policy(c)!Workers : v # w => job'[v] = job[v]
         /\ job'[w].kind = "none" /\ job'[w].at = "read"
<1>1. job' = [job EXCEPT ![w] = Policy(c)!Idle]
  BY DEF Policy!Ends
<1> PICK k : k = Policy(c)!Idle
  OBVIOUS
<1>2. k \in JobSet /\ JobFine(k, DOMAIN tokens') /\ k.kind = "none" /\ k.at = "read"
  BY IdleIsFine
<1>3. job' = [job EXCEPT ![w] = k]
  BY <1>1
<1>4. PolicyTyped(c)' /\ job'[w] = k /\ \A v \in Policy(c)!Workers : v # w => job'[v] = job[v]
  BY <1>2, <1>3, JobPut, Zenon
<1> QED BY <1>2, <1>4

GoesOn(j, k) == k.kind = j.kind /\ k.list = j.list /\ k.n = j.n /\ k.target = j.target /\ k.token = j.token

LEMMA GoesIs ==
  ASSUME NEW c, PolicyTyped(c), NEW w \in Policy(c)!Workers, NEW at \in JobPlaces,
         job' = [job EXCEPT ![w].at = at], tokens' \in Seq(TokenSet), DOMAIN tokens \subseteq DOMAIN tokens',
         /\ at = "issue" => job[w].kind = "request"
         /\ at = "consume" => job[w].kind = "commit"
         /\ at = "create" => job[w].kind = "mint"
         /\ at \in {"write", "audit"} => job[w].kind # "mint"
         /\ job[w].kind # "none"
  PROVE  /\ PolicyTyped(c)' /\ \A v \in Policy(c)!Workers : v # w => job'[v] = job[v]
         /\ job'[w].at = at /\ GoesOn(job[w], job'[w])
<1>1. job[w] \in JobSet /\ JobFine(job[w], DOMAIN tokens)
  BY DEF PolicyTyped
<1>2. PICK k : k = [job[w] EXCEPT !.at = at]
  OBVIOUS
<1>3. k \in JobSet /\ k.at = at /\ GoesOn(job[w], k)
  BY <1>1, <1>2, MovedIs DEF GoesOn
<1>4. job' = [job EXCEPT ![w] = k]
  BY <1>2
<1>5. JobFine(k, DOMAIN tokens')
  <2>1. JobFine(job[w], DOMAIN tokens')
    BY <1>1, FineMore
  <2> QED BY <1>3, <2>1 DEF GoesOn, JobFine
<1>6. PolicyTyped(c)' /\ job'[w] = k /\ \A v \in Policy(c)!Workers : v # w => job'[v] = job[v]
  BY <1>3, <1>4, <1>5, JobPut, Zenon
<1> QED BY <1>3, <1>6

-----------------------------------------------------------------------------
(* What each step of the tiers does *)

\* The others go on as they were.
Alone1(c, w) == \A v \in Policy(c)!Workers : v # w => job'[v] = job[v]
StillThere == UNCHANGED <<tier, tokens, trail, mishaps>>

\* A request comes: its worker was free.
Comes(c, w) ==
  /\ PolicyTyped(c)' /\ Alone1(c, w) /\ StillThere
  /\ job'[w].at = "read" /\ job'[w].n = 1
  /\ held' = IF job'[w].kind = "resume" THEN held \ {job'[w].list[1]} ELSE held

LEMMA StartsIs ==
  ASSUME NEW c, PolicyTyped(c), NEW w, NEW kind \in JobKinds \ {"none"}, NEW list \in Lists, NEW target \in TierSet,
         NEW number \in Nat, Policy(c)!Starts(w, kind, list, target, number),
         kind # "pause" => Len(list) = 1,
         IF kind = "commit" THEN number \in DOMAIN tokens ELSE number = 0,
         kind \in {"request", "commit"} => target \in Consents,
         kind = "pause" => target = "paused", kind = "resume" => target = "advisory"
  PROVE  w \in Policy(c)!Workers /\ job[w].kind = "none" /\ Comes(c, w)
<1>1. w \in Policy(c)!Workers /\ job[w].kind = "none"
  BY DEF Policy!Starts, Policy!Workers
<1> PICK k : k = Policy(c)!Started(kind, list, target, number)
  OBVIOUS
<1>2. k \in JobSet /\ JobFine(k, DOMAIN tokens) /\ k.kind = kind /\ k.at = "read" /\ k.list = list /\ k.n = 1
  BY StartedIs
<1>3. job' = [job EXCEPT ![w] = k] /\ StillThere /\ held' = IF kind = "resume" THEN held \ {list[1]} ELSE held
  BY DEF Policy!Starts, StillThere
<1>4. tokens' \in Seq(TokenSet) /\ DOMAIN tokens \subseteq DOMAIN tokens' /\ JobFine(k, DOMAIN tokens')
  BY <1>2, <1>3 DEF StillThere, PolicyTyped
<1>5. PolicyTyped(c)' /\ job'[w] = k /\ \A v \in Policy(c)!Workers : v # w => job'[v] = job[v]
  BY <1>1, <1>2, <1>3, <1>4, JobPut, Zenon
<1> QED BY <1>1, <1>2, <1>3, <1>5 DEF Comes, Alone1

LEMMA UserComes ==
  ASSUME NEW c, Policy(c)!PolicyAssumption, PolicyTyped(c), NEW w, Policy(c)!User(w)
  PROVE  w \in Policy(c)!Workers /\ job[w].kind = "none" /\ Comes(c, w)
<1>1. CASE Policy(c)!Request(w)
  <2>1. PICK s \in Faces, t \in c.Wanted : Policy(c)!Starts(w, "request", <<s>>, t, 0)
    BY <1>1, FacesAre DEF Policy!Request
  <2>2. t \in Consents /\ t \in TierSet
    BY DEF Policy!PolicyAssumption, Consents, TierSet
  <2>3. <<s>> \in Lists /\ Len(<<s>>) = 1
    BY ListsAre
  <2>4. PICK l \in Lists : l = <<s>> /\ Len(l) = 1
    BY <2>3
  <2>5. Policy(c)!Starts(w, "request", l, t, 0)
    BY <2>1, <2>4
  <2> QED BY <2>2, <2>4, <2>5, StartsIs DEF JobKinds
<1>2. CASE Policy(c)!Commit(w)
  <2>1. PICK i \in DOMAIN tokens : Policy(c)!Starts(w, "commit", <<tokens[i].surface>>, tokens[i].target, i)
    BY <1>2 DEF Policy!Commit
  <2>2. tokens[i] \in TokenSet /\ i \in Nat
    BY DEF PolicyTyped
  <2>3. PICK s \in Faces, t \in Consents : s = tokens[i].surface /\ t = tokens[i].target
    BY <2>2 DEF TokenSet
  <2>4. <<s>> \in Lists /\ Len(<<s>>) = 1
    BY ListsAre
  <2>5. PICK l \in Lists : l = <<s>> /\ Len(l) = 1
    BY <2>4
  <2>6. Policy(c)!Starts(w, "commit", l, t, i) /\ t \in TierSet
    BY <2>1, <2>3, <2>5 DEF TierSet
  <2> QED BY <2>2, <2>5, <2>6, StartsIs DEF JobKinds
<1>3. CASE Policy(c)!Pause(w)
  <2>1. PICK list \in Lists : Policy(c)!Starts(w, "pause", list, "paused", 0)
    BY <1>3, FacesAre, ListsAre DEF Policy!Pause
  <2> QED BY <2>1, StartsIs DEF JobKinds, TierSet
<1>4. CASE Policy(c)!Resume(w)
  <2>1. PICK s \in Faces : Policy(c)!Starts(w, "resume", <<s>>, "advisory", 0)
    BY <1>4, FacesAre DEF Policy!Resume
  <2>2. <<s>> \in Lists /\ Len(<<s>>) = 1
    BY ListsAre
  <2>3. PICK l \in Lists : l = <<s>> /\ Len(l) = 1
    BY <2>2
  <2>4. Policy(c)!Starts(w, "resume", l, "advisory", 0)
    BY <2>1, <2>3
  <2> QED BY <2>3, <2>4, StartsIs DEF JobKinds, TierSet, Consents
<1>5. CASE Policy(c)!Mint(w)
  <2>1. <<"mcp">> \in Lists /\ Len(<<"mcp">>) = 1
    BY ListsAre DEF Faces
  <2>2. PICK l \in Lists : l = <<"mcp">> /\ Len(l) = 1
    BY <2>1
  <2>3. Policy(c)!Starts(w, "mint", l, "scoped", 0)
    BY <1>5, <2>2 DEF Policy!Mint
  <2> QED BY <2>2, <2>3, StartsIs DEF JobKinds, TierSet, Consents
<1> QED BY <1>1, <1>2, <1>3, <1>4, <1>5 DEF Policy!User

\* What a request does once it has read the tier.
ReadDoes(c, w) ==
  LET j == job[w] k == job'[w] now == tier[Policy(c)!Surface(job[w])] IN
  /\ PolicyTyped(c)' /\ Alone1(c, w) /\ StillThere /\ held' = held /\ j.at # "audit"
  /\ \/ k.kind = "none" /\ k.at = "read"
     \/ /\ GoesOn(j, k)
        /\ \/ j.kind = "request" /\ now # "paused" /\ (k.at = "issue" \/ (k.at = "write" /\ Policy(c)!Down(now, j.target)))
           \/ j.kind = "commit" /\ now # "paused" /\ k.at = "consume"
           \/ j.kind = "pause" /\ k.at = "write"
           \/ j.kind = "resume" /\ now = "paused" /\ k.at = "write"
           \/ j.kind = "mint" /\ k.at = "create"

LEMMA ReadIs ==
  ASSUME NEW c, PolicyTyped(c), NEW w \in Policy(c)!Workers, Policy(c)!Read(w)
  PROVE  ReadDoes(c, w)
<1>0. StillThere /\ held' = held /\ job[w].kind # "none" /\ job[w].at # "audit"
  BY DEF Policy!Read, StillThere
<1>1. tokens' \in Seq(TokenSet) /\ DOMAIN tokens \subseteq DOMAIN tokens'
  BY <1>0 DEF StillThere, PolicyTyped
<1>2. PICK now : now = tier[Policy(c)!Surface(job[w])]
  OBVIOUS
<1>3. CASE Policy(c)!Ends(w)
  BY <1>0, <1>1, <1>3, EndsIs DEF ReadDoes, Alone1
<1>4. ASSUME NEW at \in JobPlaces, Policy(c)!Goes(w, at),
             \/ job[w].kind = "request" /\ now # "paused" /\ (at = "issue" \/ (at = "write" /\ Policy(c)!Down(now, job[w].target)))
             \/ job[w].kind = "commit" /\ now # "paused" /\ at = "consume"
             \/ job[w].kind = "pause" /\ at = "write"
             \/ job[w].kind = "resume" /\ now = "paused" /\ at = "write"
             \/ job[w].kind = "mint" /\ at = "create"
      PROVE  ReadDoes(c, w)
  <2>1. job' = [job EXCEPT ![w].at = at]
    BY <1>4 DEF Policy!Goes
  <2>2. /\ at = "issue" => job[w].kind = "request"
        /\ at = "consume" => job[w].kind = "commit"
        /\ at = "create" => job[w].kind = "mint"
        /\ at \in {"write", "audit"} => job[w].kind # "mint"
    BY <1>4
  <2>3. PolicyTyped(c)' /\ (\A v \in Policy(c)!Workers : v # w => job'[v] = job[v]) /\ job'[w].at = at /\ GoesOn(job[w], job'[w])
    BY <1>0, <1>1, <2>1, <2>2, GoesIs
  <2> QED BY <1>0, <1>2, <1>4, <2>3 DEF ReadDoes, Alone1
<1>5. \/ Policy(c)!Ends(w)
      \/ /\ job[w].kind = "request" /\ Policy(c)!Allowed(now, job[w].target)
         /\ Policy(c)!Goes(w, IF Policy(c)!Down(now, job[w].target) THEN "write" ELSE "issue")
      \/ job[w].kind = "commit" /\ Policy(c)!Confirmable(now, job[w].target) /\ Policy(c)!Goes(w, "consume")
      \/ job[w].kind = "pause" /\ Policy(c)!Goes(w, "write")
      \/ job[w].kind = "resume" /\ now = "paused" /\ Policy(c)!Goes(w, "write")
      \/ job[w].kind = "mint" /\ Policy(c)!Goes(w, "create")
  BY <1>2 DEF Policy!Read, Policy!Now
<1>6. Policy(c)!Allowed(now, job[w].target) \/ Policy(c)!Confirmable(now, job[w].target) => now # "paused"
  BY DEF Policy!Allowed, Policy!Confirmable
<1>7. CASE job[w].kind = "request" /\ now # "paused" /\ Policy(c)!Goes(w, IF Policy(c)!Down(now, job[w].target) THEN "write" ELSE "issue")
  <2>1. CASE Policy(c)!Down(now, job[w].target)
    <3>1. Policy(c)!Goes(w, "write")
      BY <1>7, <2>1
    <3> QED BY <1>4, <1>7, <2>1, <3>1 DEF JobPlaces
  <2>2. CASE ~Policy(c)!Down(now, job[w].target)
    <3>1. Policy(c)!Goes(w, "issue")
      BY <1>7, <2>2
    <3> QED BY <1>4, <1>7, <3>1 DEF JobPlaces
  <2> QED BY <2>1, <2>2
<1> QED BY <1>3, <1>4, <1>5, <1>6, <1>7 DEF JobPlaces

\* Apart from consuming, lapsing and writing, tokens are only added.
LEMMA IssueIs ==
  ASSUME NEW c, PolicyTyped(c), NEW w \in Policy(c)!Workers, Policy(c)!Issue(w)
  PROVE  /\ PolicyTyped(c)' /\ Alone1(c, w) /\ UNCHANGED <<tier, trail, held, mishaps>>
         /\ job'[w].kind = "none" /\ job'[w].at = "read" /\ job[w].at # "audit"
         /\ \E k \in TokenSet : k.writes = 0 /\ tokens' = Append(tokens, k)
<1>1. job[w] \in JobSet /\ JobFine(job[w], DOMAIN tokens) /\ job[w].at = "issue"
  BY DEF PolicyTyped, Policy!Issue
<1>2. Policy(c)!Surface(job[w]) \in Faces /\ job[w].target \in Consents
  <2>1. job[w].kind = "request"
    BY <1>1 DEF JobFine
  <2> QED BY <1>1, <2>1, SurfaceIn DEF JobFine
<1>3. PICK k : k = [surface |-> Policy(c)!Surface(job[w]), target |-> job[w].target, live |-> TRUE, old |-> FALSE, writes |-> 0]
  OBVIOUS
<1>4. k \in TokenSet /\ k.writes = 0
  BY <1>2, <1>3 DEF TokenSet
<1>5. tokens' = Append(tokens, k) /\ Policy(c)!Ends(w) /\ UNCHANGED <<tier, trail, held, mishaps>>
  BY <1>3 DEF Policy!Issue
<1>6. tokens' \in Seq(TokenSet) /\ DOMAIN tokens \subseteq DOMAIN tokens'
  BY <1>4, <1>5 DEF PolicyTyped
<1> QED BY <1>1, <1>4, <1>5, <1>6, EndsIs DEF Alone1

LEMMA TokenDies ==
  ASSUME NEW c, PolicyTyped(c), NEW i \in DOMAIN tokens, tokens' = [tokens EXCEPT ![i].live = FALSE]
  PROVE  /\ tokens' \in Seq(TokenSet) /\ DOMAIN tokens' = DOMAIN tokens /\ ~tokens'[i].live
         /\ \A n \in DOMAIN tokens : tokens'[n].writes = tokens[n].writes /\ (tokens'[n].live => tokens[n].live)
<1>1. tokens[i] \in TokenSet
  BY DEF PolicyTyped
<1>0. PICK k : k = [tokens[i] EXCEPT !.live = FALSE]
  OBVIOUS
<1>2. k \in TokenSet /\ ~k.live /\ k.writes = tokens[i].writes
  BY <1>0, <1>1, LessLiveIs
<1>3. tokens' = [tokens EXCEPT ![i] = k]
  BY <1>0
<1>4. tokens \in Seq(TokenSet) /\ DOMAIN tokens = 1 .. Len(tokens)
  BY DEF PolicyTyped
<1>6. tokens' \in Seq(TokenSet) /\ Len(tokens') = Len(tokens)
  <2>1. k \in TokenSet /\ i \in 1 .. Len(tokens)
    BY <1>2, <1>4
  <2>2. /\ [tokens EXCEPT ![i] = k] \in Seq(TokenSet)
        /\ Len([tokens EXCEPT ![i] = k]) = Len(tokens)
    BY <1>4, <2>1, ExceptSeq
  <2> QED BY <1>3, <2>2, Zenon
<1>7. DOMAIN tokens' = DOMAIN tokens
  BY <1>4, <1>6
<1>5. tokens'[i] = k /\ \A n \in DOMAIN tokens : n # i => tokens'[n] = tokens[n]
  BY <1>3, <1>4
<1> QED BY <1>2, <1>5, <1>6, <1>7

LEMMA ConsumeIs ==
  ASSUME NEW c, PolicyTyped(c), NEW w \in Policy(c)!Workers, Policy(c)!Consume(w)
  PROVE  /\ PolicyTyped(c)' /\ Alone1(c, w) /\ UNCHANGED <<tier, trail, held, mishaps>>
         /\ job[w].kind = "commit" /\ job[w].token \in DOMAIN tokens
         /\ \/ job'[w].kind = "none" /\ job'[w].at = "read" /\ tokens' = tokens
            \/ /\ GoesOn(job[w], job'[w]) /\ job'[w].at = "write" /\ tokens[job[w].token].live
               /\ tokens' = [tokens EXCEPT ![job[w].token].live = FALSE]
<1>1. job[w] \in JobSet /\ JobFine(job[w], DOMAIN tokens) /\ job[w].at = "consume" /\ UNCHANGED <<tier, trail, held, mishaps>>
  BY DEF PolicyTyped, Policy!Consume
<1>2. job[w].kind = "commit" /\ job[w].token \in DOMAIN tokens
  BY <1>1 DEF JobFine
<1>3. CASE Policy(c)!Ends(w) /\ UNCHANGED tokens
  <2>1. tokens' \in Seq(TokenSet) /\ DOMAIN tokens \subseteq DOMAIN tokens'
    BY <1>3 DEF PolicyTyped
  <2> QED BY <1>1, <1>2, <1>3, <2>1, EndsIs DEF Alone1
<1>4. CASE /\ tokens[job[w].token].live /\ tokens' = [tokens EXCEPT ![job[w].token].live = FALSE]
           /\ job' = [job EXCEPT ![w].at = "write"]
  <2>1. tokens' \in Seq(TokenSet) /\ DOMAIN tokens \subseteq DOMAIN tokens'
    BY <1>2, <1>4, TokenDies
  <2>2. PolicyTyped(c)' /\ (\A v \in Policy(c)!Workers : v # w => job'[v] = job[v]) /\ job'[w].at = "write" /\ GoesOn(job[w], job'[w])
    BY <1>2, <1>4, <2>1, GoesIs DEF JobPlaces
  <2> QED BY <1>1, <1>2, <1>4, <2>2 DEF Alone1
<1> QED BY <1>3, <1>4 DEF Policy!Consume, Policy!Consumable

LEMMA LapseIs ==
  ASSUME NEW c, PolicyTyped(c), Policy(c)!Lapse
  PROVE  /\ PolicyTyped(c)' /\ UNCHANGED <<job, tier, trail, held, mishaps>>
         /\ DOMAIN tokens' = DOMAIN tokens
         /\ \A n \in DOMAIN tokens : tokens'[n].writes = tokens[n].writes /\ (tokens'[n].live => tokens[n].live)
<1>1. UNCHANGED <<job, tier, trail, held, mishaps>>
  BY DEF Policy!Lapse
<1>2. PICK i \in DOMAIN tokens : tokens' = [tokens EXCEPT ![i].live = FALSE]
  BY DEF Policy!Lapse
<1>3. /\ tokens' \in Seq(TokenSet) /\ DOMAIN tokens' = DOMAIN tokens
      /\ \A n \in DOMAIN tokens : tokens'[n].writes = tokens[n].writes /\ (tokens'[n].live => tokens[n].live)
  BY <1>2, TokenDies
<1>4. PolicyTyped(c)'
  BY <1>1, <1>3 DEF PolicyTyped, Policy!Workers
<1> QED BY <1>1, <1>3, <1>4

\* What a write does to the tokens: the one it was asked with is used once more.
Marked(i, D) ==
  /\ DOMAIN tokens' = D
  /\ \A n \in D : tokens'[n].live = tokens[n].live /\ tokens'[n].writes = IF n = i THEN tokens[n].writes + 1 ELSE tokens[n].writes

LEMMA UsedMarks ==
  ASSUME NEW c, PolicyTyped(c), NEW w \in Policy(c)!Workers, tokens' = Policy(c)!Used(w)
  PROVE  tokens' \in Seq(TokenSet) /\ Marked(job[w].token, DOMAIN tokens)
<1>1. tokens \in Seq(TokenSet) /\ DOMAIN tokens = 1 .. Len(tokens) /\ Len(tokens) \in Nat
  BY DEF PolicyTyped
<1>2. PICK i : i = job[w].token
  OBVIOUS
<1>3. tokens' = [n \in DOMAIN tokens |->
        [tokens[n] EXCEPT !.old = @ \/ (job[w].kind = "pause" /\ tokens[n].surface = Policy(c)!Surface(job[w])),
                          !.writes = IF n = job[w].token THEN @ + 1 ELSE @]]
  BY DEF Policy!Used
<1>4. DOMAIN tokens' = DOMAIN tokens
  BY <1>3
<1>5. ASSUME NEW n \in DOMAIN tokens
      PROVE  /\ tokens'[n] \in TokenSet /\ tokens'[n].live = tokens[n].live
             /\ tokens'[n].writes = IF n = i THEN tokens[n].writes + 1 ELSE tokens[n].writes
  <2>1. PICK k : k = tokens[n]
    OBVIOUS
  <2>2. k \in TokenSet
    BY <1>1, <2>1
  <2>3. PICK b \in BOOLEAN : b = (k.old \/ (job[w].kind = "pause" /\ k.surface = Policy(c)!Surface(job[w])))
    BY DEF TokenSet
  <2>4. PICK m : m = IF n = i THEN k.writes + 1 ELSE k.writes
    OBVIOUS
  <2>5. m \in Nat
    BY <2>2, <2>4 DEF TokenSet
  <2>6. tokens'[n] = [k EXCEPT !.old = b, !.writes = m]
    BY <1>2, <1>3, <2>1, <2>3, <2>4
  <2>7. PICK u : u = [k EXCEPT !.old = b, !.writes = m]
    OBVIOUS
  <2>8. u \in TokenSet /\ u.live = k.live /\ u.writes = m
    <3>1. b \in BOOLEAN
      OBVIOUS
    <3> QED BY <2>2, <2>5, <2>7, <3>1, UsedIs, Zenon
  <2>9. tokens'[n] = u
    BY <2>6, <2>7
  <2> QED BY <2>1, <2>4, <2>8, <2>9
<1>6. tokens' \in Seq(TokenSet)
  <2>1. tokens' = [n \in 1 .. Len(tokens) |-> tokens'[n]]
    BY <1>1, <1>3
  <2>2. tokens' \in [1 .. Len(tokens) -> TokenSet]
    BY <1>1, <1>5, <2>1
  <2> QED BY <1>1, <2>2, SeqDef
<1> QED BY <1>2, <1>4, <1>5, <1>6 DEF Marked

WriteDoes(c, w) ==
  LET s == Policy(c)!Surface(job[w]) IN
  /\ PolicyTyped(c)' /\ Alone1(c, w) /\ UNCHANGED <<trail, held, mishaps>>
  /\ job[w] \in JobSet /\ JobFine(job[w], DOMAIN tokens) /\ job[w].at = "write" /\ s \in Faces
  /\ job[w].kind \in {"request", "commit", "pause", "resume"}
  /\ GoesOn(job[w], job'[w]) /\ job'[w].at = "audit"
  /\ tier' = [tier EXCEPT ![s] = job[w].target]
  /\ Marked(job[w].token, DOMAIN tokens)

LEMMA WriteIs ==
  ASSUME NEW c, PolicyTyped(c), NEW w \in Policy(c)!Workers, Policy(c)!Write(w)
  PROVE  WriteDoes(c, w)
<1>1. job[w] \in JobSet /\ JobFine(job[w], DOMAIN tokens) /\ job[w].at = "write" /\ UNCHANGED <<trail, held, mishaps>>
  BY DEF PolicyTyped, Policy!Write
<1>2. job[w].kind \in {"request", "commit", "pause", "resume"}
  BY <1>1 DEF JobFine, JobSet, JobKinds
<1>3. tokens' = Policy(c)!Used(w) /\ job' = [job EXCEPT ![w].at = "audit"]
      /\ tier' = [tier EXCEPT ![Policy(c)!Surface(job[w])] = job[w].target]
  BY DEF Policy!Write
<1>4. tokens' \in Seq(TokenSet) /\ Marked(job[w].token, DOMAIN tokens)
  BY <1>3, UsedMarks
<1>5. DOMAIN tokens \subseteq DOMAIN tokens'
  BY <1>4 DEF Marked
<1>6. PolicyTyped(c)' /\ (\A v \in Policy(c)!Workers : v # w => job'[v] = job[v]) /\ job'[w].at = "audit" /\ GoesOn(job[w], job'[w])
  BY <1>2, <1>3, <1>4, <1>5, GoesIs DEF JobPlaces
<1>7. Policy(c)!Surface(job[w]) \in Faces
  BY <1>1, SurfaceIn
<1> QED BY <1>1, <1>2, <1>3, <1>4, <1>6, <1>7 DEF WriteDoes, Alone1

\* The audit row is written, and a pause goes on; or the request fails.
AuditDoes(c, w) ==
  LET j == job[w] k == job'[w] IN
  /\ PolicyTyped(c)' /\ Alone1(c, w) /\ UNCHANGED <<tier, tokens>>
  /\ j \in JobSet /\ JobFine(j, DOMAIN tokens) /\ j.at = "audit" /\ Policy(c)!Surface(j) \in Faces
  /\ \/ /\ trail' = [trail EXCEPT ![Policy(c)!Surface(j)] = j.target] /\ mishaps' = mishaps
        /\ \/ /\ k.kind = "none" /\ k.at = "read"
              /\ held' = IF j.kind = "pause" THEN held \cup {j.list[i] : i \in 1 .. j.n} ELSE held
           \/ /\ j.kind = "pause" /\ k.kind = "pause" /\ k.at = "read" /\ k.list = j.list /\ k.n = j.n + 1
              /\ held' = held
     \/ /\ k.kind = "none" /\ k.at = "read" /\ trail' = trail /\ held' = held /\ mishaps' = mishaps + 1

LEMMA AuditIs ==
  ASSUME NEW c, PolicyTyped(c), NEW w \in Policy(c)!Workers, Policy(c)!Audit(w)
  PROVE  AuditDoes(c, w)
<1>1. job[w] \in JobSet /\ JobFine(job[w], DOMAIN tokens) /\ job[w].at = "audit" /\ UNCHANGED <<tier, tokens>>
  BY DEF PolicyTyped, Policy!Audit
<1>2. Policy(c)!Surface(job[w]) \in Faces
  BY <1>1, SurfaceIn
<1>3. tokens' \in Seq(TokenSet) /\ DOMAIN tokens \subseteq DOMAIN tokens'
  BY <1>1 DEF PolicyTyped
<1>4. job[w].n \in 1 .. 2 /\ job[w].list \in Lists /\ job[w].n <= Len(job[w].list)
  BY <1>1 DEF JobSet, JobFine
<1>5. PICK m : m = Len(job[w].list)
  OBVIOUS
<1>6. m \in 1 .. 2 /\ DOMAIN job[w].list = 1 .. m /\ job[w].n <= m
  BY <1>4, <1>5, ListsAre
<1>7. CASE Policy(c)!Fault("audit") /\ Policy(c)!Ends(w) /\ UNCHANGED <<trail, held>>
  <2>1. mishaps' = mishaps + 1
    BY <1>7 DEF Policy!Fault
  <2> QED BY <1>1, <1>2, <1>3, <1>7, <2>1, EndsIs DEF AuditDoes, Alone1
<1>8. CASE /\ trail' = [trail EXCEPT ![Policy(c)!Surface(job[w])] = job[w].target]
           /\ IF Policy(c)!Last(job[w]) THEN Policy(c)!Ends(w) ELSE job' = [job EXCEPT ![w] = Policy(c)!Onward(job[w])]
           /\ held' = held \cup Policy(c)!Answered(job[w]) /\ UNCHANGED mishaps
  <2>1. CASE job[w].n = m
    <3>1. Policy(c)!Last(job[w])
      BY <1>5, <2>1 DEF Policy!Last
    <3>2. held' = IF job[w].kind = "pause" THEN held \cup {job[w].list[i] : i \in 1 .. job[w].n} ELSE held
      BY <1>6, <1>8, <2>1, <3>1 DEF Policy!Answered
    <3> QED BY <1>1, <1>2, <1>3, <1>8, <3>1, <3>2, EndsIs DEF AuditDoes, Alone1
  <2>2. CASE job[w].n # m
    <3>1. ~Policy(c)!Last(job[w])
      BY <1>5, <2>2 DEF Policy!Last
    <3>2. held' = held
      BY <1>8, <3>1 DEF Policy!Answered
    <3>3. job[w].kind = "pause"
      <4>1. job[w].kind # "none"
        BY <1>1 DEF JobFine
      <4>2. job[w].kind # "pause" => job[w].n = 1 /\ m = 1
        <5>1. job[w].kind # "pause" => job[w].n = 1 /\ Len(job[w].list) = 1
          BY <1>1, <4>1 DEF JobFine
        <5> QED BY <1>5, <5>1
      <4> QED BY <2>2, <4>2
    <3>4. PICK n \in 1 .. 2 : n = job[w].n + 1 /\ n <= m
      BY <1>4, <1>6, <2>2
    <3>5. PICK k : k = Policy(c)!Onward(job[w])
      OBVIOUS
    <3>6. k \in JobSet /\ k.at = "read" /\ k.kind = "pause" /\ k.list = job[w].list /\ k.n = n /\ k.target = job[w].target
          /\ k.token = job[w].token
      BY <1>1, <3>3, <3>4, <3>5, TurnedIs DEF Policy!Onward
    <3>7. JobFine(k, DOMAIN tokens')
      <4>1. k.n <= Len(k.list)
        <5>1. Len(k.list) = m
          BY <1>5, <3>6, Zenon
        <5> QED BY <3>4, <3>6, <5>1
      <4>2. k.token = 0 /\ k.target = "paused"
        BY <1>1, <3>3, <3>6 DEF JobFine
      <4> QED BY <3>6, <4>1, <4>2 DEF JobFine
    <3>8. job' = [job EXCEPT ![w] = k]
      BY <1>8, <3>1, <3>5
    <3>9. PolicyTyped(c)' /\ job'[w] = k /\ \A v \in Policy(c)!Workers : v # w => job'[v] = job[v]
      BY <1>3, <3>6, <3>7, <3>8, JobPut, Zenon
    <3> QED BY <1>1, <1>2, <1>8, <3>2, <3>3, <3>4, <3>6, <3>9 DEF AuditDoes, Alone1
  <2> QED BY <2>1, <2>2
<1> QED BY <1>7, <1>8 DEF Policy!Audit, Policy!Recorded

LEMMA CreateIs ==
  ASSUME NEW c, PolicyTyped(c), NEW w \in Policy(c)!Workers, Policy(c)!Create(w)
  PROVE  ReadDoes(c, w)
<1>1. Policy(c)!Ends(w) /\ StillThere /\ held' = held /\ job[w].at # "audit"
  BY DEF Policy!Create, StillThere
<1>2. tokens' \in Seq(TokenSet) /\ DOMAIN tokens \subseteq DOMAIN tokens'
  BY <1>1 DEF StillThere, PolicyTyped
<1> QED BY <1>1, <1>2, EndsIs DEF ReadDoes, Alone1

LEMMA CrashIs ==
  ASSUME NEW c, PolicyTyped(c), Policy(c)!Crash
  PROVE  /\ PolicyTyped(c)' /\ UNCHANGED <<tier, tokens, trail, held>> /\ mishaps' = mishaps + 1
         /\ \A w \in Policy(c)!Workers : job'[w].kind = "none" /\ job'[w].at = "read"
<1>1. job' = [w \in Policy(c)!Workers |-> Policy(c)!Idle] /\ UNCHANGED <<tier, tokens, trail, held>> /\ mishaps' = mishaps + 1
  BY DEF Policy!Crash, Policy!Fault
<1> PICK k : k = Policy(c)!Idle
  OBVIOUS
<1>2. k \in JobSet /\ JobFine(k, DOMAIN tokens) /\ k.kind = "none" /\ k.at = "read"
  BY IdleIsFine
<1>3. job' = [w \in Policy(c)!Workers |-> k]
  BY <1>1
<1>4. job' \in [Policy(c)!Workers -> JobSet] /\ \A w \in Policy(c)!Workers : job'[w] = k
  BY <1>2, <1>3
<1>5. PolicyTyped(c)'
  BY <1>1, <1>2, <1>4 DEF PolicyTyped, Policy!Workers
<1> QED BY <1>1, <1>2, <1>4, <1>5

IssueDoes(c, w) ==
  /\ PolicyTyped(c)' /\ Alone1(c, w) /\ UNCHANGED <<tier, trail, held, mishaps>>
  /\ job'[w].kind = "none" /\ job'[w].at = "read" /\ job[w].at # "audit"
  /\ \E k \in TokenSet : k.writes = 0 /\ tokens' = Append(tokens, k)

ConsumeDoes(c, w) ==
  /\ PolicyTyped(c)' /\ Alone1(c, w) /\ UNCHANGED <<tier, trail, held, mishaps>>
  /\ job[w].kind = "commit" /\ job[w].at = "consume" /\ job[w].token \in DOMAIN tokens
  /\ \/ job'[w].kind = "none" /\ job'[w].at = "read" /\ tokens' = tokens
     \/ /\ GoesOn(job[w], job'[w]) /\ job'[w].at = "write" /\ tokens[job[w].token].live
        /\ tokens' = [tokens EXCEPT ![job[w].token].live = FALSE]

LapseDoes(c) ==
  /\ PolicyTyped(c)' /\ UNCHANGED <<job, tier, trail, held, mishaps>>
  /\ DOMAIN tokens' = DOMAIN tokens
  /\ \A n \in DOMAIN tokens : tokens'[n].writes = tokens[n].writes /\ (tokens'[n].live => tokens[n].live)

CrashDoes(c) ==
  /\ PolicyTyped(c)' /\ UNCHANGED <<tier, tokens, trail, held>> /\ mishaps' = mishaps + 1
  /\ \A w \in Policy(c)!Workers : job'[w].kind = "none" /\ job'[w].at = "read"

NothingDone == UNCHANGED <<job, tier, tokens, trail, held, mishaps>>

\* What one worker may do, and what happens to them all.
WorkerDoes(c, w) ==
  \/ job[w].kind = "none" /\ Comes(c, w)
  \/ ReadDoes(c, w) \/ IssueDoes(c, w) \/ ConsumeDoes(c, w) \/ WriteDoes(c, w) \/ AuditDoes(c, w)

LEMMA PolicySides ==
  ASSUME NEW c, Policy(c)!PolicyAssumption, ~c.Engine, PolicyTyped(c), Policy(c)!Next
  PROVE  (\E w \in Policy(c)!Workers : WorkerDoes(c, w)) \/ LapseDoes(c) \/ CrashDoes(c) \/ NothingDone
<1>1. c.Requests = Policy(c)!Workers
  BY DEF Policy!Workers
<1>2. ASSUME NEW w \in c.Requests, Policy(c)!User(w) PROVE WorkerDoes(c, w)
  BY <1>2, UserComes DEF WorkerDoes
<1>3. ASSUME NEW w \in Policy(c)!Workers, Policy(c)!Step(w) PROVE WorkerDoes(c, w)
  <2>1. CASE Policy(c)!Read(w)
    BY <2>1, ReadIs DEF WorkerDoes
  <2>2. CASE Policy(c)!Issue(w)
    <3>1. IssueDoes(c, w)
      BY <2>2, IssueIs DEF IssueDoes
    <3> QED BY <3>1 DEF WorkerDoes
  <2>3. CASE Policy(c)!Consume(w)
    <3>1. job[w].at = "consume"
      BY <2>3 DEF Policy!Consume
    <3>2. ConsumeDoes(c, w)
      BY <2>3, <3>1, ConsumeIs DEF ConsumeDoes
    <3> QED BY <3>2 DEF WorkerDoes
  <2>4. CASE Policy(c)!Write(w)
    BY <2>4, WriteIs DEF WorkerDoes
  <2>5. CASE Policy(c)!Audit(w)
    BY <2>5, AuditIs DEF WorkerDoes
  <2>6. CASE Policy(c)!Create(w)
    BY <2>6, CreateIs DEF WorkerDoes
  <2> QED BY <1>3, <2>1, <2>2, <2>3, <2>4, <2>5, <2>6 DEF Policy!Step
<1>4. CASE Policy(c)!SessionEnds \/ Policy(c)!Buy
  BY <1>4 DEF Policy!SessionEnds, Policy!Buy, NothingDone
<1>5. CASE Policy(c)!Lapse
  BY <1>5, LapseIs DEF LapseDoes
<1>6. CASE Policy(c)!Crash
  BY <1>6, CrashIs DEF CrashDoes
<1>7. ~Policy(c)!CronStep /\ ~Policy(c)!Breaches
  BY DEF Policy!CronStep, Policy!Tick, Policy!Look, Policy!Breaches
<1> QED BY <1>1, <1>2, <1>3, <1>4, <1>5, <1>6, <1>7 DEF Policy!Next

LEMMA PolicyStarts ==
  ASSUME NEW c, Policy(c)!Init
  PROVE  /\ PolicyTyped(c) /\ tokens = <<>> /\ held = {} /\ mishaps = 0 /\ trail = tier /\ tier \in [Faces -> TierSet]
         /\ \A w \in Policy(c)!Workers : job[w].kind = "none" /\ job[w].at = "read"
<1>1. job = [w \in Policy(c)!Workers |-> Policy(c)!Idle] /\ tokens = <<>> /\ held = {} /\ mishaps = 0 /\ trail = tier
  BY DEF Policy!Init
<1> PICK k : k = Policy(c)!Idle
  OBVIOUS
<1>2. k \in JobSet /\ JobFine(k, DOMAIN tokens) /\ k.kind = "none" /\ k.at = "read"
  BY IdleIsFine
<1>3. job \in [Policy(c)!Workers -> JobSet] /\ \A w \in Policy(c)!Workers : job[w] = k
  BY <1>1, <1>2
<1>4. tokens \in Seq(TokenSet)
  BY <1>1
<1>5. tier \in [Faces -> TierSet]
  BY FacesAre DEF Policy!Init, TierSet, Consents
<1> QED BY <1>1, <1>2, <1>3, <1>4, <1>5 DEF PolicyTyped

-----------------------------------------------------------------------------
(* One tap, one change *)

\* A worker that has consumed a token and not yet written.
Spending(w) == job[w].kind = "commit" /\ job[w].at = "write"

TapInv(c) ==
  /\ PolicyTyped(c)
  /\ \A i \in DOMAIN tokens : tokens[i].writes <= 1 /\ (tokens[i].live => tokens[i].writes = 0)
  /\ \A w \in Policy(c)!Workers : Spending(w) => ~tokens[job[w].token].live /\ tokens[job[w].token].writes = 0
  /\ \A v, w \in Policy(c)!Workers : Spending(v) /\ Spending(w) /\ job[v].token = job[w].token => v = w

\* Nothing is spent: tokens are added unused, and no worker begins to spend.
TapsRest(c) ==
  /\ DOMAIN tokens \subseteq DOMAIN tokens'
  /\ \A i \in DOMAIN tokens : tokens'[i].writes = tokens[i].writes /\ (tokens'[i].live => tokens[i].live)
  /\ \A i \in DOMAIN tokens' : i \notin DOMAIN tokens => tokens'[i].writes = 0
  /\ \A w \in Policy(c)!Workers : Spending(w)' => Spending(w) /\ job'[w].token = job[w].token

LEMMA SpentIsThere ==
  ASSUME NEW c, PolicyTyped(c), NEW w \in Policy(c)!Workers, job[w].kind = "commit"
  PROVE  job[w].token \in DOMAIN tokens
BY DEF PolicyTyped, JobFine

LEMMA TapsRestKeep ==
  ASSUME NEW c, TapInv(c), PolicyTyped(c)', TapsRest(c)
  PROVE  TapInv(c)'
<1>1. ASSUME NEW i \in DOMAIN tokens' PROVE tokens'[i].writes <= 1 /\ (tokens'[i].live => tokens'[i].writes = 0)
  <2>1. CASE i \in DOMAIN tokens
    BY <2>1 DEF TapInv, TapsRest
  <2>2. CASE i \notin DOMAIN tokens
    BY <2>2 DEF TapsRest
  <2> QED BY <2>1, <2>2
<1>2. ASSUME NEW w \in Policy(c)!Workers, Spending(w)'
      PROVE  ~tokens'[job'[w].token].live /\ tokens'[job'[w].token].writes = 0
  <2>1. Spending(w) /\ job'[w].token = job[w].token
    BY <1>2 DEF TapsRest
  <2>2. job[w].token \in DOMAIN tokens /\ ~tokens[job[w].token].live /\ tokens[job[w].token].writes = 0
    BY <2>1, SpentIsThere DEF TapInv, Spending
  <2> QED BY <2>1, <2>2 DEF TapsRest
<1>3. ASSUME NEW v \in Policy(c)!Workers, NEW w \in Policy(c)!Workers, Spending(v)', Spending(w)', job'[v].token = job'[w].token
      PROVE  v = w
  BY <1>3 DEF TapsRest, TapInv
<1>4. PolicyTyped(c)'
  OBVIOUS
<1> QED BY <1>1, <1>2, <1>3, <1>4 DEF TapInv, Policy!Workers

LEMMA TapSteps ==
  ASSUME NEW c, Policy(c)!PolicyAssumption, ~c.Engine, TapInv(c), Policy(c)!Next
  PROVE  TapInv(c)'
<1>1. PolicyTyped(c)
  BY DEF TapInv
<1>2. CASE LapseDoes(c)
  BY <1>2, TapsRestKeep DEF LapseDoes, TapsRest, Spending
<1>3. CASE CrashDoes(c)
  <2>1. \A w \in Policy(c)!Workers : ~Spending(w)'
    BY <1>3 DEF CrashDoes, Spending
  <2> QED BY <1>3, <2>1, TapsRestKeep DEF CrashDoes, TapsRest
<1>4. CASE NothingDone
  BY <1>4 DEF NothingDone, TapInv, PolicyTyped, Spending, Policy!Workers
<1>5. ASSUME NEW w \in Policy(c)!Workers, Alone1(c, w), PolicyTyped(c)', tokens' = tokens, ~Spending(w)'
      PROVE  TapInv(c)'
  <2>1. \A v \in Policy(c)!Workers : Spending(v)' => Spending(v) /\ job'[v].token = job[v].token
    BY <1>5 DEF Alone1, Spending
  <2> QED BY <1>5, <2>1, TapsRestKeep DEF TapsRest
<1>6. ASSUME NEW w \in Policy(c)!Workers, IssueDoes(c, w) PROVE TapInv(c)'
  <2>1. PICK k \in TokenSet : k.writes = 0 /\ tokens' = Append(tokens, k)
    BY <1>6 DEF IssueDoes
  <2>2. tokens \in Seq(TokenSet)
    BY <1>1 DEF PolicyTyped
  <2>3. /\ DOMAIN tokens \subseteq DOMAIN tokens' /\ (\A i \in DOMAIN tokens : tokens'[i] = tokens[i])
        /\ \A i \in DOMAIN tokens' : i \notin DOMAIN tokens => tokens'[i] = k
    BY <2>1, <2>2
  <2>4. \A v \in Policy(c)!Workers : Spending(v)' => Spending(v) /\ job'[v].token = job[v].token
    BY <1>6 DEF IssueDoes, Alone1, Spending
  <2>5. TapsRest(c)
    BY <2>1, <2>3, <2>4 DEF TapsRest
  <2> QED BY <1>6, <2>5, TapsRestKeep DEF IssueDoes
<1>7. ASSUME NEW w \in Policy(c)!Workers, ConsumeDoes(c, w) PROVE TapInv(c)'
  <2>1. CASE job'[w].kind = "none" /\ tokens' = tokens
    BY <1>5, <1>7, <2>1 DEF ConsumeDoes, Spending
  <2>2. CASE /\ GoesOn(job[w], job'[w]) /\ job'[w].at = "write" /\ tokens[job[w].token].live
             /\ tokens' = [tokens EXCEPT ![job[w].token].live = FALSE]
    <3>1. PICK i \in DOMAIN tokens : i = job[w].token
      BY <1>7 DEF ConsumeDoes
    <3>2. tokens' = [tokens EXCEPT ![i].live = FALSE] /\ tokens[i].live
      BY <2>2, <3>1
    <3>3. /\ DOMAIN tokens' = DOMAIN tokens /\ ~tokens'[i].live
          /\ \A n \in DOMAIN tokens : tokens'[n].writes = tokens[n].writes /\ (tokens'[n].live => tokens[n].live)
      BY <1>1, <3>2, TokenDies
    <3>4. tokens'[i].writes = 0
      BY <3>2, <3>3 DEF TapInv
    <3>5. ASSUME NEW v \in Policy(c)!Workers, v # w, Spending(v)'
          PROVE  Spending(v) /\ job'[v].token = job[v].token /\ job[v].token \in DOMAIN tokens /\ job[v].token # i
      <4>1. Spending(v) /\ job'[v].token = job[v].token
        BY <1>7, <3>5 DEF ConsumeDoes, Alone1, Spending
      <4>2. job[v].token \in DOMAIN tokens
        BY <1>1, <4>1, SpentIsThere DEF Spending
      <4>3. ~tokens[job[v].token].live
        BY <4>1 DEF TapInv
      <4> QED BY <3>2, <4>1, <4>2, <4>3
    <3>6. job'[w].token = i
      BY <2>2, <3>1 DEF GoesOn
    <3>7. \A n \in DOMAIN tokens' : tokens'[n].writes <= 1 /\ (tokens'[n].live => tokens'[n].writes = 0)
      BY <3>3 DEF TapInv
    <3>8. \A v \in Policy(c)!Workers : Spending(v)' => ~tokens'[job'[v].token].live /\ tokens'[job'[v].token].writes = 0
      <4> SUFFICES ASSUME NEW v \in Policy(c)!Workers, Spending(v)'
                   PROVE  ~tokens'[job'[v].token].live /\ tokens'[job'[v].token].writes = 0
        OBVIOUS
      <4>1. CASE v = w
        BY <3>3, <3>4, <3>6, <4>1
      <4>2. CASE v # w
        <5>1. Spending(v) /\ job'[v].token = job[v].token /\ job[v].token \in DOMAIN tokens
          BY <3>5, <4>2
        <5>2. ~tokens[job[v].token].live /\ tokens[job[v].token].writes = 0
          BY <5>1 DEF TapInv
        <5> QED BY <3>3, <5>1, <5>2
      <4> QED BY <4>1, <4>2
    <3>9. \A u, v \in Policy(c)!Workers : Spending(u)' /\ Spending(v)' /\ job'[u].token = job'[v].token => u = v
      <4> SUFFICES ASSUME NEW u \in Policy(c)!Workers, NEW v \in Policy(c)!Workers, Spending(u)', Spending(v)',
                          job'[u].token = job'[v].token, u # v
                   PROVE  FALSE
        OBVIOUS
      <4>1. u # w /\ v # w
        BY <3>5, <3>6
      <4>2. Spending(u) /\ Spending(v) /\ job[u].token = job[v].token
        BY <3>5, <4>1
      <4> QED BY <4>2 DEF TapInv
    <3> QED BY <1>7, <3>7, <3>8, <3>9 DEF TapInv, ConsumeDoes, Policy!Workers
  <2> QED BY <1>7, <2>1, <2>2 DEF ConsumeDoes
<1>8. ASSUME NEW w \in Policy(c)!Workers, WriteDoes(c, w) PROVE TapInv(c)'
  <2>0. PICK i : i = job[w].token
    OBVIOUS
  <2>1. Marked(i, DOMAIN tokens) /\ ~Spending(w)'
    BY <1>8, <2>0 DEF WriteDoes, Spending
  <2>2. \A v \in Policy(c)!Workers : Spending(v)' => v # w /\ Spending(v) /\ job'[v].token = job[v].token
    BY <1>8, <2>1 DEF WriteDoes, Alone1, Spending
  <2>3. CASE job[w].kind # "commit"
    <3>1. i = 0 /\ i \notin DOMAIN tokens
      <4>1. i = 0
        BY <1>8, <2>0, <2>3 DEF WriteDoes, JobFine
      <4> QED BY <1>1, <4>1 DEF PolicyTyped
    <3>2. TapsRest(c)
      BY <2>1, <2>2, <3>1 DEF TapsRest, Marked
    <3> QED BY <1>8, <3>2, TapsRestKeep DEF WriteDoes
  <2>4. CASE job[w].kind = "commit"
    <3>1. Spending(w)
      BY <1>8, <2>4 DEF WriteDoes, Spending
    <3>2. i \in DOMAIN tokens /\ ~tokens[i].live /\ tokens[i].writes = 0
      BY <1>1, <2>0, <2>4, <3>1, SpentIsThere DEF TapInv
    <3>3. /\ DOMAIN tokens' = DOMAIN tokens /\ tokens'[i].writes = 1 /\ ~tokens'[i].live
          /\ \A n \in DOMAIN tokens : n # i => tokens'[n].writes = tokens[n].writes /\ tokens'[n].live = tokens[n].live
      BY <2>1, <3>2 DEF Marked
    <3>4. \A n \in DOMAIN tokens' : tokens'[n].writes <= 1 /\ (tokens'[n].live => tokens'[n].writes = 0)
      BY <3>3 DEF TapInv
    <3>5. ASSUME NEW v \in Policy(c)!Workers, Spending(v)'
          PROVE  Spending(v) /\ job'[v].token = job[v].token /\ job[v].token \in DOMAIN tokens /\ job[v].token # i
      <4>1. v # w /\ Spending(v) /\ job'[v].token = job[v].token
        BY <2>2, <3>5
      <4>2. job[v].token \in DOMAIN tokens
        BY <1>1, <4>1, SpentIsThere DEF Spending
      <4> QED BY <2>0, <3>1, <4>1, <4>2 DEF TapInv
    <3>6. \A v \in Policy(c)!Workers : Spending(v)' => ~tokens'[job'[v].token].live /\ tokens'[job'[v].token].writes = 0
      <4> SUFFICES ASSUME NEW v \in Policy(c)!Workers, Spending(v)'
                   PROVE  ~tokens'[job'[v].token].live /\ tokens'[job'[v].token].writes = 0
        OBVIOUS
      <4>1. Spending(v) /\ job'[v].token = job[v].token /\ job[v].token \in DOMAIN tokens /\ job[v].token # i
        BY <3>5
      <4>2. ~tokens[job[v].token].live /\ tokens[job[v].token].writes = 0
        BY <4>1 DEF TapInv
      <4> QED BY <3>3, <4>1, <4>2
    <3>7. \A u, v \in Policy(c)!Workers : Spending(u)' /\ Spending(v)' /\ job'[u].token = job'[v].token => u = v
      BY <3>5 DEF TapInv
    <3> QED BY <1>8, <3>4, <3>6, <3>7 DEF TapInv, WriteDoes, Policy!Workers
  <2> QED BY <2>3, <2>4
<1>9. ASSUME NEW w \in Policy(c)!Workers, WorkerDoes(c, w) PROVE TapInv(c)'
  <2>1. CASE Comes(c, w)
    BY <1>5, <2>1 DEF Comes, StillThere, Spending
  <2>2. CASE ReadDoes(c, w)
    BY <1>5, <2>2 DEF ReadDoes, StillThere, GoesOn, Spending
  <2>3. CASE AuditDoes(c, w)
    BY <1>5, <2>3 DEF AuditDoes, Spending
  <2> QED BY <1>6, <1>7, <1>8, <1>9, <2>1, <2>2, <2>3 DEF WorkerDoes
<1> QED BY <1>1, <1>2, <1>3, <1>4, <1>9, PolicySides

-----------------------------------------------------------------------------
(* One request at a time *)

\* What is so of a job j on the surface s: t are the tiers, a the audit trail,
\* h the surfaces a pause was answered for, and z whether nothing has failed.
JobHolds(c, j, s, t, a, h, z) ==
  /\ j.kind \in {"request", "commit"} /\ j.at \in {"consume", "write"} => t[s] # "paused"
  /\ j.kind = "request" /\ j.at = "write" => Policy(c)!Down(t[s], j.target)
  /\ j.kind = "resume" => j.list[1] \notin h
  /\ j.kind = "resume" /\ j.at = "write" => t[s] = "paused"
  /\ j.kind = "pause" => \A i \in 1 .. 2 : i < j.n => t[j.list[i]] = "paused"
  /\ j.at = "audit" => t[s] = j.target
  /\ z => \A f \in Faces : a[f] = t[f] \/ (j.at = "audit" /\ f = s)

OneInv(c) ==
  /\ PolicyTyped(c)
  /\ tier \in [Faces -> TierSet] /\ trail \in [Faces -> TierSet] /\ mishaps \in Nat
  /\ held \subseteq Faces /\ \A s \in held : tier[s] = "paused"
  /\ \A w \in Policy(c)!Workers : JobHolds(c, job[w], Policy(c)!Surface(job[w]), tier, trail, held, mishaps = 0)

OneAtATime(c) == ~c.Engine /\ \E r : c.Requests = {r}

LEMMA OnlyWorker ==
  ASSUME NEW c, OneAtATime(c), NEW w \in Policy(c)!Workers
  PROVE  \A v \in Policy(c)!Workers : v = w
BY DEF OneAtATime, Policy!Workers

\* A worker that does nothing, or has only begun, says nothing of the tiers.
LEMMA FreeHolds ==
  ASSUME NEW c, NEW j, NEW s, NEW t, NEW a, NEW h, NEW z, j.at = "read",
         j.kind # "none" => j.n = 1, j.kind = "resume" => j.list[1] \notin h,
         z => \A f \in Faces : a[f] = t[f]
  PROVE  JobHolds(c, j, s, t, a, h, z)
BY DEF JobHolds

\* The one worker's job holds after the step, so do they all.
LEMMA OneKeeps ==
  ASSUME NEW c, OneAtATime(c), NEW w \in Policy(c)!Workers, PolicyTyped(c)',
         tier' \in [Faces -> TierSet], trail' \in [Faces -> TierSet], mishaps' \in Nat,
         held' \subseteq Faces, \A s \in held' : tier'[s] = "paused",
         JobHolds(c, job'[w], Policy(c)!Surface(job'[w]), tier', trail', held', mishaps' = 0)
  PROVE  OneInv(c)'
<1>1. \A v \in Policy(c)!Workers : JobHolds(c, job'[v], Policy(c)!Surface(job'[v]), tier', trail', held', mishaps' = 0)
  BY OnlyWorker
<1> QED BY <1>1 DEF OneInv, Policy!Workers, Policy!Surface, JobHolds, Policy!Down, Policy!Rank

LEMMA OneComes ==
  ASSUME NEW c, OneAtATime(c), OneInv(c), NEW w \in Policy(c)!Workers, job[w].kind = "none", Comes(c, w)
  PROVE  OneInv(c)'
<1>1. tier' = tier /\ trail' = trail /\ mishaps' = mishaps /\ PolicyTyped(c)' /\ job'[w].at = "read" /\ job'[w].n = 1
  BY DEF Comes, StillThere
<1>2. held' \subseteq held /\ (job'[w].kind = "resume" => job'[w].list[1] \notin held')
  BY DEF Comes
<1>3. mishaps = 0 => \A f \in Faces : trail[f] = tier[f]
  <2>1. JobFine(job[w], DOMAIN tokens)
    BY DEF OneInv, PolicyTyped
  <2>2. job[w].at # "audit"
    BY <2>1 DEF JobFine
  <2> QED BY <2>2 DEF OneInv, JobHolds
<1>4. JobHolds(c, job'[w], Policy(c)!Surface(job'[w]), tier', trail', held', mishaps' = 0)
  BY <1>1, <1>2, <1>3, FreeHolds
<1> QED BY <1>1, <1>2, <1>4, OneKeeps DEF OneInv

LEMMA OneReads ==
  ASSUME NEW c, OneAtATime(c), OneInv(c), NEW w \in Policy(c)!Workers, ReadDoes(c, w)
  PROVE  OneInv(c)'
<1>1. tier' = tier /\ trail' = trail /\ mishaps' = mishaps /\ held' = held /\ PolicyTyped(c)'
  BY DEF ReadDoes, StillThere
<1>2. PICK j, k, s : j = job[w] /\ k = job'[w] /\ s = Policy(c)!Surface(job[w])
  OBVIOUS
<1>3. JobHolds(c, j, s, tier, trail, held, mishaps = 0) /\ j.at # "audit"
  BY <1>2 DEF OneInv, ReadDoes
<1>4. mishaps = 0 => \A f \in Faces : trail[f] = tier[f]
  BY <1>3 DEF JobHolds
<1>5. CASE k.kind = "none" /\ k.at = "read"
  <2>1. JobHolds(c, k, Policy(c)!Surface(k), tier, trail, held, mishaps = 0)
    BY <1>4, <1>5, FreeHolds
  <2> QED BY <1>1, <1>2, <2>1, OneKeeps DEF OneInv
<1>6. CASE /\ GoesOn(j, k)
           /\ \/ j.kind = "request" /\ tier[s] # "paused" /\ (k.at = "issue" \/ (k.at = "write" /\ Policy(c)!Down(tier[s], j.target)))
              \/ j.kind = "commit" /\ tier[s] # "paused" /\ k.at = "consume"
              \/ j.kind = "pause" /\ k.at = "write"
              \/ j.kind = "resume" /\ tier[s] = "paused" /\ k.at = "write"
              \/ j.kind = "mint" /\ k.at = "create"
  <2>1. Policy(c)!Surface(k) = s
    BY <1>2, <1>6 DEF GoesOn, Policy!Surface
  <2>2. JobHolds(c, k, s, tier, trail, held, mishaps = 0)
    BY <1>3, <1>4, <1>6 DEF GoesOn, JobHolds
  <2> QED BY <1>1, <1>2, <2>1, <2>2, OneKeeps DEF OneInv
<1> QED BY <1>2, <1>5, <1>6 DEF ReadDoes

LEMMA OneConsumes ==
  ASSUME NEW c, OneAtATime(c), OneInv(c), NEW w \in Policy(c)!Workers, ConsumeDoes(c, w)
  PROVE  OneInv(c)'
<1>1. tier' = tier /\ trail' = trail /\ mishaps' = mishaps /\ held' = held /\ PolicyTyped(c)'
  BY DEF ConsumeDoes
<1>2. PICK j, k, s : j = job[w] /\ k = job'[w] /\ s = Policy(c)!Surface(job[w])
  OBVIOUS
<1>3. JobHolds(c, j, s, tier, trail, held, mishaps = 0) /\ j.kind = "commit" /\ j.at = "consume"
  BY <1>2 DEF OneInv, ConsumeDoes
<1>4. mishaps = 0 => \A f \in Faces : trail[f] = tier[f]
  BY <1>3 DEF JobHolds
<1>5. CASE k.kind = "none" /\ k.at = "read"
  <2>1. JobHolds(c, k, Policy(c)!Surface(k), tier, trail, held, mishaps = 0)
    BY <1>4, <1>5, FreeHolds
  <2> QED BY <1>1, <1>2, <2>1, OneKeeps DEF OneInv
<1>6. CASE GoesOn(j, k) /\ k.at = "write"
  <2>1. Policy(c)!Surface(k) = s
    BY <1>2, <1>6 DEF GoesOn, Policy!Surface
  <2>2. JobHolds(c, k, s, tier, trail, held, mishaps = 0)
    BY <1>3, <1>4, <1>6 DEF GoesOn, JobHolds
  <2> QED BY <1>1, <1>2, <2>1, <2>2, OneKeeps DEF OneInv
<1> QED BY <1>2, <1>5, <1>6 DEF ConsumeDoes

LEMMA OneWrites ==
  ASSUME NEW c, OneAtATime(c), OneInv(c), NEW w \in Policy(c)!Workers, WriteDoes(c, w)
  PROVE  OneInv(c)'
<1>1. PICK j, k, s : j = job[w] /\ k = job'[w] /\ s = Policy(c)!Surface(job[w])
  OBVIOUS
<1>2. /\ trail' = trail /\ mishaps' = mishaps /\ held' = held /\ PolicyTyped(c)'
      /\ tier' = [tier EXCEPT ![s] = j.target] /\ s \in Faces /\ j \in JobSet /\ j.at = "write"
      /\ j.kind \in {"request", "commit", "pause", "resume"} /\ GoesOn(j, k) /\ k.at = "audit"
  BY <1>1 DEF WriteDoes
<1>3. JobFine(j, DOMAIN tokens)
  BY <1>1 DEF WriteDoes
<1>4. /\ JobHolds(c, j, s, tier, trail, held, mishaps = 0) /\ tier \in [Faces -> TierSet]
      /\ held \subseteq Faces /\ \A f \in held : tier[f] = "paused"
  BY <1>1 DEF OneInv
<1>5. j.target \in TierSet /\ j.list \in Lists /\ j.n \in 1 .. 2 /\ (j.kind = "pause" => j.target = "paused")
  BY <1>2, <1>3 DEF JobSet, JobFine
<1>6. tier' \in [Faces -> TierSet] /\ tier'[s] = j.target /\ \A f \in Faces : f # s => tier'[f] = tier[f]
  BY <1>2, <1>4, <1>5
<1>7. ASSUME NEW f \in held PROVE tier'[f] = "paused"
  <2>1. f \in Faces /\ tier[f] = "paused"
    BY <1>4
  <2>2. CASE f # s
    BY <1>6, <2>1, <2>2
  <2>3. CASE f = s
    <3>1. j.kind \notin {"request", "commit"}
      BY <1>2, <1>4, <2>1, <2>3 DEF JobHolds
    <3>2. j.kind # "resume"
      <4> SUFFICES ASSUME j.kind = "resume" PROVE FALSE
        OBVIOUS
      <4>1. j.n = 1 /\ j.list[1] \notin held
        BY <1>3, <1>4 DEF JobFine, JobHolds
      <4>2. s = j.list[j.n]
        BY <1>1 DEF Policy!Surface
      <4> QED BY <2>3, <4>1, <4>2
    <3> QED BY <1>2, <1>5, <1>6, <2>3, <3>1, <3>2
  <2> QED BY <2>2, <2>3
<1>8. Policy(c)!Surface(k) = s
  BY <1>1, <1>2 DEF GoesOn, Policy!Surface
<1>9. ASSUME j.kind = "pause", NEW i \in 1 .. 2, i < j.n PROVE tier'[j.list[i]] = "paused"
  <2>1. tier[j.list[i]] = "paused"
    BY <1>4, <1>9 DEF JobHolds
  <2>2. j.list[i] \in Faces
    <3>1. PICK m : m = Len(j.list)
      OBVIOUS
    <3>2. j.n <= m /\ \A n \in 1 .. m : j.list[n] \in Faces
      BY <1>3, <1>5, <3>1, ListsAre DEF JobFine
    <3>3. m \in 1 .. 2
      BY <1>5, <3>1, ListsAre
    <3> QED BY <1>5, <1>9, <3>2, <3>3
  <2> QED BY <1>5, <1>6, <1>9, <2>1, <2>2
<1>10. mishaps = 0 => \A f \in Faces : trail[f] = tier'[f] \/ f = s
  BY <1>2, <1>4, <1>6 DEF JobHolds
<1>11. j.kind = "resume" => j.list[1] \notin held
  BY <1>4 DEF JobHolds
<1>12. JobHolds(c, k, s, tier', trail, held, mishaps = 0)
  BY <1>2, <1>6, <1>9, <1>10, <1>11 DEF GoesOn, JobHolds
<1> QED BY <1>1, <1>2, <1>6, <1>7, <1>8, <1>12, OneKeeps DEF OneInv

LEMMA OneAudits ==
  ASSUME NEW c, OneAtATime(c), OneInv(c), NEW w \in Policy(c)!Workers, AuditDoes(c, w)
  PROVE  OneInv(c)'
<1>1. PICK j, k, s : j = job[w] /\ k = job'[w] /\ s = Policy(c)!Surface(job[w])
  OBVIOUS
<1>2. tier' = tier /\ PolicyTyped(c)' /\ j \in JobSet /\ JobFine(j, DOMAIN tokens) /\ j.at = "audit" /\ s \in Faces
  BY <1>1 DEF AuditDoes
<1>3. /\ JobHolds(c, j, s, tier, trail, held, mishaps = 0) /\ tier \in [Faces -> TierSet] /\ trail \in [Faces -> TierSet]
      /\ held \subseteq Faces /\ (\A f \in held : tier[f] = "paused") /\ mishaps \in Nat
  BY <1>1 DEF OneInv
<1>4. tier[s] = j.target
  BY <1>2, <1>3 DEF JobHolds
<1>5. CASE k.kind = "none" /\ k.at = "read" /\ trail' = trail /\ held' = held /\ mishaps' = mishaps + 1
  <2>1. mishaps' \in Nat /\ mishaps' # 0
    BY <1>3, <1>5
  <2>2. JobHolds(c, k, Policy(c)!Surface(k), tier', trail', held', mishaps' = 0)
    BY <1>5, <2>1, FreeHolds
  <2> QED BY <1>1, <1>2, <1>3, <1>5, <2>1, <2>2, OneKeeps
<1>6. ASSUME trail' = [trail EXCEPT ![s] = j.target], mishaps' = mishaps
      PROVE  /\ trail' \in [Faces -> TierSet] /\ mishaps' \in Nat
             /\ mishaps' = 0 => \A f \in Faces : trail'[f] = tier'[f]
  <2>1. trail' \in [Faces -> TierSet] /\ trail'[s] = j.target /\ \A f \in Faces : f # s => trail'[f] = trail[f]
    BY <1>2, <1>3, <1>6 DEF JobSet
  <2>2. mishaps = 0 => \A f \in Faces : f # s => trail[f] = tier[f]
    BY <1>3 DEF JobHolds
  <2> QED BY <1>2, <1>3, <1>4, <1>6, <2>1, <2>2
<1>7. CASE /\ trail' = [trail EXCEPT ![s] = j.target] /\ mishaps' = mishaps /\ k.kind = "none" /\ k.at = "read"
           /\ held' = IF j.kind = "pause" THEN held \cup {j.list[i] : i \in 1 .. j.n} ELSE held
  <2>1. JobHolds(c, k, Policy(c)!Surface(k), tier', trail', held', mishaps' = 0)
    BY <1>6, <1>7, FreeHolds
  <2>2. ASSUME NEW f \in held' PROVE f \in Faces /\ tier'[f] = "paused"
    <3>1. CASE f \in held
      BY <1>2, <1>3, <3>1
    <3>2. CASE f \notin held
      <4>1. PICK i \in 1 .. j.n : j.kind = "pause" /\ f = j.list[i]
        BY <1>7, <2>2, <3>2
      <4>2. j.n \in 1 .. 2 /\ j.list \in Lists /\ j.target = "paused"
        BY <1>2, <4>1 DEF JobSet, JobFine
      <4>3. f \in Faces
        <5>1. PICK m : m = Len(j.list)
          OBVIOUS
        <5>2. j.n <= m /\ \A n \in 1 .. m : j.list[n] \in Faces
          BY <1>2, <4>2, <5>1, ListsAre DEF JobFine
        <5>3. m \in 1 .. 2
          BY <4>2, <5>1, ListsAre
        <5> QED BY <4>1, <4>2, <5>2, <5>3
      <4>4. CASE i = j.n
        BY <1>1, <1>2, <1>4, <4>1, <4>2, <4>3, <4>4 DEF Policy!Surface
      <4>5. CASE i # j.n
        <5>1. i \in 1 .. 2 /\ i < j.n
          BY <4>2, <4>5
        <5> QED BY <1>2, <1>3, <4>1, <4>3, <5>1 DEF JobHolds
      <4> QED BY <4>4, <4>5
    <3> QED BY <3>1, <3>2
  <2> QED BY <1>1, <1>2, <1>3, <1>6, <1>7, <2>1, <2>2, OneKeeps
<1>8. CASE /\ trail' = [trail EXCEPT ![s] = j.target] /\ mishaps' = mishaps /\ held' = held
           /\ j.kind = "pause" /\ k.kind = "pause" /\ k.at = "read" /\ k.list = j.list /\ k.n = j.n + 1
  <2>1. j.n \in 1 .. 2 /\ j.target = "paused"
    BY <1>2, <1>8 DEF JobSet, JobFine
  <2>2. ASSUME NEW i \in 1 .. 2, i < k.n PROVE tier'[k.list[i]] = "paused"
    <3>1. CASE i = j.n
      BY <1>1, <1>2, <1>4, <1>8, <2>1, <3>1 DEF Policy!Surface
    <3>2. CASE i # j.n
      <4>1. i < j.n
        BY <1>8, <2>1, <2>2, <3>2
      <4> QED BY <1>2, <1>3, <1>8, <4>1 DEF JobHolds
    <3> QED BY <3>1, <3>2
  <2>3. JobHolds(c, k, Policy(c)!Surface(k), tier', trail', held', mishaps' = 0)
    BY <1>6, <1>8, <2>2 DEF JobHolds
  <2> QED BY <1>1, <1>2, <1>3, <1>6, <1>8, <2>3, OneKeeps
<1> QED BY <1>1, <1>5, <1>7, <1>8 DEF AuditDoes

LEMMA OneStutters ==
  ASSUME NEW c, OneInv(c), UNCHANGED <<job, tier, trail, held, mishaps>>, PolicyTyped(c)'
  PROVE  OneInv(c)'
BY DEF OneInv, Policy!Workers, Policy!Surface, JobHolds, Policy!Down, Policy!Rank

LEMMA OneSteps ==
  ASSUME NEW c, Policy(c)!PolicyAssumption, OneAtATime(c), OneInv(c), Policy(c)!Next
  PROVE  OneInv(c)'
<1>1. ~c.Engine /\ PolicyTyped(c)
  BY DEF OneAtATime, OneInv
<1>2. CASE LapseDoes(c)
  BY <1>2, OneStutters DEF LapseDoes
<1>3. CASE NothingDone
  <2>1. PolicyTyped(c)'
    BY <1>1, <1>3 DEF NothingDone, PolicyTyped, Policy!Workers
  <2> QED BY <1>3, <2>1, OneStutters DEF NothingDone
<1>4. CASE CrashDoes(c)
  <2>1. PICK w : w \in Policy(c)!Workers
    BY DEF Policy!PolicyAssumption, Policy!Workers
  <2>2. mishaps \in Nat /\ mishaps' = mishaps + 1
    BY <1>4 DEF OneInv, CrashDoes
  <2>3. mishaps' \in Nat /\ mishaps' # 0
    BY <2>2
  <2>4. job'[w].kind = "none" /\ job'[w].at = "read"
    BY <1>4, <2>1 DEF CrashDoes
  <2>5. JobHolds(c, job'[w], Policy(c)!Surface(job'[w]), tier', trail', held', mishaps' = 0)
    BY <2>3, <2>4, FreeHolds
  <2> QED BY <1>4, <2>1, <2>3, <2>5, OneKeeps DEF CrashDoes, OneInv
<1>5. ASSUME NEW w \in Policy(c)!Workers, WorkerDoes(c, w) PROVE OneInv(c)'
  <2>1. CASE job[w].kind = "none" /\ Comes(c, w)
    BY <2>1, OneComes
  <2>2. CASE ReadDoes(c, w)
    BY <2>2, OneReads
  <2>3. CASE IssueDoes(c, w)
    <3>1. mishaps = 0 => \A f \in Faces : trail[f] = tier[f]
      BY <2>3 DEF OneInv, JobHolds, IssueDoes
    <3>2. JobHolds(c, job'[w], Policy(c)!Surface(job'[w]), tier', trail', held', mishaps' = 0)
      BY <2>3, <3>1, FreeHolds DEF IssueDoes
    <3> QED BY <2>3, <3>2, OneKeeps DEF IssueDoes, OneInv
  <2>4. CASE ConsumeDoes(c, w)
    BY <2>4, OneConsumes
  <2>5. CASE WriteDoes(c, w)
    BY <2>5, OneWrites
  <2>6. CASE AuditDoes(c, w)
    BY <2>6, OneAudits
  <2> QED BY <1>5, <2>1, <2>2, <2>3, <2>4, <2>5, <2>6 DEF WorkerDoes
<1> QED BY <1>1, <1>2, <1>3, <1>4, <1>5, PolicySides DEF OneAtATime

LEMMA OneHolds ==
  ASSUME NEW c, Policy(c)!PolicyAssumption, OneInv(c)
  PROVE  Policy(c)!PauseHolds /\ (mishaps = 0 => Policy(c)!AuditOrder)
<1>1. Policy(c)!PauseHolds
  BY DEF OneInv, Policy!PauseHolds
<1>2. ASSUME mishaps = 0, \A w \in Policy(c)!Workers : job[w].kind = "none" PROVE trail = tier
  <2>1. PICK w : w \in Policy(c)!Workers
    BY DEF Policy!PolicyAssumption, Policy!Workers
  <2>2. job[w].at # "audit"
    BY <1>2, <2>1 DEF OneInv, PolicyTyped, JobFine
  <2>3. \A f \in Faces : trail[f] = tier[f]
    BY <1>2, <2>1, <2>2 DEF OneInv, JobHolds
  <2> QED BY <2>3 DEF OneInv
<1> QED BY <1>1, <1>2 DEF Policy!AuditOrder

\* Only a write changes a tier, and it narrows unless a token was used.
LEMMA OneNarrows ==
  ASSUME NEW c, Policy(c)!PolicyAssumption, OneAtATime(c), OneInv(c), Policy(c)!Next
  PROVE  Policy(c)!Narrows
<1>1. ~c.Engine /\ PolicyTyped(c)
  BY DEF OneAtATime, OneInv
<1>2. CASE tier' = tier
  BY <1>2 DEF Policy!Narrows
<1>3. CASE \E w \in Policy(c)!Workers : WriteDoes(c, w)
  <2> SUFFICES ASSUME NEW f \in Faces, tier'[f] # tier[f], tier'[f] # "paused", tokens' = tokens
               PROVE  IF tier[f] = "paused" THEN tier'[f] = "advisory" ELSE Policy(c)!Rank[tier'[f]] < Policy(c)!Rank[tier[f]]
    BY FacesAre DEF Policy!Narrows
  <2>1. PICK w \in Policy(c)!Workers : WriteDoes(c, w)
    BY <1>3
  <2>2. PICK j, s : j = job[w] /\ s = Policy(c)!Surface(job[w])
    OBVIOUS
  <2>3. /\ tier' = [tier EXCEPT ![s] = j.target] /\ j.at = "write" /\ JobFine(j, DOMAIN tokens) /\ Marked(j.token, DOMAIN tokens)
        /\ j.kind \in {"request", "commit", "pause", "resume"} /\ s \in Faces
    BY <2>1, <2>2 DEF WriteDoes
  <2>4. JobHolds(c, j, s, tier, trail, held, mishaps = 0) /\ tier \in [Faces -> TierSet]
    BY <2>2 DEF OneInv
  <2>5. f = s /\ tier'[s] = j.target
    BY <2>3, <2>4
  <2>6. j.kind # "pause"
    BY <2>3, <2>5 DEF JobFine
  <2>7. j.kind # "commit"
    <3> SUFFICES ASSUME j.kind = "commit" PROVE FALSE
      OBVIOUS
    <3>1. PICK i \in DOMAIN tokens : i = j.token
      BY <2>3 DEF JobFine
    <3>2. tokens[i].writes = tokens[i].writes + 1
      BY <2>3, <3>1 DEF Marked
    <3>3. tokens[i].writes \in Nat
      <4>1. tokens[i] \in TokenSet
        BY <1>1 DEF PolicyTyped
      <4> QED BY <4>1 DEF TokenSet
    <3> QED BY <3>2, <3>3
  <2>8. CASE j.kind = "request"
    BY <2>3, <2>4, <2>5, <2>8 DEF JobHolds, Policy!Down
  <2>9. CASE j.kind = "resume"
    BY <2>3, <2>4, <2>5, <2>9 DEF JobHolds, JobFine
  <2> QED BY <2>3, <2>6, <2>7, <2>8, <2>9
<1>4. tier' = tier \/ \E w \in Policy(c)!Workers : WriteDoes(c, w)
  BY <1>1, PolicySides DEF WorkerDoes, Comes, ReadDoes, IssueDoes, ConsumeDoes, AuditDoes, StillThere, LapseDoes, CrashDoes, NothingDone
<1> QED BY <1>2, <1>3, <1>4

TiersInv == /\ part = "policy" => OneInv(PolicyOf)
            /\ part = "taps" => TapInv(TapsPolicy)

LEMMA TapsAreSafe == Policy(TapsPolicy)!PolicyAssumption /\ ~TapsPolicy.Engine
BY DEF TapsPolicy, FaultyPolicy, Policy!PolicyAssumption

\* Where a user's requests are handled one at a time, a pause that was answered
\* holds until a resume, nothing unconfirmed widens a tier, and while no step
\* has failed the audit trail ends with the tier; with two at a time a token
\* still changes a tier once at most.
THEOREM TierAsAskedAlways ==
  ASSUME OneAtATime(PolicyOf)
  PROVE  Services => TierAsAsked
<1>0. Policy(PolicyOf)!PolicyAssumption
  BY ConstantsAssumption DEF ConstantsAssumption
<1>1. ServicesInit => TiersInv
  <2> SUFFICES ASSUME ServicesInit PROVE TiersInv
    OBVIOUS
  <2>1. ASSUME part = "policy" PROVE OneInv(PolicyOf)
    <3>1. Policy(PolicyOf)!Init
      BY <2>1 DEF ServicesInit
    <3>2. /\ PolicyTyped(PolicyOf) /\ held = {} /\ mishaps = 0 /\ trail = tier /\ tier \in [Faces -> TierSet]
          /\ \A w \in Policy(PolicyOf)!Workers : job[w].kind = "none" /\ job[w].at = "read"
      BY <3>1, PolicyStarts
    <3>3. \A w \in Policy(PolicyOf)!Workers :
            JobHolds(PolicyOf, job[w], Policy(PolicyOf)!Surface(job[w]), tier, trail, held, mishaps = 0)
      BY <3>2, FreeHolds
    <3> QED BY <3>2, <3>3 DEF OneInv
  <2>2. ASSUME part = "taps" PROVE TapInv(TapsPolicy)
    <3>1. Policy(TapsPolicy)!Init
      BY <2>2 DEF ServicesInit
    <3>2. PolicyTyped(TapsPolicy) /\ tokens = <<>> /\ \A w \in Policy(TapsPolicy)!Workers : job[w].kind = "none"
      BY <3>1, PolicyStarts
    <3> QED BY <3>2 DEF TapInv, Spending
  <2> QED BY <2>1, <2>2 DEF TiersInv
<1>2. TiersInv /\ [ServicesNext]_servicesVars => TiersInv' /\ [part = "policy" => Policy(PolicyOf)!Narrows]_policyVars
  <2> SUFFICES ASSUME TiersInv, [ServicesNext]_servicesVars
               PROVE  TiersInv' /\ (part = "policy" => UNCHANGED policyVars \/ Policy(PolicyOf)!Narrows)
    OBVIOUS
  <2>1. part' = part
    BY DEF ServicesNext, Follows, servicesVars
  <2>2. ASSUME part = "policy" PROVE OneInv(PolicyOf)' /\ (UNCHANGED policyVars \/ Policy(PolicyOf)!Narrows)
    <3>1. UNCHANGED <<policyVars, mishaps>> \/ Policy(PolicyOf)!Next
      BY <2>2 DEF ServicesNext, Follows, Rest, servicesVars
    <3>2. OneInv(PolicyOf)
      BY <2>2 DEF TiersInv
    <3>3. CASE UNCHANGED <<policyVars, mishaps>>
      <4>1. UNCHANGED <<job, tier, trail, held, mishaps, tokens>>
        BY <3>3 DEF policyVars
      <4>2. PolicyTyped(PolicyOf)'
        BY <3>2, <4>1 DEF OneInv, PolicyTyped, Policy!Workers
      <4> QED BY <3>2, <3>3, <4>1, <4>2, OneStutters
    <3> QED BY <1>0, <3>1, <3>2, <3>3, OneSteps, OneNarrows
  <2>3. ASSUME part = "taps" PROVE TapInv(TapsPolicy)'
    <3>1. UNCHANGED <<policyVars, mishaps>> \/ Policy(TapsPolicy)!Next
      BY <2>3 DEF ServicesNext, Follows, Rest, servicesVars
    <3>2. TapInv(TapsPolicy)
      BY <2>3 DEF TiersInv
    <3>3. CASE UNCHANGED <<policyVars, mishaps>>
      BY <3>2, <3>3 DEF TapInv, PolicyTyped, Spending, Policy!Workers, policyVars
    <3> QED BY <3>1, <3>2, <3>3, TapsAreSafe, TapSteps
  <2> QED BY <2>1, <2>2, <2>3 DEF TiersInv
<1>3. TiersInv => /\ part = "policy" => Policy(PolicyOf)!PauseHolds /\ (mishaps = 0 => Policy(PolicyOf)!AuditOrder)
                  /\ part = "taps" => Policy(TapsPolicy)!OneTapOneChange
  BY <1>0, OneHolds DEF TiersInv, TapInv, Policy!OneTapOneChange
<1> QED BY <1>1, <1>2, <1>3, PTL DEF Services, TierAsAsked

-----------------------------------------------------------------------------
(* The agent's purchases *)

Proposals == AgentOf.Buys
NoProposal == AgentOf.NoBuy
RunPlaces == {"sending", "ok", "failed", "commit", "recorded", "rejected"}

\* A run of the runner; one that commits spends the token of a proposal.
BuyRun ==
  {r \in [visit : Nat, at : RunPlaces, spends : Proposals \cup {NoProposal}] :
     r.at = "commit" => r.spends \in Proposals}

BuysTyped ==
  /\ queue \in Seq(Proposals) /\ dialogue \in Proposals \cup {NoProposal}
  /\ here \in BOOLEAN /\ visit \in Nat
  /\ runs \in [Proposals -> Seq(BuyRun)]

AnswersTyped ==
  /\ row \in [Proposals -> {"none", "pending", "confirmed", "denied", "expired"}]
  /\ token \in [Proposals -> {"none", "live", "used"}]
  /\ purchased \in [Proposals -> Nat]

\* The runs of one proposal are of different mountings of the page, and one of
\* the page that is open holds its lock.
OneEach(s) == \A i, j \in DOMAIN s : s[i].visit = s[j].visit => i = j
Lock ==
  \A b \in AgentOf.Linked :
    /\ OneEach(runs[b])
    /\ \A i \in DOMAIN runs[b] :
         runs[b][i].visit <= visit /\ (here /\ runs[b][i].visit = visit => b \in firing)

\* Who runs or has bought was asked for; a confirmation on its way to the page
\* is in the row; no row is older than its token.
WasWanted ==
  \A b \in Proposals : runs[b] # <<>> \/ purchased[b] > 0 => b \in asked \/ row[b] = "confirmed"
Heard == \A b \in AgentOf.Linked : <<"confirm", b>> \in events => row[b] = "confirmed"
Unproposed == \A b \in Proposals : token[b] = "none" => row[b] = "none"

Spent ==
  /\ \A r \in receipts : r[1] \in Proposals /\ token[r[1]] = "used"
  /\ Agent!TokenSpentOnce

\* The inductive invariant of the purchases.
AgentInv == BuysTyped /\ AnswersTyped /\ Lock /\ WasWanted /\ Heard /\ Unproposed /\ Spent

\* What a step may do to the runs and the purchases: a run starts only for a
\* proposal that is asked for, and only a run buys.
Asking ==
  /\ asked \subseteq asked'
  /\ \A b \in Proposals :
       /\ runs'[b] # <<>> => runs[b] # <<>> \/ b \in asked' \/ row[b] = "confirmed"
       /\ purchased'[b] > 0 => purchased[b] > 0 \/ runs[b] # <<>>

LEMMA LinkedAreBuys == AgentOf.Linked \subseteq Proposals
BY ConstantsAssumption DEF Agent!BuysAssumption, Proposals

\* A sequence without its entry at i.
LEMMA Removed ==
  ASSUME NEW S, NEW s \in Seq(S), NEW i \in DOMAIN s
  PROVE  /\ Agent!RemoveAt(s, i) \in Seq(S)
         /\ \A j \in DOMAIN Agent!RemoveAt(s, i) :
              Agent!RemoveAt(s, i)[j] = IF j < i THEN s[j] ELSE s[j + 1]
         /\ DOMAIN Agent!RemoveAt(s, i) = 1 .. Len(s) - 1
<1> DEFINE left == SubSeq(s, 1, i - 1)
           right == SubSeq(s, i + 1, Len(s))
<1>1. Len(s) \in Nat /\ i \in 1 .. Len(s) /\ \A k \in 1 .. Len(s) : s[k] \in S
  BY LenProperties, ElementOfSeq
<1>2. left \in Seq(S) /\ Len(left) = i - 1 /\ \A k \in 1 .. i - 1 : left[k] = s[k]
  <2>1. /\ left \in Seq(S) /\ Len(left) = IF 1 <= i - 1 THEN i - 1 - 1 + 1 ELSE 0
        /\ \A k \in 1 .. i - 1 - 1 + 1 : left[k] = s[1 + k - 1]
    <3>1. 1 \in Int /\ i - 1 \in Int /\ \A k \in 1 .. i - 1 : s[k] \in S
      BY <1>1
    <3> QED BY <3>1, SubSeqProperties
  <2> QED BY <1>1, <2>1
<1>3. right \in Seq(S) /\ Len(right) = Len(s) - i /\ \A k \in 1 .. Len(s) - i : right[k] = s[i + k]
  <2>1. /\ right \in Seq(S) /\ Len(right) = IF i + 1 <= Len(s) THEN Len(s) - (i + 1) + 1 ELSE 0
        /\ \A k \in 1 .. Len(s) - (i + 1) + 1 : right[k] = s[i + 1 + k - 1]
    <3>1. i + 1 \in Int /\ Len(s) \in Int /\ \A k \in i + 1 .. Len(s) : s[k] \in S
      BY <1>1
    <3> QED BY <3>1, SubSeqProperties
  <2> QED BY <1>1, <2>1
<1> HIDE DEF left, right
<1>4. /\ left \o right \in Seq(S) /\ Len(left \o right) = Len(left) + Len(right)
      /\ \A j \in 1 .. Len(left) + Len(right) :
           (left \o right)[j] = IF j <= Len(left) THEN left[j] ELSE right[j - Len(left)]
  BY <1>2, <1>3, ConcatProperties
<1>5. DOMAIN (left \o right) = 1 .. Len(s) - 1
  BY <1>1, <1>2, <1>3, <1>4, LenProperties
<1>6. ASSUME NEW j \in 1 .. Len(s) - 1 PROVE (left \o right)[j] = IF j < i THEN s[j] ELSE s[j + 1]
  <2>1. CASE j < i
    BY <1>1, <1>2, <1>3, <1>4, <2>1
  <2>2. CASE ~(j < i)
    <3>1. j - (i - 1) \in 1 .. Len(s) - i /\ i + (j - (i - 1)) = j + 1
      BY <1>1, <2>2
    <3>2. right[j - (i - 1)] = s[j + 1]
      BY <1>3, <3>1
    <3>3. j \in 1 .. Len(left) + Len(right) /\ ~(j <= Len(left)) /\ Len(left) = i - 1
      BY <1>1, <1>2, <1>3, <2>2
    <3>4. (left \o right)[j] = right[j - (i - 1)]
      BY <1>4, <3>3
    <3> QED BY <2>2, <3>2, <3>4
  <2> QED BY <2>1, <2>2
<1>7. Agent!RemoveAt(s, i) = left \o right
  BY DEF Agent!RemoveAt, left, right
<1> QED BY <1>4, <1>5, <1>6, <1>7

LEMMA Fewer ==
  ASSUME NEW S, NEW s \in Seq(S), NEW i \in DOMAIN s
  PROVE  /\ \A j \in DOMAIN Agent!RemoveAt(s, i) :
              \E k \in DOMAIN s \ {i} : Agent!RemoveAt(s, i)[j] = s[k]
         /\ OneEach(s) => OneEach(Agent!RemoveAt(s, i))
<1> DEFINE u == Agent!RemoveAt(s, i)
           from(j) == IF j < i THEN j ELSE j + 1
<1>1. Len(s) \in Nat /\ DOMAIN s = 1 .. Len(s)
  BY LenProperties
<1>2. ASSUME NEW j \in DOMAIN u PROVE from(j) \in DOMAIN s \ {i} /\ u[j] = s[from(j)] /\ j \in 1 .. Len(s) - 1
  <2>1. j \in 1 .. Len(s) - 1 /\ u[j] = IF j < i THEN s[j] ELSE s[j + 1]
    BY Removed
  <2> QED BY <1>1, <2>1
<1> HIDE DEF u
<1>3. ASSUME NEW j \in DOMAIN u, NEW k \in DOMAIN u, from(j) = from(k) PROVE j = k
  <2>1. j \in 1 .. Len(s) - 1 /\ k \in 1 .. Len(s) - 1
    BY <1>2
  <2> QED BY <1>1, <1>3, <2>1
<1>4. ASSUME OneEach(s) PROVE OneEach(u)
  <2>1. ASSUME NEW j \in DOMAIN u, NEW k \in DOMAIN u, u[j].visit = u[k].visit PROVE j = k
    <3>1. s[from(j)].visit = s[from(k)].visit /\ from(j) \in DOMAIN s /\ from(k) \in DOMAIN s
      BY <1>2, <2>1
    <3>2. from(j) = from(k)
      BY <1>4, <3>1 DEF OneEach
    <3> QED BY <1>3, <3>2
  <2> QED BY <2>1 DEF OneEach
<1> QED BY <1>2, <1>4 DEF u

LEMMA NewRunIs ==
  ASSUME BuysTyped
  PROVE  Agent!NewRun \in BuyRun /\ Agent!NewRun.visit = visit
BY DEF Agent!NewRun, BuyRun, RunPlaces, BuysTyped, NoProposal

\* A run more, at the end.
LEMMA Started ==
  ASSUME NEW s \in Seq(BuyRun), NEW r \in BuyRun
  PROVE  /\ Append(s, r) \in Seq(BuyRun)
         /\ \A i \in DOMAIN Append(s, r) :
              (i \in DOMAIN s /\ Append(s, r)[i] = s[i]) \/ (i = Len(s) + 1 /\ Append(s, r)[i] = r)
         /\ OneEach(s) /\ (\A i \in DOMAIN s : s[i].visit # r.visit) => OneEach(Append(s, r))
<1>1. /\ Append(s, r) \in Seq(BuyRun) /\ Len(Append(s, r)) = Len(s) + 1 /\ Append(s, r)[Len(s) + 1] = r
      /\ \A i \in 1 .. Len(s) : Append(s, r)[i] = s[i]
  BY AppendProperties
<1>2. Len(s) \in Nat /\ DOMAIN s = 1 .. Len(s) /\ DOMAIN Append(s, r) = 1 .. Len(s) + 1
  BY <1>1, LenProperties
<1> DEFINE u == Append(s, r)
<1> HIDE DEF u
<1>3. ASSUME NEW i \in DOMAIN u
      PROVE  (i \in DOMAIN s /\ u[i] = s[i]) \/ (i = Len(s) + 1 /\ u[i] = r)
  <2>1. i \in 1 .. Len(s) + 1
    BY <1>2 DEF u
  <2>2. CASE i = Len(s) + 1
    BY <1>1, <2>2 DEF u
  <2>3. CASE i # Len(s) + 1
    <3>1. i \in 1 .. Len(s)
      BY <1>2, <2>1, <2>3
    <3> QED BY <1>1, <1>2, <3>1 DEF u
  <2> QED BY <2>2, <2>3
<1>4. ASSUME OneEach(s), \A i \in DOMAIN s : s[i].visit # r.visit PROVE OneEach(u)
  BY <1>3, <1>4 DEF OneEach
<1> QED BY <1>1, <1>3, <1>4 DEF u

\* What every handler of the page ends with.
LEMMA ShowFacts ==
  ASSUME BuysTyped, NEW q \in Seq(Proposals), NEW b \in Proposals \cup {NoProposal}, NEW status,
         NEW rs \in [Proposals -> Seq(BuyRun)], Agent!Show(q, b, status, rs)
  PROVE  /\ queue' \in Seq(Proposals) /\ dialogue' \in Proposals \cup {NoProposal}
         /\ runs' \in [Proposals -> Seq(BuyRun)] /\ asked \subseteq asked'
         /\ \A x \in Proposals : runs'[x] = rs[x] \/ (x \notin AgentOf.Linked /\ x \in asked')
<1> DEFINE mounts == here /\ b = NoProposal /\ q # <<>> /\ Len(q) # Len(queue)
           now == IF mounts THEN q[1] ELSE b
           fires == mounts /\ Agent!AutoConfirmed(now) /\ tokenAge[now] = 0
<1>1. /\ queue' = q /\ dialogue' = now
      /\ runs' = IF fires THEN [rs EXCEPT ![now] = Append(rs[now], Agent!NewRun)] ELSE rs
      /\ asked' = IF fires THEN asked \cup {now} ELSE asked
  BY DEF Agent!Show, NoProposal
<1>2. mounts => q[1] \in Proposals
  BY EmptySeq, ElementOfSeq
<1>3. fires => now \in Proposals /\ now \notin AgentOf.Linked
  BY <1>2 DEF Agent!AutoConfirmed
<1>4. now \in Proposals \cup {NoProposal}
  BY <1>2
<1> HIDE DEF mounts, now, fires
<1>5. CASE fires
  <2>1. Append(rs[now], Agent!NewRun) \in Seq(BuyRun)
    BY <1>3, <1>5, NewRunIs, Started
  <2> QED BY <1>1, <1>3, <1>4, <1>5, <2>1
<1>6. CASE ~fires
  BY <1>1, <1>4, <1>6
<1> QED BY <1>5, <1>6

\* The queue without a proposal.
LEMMA WithoutIs ==
  ASSUME queue \in Seq(Proposals), NEW b PROVE Agent!Without(b) \in Seq(Proposals)
<1>1. CASE \E i \in DOMAIN queue : queue[i] = b
  <2> DEFINE i == CHOOSE i \in DOMAIN queue : queue[i] = b
  <2>1. i \in DOMAIN queue
    BY <1>1
  <2>2. Agent!Without(b) = Agent!RemoveAt(queue, i)
    BY <1>1 DEF Agent!Without
  <2> HIDE DEF i
  <2> QED BY <2>1, <2>2, Removed
<1>2. CASE ~ \E i \in DOMAIN queue : queue[i] = b
  BY <1>2 DEF Agent!Without
<1> QED BY <1>1, <1>2

\* The dialogue's proposal is dropped.
LEMMA CloseFacts ==
  ASSUME BuysTyped, Agent!Show(Agent!Without(dialogue), NoProposal, modal, runs)
  PROVE  /\ queue' \in Seq(Proposals) /\ dialogue' \in Proposals \cup {NoProposal}
         /\ runs' \in [Proposals -> Seq(BuyRun)] /\ asked \subseteq asked'
         /\ \A x \in Proposals : runs'[x] = runs[x] \/ (x \notin AgentOf.Linked /\ x \in asked')
<1>1. Agent!Without(dialogue) \in Seq(Proposals) /\ runs \in [Proposals -> Seq(BuyRun)]
  BY WithoutIs DEF BuysTyped
<1> QED BY <1>1, ShowFacts

\* The lock when no run of a linked proposal starts or ends.
LEMMA LockStays ==
  ASSUME Lock, \A b \in AgentOf.Linked : runs'[b] = runs[b],
         visit' = visit /\ (here' => here /\ firing \subseteq firing')
  PROVE  Lock'
BY DEF Lock, OneEach

\* The button, and a confirmation from Telegram.
LEMMA BeginKeeps ==
  ASSUME BuysTyped, Lock, here, NEW b \in Proposals, Agent!Begin(b), visit' = visit, here' = here,
         queue' = queue, dialogue' = dialogue
  PROVE  /\ BuysTyped' /\ Lock'
         /\ \A x \in Proposals : x # b => runs'[x] = runs[x]
<1>1. CASE b \in firing
  <2>1. runs' = runs /\ firing \subseteq firing'
    BY <1>1 DEF Agent!Begin
  <2> QED BY <2>1, LockStays, LinkedAreBuys DEF BuysTyped
<1>2. CASE b \notin firing
  <2> DEFINE r == Agent!NewRun
  <2>1. runs' = [runs EXCEPT ![b] = Append(runs[b], r)] /\ firing' = firing \cup ({b} \cap AgentOf.Linked)
    BY <1>2 DEF Agent!Begin
  <2>2. r \in BuyRun /\ r.visit = visit
    BY NewRunIs
  <2> HIDE DEF r
  <2>3. runs[b] \in Seq(BuyRun) /\ runs \in [Proposals -> Seq(BuyRun)]
    BY DEF BuysTyped
  <2> DEFINE u == Append(runs[b], r)
  <2>4. /\ u \in Seq(BuyRun)
        /\ \A i \in DOMAIN u :
             (i \in DOMAIN runs[b] /\ u[i] = runs[b][i]) \/ (i = Len(runs[b]) + 1 /\ u[i] = r)
        /\ OneEach(runs[b]) /\ (\A i \in DOMAIN runs[b] : runs[b][i].visit # r.visit) => OneEach(u)
    BY <2>2, <2>3, Started
  <2> HIDE DEF u
  <2>5. /\ runs' \in [Proposals -> Seq(BuyRun)] /\ runs'[b] = u
        /\ \A x \in Proposals : x # b => runs'[x] = runs[x]
    BY <2>1, <2>3, <2>4 DEF u
  <2>6. BuysTyped'
    BY <2>5 DEF BuysTyped
  <2>7. visit \in Nat
    BY DEF BuysTyped
  <2>8. ASSUME NEW x \in AgentOf.Linked
        PROVE  /\ OneEach(runs'[x])
               /\ \A i \in DOMAIN runs'[x] :
                    runs'[x][i].visit <= visit' /\ (here' /\ runs'[x][i].visit = visit' => x \in firing')
    <3>1. CASE x # b
      BY <2>1, <2>5, <2>8, <3>1, LinkedAreBuys DEF Lock
    <3>2. CASE x = b
      <4>1. \A i \in DOMAIN runs[b] : runs[b][i].visit <= visit /\ runs[b][i].visit # visit
        BY <1>2, <2>8, <3>2 DEF Lock
      <4>2. OneEach(u)
        BY <2>2, <2>4, <2>8, <3>2, <4>1 DEF Lock
      <4>3. ASSUME NEW i \in DOMAIN u PROVE u[i].visit <= visit
        BY <2>2, <2>4, <2>7, <4>1
      <4>4. b \in firing'
        BY <2>1, <2>8, <3>2
      <4> QED BY <2>5, <3>2, <4>2, <4>3, <4>4
    <3> QED BY <3>1, <3>2
  <2>9. Lock'
    BY <2>8 DEF Lock
  <2> QED BY <2>5, <2>6, <2>9
<1> QED BY <1>1, <1>2

LEMMA PressKeeps ==
  ASSUME AgentInv, Agent!Press PROVE BuysTyped' /\ Lock' /\ Asking
<1>1. /\ dialogue \in Proposals /\ here /\ UNCHANGED <<queue, dialogue, here, visit, purchased>>
      /\ BuysTyped /\ Lock
  BY DEF Agent!Press, AgentInv, BuysTyped, NoProposal, Agent!chainVars
<1>2. Agent!Begin(dialogue) /\ asked' = asked \cup {dialogue}
  BY DEF Agent!Press
<1>3. BuysTyped' /\ Lock' /\ \A x \in Proposals : x # dialogue => runs'[x] = runs[x]
  BY <1>1, <1>2, BeginKeeps
<1> QED BY <1>1, <1>2, <1>3 DEF Asking

LEMMA DeliverKeeps ==
  ASSUME AgentInv, NEW kind \in AgentOf.Answers, NEW b \in AgentOf.Linked, Agent!Deliver(kind, b)
  PROVE  BuysTyped' /\ Lock' /\ Asking
<1>1. here /\ UNCHANGED <<here, visit, purchased>> /\ <<kind, b>> \in events /\ BuysTyped /\ Lock
  BY DEF Agent!Deliver, AgentInv, Agent!chainVars
<1>2. CASE UNCHANGED <<queue, dialogue, modal, fallback, firing, runs, asked>>
  BY <1>1, <1>2, LockStays DEF BuysTyped, Asking
<1>3. CASE /\ dialogue = b /\ kind = "confirm" /\ Agent!Begin(dialogue)
           /\ UNCHANGED <<queue, dialogue, fallback, asked>>
  <2>1. b \in Proposals /\ row[b] = "confirmed"
    BY <1>1, <1>3, LinkedAreBuys DEF AgentInv, Heard
  <2>2. BuysTyped' /\ Lock' /\ \A x \in Proposals : x # b => runs'[x] = runs[x]
    BY <1>1, <1>3, <2>1, BeginKeeps
  <2> QED BY <1>1, <1>3, <2>1, <2>2 DEF Asking
<1>4. CASE Agent!Show(Agent!Without(dialogue), NoProposal, modal, runs) /\ UNCHANGED firing
  <2>1. BuysTyped /\ Agent!Show(Agent!Without(dialogue), NoProposal, modal, runs)
    BY <1>1, <1>4
  <2>2. /\ queue' \in Seq(Proposals) /\ dialogue' \in Proposals \cup {NoProposal}
        /\ runs' \in [Proposals -> Seq(BuyRun)] /\ asked \subseteq asked'
        /\ \A x \in Proposals : runs'[x] = runs[x] \/ (x \notin AgentOf.Linked /\ x \in asked')
    BY <2>1, CloseFacts
  <2>3. Lock'
    BY <1>1, <1>4, <2>2, LockStays, LinkedAreBuys
  <2>4. BuysTyped' /\ Asking
    BY <1>1, <2>2 DEF BuysTyped, Asking
  <2> QED BY <2>3, <2>4
<1> QED BY <1>2, <1>3, <1>4 DEF Agent!Deliver, Agent!Heeded, NoProposal

LEMMA ProposeKeeps ==
  ASSUME AgentInv, NEW b \in Proposals, Agent!Propose(b) PROVE BuysTyped' /\ Lock' /\ Asking
<1>1. /\ Agent!Show(Append(queue, b), dialogue, modal, runs) /\ UNCHANGED <<here, visit, firing, purchased>>
      /\ BuysTyped /\ Lock
  BY DEF Agent!Propose, AgentInv, Agent!Queued
<1>2. Append(queue, b) \in Seq(Proposals) /\ runs \in [Proposals -> Seq(BuyRun)]
      /\ dialogue \in Proposals \cup {NoProposal}
  BY <1>1, AppendProperties DEF BuysTyped
<1>3. /\ queue' \in Seq(Proposals) /\ dialogue' \in Proposals \cup {NoProposal}
      /\ runs' \in [Proposals -> Seq(BuyRun)] /\ asked \subseteq asked'
      /\ \A x \in Proposals : runs'[x] = runs[x] \/ (x \notin AgentOf.Linked /\ x \in asked')
  BY <1>1, <1>2, ShowFacts
<1> QED BY <1>1, <1>3, LockStays, LinkedAreBuys DEF BuysTyped, Asking

LEMMA CancelKeeps ==
  ASSUME AgentInv, Agent!Cancel PROVE BuysTyped' /\ Lock' /\ Asking
<1>1. /\ Agent!Show(Agent!Without(dialogue), NoProposal, modal, runs)
      /\ UNCHANGED <<here, visit, firing, purchased>> /\ BuysTyped /\ Lock
  BY DEF Agent!Cancel, AgentInv, Agent!chainVars, NoProposal
<1>3. /\ queue' \in Seq(Proposals) /\ dialogue' \in Proposals \cup {NoProposal}
      /\ runs' \in [Proposals -> Seq(BuyRun)] /\ asked \subseteq asked'
      /\ \A x \in Proposals : runs'[x] = runs[x] \/ (x \notin AgentOf.Linked /\ x \in asked')
  BY <1>1, CloseFacts
<1> QED BY <1>1, <1>3, LockStays, LinkedAreBuys DEF BuysTyped, Asking

LEMMA ReturnKeeps ==
  ASSUME AgentInv, Agent!Return PROVE BuysTyped' /\ Lock' /\ Asking
<1>1. /\ ~here /\ here' = TRUE /\ visit' = visit + 1 /\ visit \in Nat
      /\ UNCHANGED <<queue, dialogue, runs, asked, purchased>> /\ BuysTyped /\ Lock
  BY DEF Agent!Return, AgentInv, BuysTyped, Agent!chainVars
<1>2. ASSUME NEW x \in AgentOf.Linked, NEW i \in DOMAIN runs[x]
      PROVE  runs[x][i].visit <= visit' /\ runs[x][i].visit # visit'
  <2>1. runs[x][i].visit <= visit /\ runs[x][i].visit \in Nat
    <3>1. runs[x][i] \in BuyRun
      BY <1>1, LinkedAreBuys DEF BuysTyped
    <3> QED BY <1>1, <3>1 DEF Lock, BuyRun
  <2> QED BY <1>1, <2>1
<1>3. Lock'
  BY <1>1, <1>2 DEF Lock, OneEach
<1> QED BY <1>1, <1>3 DEF BuysTyped, Asking

\* Steps of the page, of the bot, and of time that leave the runs alone.
LEMMA RestingKeeps ==
  ASSUME AgentInv, UNCHANGED <<queue, runs, asked, visit, purchased>>,
         \/ UNCHANGED <<dialogue, here, firing>>
         \/ Agent!Leave
  PROVE  BuysTyped' /\ Lock' /\ Asking
<1>1. BuysTyped'
  BY DEF AgentInv, BuysTyped, Agent!Leave, NoProposal
<1>2. Lock'
  BY LockStays DEF AgentInv, Agent!Leave
<1> QED BY <1>1, <1>2 DEF Asking

\* A run goes on.
LEMMA UpdateKeeps ==
  ASSUME BuysTyped, Lock, NEW b \in Proposals, NEW i \in DOMAIN runs[b], NEW r \in BuyRun,
         r.visit = runs[b][i].visit, runs' = [runs EXCEPT ![b] = [runs[b] EXCEPT ![i] = r]],
         UNCHANGED <<queue, dialogue, here, visit, firing>>
  PROVE  /\ BuysTyped' /\ Lock'
         /\ \A x \in Proposals : runs'[x] # <<>> => runs[x] # <<>>
<1> DEFINE u == [runs[b] EXCEPT ![i] = r]
<1>1. runs \in [Proposals -> Seq(BuyRun)] /\ runs[b] \in Seq(BuyRun) /\ i \in 1 .. Len(runs[b])
  BY LenProperties DEF BuysTyped
<1>2. /\ u \in Seq(BuyRun) /\ Len(u) = Len(runs[b])
      /\ \A j \in 1 .. Len(runs[b]) : u[j] = IF j = i THEN r ELSE runs[b][j]
  BY <1>1, ExceptSeq
<1>3. DOMAIN u = DOMAIN runs[b]
  OBVIOUS
<1>4. \A j \in DOMAIN u : j \in DOMAIN runs[b] /\ u[j].visit = runs[b][j].visit
  OBVIOUS
<1> HIDE DEF u
<1>5. /\ runs' \in [Proposals -> Seq(BuyRun)] /\ runs'[b] = u
      /\ \A x \in Proposals : x # b => runs'[x] = runs[x]
  BY <1>1, <1>2 DEF u
<1>6. runs[b] # <<>>
  BY <1>1, EmptySeq
<1>7. BuysTyped'
  BY <1>5 DEF BuysTyped
<1>8. ASSUME NEW x \in AgentOf.Linked
      PROVE  /\ OneEach(runs'[x])
             /\ \A j \in DOMAIN runs'[x] :
                  runs'[x][j].visit <= visit' /\ (here' /\ runs'[x][j].visit = visit' => x \in firing')
  <2>1. CASE x = b
    <3>1. \A j \in DOMAIN u : u[j].visit <= visit /\ (here /\ u[j].visit = visit => x \in firing)
      BY <1>4, <1>8, <2>1 DEF Lock
    <3>2. OneEach(u)
      BY <1>4, <1>8, <2>1 DEF Lock, OneEach
    <3> QED BY <1>5, <2>1, <3>1, <3>2
  <2>2. CASE x # b
    BY <1>5, <1>8, <2>2, LinkedAreBuys DEF Lock
  <2> QED BY <2>1, <2>2
<1>9. Lock'
  BY <1>8 DEF Lock
<1> QED BY <1>5, <1>6, <1>7, <1>9

\* A run ends, and lets go of the lock of its mounting.
LEMMA GoneFacts ==
  ASSUME BuysTyped, Lock, NEW b \in Proposals, NEW i \in DOMAIN runs[b], NEW rs, rs = Agent!Gone(b, i),
         firing' = Agent!Released(b, i), here' = here, visit' = visit
  PROVE  /\ rs \in [Proposals -> Seq(BuyRun)]
         /\ \A x \in Proposals : rs[x] # <<>> => runs[x] # <<>>
         /\ (\A x \in AgentOf.Linked : runs'[x] = rs[x]) => Lock'
<1> DEFINE u == Agent!RemoveAt(runs[b], i)
<1>1. runs \in [Proposals -> Seq(BuyRun)] /\ runs[b] \in Seq(BuyRun) /\ i \in 1 .. Len(runs[b])
  BY LenProperties DEF BuysTyped
<1>2. /\ u \in Seq(BuyRun)
      /\ \A j \in DOMAIN u : \E k \in DOMAIN runs[b] \ {i} : u[j] = runs[b][k]
      /\ OneEach(runs[b]) => OneEach(u)
  BY <1>1, Removed, Fewer
<1>3. rs = [runs EXCEPT ![b] = u]
  BY DEF Agent!Gone
<1> HIDE DEF u
<1>4. /\ rs \in [Proposals -> Seq(BuyRun)] /\ rs[b] = u
      /\ \A x \in Proposals : x # b => rs[x] = runs[x]
  BY <1>1, <1>2, <1>3
<1>5. runs[b] # <<>>
  BY <1>1, EmptySeq
<1>6. firing' = IF runs[b][i].visit = visit THEN firing \ {b} ELSE firing
  BY DEF Agent!Released
<1>7. ASSUME NEW x \in AgentOf.Linked
      PROVE  /\ OneEach(rs[x])
             /\ \A j \in DOMAIN rs[x] :
                  rs[x][j].visit <= visit /\ (here /\ rs[x][j].visit = visit => x \in firing')
  <2>1. CASE x = b
    <3>1. OneEach(runs[b])
      BY <1>7, <2>1 DEF Lock
    <3>2. ASSUME NEW j \in DOMAIN u
          PROVE u[j].visit <= visit /\ (here /\ u[j].visit = visit => b \in firing')
      <4>1. PICK k \in DOMAIN runs[b] \ {i} : u[j] = runs[b][k]
        BY <1>2
      <4>2. runs[b][k].visit <= visit /\ (here /\ runs[b][k].visit = visit => b \in firing)
        BY <1>7, <2>1 DEF Lock
      <4>3. runs[b][k].visit # runs[b][i].visit
        BY <3>1 DEF OneEach
      <4> QED BY <1>6, <4>1, <4>2, <4>3
    <3> QED BY <1>2, <1>4, <2>1, <3>1, <3>2
  <2>2. CASE x # b
    <3>1. rs[x] = runs[x] /\ firing \ {b} \subseteq firing'
      BY <1>4, <1>6, <1>7, <2>2, LinkedAreBuys
    <3>2. /\ OneEach(runs[x])
          /\ \A j \in DOMAIN runs[x] :
               runs[x][j].visit <= visit /\ (here /\ runs[x][j].visit = visit => x \in firing)
      BY <1>7 DEF Lock
    <3> QED BY <2>2, <3>1, <3>2
  <2> QED BY <2>1, <2>2
<1>8. ASSUME \A x \in AgentOf.Linked : runs'[x] = rs[x] PROVE Lock'
  BY <1>7, <1>8 DEF Lock
<1> QED BY <1>4, <1>5, <1>8

\* The same when the page goes on to show something.
LEMMA GoneShown ==
  ASSUME AgentInv, NEW b \in Proposals, NEW i \in DOMAIN runs[b],
         NEW q \in Seq(Proposals), NEW d \in Proposals \cup {NoProposal}, NEW status,
         Agent!Show(q, d, status, Agent!Gone(b, i)),
         firing' = Agent!Released(b, i), UNCHANGED <<here, visit, purchased>>
  PROVE  BuysTyped' /\ Lock' /\ Asking
<1> DEFINE rs == Agent!Gone(b, i)
<1>0. BuysTyped /\ Lock
  BY DEF AgentInv
<1>1. /\ rs \in [Proposals -> Seq(BuyRun)]
      /\ \A x \in Proposals : rs[x] # <<>> => runs[x] # <<>>
      /\ (\A x \in AgentOf.Linked : runs'[x] = rs[x]) => Lock'
  BY <1>0, GoneFacts
<1>2. Agent!Show(q, d, status, rs)
  OBVIOUS
<1> HIDE DEF rs
<1>3. /\ queue' \in Seq(Proposals) /\ dialogue' \in Proposals \cup {NoProposal}
      /\ runs' \in [Proposals -> Seq(BuyRun)] /\ asked \subseteq asked'
      /\ \A x \in Proposals : runs'[x] = rs[x] \/ (x \notin AgentOf.Linked /\ x \in asked')
  BY <1>0, <1>1, <1>2, ShowFacts
<1>4. BuysTyped'
  BY <1>0, <1>3 DEF BuysTyped
<1>5. Lock'
  BY <1>1, <1>3, LinkedAreBuys
<1>6. Asking
  BY <1>1, <1>3 DEF Asking
<1> QED BY <1>4, <1>5, <1>6

\* And when it shows what it showed.
LEMMA GoneAlone ==
  ASSUME AgentInv, NEW b \in Proposals, NEW i \in DOMAIN runs[b], runs' = Agent!Gone(b, i),
         firing' = Agent!Released(b, i), UNCHANGED <<queue, dialogue, here, visit, asked, purchased>>
  PROVE  BuysTyped' /\ Lock' /\ Asking
<1>0. BuysTyped /\ Lock
  BY DEF AgentInv
<1>1. /\ runs' \in [Proposals -> Seq(BuyRun)]
      /\ \A x \in Proposals : runs'[x] # <<>> => runs[x] # <<>>
      /\ Lock'
  BY <1>0, GoneFacts
<1> QED BY <1>0, <1>1 DEF BuysTyped, Asking

LEMMA UpdateAsks ==
  ASSUME AgentInv, NEW b \in Proposals, NEW i \in DOMAIN runs[b], NEW r \in BuyRun,
         r.visit = runs[b][i].visit, runs' = [runs EXCEPT ![b] = [runs[b] EXCEPT ![i] = r]],
         purchased' = purchased \/ purchased' = [purchased EXCEPT ![b] = purchased[b] + 1],
         UNCHANGED <<queue, dialogue, here, visit, firing, asked>>
  PROVE  BuysTyped' /\ Lock' /\ Asking
<1>1. BuysTyped /\ Lock /\ purchased \in [Proposals -> Nat]
  BY DEF AgentInv, AnswersTyped
<1>2. BuysTyped' /\ Lock' /\ \A x \in Proposals : runs'[x] # <<>> => runs[x] # <<>>
  BY <1>1, UpdateKeeps
<1>3. runs[b] # <<>>
  BY <1>1, EmptySeq, LenProperties DEF BuysTyped
<1>4. \A x \in Proposals : x # b => purchased'[x] = purchased[x]
  BY <1>1
<1> QED BY <1>2, <1>3, <1>4 DEF Asking

\* The steps of a run.
LEMMA RunKeeps ==
  ASSUME AgentInv, NEW b \in Proposals, NEW i \in DOMAIN runs[b], Agent!RunStep(b, i)
  PROVE  BuysTyped' /\ Lock' /\ Asking
<1>0. runs[b][i] \in BuyRun /\ dialogue \in Proposals \cup {NoProposal} /\ queue \in Seq(Proposals)
  BY ElementOfSeq, LenProperties DEF AgentInv, BuysTyped
<1> DEFINE at(place) == [runs[b][i] EXCEPT !.at = place]
<1>1. ASSUME NEW place \in RunPlaces \ {"commit"} PROVE at(place) \in BuyRun /\ at(place).visit = runs[b][i].visit
  <2>1. PICK r \in BuyRun : r = runs[b][i]
    BY <1>0
  <2>2. [r EXCEPT !.at = place] \in BuyRun /\ [r EXCEPT !.at = place].visit = r.visit
    BY DEF BuyRun
  <2> QED BY <2>1, <2>2
<1>2. ASSUME NEW place PROVE Agent!MoveTo(b, i, place) = [runs EXCEPT ![b] = [runs[b] EXCEPT ![i] = at(place)]]
  BY DEF Agent!MoveTo
<1> HIDE DEF at
<1>3. ASSUME Agent!Ends(b, i) \/ Agent!Commit(b, i) PROVE BuysTyped' /\ Lock' /\ Asking
  <2>1. PICK place \in RunPlaces \ {"commit"} : runs' = Agent!MoveTo(b, i, place)
    BY <1>3 DEF Agent!Ends, Agent!Commit, RunPlaces
  <2>2. UNCHANGED <<queue, dialogue, here, visit, firing, asked>>
    BY <1>3 DEF Agent!Ends, Agent!Commit, Agent!pageVars
  <2>3. purchased' = purchased \/ purchased' = [purchased EXCEPT ![b] = purchased[b] + 1]
    BY <1>3 DEF Agent!Ends, Agent!Commit
  <2>4. /\ runs' = [runs EXCEPT ![b] = [runs[b] EXCEPT ![i] = at(place)]]
        /\ at(place) \in BuyRun /\ at(place).visit = runs[b][i].visit
    BY <1>1, <1>2, <2>1
  <2> QED BY <2>2, <2>3, <2>4, UpdateAsks
<1>4. ASSUME Agent!Reports(b, i) PROVE BuysTyped' /\ Lock' /\ Asking
  <2> DEFINE r == [runs[b][i] EXCEPT !.at = "commit", !.spends = dialogue]
  <2>1. r \in BuyRun /\ r.visit = runs[b][i].visit
    <3>1. dialogue \in Proposals
      BY <1>0, <1>4 DEF Agent!Reports, NoProposal
    <3>2. PICK p \in BuyRun : p = runs[b][i]
      BY <1>0
    <3>3. /\ [p EXCEPT !.at = "commit", !.spends = dialogue] \in BuyRun
          /\ [p EXCEPT !.at = "commit", !.spends = dialogue].visit = p.visit
      BY <3>1 DEF BuyRun, RunPlaces
    <3> QED BY <3>2, <3>3
  <2>2. runs' = [runs EXCEPT ![b] = [runs[b] EXCEPT ![i] = r]]
    BY <1>4 DEF Agent!Reports
  <2>3. UNCHANGED <<queue, dialogue, here, visit, firing, asked, purchased>>
    BY <1>4 DEF Agent!Reports, Agent!chainVars
  <2> HIDE DEF r
  <2> QED BY <2>1, <2>2, <2>3, UpdateAsks
<1>5. ASSUME Agent!Unheard(b, i) PROVE BuysTyped' /\ Lock' /\ Asking
  BY <1>5, GoneAlone DEF Agent!Unheard, Agent!chainVars
<1>6. ASSUME Agent!Failed(b, i) PROVE BuysTyped' /\ Lock' /\ Asking
  <2>1. Agent!Without(dialogue) \in Seq(Proposals)
    BY <1>0, WithoutIs
  <2>2. /\ Agent!Show(Agent!Without(dialogue), dialogue, "error", Agent!Gone(b, i))
        /\ firing' = Agent!Released(b, i) /\ UNCHANGED <<here, visit, purchased>>
    BY <1>6 DEF Agent!Failed, Agent!chainVars
  <2> QED BY <1>0, <2>1, <2>2, GoneShown
<1>7. ASSUME Agent!Answered(b, i) PROVE BuysTyped' /\ Lock' /\ Asking
  <2> DEFINE rest == Agent!Without(dialogue)
             next == IF rest = <<>> THEN NoProposal ELSE rest[1]
  <2>1. rest \in Seq(Proposals)
    BY <1>0, WithoutIs
  <2>2. next \in Proposals \cup {NoProposal}
    BY <2>1, EmptySeq, ElementOfSeq
  <2>3. firing' = Agent!Released(b, i) /\ UNCHANGED <<here, visit, purchased>>
    BY <1>7 DEF Agent!Answered, Agent!chainVars
  <2>4. CASE Agent!Show(rest, next, "success", Agent!Gone(b, i))
    <3> HIDE DEF rest, next
    <3> QED BY <2>1, <2>2, <2>3, <2>4, GoneShown
  <2>5. CASE Agent!Show(rest, dialogue, "error", Agent!Gone(b, i))
    <3> HIDE DEF rest, next
    <3> QED BY <1>0, <2>1, <2>3, <2>5, GoneShown
  <2>6. CASE runs' = Agent!Gone(b, i) /\ UNCHANGED <<queue, dialogue, modal, fallback, asked>>
    BY <2>3, <2>6, GoneAlone
  <2> QED BY <1>7, <2>4, <2>5, <2>6 DEF Agent!Answered, NoProposal
<1> QED BY <1>3, <1>4, <1>5, <1>6, <1>7 DEF Agent!RunStep

\* The intents: a step keeps a confirmation in the row, and the rest of what is
\* said of rows, tokens and events.
AnswersKept ==
  /\ AnswersTyped' /\ Heard' /\ Unproposed'
  /\ \A b \in Proposals : row[b] = "confirmed" => row'[b] = "confirmed"

LEMMA RowStays ==
  ASSUME AgentInv, UNCHANGED row, AnswersTyped', events' \subseteq events,
         \A b \in Proposals : token'[b] = "none" => token[b] = "none"
  PROVE  AnswersKept
BY DEF AgentInv, AnswersKept, Heard, Unproposed

LEMMA SweepKeeps ==
  ASSUME AgentInv, row' = Agent!Swept, UNCHANGED <<events, token, purchased>> PROVE AnswersKept
<1>1. row \in [Proposals -> {"none", "pending", "confirmed", "denied", "expired"}]
  BY DEF AgentInv, AnswersTyped
<1>2. row' = [b \in Proposals |-> IF row[b] = "pending" /\ tokenAge[b] = 2 THEN "expired" ELSE row[b]]
  BY DEF Agent!Swept, Proposals
<1>3. AnswersTyped'
  BY <1>1, <1>2 DEF AgentInv, AnswersTyped
<1>4. \A b \in Proposals : /\ row[b] = "confirmed" => row'[b] = "confirmed"
                           /\ row[b] = "none" => row'[b] = "none"
  BY <1>2
<1> QED BY <1>3, <1>4, LinkedAreBuys DEF AgentInv, AnswersKept, Heard, Unproposed

LEMMA ProposeAnswers ==
  ASSUME AgentInv, NEW b \in Proposals, Agent!Propose(b) PROVE AnswersKept
<1>1. /\ token[b] = "none" /\ token' = [token EXCEPT ![b] = "live"]
      /\ row' = [row EXCEPT ![b] = IF b \in AgentOf.Linked THEN "pending" ELSE row[b]]
      /\ UNCHANGED <<events, purchased>>
  BY DEF Agent!Propose, Agent!Minted
<1>2. row[b] = "none" /\ AnswersTyped
  BY <1>1 DEF AgentInv, Unproposed
<1>3. AnswersTyped'
  BY <1>1, <1>2 DEF AnswersTyped
<1>4. \A x \in Proposals : row[x] = "confirmed" => row'[x] = "confirmed"
  BY <1>1, <1>2 DEF AnswersTyped
<1>5. Unproposed'
  BY <1>1, <1>2 DEF AnswersTyped, AgentInv, Unproposed
<1>6. Heard'
  BY <1>1, <1>4, LinkedAreBuys DEF AgentInv, Heard
<1> QED BY <1>3, <1>4, <1>5, <1>6 DEF AnswersKept

LEMMA ApplyKeeps ==
  ASSUME AgentInv, NEW b \in AgentOf.Linked, Agent!Confirm(b) \/ Agent!Deny(b) PROVE AnswersKept
<1>0. AnswersTyped /\ b \in Proposals
  BY LinkedAreBuys DEF AgentInv
<1>1. PICK kind, to : /\ Agent!Apply(b, kind, to)
                      /\ \/ kind = "confirm" /\ to = "confirmed"
                         \/ kind = "deny" /\ to = "denied"
  BY DEF Agent!Confirm, Agent!Deny
<1>2. UNCHANGED <<token, purchased>>
  BY <1>1 DEF Agent!Apply, Agent!chainVars
<1>3. CASE UNCHANGED <<row, events>>
  BY <1>0, <1>2, <1>3, RowStays DEF AnswersTyped
<1>4. CASE row[b] = "pending" /\ row' = [row EXCEPT ![b] = to] /\ events' \subseteq events \cup {<<kind, b>>}
  <2>1. AnswersTyped'
    BY <1>0, <1>1, <1>2, <1>4 DEF AnswersTyped
  <2>2. \A x \in Proposals : /\ x # b => row'[x] = row[x]
                             /\ row[x] = "confirmed" => row'[x] = "confirmed"
    BY <1>0, <1>4 DEF AnswersTyped
  <2>3. row'[b] = to /\ token[b] # "none"
    BY <1>0, <1>4 DEF AnswersTyped, AgentInv, Unproposed
  <2>4. Unproposed'
    BY <1>2, <2>2, <2>3 DEF AgentInv, Unproposed
  <2>5. ASSUME NEW x \in AgentOf.Linked, <<"confirm", x>> \in events' PROVE row'[x] = "confirmed"
    <3>1. CASE <<"confirm", x>> \in events
      BY <2>2, <3>1, LinkedAreBuys DEF AgentInv, Heard
    <3>2. CASE <<"confirm", x>> = <<kind, b>>
      BY <1>1, <2>3, <3>2
    <3> QED BY <1>4, <2>5, <3>1, <3>2
  <2>6. Heard'
    BY <2>5 DEF Heard
  <2> QED BY <2>1, <2>2, <2>4, <2>6 DEF AnswersKept
<1> QED BY <1>1, <1>3, <1>4 DEF Agent!Apply, Agent!StillOpen, Agent!Published

LEMMA RunAnswers ==
  ASSUME AgentInv, NEW b \in Proposals, NEW i \in DOMAIN runs[b], Agent!RunStep(b, i) PROVE AnswersKept
<1>0. AnswersTyped
  BY DEF AgentInv
<1>1. UNCHANGED <<row, events>>
  BY DEF Agent!RunStep, Agent!Ends, Agent!Unheard, Agent!Failed, Agent!Reports, Agent!Commit, Agent!Answered,
         Agent!botVars
<1>2. token' = token \/ \E t : token' = [token EXCEPT ![t] = "used"]
  BY DEF Agent!RunStep, Agent!Ends, Agent!Unheard, Agent!Failed, Agent!Reports, Agent!Commit, Agent!Answered,
         Agent!chainVars
<1>3. purchased' = purchased \/ purchased' = [purchased EXCEPT ![b] = purchased[b] + 1]
  BY DEF Agent!RunStep, Agent!Ends, Agent!Unheard, Agent!Failed, Agent!Reports, Agent!Commit, Agent!Answered,
         Agent!chainVars
<1>4. /\ token' \in [Proposals -> {"none", "live", "used"}]
      /\ \A x \in Proposals : token'[x] = "none" => token[x] = "none"
  BY <1>0, <1>2 DEF AnswersTyped
<1>5. purchased' \in [Proposals -> Nat]
  <2>1. CASE purchased' = [purchased EXCEPT ![b] = purchased[b] + 1]
    <3>1. purchased \in [Proposals -> Nat] /\ purchased[b] + 1 \in Nat
      BY <1>0 DEF AnswersTyped
    <3> QED BY <2>1, <3>1
  <2> QED BY <1>0, <1>3, <2>1 DEF AnswersTyped
<1>6. AnswersTyped'
  BY <1>0, <1>1, <1>4, <1>5 DEF AnswersTyped
<1> QED BY <1>1, <1>4, <1>6, RowStays

\* A token is spent when it is live, so by one purchase.
LEMMA CommitSpends ==
  ASSUME AgentInv, NEW b \in Proposals, NEW i \in DOMAIN runs[b], Agent!Commit(b, i) PROVE Spent'
<1> DEFINE t == runs[b][i].spends
<1>1. t \in Proposals
  <2>1. runs[b][i] \in BuyRun
    BY ElementOfSeq, LenProperties DEF AgentInv, BuysTyped
  <2> QED BY <2>1 DEF Agent!Commit, BuyRun
<1>2. Spent /\ token \in [Proposals -> {"none", "live", "used"}]
  BY DEF AgentInv, AnswersTyped
<1>3. \/ token[t] = "live" /\ token' = [token EXCEPT ![t] = "used"] /\ receipts' = receipts \cup {<<t, b>>}
      \/ UNCHANGED <<token, receipts>>
  BY DEF Agent!Commit, Agent!Spendable
<1> HIDE DEF t
<1>4. CASE UNCHANGED <<token, receipts>>
  BY <1>2, <1>4 DEF Spent, Agent!TokenSpentOnce
<1>5. CASE token[t] = "live" /\ token' = [token EXCEPT ![t] = "used"] /\ receipts' = receipts \cup {<<t, b>>}
  <2>1. \A r \in receipts : r[1] \in Proposals /\ token[r[1]] = "used" /\ r[1] # t
    BY <1>2, <1>5 DEF Spent
  <2>2. \A r \in receipts : token'[r[1]] = "used"
    BY <1>2, <1>5, <2>1
  <2>3. <<t, b>>[1] = t /\ token'[t] = "used"
    BY <1>1, <1>2, <1>5
  <2>4. \A r \in receipts' : r \in receipts \/ r = <<t, b>>
    BY <1>5
  <2>5. \A r \in receipts' : r[1] \in Proposals /\ token'[r[1]] = "used"
    BY <1>1, <2>1, <2>2, <2>3, <2>4
  <2>6. ASSUME NEW r \in receipts', NEW s \in receipts', r[1] = s[1] PROVE r = s
    BY <1>2, <2>1, <2>3, <2>4, <2>6 DEF Spent, Agent!TokenSpentOnce
  <2> QED BY <2>5, <2>6 DEF Spent, Agent!TokenSpentOnce
<1> QED BY <1>3, <1>4, <1>5

\* The steps together.
AgentStepped == BuysTyped' /\ Lock' /\ Asking /\ AnswersKept /\ Spent'

LEMMA AgentKept == ASSUME AgentInv, AgentStepped PROVE AgentInv'
<1>1. WasWanted'
  BY DEF AgentInv, AgentStepped, Asking, AnswersKept, WasWanted
<1> QED BY <1>1 DEF AgentInv, AgentStepped, AnswersKept

LEMMA SpentStays ==
  ASSUME AgentInv, receipts' = receipts,
         token' = token \/ \E b \in Proposals : token[b] = "none" /\ token' = [token EXCEPT ![b] = "live"]
  PROVE  Spent'
<1>1. \A r \in receipts : r[1] \in Proposals /\ token[r[1]] = "used"
  BY DEF AgentInv, Spent
<1>2. \A r \in receipts : token'[r[1]] = "used"
  BY <1>1 DEF AgentInv, AnswersTyped
<1> QED BY <1>1, <1>2 DEF AgentInv, Spent, Agent!TokenSpentOnce

LEMMA AgentSteps == ASSUME AgentInv, Agent!Next PROVE AgentInv'
<1>0. AnswersTyped
  BY DEF AgentInv
<1>1. ASSUME NEW b \in Proposals, Agent!Propose(b) PROVE AgentStepped
  <2>1. Spent'
    BY <1>1, SpentStays DEF Agent!Propose
  <2> QED BY <1>1, <2>1, ProposeKeeps, ProposeAnswers DEF AgentStepped
<1>2. ASSUME Agent!Press \/ Agent!Cancel \/ Agent!Return PROVE AgentStepped
  <2>1. UNCHANGED <<row, token, purchased, receipts, events>>
    BY <1>2 DEF Agent!Press, Agent!Cancel, Agent!Return, Agent!botVars, Agent!chainVars
  <2>2. AnswersKept
    BY <1>0, <2>1, RowStays DEF AnswersTyped
  <2>3. Spent'
    BY <2>1, SpentStays
  <2> QED BY <1>2, <2>2, <2>3, PressKeeps, CancelKeeps, ReturnKeeps DEF AgentStepped
<1>3. ASSUME NEW kind \in AgentOf.Answers, NEW b \in AgentOf.Linked, Agent!Deliver(kind, b) PROVE AgentStepped
  <2>1. UNCHANGED <<row, token, purchased, receipts>> /\ events' \subseteq events
    BY <1>3 DEF Agent!Deliver, Agent!botVars, Agent!chainVars
  <2>2. AnswersKept
    BY <1>0, <2>1, RowStays DEF AnswersTyped
  <2>3. Spent'
    BY <2>1, SpentStays
  <2> QED BY <1>3, <2>2, <2>3, DeliverKeeps DEF AgentStepped
<1>4. ASSUME NEW b \in Proposals, NEW i \in DOMAIN runs[b], Agent!RunStep(b, i) PROVE AgentStepped
  <2>1. Spent'
    <3>1. CASE Agent!Commit(b, i)
      BY <3>1, CommitSpends
    <3>2. CASE ~Agent!Commit(b, i)
      <4>1. UNCHANGED <<token, receipts>>
        BY <1>4, <3>2 DEF Agent!RunStep, Agent!Ends, Agent!Unheard, Agent!Failed, Agent!Reports, Agent!Answered,
                          Agent!chainVars
      <4> QED BY <4>1, SpentStays
    <3> QED BY <3>1, <3>2
  <2> QED BY <1>4, <2>1, RunKeeps, RunAnswers DEF AgentStepped
<1>5. ASSUME \/ Agent!UseDashboard \/ Agent!Leave
             \/ \E b \in Proposals : Agent!Age(b)
             \/ \E e \in events : Agent!LoseEvent(e)
             \/ \E b \in AgentOf.Linked : Agent!TapInVain(b)
      PROVE  AgentStepped
  <2>1. /\ UNCHANGED <<queue, runs, asked, visit, purchased, row, token, receipts>> /\ events' \subseteq events
        /\ (UNCHANGED <<dialogue, here, firing>> \/ Agent!Leave)
    BY <1>5 DEF Agent!UseDashboard, Agent!Leave, Agent!Age, Agent!LoseEvent, Agent!TapInVain, Agent!pageVars,
                Agent!botVars, Agent!chainVars
  <2>2. AnswersKept
    BY <1>0, <2>1, RowStays DEF AnswersTyped
  <2>3. Spent'
    BY <2>1, SpentStays
  <2> QED BY <2>1, <2>2, <2>3, RestingKeeps DEF AgentStepped
<1>6. ASSUME Agent!Lookup \/ \E b \in AgentOf.Linked, kind \in AgentOf.Answers : Agent!Taps(b, kind)
      PROVE  AgentStepped
  <2>1. /\ UNCHANGED <<queue, runs, asked, visit, purchased, token, receipts, events, dialogue, here, firing>>
        /\ row' = Agent!Swept
    BY <1>6 DEF Agent!Lookup, Agent!Taps, Agent!TapInline, Agent!TapMiniApp, Agent!TapPage, Agent!Asks,
                Agent!pageVars, Agent!chainVars
  <2> QED BY <2>1, SweepKeeps, SpentStays, RestingKeeps DEF AgentStepped
<1>7. ASSUME NEW b \in AgentOf.Linked, Agent!Confirm(b) \/ Agent!Deny(b) PROVE AgentStepped
  <2>1. UNCHANGED <<queue, runs, asked, visit, purchased, token, receipts, dialogue, here, firing>>
    BY <1>7 DEF Agent!Confirm, Agent!Deny, Agent!Apply, Agent!pageVars, Agent!chainVars
  <2> QED BY <1>7, <2>1, ApplyKeeps, SpentStays, RestingKeeps DEF AgentStepped
<1>8. AgentStepped
  BY <1>1, <1>2, <1>3, <1>4, <1>5, <1>6, <1>7 DEF Agent!Next, Agent!Delivers, Agent!RunSteps, Proposals
<1> QED BY <1>8, AgentKept

LEMMA AgentStarts == ASSUME Agent!Init PROVE AgentInv
<1>1. BuysTyped
  <2>1. <<>> \in Seq(Proposals) /\ <<>> \in Seq(BuyRun)
    BY EmptySeq
  <2> QED BY <2>1 DEF Agent!Init, BuysTyped, Proposals, NoProposal
<1>2. \A b \in Proposals : runs[b] = <<>> /\ purchased[b] = 0
  BY DEF Agent!Init, Proposals
<1>3. Lock
  <2>1. ASSUME NEW b \in AgentOf.Linked PROVE runs[b] = <<>> /\ DOMAIN runs[b] = {}
    BY <1>2, LinkedAreBuys
  <2> QED BY <2>1 DEF Lock, OneEach
<1> QED BY <1>1, <1>2, <1>3 DEF Agent!Init, AgentInv, AnswersTyped, WasWanted, Heard, Unproposed, Spent,
                               Agent!TokenSpentOnce, Proposals

LEMMA AgentStutters == ASSUME AgentInv, UNCHANGED agentVars PROVE AgentInv'
BY DEF agentVars, AgentInv, BuysTyped, AnswersTyped, Lock, OneEach, WasWanted, Heard, Unproposed, Spent,
       Agent!TokenSpentOnce

\* What the audit log says of an intent is what its row says, once.
Says(v, r) == v = {} \/ (v = {"confirm"} /\ r = "confirmed") \/ (v = {"deny"} /\ r = "denied")
Judged == DOMAIN verdicts = Proposals /\ \A b \in Proposals : Says(verdicts[b], row[b])

LEMMA JudgedSteps == ASSUME AgentInv, Judged, Agent!Next PROVE Judged'
<1>0. /\ DOMAIN verdicts = Proposals /\ \A b \in Proposals : Says(verdicts[b], row[b])
      /\ row \in [Proposals -> {"none", "pending", "confirmed", "denied", "expired"}]
  BY DEF AgentInv, AnswersTyped, Judged
<1>1. ASSUME UNCHANGED <<row, verdicts>> PROVE Judged'
  BY <1>0, <1>1 DEF Judged
<1>2. ASSUME UNCHANGED verdicts, NEW b, NEW r, row[b] \notin {"confirmed", "denied"}, row' = [row EXCEPT ![b] = r]
      PROVE  Judged'
  <2>1. ASSUME NEW x \in Proposals PROVE Says(verdicts[x], row'[x])
    BY <1>0, <1>2 DEF Says
  <2> QED BY <1>0, <1>2, <2>1 DEF Judged
<1>3. ASSUME NEW b \in Proposals, Agent!Propose(b) PROVE Judged'
  <2>1. UNCHANGED verdicts /\ row' = [row EXCEPT ![b] = IF b \in AgentOf.Linked THEN "pending" ELSE row[b]]
    BY <1>3 DEF Agent!Propose, Agent!Minted
  <2>2. row[b] = "none"
    BY <1>3 DEF Agent!Propose, AgentInv, Unproposed
  <2> QED BY <1>2, <2>1, <2>2
<1>4. ASSUME row' = Agent!Swept, UNCHANGED verdicts PROVE Judged'
  <2>1. row' = [b \in Proposals |-> IF row[b] = "pending" /\ tokenAge[b] = 2 THEN "expired" ELSE row[b]]
    BY <1>4 DEF Agent!Swept, Proposals
  <2>2. ASSUME NEW x \in Proposals PROVE Says(verdicts[x], row'[x])
    BY <1>0, <2>1 DEF Says
  <2> QED BY <1>0, <1>4, <2>2 DEF Judged
<1>5. CASE Agent!Lookup \/ \E b \in AgentOf.Linked, kind \in AgentOf.Answers : Agent!Taps(b, kind)
  <2>1. row' = Agent!Swept /\ UNCHANGED verdicts
    BY <1>5 DEF Agent!Lookup, Agent!Taps, Agent!TapInline, Agent!TapMiniApp, Agent!TapPage, Agent!Asks
  <2> QED BY <1>4, <2>1
<1>6. ASSUME NEW b \in AgentOf.Linked, Agent!Confirm(b) \/ Agent!Deny(b) PROVE Judged'
  <2>0. b \in Proposals
    BY LinkedAreBuys
  <2>1. PICK kind, to : /\ Agent!Apply(b, kind, to)
                        /\ (kind = "confirm" /\ to = "confirmed") \/ (kind = "deny" /\ to = "denied")
    BY <1>6 DEF Agent!Confirm, Agent!Deny
  <2>2. CASE UNCHANGED <<row, verdicts>>
    BY <1>1, <2>2
  <2>3. CASE /\ row[b] = "pending" /\ row' = [row EXCEPT ![b] = to]
             /\ verdicts' = verdicts \/ verdicts' = [verdicts EXCEPT ![b] = verdicts[b] \cup {kind}]
    <3>1. verdicts[b] = {}
      BY <1>0, <2>0, <2>3 DEF Says
    <3>2. DOMAIN verdicts' = Proposals /\ verdicts'[b] \in {{}, {kind}}
      BY <1>0, <2>0, <2>3, <3>1
    <3>3. row'[b] = to
      BY <1>0, <2>0, <2>3
    <3>4. Says(verdicts'[b], row'[b])
      BY <2>1, <3>2, <3>3 DEF Says
    <3>5. ASSUME NEW x \in Proposals, x # b PROVE Says(verdicts'[x], row'[x])
      <4>1. verdicts'[x] = verdicts[x] /\ row'[x] = row[x]
        BY <1>0, <2>0, <2>3, <3>5
      <4> QED BY <1>0, <4>1
    <3> QED BY <3>2, <3>4, <3>5 DEF Judged
  <2> QED BY <2>1, <2>2, <2>3 DEF Agent!Apply, Agent!StillOpen
<1>7. ASSUME NEW b \in Proposals, NEW i \in DOMAIN runs[b], Agent!RunStep(b, i) PROVE Judged'
  <2>1. UNCHANGED <<row, verdicts>>
    BY <1>7 DEF Agent!RunStep, Agent!Ends, Agent!Unheard, Agent!Failed, Agent!Reports, Agent!Commit, Agent!Answered,
                Agent!botVars
  <2> QED BY <1>1, <2>1
<1>8. CASE \/ Agent!UseDashboard \/ Agent!Press \/ Agent!Cancel \/ Agent!Leave \/ Agent!Return
           \/ \E b \in Proposals : Agent!Age(b)
           \/ \E e \in events : Agent!LoseEvent(e)
           \/ Agent!Delivers
           \/ \E b \in AgentOf.Linked : Agent!TapInVain(b)
  <2>1. UNCHANGED <<row, verdicts>>
    BY <1>8 DEF Agent!UseDashboard, Agent!Press, Agent!Cancel, Agent!Leave, Agent!Return, Agent!Age, Agent!LoseEvent,
                Agent!Delivers, Agent!Deliver, Agent!TapInVain, Agent!botVars
  <2> QED BY <1>1, <2>1
<1> QED BY <1>3, <1>5, <1>6, <1>7, <1>8 DEF Agent!Next, Agent!RunSteps, Proposals

LEMMA JudgedStarts == ASSUME Agent!Init PROVE Judged
BY DEF Agent!Init, Judged, Says, Proposals

LEMMA JudgedStutters == ASSUME Judged, UNCHANGED agentVars PROVE Judged'
BY DEF Judged, agentVars

LEMMA OneWord == ASSUME NEW v, NEW r, Says(v, r) PROVE Cardinality(v) <= 1
<1>1. CASE v = {}
  BY <1>1, FS_EmptySet
<1>2. ASSUME NEW kind, v = {kind} PROVE Cardinality(v) <= 1
  <2>1. Cardinality({kind}) = 1
    BY FS_Singleton
  <2> QED BY <1>2, <2>1
<1> QED BY <1>1, <1>2 DEF Says

LEMMA JudgedIsOneVerdict == ASSUME Judged PROVE Agent!OneVerdict
<1>1. ASSUME NEW b \in AgentOf.Linked
      PROVE  /\ Agent!Cardinality(verdicts[b]) <= 1
             /\ "confirm" \in verdicts[b] => row[b] = "confirmed"
             /\ "deny" \in verdicts[b] => row[b] = "denied"
  <2>1. Says(verdicts[b], row[b])
    BY LinkedAreBuys DEF Judged
  <2>2. Cardinality(verdicts[b]) <= 1
    BY <2>1, OneWord
  <2>3. Agent!Cardinality(verdicts[b]) <= 1
    BY <2>2, Zenon DEF Agent!Cardinality, Cardinality
  <2> QED BY <2>1, <2>3 DEF Says
<1> QED BY <1>1 DEF Agent!OneVerdict

\* One linked proposal followed alone: no fault repeats a purchase, so that
\* what was bought is told by the one run there is.
SoloRun == [visit : {0}, at : {"sending", "ok", "failed", "commit", "recorded"}, spends : {"a", "none"}]

\* Nothing is bought and nobody runs; or it is bought, and the dialogue is gone;
\* or there is one run, which holds the page's lock.
Undecided == runs["a"] = <<>> /\ purchased["a"] = 0 /\ token["a"] \in {"none", "live"}
Settled == runs["a"] = <<>> /\ purchased["a"] = 1 /\ token["a"] # "none" /\ dialogue = "none"
Running(r) ==
  /\ runs["a"] = <<r>> /\ "a" \in firing
  /\ purchased["a"] = IF r.at \in {"sending", "failed"} THEN 0 ELSE 1
  /\ token["a"] = IF r.at = "recorded" THEN "used" ELSE "live"
  /\ r.at = "commit" => r.spends = "a"

SoloPage ==
  /\ here = TRUE /\ visit = 0 /\ tokenAge["a"] = 0
  /\ queue \in {<<>>, <<"a">>} /\ dialogue \in {"a", "none"}
  /\ DOMAIN runs = {"a"} /\ DOMAIN purchased = {"a"} /\ DOMAIN token = {"a"}
  /\ Undecided \/ Settled \/ \E r \in SoloRun : Running(r)
  /\ token["a"] = "none" => queue = <<>> /\ dialogue = "none" /\ runs["a"] = <<>>

\* The intent's answers are in the audit log when the row says so.
SoloAnswers ==
  /\ row \in [{"a"} -> {"none", "pending", "confirmed", "denied", "expired"}]
  /\ DOMAIN verdicts = {"a"}
  /\ \/ verdicts["a"] = {}
     \/ verdicts["a"] = {"confirm"} /\ row["a"] = "confirmed"
     \/ verdicts["a"] = {"deny"} /\ row["a"] = "denied"
  /\ token["a"] = "none" => row["a"] = "none"

AloneInv == SoloPage /\ SoloAnswers

LEMMA AloneIs ==
  /\ AloneAgent.Buys = {"a"} /\ AloneAgent.Linked = {"a"} /\ AloneAgent.NoBuy = "none"
  /\ AloneAgent.Coded = {"a"} /\ AloneAgent.Scoped = FALSE /\ AloneAgent.Answers = {"confirm", "deny"}
  /\ AloneAgent.Faults = {"notify", "audit", "event", "refuse"}
BY DEF AloneAgent, FaultyAgent

LEMMA SoloWithout == ASSUME queue \in {<<>>, <<"a">>} PROVE Alone!Without("a") = <<>>
<1>1. CASE queue = <<>>
  BY <1>1 DEF Alone!Without
<1>2. CASE queue = <<"a">>
  <2>1. DOMAIN queue = {1} /\ queue[1] = "a" /\ Len(queue) = 1
    BY <1>2
  <2>2. Alone!Without("a") = Alone!RemoveAt(queue, 1)
    <3>1. (CHOOSE i \in DOMAIN queue : queue[i] = "a") = 1
      BY <2>1
    <3> QED BY <2>1, <3>1 DEF Alone!Without
  <2>3. SubSeq(queue, 1, 0) = <<>> /\ SubSeq(queue, 2, 1) = <<>>
    BY SubSeqEmpty
  <2>4. Alone!RemoveAt(queue, 1) = SubSeq(queue, 1, 0) \o SubSeq(queue, 2, 1)
    BY <2>1 DEF Alone!RemoveAt
  <2>5. <<>> \o <<>> = <<>>
    BY EmptySeq, ConcatEmptySeq
  <2> QED BY <2>2, <2>3, <2>4, <2>5
<1> QED BY <1>1, <1>2

LEMMA SoloGone ==
  ASSUME NEW r, runs["a"] = <<r>>
  PROVE  Alone!Gone("a", 1) = [runs EXCEPT !["a"] = <<>>]
<1> DEFINE s == runs["a"]
<1>1. Len(s) = 1
  OBVIOUS
<1>2. SubSeq(s, 1, 0) = <<>> /\ SubSeq(s, 2, 1) = <<>>
  BY SubSeqEmpty
<1>3. Alone!RemoveAt(s, 1) = SubSeq(s, 1, 0) \o SubSeq(s, 2, 1)
  BY <1>1 DEF Alone!RemoveAt
<1> HIDE DEF s
<1>4. <<>> \o <<>> = <<>>
  BY EmptySeq, ConcatEmptySeq
<1>5. Alone!RemoveAt(s, 1) = <<>>
  BY <1>2, <1>3, <1>4
<1> QED BY <1>5 DEF Alone!Gone, s

LEMMA SoloShow ==
  ASSUME NEW q, NEW d, NEW status, NEW rs, Alone!Show(q, d, status, rs)
  PROVE  /\ queue' = q /\ runs' = rs
         /\ q = <<>> => dialogue' = d
         /\ here /\ d = "none" /\ q = <<"a">> /\ queue = <<>> => dialogue' = "a"
<1>1. \A b : ~Alone!AutoConfirmed(b)
  BY AloneIs DEF Alone!AutoConfirmed
<1>2. Len(<<"a">>) = 1 /\ Len(<<>>) = 0 /\ <<"a">>[1] = "a" /\ <<"a">> # <<>>
  BY EmptySeq
<1> QED BY <1>1, <1>2, AloneIs DEF Alone!Show

\* The page stays as it is said when nothing of it moves but the dialogue.
LEMMA SoloStays ==
  ASSUME SoloPage, UNCHANGED <<here, visit, tokenAge, runs, purchased, token>>, firing \subseteq firing',
         \/ UNCHANGED <<queue, dialogue>>
         \/ queue' = <<>> /\ dialogue' = "none"
  PROVE  SoloPage'
<1>1. CASE Undecided
  BY <1>1 DEF SoloPage, Undecided
<1>2. CASE Settled
  BY <1>2 DEF SoloPage, Settled
<1>3. ASSUME NEW r \in SoloRun, Running(r) PROVE SoloPage'
  BY <1>3 DEF SoloPage, Running
<1> QED BY <1>1, <1>2, <1>3 DEF SoloPage

LEMMA SoloBegin ==
  ASSUME SoloPage, dialogue = "a", Alone!Begin("a"),
         UNCHANGED <<queue, dialogue, here, visit, tokenAge, purchased, token>>
  PROVE  SoloPage'
<1>1. /\ firing' = firing \cup {"a"}
      /\ runs' = IF "a" \in firing THEN runs ELSE [runs EXCEPT !["a"] = Append(runs["a"], Alone!NewRun)]
  BY AloneIs DEF Alone!Begin
<1>2. CASE "a" \in firing
  BY <1>1, <1>2, SoloStays
<1>3. CASE "a" \notin firing
  <2>1. Undecided /\ token["a"] = "live" /\ DOMAIN runs = {"a"}
    BY <1>3 DEF SoloPage, Undecided, Settled, Running
  <2> DEFINE r == [visit |-> 0, at |-> "sending", spends |-> "none"]
  <2>2. Alone!NewRun = r /\ r \in SoloRun
    BY AloneIs DEF Alone!NewRun, SoloPage, SoloRun
  <2>3. runs'["a"] = <<r>> /\ DOMAIN runs' = {"a"}
    BY <1>1, <1>3, <2>1, <2>2 DEF Undecided
  <2>4. Running(r)'
    BY <1>1, <2>1, <2>3 DEF Running, Undecided
  <2> QED BY <2>1, <2>2, <2>3, <2>4 DEF SoloPage
<1> QED BY <1>2, <1>3

LEMMA SoloPropose == ASSUME SoloPage, Alone!Propose("a") PROVE SoloPage'
<1>1. /\ token["a"] = "none" /\ token' = [token EXCEPT !["a"] = "live"]
      /\ UNCHANGED <<here, visit, firing, purchased, tokenAge>>
      /\ Alone!Show(Append(queue, "a"), dialogue, modal, runs)
  BY DEF Alone!Propose, Alone!Queued
<1>2. queue = <<>> /\ dialogue = "none" /\ runs["a"] = <<>> /\ here = TRUE /\ Undecided
  BY <1>1 DEF SoloPage, Undecided, Settled, Running
<1>3. Append(queue, "a") = <<"a">>
  BY <1>2
<1>4. queue' = <<"a">> /\ runs' = runs /\ dialogue' = "a"
  BY <1>1, <1>2, <1>3, SoloShow
<1> QED BY <1>1, <1>2, <1>4 DEF SoloPage, Undecided

\* A run goes on, and ends.
LEMMA SoloUpdate ==
  ASSUME SoloPage, NEW r, NEW r2 \in SoloRun, Running(r), runs' = [runs EXCEPT !["a"] = <<r2>>],
         UNCHANGED <<queue, dialogue, here, visit, firing, tokenAge>>,
         DOMAIN purchased' = {"a"}, DOMAIN token' = {"a"},
         purchased'["a"] = IF r2.at \in {"sending", "failed"} THEN 0 ELSE 1,
         token'["a"] = IF r2.at = "recorded" THEN "used" ELSE "live",
         r2.at = "commit" => r2.spends = "a"
  PROVE  SoloPage'
<1>1. runs'["a"] = <<r2>> /\ DOMAIN runs' = {"a"}
  BY DEF SoloPage
<1>2. Running(r2)'
  BY <1>1 DEF Running
<1> QED BY <1>1, <1>2 DEF SoloPage, Running

LEMMA SoloEnd ==
  ASSUME SoloPage, NEW r \in SoloRun, Running(r), runs' = [runs EXCEPT !["a"] = <<>>],
         UNCHANGED <<here, visit, tokenAge, purchased, token>>,
         queue' \in {<<>>, <<"a">>}, dialogue' \in {"a", "none"},
         r.at = "failed" \/ dialogue' = "none"
  PROVE  SoloPage'
<1>1. runs'["a"] = <<>> /\ DOMAIN runs' = {"a"} /\ token["a"] # "none"
  BY DEF SoloPage, Running
<1>2. CASE r.at \in {"sending", "failed"}
  BY <1>1, <1>2 DEF SoloPage, Running, Undecided
<1>3. CASE r.at \notin {"sending", "failed"}
  BY <1>1, <1>3 DEF SoloPage, Running, Settled
<1> QED BY <1>2, <1>3

LEMMA OnlyEntry == ASSUME NEW r, NEW x PROVE [<<r>> EXCEPT ![1] = x] = <<x>>
<1> DEFINE s == <<r>>
           u == [s EXCEPT ![1] = x]
<1>1. s \in Seq({r, x}) /\ Len(s) = 1 /\ <<x>> \in Seq({r, x}) /\ Len(<<x>>) = 1 /\ <<x>>[1] = x
  OBVIOUS
<1> HIDE DEF s
<1>2. u \in Seq({r, x}) /\ Len(u) = 1 /\ u[1] = x
  <2>1. 1 \in 1 .. Len(s) /\ x \in {r, x}
    BY <1>1
  <2> QED BY <1>1, <2>1, ExceptSeq
<1> HIDE DEF u
<1>3. \A j \in 1 .. Len(u) : u[j] = <<x>>[j]
  BY <1>1, <1>2
<1>4. u = <<x>>
  BY <1>1, <1>2, <1>3, SeqEqual
<1> QED BY <1>4 DEF s, u

LEMMA SoloRunStep ==
  ASSUME SoloPage, NEW i \in DOMAIN runs["a"], Alone!RunStep("a", i) PROVE SoloPage'
<1>1. PICK r \in SoloRun : Running(r)
  BY DEF SoloPage, Undecided, Settled
<1>2. runs["a"] = <<r>> /\ i = 1 /\ runs["a"][i] = r /\ DOMAIN runs = {"a"}
  BY <1>1 DEF Running, SoloPage
<1>3. Alone!Gone("a", i) = [runs EXCEPT !["a"] = <<>>]
  BY <1>2, SoloGone
<1>4. Alone!Mounted("a", i)
  BY <1>2 DEF Alone!Mounted, SoloPage, SoloRun
<1>5. \A kind : Alone!Fault(kind) => kind \in {"notify", "audit", "event", "refuse"}
  BY AloneIs DEF Alone!Fault
<1>6. \A place : Alone!MoveTo("a", i, place) = [runs EXCEPT !["a"] = <<[r EXCEPT !.at = place]>>]
  <2>1. ASSUME NEW x PROVE [runs["a"] EXCEPT ![i] = x] = <<x>>
    BY <1>2, OnlyEntry
  <2>2. ASSUME NEW place
        PROVE  Alone!MoveTo("a", i, place) = [runs EXCEPT !["a"] = [runs["a"] EXCEPT ![i] = [r EXCEPT !.at = place]]]
    BY <1>2 DEF Alone!MoveTo
  <2>3. \A place : [runs["a"] EXCEPT ![i] = [r EXCEPT !.at = place]] = <<[r EXCEPT !.at = place]>>
    BY <2>1
  <2> QED BY <2>2, <2>3
<1>7. ASSUME NEW place \in {"sending", "ok", "failed", "commit", "recorded"}
      PROVE  [r EXCEPT !.at = place] \in SoloRun /\ [r EXCEPT !.at = place].at = place
             /\ [r EXCEPT !.at = place].spends = r.spends
  BY DEF SoloRun
<1>8. DOMAIN purchased = {"a"} /\ DOMAIN token = {"a"} /\ tokenAge["a"] = 0
  BY DEF SoloPage
<1>9. CASE Alone!Ends("a", i)
  <2>1. /\ r.at = "sending" /\ purchased["a"] = 0 /\ token["a"] = "live" /\ token' = token
        /\ UNCHANGED <<queue, dialogue, here, visit, firing, tokenAge>>
    BY <1>1, <1>2, <1>9 DEF Alone!Ends, Alone!pageVars, Running
  <2>2. \/ purchased' = [purchased EXCEPT !["a"] = purchased["a"] + 1] /\ runs' = Alone!MoveTo("a", i, "ok")
        \/ purchased' = purchased /\ runs' = Alone!MoveTo("a", i, "failed")
    BY <1>5, <1>9 DEF Alone!Ends
  <2>3. PICK place \in {"ok", "failed"} :
          /\ runs' = [runs EXCEPT !["a"] = <<[r EXCEPT !.at = place]>>]
          /\ DOMAIN purchased' = {"a"} /\ purchased'["a"] = IF place = "failed" THEN 0 ELSE 1
    BY <1>6, <1>8, <2>1, <2>2
  <2> DEFINE r2 == [r EXCEPT !.at = place]
  <2>4. r2 \in SoloRun /\ r2.at = place
    BY <1>7
  <2>5. runs' = [runs EXCEPT !["a"] = <<r2>>]
    BY <2>3
  <2> HIDE DEF r2
  <2>6. /\ purchased'["a"] = IF r2.at \in {"sending", "failed"} THEN 0 ELSE 1
        /\ token'["a"] = IF r2.at = "recorded" THEN "used" ELSE "live"
        /\ r2.at = "commit" => r2.spends = "a"
    BY <2>1, <2>3, <2>4
  <2> QED BY <1>1, <1>8, <2>1, <2>3, <2>4, <2>5, <2>6, SoloUpdate
<1>10. CASE Alone!Reports("a", i)
  <2> DEFINE r2 == [r EXCEPT !.at = "commit", !.spends = dialogue]
  <2>1. /\ r.at = "ok" /\ dialogue = "a"
        /\ runs' = [runs EXCEPT !["a"][i].at = "commit", !["a"][i].spends = dialogue]
        /\ UNCHANGED <<queue, dialogue, here, visit, firing, tokenAge, purchased, token>>
    BY <1>2, <1>10, AloneIs DEF Alone!Reports, Alone!chainVars, SoloPage
  <2>4. runs' = [runs EXCEPT !["a"] = [runs["a"] EXCEPT ![i] = r2]]
    BY <1>2, <2>1
  <2>5. [runs["a"] EXCEPT ![i] = r2] = <<r2>>
    <3> HIDE DEF r2
    <3> QED BY <1>2, OnlyEntry
  <2>6. runs' = [runs EXCEPT !["a"] = <<r2>>]
    BY <2>4, <2>5
  <2>2. r2 \in SoloRun /\ r2.at = "commit" /\ r2.spends = "a"
    BY <2>1 DEF SoloRun
  <2>3. purchased["a"] = 1 /\ token["a"] = "live"
    BY <1>1, <2>1 DEF Running
  <2> HIDE DEF r2
  <2> QED BY <1>1, <1>8, <2>1, <2>2, <2>3, <2>6, SoloUpdate
<1>11. CASE Alone!Commit("a", i)
  <2>1. r.at = "commit" /\ r.spends = "a" /\ token["a"] = "live" /\ purchased["a"] = 1
    BY <1>1, <1>2, <1>11 DEF Alone!Commit, Running
  <2>2. Alone!Spendable("a")
    BY <1>8, <2>1 DEF Alone!Spendable
  <2>3. /\ token' = [token EXCEPT !["a"] = "used"] /\ runs' = Alone!MoveTo("a", i, "recorded")
        /\ UNCHANGED <<queue, dialogue, here, visit, firing, tokenAge, purchased>>
    BY <1>2, <1>5, <1>11, <2>1, <2>2 DEF Alone!Commit, Alone!pageVars
  <2> DEFINE r2 == [r EXCEPT !.at = "recorded"]
  <2>4. r2 \in SoloRun /\ r2.at = "recorded" /\ runs' = [runs EXCEPT !["a"] = <<r2>>]
    BY <1>6, <1>7, <2>3
  <2> HIDE DEF r2
  <2>5. DOMAIN token' = {"a"} /\ token'["a"] = "used"
    BY <1>8, <2>3
  <2> QED BY <1>1, <1>8, <2>1, <2>3, <2>4, <2>5, SoloUpdate
<1>12. CASE Alone!Unheard("a", i)
  <2>1. /\ dialogue = "none" /\ runs' = [runs EXCEPT !["a"] = <<>>]
        /\ UNCHANGED <<queue, dialogue, here, visit, tokenAge, purchased, token>>
    BY <1>3, <1>4, <1>12, AloneIs DEF Alone!Unheard, Alone!chainVars
  <2>2. queue' \in {<<>>, <<"a">>} /\ dialogue' = "none"
    BY <2>1 DEF SoloPage
  <2> QED BY <1>1, <2>1, <2>2, SoloEnd
<1>13. CASE Alone!Failed("a", i)
  <2>1. /\ r.at = "failed" /\ dialogue = "a"
        /\ Alone!Show(Alone!Without(dialogue), dialogue, "error", Alone!Gone("a", i))
        /\ UNCHANGED <<here, visit, tokenAge, purchased, token>>
    BY <1>2, <1>13, AloneIs DEF Alone!Failed, Alone!chainVars, SoloPage
  <2>2. Alone!Without(dialogue) = <<>>
    BY <2>1, SoloWithout DEF SoloPage
  <2>3. queue' = <<>> /\ runs' = [runs EXCEPT !["a"] = <<>>] /\ dialogue' = "a"
    BY <1>3, <2>1, <2>2, SoloShow
  <2> QED BY <1>1, <2>1, <2>3, SoloEnd
<1>14. CASE Alone!Answered("a", i)
  <2>1. r.at = "recorded" /\ UNCHANGED <<here, visit, tokenAge, purchased, token>>
    BY <1>1, <1>2, <1>14 DEF Alone!Answered, Alone!chainVars, SoloRun
  <2>2. CASE dialogue = "a"
    <3>1. Alone!Without(dialogue) = <<>>
      BY <2>2, SoloWithout DEF SoloPage
    <3>2. Alone!Show(<<>>, "none", "success", Alone!Gone("a", i))
      BY <1>2, <1>4, <1>14, <2>1, <2>2, <3>1, AloneIs DEF Alone!Answered
    <3>3. queue' = <<>> /\ runs' = [runs EXCEPT !["a"] = <<>>] /\ dialogue' = "none"
      BY <1>3, <3>2, SoloShow
    <3> QED BY <1>1, <2>1, <3>3, SoloEnd
  <2>3. CASE dialogue = "none"
    <3>1. runs' = [runs EXCEPT !["a"] = <<>>] /\ UNCHANGED <<queue, dialogue>>
      BY <1>3, <1>14, <2>3, AloneIs DEF Alone!Answered
    <3>2. queue' \in {<<>>, <<"a">>} /\ dialogue' = "none"
      BY <2>3, <3>1 DEF SoloPage
    <3> QED BY <1>1, <2>1, <3>1, <3>2, SoloEnd
  <2> QED BY <2>2, <2>3 DEF SoloPage
<1> QED BY <1>9, <1>10, <1>11, <1>12, <1>13, <1>14 DEF Alone!RunStep

LEMMA SoloPageSteps == ASSUME SoloPage, Alone!Next PROVE SoloPage'
<1>0. \A kind : Alone!Fault(kind) => kind \in {"notify", "audit", "event", "refuse"}
  BY AloneIs DEF Alone!Fault
<1>1. CASE Alone!Propose("a")
  BY <1>1, SoloPropose
<1>2. CASE Alone!Age("a") \/ Alone!Leave \/ Alone!Return
  <2>1. here = TRUE
    BY DEF SoloPage
  <2> QED BY <1>0, <1>2, <2>1 DEF Alone!Age, Alone!Leave, Alone!Return
<1>3. ASSUME UNCHANGED <<queue, dialogue, here, visit, tokenAge, runs, purchased, token, firing>> PROVE SoloPage'
  BY <1>3, SoloStays
<1>4. CASE Alone!Press
  <2>1. /\ dialogue = "a" /\ UNCHANGED <<queue, dialogue, here, visit, tokenAge, purchased, token>>
        /\ Alone!Begin(dialogue)
    BY <1>4, AloneIs DEF Alone!Press, SoloPage, Alone!chainVars
  <2> QED BY <2>1, SoloBegin
<1>5. ASSUME Alone!Show(Alone!Without(dialogue), "none", modal, runs), dialogue = "a",
             UNCHANGED <<here, visit, tokenAge, purchased, token, firing>>
      PROVE  SoloPage'
  <2>1. Alone!Without(dialogue) = <<>>
    BY <1>5, SoloWithout DEF SoloPage
  <2>2. queue' = <<>> /\ runs' = runs /\ dialogue' = "none"
    BY <1>5, <2>1, SoloShow
  <2> QED BY <1>5, <2>2, SoloStays
<1>6. CASE Alone!Cancel
  BY <1>5, <1>6, AloneIs DEF Alone!Cancel, Alone!chainVars, SoloPage
<1>7. ASSUME NEW kind, Alone!Deliver(kind, "a") PROVE SoloPage'
  <2>1. UNCHANGED <<here, visit, tokenAge, purchased, token>>
    BY <1>7 DEF Alone!Deliver, Alone!chainVars
  <2>2. \/ UNCHANGED <<queue, dialogue, runs, firing>>
        \/ dialogue = "a" /\ Alone!Begin(dialogue) /\ UNCHANGED <<queue, dialogue>>
        \/ dialogue = "a" /\ Alone!Show(Alone!Without(dialogue), "none", modal, runs) /\ UNCHANGED firing
    BY <1>7, AloneIs DEF Alone!Deliver, Alone!Heeded
  <2> QED BY <1>3, <1>5, <2>1, <2>2, SoloBegin
<1>8. ASSUME NEW i \in DOMAIN runs["a"], Alone!RunStep("a", i) PROVE SoloPage'
  BY <1>8, SoloRunStep
<1>9. CASE \/ Alone!UseDashboard \/ Alone!Lookup \/ \E e \in events : Alone!LoseEvent(e)
           \/ \E kind : Alone!Taps("a", kind)
           \/ Alone!TapInVain("a") \/ Alone!Confirm("a") \/ Alone!Deny("a")
  BY <1>3, <1>9 DEF Alone!UseDashboard, Alone!Lookup, Alone!LoseEvent, Alone!Taps, Alone!TapInline,
       Alone!TapMiniApp, Alone!TapPage, Alone!Asks, Alone!TapInVain, Alone!Confirm, Alone!Deny, Alone!Apply,
       Alone!pageVars, Alone!botVars, Alone!chainVars
<1> QED BY <1>1, <1>2, <1>4, <1>6, <1>7, <1>8, <1>9, AloneIs DEF Alone!Next, Alone!Delivers, Alone!RunSteps

LEMMA SoloAnswerSteps == ASSUME AloneInv, Alone!Next PROVE SoloAnswers'
<1>0. /\ SoloAnswers /\ DOMAIN token = {"a"} /\ tokenAge["a"] = 0
      /\ row \in [{"a"} -> {"none", "pending", "confirmed", "denied", "expired"}] /\ DOMAIN verdicts = {"a"}
  BY DEF AloneInv, SoloPage, SoloAnswers
<1>1. ASSUME UNCHANGED <<row, verdicts>>, token'["a"] = "none" => token["a"] = "none" PROVE SoloAnswers'
  BY <1>0, <1>1 DEF SoloAnswers
<1>2. CASE Alone!Propose("a")
  <2>1. /\ token["a"] = "none" /\ row["a"] = "none" /\ verdicts' = verdicts /\ verdicts["a"] = {}
        /\ row' = [row EXCEPT !["a"] = "pending"] /\ token' = [token EXCEPT !["a"] = "live"]
    BY <1>0, <1>2, AloneIs DEF Alone!Propose, Alone!Minted, SoloAnswers
  <2> QED BY <1>0, <2>1 DEF SoloAnswers
<1>3. ASSUME row' = Alone!Swept, UNCHANGED <<verdicts, token>> PROVE SoloAnswers'
  <2>1. row' = [b \in {"a"} |-> IF row[b] = "pending" /\ tokenAge[b] = 2 THEN "expired" ELSE row[b]]
    BY <1>3, AloneIs DEF Alone!Swept
  <2>2. row'["a"] = row["a"] /\ row' \in [{"a"} -> {"none", "pending", "confirmed", "denied", "expired"}]
    BY <1>0, <2>1
  <2> QED BY <1>0, <1>3, <2>2 DEF SoloAnswers
<1>4. CASE Alone!Lookup \/ \E kind : Alone!Taps("a", kind)
  BY <1>3, <1>4 DEF Alone!Lookup, Alone!Taps, Alone!TapInline, Alone!TapMiniApp, Alone!TapPage, Alone!Asks,
       Alone!chainVars
<1>5. CASE Alone!Confirm("a") \/ Alone!Deny("a")
  <2>1. PICK kind, to : /\ Alone!Apply("a", kind, to)
                        /\ (kind = "confirm" /\ to = "confirmed") \/ (kind = "deny" /\ to = "denied")
    BY <1>5 DEF Alone!Confirm, Alone!Deny
  <2>2. token' = token
    BY <2>1 DEF Alone!Apply, Alone!chainVars
  <2>3. CASE UNCHANGED <<row, verdicts>>
    BY <1>1, <2>2, <2>3
  <2>4. CASE /\ row["a"] = "pending" /\ row' = [row EXCEPT !["a"] = to]
             /\ verdicts' = verdicts \/ verdicts' = [verdicts EXCEPT !["a"] = verdicts["a"] \cup {kind}]
    <3>1. verdicts["a"] = {} /\ token["a"] # "none"
      BY <1>0, <2>4 DEF SoloAnswers
    <3>2. DOMAIN verdicts' = {"a"} /\ verdicts'["a"] \in {{}, {kind}}
      BY <1>0, <2>4, <3>1
    <3>3. row'["a"] = to /\ row' \in [{"a"} -> {"none", "pending", "confirmed", "denied", "expired"}]
      BY <1>0, <2>1, <2>4
    <3> QED BY <2>1, <2>2, <3>1, <3>2, <3>3 DEF SoloAnswers
  <2> QED BY <2>1, <2>3, <2>4 DEF Alone!Apply, Alone!StillOpen
<1>6. ASSUME NEW i \in DOMAIN runs["a"], Alone!RunStep("a", i) PROVE SoloAnswers'
  <2>1. UNCHANGED <<row, verdicts>>
    BY <1>6 DEF Alone!RunStep, Alone!Ends, Alone!Unheard, Alone!Failed, Alone!Reports, Alone!Commit,
                Alone!Answered, Alone!botVars
  <2>2. token' = token \/ \E t : token' = [token EXCEPT ![t] = "used"]
    BY <1>6 DEF Alone!RunStep, Alone!Ends, Alone!Unheard, Alone!Failed, Alone!Reports, Alone!Commit,
                Alone!Answered, Alone!chainVars
  <2> QED BY <1>0, <1>1, <2>1, <2>2
<1>7. CASE \/ Alone!Age("a") \/ Alone!UseDashboard \/ Alone!Press \/ Alone!Cancel \/ Alone!Leave \/ Alone!Return
           \/ \E e \in events : Alone!LoseEvent(e)
           \/ \E kind : Alone!Deliver(kind, "a")
           \/ Alone!TapInVain("a")
  <2>1. UNCHANGED <<row, verdicts, token>>
    BY <1>7 DEF Alone!Age, Alone!UseDashboard, Alone!Press, Alone!Cancel, Alone!Leave, Alone!Return,
                Alone!LoseEvent, Alone!Deliver, Alone!TapInVain, Alone!botVars, Alone!chainVars
  <2> QED BY <1>1, <2>1
<1> QED BY <1>2, <1>4, <1>5, <1>6, <1>7, AloneIs DEF Alone!Next, Alone!Delivers, Alone!RunSteps

LEMMA AloneStarts == ASSUME Alone!Init PROVE AloneInv
<1>1. /\ queue = <<>> /\ dialogue = "none" /\ here = TRUE /\ visit = 0
      /\ runs = [b \in {"a"} |-> <<>>] /\ row = [b \in {"a"} |-> "none"] /\ verdicts = [b \in {"a"} |-> {}]
      /\ token = [b \in {"a"} |-> "none"] /\ tokenAge = [b \in {"a"} |-> 0] /\ purchased = [b \in {"a"} |-> 0]
  BY AloneIs DEF Alone!Init
<1>2. Undecided
  BY <1>1 DEF Undecided
<1> QED BY <1>1, <1>2 DEF AloneInv, SoloPage, SoloAnswers

LEMMA AloneStutters == ASSUME AloneInv, UNCHANGED agentVars PROVE AloneInv'
<1>1. SoloPage'
  BY SoloStays DEF AloneInv, agentVars
<1>2. SoloAnswers'
  BY DEF AloneInv, agentVars, SoloAnswers
<1> QED BY <1>1, <1>2 DEF AloneInv

LEMMA AloneKeepsItsWord == ASSUME AloneInv PROVE Alone!OneVerdict /\ Alone!BoughtOnce
<1>1. purchased["a"] \in {0, 1}
  BY DEF AloneInv, SoloPage, Undecided, Settled, Running
<1>2. Alone!Cardinality(verdicts["a"]) <= 1
  <2>1. verdicts["a"] = {} \/ \E kind : verdicts["a"] = {kind}
    BY DEF AloneInv, SoloAnswers
  <2>2. Cardinality(verdicts["a"]) <= 1
    <3>1. CASE verdicts["a"] = {}
      BY <3>1, FS_EmptySet
    <3>2. ASSUME NEW kind, verdicts["a"] = {kind} PROVE Cardinality(verdicts["a"]) <= 1
      <4>1. Cardinality({kind}) = 1
        BY FS_Singleton
      <4> QED BY <3>2, <4>1
    <3> QED BY <2>1, <3>1, <3>2
  <2> QED BY <2>2, Zenon DEF Alone!Cardinality, Cardinality
<1>3. /\ "confirm" \in verdicts["a"] => row["a"] = "confirmed"
      /\ "deny" \in verdicts["a"] => row["a"] = "denied"
  BY DEF AloneInv, SoloAnswers
<1> QED BY <1>1, <1>2, <1>3, AloneIs DEF Alone!OneVerdict, Alone!BoughtOnce

PurchasesInv == (part = "agent" => AgentInv /\ Judged) /\ (part = "alone" => AloneInv)

\* A proposal is bought by one run of a mounting of the page at a time, only if
\* somebody asked for it, a token is spent with one purchase, and an intent has
\* one verdict, whatever the order in which buttons, events, answers, expiries
\* and mountings of the page come; and of a proposal followed alone, without a
\* fault that repeats a purchase, there is one purchase.
THEOREM BoughtAsAskedAlways == Services => []BoughtAsAsked
<1>1. ServicesInit => PurchasesInv
  BY AgentStarts, JudgedStarts, AloneStarts DEF ServicesInit, PurchasesInv
<1>2. PurchasesInv /\ [ServicesNext]_servicesVars => PurchasesInv'
  <2> SUFFICES ASSUME PurchasesInv, [ServicesNext]_servicesVars PROVE PurchasesInv'
    OBVIOUS
  <2>1. part' = part
    BY DEF ServicesNext, Follows, servicesVars
  <2>2. ASSUME part = "agent" PROVE AgentInv' /\ Judged'
    <3>1. UNCHANGED agentVars \/ Agent!Next
      BY <2>2 DEF ServicesNext, Follows, Rest, servicesVars
    <3>2. AgentInv /\ Judged
      BY <2>2 DEF PurchasesInv
    <3> QED BY <3>1, <3>2, AgentSteps, AgentStutters, JudgedSteps, JudgedStutters
  <2>3. ASSUME part = "alone" PROVE AloneInv'
    <3>1. UNCHANGED agentVars \/ Alone!Next
      BY <2>3 DEF ServicesNext, Follows, Rest, servicesVars
    <3>2. AloneInv
      BY <2>3 DEF PurchasesInv
    <3>3. CASE UNCHANGED agentVars
      BY <3>2, <3>3, AloneStutters
    <3>4. CASE Alone!Next
      BY <3>2, <3>4, SoloPageSteps, SoloAnswerSteps DEF AloneInv
    <3> QED BY <3>1, <3>3, <3>4
  <2> QED BY <2>1, <2>2, <2>3 DEF PurchasesInv
<1>3. PurchasesInv => BoughtAsAsked
  <2>1. AgentInv => Agent!OneRunner /\ Agent!BoughtWasAsked /\ Agent!TokenSpentOnce
    BY LinkedAreBuys DEF AgentInv, Lock, OneEach, WasWanted, Spent, Agent!OneRunner, Agent!BoughtWasAsked, Proposals
  <2> QED BY <2>1, JudgedIsOneVerdict, AloneKeepsItsWord DEF PurchasesInv, BoughtAsAsked
<1> QED BY <1>1, <1>2, <1>3, PTL DEF Services

-----------------------------------------------------------------------------
(* Scoped sessions: their types need no assumption on who holds the keys *)

SessionsFit(c) ==
  /\ sessionRows \in Seq(SessionRow) /\ Len(sessionRows) <= c.MaxSessions
  /\ \A s \in DOMAIN sessionRows : sessionRows[s].status = "active" => s = Len(sessionRows)
  /\ overdue \subseteq DOMAIN sessionRows
  /\ draft \in [at : {"none", "signed", "reveal"}, nonce : Nat, s : Nat]
  /\ draft.at = "reveal" => draft.s \in DOMAIN sessionRows
  /\ draft.at = "signed" => Len(sessionRows) < c.MaxSessions
  /\ key \in [c.Brokers -> {0} \cup DOMAIN sessionRows]
  /\ mishaps \in 0 .. c.MaxFaults

SessionChainFits(c) ==
  /\ installed \subseteq DOMAIN sessionRows /\ accountNonce = Cardinality(installed)
  /\ callbacks \in [c.Brokers -> SUBSET installed]
  /\ indexer \in [anchored : BOOLEAN, logs : SUBSET installed]

\* An attempt names a session as soon as it has one, and has landed only under
\* a permission that is on the account.
AttemptFits(a) ==
  /\ a \in Attempt
  /\ a.s \in {0} \cup DOMAIN sessionRows /\ a.seen \in {0} \cup DOMAIN sessionRows
  /\ a.at \notin {"idle", "sync"} => a.s \in DOMAIN sessionRows
  /\ a.at = "landed" => a.s \in installed

AttemptsFit(c) ==
  /\ snapshots \in [c.Brokers -> SUBSET DOMAIN sessionRows]
  /\ clients \in [Session(c)!Clients -> Attempt]
  /\ \A k \in Session(c)!Clients : AttemptFits(clients[k])
  /\ mempool \subseteq Operation(c)
  /\ \A o \in mempool : o.s \in DOMAIN sessionRows /\ o.seen \in {0} \cup DOMAIN sessionRows

SessionKept(c) == SessionsFit(c) /\ SessionChainFits(c) /\ AttemptsFit(c)

LEMMA SessionKeptStarts ==
  ASSUME NEW c, Session(c)!SessionAssumption, Session(c)!Init PROVE SessionKept(c)
<1>1. c.MaxSessions \in Nat /\ c.MaxFaults \in Nat
  BY DEF Session!SessionAssumption
<1>2. SessionsFit(c)
  BY <1>1 DEF Session!Init, SessionsFit, Session!NoDraft
<1>3. SessionChainFits(c)
  BY FS_EmptySet DEF Session!Init, SessionChainFits
<1>4. Session(c)!Idle \in Attempt
  BY DEF Session!Idle, Attempt, Phases
<1>5. AttemptFits(Session(c)!Idle)
  BY <1>4 DEF AttemptFits, Session!Idle
<1>6. AttemptsFit(c)
  BY <1>4, <1>5 DEF Session!Init, AttemptsFit
<1> QED BY <1>2, <1>3, <1>6 DEF SessionKept

LEMMA SessionRowsFinite ==
  ASSUME NEW c, SessionKept(c) PROVE IsFiniteSet(installed) /\ Cardinality(installed) \in Nat
<1>1. DOMAIN sessionRows = 1 .. Len(sessionRows) /\ Len(sessionRows) \in Int /\ installed \subseteq 1 .. Len(sessionRows)
  BY DEF SessionKept, SessionsFit, SessionChainFits
<1>2. IsFiniteSet(1 .. Len(sessionRows))
  BY <1>1, FS_Interval
<1>3. IsFiniteSet(installed)
  BY <1>1, <1>2, FS_Subset
<1> QED BY <1>3, FS_CardinalityType

\* Sessions that are added leave what the attempts and the chain say.
LEMMA SessionsGrow ==
  ASSUME NEW c, SessionChainFits(c), AttemptsFit(c), DOMAIN sessionRows \subseteq DOMAIN sessionRows',
         UNCHANGED <<snapshots, clients, mempool, installed, accountNonce, callbacks, indexer>>
  PROVE  SessionChainFits(c)' /\ AttemptsFit(c)'
<1>1. SessionChainFits(c)'
  BY DEF SessionChainFits
<1>2. ASSUME NEW k \in Session(c)!Clients PROVE AttemptFits(clients[k])'
  <2>1. AttemptFits(clients[k]) /\ clients'[k] = clients[k]
    BY DEF AttemptsFit
  <2> QED BY <2>1 DEF AttemptFits
<1>3. AttemptsFit(c)'
  BY <1>2 DEF AttemptsFit, Session!Clients, Operation
<1> QED BY <1>1, <1>3

LEMMA SignFits ==
  ASSUME NEW c, Session(c)!SessionAssumption, SessionKept(c), Session(c)!Sign PROVE SessionKept(c)'
<1>1. accountNonce \in Nat
  BY SessionRowsFinite DEF SessionKept, SessionChainFits
<1>2. SessionsFit(c)'
  BY <1>1 DEF SessionKept, SessionsFit, Session!Sign
<1> QED BY <1>2, SessionsGrow DEF SessionKept, Session!Sign

LEMMA MintFits ==
  ASSUME NEW c, Session(c)!SessionAssumption, SessionKept(c), Session(c)!Mint PROVE SessionKept(c)'
<1> DEFINE swept == Session(c)!Sweep
           new == [status |-> "active", enable |-> "pending", nonce |-> draft.nonce]
<1>1. /\ sessionRows \in Seq(SessionRow) /\ draft \in [at : {"none", "signed", "reveal"}, nonce : Nat, s : Nat]
      /\ draft.at = "signed" /\ Session(c)!LatestActive = {} /\ sessionRows' = Append(swept, new)
      /\ UNCHANGED <<overdue, key, snapshots, clients, mempool, installed, accountNonce, callbacks, indexer>>
      /\ \/ draft' = [at |-> "reveal", nonce |-> 0, s |-> Len(sessionRows) + 1] /\ mishaps' = mishaps
         \/ draft' = [at |-> "none", nonce |-> 0, s |-> 0] /\ mishaps' = mishaps + 1 /\ mishaps < c.MaxFaults
  BY DEF SessionKept, SessionsFit, Session!Mint, Session!NoDraft, Session!Fault
<1>2. /\ swept \in Seq(SessionRow) /\ Len(swept) = Len(sessionRows)
      /\ \A s \in DOMAIN sessionRows : swept[s].status # "active"
  <2>1. ASSUME NEW s \in DOMAIN sessionRows PROVE swept[s] \in SessionRow /\ swept[s].status # "active"
    <3>1. sessionRows[s] \in SessionRow /\ ~(sessionRows[s].status = "active" /\ s \notin overdue)
      BY <1>1 DEF Session!LatestActive
    <3>2. ASSUME NEW r \in SessionRow
          PROVE  [r EXCEPT !.status = "expired"] \in SessionRow /\ [r EXCEPT !.status = "expired"].status = "expired"
      BY DEF SessionRow
    <3> QED BY <3>1, <3>2 DEF Session!Sweep
  <2>2. Len(sessionRows) \in Nat /\ DOMAIN sessionRows = 1 .. Len(sessionRows)
    BY <1>1
  <2>3. swept \in [1 .. Len(sessionRows) -> SessionRow]
    BY <2>1, <2>2 DEF Session!Sweep
  <2> QED BY <2>1, <2>2, <2>3
<1>3. new \in SessionRow
  BY <1>1 DEF SessionRow
<1> HIDE DEF swept, new
<1>4. /\ sessionRows' \in Seq(SessionRow) /\ Len(sessionRows') = Len(sessionRows) + 1 /\ Len(sessionRows) \in Nat
      /\ \A s \in DOMAIN sessionRows : sessionRows'[s] = swept[s] /\ s \in DOMAIN sessionRows'
      /\ \A s \in DOMAIN sessionRows' : s \in DOMAIN sessionRows \/ s = Len(sessionRows) + 1
      /\ Len(sessionRows) + 1 \in DOMAIN sessionRows'
  BY <1>1, <1>2, <1>3
<1>5. /\ Len(sessionRows) < c.MaxSessions /\ overdue \subseteq DOMAIN sessionRows
      /\ key \in [c.Brokers -> {0} \cup DOMAIN sessionRows] /\ mishaps \in 0 .. c.MaxFaults
      /\ c.MaxSessions \in Nat /\ c.MaxFaults \in Nat
  BY <1>1 DEF SessionKept, SessionsFit, Session!SessionAssumption
<1>6. /\ draft' \in [at : {"none", "signed", "reveal"}, nonce : Nat, s : Nat] /\ draft'.at # "signed"
      /\ draft'.at = "reveal" => draft'.s \in DOMAIN sessionRows'
  BY <1>1, <1>4
<1>7. \A s \in DOMAIN sessionRows' : sessionRows'[s].status = "active" => s = Len(sessionRows')
  BY <1>2, <1>4
<1>8. SessionsFit(c)'
  <2>1. Len(sessionRows') <= c.MaxSessions /\ mishaps' \in 0 .. c.MaxFaults
    BY <1>1, <1>4, <1>5
  <2>2. overdue' \subseteq DOMAIN sessionRows' /\ key' \in [c.Brokers -> {0} \cup DOMAIN sessionRows']
    BY <1>1, <1>4, <1>5
  <2> QED BY <1>4, <1>6, <1>7, <2>1, <2>2 DEF SessionsFit
<1> QED BY <1>1, <1>4, <1>8, SessionsGrow DEF SessionKept

LEMMA PasteFits ==
  ASSUME NEW c, SessionKept(c), NEW b \in c.Brokers, Session(c)!Paste(b) PROVE SessionKept(c)'
<1>1. SessionsFit(c)'
  BY DEF SessionKept, SessionsFit, Session!Paste, Session!NoDraft
<1>2. SessionChainFits(c)'
  BY DEF SessionKept, SessionChainFits, Session!Paste
<1>3. UNCHANGED <<sessionRows, snapshots, clients, mempool, installed>>
  BY DEF Session!Paste
<1>4. AttemptsFit(c)'
  BY <1>3 DEF SessionKept, AttemptsFit, AttemptFits, Session!Clients, Operation
<1> QED BY <1>1, <1>2, <1>4 DEF SessionKept

\* Rows change what they say, and none becomes active again.
LEMMA RowsFit ==
  ASSUME NEW c, SessionKept(c), sessionRows' \in Seq(SessionRow), Len(sessionRows') = Len(sessionRows),
         \A s \in DOMAIN sessionRows : sessionRows'[s].status = "active" => sessionRows[s].status = "active",
         overdue' \subseteq DOMAIN sessionRows, UNCHANGED <<draft, key, snapshots, clients, mempool, installed, accountNonce>>,
         callbacks' \in [c.Brokers -> SUBSET installed], indexer' \in [anchored : BOOLEAN, logs : SUBSET installed],
         mishaps' \in 0 .. c.MaxFaults
  PROVE  SessionKept(c)'
<1>1. DOMAIN sessionRows' = DOMAIN sessionRows
  BY DEF SessionKept, SessionsFit
<1>2. SessionsFit(c)'
  BY <1>1 DEF SessionKept, SessionsFit
<1>3. SessionChainFits(c)'
  BY <1>1 DEF SessionKept, SessionChainFits
<1>4. AttemptsFit(c)'
  BY <1>1 DEF SessionKept, AttemptsFit, AttemptFits, Session!Clients, Operation
<1> QED BY <1>2, <1>3, <1>4 DEF SessionKept

LEMMA SessionFacts ==
  ASSUME NEW c, Session(c)!SessionAssumption, SessionKept(c)
  PROVE  /\ sessionRows \in Seq(SessionRow) /\ overdue \subseteq DOMAIN sessionRows /\ installed \subseteq DOMAIN sessionRows
         /\ callbacks \in [c.Brokers -> SUBSET installed] /\ indexer \in [anchored : BOOLEAN, logs : SUBSET installed]
         /\ snapshots \in [c.Brokers -> SUBSET DOMAIN sessionRows]
         /\ mishaps \in 0 .. c.MaxFaults /\ \A kind : Session(c)!Fault(kind) => mishaps' \in 0 .. c.MaxFaults
BY DEF SessionKept, SessionsFit, SessionChainFits, AttemptsFit, Session!Fault, Session!SessionAssumption

LEMMA EntryFits ==
  ASSUME NEW c, SessionKept(c), NEW s \in DOMAIN sessionRows, NEW entry \in SessionRow,
         sessionRows' = [sessionRows EXCEPT ![s] = entry], entry.status = "active" => sessionRows[s].status = "active"
  PROVE  /\ sessionRows' \in Seq(SessionRow) /\ Len(sessionRows') = Len(sessionRows)
         /\ \A x \in DOMAIN sessionRows : sessionRows'[x].status = "active" => sessionRows[x].status = "active"
BY DEF SessionKept, SessionsFit

LEMMA EntrySets ==
  ASSUME NEW c, SessionKept(c), NEW s \in DOMAIN sessionRows,
         \/ sessionRows' = [sessionRows EXCEPT ![s].status = "revoked"]
         \/ sessionRows' = [sessionRows EXCEPT ![s].enable = "failed"]
         \/ sessionRows' = [sessionRows EXCEPT ![s].enable = "enabled"]
         \/ UNCHANGED sessionRows
  PROVE  /\ sessionRows' \in Seq(SessionRow) /\ Len(sessionRows') = Len(sessionRows)
         /\ \A x \in DOMAIN sessionRows : sessionRows'[x].status = "active" => sessionRows[x].status = "active"
<1>1. sessionRows \in Seq(SessionRow) /\ sessionRows[s] \in SessionRow
  BY DEF SessionKept, SessionsFit
<1>2. ASSUME NEW entry \in SessionRow, sessionRows' = [sessionRows EXCEPT ![s] = entry],
             entry.status = "active" => sessionRows[s].status = "active"
      PROVE  /\ sessionRows' \in Seq(SessionRow) /\ Len(sessionRows') = Len(sessionRows)
             /\ \A x \in DOMAIN sessionRows : sessionRows'[x].status = "active" => sessionRows[x].status = "active"
  BY <1>2, EntryFits
<1>3. /\ [sessionRows[s] EXCEPT !.status = "revoked"] \in SessionRow
      /\ [sessionRows[s] EXCEPT !.status = "revoked"].status = "revoked"
  BY <1>1 DEF SessionRow
<1>4. /\ [sessionRows[s] EXCEPT !.enable = "failed"] \in SessionRow
      /\ [sessionRows[s] EXCEPT !.enable = "failed"].status = sessionRows[s].status
  BY <1>1 DEF SessionRow
<1>5. /\ [sessionRows[s] EXCEPT !.enable = "enabled"] \in SessionRow
      /\ [sessionRows[s] EXCEPT !.enable = "enabled"].status = sessionRows[s].status
  BY <1>1 DEF SessionRow
<1>6. CASE sessionRows' = [sessionRows EXCEPT ![s].status = "revoked"]
  BY <1>2, <1>3, <1>6
<1>7. CASE sessionRows' = [sessionRows EXCEPT ![s].enable = "failed"]
  BY <1>2, <1>4, <1>7
<1>8. CASE sessionRows' = [sessionRows EXCEPT ![s].enable = "enabled"]
  BY <1>2, <1>5, <1>8
<1> QED BY <1>1, <1>6, <1>7, <1>8

LEMMA RowStepFits ==
  ASSUME NEW c, Session(c)!SessionAssumption, SessionKept(c), NEW s \in DOMAIN sessionRows,
         Session(c)!Revoke(s) \/ Session(c)!Expire(s) \/ Session(c)!Watchdog(s) \/ Session(c)!Tick(s)
  PROVE  SessionKept(c)'
<1>1. /\ sessionRows' \in Seq(SessionRow) /\ Len(sessionRows') = Len(sessionRows)
      /\ \A x \in DOMAIN sessionRows : sessionRows'[x].status = "active" => sessionRows[x].status = "active"
  BY EntrySets DEF Session!Revoke, Session!Expire, Session!Watchdog, Session!Tick, Session!Enabled
<1>2. UNCHANGED <<draft, key, snapshots, clients, mempool, installed, accountNonce, callbacks, mishaps>>
  BY DEF Session!Revoke, Session!Expire, Session!Watchdog, Session!Tick, Session!Rest
<1>3. overdue' \subseteq DOMAIN sessionRows
  BY SessionFacts DEF Session!Revoke, Session!Expire, Session!Watchdog, Session!Tick, Session!Rest
<1>4. indexer' \in [anchored : BOOLEAN, logs : SUBSET installed]
  BY SessionFacts DEF Session!Revoke, Session!Expire, Session!Watchdog, Session!Tick, Session!Rest
<1>5. callbacks' \in [c.Brokers -> SUBSET installed] /\ mishaps' \in 0 .. c.MaxFaults
  BY <1>2, SessionFacts
<1> QED BY <1>1, <1>2, <1>3, <1>4, <1>5, RowsFit

LEMMA CallbackFits ==
  ASSUME NEW c, Session(c)!SessionAssumption, SessionKept(c), NEW b \in c.Brokers, NEW s \in Session(c)!Id,
         Session(c)!Callback(b, s)
  PROVE  SessionKept(c)'
<1>1. s \in installed /\ callbacks' \in [c.Brokers -> SUBSET installed]
  BY SessionFacts DEF Session!Callback
<1>2. s \in DOMAIN sessionRows
  BY <1>1, SessionFacts
<1>3. /\ sessionRows' \in Seq(SessionRow) /\ Len(sessionRows') = Len(sessionRows)
      /\ \A x \in DOMAIN sessionRows : sessionRows'[x].status = "active" => sessionRows[x].status = "active"
  BY <1>2, EntrySets DEF Session!Callback, Session!Enabled
<1>4. UNCHANGED <<overdue, draft, key, snapshots, clients, mempool, installed, accountNonce, indexer>>
  BY DEF Session!Callback, Session!Rest
<1>5. overdue' \subseteq DOMAIN sessionRows /\ indexer' \in [anchored : BOOLEAN, logs : SUBSET installed]
  BY <1>4, SessionFacts
<1>6. mishaps' \in 0 .. c.MaxFaults
  BY SessionFacts DEF Session!Callback
<1> QED BY <1>1, <1>3, <1>4, <1>5, <1>6, RowsFit

LEMMA CursorFits ==
  ASSUME NEW c, Session(c)!SessionAssumption, SessionKept(c), Session(c)!Anchor \/ Session(c)!Restart
  PROVE  SessionKept(c)'
<1>1. indexer' \in [anchored : BOOLEAN, logs : SUBSET installed] /\ mishaps' \in 0 .. c.MaxFaults
  <2>1. indexer \in [anchored : BOOLEAN, logs : SUBSET installed]
    BY SessionFacts
  <2>2. CASE Session(c)!Anchor
    <3>1. indexer' = [indexer EXCEPT !.anchored = TRUE] /\ mishaps' = mishaps
      BY <2>2 DEF Session!Anchor
    <3> QED BY <2>1, <3>1, SessionFacts
  <2>3. CASE Session(c)!Restart
    <3>1. indexer' = [anchored |-> FALSE, logs |-> {}] /\ Session(c)!Fault("restart")
      BY <2>3 DEF Session!Restart
    <3> QED BY <3>1, SessionFacts
  <2> QED BY <2>2, <2>3
<1>2. UNCHANGED <<sessionRows, callbacks, overdue, draft, key, snapshots, clients, mempool, installed, accountNonce>>
  BY DEF Session!Anchor, Session!Restart, Session!Rest
<1> QED BY <1>1, <1>2, SessionFacts, RowsFit

\* One lemma for the steps of an attempt: it goes on as another that fits.
LEMMA AttemptStepFits ==
  ASSUME NEW c, Session(c)!SessionAssumption, SessionKept(c), NEW k \in Session(c)!Clients,
         NEW next, AttemptFits(next), clients' = [clients EXCEPT ![k] = next],
         UNCHANGED <<sessionRows, overdue, draft, key, installed, accountNonce, indexer>>,
         snapshots' \in [c.Brokers -> SUBSET DOMAIN sessionRows], callbacks' \in [c.Brokers -> SUBSET installed],
         \A o \in mempool' : o \in mempool \/ (o \in Operation(c) /\ o.s \in DOMAIN sessionRows
                                                /\ o.seen \in {0} \cup DOMAIN sessionRows),
         mishaps' \in 0 .. c.MaxFaults
  PROVE  SessionKept(c)'
<1>1. SessionsFit(c)' /\ SessionChainFits(c)'
  BY DEF SessionKept, SessionsFit, SessionChainFits
<1>2. /\ clients \in [Session(c)!Clients -> Attempt] /\ next \in Attempt
      /\ \A x \in Session(c)!Clients : AttemptFits(clients[x])
  BY DEF SessionKept, AttemptsFit, AttemptFits
<1>3. ASSUME NEW x \in Session(c)!Clients PROVE AttemptFits(clients[x])'
  <2>1. clients'[x] = next \/ clients'[x] = clients[x]
    BY <1>2
  <2> QED BY <1>2, <2>1 DEF AttemptFits
<1>4. clients' \in [Session(c)!Clients -> Attempt]
  BY <1>2
<1>5. /\ mempool' \subseteq Operation(c)
      /\ \A o \in mempool' : o.s \in DOMAIN sessionRows /\ o.seen \in {0} \cup DOMAIN sessionRows
  BY DEF SessionKept, AttemptsFit
<1>6. (Session(c)!Clients)' = Session(c)!Clients /\ Operation(c)' = Operation(c) /\ DOMAIN sessionRows' = DOMAIN sessionRows
  BY DEF Session!Clients, Operation
<1>7. AttemptsFit(c)'
  BY <1>3, <1>4, <1>5, <1>6 DEF AttemptsFit
<1> QED BY <1>1, <1>7 DEF SessionKept

LEMMA AttemptNow ==
  ASSUME NEW c, Session(c)!SessionAssumption, SessionKept(c), NEW k \in Session(c)!Clients
  PROVE  k[1] \in c.Brokers /\ AttemptFits(clients[k]) /\ clients[k] \in Attempt /\ AttemptFits(Session(c)!Idle)
<1>1. Session(c)!Idle \in Attempt
  BY DEF Session!Idle, Attempt, Phases
<1> QED BY <1>1 DEF SessionKept, AttemptsFit, AttemptFits, Session!Clients, Session!Idle

LEMMA AttemptEnds ==
  ASSUME NEW c, Session(c)!SessionAssumption, SessionKept(c), NEW k \in Session(c)!Clients, Session(c)!Ends(k)
  PROVE  \E next : AttemptFits(next) /\ clients' = [clients EXCEPT ![k] = next]
BY AttemptNow DEF Session!Ends

LEMMA AttemptGoes ==
  ASSUME NEW c, Session(c)!SessionAssumption, SessionKept(c), NEW k \in Session(c)!Clients,
         NEW at \in Phases \ {"landed"}, at = "sync" \/ clients[k].at \notin {"idle", "sync"}, Session(c)!Goes(k, at)
  PROVE  \E next : AttemptFits(next) /\ clients' = [clients EXCEPT ![k] = next]
<1> DEFINE next == [clients[k] EXCEPT !.at = at]
<1>1. clients[k] \in Attempt /\ AttemptFits(clients[k])
  BY AttemptNow
<1>2. next \in Attempt /\ next.at = at /\ next.s = clients[k].s /\ next.seen = clients[k].seen
  BY <1>1 DEF Attempt, Phases
<1>3. AttemptFits(next)
  BY <1>1, <1>2 DEF AttemptFits
<1> QED BY <1>3 DEF Session!Goes

LEMMA AttemptTakes ==
  ASSUME NEW c, Session(c)!SessionAssumption, SessionKept(c), NEW k \in Session(c)!Clients,
         NEW at \in Phases \ {"landed"}, NEW s \in DOMAIN sessionRows,
         clients' = [clients EXCEPT ![k] = [Session(c)!Idle EXCEPT !.at = at, !.s = s]]
  PROVE  \E next : AttemptFits(next) /\ clients' = [clients EXCEPT ![k] = next]
<1>1. ASSUME NEW a \in Attempt, NEW n \in Nat
      PROVE  LET next == [a EXCEPT !.at = at, !.s = n]
             IN  next \in Attempt /\ next.at = at /\ next.s = n /\ next.seen = a.seen
  BY DEF Attempt
<1>2. Session(c)!Idle \in Attempt /\ Session(c)!Idle.seen = 0
  BY DEF Session!Idle, Attempt, Phases
<1>3. s \in Nat
  BY SessionFacts
<1> DEFINE next == [Session(c)!Idle EXCEPT !.at = at, !.s = s]
<1>4. next \in Attempt /\ next.at = at /\ next.s = s /\ next.seen = 0
  BY <1>1, <1>2, <1>3
<1> HIDE DEF next
<1>5. AttemptFits(next)
  BY <1>4 DEF AttemptFits
<1> QED BY <1>5 DEF next

LEMMA AttemptReads ==
  ASSUME NEW c, Session(c)!SessionAssumption, SessionKept(c), NEW k \in Session(c)!Clients,
         clients[k].at = "gate", NEW at \in Phases \ {"landed"}, NEW s \in {0} \cup DOMAIN sessionRows, NEW enable \in BOOLEAN,
         Session(c)!Reads(k, s, at, enable)
  PROVE  \E next : AttemptFits(next) /\ clients' = [clients EXCEPT ![k] = next]
<1> DEFINE next == [clients[k] EXCEPT !.at = at, !.seen = s, !.enable = enable]
<1>1. clients[k] \in Attempt /\ AttemptFits(clients[k]) /\ s \in Nat
  BY AttemptNow, SessionFacts
<1>2. next \in Attempt /\ next.at = at /\ next.s = clients[k].s /\ next.seen = s
  BY <1>1 DEF Attempt
<1>3. AttemptFits(next)
  BY <1>1, <1>2 DEF AttemptFits
<1> QED BY <1>3 DEF Session!Reads

\* The steps that only read, or keep a snapshot.
LEMMA AttemptQuiet ==
  ASSUME NEW c, Session(c)!SessionAssumption, SessionKept(c), NEW k \in Session(c)!Clients,
         \E next : AttemptFits(next) /\ clients' = [clients EXCEPT ![k] = next],
         Session(c)!Untouched, snapshots' \in [c.Brokers -> SUBSET DOMAIN sessionRows],
         UNCHANGED <<mempool, callbacks>>, mishaps' \in 0 .. c.MaxFaults
  PROVE  SessionKept(c)'
<1>1. UNCHANGED <<sessionRows, overdue, draft, key, installed, accountNonce, indexer>>
  BY DEF Session!Untouched
<1>2. callbacks' \in [c.Brokers -> SUBSET installed] /\ \A o \in mempool' : o \in mempool
  BY SessionFacts
<1> QED BY <1>1, <1>2, AttemptStepFits

LEMMA ProbeFits ==
  ASSUME NEW c, Session(c)!SessionAssumption, SessionKept(c), NEW k \in Session(c)!Clients, Session(c)!Probe(k)
  PROVE  SessionKept(c)'
<1>1. \A s \in Session(c)!ActiveSnapshot(k[1]) : s \in DOMAIN sessionRows
  BY AttemptNow, SessionFacts DEF Session!ActiveSnapshot
<1>2. \E next : AttemptFits(next) /\ clients' = [clients EXCEPT ![k] = next]
  <2>1. ASSUME NEW s \in Session(c)!ActiveSnapshot(k[1]),
               clients' = [clients EXCEPT ![k] = [Session(c)!Idle EXCEPT !.at = "gate", !.s = s]]
        PROVE  \E next : AttemptFits(next) /\ clients' = [clients EXCEPT ![k] = next]
    <3>1. s \in DOMAIN sessionRows /\ "gate" \in Phases \ {"landed"}
      BY <1>1 DEF Phases
    <3> QED BY <2>1, <3>1, AttemptTakes
  <2>2. ASSUME Session(c)!Goes(k, "sync") PROVE \E next : AttemptFits(next) /\ clients' = [clients EXCEPT ![k] = next]
    <3>1. "sync" \in Phases \ {"landed"}
      BY DEF Phases
    <3> QED BY <2>2, <3>1, AttemptGoes
  <2> QED BY <2>1, <2>2 DEF Session!Probe
<1>3. Session(c)!Untouched /\ UNCHANGED <<snapshots, mempool, callbacks, mishaps>>
  BY DEF Session!Probe
<1> QED BY <1>2, <1>3, SessionFacts, AttemptQuiet

LEMMA SyncFits ==
  ASSUME NEW c, Session(c)!SessionAssumption, SessionKept(c), NEW k \in Session(c)!Clients, Session(c)!Sync(k)
  PROVE  SessionKept(c)'
<1>1. \E next : AttemptFits(next) /\ clients' = [clients EXCEPT ![k] = next]
  <2>1. ASSUME NEW s \in Session(c)!LatestActive \cap {key[k[1]]},
               clients' = [clients EXCEPT ![k] = [Session(c)!Idle EXCEPT !.at = "store", !.s = s]]
        PROVE  \E next : AttemptFits(next) /\ clients' = [clients EXCEPT ![k] = next]
    <3>1. s \in DOMAIN sessionRows /\ "store" \in Phases \ {"landed"}
      BY DEF Phases, Session!LatestActive
    <3> QED BY <2>1, <3>1, AttemptTakes
  <2> QED BY <2>1, AttemptEnds DEF Session!Sync
<1>2. Session(c)!Untouched /\ UNCHANGED <<snapshots, mempool, callbacks>> /\ mishaps' \in 0 .. c.MaxFaults
  BY SessionFacts DEF Session!Sync
<1> QED BY <1>1, <1>2, SessionFacts, AttemptQuiet

LEMMA StoreFits ==
  ASSUME NEW c, Session(c)!SessionAssumption, SessionKept(c), NEW k \in Session(c)!Clients, Session(c)!Store(k)
  PROVE  SessionKept(c)'
<1>1. clients[k].at = "store" /\ clients[k].s \in DOMAIN sessionRows /\ k[1] \in c.Brokers
  BY AttemptNow DEF Session!Store, AttemptFits
<1>2. \E next : AttemptFits(next) /\ clients' = [clients EXCEPT ![k] = next]
  <2>1. "gate" \in Phases \ {"landed"}
    BY DEF Phases
  <2> QED BY <1>1, <2>1, AttemptGoes, AttemptEnds DEF Session!Store
<1>3. snapshots' \in [c.Brokers -> SUBSET DOMAIN sessionRows]
  <2>1. snapshots \in [c.Brokers -> SUBSET DOMAIN sessionRows]
    BY SessionFacts
  <2>2. snapshots' = [snapshots EXCEPT ![k[1]] = @ \cup {clients[k].s}]
    BY DEF Session!Store
  <2> QED BY <1>1, <2>1, <2>2
<1>4. Session(c)!Untouched /\ UNCHANGED <<mempool, callbacks, mishaps>>
  BY DEF Session!Store
<1> QED BY <1>2, <1>3, <1>4, SessionFacts, AttemptQuiet

LEMMA GateFits ==
  ASSUME NEW c, Session(c)!SessionAssumption, SessionKept(c), NEW k \in Session(c)!Clients, Session(c)!Gate(k)
  PROVE  SessionKept(c)'
<1>1. Session(c)!Untouched /\ UNCHANGED <<mempool, callbacks>> /\ mishaps' \in 0 .. c.MaxFaults
  BY SessionFacts DEF Session!Gate, Session!Gone
<1>2. snapshots' \in [c.Brokers -> SUBSET DOMAIN sessionRows]
  <2>1. snapshots \in [c.Brokers -> SUBSET DOMAIN sessionRows] /\ k[1] \in c.Brokers
    BY SessionFacts, AttemptNow
  <2>2. snapshots' = snapshots \/ snapshots' = [snapshots EXCEPT ![k[1]] = @ \ {clients[k].s}]
    BY DEF Session!Gate, Session!Gone
  <2> QED BY <2>1, <2>2
<1>3. \E next : AttemptFits(next) /\ clients' = [clients EXCEPT ![k] = next]
  <2>1. clients[k].at = "gate" /\ {"shares", "install"} \subseteq Phases \ {"landed"}
    BY DEF Session!Gate, Phases
  <2>2. ASSUME NEW s \in {0} \cup DOMAIN sessionRows, NEW at \in {"shares", "install"}, NEW enable \in BOOLEAN,
               Session(c)!Reads(k, s, at, enable)
        PROVE  \E next : AttemptFits(next) /\ clients' = [clients EXCEPT ![k] = next]
    <3>1. at \in Phases \ {"landed"}
      BY <2>1
    <3> QED BY <2>1, <2>2, <3>1, AttemptReads
  <2>3. \A s \in Session(c)!LatestActive : s \in DOMAIN sessionRows
    BY DEF Session!LatestActive
  <2>4. ASSUME NEW s \in Session(c)!LatestActive, Session(c)!Compared(k, s)
        PROVE  \E next : AttemptFits(next) /\ clients' = [clients EXCEPT ![k] = next]
    <3>1. Session(c)!Reads(k, s, "install", TRUE) \/ Session(c)!Ends(k)
      BY <2>4 DEF Session!Compared
    <3> QED BY <2>2, <2>3, <3>1, AttemptEnds
  <2>5. ASSUME Session(c)!Ends(k) PROVE \E next : AttemptFits(next) /\ clients' = [clients EXCEPT ![k] = next]
    BY <2>5, AttemptEnds
  <2>6. CASE \E s \in Session(c)!LatestActive : Session(c)!Reads(k, s, "shares", FALSE) \/ Session(c)!Compared(k, s)
    BY <2>2, <2>3, <2>4, <2>6
  <2>7. CASE Session(c)!Reads(k, 0, "shares", FALSE)
    BY <2>2, <2>7
  <2> QED BY <2>5, <2>6, <2>7 DEF Session!Gate, Session!Gone
<1> QED BY <1>1, <1>2, <1>3, AttemptQuiet

LEMMA PrepareFits ==
  ASSUME NEW c, Session(c)!SessionAssumption, SessionKept(c), NEW k \in Session(c)!Clients,
         Session(c)!Install(k) \/ Session(c)!Shares(k) \/ Session(c)!Timeout(k)
  PROVE  SessionKept(c)'
<1>1. \E next : AttemptFits(next) /\ clients' = [clients EXCEPT ![k] = next]
  <2>1. {"shares", "sign"} \subseteq Phases \ {"landed"}
    BY DEF Phases
  <2>2. ASSUME NEW at \in {"shares", "sign"}, clients[k].at \notin {"idle", "sync"}, Session(c)!Goes(k, at)
        PROVE  \E next : AttemptFits(next) /\ clients' = [clients EXCEPT ![k] = next]
    <3>1. at \in Phases \ {"landed"}
      BY <2>1
    <3> QED BY <2>2, <3>1, AttemptGoes
  <2> QED BY <2>2, AttemptEnds DEF Session!Install, Session!Shares, Session!Timeout
<1>2. Session(c)!Untouched /\ UNCHANGED <<snapshots, mempool, callbacks>> /\ mishaps' \in 0 .. c.MaxFaults
  BY SessionFacts DEF Session!Install, Session!Shares, Session!Timeout
<1> QED BY <1>1, <1>2, SessionFacts, AttemptQuiet

LEMMA SubmitFits ==
  ASSUME NEW c, Session(c)!SessionAssumption, SessionKept(c), NEW k \in Session(c)!Clients, Session(c)!Submit(k)
  PROVE  SessionKept(c)'
<1> DEFINE op == [client |-> k, s |-> clients[k].s, seen |-> clients[k].seen, enable |-> clients[k].enable]
<1>1. clients[k].at = "sign" /\ AttemptFits(clients[k]) /\ clients[k] \in Attempt
  BY AttemptNow DEF Session!Submit
<1>2. \E next : AttemptFits(next) /\ clients' = [clients EXCEPT ![k] = next]
  <2>1. "waiting" \in Phases \ {"landed"}
    BY DEF Phases
  <2> QED BY <1>1, <2>1, AttemptGoes, AttemptEnds DEF Session!Submit
<1>3. op \in Operation(c) /\ op.s \in DOMAIN sessionRows /\ op.seen \in {0} \cup DOMAIN sessionRows
  BY <1>1 DEF Operation, Attempt, AttemptFits
<1>4. mempool' = mempool \/ mempool' = mempool \cup {op}
  BY DEF Session!Submit
<1> HIDE DEF op
<1>5. \A o \in mempool' : o \in mempool \/ (o \in Operation(c) /\ o.s \in DOMAIN sessionRows
                                              /\ o.seen \in {0} \cup DOMAIN sessionRows)
  BY <1>3, <1>4
<1>6. UNCHANGED <<sessionRows, overdue, draft, key, installed, accountNonce, indexer, snapshots, callbacks>>
  BY DEF Session!Submit, Session!Untouched
<1>7. mishaps' \in 0 .. c.MaxFaults
  BY SessionFacts DEF Session!Submit
<1>8. snapshots' \in [c.Brokers -> SUBSET DOMAIN sessionRows] /\ callbacks' \in [c.Brokers -> SUBSET installed]
  BY <1>6, SessionFacts
<1> QED BY <1>2, <1>5, <1>6, <1>7, <1>8, AttemptStepFits

LEMMA ReceiptFits ==
  ASSUME NEW c, Session(c)!SessionAssumption, SessionKept(c), NEW k \in Session(c)!Clients, Session(c)!Receipt(k)
  PROVE  SessionKept(c)'
<1>1. clients[k].s \in installed /\ k[1] \in c.Brokers
  BY AttemptNow DEF Session!Receipt, AttemptFits
<1>2. callbacks' \in [c.Brokers -> SUBSET installed]
  <2>1. callbacks \in [c.Brokers -> SUBSET installed]
    BY SessionFacts
  <2>2. callbacks' = callbacks \/ callbacks' = [callbacks EXCEPT ![k[1]] = @ \cup {clients[k].s}]
    BY DEF Session!Receipt
  <2> QED BY <1>1, <2>1, <2>2
<1>3. UNCHANGED <<sessionRows, overdue, draft, key, installed, accountNonce, indexer, snapshots, mempool, mishaps>>
  BY DEF Session!Receipt, Session!Untouched
<1>4. \E next : AttemptFits(next) /\ clients' = [clients EXCEPT ![k] = next]
  BY AttemptEnds DEF Session!Receipt
<1>5. snapshots' \in [c.Brokers -> SUBSET DOMAIN sessionRows] /\ mishaps' \in 0 .. c.MaxFaults
  BY <1>3, SessionFacts
<1>6. \A o \in mempool' : o \in mempool
  BY <1>3
<1> QED BY <1>2, <1>3, <1>4, <1>5, <1>6, AttemptStepFits

LEMMA LandFits ==
  ASSUME NEW c, Session(c)!SessionAssumption, SessionKept(c), NEW o \in mempool, Session(c)!Land(o)
  PROVE  SessionKept(c)'
<1> DEFINE k == o.client
<1>1. /\ k \in Session(c)!Clients /\ o.s \in DOMAIN sessionRows /\ o.enable \in BOOLEAN
      /\ clients \in [Session(c)!Clients -> Attempt]
  BY DEF SessionKept, AttemptsFit, Operation
<1>2. /\ UNCHANGED <<sessionRows, overdue, draft, key, snapshots, callbacks, mishaps>> /\ mempool' \subseteq mempool
      /\ \/ UNCHANGED <<installed, accountNonce>>
         \/ o.s \notin installed /\ installed' = installed \cup {o.s} /\ accountNonce' = accountNonce + 1
  BY <1>1 DEF Session!Land, Session!Valid
<1>3. installed \subseteq installed' /\ installed' \subseteq DOMAIN sessionRows
  BY <1>1, <1>2, SessionFacts
<1>4. accountNonce' = Cardinality(installed')
  <2>1. accountNonce = Cardinality(installed) /\ IsFiniteSet(installed)
    BY SessionRowsFinite DEF SessionKept, SessionChainFits
  <2>2. o.s \notin installed => Cardinality(installed \cup {o.s}) = Cardinality(installed) + 1
    BY <2>1, FS_AddElement
  <2> QED BY <1>2, <2>1, <2>2
<1>5. indexer' \in [anchored : BOOLEAN, logs : SUBSET installed']
  <2>1. indexer \in [anchored : BOOLEAN, logs : SUBSET installed]
    BY SessionFacts
  <2>2. CASE indexer' = indexer
    BY <1>3, <2>1, <2>2
  <2>3. CASE indexer' = [indexer EXCEPT !.logs = indexer.logs \cup {o.s}] /\ o.s \in installed'
    BY <1>3, <2>1, <2>3
  <2> QED BY <2>2, <2>3 DEF Session!Land
<1>6. \/ clients' = clients
      \/ clients' = [clients EXCEPT ![k].at = "landed"] /\ clients[k].s = o.s /\ o.s \in installed'
  BY <1>1 DEF Session!Land, Session!Valid
<1> HIDE DEF k
<1>7. ASSUME NEW x \in Session(c)!Clients PROVE AttemptFits(clients[x])' /\ clients'[x] \in Attempt
  <2>1. AttemptFits(clients[x]) /\ clients[x] \in Attempt
    BY AttemptNow
  <2>2. CASE clients'[x] = clients[x]
    BY <1>2, <1>3, <2>1, <2>2 DEF AttemptFits
  <2>3. CASE clients'[x] = [clients[x] EXCEPT !.at = "landed"] /\ clients[x].s = o.s /\ o.s \in installed'
    <3>1. clients'[x] \in Attempt /\ clients'[x].at = "landed" /\ clients'[x].s = o.s /\ clients'[x].seen = clients[x].seen
      BY <2>1, <2>3 DEF Attempt, Phases
    <3> QED BY <1>1, <1>2, <2>1, <2>3, <3>1 DEF AttemptFits
  <2> QED BY <1>1, <1>6, <2>2, <2>3
<1>8. DOMAIN clients' = Session(c)!Clients /\ clients' = [x \in Session(c)!Clients |-> clients'[x]]
  BY <1>1, <1>6
<1>9. clients' \in [Session(c)!Clients -> Attempt]
  BY <1>7, <1>8
<1>10. (Session(c)!Clients)' = Session(c)!Clients /\ Operation(c)' = Operation(c)
  BY DEF Session!Clients, Operation
<1>11. AttemptsFit(c)'
  BY <1>2, <1>7, <1>9, <1>10 DEF SessionKept, AttemptsFit
<1>12. SessionChainFits(c)'
  <2>1. callbacks' \in [c.Brokers -> SUBSET installed']
    BY <1>2, <1>3, SessionFacts
  <2> QED BY <1>2, <1>3, <1>4, <1>5, <2>1 DEF SessionChainFits
<1>13. SessionsFit(c)'
  BY <1>2 DEF SessionKept, SessionsFit
<1> QED BY <1>11, <1>12, <1>13 DEF SessionKept

LEMMA SessionKeptSteps ==
  ASSUME NEW c, Session(c)!SessionAssumption, SessionKept(c), Session(c)!Next PROVE SessionKept(c)'
<1>1. CASE Session(c)!Sign \/ Session(c)!Mint \/ Session(c)!Anchor \/ Session(c)!Restart
  BY <1>1, SignFits, MintFits, CursorFits
<1>2. ASSUME NEW b \in c.Brokers, Session(c)!Paste(b) PROVE SessionKept(c)'
  BY <1>2, PasteFits
<1>3. ASSUME NEW s \in DOMAIN sessionRows,
             Session(c)!Revoke(s) \/ Session(c)!Expire(s) \/ Session(c)!Watchdog(s) \/ Session(c)!Tick(s)
      PROVE  SessionKept(c)'
  BY <1>3, RowStepFits
<1>4. ASSUME NEW k \in Session(c)!Clients, Session(c)!Step(k) PROVE SessionKept(c)'
  BY <1>4, ProbeFits, SyncFits, StoreFits, GateFits, PrepareFits, SubmitFits, ReceiptFits DEF Session!Step
<1>5. ASSUME NEW o \in mempool, Session(c)!Land(o) PROVE SessionKept(c)'
  BY <1>5, LandFits
<1>6. ASSUME NEW b \in c.Brokers, NEW s \in Session(c)!Id, Session(c)!Callback(b, s) PROVE SessionKept(c)'
  BY <1>6, CallbackFits
<1> QED BY <1>1, <1>2, <1>3, <1>4, <1>5, <1>6 DEF Session!Next

LEMMA SessionKeptStutters ==
  ASSUME NEW c, SessionKept(c), UNCHANGED <<sessionVars, mishaps>> PROVE SessionKept(c)'
<1>1. UNCHANGED <<sessionRows, callbacks, indexer, overdue, draft, key, snapshots, clients, mempool, installed, accountNonce>>
  BY DEF sessionVars
<1> QED BY <1>1 DEF SessionKept, SessionsFit, SessionChainFits, AttemptsFit, AttemptFits, Session!Clients, Operation

LEMMA SessionCardinality == ASSUME NEW c, NEW S PROVE Session(c)!Cardinality(S) = Cardinality(S)
BY Zenon DEF Session!Cardinality, Cardinality

LEMMA SessionIsTyped ==
  ASSUME NEW c, Session(c)!SessionAssumption, SessionKept(c) PROVE Session(c)!TypeOK
<1>1. SessionsFit(c) /\ SessionChainFits(c) /\ AttemptsFit(c)
  BY DEF SessionKept
<1>2. DOMAIN sessionRows = 1 .. Len(sessionRows) /\ Len(sessionRows) \in Nat /\ Len(sessionRows) <= c.MaxSessions
      /\ c.MaxSessions \in Nat
  BY <1>1 DEF SessionsFit, Session!SessionAssumption
<1>3. Session(c)!Cardinality({s \in DOMAIN sessionRows : sessionRows[s].status = "active"}) <= 1
  <2> DEFINE live == {s \in DOMAIN sessionRows : sessionRows[s].status = "active"}
  <2>1. live \subseteq {Len(sessionRows)}
    BY <1>1 DEF SessionsFit
  <2>2. IsFiniteSet({Len(sessionRows)}) /\ Cardinality({Len(sessionRows)}) = 1
    BY FS_Singleton
  <2>3. Cardinality(live) <= 1
    BY <2>1, <2>2, FS_Subset
  <2> QED BY <2>3, SessionCardinality
<1>4. accountNonce = Session(c)!Cardinality(installed)
  BY <1>1, SessionCardinality DEF SessionChainFits
<1>5. clients \in [Session(c)!Clients -> [at : Phases, s : 0 .. c.MaxSessions, seen : 0 .. c.MaxSessions, enable : BOOLEAN]]
  <2>1. ASSUME NEW k \in Session(c)!Clients
        PROVE  clients[k] \in [at : Phases, s : 0 .. c.MaxSessions, seen : 0 .. c.MaxSessions, enable : BOOLEAN]
    BY <1>1, <1>2 DEF AttemptsFit, AttemptFits, Attempt
  <2> QED BY <1>1, <2>1 DEF AttemptsFit
<1>6. mempool \subseteq [client : Session(c)!Clients, s : Session(c)!Id, seen : 0 .. c.MaxSessions, enable : BOOLEAN]
  <2>1. ASSUME NEW o \in mempool
        PROVE  o \in [client : Session(c)!Clients, s : Session(c)!Id, seen : 0 .. c.MaxSessions, enable : BOOLEAN]
    BY <1>1, <1>2 DEF AttemptsFit, Operation, Session!Id
  <2> QED BY <2>1
<1>7. /\ sessionRows \in Seq(SessionRow) /\ overdue \subseteq DOMAIN sessionRows
      /\ draft.at \in {"none", "signed", "reveal"} /\ key \in [c.Brokers -> {0} \cup DOMAIN sessionRows]
      /\ mishaps \in 0 .. c.MaxFaults
  BY <1>1 DEF SessionsFit
<1>8. /\ installed \subseteq DOMAIN sessionRows /\ callbacks \in [c.Brokers -> SUBSET installed]
      /\ indexer.logs \subseteq installed /\ snapshots \in [c.Brokers -> SUBSET DOMAIN sessionRows]
  BY <1>1 DEF SessionChainFits, AttemptsFit
<1> QED BY <1>2, <1>3, <1>4, <1>5, <1>6, <1>7, <1>8 DEF Session!TypeOK, SessionRow, Phases

-----------------------------------------------------------------------------
(* What the reinvest runner keeps within its set *)

RunnerPhases == {"off", "boot", "write", "sleep", "epoch", "sign", "waiting", "audit"}
RunnerRec(c) ==
  [at : RunnerPhases, todo : SUBSET Reinvest(c)!Epoch, e : 0 .. c.Epochs, n : 0 .. c.MaxOps, op : 0 .. c.MaxOps, ok : BOOLEAN]
SubmittedRec(c) ==
  [id : 1 .. c.MaxOps, r : c.Runners, e : Reinvest(c)!Epoch, n : 0 .. c.MaxOps,
   state : {"pending", "done", "reverted", "dropped"}]
MinedOf(S) == {o \in S : o.state \in {"done", "reverted"}}

\* A runner that signs has an epoch, and one that waits an operation.
RunnerFits(c, p) ==
  /\ p \in RunnerRec(c)
  /\ p.at \in {"sign", "waiting", "audit"} => p.e \in Reinvest(c)!Epoch
  /\ p.at \in {"waiting", "audit"} => p.op \in 1 .. c.MaxOps

RunnersFit(c) ==
  /\ proc \in [c.Runners -> RunnerRec(c)] /\ \A r \in c.Runners : RunnerFits(c, proc[r])
  /\ cooldown \in [c.Runners -> SUBSET Reinvest(c)!Epoch]
  /\ pidfile \in c.Runners \cup {c.None, c.Stale}
  /\ pidfile \in c.Runners => proc[pidfile].at \notin {"off", "boot"}
  /\ stopper \in c.Runners \cup {c.None}

\* An operation is known by its number, and every number is of one.
OpsFit(c) ==
  /\ ops \subseteq SubmittedRec(c) /\ IsFiniteSet(ops)
  /\ \A o, p \in ops : o.id = p.id => o = p
  /\ \A o \in ops : o.id <= Cardinality(ops)
  /\ keyNonce = Cardinality(MinedOf(ops))

ClaimsFit(c) ==
  /\ BuyInv(c) /\ \A e \in Reinvest(c)!Epoch : reinvested[e] <= c.MaxOps
  /\ current \in 0 .. c.Epochs /\ expired \subseteq Reinvest(c)!Epoch /\ sweptEpochs \subseteq expired
  /\ market \in {"open", "unlisted", "shut"}
  /\ audit \subseteq [e : Reinvest(c)!Epoch, op : 1 .. c.MaxOps, tx : BOOLEAN]
  /\ mishaps \in 0 .. c.MaxFaults

ReinvestKept(c) == RunnersFit(c) /\ OpsFit(c) /\ ClaimsFit(c)

\* An epoch is funded, expires, is swept or claimed by hand, or the market turns.
Turns(c) ==
  \/ Reinvest(c)!Fund \/ Reinvest(c)!Reopen \/ \E m \in {"unlisted", "shut"} : Reinvest(c)!Close(m)
  \/ \E e \in Reinvest(c)!Epoch : Reinvest(c)!Expire(e) \/ Reinvest(c)!Sweep(e) \/ Reinvest(c)!ClaimByHand(e)

LEMMA CountedById ==
  ASSUME NEW S, IsFiniteSet(S), \A o, p \in S : o.id = p.id => o = p
  PROVE  IsFiniteSet({o.id : o \in S}) /\ Cardinality({o.id : o \in S}) = Cardinality(S)
<1> DEFINE ids == {o.id : o \in S}
           f == [o \in S |-> o.id]
<1>1. f \in Bijection(S, ids)
  BY DEF Bijection, Injection, Surjection, IsInjective
<1>2. ExistsBijection(S, ids)
  BY <1>1 DEF ExistsBijection
<1> QED BY <1>2, FS_Bijection

LEMMA OpsCounted ==
  ASSUME NEW c, Reinvest(c)!ReinvestAssumption, OpsFit(c)
  PROVE  Cardinality(ops) \in 0 .. c.MaxOps /\ keyNonce \in 0 .. Cardinality(ops)
<1>1. IsFiniteSet(ops) /\ Cardinality({o.id : o \in ops}) = Cardinality(ops)
  BY CountedById DEF OpsFit
<1>2. c.MaxOps \in Nat
  BY DEF Reinvest!ReinvestAssumption
<1>3. IsFiniteSet(1 .. c.MaxOps) /\ Cardinality(1 .. c.MaxOps) = c.MaxOps
  <2>1. 1 \in Int /\ c.MaxOps \in Int
    BY <1>2
  <2> QED BY <1>2, <2>1, FS_Interval
<1>4. {o.id : o \in ops} \subseteq 1 .. c.MaxOps
  BY DEF OpsFit, SubmittedRec
<1>5. Cardinality({o.id : o \in ops}) <= c.MaxOps
  BY <1>3, <1>4, FS_Subset
<1>6. Cardinality(ops) \in Nat
  BY <1>1, FS_CardinalityType
<1>7. MinedOf(ops) \subseteq ops
  BY DEF MinedOf
<1>8. IsFiniteSet(MinedOf(ops)) /\ Cardinality(MinedOf(ops)) <= Cardinality(ops)
  BY <1>1, <1>7, FS_Subset
<1>9. Cardinality(MinedOf(ops)) \in Nat
  BY <1>8, FS_CardinalityType
<1> QED BY <1>1, <1>2, <1>5, <1>6, <1>8, <1>9 DEF OpsFit

LEMMA ReinvestKeptStarts ==
  ASSUME NEW c, Reinvest(c)!ReinvestAssumption, Reinvest(c)!Init PROVE ReinvestKept(c)
<1>1. c.Epochs \in Nat /\ c.MaxOps \in Nat /\ c.MaxFaults \in Nat /\ c.None \notin c.Runners
  BY DEF Reinvest!ReinvestAssumption
<1>2. Reinvest(c)!Off \in RunnerRec(c) /\ Reinvest(c)!Off.at = "off"
  BY <1>1 DEF Reinvest!Off, RunnerRec, RunnerPhases
<1>3. RunnersFit(c)
  BY <1>1, <1>2 DEF Reinvest!Init, RunnersFit, RunnerFits
<1>4. OpsFit(c)
  <2>1. MinedOf({}) = {}
    BY DEF MinedOf
  <2> QED BY <2>1, FS_EmptySet DEF Reinvest!Init, OpsFit
<1>5. ClaimsFit(c)
  BY <1>1, ReinvestStarts DEF Reinvest!Init, ClaimsFit
<1> QED BY <1>3, <1>4, <1>5 DEF ReinvestKept

LEMMA RunnerGoes ==
  ASSUME NEW c, Reinvest(c)!ReinvestAssumption, RunnersFit(c), NEW r \in c.Runners, NEW next, RunnerFits(c, next),
         proc' = [proc EXCEPT ![r] = next], cooldown' \in [c.Runners -> SUBSET Reinvest(c)!Epoch], stopper' = stopper,
         pidfile' \in {pidfile, c.None, c.Stale, r}, pidfile' = r => next.at \notin {"off", "boot"}
  PROVE  RunnersFit(c)'
<1>1. proc \in [c.Runners -> RunnerRec(c)] /\ next \in RunnerRec(c)
  BY DEF RunnersFit, RunnerFits
<1>2. proc' \in [c.Runners -> RunnerRec(c)] /\ \A x \in c.Runners : proc'[x] = IF x = r THEN next ELSE proc[x]
  BY <1>1
<1>3. \A x \in c.Runners : RunnerFits(c, proc'[x])
  BY <1>2 DEF RunnersFit
<1>4. c.None \notin c.Runners /\ c.Stale \notin c.Runners
  BY DEF Reinvest!ReinvestAssumption
<1>5. pidfile' \in c.Runners => proc'[pidfile'].at \notin {"off", "boot"}
  BY <1>2, <1>4 DEF RunnersFit
<1>6. pidfile' \in c.Runners \cup {c.None, c.Stale} /\ stopper' \in c.Runners \cup {c.None}
  BY DEF RunnersFit
<1>7. RunnerRec(c)' = RunnerRec(c) /\ Reinvest(c)!Epoch' = Reinvest(c)!Epoch
  BY DEF RunnerRec, Reinvest!Epoch
<1>8. \A x \in c.Runners : RunnerFits(c, proc[x])'
  BY <1>3 DEF RunnerFits, RunnerRec, Reinvest!Epoch
<1> QED BY <1>2, <1>5, <1>6, <1>7, <1>8 DEF RunnersFit

LEMMA AccountRests ==
  ASSUME NEW c, UNCHANGED Reinvest(c)!chain PROVE UNCHANGED <<current, expired, sweptEpochs, market, claims, reinvested, keyNonce>>
BY DEF Reinvest!chain

LEMMA OpsRest == ASSUME NEW c, OpsFit(c), UNCHANGED <<ops, keyNonce>> PROVE OpsFit(c)'
BY DEF OpsFit, SubmittedRec, MinedOf, Reinvest!Epoch

LEMMA ClaimsRest ==
  ASSUME NEW c, ClaimsFit(c), UNCHANGED <<current, expired, sweptEpochs, market, claims, reinvested>>,
         mishaps' \in 0 .. c.MaxFaults,
         audit' \subseteq [e : Reinvest(c)!Epoch, op : 1 .. c.MaxOps, tx : BOOLEAN]
  PROVE  ClaimsFit(c)'
BY DEF ClaimsFit, BuyInv, Reinvest!BuyIsClaimed, Reinvest!Epoch

LEMMA ReinvestFacts ==
  ASSUME NEW c, Reinvest(c)!ReinvestAssumption, ReinvestKept(c)
  PROVE  /\ proc \in [c.Runners -> RunnerRec(c)] /\ cooldown \in [c.Runners -> SUBSET Reinvest(c)!Epoch]
         /\ audit \subseteq [e : Reinvest(c)!Epoch, op : 1 .. c.MaxOps, tx : BOOLEAN]
         /\ mishaps \in 0 .. c.MaxFaults /\ \A kind : Reinvest(c)!Fault(kind) => mishaps' \in 0 .. c.MaxFaults
         /\ keyNonce \in 0 .. c.MaxOps
<1>1. keyNonce \in 0 .. c.MaxOps
  <2>1. Cardinality(ops) \in 0 .. c.MaxOps /\ keyNonce \in 0 .. Cardinality(ops)
    BY OpsCounted DEF ReinvestKept
  <2>2. c.MaxOps \in Nat
    BY DEF Reinvest!ReinvestAssumption
  <2> QED BY <2>1, <2>2
<1> QED BY <1>1 DEF ReinvestKept, RunnersFit, ClaimsFit, Reinvest!Fault, Reinvest!ReinvestAssumption

\* A step of one runner that leaves the chain and the operations alone.
LEMMA RunnerMoves ==
  ASSUME NEW c, Reinvest(c)!ReinvestAssumption, ReinvestKept(c), NEW r \in c.Runners,
         \E next : /\ RunnerFits(c, next) /\ proc' = [proc EXCEPT ![r] = next]
                   /\ pidfile' = r => next.at \notin {"off", "boot"},
         pidfile' \in {pidfile, c.None, c.Stale, r}, cooldown' \in [c.Runners -> SUBSET Reinvest(c)!Epoch],
         stopper' = stopper, ops' = ops, UNCHANGED Reinvest(c)!chain, mishaps' \in 0 .. c.MaxFaults,
         audit' \subseteq [e : Reinvest(c)!Epoch, op : 1 .. c.MaxOps, tx : BOOLEAN]
  PROVE  ReinvestKept(c)'
<1>1. RunnersFit(c)'
  BY RunnerGoes DEF ReinvestKept
<1>2. OpsFit(c)'
  BY OpsRest, AccountRests DEF ReinvestKept
<1>3. ClaimsFit(c)'
  BY ClaimsRest, AccountRests DEF ReinvestKept
<1> QED BY <1>1, <1>2, <1>3 DEF ReinvestKept

LEMMA RunnerNow ==
  ASSUME NEW c, Reinvest(c)!ReinvestAssumption, ReinvestKept(c), NEW r \in c.Runners
  PROVE  /\ RunnerFits(c, proc[r]) /\ proc[r] \in RunnerRec(c)
         /\ RunnerFits(c, Reinvest(c)!Off) /\ Reinvest(c)!Off.at = "off"
         /\ pidfile \in c.Runners => proc[pidfile].at \notin {"off", "boot"}
         /\ c.None \notin c.Runners /\ c.Stale \notin c.Runners /\ c.Epochs \in Nat /\ c.MaxOps \in Nat
<1>1. c.Epochs \in Nat /\ c.MaxOps \in Nat /\ c.None \notin c.Runners /\ c.Stale \notin c.Runners
  BY DEF Reinvest!ReinvestAssumption
<1>2. Reinvest(c)!Off \in RunnerRec(c) /\ Reinvest(c)!Off.at = "off"
  BY <1>1 DEF Reinvest!Off, RunnerRec, RunnerPhases
<1> QED BY <1>1, <1>2 DEF ReinvestKept, RunnersFit, RunnerFits

\* The runner goes elsewhere, with what it has.
LEMMA RunnerAt ==
  ASSUME NEW c, Reinvest(c)!ReinvestAssumption, ReinvestKept(c), NEW r \in c.Runners,
         NEW at \in RunnerPhases \ {"off", "sign", "waiting", "audit"}, Reinvest(c)!Goes(r, at)
  PROVE  \E next : RunnerFits(c, next) /\ proc' = [proc EXCEPT ![r] = next] /\ next.at = at
<1> DEFINE next == [proc[r] EXCEPT !.at = at]
<1>1. next \in RunnerRec(c) /\ next.at = at
  BY RunnerNow DEF RunnerRec
<1>2. RunnerFits(c, next)
  BY <1>1 DEF RunnerFits
<1> QED BY <1>1, <1>2 DEF Reinvest!Goes

LEMMA StartFits ==
  ASSUME NEW c, Reinvest(c)!ReinvestAssumption, ReinvestKept(c), NEW r \in c.Runners, Reinvest(c)!Start(r)
  PROVE  ReinvestKept(c)'
<1>1. proc[r].at = "off" /\ Reinvest(c)!Goes(r, "boot") /\ "boot" \in RunnerPhases \ {"off", "sign", "waiting", "audit"}
  BY DEF Reinvest!Start, Reinvest!Alive, RunnerPhases
<1>2. PICK next : RunnerFits(c, next) /\ proc' = [proc EXCEPT ![r] = next]
  BY <1>1, RunnerAt
<1>3. pidfile' = pidfile /\ pidfile # r
  BY <1>1, RunnerNow DEF Reinvest!Start
<1>4. /\ UNCHANGED <<stopper, ops, audit, mishaps>> /\ UNCHANGED Reinvest(c)!chain
      /\ cooldown' \in [c.Runners -> SUBSET Reinvest(c)!Epoch]
  BY ReinvestFacts DEF Reinvest!Start
<1> QED BY <1>2, <1>3, <1>4, ReinvestFacts, RunnerMoves

LEMMA BootFits ==
  ASSUME NEW c, Reinvest(c)!ReinvestAssumption, ReinvestKept(c), NEW r \in c.Runners,
         Reinvest(c)!Boot(r) \/ Reinvest(c)!Write(r)
  PROVE  ReinvestKept(c)'
<1>1. \E next : /\ RunnerFits(c, next) /\ proc' = [proc EXCEPT ![r] = next]
                /\ pidfile' = r => next.at \notin {"off", "boot"}
  <2>1. {"write", "sleep"} \subseteq RunnerPhases \ {"off", "sign", "waiting", "audit"}
    BY DEF RunnerPhases
  <2>2. ASSUME NEW at \in {"write", "sleep"}, Reinvest(c)!Goes(r, at)
        PROVE  \E next : /\ RunnerFits(c, next) /\ proc' = [proc EXCEPT ![r] = next]
                         /\ pidfile' = r => next.at \notin {"off", "boot"}
    <3>1. PICK next : RunnerFits(c, next) /\ proc' = [proc EXCEPT ![r] = next] /\ next.at = at
      BY <2>1, <2>2, RunnerAt
    <3> QED BY <3>1
  <2>3. ASSUME proc[r].at = "boot", pidfile \in c.Runners, pidfile' = pidfile, proc' = [proc EXCEPT ![r] = Reinvest(c)!Off]
        PROVE  \E next : /\ RunnerFits(c, next) /\ proc' = [proc EXCEPT ![r] = next]
                         /\ pidfile' = r => next.at \notin {"off", "boot"}
    <3>1. pidfile' # r
      BY <2>3, RunnerNow
    <3> QED BY <2>3, <3>1, RunnerNow
  <2> QED BY <2>2, <2>3 DEF Reinvest!Boot, Reinvest!Write
<1>2. pidfile' \in {pidfile, c.None, c.Stale, r}
  BY DEF Reinvest!Boot, Reinvest!Write
<1>3. UNCHANGED <<cooldown, stopper, ops, audit, mishaps>> /\ UNCHANGED Reinvest(c)!chain
  BY DEF Reinvest!Boot, Reinvest!Write
<1> QED BY <1>1, <1>2, <1>3, ReinvestFacts, RunnerMoves

LEMMA ExitFits ==
  ASSUME NEW c, Reinvest(c)!ReinvestAssumption, ReinvestKept(c), NEW r \in c.Runners,
         Reinvest(c)!Exit(r) \/ Reinvest(c)!Crash(r)
  PROVE  ReinvestKept(c)'
<1>1. proc' = [proc EXCEPT ![r] = Reinvest(c)!Off] /\ pidfile' # r /\ pidfile' \in {pidfile, c.None, c.Stale, r}
  BY RunnerNow DEF Reinvest!Exit, Reinvest!Crash
<1>2. /\ UNCHANGED <<cooldown, stopper, ops, audit>> /\ UNCHANGED Reinvest(c)!chain /\ mishaps' \in 0 .. c.MaxFaults
  BY ReinvestFacts DEF Reinvest!Exit, Reinvest!Crash
<1> QED BY <1>1, <1>2, ReinvestFacts, RunnerNow, RunnerMoves

LEMMA StopFits ==
  ASSUME NEW c, Reinvest(c)!ReinvestAssumption, ReinvestKept(c), Reinvest(c)!Stop \/ Reinvest(c)!Stopped
  PROVE  ReinvestKept(c)'
<1>1. /\ UNCHANGED <<proc, cooldown, ops, audit>> /\ UNCHANGED Reinvest(c)!chain /\ mishaps' \in 0 .. c.MaxFaults
      /\ pidfile' \in {pidfile, c.None} /\ stopper' \in c.Runners \cup {c.None} /\ c.None \notin c.Runners
  BY ReinvestFacts DEF Reinvest!Stop, Reinvest!Stopped, Reinvest!ReinvestAssumption
<1>2. RunnersFit(c)'
  BY <1>1 DEF ReinvestKept, RunnersFit, RunnerFits, RunnerRec, Reinvest!Epoch
<1>3. OpsFit(c)' /\ ClaimsFit(c)'
  BY <1>1, ReinvestFacts, AccountRests, OpsRest, ClaimsRest DEF ReinvestKept
<1> QED BY <1>2, <1>3 DEF ReinvestKept

LEMMA CycleFits ==
  ASSUME NEW c, Reinvest(c)!ReinvestAssumption, ReinvestKept(c), NEW r \in c.Runners,
         Reinvest(c)!Gate(r) \/ Reinvest(c)!CycleEnds(r)
  PROVE  ReinvestKept(c)'
<1>1. proc[r] \in RunnerRec(c) /\ RunnerFits(c, proc[r]) /\ proc[r].at \in {"sleep", "epoch"}
  BY RunnerNow DEF Reinvest!Gate, Reinvest!CycleEnds
<1>2. \E next : RunnerFits(c, next) /\ proc' = [proc EXCEPT ![r] = next] /\ next.at \notin {"off", "boot"}
  <2>1. CASE proc' = proc
    <3>1. proc' = [proc EXCEPT ![r] = proc[r]]
      BY <2>1, ReinvestFacts
    <3> QED BY <1>1, <3>1
  <2>2. CASE Reinvest(c)!CycleEnds(r)
    <3> DEFINE next == [Reinvest(c)!Off EXCEPT !.at = "sleep"]
    <3>1. Reinvest(c)!Off \in RunnerRec(c)
      BY RunnerNow DEF RunnerFits
    <3>2. next \in RunnerRec(c) /\ next.at = "sleep"
      BY <3>1 DEF RunnerRec, RunnerPhases
    <3> QED BY <2>2, <3>2 DEF RunnerFits, Reinvest!CycleEnds
  <2>3. ASSUME NEW S \in SUBSET Reinvest(c)!Epoch, proc' = [proc EXCEPT ![r].at = "epoch", ![r].todo = S]
        PROVE  \E next : RunnerFits(c, next) /\ proc' = [proc EXCEPT ![r] = next] /\ next.at \notin {"off", "boot"}
    <3> DEFINE next == [proc[r] EXCEPT !.at = "epoch", !.todo = S]
    <3>1. next \in RunnerRec(c) /\ next.at = "epoch"
      BY <1>1 DEF RunnerRec, RunnerPhases
    <3>2. proc' = [proc EXCEPT ![r] = next]
      BY <2>3, ReinvestFacts
    <3> QED BY <3>1, <3>2 DEF RunnerFits
  <2>4. {e \in Reinvest(c)!Window : Reinvest(c)!Claimable(e)} \in SUBSET Reinvest(c)!Epoch
    BY DEF Reinvest!Window
  <2> QED BY <2>1, <2>2, <2>3, <2>4 DEF Reinvest!Gate
<1>3. UNCHANGED <<cooldown, pidfile, stopper, ops, audit>> /\ UNCHANGED Reinvest(c)!chain /\ mishaps' \in 0 .. c.MaxFaults
  BY ReinvestFacts DEF Reinvest!Gate, Reinvest!CycleEnds
<1> QED BY <1>2, <1>3, ReinvestFacts, RunnerMoves

LEMMA NewestOf ==
  ASSUME NEW c, c.Epochs \in Nat, NEW S \in SUBSET Reinvest(c)!Epoch, S # {} PROVE Reinvest(c)!Max(S) \in S
<1> DEFINE B == {n \in Nat : c.Epochs - n \in S}
<1>1. S \subseteq 1 .. c.Epochs
  BY DEF Reinvest!Epoch
<1>2. B \in SUBSET Nat /\ B # {}
  <2>1. PICK x \in S : TRUE
    OBVIOUS
  <2>2. c.Epochs - x \in Nat /\ c.Epochs - (c.Epochs - x) = x
    BY <1>1, <2>1
  <2> QED BY <2>1, <2>2
<1>3. PICK m \in B : \A k \in B : m <= k
  <2>1. PICK m \in B : \A k \in B : ~ (<<k, m>> \in OpToRel(<, Nat))
    BY <1>2, NatLessThanWellFounded, WFMin
  <2>2. \A k \in B : ~ (k < m)
    BY <1>2, <2>1 DEF OpToRel
  <2> QED BY <1>2, <2>2
<1>4. ASSUME NEW y \in S PROVE c.Epochs - m >= y
  <2>1. c.Epochs - y \in Nat /\ c.Epochs - (c.Epochs - y) = y /\ y \in Nat
    BY <1>1
  <2>2. m <= c.Epochs - y
    BY <1>3, <2>1
  <2> QED BY <2>1, <2>2
<1>5. \E x \in S : \A y \in S : x >= y
  BY <1>3, <1>4
<1> QED BY <1>5 DEF Reinvest!Max

LEMMA PrepareRunFits ==
  ASSUME NEW c, Reinvest(c)!ReinvestAssumption, ReinvestKept(c), NEW r \in c.Runners, Reinvest(c)!Prepare(r)
  PROVE  ReinvestKept(c)'
<1>1. PICK e : e = Reinvest(c)!Max(proc[r].todo)
  OBVIOUS
<1>2. /\ proc[r] \in RunnerRec(c) /\ RunnerFits(c, proc[r]) /\ proc[r].at = "epoch" /\ proc[r].todo # {}
      /\ c.Epochs \in Nat /\ proc[r].todo \in SUBSET Reinvest(c)!Epoch
  BY RunnerNow DEF Reinvest!Prepare, RunnerRec
<1>3. e \in Reinvest(c)!Epoch /\ e \in 0 .. c.Epochs /\ proc[r].todo \ {e} \in SUBSET Reinvest(c)!Epoch
  BY <1>1, <1>2, NewestOf DEF Reinvest!Epoch
<1>4. \E next : RunnerFits(c, next) /\ proc' = [proc EXCEPT ![r] = next] /\ next.at \notin {"off", "boot"}
  <2>1. CASE proc' = [proc EXCEPT ![r].todo = proc[r].todo \ {e}]
    <3> DEFINE next == [proc[r] EXCEPT !.todo = proc[r].todo \ {e}]
    <3>1. next \in RunnerRec(c) /\ next.at = "epoch"
      BY <1>2, <1>3 DEF RunnerRec
    <3> QED BY <2>1, <3>1 DEF RunnerFits
  <2>2. CASE proc' = [proc EXCEPT ![r] = [proc[r] EXCEPT !.at = "sign", !.todo = proc[r].todo \ {e}, !.e = e, !.n = keyNonce]]
    <3> DEFINE next == [proc[r] EXCEPT !.at = "sign", !.todo = proc[r].todo \ {e}, !.e = e, !.n = keyNonce]
    <3>1. keyNonce \in 0 .. c.MaxOps
      BY ReinvestFacts
    <3>2. next \in RunnerRec(c) /\ next.at = "sign" /\ next.e = e
      BY <1>2, <1>3, <3>1 DEF RunnerRec, RunnerPhases
    <3> QED BY <1>3, <2>2, <3>2 DEF RunnerFits
  <2> QED BY <1>1, <2>1, <2>2 DEF Reinvest!Prepare
<1>5. UNCHANGED <<cooldown, pidfile, stopper, ops, audit>> /\ UNCHANGED Reinvest(c)!chain /\ mishaps' \in 0 .. c.MaxFaults
  BY ReinvestFacts DEF Reinvest!Prepare
<1> QED BY <1>4, <1>5, ReinvestFacts, RunnerMoves

LEMMA ResultFits ==
  ASSUME NEW c, Reinvest(c)!ReinvestAssumption, ReinvestKept(c), NEW r \in c.Runners,
         Reinvest(c)!Receipt(r) \/ Reinvest(c)!NoReceipt(r)
  PROVE  ReinvestKept(c)'
<1>1. PICK ok \in BOOLEAN : Reinvest(c)!Result(r, ok)
  BY DEF Reinvest!Receipt, Reinvest!NoReceipt, Reinvest!Results
<1>2. /\ proc[r].at = "waiting" /\ proc[r] \in RunnerRec(c) /\ proc[r].e \in Reinvest(c)!Epoch /\ proc[r].op \in 1 .. c.MaxOps
  BY RunnerNow DEF Reinvest!Receipt, Reinvest!NoReceipt, RunnerFits
<1>3. \E next : RunnerFits(c, next) /\ proc' = [proc EXCEPT ![r] = next] /\ next.at \notin {"off", "boot"}
  <2> DEFINE next == [proc[r] EXCEPT !.at = "audit", !.ok = ok]
  <2>1. [proc[r] EXCEPT !.at = "audit"] \in RunnerRec(c)
    BY <1>2 DEF RunnerRec, RunnerPhases
  <2>2. ASSUME NEW p \in RunnerRec(c) PROVE [p EXCEPT !.ok = ok] \in RunnerRec(c)
    BY DEF RunnerRec
  <2>3. next = [[proc[r] EXCEPT !.at = "audit"] EXCEPT !.ok = ok]
    OBVIOUS
  <2>4. next \in RunnerRec(c)
    BY <2>1, <2>2, <2>3
  <2>5. next.at = "audit" /\ next.e = proc[r].e /\ next.op = proc[r].op
    BY <1>2 DEF RunnerRec
  <2> QED BY <1>1, <1>2, <2>4, <2>5 DEF RunnerFits, Reinvest!Result
<1>4. cooldown' \in [c.Runners -> SUBSET Reinvest(c)!Epoch]
  BY <1>1, <1>2, ReinvestFacts DEF Reinvest!Result
<1>5. UNCHANGED <<pidfile, stopper, ops, audit>> /\ UNCHANGED Reinvest(c)!chain
  BY <1>1 DEF Reinvest!Result
<1>6. mishaps' \in 0 .. c.MaxFaults
  BY ReinvestFacts DEF Reinvest!Receipt, Reinvest!NoReceipt
<1> QED BY <1>3, <1>4, <1>5, <1>6, ReinvestFacts, RunnerMoves

LEMMA RecordFits ==
  ASSUME NEW c, Reinvest(c)!ReinvestAssumption, ReinvestKept(c), NEW r \in c.Runners, Reinvest(c)!Record(r)
  PROVE  ReinvestKept(c)'
<1>1. proc[r].at = "audit" /\ proc[r] \in RunnerRec(c) /\ proc[r].e \in Reinvest(c)!Epoch /\ proc[r].op \in 1 .. c.MaxOps
  BY RunnerNow DEF Reinvest!Record, RunnerFits
<1>2. \E next : RunnerFits(c, next) /\ proc' = [proc EXCEPT ![r] = next] /\ next.at = "epoch"
  <2>1. "epoch" \in RunnerPhases \ {"off", "sign", "waiting", "audit"}
    BY DEF RunnerPhases
  <2> QED BY <2>1, RunnerAt DEF Reinvest!Record
<1>3. audit' \subseteq [e : Reinvest(c)!Epoch, op : 1 .. c.MaxOps, tx : BOOLEAN]
  <2>1. audit' \subseteq audit \cup {[e |-> proc[r].e, op |-> proc[r].op, tx |-> proc[r].ok]}
    BY DEF Reinvest!Record
  <2>2. proc[r].ok \in BOOLEAN
    BY <1>1 DEF RunnerRec
  <2> QED BY <1>1, <2>1, <2>2, ReinvestFacts
<1>4. UNCHANGED <<cooldown, pidfile, stopper, ops>> /\ UNCHANGED Reinvest(c)!chain /\ mishaps' \in 0 .. c.MaxFaults
  BY ReinvestFacts DEF Reinvest!Record
<1> QED BY <1>2, <1>3, <1>4, ReinvestFacts, RunnerMoves

LEMMA ElapsesFits ==
  ASSUME NEW c, Reinvest(c)!ReinvestAssumption, ReinvestKept(c), NEW r \in c.Runners, NEW e, Reinvest(c)!Elapses(r, e)
  PROVE  ReinvestKept(c)'
<1>1. cooldown' \in [c.Runners -> SUBSET Reinvest(c)!Epoch]
  BY ReinvestFacts DEF Reinvest!Elapses
<1>2. UNCHANGED <<proc, pidfile, stopper, ops, audit, mishaps>> /\ UNCHANGED Reinvest(c)!chain
  BY DEF Reinvest!Elapses
<1>3. RunnersFit(c)'
  BY <1>1, <1>2 DEF ReinvestKept, RunnersFit, RunnerFits, RunnerRec, Reinvest!Epoch
<1>4. OpsFit(c)' /\ ClaimsFit(c)'
  BY <1>2, ReinvestFacts, AccountRests, OpsRest, ClaimsRest DEF ReinvestKept
<1> QED BY <1>3, <1>4 DEF ReinvestKept

\* What a set of operations is counted by stays when some are dropped.
LEMMA SameIds ==
  ASSUME NEW S, NEW T, IsFiniteSet(S), \A o, p \in S : o.id = p.id => o = p, IsFiniteSet(T),
         \A o, p \in T : o.id = p.id => o = p, {o.id : o \in T} = {o.id : o \in S}
  PROVE  Cardinality(T) = Cardinality(S)
<1>1. Cardinality({o.id : o \in S}) = Cardinality(S)
  BY CountedById
<1>2. Cardinality({o.id : o \in T}) = Cardinality(T)
  BY CountedById
<1> QED BY <1>1, <1>2

LEMMA DroppedOp ==
  ASSUME NEW c, NEW o \in SubmittedRec(c), NEW state \in {"pending", "done", "reverted", "dropped"}
  PROVE  LET p == [o EXCEPT !.state = state] IN p \in SubmittedRec(c) /\ p.id = o.id /\ p.state = state
BY DEF SubmittedRec

LEMMA ReplacedFits ==
  ASSUME NEW c, OpsFit(c), NEW n, NEW R, R = Reinvest(c)!Replaced(n)
  PROVE  /\ R \subseteq SubmittedRec(c) /\ IsFiniteSet(R) /\ Cardinality(R) = Cardinality(ops)
         /\ \A o, p \in R : o.id = p.id => o = p
         /\ \A o \in R : \E p \in ops : o.id = p.id
         /\ MinedOf(R) = MinedOf(ops)
<1> DEFINE g == [o \in ops |-> IF o.n = n /\ o.state = "pending" THEN [o EXCEPT !.state = "dropped"] ELSE o]
<1>1. R = {g[o] : o \in ops}
  BY DEF Reinvest!Replaced
<1>2. \A o \in ops : o \in SubmittedRec(c)
  BY DEF OpsFit
<1>3. ASSUME NEW o \in ops
      PROVE  /\ g[o] \in SubmittedRec(c) /\ g[o].id = o.id
             /\ o.state # "pending" => g[o] = o
             /\ o.state = "pending" => g[o].state \in {"pending", "dropped"}
  BY <1>2, DroppedOp
<1>4. ops \subseteq SubmittedRec(c) /\ IsFiniteSet(ops) /\ \A o, p \in ops : o.id = p.id => o = p
  BY DEF OpsFit
<1>5. g \in Surjection(ops, R)
  BY <1>1 DEF Surjection
<1> HIDE DEF g
<1>6. IsFiniteSet(R)
  BY <1>4, <1>5, FS_Surjection
<1>7. R \subseteq SubmittedRec(c)
  BY <1>1, <1>3
<1>8. \A o, p \in R : o.id = p.id => o = p
  BY <1>1, <1>3, <1>4
<1>9. {o.id : o \in R} = {o.id : o \in ops}
  <2>1. ASSUME NEW o \in ops PROVE g[o] \in R /\ g[o].id = o.id
    BY <1>1, <1>3
  <2>2. ASSUME NEW p \in R PROVE \E o \in ops : p.id = o.id
    BY <1>1, <1>3
  <2> QED BY <2>1, <2>2
<1>10. Cardinality(R) = Cardinality(ops)
  BY <1>4, <1>6, <1>8, <1>9, SameIds
<1>11. MinedOf(R) = MinedOf(ops)
  <2>1. ASSUME NEW o \in MinedOf(ops) PROVE o \in MinedOf(R)
    <3>1. o \in ops /\ o.state \in {"done", "reverted"}
      BY DEF MinedOf
    <3>2. g[o] = o /\ g[o] \in R
      BY <1>1, <1>3, <3>1
    <3> QED BY <3>1, <3>2 DEF MinedOf
  <2>2. ASSUME NEW p \in MinedOf(R) PROVE p \in MinedOf(ops)
    <3>1. p \in R /\ p.state \in {"done", "reverted"}
      BY DEF MinedOf
    <3>2. PICK o \in ops : p = g[o]
      BY <1>1, <3>1
    <3>3. p = o
      BY <1>3, <3>1, <3>2
    <3> QED BY <3>1, <3>3 DEF MinedOf
  <2> QED BY <2>1, <2>2
<1> QED BY <1>1, <1>3, <1>6, <1>7, <1>8, <1>10, <1>11

LEMMA ReinvestCardinality == ASSUME NEW c, NEW S PROVE Reinvest(c)!Cardinality(S) = Cardinality(S)
BY Zenon DEF Reinvest!Cardinality, Cardinality

LEMMA SubmitRunFits ==
  ASSUME NEW c, Reinvest(c)!ReinvestAssumption, ReinvestKept(c), NEW r \in c.Runners, Reinvest(c)!Submit(r)
  PROVE  ReinvestKept(c)'
<1>1. /\ proc[r].at = "sign" /\ proc[r] \in RunnerRec(c) /\ proc[r].e \in Reinvest(c)!Epoch /\ RunnerFits(c, proc[r])
      /\ UNCHANGED <<cooldown, pidfile, stopper, audit>> /\ UNCHANGED Reinvest(c)!chain
      /\ mishaps' \in 0 .. c.MaxFaults
  BY RunnerNow, ReinvestFacts DEF Reinvest!Submit, RunnerFits
<1>2. ASSUME Reinvest(c)!Goes(r, "epoch")
      PROVE  \E next : RunnerFits(c, next) /\ proc' = [proc EXCEPT ![r] = next] /\ next.at \notin {"off", "boot"}
  <2>1. "epoch" \in RunnerPhases \ {"off", "sign", "waiting", "audit"}
    BY DEF RunnerPhases
  <2>2. PICK next : RunnerFits(c, next) /\ proc' = [proc EXCEPT ![r] = next] /\ next.at = "epoch"
    BY <1>2, <2>1, RunnerAt
  <2> QED BY <2>2
<1>3. CASE Reinvest(c)!Goes(r, "epoch") /\ ops' = ops
  BY <1>1, <1>2, <1>3, ReinvestFacts, RunnerMoves
<1>4. ASSUME NEW id, id = Cardinality(ops) + 1, id <= c.MaxOps,
             ops' = Reinvest(c)!Replaced(proc[r].n)
                      \cup {[id |-> id, r |-> r, e |-> proc[r].e, n |-> proc[r].n, state |-> "pending"]},
             \/ proc' = [proc EXCEPT ![r] = [proc[r] EXCEPT !.at = "waiting", !.op = id]]
             \/ Reinvest(c)!Goes(r, "epoch")
      PROVE  ReinvestKept(c)'
  <2>1. PICK R : R = Reinvest(c)!Replaced(proc[r].n)
    OBVIOUS
  <2>2. OpsFit(c)
    BY DEF ReinvestKept
  <2>3. /\ R \subseteq SubmittedRec(c) /\ IsFiniteSet(R) /\ Cardinality(R) = Cardinality(ops)
        /\ \A o, p \in R : o.id = p.id => o = p
        /\ \A o \in R : \E p \in ops : o.id = p.id
        /\ MinedOf(R) = MinedOf(ops)
    BY <2>1, <2>2, ReplacedFits
  <2>4. Cardinality(ops) \in Nat /\ c.MaxOps \in Nat /\ id \in 1 .. c.MaxOps
    BY <1>4, <2>2, OpsCounted, RunnerNow
  <2>5. PICK new : new = [id |-> id, r |-> r, e |-> proc[r].e, n |-> proc[r].n, state |-> "pending"]
    OBVIOUS
  <2>6. new \in SubmittedRec(c) /\ new.id = id /\ new.state = "pending"
    BY <1>1, <2>4, <2>5 DEF SubmittedRec, RunnerRec
  <2>7. ops' = R \cup {new}
    BY <1>4, <2>1, <2>5
  <2>8. \A o \in R : o.id <= Cardinality(ops) /\ o.id \in Nat
    BY <2>2, <2>3, <2>4 DEF OpsFit, SubmittedRec
  <2>9. new \notin R
    BY <1>4, <2>4, <2>6, <2>8
  <2>10. IsFiniteSet(ops') /\ Cardinality(ops') = id
    BY <1>4, <2>3, <2>7, <2>9, FS_AddElement
  <2>11. \A o, p \in ops' : o.id = p.id => o = p
    BY <1>4, <2>3, <2>4, <2>6, <2>7, <2>8
  <2>12. \A o \in ops' : o.id <= Cardinality(ops')
    BY <1>4, <2>4, <2>6, <2>7, <2>8, <2>10
  <2>13. MinedOf(ops') = MinedOf(ops)
    <3>1. MinedOf(R \cup {new}) = MinedOf(R)
      BY <2>6 DEF MinedOf
    <3> QED BY <2>3, <2>7, <3>1
  <2>14. keyNonce' = keyNonce /\ keyNonce = Cardinality(MinedOf(ops))
    BY <1>1, <2>2, AccountRests DEF OpsFit
  <2>15. OpsFit(c)'
    BY <2>3, <2>6, <2>7, <2>10, <2>11, <2>12, <2>13, <2>14 DEF OpsFit, SubmittedRec, Reinvest!Epoch
  <2>16. \E next : RunnerFits(c, next) /\ proc' = [proc EXCEPT ![r] = next] /\ next.at \notin {"off", "boot"}
    <3>1. CASE proc' = [proc EXCEPT ![r] = [proc[r] EXCEPT !.at = "waiting", !.op = id]]
      <4> DEFINE next == [proc[r] EXCEPT !.at = "waiting", !.op = id]
      <4>1. ASSUME NEW p \in RunnerRec(c), NEW o \in 0 .. c.MaxOps
            PROVE  LET q == [p EXCEPT !.at = "waiting", !.op = o]
                   IN  q \in RunnerRec(c) /\ q.at = "waiting" /\ q.op = o /\ q.e = p.e
        BY DEF RunnerRec, RunnerPhases
      <4>2. id \in 0 .. c.MaxOps
        BY <2>4
      <4>3. next \in RunnerRec(c) /\ next.at = "waiting" /\ next.op = id /\ next.e = proc[r].e
        BY <1>1, <4>1, <4>2
      <4> QED BY <1>1, <2>4, <3>1, <4>3 DEF RunnerFits
    <3> QED BY <1>2, <1>4, <3>1
  <2>17. RunnersFit(c)'
    BY <1>1, <2>16, ReinvestFacts, RunnerGoes DEF ReinvestKept
  <2>18. ClaimsFit(c)'
    BY <1>1, ReinvestFacts, AccountRests, ClaimsRest DEF ReinvestKept
  <2> QED BY <2>15, <2>17, <2>18 DEF ReinvestKept
<1>5. \/ Reinvest(c)!Goes(r, "epoch") /\ ops' = ops
      \/ LET id == Reinvest(c)!Cardinality(ops) + 1
         IN  /\ id <= c.MaxOps
             /\ ops' = Reinvest(c)!Replaced(proc[r].n)
                         \cup {[id |-> id, r |-> r, e |-> proc[r].e, n |-> proc[r].n, state |-> "pending"]}
             /\ \/ proc' = [proc EXCEPT ![r] = [proc[r] EXCEPT !.at = "waiting", !.op = id]]
                \/ Reinvest(c)!Goes(r, "epoch")
  BY DEF Reinvest!Submit
<1> QED BY <1>3, <1>4, <1>5, ReinvestCardinality

\* An operation ends: it is the same one, no longer pending.
LEMMA OpEnds ==
  ASSUME NEW c, OpsFit(c), NEW o \in ops, o.state = "pending", NEW state \in {"done", "reverted", "dropped"},
         ops' = (ops \ {o}) \cup {[o EXCEPT !.state = state]},
         keyNonce' = IF state = "dropped" THEN keyNonce ELSE keyNonce + 1
  PROVE  OpsFit(c)'
<1>1. PICK p : p = [o EXCEPT !.state = state]
  OBVIOUS
<1>2. /\ ops \subseteq SubmittedRec(c) /\ IsFiniteSet(ops) /\ \A x, y \in ops : x.id = y.id => x = y
      /\ \A x \in ops : x.id <= Cardinality(ops)
  BY DEF OpsFit
<1>3. p \in SubmittedRec(c) /\ p.id = o.id /\ p.state = state
  <2>1. o \in SubmittedRec(c) /\ state \in {"pending", "done", "reverted", "dropped"}
    BY <1>2
  <2> QED BY <1>1, <2>1, DroppedOp
<1>4. ops' = (ops \ {o}) \cup {p} /\ p \notin ops
  BY <1>1, <1>2, <1>3
<1>5. IsFiniteSet(ops \ {o}) /\ Cardinality(ops \ {o}) = Cardinality(ops) - 1 /\ Cardinality(ops) \in Nat
  BY <1>2, FS_RemoveElement, FS_CardinalityType
<1>6. IsFiniteSet(ops') /\ Cardinality(ops') = Cardinality(ops)
  <2>1. p \notin ops \ {o}
    BY <1>4
  <2>2. IsFiniteSet((ops \ {o}) \cup {p}) /\ Cardinality((ops \ {o}) \cup {p}) = Cardinality(ops \ {o}) + 1
    BY <1>5, <2>1, FS_AddElement
  <2>3. Cardinality(ops \ {o}) + 1 = Cardinality(ops)
    BY <1>5
  <2> QED BY <1>4, <2>2, <2>3
<1>7. \A x, y \in ops' : x.id = y.id => x = y
  BY <1>2, <1>3, <1>4
<1>8. \A x \in ops' : x.id <= Cardinality(ops')
  BY <1>2, <1>3, <1>4, <1>6
<1>9. keyNonce' = Cardinality(MinedOf(ops'))
  <2>1. IsFiniteSet(MinedOf(ops)) /\ keyNonce = Cardinality(MinedOf(ops)) /\ p \notin MinedOf(ops)
    <3>1. MinedOf(ops) \in SUBSET ops
      BY DEF MinedOf
    <3> QED BY <1>2, <1>4, <3>1, FS_Subset DEF OpsFit
  <2>2. CASE state = "dropped"
    <3>1. MinedOf((ops \ {o}) \cup {p}) = MinedOf(ops)
      BY <1>3, <2>2 DEF MinedOf
    <3> QED BY <1>4, <2>1, <2>2, <3>1
  <2>3. CASE state # "dropped"
    <3>1. MinedOf((ops \ {o}) \cup {p}) = MinedOf(ops) \cup {p}
      BY <1>3, <2>3 DEF MinedOf
    <3>2. Cardinality(MinedOf(ops) \cup {p}) = Cardinality(MinedOf(ops)) + 1
      BY <2>1, FS_AddElement
    <3> QED BY <1>4, <2>1, <2>3, <3>1, <3>2
  <2> QED BY <2>2, <2>3
<1>10. ops' \subseteq SubmittedRec(c)
  BY <1>2, <1>3, <1>4
<1> QED BY <1>6, <1>7, <1>8, <1>9, <1>10 DEF OpsFit, SubmittedRec, Reinvest!Epoch

LEMMA LocalFits ==
  ASSUME NEW c, RunnersFit(c), Reinvest(c)!Local
  PROVE  RunnersFit(c)' /\ audit' = audit
BY DEF Reinvest!Local, RunnersFit, RunnerFits, RunnerRec, Reinvest!Epoch

LEMMA OpFits ==
  ASSUME NEW c, Reinvest(c)!ReinvestAssumption, ReinvestKept(c), NEW o \in ops, Reinvest(c)!Land(o) \/ Reinvest(c)!Drop(o)
  PROVE  ReinvestKept(c)'
<1>1. RunnersFit(c)' /\ audit' = audit /\ mishaps' \in 0 .. c.MaxFaults
  BY LocalFits, ReinvestFacts DEF ReinvestKept, Reinvest!Land, Reinvest!Drop
<1>2. o.state = "pending" /\ OpsFit(c)
  BY DEF Reinvest!Land, Reinvest!Drop, ReinvestKept
<1>3. OpsFit(c)'
  <2>1. CASE Reinvest(c)!Land(o)
    <3>1. PICK state \in {"done", "reverted"} : ops' = (ops \ {o}) \cup {[o EXCEPT !.state = state]} /\ keyNonce' = keyNonce + 1
      BY <2>1 DEF Reinvest!Land
    <3> QED BY <1>2, <3>1, OpEnds
  <2>2. CASE Reinvest(c)!Drop(o)
    <3>1. ops' = (ops \ {o}) \cup {[o EXCEPT !.state = "dropped"]} /\ keyNonce' = keyNonce
      BY <2>2, AccountRests DEF Reinvest!Drop
    <3> QED BY <1>2, <3>1, OpEnds
  <2> QED BY <2>1, <2>2
<1>4. CASE Reinvest(c)!Drop(o)
  <2>1. ClaimsFit(c)'
    BY <1>1, <1>4, ReinvestFacts, AccountRests, ClaimsRest DEF ReinvestKept, Reinvest!Drop
  <2> QED BY <1>1, <1>3, <2>1 DEF ReinvestKept
<1>5. CASE Reinvest(c)!Land(o)
  <2>1. BuyInv(c)'
    BY <1>5, BatchKeeps DEF ReinvestKept, ClaimsFit, Reinvest!Land
  <2>2. 1 <= c.MaxOps
    BY <1>2, RunnerNow DEF OpsFit, SubmittedRec
  <2>3. \A e \in Reinvest(c)!Epoch : reinvested'[e] <= c.MaxOps
    <3>1. \A e \in Reinvest(c)!Epoch : reinvested'[e] \in {0, 1}
      BY <2>1 DEF BuyInv, Reinvest!BuyIsClaimed, Reinvest!Epoch
    <3>2. c.MaxOps \in Nat
      BY DEF Reinvest!ReinvestAssumption
    <3> QED BY <2>2, <3>1, <3>2
  <2>4. UNCHANGED <<current, expired, sweptEpochs, market>>
    BY <1>5 DEF Reinvest!Land
  <2>5. ClaimsFit(c)'
    BY <1>1, <2>1, <2>3, <2>4 DEF ReinvestKept, ClaimsFit, Reinvest!Epoch
  <2> QED BY <1>1, <1>3, <2>5 DEF ReinvestKept
<1> QED BY <1>4, <1>5

LEMMA EpochFits ==
  ASSUME NEW c, Reinvest(c)!ReinvestAssumption, ReinvestKept(c),
         Turns(c)
  PROVE  ReinvestKept(c)'
<1>1. RunnersFit(c)' /\ audit' = audit /\ mishaps' \in 0 .. c.MaxFaults /\ UNCHANGED <<reinvested, keyNonce, ops>>
  BY LocalFits, ReinvestFacts DEF ReinvestKept, Turns, Reinvest!Fund, Reinvest!Expire, Reinvest!Sweep,
       Reinvest!ClaimByHand, Reinvest!Reopen, Reinvest!Close
<1>2. OpsFit(c)'
  BY <1>1, OpsRest DEF ReinvestKept
<1>3. BuyInv(c)'
  BY ReinvestSteps DEF ReinvestKept, ClaimsFit, Turns, Reinvest!Next
<1>4. /\ current' \in 0 .. c.Epochs /\ expired' \subseteq Reinvest(c)!Epoch /\ sweptEpochs' \subseteq expired'
      /\ market' \in {"open", "unlisted", "shut"}
  BY DEF ReinvestKept, ClaimsFit, Turns, Reinvest!Fund, Reinvest!Expire, Reinvest!Sweep, Reinvest!ClaimByHand,
       Reinvest!Reopen, Reinvest!Close, Reinvest!ReinvestAssumption
<1>5. ClaimsFit(c)'
  BY <1>1, <1>3, <1>4 DEF ReinvestKept, ClaimsFit, Reinvest!Epoch
<1> QED BY <1>1, <1>2, <1>5 DEF ReinvestKept

LEMMA ReinvestKeptSteps ==
  ASSUME NEW c, Reinvest(c)!ReinvestAssumption, ReinvestKept(c), Reinvest(c)!Next PROVE ReinvestKept(c)'
<1>1. ASSUME NEW r \in c.Runners, Reinvest(c)!Works(r) PROVE ReinvestKept(c)'
  BY <1>1, BootFits, CycleFits, PrepareRunFits, SubmitRunFits, ResultFits, RecordFits DEF Reinvest!Works
<1>2. ASSUME NEW r \in c.Runners,
             \/ Reinvest(c)!Start(r) \/ Reinvest(c)!Exit(r) \/ Reinvest(c)!Crash(r)
             \/ \E e \in Reinvest(c)!Epoch : Reinvest(c)!Elapses(r, e)
      PROVE  ReinvestKept(c)'
  BY <1>2, StartFits, ExitFits, ElapsesFits
<1>3. CASE Reinvest(c)!Stop \/ Reinvest(c)!Stopped
  BY <1>3, StopFits
<1>4. CASE Turns(c)
  BY <1>4, EpochFits
<1>5. ASSUME NEW o \in ops, Reinvest(c)!Land(o) \/ Reinvest(c)!Drop(o) PROVE ReinvestKept(c)'
  BY <1>5, OpFits
<1> QED BY <1>1, <1>2, <1>3, <1>4, <1>5 DEF Turns, Reinvest!Next

LEMMA ReinvestKeptStutters ==
  ASSUME NEW c, ReinvestKept(c), UNCHANGED <<reinvestVars, mishaps>> PROVE ReinvestKept(c)'
<1>1. UNCHANGED <<proc, cooldown, pidfile, stopper, current, expired, sweptEpochs, market, claims, reinvested,
                  keyNonce, ops, audit>>
  BY DEF reinvestVars
<1>2. RunnersFit(c)'
  BY <1>1 DEF ReinvestKept, RunnersFit, RunnerFits, RunnerRec, Reinvest!Epoch
<1>3. OpsFit(c)'
  BY <1>1, OpsRest DEF ReinvestKept
<1>4. ClaimsFit(c)'
  BY <1>1 DEF ReinvestKept, ClaimsFit, BuyInv, Reinvest!BuyIsClaimed, Reinvest!Epoch
<1> QED BY <1>2, <1>3, <1>4 DEF ReinvestKept

LEMMA ReinvestIsTyped ==
  ASSUME NEW c, Reinvest(c)!ReinvestAssumption, ReinvestKept(c) PROVE Reinvest(c)!TypeOK
<1>1. RunnersFit(c) /\ OpsFit(c) /\ ClaimsFit(c)
  BY DEF ReinvestKept
<1>2. keyNonce \in 0 .. c.MaxOps /\ c.MaxOps \in Nat
  BY ReinvestFacts, RunnerNow DEF Reinvest!ReinvestAssumption
<1>3. keyNonce = Reinvest(c)!Cardinality({o \in ops : o.state \in {"done", "reverted"}})
  BY <1>1, ReinvestCardinality DEF OpsFit, MinedOf
<1>4. Reinvest(c)!Cardinality({o.id : o \in ops}) = Reinvest(c)!Cardinality(ops)
  <2>1. Cardinality({o.id : o \in ops}) = Cardinality(ops)
    BY <1>1, CountedById DEF OpsFit
  <2> QED BY <2>1, ReinvestCardinality
<1>5. reinvested \in [Reinvest(c)!Epoch -> 0 .. c.MaxOps] /\ claims \in [Reinvest(c)!Epoch -> {"no", "batch", "hand"}]
  BY <1>1, <1>2 DEF ClaimsFit, BuyInv
<1>6. /\ proc \in [c.Runners -> RunnerRec(c)] /\ cooldown \in [c.Runners -> SUBSET Reinvest(c)!Epoch]
      /\ pidfile \in c.Runners \cup {c.None, c.Stale} /\ stopper \in c.Runners \cup {c.None}
      /\ pidfile \in c.Runners => Reinvest(c)!Alive(pidfile)
  BY <1>1 DEF RunnersFit, Reinvest!Alive
<1>7. /\ current \in 0 .. c.Epochs /\ expired \subseteq Reinvest(c)!Epoch /\ sweptEpochs \subseteq expired
      /\ market \in {"open", "unlisted", "shut"}
      /\ audit \subseteq [e : Reinvest(c)!Epoch, op : 1 .. c.MaxOps, tx : BOOLEAN] /\ mishaps \in 0 .. c.MaxFaults
      /\ ops \subseteq SubmittedRec(c)
  BY <1>1 DEF ClaimsFit, OpsFit
<1> QED BY <1>2, <1>3, <1>4, <1>5, <1>6, <1>7 DEF Reinvest!TypeOK, RunnerRec, RunnerPhases, SubmittedRec

-----------------------------------------------------------------------------
(* No second operation while one settles *)

\* One runner that is not stopped and hears what became of what it submits.
OneAtWork(c) == (\A q, r \in c.Runners : q = r) /\ {"answer", "stop", "crash"} \cap c.Faults = {}

\* What a runner at p knows of the operations S: one that is pending cools
\* down or is in its hands, and what it is about to sign is not pending.
Knows(S, p, cool) ==
  /\ p.at \in {"off", "boot", "write"} => S = {}
  /\ \A o \in S : o.state = "pending" => o.e \in cool \/ (p.at \in {"waiting", "audit"} /\ p.op = o.id)
  /\ p.at \in {"waiting", "audit"} => \A o \in S : o.id = p.op => o.e = p.e
  /\ p.at = "audit" => p.e \in cool \/ \A o \in S : o.state = "pending" => o.e # p.e
  /\ p.at = "sign" => \A o \in S : o.state = "pending" => o.e # p.e

KnowsAll(c) == stopper = c.None /\ \A r \in c.Runners : Knows(ops, proc[r], cooldown[r])
PendingKept(c) == ReinvestKept(c) /\ KnowsAll(c)

\* T is S after operations were mined, dropped or replaced.
Aged(S, T) ==
  /\ \A o \in T : \E q \in S : q.id = o.id /\ q.e = o.e /\ (o.state = "pending" => q.state = "pending")
  /\ \A q \in S : \E o \in T : o.id = q.id /\ o.e = q.e

LEMMA AgedIsKnown ==
  ASSUME NEW S, NEW T, NEW p, NEW cool, Knows(S, p, cool), Aged(S, T)
  PROVE  Knows(T, p, cool)
<1>1. ASSUME NEW o \in T
      PROVE  \E q \in S : q.id = o.id /\ q.e = o.e /\ (o.state = "pending" => q.state = "pending")
  BY DEF Aged
<1>2. p.at \in {"off", "boot", "write"} => T = {}
  BY <1>1 DEF Knows
<1>3. ASSUME NEW o \in T, o.state = "pending"
      PROVE  /\ o.e \in cool \/ (p.at \in {"waiting", "audit"} /\ p.op = o.id)
             /\ p.at = "audit" => p.e \in cool \/ o.e # p.e
             /\ p.at = "sign" => o.e # p.e
  <2>1. PICK q \in S : q.id = o.id /\ q.e = o.e /\ q.state = "pending"
    BY <1>1, <1>3
  <2> QED BY <2>1 DEF Knows
<1>4. ASSUME NEW o \in T, p.at \in {"waiting", "audit"}, o.id = p.op PROVE o.e = p.e
  <2>1. PICK q \in S : q.id = o.id /\ q.e = o.e
    BY <1>1
  <2> QED BY <1>4, <2>1 DEF Knows
<1> QED BY <1>2, <1>3, <1>4 DEF Knows

LEMMA PendingStarts ==
  ASSUME NEW c, Reinvest(c)!ReinvestAssumption, Reinvest(c)!Init PROVE PendingKept(c)
<1>1. ops = {} /\ stopper = c.None /\ \A r \in c.Runners : proc[r].at = "off"
  BY DEF Reinvest!Init, Reinvest!Off
<1> QED BY <1>1, ReinvestKeptStarts DEF PendingKept, KnowsAll, Knows

LEMMA PendingStutters ==
  ASSUME NEW c, PendingKept(c), UNCHANGED <<reinvestVars, mishaps>> PROVE PendingKept(c)'
<1>1. UNCHANGED <<ops, stopper, proc, cooldown>>
  BY DEF reinvestVars
<1> QED BY <1>1, ReinvestKeptStutters DEF PendingKept, KnowsAll, Knows

\* The only runner moves, and knows what it must.
LEMMA OneMoves ==
  ASSUME NEW c, Reinvest(c)!ReinvestAssumption, OneAtWork(c), PendingKept(c), NEW r \in c.Runners,
         NEW next, proc' = [proc EXCEPT ![r] = next],
         NEW cool, cooldown' = [cooldown EXCEPT ![r] = cool],
         stopper' = stopper, Knows(ops', next, cool)
  PROVE  KnowsAll(c)'
<1>1. proc'[r] = next /\ cooldown'[r] = cool
  BY ReinvestFacts DEF PendingKept
<1>2. ASSUME NEW x \in c.Runners PROVE Knows(ops', proc'[x], cooldown'[x])
  BY <1>1 DEF OneAtWork
<1>3. ASSUME NEW x \in c.Runners PROVE Knows(ops, proc[x], cooldown[x])'
  BY <1>2 DEF Knows
<1> QED BY <1>3 DEF KnowsAll, PendingKept

\* Operations of one epoch are counted by their numbers.
Numbered(S) == IsFiniteSet(S) /\ \A o, q \in S : o.id = q.id => o = q
Matched(S, T, e) == \A o \in S : o.e = e => \E q \in T : q.id = o.id /\ q.e = e

LEMMA EpochCounted ==
  ASSUME NEW S, NEW T, Numbered(S), Numbered(T), NEW e, Matched(S, T, e), Matched(T, S, e)
  PROVE  Cardinality({o \in T : o.e = e}) = Cardinality({o \in S : o.e = e})
<1> USE DEF Numbered, Matched
<1>1. PICK A, B : A = {o \in S : o.e = e} /\ B = {o \in T : o.e = e}
  OBVIOUS
<1>2. IsFiniteSet(A) /\ IsFiniteSet(B)
  <2>1. A \subseteq S /\ B \subseteq T
    BY <1>1
  <2> QED BY <2>1, FS_Subset
<1>3. (\A o, q \in A : o.id = q.id => o = q) /\ (\A o, q \in B : o.id = q.id => o = q)
  BY <1>1
<1>4. Cardinality({o.id : o \in A}) = Cardinality(A)
  BY <1>2, <1>3, CountedById
<1>5. Cardinality({o.id : o \in B}) = Cardinality(B)
  BY <1>2, <1>3, CountedById
<1>6. {o.id : o \in A} = {o.id : o \in B}
  <2>1. ASSUME NEW o \in A PROVE \E q \in B : q.id = o.id
    BY <1>1
  <2>2. ASSUME NEW o \in B PROVE \E q \in A : q.id = o.id
    BY <1>1
  <2> QED BY <2>1, <2>2
<1> QED BY <1>1, <1>4, <1>5, <1>6

LEMMA CountsSubmitNone ==
  ASSUME NEW c, NEW S, NEW T, S = ops, T = ops',
         \A e \in Reinvest(c)!Epoch :
           Reinvest(c)!Pending(e) # {} => Cardinality({o \in T : o.e = e}) = Cardinality({o \in S : o.e = e})
  PROVE  Reinvest(c)!SubmitsNoSecond
<1>1. \A e \in Reinvest(c)!Epoch :
        Reinvest(c)!Pending(e) # {} => Reinvest(c)!Cardinality({o \in T : o.e = e}) = Reinvest(c)!Cardinality({o \in S : o.e = e})
  BY ReinvestCardinality
<1> QED BY <1>1 DEF Reinvest!SubmitsNoSecond

LEMMA AgedCounts ==
  ASSUME NEW c, OpsFit(c), OpsFit(c)', Aged(ops, ops') PROVE Reinvest(c)!SubmitsNoSecond
<1>1. PICK S, T : S = ops /\ T = ops'
  OBVIOUS
<1>2. Numbered(S) /\ Numbered(T)
  BY <1>1 DEF OpsFit, Numbered
<1>3. ASSUME NEW e PROVE Cardinality({o \in T : o.e = e}) = Cardinality({o \in S : o.e = e})
  <2>1. Matched(S, T, e) /\ Matched(T, S, e)
    BY <1>1 DEF Aged, Matched
  <2> QED BY <1>2, <2>1, EpochCounted
<1>4. \A e \in Reinvest(c)!Epoch :
        Reinvest(c)!Pending(e) # {} => Cardinality({o \in T : o.e = e}) = Cardinality({o \in S : o.e = e})
  BY <1>3
<1> QED BY <1>1, <1>4, CountsSubmitNone

\* Where the operations rest no second one is submitted.
LEMMA RestingSubmitsNone == ASSUME NEW c, ops' = ops PROVE Reinvest(c)!SubmitsNoSecond
BY DEF Reinvest!SubmitsNoSecond

LEMMA OneGoesOn ==
  ASSUME NEW c, Reinvest(c)!ReinvestAssumption, OneAtWork(c), PendingKept(c), NEW r \in c.Runners,
         \/ Reinvest(c)!Start(r) \/ Reinvest(c)!Boot(r) \/ Reinvest(c)!Write(r) \/ Reinvest(c)!Gate(r)
         \/ Reinvest(c)!CycleEnds(r) \/ Reinvest(c)!Prepare(r) \/ Reinvest(c)!Record(r)
  PROVE  KnowsAll(c)' /\ Reinvest(c)!SubmitsNoSecond
<1>1. PICK p, cool : p = proc[r] /\ cool = cooldown[r]
  OBVIOUS
<1>2. /\ Knows(ops, p, cool) /\ DOMAIN p = {"at", "todo", "e", "n", "op", "ok"}
      /\ cooldown = [cooldown EXCEPT ![r] = cool] /\ c.None \notin c.Runners
  <2>1. proc[r] \in RunnerRec(c) /\ cooldown \in [c.Runners -> SUBSET Reinvest(c)!Epoch] /\ c.None \notin c.Runners
    BY RunnerNow, ReinvestFacts DEF PendingKept
  <2> QED BY <1>1, <2>1 DEF PendingKept, KnowsAll, RunnerRec
<1>3. UNCHANGED <<ops, stopper>>
  BY DEF Reinvest!Start, Reinvest!Boot, Reinvest!Write, Reinvest!Gate, Reinvest!CycleEnds, Reinvest!Prepare, Reinvest!Record
<1>4. ASSUME NEW at, Reinvest(c)!Goes(r, at), NEW kept, cooldown' = [cooldown EXCEPT ![r] = kept],
             \A q : q.at = at /\ q.e = p.e /\ q.op = p.op => Knows(ops, q, kept)
      PROVE  KnowsAll(c)'
  <2>1. PICK q : q = [p EXCEPT !.at = at]
    OBVIOUS
  <2>2. q.at = at /\ q.e = p.e /\ q.op = p.op
    BY <1>2, <2>1
  <2>3. proc' = [proc EXCEPT ![r] = q]
    BY <1>1, <1>4, <2>1 DEF Reinvest!Goes
  <2>4. Knows(ops', q, kept)
    BY <1>3, <1>4, <2>2
  <2> QED BY <1>3, <1>4, <2>3, <2>4, OneMoves
<1>5. ASSUME NEW q, proc' = [proc EXCEPT ![r] = q], cooldown' = cooldown, Knows(ops, q, cool) PROVE KnowsAll(c)'
  BY <1>2, <1>3, <1>5, OneMoves
<1>6. Reinvest(c)!Off.at = "off"
  BY DEF Reinvest!Off
<1>7. ASSUME Reinvest(c)!Start(r) PROVE KnowsAll(c)'
  <2>1. p.at = "off" /\ Reinvest(c)!Goes(r, "boot") /\ cooldown' = [cooldown EXCEPT ![r] = {}]
    BY <1>1, <1>7 DEF Reinvest!Start, Reinvest!Alive
  <2>2. \A q : q.at = "boot" /\ q.e = p.e /\ q.op = p.op => Knows(ops, q, {})
    BY <1>2, <2>1 DEF Knows
  <2> QED BY <1>4, <2>1, <2>2
<1>8. ASSUME Reinvest(c)!Boot(r) PROVE KnowsAll(c)'
  <2>1. p.at = "boot" /\ cooldown' = cooldown
        /\ (proc' = [proc EXCEPT ![r] = Reinvest(c)!Off] \/ Reinvest(c)!Goes(r, "write"))
    BY <1>1, <1>8 DEF Reinvest!Boot
  <2>2. \A q : q.at = "write" /\ q.e = p.e /\ q.op = p.op => Knows(ops, q, cool)
    BY <1>2, <2>1 DEF Knows
  <2>3. Knows(ops, Reinvest(c)!Off, cool)
    BY <1>2, <1>6, <2>1 DEF Knows
  <2>4. CASE Reinvest(c)!Goes(r, "write")
    BY <1>2, <1>4, <2>1, <2>2, <2>4
  <2>5. CASE proc' = [proc EXCEPT ![r] = Reinvest(c)!Off]
    BY <1>5, <2>1, <2>3, <2>5
  <2> QED BY <2>1, <2>4, <2>5
<1>9. ASSUME Reinvest(c)!Write(r) PROVE KnowsAll(c)'
  <2>1. p.at = "write" /\ cooldown' = cooldown /\ Reinvest(c)!Goes(r, "sleep")
    BY <1>1, <1>9 DEF Reinvest!Write
  <2>2. \A q : q.at = "sleep" /\ q.e = p.e /\ q.op = p.op => Knows(ops, q, cool)
    BY <1>2, <2>1 DEF Knows
  <2> QED BY <1>2, <1>4, <2>1, <2>2
<1>10. ASSUME Reinvest(c)!Gate(r) PROVE KnowsAll(c)'
  <2>1. PICK todo : todo = {e \in Reinvest(c)!Window : Reinvest(c)!Claimable(e)}
    OBVIOUS
  <2>2. PICK q : q = [p EXCEPT !.at = "epoch", !.todo = todo]
    OBVIOUS
  <2>3. p.at = "sleep" /\ q.at = "epoch" /\ cooldown' = cooldown
    BY <1>1, <1>2, <1>10, <2>2 DEF Reinvest!Gate
  <2>4. proc' = [proc EXCEPT ![r] = p] \/ proc' = [proc EXCEPT ![r] = q]
    <3>1. proc = [proc EXCEPT ![r] = p]
      <4>1. proc \in [c.Runners -> RunnerRec(c)]
        BY ReinvestFacts DEF PendingKept
      <4> QED BY <1>1, <4>1
    <3>2. proc' = proc \/ proc' = [proc EXCEPT ![r].at = "epoch", ![r].todo = todo]
      BY <1>10, <2>1 DEF Reinvest!Gate
    <3>3. ASSUME proc' = [proc EXCEPT ![r].at = "epoch", ![r].todo = todo] PROVE proc' = [proc EXCEPT ![r] = q]
      <4>1. proc \in [c.Runners -> RunnerRec(c)]
        BY ReinvestFacts DEF PendingKept
      <4> QED BY <1>1, <2>2, <3>3, <4>1
    <3> QED BY <3>1, <3>2, <3>3
  <2>5. Knows(ops, q, cool)
    BY <1>2, <2>3 DEF Knows
  <2> QED BY <1>2, <1>5, <2>3, <2>4, <2>5
<1>11. ASSUME Reinvest(c)!CycleEnds(r) PROVE KnowsAll(c)'
  <2>1. PICK q : q = [Reinvest(c)!Off EXCEPT !.at = "sleep"]
    OBVIOUS
  <2>2. p.at = "epoch" /\ q.at = "sleep" /\ cooldown' = cooldown /\ proc' = [proc EXCEPT ![r] = q]
    BY <1>1, <1>11, <2>1 DEF Reinvest!CycleEnds, Reinvest!Off
  <2>3. Knows(ops, q, cool)
    BY <1>2, <2>2 DEF Knows
  <2> QED BY <1>5, <2>2, <2>3
<1>12. ASSUME Reinvest(c)!Prepare(r) PROVE KnowsAll(c)'
  <2>1. PICK e, rest : e = Reinvest(c)!Max(p.todo) /\ rest = p.todo \ {e}
    OBVIOUS
  <2>2. PICK q, s : q = [p EXCEPT !.todo = rest] /\ s = [p EXCEPT !.at = "sign", !.todo = rest, !.e = e, !.n = keyNonce]
    OBVIOUS
  <2>3. /\ p.at = "epoch" /\ cooldown' = cooldown
        /\ proc' = [proc EXCEPT ![r] = q] \/ (e \notin cool /\ proc' = [proc EXCEPT ![r] = s])
    BY <1>1, <1>12, <2>1, <2>2 DEF Reinvest!Prepare, Reinvest!Cooling
  <2>4. q.at = "epoch" /\ s.at = "sign" /\ s.e = e
    BY <1>2, <2>2, <2>3
  <2>5. Knows(ops, q, cool) /\ (e \notin cool => Knows(ops, s, cool))
    BY <1>2, <2>3, <2>4 DEF Knows
  <2> QED BY <1>5, <2>3, <2>5
<1>13. ASSUME Reinvest(c)!Record(r) PROVE KnowsAll(c)'
  <2>1. p.at = "audit" /\ cooldown' = cooldown /\ Reinvest(c)!Goes(r, "epoch")
    BY <1>1, <1>13 DEF Reinvest!Record
  <2>2. \A o \in ops : o.state = "pending" => o.e \in cool
    BY <1>2, <2>1 DEF Knows
  <2>3. \A q : q.at = "epoch" /\ q.e = p.e /\ q.op = p.op => Knows(ops, q, cool)
    BY <2>2 DEF Knows
  <2> QED BY <1>2, <1>4, <2>1, <2>3
<1>14. Reinvest(c)!SubmitsNoSecond
  BY <1>3, RestingSubmitsNone
<1> QED BY <1>7, <1>8, <1>9, <1>10, <1>11, <1>12, <1>13, <1>14

LEMMA OneSubmits ==
  ASSUME NEW c, Reinvest(c)!ReinvestAssumption, OneAtWork(c), PendingKept(c), ReinvestKept(c)',
         NEW r \in c.Runners, Reinvest(c)!Submit(r)
  PROVE  KnowsAll(c)' /\ Reinvest(c)!SubmitsNoSecond
<1>1. PICK p, cool, id, R : /\ p = proc[r] /\ cool = cooldown[r] /\ id = Cardinality(ops) + 1
                            /\ R = Reinvest(c)!Replaced(p.n)
  OBVIOUS
<1>2. /\ Knows(ops, p, cool) /\ DOMAIN p = {"at", "todo", "e", "n", "op", "ok"}
      /\ cooldown = [cooldown EXCEPT ![r] = cool] /\ OpsFit(c) /\ OpsFit(c)' /\ p.e \in Reinvest(c)!Epoch
      /\ Cardinality(ops) \in Nat
  <2>1. /\ proc[r] \in RunnerRec(c) /\ cooldown \in [c.Runners -> SUBSET Reinvest(c)!Epoch]
        /\ RunnerFits(c, proc[r]) /\ p.at = "sign"
    BY <1>1, RunnerNow, ReinvestFacts DEF PendingKept, Reinvest!Submit
  <2>2. OpsFit(c) /\ OpsFit(c)' /\ IsFiniteSet(ops)
    BY DEF PendingKept, ReinvestKept, OpsFit
  <2> QED BY <1>1, <2>1, <2>2, FS_CardinalityType DEF PendingKept, KnowsAll, RunnerRec, RunnerFits
<1>3. p.at = "sign" /\ UNCHANGED <<cooldown, stopper>>
  BY <1>1 DEF Reinvest!Submit
<1>4. CASE Reinvest(c)!Goes(r, "epoch") /\ ops' = ops
  <2>1. PICK q : q = [p EXCEPT !.at = "epoch"]
    OBVIOUS
  <2>2. q.at = "epoch" /\ proc' = [proc EXCEPT ![r] = q]
    BY <1>1, <1>2, <1>4, <2>1 DEF Reinvest!Goes
  <2>3. Knows(ops', q, cool)
    BY <1>2, <1>3, <1>4, <2>2 DEF Knows
  <2> QED BY <1>2, <1>3, <1>4, <2>2, <2>3, OneMoves, RestingSubmitsNone
<1>5. ASSUME NEW new, NEW q, new = [id |-> id, r |-> r, e |-> p.e, n |-> p.n, state |-> "pending"],
             q = [p EXCEPT !.at = "waiting", !.op = id], ops' = R \cup {new}, proc' = [proc EXCEPT ![r] = q]
      PROVE  KnowsAll(c)' /\ Reinvest(c)!SubmitsNoSecond
  <2>1. Aged(ops, R) /\ \A o \in R : o.id <= Cardinality(ops) /\ o.id \in Nat
    <3>1. ASSUME NEW o \in ops
          PROVE  /\ o.id <= Cardinality(ops) /\ o.id \in Nat
                 /\ [o EXCEPT !.state = "dropped"].id = o.id /\ [o EXCEPT !.state = "dropped"].e = o.e
                 /\ [o EXCEPT !.state = "dropped"].state = "dropped"
      BY <1>2 DEF OpsFit, SubmittedRec
    <3>2. R = {IF o.n = p.n /\ o.state = "pending" THEN [o EXCEPT !.state = "dropped"] ELSE o : o \in ops}
      BY <1>1 DEF Reinvest!Replaced
    <3>3. ASSUME NEW o \in ops
          PROVE  \E x \in R : /\ x.id = o.id /\ x.e = o.e
      BY <3>1, <3>2
    <3>4. ASSUME NEW x \in R
          PROVE  \E o \in ops : x.id = o.id /\ x.e = o.e /\ (x.state = "pending" => o.state = "pending")
      BY <3>1, <3>2
    <3> QED BY <3>1, <3>3, <3>4 DEF Aged
  <2>2. q.at = "waiting" /\ q.op = id /\ q.e = p.e
    BY <1>2, <1>5
  <2>3. new.id = id /\ new.e = p.e /\ new.state = "pending"
    BY <1>5
  <2>4. Knows(R, p, cool)
    BY <1>2, <2>1, AgedIsKnown
  <2>5. \A o \in R : o.id # id
    BY <1>1, <1>2, <2>1
  <2>6. Knows(R \cup {new}, q, cool)
    <3>1. ASSUME NEW o \in R \cup {new} PROVE (o.state = "pending" => o.e \in cool \/ q.op = o.id) /\ (o.id = q.op => o.e = q.e)
      <4>1. CASE o = new
        BY <2>2, <2>3, <4>1
      <4>2. CASE o \in R
        BY <1>3, <2>2, <2>4, <2>5, <4>2 DEF Knows
      <4> QED BY <4>1, <4>2
    <3> QED BY <2>2, <3>1 DEF Knows
  <2>7. KnowsAll(c)'
    BY <1>2, <1>3, <1>5, <2>6, OneMoves
  <2>8. PICK S, T : S = ops /\ T = ops'
    OBVIOUS
  <2>9. Numbered(S) /\ Numbered(T)
    BY <1>2, <2>8 DEF OpsFit, Numbered
  <2>10. ASSUME NEW e, Reinvest(c)!Pending(e) # {}
         PROVE  Cardinality({o \in T : o.e = e}) = Cardinality({o \in S : o.e = e})
    <3>1. e # p.e
      BY <1>2, <1>3, <2>10 DEF Knows, Reinvest!Pending
    <3>2. Matched(S, T, e)
      BY <1>5, <2>1, <2>8 DEF Aged, Matched
    <3>3. Matched(T, S, e)
      BY <1>5, <2>1, <2>3, <2>8, <3>1 DEF Aged, Matched
    <3> QED BY <2>9, <3>2, <3>3, EpochCounted
  <2>11. Reinvest(c)!SubmitsNoSecond
    BY <2>8, <2>10, CountsSubmitNone
  <2> QED BY <2>7, <2>11
<1>6. ~ Reinvest(c)!Fault("answer")
  BY DEF OneAtWork, Reinvest!Fault
<1>7. PICK new, q : /\ new = [id |-> id, r |-> r, e |-> p.e, n |-> p.n, state |-> "pending"]
                    /\ q = [p EXCEPT !.at = "waiting", !.op = id]
  OBVIOUS
<1>8. \/ Reinvest(c)!Goes(r, "epoch") /\ ops' = ops
      \/ LET next == Reinvest(c)!Cardinality(ops) + 1
         IN  /\ ops' = Reinvest(c)!Replaced(proc[r].n)
                         \cup {[id |-> next, r |-> r, e |-> proc[r].e, n |-> proc[r].n, state |-> "pending"]}
             /\ proc' = [proc EXCEPT ![r] = [proc[r] EXCEPT !.at = "waiting", !.op = next]]
  BY <1>6 DEF Reinvest!Submit
<1>9. Reinvest(c)!Cardinality(ops) + 1 = id
  BY <1>1, ReinvestCardinality
<1>10. \/ Reinvest(c)!Goes(r, "epoch") /\ ops' = ops
       \/ ops' = R \cup {new} /\ proc' = [proc EXCEPT ![r] = q]
  BY <1>1, <1>7, <1>8, <1>9
<1> QED BY <1>4, <1>5, <1>7, <1>10

LEMMA OneResults ==
  ASSUME NEW c, Reinvest(c)!ReinvestAssumption, OneAtWork(c), PendingKept(c),
         NEW r \in c.Runners, Reinvest(c)!Receipt(r) \/ Reinvest(c)!NoReceipt(r)
  PROVE  KnowsAll(c)' /\ Reinvest(c)!SubmitsNoSecond
<1>1. PICK p, cool : p = proc[r] /\ cool = cooldown[r]
  OBVIOUS
<1>2. /\ Knows(ops, p, cool) /\ DOMAIN p = {"at", "todo", "e", "n", "op", "ok"} /\ p.at = "waiting"
      /\ UNCHANGED <<ops, stopper>>
  <2>1. proc[r] \in RunnerRec(c)
    BY RunnerNow DEF PendingKept
  <2> QED BY <1>1, <2>1 DEF PendingKept, KnowsAll, RunnerRec, Reinvest!Receipt, Reinvest!NoReceipt, Reinvest!Results,
             Reinvest!Result
<1>3. PICK ok : Reinvest(c)!Result(r, ok)
  BY DEF Reinvest!Receipt, Reinvest!NoReceipt, Reinvest!Results
<1>4. PICK q, kept : q = [p EXCEPT !.at = "audit", !.ok = ok] /\ kept = cool \cup {p.e}
  OBVIOUS
<1>5. proc' = [proc EXCEPT ![r] = q] /\ cooldown' = [cooldown EXCEPT ![r] = kept]
  BY <1>1, <1>3, <1>4 DEF Reinvest!Result
<1>6. q.at = "audit" /\ q.e = p.e /\ q.op = p.op
  BY <1>2, <1>4
<1>7. Knows(ops', q, kept)
  BY <1>2, <1>4, <1>6 DEF Knows
<1> QED BY <1>2, <1>5, <1>7, OneMoves, RestingSubmitsNone

LEMMA OneCools ==
  ASSUME NEW c, Reinvest(c)!ReinvestAssumption, OneAtWork(c), PendingKept(c),
         NEW r \in c.Runners, NEW e, Reinvest(c)!Elapses(r, e)
  PROVE  KnowsAll(c)' /\ Reinvest(c)!SubmitsNoSecond
<1>1. PICK p, cool, kept : p = proc[r] /\ cool = cooldown[r] /\ kept = cool \ {e}
  OBVIOUS
<1>2. /\ Knows(ops, p, cool) /\ proc' = [proc EXCEPT ![r] = p] /\ cooldown' = [cooldown EXCEPT ![r] = kept]
      /\ UNCHANGED <<ops, stopper>> /\ \A o \in ops : o.state = "pending" => o.e # e
  <2>1. proc \in [c.Runners -> RunnerRec(c)]
    BY ReinvestFacts DEF PendingKept
  <2> QED BY <1>1, <2>1 DEF PendingKept, KnowsAll, Reinvest!Elapses, Reinvest!Pending
<1>3. Knows(ops', p, kept)
  BY <1>1, <1>2 DEF Knows
<1> QED BY <1>2, <1>3, OneMoves, RestingSubmitsNone

LEMMA OpsAge ==
  ASSUME NEW c, PendingKept(c), ReinvestKept(c)', NEW o \in ops, Reinvest(c)!Land(o) \/ Reinvest(c)!Drop(o)
  PROVE  KnowsAll(c)' /\ Reinvest(c)!SubmitsNoSecond
<1>1. PICK x : ops' = (ops \ {o}) \cup {x} /\ x.id = o.id /\ x.e = o.e /\ x.state # "pending"
  <2>1. PICK state \in {"done", "reverted", "dropped"} : ops' = (ops \ {o}) \cup {[o EXCEPT !.state = state]}
    BY DEF Reinvest!Land, Reinvest!Drop
  <2>2. DOMAIN o = {"id", "r", "e", "n", "state"}
    BY DEF PendingKept, ReinvestKept, OpsFit, SubmittedRec
  <2>3. PICK x : x = [o EXCEPT !.state = state]
    OBVIOUS
  <2>4. x.id = o.id /\ x.e = o.e /\ x.state # "pending"
    BY <2>2, <2>3
  <2>5. ops' = (ops \ {o}) \cup {x}
    BY <2>1, <2>3
  <2> QED BY <2>4, <2>5
<1>2. Aged(ops, ops')
  BY <1>1 DEF Aged
<1>3. UNCHANGED <<stopper, proc, cooldown>>
  BY DEF Reinvest!Land, Reinvest!Drop, Reinvest!Local
<1>4. ASSUME NEW r \in c.Runners PROVE Knows(ops, proc[r], cooldown[r])'
  <2>1. Knows(ops', proc[r], cooldown[r])
    BY <1>2, AgedIsKnown DEF PendingKept, KnowsAll
  <2> QED BY <1>3, <2>1 DEF Knows
<1>5. KnowsAll(c)'
  BY <1>3, <1>4 DEF PendingKept, KnowsAll
<1>6. OpsFit(c) /\ OpsFit(c)'
  BY DEF PendingKept, ReinvestKept
<1> QED BY <1>2, <1>5, <1>6, AgedCounts

LEMMA PendingSteps ==
  ASSUME NEW c, Reinvest(c)!ReinvestAssumption, OneAtWork(c), PendingKept(c), Reinvest(c)!Next
  PROVE  PendingKept(c)' /\ Reinvest(c)!SubmitsNoSecond
<1>1. ReinvestKept(c)' /\ stopper = c.None /\ c.None \notin c.Runners
  BY ReinvestKeptSteps DEF PendingKept, KnowsAll, Reinvest!ReinvestAssumption
<1>2. \A kind \in {"stop", "crash"} : ~ Reinvest(c)!Fault(kind)
  BY DEF OneAtWork, Reinvest!Fault
<1>3. ASSUME NEW r \in c.Runners, Reinvest(c)!Works(r) PROVE KnowsAll(c)' /\ Reinvest(c)!SubmitsNoSecond
  <2>1. CASE Reinvest(c)!Submit(r)
    BY <1>1, <2>1, OneSubmits
  <2>2. CASE Reinvest(c)!Receipt(r) \/ Reinvest(c)!NoReceipt(r)
    BY <2>2, OneResults
  <2>3. CASE \/ Reinvest(c)!Boot(r) \/ Reinvest(c)!Write(r) \/ Reinvest(c)!Gate(r)
             \/ Reinvest(c)!CycleEnds(r) \/ Reinvest(c)!Prepare(r) \/ Reinvest(c)!Record(r)
    BY <2>3, OneGoesOn
  <2> QED BY <1>3, <2>1, <2>2, <2>3 DEF Reinvest!Works
<1>4. ASSUME NEW r \in c.Runners,
             Reinvest(c)!Start(r) \/ \E e \in Reinvest(c)!Epoch : Reinvest(c)!Elapses(r, e)
      PROVE  KnowsAll(c)' /\ Reinvest(c)!SubmitsNoSecond
  BY <1>4, OneGoesOn, OneCools
<1>5. ASSUME NEW r \in c.Runners PROVE ~ Reinvest(c)!Exit(r) /\ ~ Reinvest(c)!Crash(r)
  BY <1>1, <1>2 DEF Reinvest!Exit, Reinvest!Crash
<1>6. ~ Reinvest(c)!Stop /\ ~ Reinvest(c)!Stopped
  BY <1>1, <1>2 DEF Reinvest!Stop, Reinvest!Stopped
<1>7. ASSUME Turns(c)
      PROVE  KnowsAll(c)' /\ Reinvest(c)!SubmitsNoSecond
  <2>1. UNCHANGED <<ops, stopper, proc, cooldown>>
    BY <1>7 DEF Turns, Reinvest!Fund, Reinvest!Expire, Reinvest!Sweep, Reinvest!ClaimByHand, Reinvest!Reopen,
         Reinvest!Close, Reinvest!Local
  <2>2. KnowsAll(c)'
    BY <2>1 DEF PendingKept, KnowsAll, Knows
  <2> QED BY <2>1, <2>2, RestingSubmitsNone
<1>8. ASSUME NEW o \in ops, Reinvest(c)!Land(o) \/ Reinvest(c)!Drop(o) PROVE KnowsAll(c)' /\ Reinvest(c)!SubmitsNoSecond
  BY <1>1, <1>8, OpsAge
<1>9. KnowsAll(c)' /\ Reinvest(c)!SubmitsNoSecond
  BY <1>3, <1>4, <1>5, <1>6, <1>7, <1>8 DEF Turns, Reinvest!Next
<1> QED BY <1>1, <1>9 DEF PendingKept

LEMMA PendingIsHeld ==
  ASSUME NEW c, Reinvest(c)!ReinvestAssumption, OneAtWork(c), PendingKept(c) PROVE Reinvest(c)!SubmittedIsHeld
<1>1. ASSUME NEW o \in ops, o.state = "pending"
      PROVE  o.e \in cooldown[o.r] \/ (proc[o.r].at \in {"waiting", "audit"} /\ proc[o.r].op = o.id)
  <2>1. o.r \in c.Runners
    BY DEF PendingKept, ReinvestKept, OpsFit, SubmittedRec
  <2>2. PICK r \in c.Runners : r = o.r
    BY <2>1
  <2>3. Knows(ops, proc[r], cooldown[r])
    BY DEF PendingKept, KnowsAll
  <2> QED BY <1>1, <2>2, <2>3 DEF Knows
<1> QED BY <1>1 DEF Reinvest!SubmittedIsHeld

\* runner.ts:230, execute.ts:437: while an operation for an epoch settles the
\* runner submits no second one for it, and lets go of none it does not put on
\* its cooldown, as long as it is alone, is not stopped and no answer is lost.
THEOREM SubmitsOneAtATime ==
  ASSUME OneAtWork(ReinvestOf)
  PROVE  Services => /\ [][part = "reinvest" => Reinvest(ReinvestOf)!SubmitsNoSecond]_reinvestVars
                     /\ [](part = "reinvest" => Reinvest(ReinvestOf)!SubmittedIsHeld)
<1> DEFINE Kept == part = "reinvest" => PendingKept(ReinvestOf)
<1>0. Reinvest(ReinvestOf)!ReinvestAssumption
  BY ConstantsAssumption DEF ConstantsAssumption
<1>1. ServicesInit => Kept
  <2> SUFFICES ASSUME ServicesInit, part = "reinvest" PROVE PendingKept(ReinvestOf)
    OBVIOUS
  <2>1. Reinvest(ReinvestOf)!Init
    BY DEF ServicesInit
  <2> QED BY <1>0, <2>1, PendingStarts
<1>2. Kept /\ [ServicesNext]_servicesVars =>
        Kept' /\ [part = "reinvest" => Reinvest(ReinvestOf)!SubmitsNoSecond]_reinvestVars
  <2> SUFFICES ASSUME Kept, [ServicesNext]_servicesVars
               PROVE  /\ Kept'
                      /\ part = "reinvest" => UNCHANGED reinvestVars \/ Reinvest(ReinvestOf)!SubmitsNoSecond
    OBVIOUS
  <2>1. part' = part
    BY DEF ServicesNext, Follows, servicesVars
  <2>2. ASSUME part = "reinvest"
        PROVE  PendingKept(ReinvestOf)' /\ (UNCHANGED reinvestVars \/ Reinvest(ReinvestOf)!SubmitsNoSecond)
    <3>1. Reinvest(ReinvestOf)!Next \/ UNCHANGED <<reinvestVars, mishaps>>
      BY <2>2 DEF ServicesNext, Follows, servicesVars
    <3>2. PendingKept(ReinvestOf)
      BY <2>2
    <3>3. CASE Reinvest(ReinvestOf)!Next
      BY <1>0, <3>2, <3>3, PendingSteps
    <3>4. CASE UNCHANGED <<reinvestVars, mishaps>>
      BY <3>2, <3>4, PendingStutters
    <3> QED BY <3>1, <3>3, <3>4
  <2> QED BY <2>1, <2>2
<1>3. Kept => (part = "reinvest" => Reinvest(ReinvestOf)!SubmittedIsHeld)
  BY <1>0, PendingIsHeld
<1> QED BY <1>1, <1>2, <1>3, PTL DEF Services

-----------------------------------------------------------------------------
(* The agent page, the chat and the purchases *)

Moods == {"idle", "submitting", "committing", "success", "error"}

AgentPageFits ==
  /\ modal \in Moods /\ fallback \in BOOLEAN
  /\ firing \subseteq AgentOf.Linked /\ looked \subseteq AgentOf.Linked
  /\ asked \subseteq AgentOf.Buys /\ shown \subseteq AgentOf.Buys

AgentChatFits ==
  /\ sent \subseteq AgentOf.Linked /\ coded \subseteq sent \cap AgentOf.Coded /\ spurned \subseteq sent
  /\ requests \subseteq AgentOf.Linked \X AgentOf.Answers /\ events \subseteq AgentOf.Answers \X AgentOf.Linked
  /\ verdicts \in [AgentOf.Buys -> SUBSET AgentOf.Answers]

AgentBoughtFits ==
  /\ tokenAge \in [AgentOf.Buys -> 0 .. 2] /\ purchased \in [AgentOf.Buys -> 0 .. AgentOf.MaxBuys]
  /\ receipts \subseteq AgentOf.Buys \X AgentOf.Buys /\ mishaps \in 0 .. AgentOf.MaxFaults

\* What the page's own proofs say of the queue, the dialogue and the runs.
AgentShows ==
  /\ queue \in Seq(AgentOf.Buys) /\ dialogue \in AgentOf.Buys \cup {AgentOf.NoBuy}
  /\ \A b \in AgentOf.Buys : \A i \in DOMAIN runs[b] : runs[b][i].at = "commit" => runs[b][i].spends \in AgentOf.Buys

LEMMA AgentShowFits ==
  ASSUME AgentPageFits, NEW q \in Seq(AgentOf.Buys), NEW b \in AgentOf.Buys \cup {AgentOf.NoBuy}, NEW status \in Moods, NEW rs,
         Agent!Show(q, b, status, rs)
  PROVE  modal' \in Moods /\ fallback' \in BOOLEAN /\ asked' \subseteq AgentOf.Buys
<1> DEFINE mounts == here /\ b = AgentOf.NoBuy /\ q # <<>> /\ Len(q) # Len(queue)
           now == IF mounts THEN q[1] ELSE b
           auto == mounts /\ Agent!AutoConfirmed(now)
           fires == auto /\ tokenAge[now] = 0
<1>1. /\ modal' = CASE fires -> "submitting" [] auto /\ ~fires -> "error" [] ~auto /\ now = dialogue -> status [] OTHER -> "idle"
      /\ fallback' = (fallback /\ now = dialogue)
      /\ asked' = IF fires THEN asked \cup {now} ELSE asked
  BY DEF Agent!Show
<1>2. mounts => now \in AgentOf.Buys
  BY EmptySeq, ElementOfSeq
<1> HIDE DEF mounts, now
<1>3. asked' \subseteq AgentOf.Buys
  BY <1>1, <1>2 DEF AgentPageFits
<1>4. modal' \in Moods
  BY <1>1 DEF Moods
<1>5. fallback' \in BOOLEAN
  BY <1>1
<1> QED BY <1>3, <1>4, <1>5

LEMMA AgentDropIs ==
  ASSUME AgentShows, dialogue # AgentOf.NoBuy PROVE Agent!Without(dialogue) \in Seq(AgentOf.Buys)
BY WithoutIs DEF Proposals, AgentShows

LEMMA AgentClosesFits ==
  ASSUME AgentShows, AgentPageFits, NEW b \in AgentOf.Buys \cup {AgentOf.NoBuy}, NEW status \in Moods, NEW rs, dialogue # AgentOf.NoBuy,
         Agent!Show(Agent!Without(dialogue), b, status, rs)
  PROVE  modal' \in Moods /\ fallback' \in BOOLEAN /\ asked' \subseteq AgentOf.Buys
<1>1. Agent!Without(dialogue) \in Seq(AgentOf.Buys)
  BY AgentDropIs
<1> QED BY <1>1, AgentShowFits

LEMMA AgentBeginFits ==
  ASSUME AgentPageFits, NEW b \in AgentOf.Buys, Agent!Begin(b)
  PROVE  firing' \subseteq AgentOf.Linked
BY DEF AgentPageFits, Agent!Begin

\* The steps of the page.
LEMMA AgentPageStep ==
  ASSUME AgentShows, AgentPageFits,
         \/ \E b \in AgentOf.Buys : Agent!Propose(b)
         \/ Agent!UseDashboard \/ Agent!Press \/ Agent!Cancel \/ Agent!Lookup \/ Agent!Leave \/ Agent!Return \/ Agent!Delivers
  PROVE  AgentPageFits'
<1>0. modal \in Moods /\ dialogue \in AgentOf.Buys \cup {AgentOf.NoBuy} /\ AgentOf.NoBuy \notin AgentOf.Buys
  BY ConstantsAssumption DEF AgentPageFits, AgentShows, Agent!BuysAssumption
<1>1. ASSUME NEW b \in AgentOf.Buys, Agent!Propose(b) PROVE AgentPageFits'
  <2>1. Agent!Show(Append(queue, b), dialogue, modal, runs) /\ UNCHANGED <<firing, looked, shown>>
    BY <1>1 DEF Agent!Propose, Agent!Queued
  <2>2. Append(queue, b) \in Seq(AgentOf.Buys)
    BY AppendProperties DEF AgentShows
  <2>3. modal' \in Moods /\ fallback' \in BOOLEAN /\ asked' \subseteq AgentOf.Buys
    BY <1>0, <2>1, <2>2, AgentShowFits
  <2> QED BY <2>1, <2>3 DEF AgentPageFits
<1>2. CASE Agent!UseDashboard
  BY <1>2 DEF Agent!UseDashboard, AgentPageFits
<1>3. CASE Agent!Press
  <2>1. dialogue \in AgentOf.Buys /\ UNCHANGED <<fallback, looked, shown>>
    BY <1>0, <1>3 DEF Agent!Press
  <2>2. Agent!Begin(dialogue) /\ modal' = "submitting" /\ asked' = asked \cup {dialogue}
    BY <1>3 DEF Agent!Press
  <2>3. firing' \subseteq AgentOf.Linked
    BY <2>1, <2>2, AgentBeginFits
  <2> QED BY <2>1, <2>2, <2>3 DEF AgentPageFits, Moods
<1>4. CASE Agent!Cancel
  <2>1. Agent!Show(Agent!Without(dialogue), AgentOf.NoBuy, modal, runs) /\ dialogue # AgentOf.NoBuy /\ UNCHANGED <<firing, looked, shown>>
    BY <1>4 DEF Agent!Cancel
  <2>2. modal' \in Moods /\ fallback' \in BOOLEAN /\ asked' \subseteq AgentOf.Buys
    BY <1>0, <2>1, AgentClosesFits
  <2> QED BY <2>1, <2>2 DEF AgentPageFits
<1>5. CASE Agent!Lookup
  BY <1>5 DEF Agent!Lookup, AgentPageFits
<1>6. CASE Agent!Leave
  BY <1>6 DEF Agent!Leave, AgentPageFits, Moods
<1>7. CASE Agent!Return
  BY <1>7 DEF Agent!Return, AgentPageFits
<1>8. ASSUME NEW kind \in AgentOf.Answers, NEW b \in AgentOf.Linked, Agent!Deliver(kind, b) PROVE AgentPageFits'
  <2>0. UNCHANGED <<looked, shown>> /\ b # AgentOf.NoBuy
    BY <1>0, <1>8, ConstantsAssumption DEF Agent!Deliver, Agent!BuysAssumption
  <2>1. CASE UNCHANGED <<queue, dialogue, modal, fallback, firing, runs, asked>>
    BY <2>0, <2>1 DEF AgentPageFits
  <2>2. CASE /\ dialogue = b /\ Agent!Begin(dialogue) /\ modal' \in {modal, "submitting"}
             /\ UNCHANGED <<queue, dialogue, fallback, asked>>
    <3>1. firing' \subseteq AgentOf.Linked
      BY <1>0, <2>0, <2>2, AgentBeginFits
    <3> QED BY <2>0, <2>2, <3>1 DEF AgentPageFits, Moods
  <2>3. CASE dialogue = b /\ Agent!Show(Agent!Without(dialogue), AgentOf.NoBuy, modal, runs) /\ UNCHANGED firing
    <3>1. modal' \in Moods /\ fallback' \in BOOLEAN /\ asked' \subseteq AgentOf.Buys
      BY <1>0, <2>0, <2>3, AgentClosesFits
    <3> QED BY <2>0, <2>3, <3>1 DEF AgentPageFits
  <2> QED BY <1>8, <2>1, <2>2, <2>3 DEF Agent!Deliver, Agent!Heeded
<1> QED BY <1>1, <1>2, <1>3, <1>4, <1>5, <1>6, <1>7, <1>8 DEF Agent!Delivers

\* The steps of a run, on the page.
LEMMA AgentRunsPage ==
  ASSUME AgentShows, AgentPageFits, NEW b \in AgentOf.Buys, NEW i \in DOMAIN runs[b], Agent!RunStep(b, i) PROVE AgentPageFits'
<1>0. dialogue \in AgentOf.Buys \cup {AgentOf.NoBuy} /\ "error" \in Moods /\ "success" \in Moods
  BY DEF AgentShows, Moods
<1>1. CASE Agent!Ends(b, i) \/ Agent!Commit(b, i)
  BY <1>1 DEF Agent!Ends, Agent!Commit, Agent!pageVars, AgentPageFits
<1>2. Agent!Released(b, i) \subseteq firing
  BY DEF Agent!Released
<1>3. CASE Agent!Unheard(b, i)
  BY <1>2, <1>3 DEF Agent!Unheard, AgentPageFits
<1>4. CASE Agent!Failed(b, i)
  <2>1. /\ Agent!Show(Agent!Without(dialogue), dialogue, "error", Agent!Gone(b, i)) /\ dialogue # AgentOf.NoBuy
        /\ firing' \subseteq firing /\ UNCHANGED <<looked, shown>>
    BY <1>2, <1>4 DEF Agent!Failed
  <2>2. modal' \in Moods /\ fallback' \in BOOLEAN /\ asked' \subseteq AgentOf.Buys
    BY <1>0, <2>1, AgentClosesFits
  <2> QED BY <2>1, <2>2 DEF AgentPageFits
<1>5. CASE Agent!Reports(b, i)
  BY <1>5 DEF Agent!Reports, AgentPageFits, Moods
<1>6. CASE Agent!Answered(b, i)
  <2> DEFINE rest == Agent!Without(dialogue)
             next == IF rest = <<>> THEN AgentOf.NoBuy ELSE rest[1]
  <2>1. firing' \subseteq firing /\ looked' = looked /\ (shown' = shown \/ shown' = shown \cup {b})
    BY <1>2, <1>6 DEF Agent!Answered
  <2>2. CASE dialogue # AgentOf.NoBuy /\ Agent!Show(rest, next, "success", Agent!Gone(b, i))
    <3>1. next \in AgentOf.Buys \cup {AgentOf.NoBuy}
      <4>1. rest \in Seq(AgentOf.Buys)
        BY <2>2, AgentDropIs
      <4> QED BY <4>1, EmptySeq, ElementOfSeq
    <3> HIDE DEF next
    <3>2. modal' \in Moods /\ fallback' \in BOOLEAN /\ asked' \subseteq AgentOf.Buys
      BY <1>0, <2>2, <3>1, AgentClosesFits
    <3> QED BY <2>1, <3>2 DEF AgentPageFits
  <2>3. CASE dialogue # AgentOf.NoBuy /\ Agent!Show(rest, dialogue, "error", Agent!Gone(b, i))
    <3>1. modal' \in Moods /\ fallback' \in BOOLEAN /\ asked' \subseteq AgentOf.Buys
      BY <1>0, <2>3, AgentClosesFits
    <3> QED BY <2>1, <3>1 DEF AgentPageFits
  <2>4. CASE UNCHANGED <<queue, dialogue, modal, fallback, asked>>
    BY <2>1, <2>4 DEF AgentPageFits
  <2> QED BY <1>6, <2>2, <2>3, <2>4 DEF Agent!Answered
<1> QED BY <1>1, <1>3, <1>4, <1>5, <1>6 DEF Agent!RunStep

\* The messages and the answers.
LEMMA AgentChatStep ==
  ASSUME AgentChatFits, Agent!Next PROVE AgentChatFits'
<1>0. AgentOf.Coded \subseteq AgentOf.Linked /\ AgentOf.Linked \subseteq AgentOf.Buys
  BY ConstantsAssumption DEF Agent!BuysAssumption
<1>1. ASSUME NEW b \in AgentOf.Buys, Agent!Propose(b) PROVE AgentChatFits'
  <2>1. Agent!Notified(b) /\ UNCHANGED <<requests, verdicts, spurned, events>>
    BY <1>1 DEF Agent!Propose
  <2>2. sent \subseteq sent' /\ sent' \subseteq AgentOf.Linked /\ coded' \subseteq sent' \cap AgentOf.Coded
    BY <1>0, <2>1 DEF Agent!Notified, AgentChatFits
  <2> QED BY <2>1, <2>2 DEF AgentChatFits
<1>2. CASE \/ Agent!UseDashboard \/ Agent!Press \/ Agent!Cancel \/ Agent!Lookup \/ Agent!Return \/ Agent!Leave \/ Agent!Delivers
           \/ \E e \in events : Agent!LoseEvent(e)
           \/ \E b \in AgentOf.Buys : Agent!Age(b)
  <2>1. UNCHANGED <<sent, coded, spurned, requests, verdicts>> /\ events' \subseteq events
    BY <1>2 DEF Agent!UseDashboard, Agent!Press, Agent!Cancel, Agent!Lookup, Agent!Return, Agent!Leave, Agent!Delivers, Agent!Deliver, Agent!LoseEvent,
                Agent!Age, Agent!botVars
  <2> QED BY <2>1 DEF AgentChatFits
<1>3. ASSUME NEW b \in AgentOf.Buys, NEW i \in DOMAIN runs[b], Agent!RunStep(b, i) PROVE AgentChatFits'
  BY <1>3 DEF Agent!RunStep, Agent!Ends, Agent!Unheard, Agent!Failed, Agent!Reports, Agent!Commit, Agent!Answered, Agent!botVars, AgentChatFits
<1>4. ASSUME NEW b \in AgentOf.Linked, NEW kind \in AgentOf.Answers, Agent!Taps(b, kind) PROVE AgentChatFits'
  <2>1. requests' = requests \cup {<<b, kind>>} /\ UNCHANGED <<sent, coded, spurned, verdicts, events>>
    BY <1>4 DEF Agent!Taps, Agent!TapInline, Agent!TapMiniApp, Agent!TapPage, Agent!Asks
  <2> QED BY <2>1 DEF AgentChatFits
<1>5. ASSUME NEW b \in AgentOf.Linked, Agent!TapInVain(b) PROVE AgentChatFits'
  BY <1>5 DEF Agent!TapInVain, AgentChatFits
<1>6. ASSUME NEW b \in AgentOf.Linked, NEW kind \in {"confirm", "deny"}, NEW to, Agent!Apply(b, kind, to) PROVE AgentChatFits'
  <2>1. /\ UNCHANGED <<sent, coded, spurned>> /\ requests' \subseteq requests /\ <<b, kind>> \in requests
        /\ events' \subseteq events \cup {<<kind, b>>}
        /\ verdicts' = verdicts \/ verdicts' = [verdicts EXCEPT ![b] = verdicts[b] \cup {kind}]
    BY <1>6 DEF Agent!Apply, Agent!Published
  <2>2. kind \in AgentOf.Answers
    BY <2>1 DEF AgentChatFits
  <2>3. verdicts' \in [AgentOf.Buys -> SUBSET AgentOf.Answers]
    <3>1. b \in AgentOf.Buys /\ verdicts \in [AgentOf.Buys -> SUBSET AgentOf.Answers]
      BY <1>0 DEF AgentChatFits
    <3>2. verdicts[b] \cup {kind} \in SUBSET AgentOf.Answers
      BY <2>2, <3>1
    <3> QED BY <2>1, <3>1, <3>2
  <2> QED BY <2>1, <2>2, <2>3 DEF AgentChatFits
<1> QED BY <1>1, <1>2, <1>3, <1>4, <1>5, <1>6 DEF Agent!Next, Agent!RunSteps, Agent!Confirm, Agent!Deny

\* The purchases, the tokens' ages and the faults.
LEMMA AgentBuyStep ==
  ASSUME AgentShows, AgentBoughtFits, Agent!Next PROVE AgentBoughtFits'
<1>0. AgentOf.MaxBuys \in Nat /\ AgentOf.MaxFaults \in Nat
  BY ConstantsAssumption DEF Agent!BoundsAssumption
<1>1. mishaps' = mishaps \/ (mishaps < AgentOf.MaxFaults /\ mishaps' = mishaps + 1)
  <2>1. ASSUME NEW b \in AgentOf.Buys, Agent!Propose(b) \/ Agent!Age(b)
        PROVE  mishaps' = mishaps \/ (mishaps < AgentOf.MaxFaults /\ mishaps' = mishaps + 1)
    BY <2>1 DEF Agent!Propose, Agent!Age, Agent!Notified, Agent!Fault
  <2>2. ASSUME \/ Agent!UseDashboard \/ Agent!Press \/ Agent!Cancel \/ Agent!Lookup \/ Agent!Leave \/ Agent!Return \/ Agent!Delivers
               \/ \E e \in events : Agent!LoseEvent(e)
        PROVE  mishaps' = mishaps \/ (mishaps < AgentOf.MaxFaults /\ mishaps' = mishaps + 1)
    BY <2>2 DEF Agent!UseDashboard, Agent!Press, Agent!Cancel, Agent!Lookup, Agent!Leave, Agent!Return, Agent!Delivers, Agent!Deliver, Agent!LoseEvent, Agent!Fault
  <2>3. ASSUME NEW b \in AgentOf.Buys, NEW i \in DOMAIN runs[b], Agent!RunStep(b, i)
        PROVE  mishaps' = mishaps \/ (mishaps < AgentOf.MaxFaults /\ mishaps' = mishaps + 1)
    BY <2>3 DEF Agent!RunStep, Agent!Ends, Agent!Unheard, Agent!Failed, Agent!Reports, Agent!Commit, Agent!Answered, Agent!Fault
  <2>4. ASSUME NEW b \in AgentOf.Linked, \/ \E kind \in AgentOf.Answers : Agent!Taps(b, kind)
                                     \/ Agent!TapInVain(b) \/ Agent!Confirm(b) \/ Agent!Deny(b)
        PROVE  mishaps' = mishaps \/ (mishaps < AgentOf.MaxFaults /\ mishaps' = mishaps + 1)
    BY <2>4 DEF Agent!Taps, Agent!TapInline, Agent!TapMiniApp, Agent!TapPage, Agent!Asks, Agent!TapInVain, Agent!Confirm, Agent!Deny, Agent!Apply, Agent!Fault
  <2> QED BY <2>1, <2>2, <2>3, <2>4 DEF Agent!Next, Agent!RunSteps
<1>2. mishaps' \in 0 .. AgentOf.MaxFaults
  BY <1>0, <1>1 DEF AgentBoughtFits
<1>3. CASE UNCHANGED <<tokenAge, purchased, receipts>>
  BY <1>2, <1>3 DEF AgentBoughtFits
<1>4. ASSUME NEW b \in AgentOf.Buys, Agent!Age(b) PROVE AgentBoughtFits'
  <2>1. tokenAge' = [tokenAge EXCEPT ![b] = tokenAge[b] + 1] /\ tokenAge[b] < 2 /\ UNCHANGED <<purchased, receipts>>
    BY <1>4 DEF Agent!Age
  <2>2. tokenAge' \in [AgentOf.Buys -> 0 .. 2]
    <3>1. tokenAge \in [AgentOf.Buys -> 0 .. 2] /\ tokenAge[b] + 1 \in 0 .. 2
      BY <2>1 DEF AgentBoughtFits
    <3> QED BY <2>1, <3>1
  <2> QED BY <1>2, <2>1, <2>2 DEF AgentBoughtFits
<1>5. ASSUME NEW b \in AgentOf.Buys, NEW i \in DOMAIN runs[b], Agent!RunStep(b, i) PROVE AgentBoughtFits'
  <2>1. CASE Agent!Ends(b, i)
    <3>1. UNCHANGED <<tokenAge, receipts>>
      BY <2>1 DEF Agent!Ends
    <3>2. purchased' = purchased \/ (purchased[b] < AgentOf.MaxBuys /\ purchased' = [purchased EXCEPT ![b] = purchased[b] + 1])
      BY <2>1 DEF Agent!Ends
    <3>3. purchased' \in [AgentOf.Buys -> 0 .. AgentOf.MaxBuys]
      <4>1. purchased \in [AgentOf.Buys -> 0 .. AgentOf.MaxBuys] /\ purchased[b] \in 0 .. AgentOf.MaxBuys
        BY DEF AgentBoughtFits
      <4>2. purchased[b] < AgentOf.MaxBuys => purchased[b] + 1 \in 0 .. AgentOf.MaxBuys
        BY <1>0, <4>1
      <4> QED BY <3>2, <4>1, <4>2
    <3> QED BY <1>2, <3>1, <3>3 DEF AgentBoughtFits
  <2>2. CASE Agent!Commit(b, i)
    <3>1. UNCHANGED <<tokenAge, purchased>> /\ (receipts' = receipts \/ receipts' = receipts \cup {<<runs[b][i].spends, b>>})
      BY <2>2 DEF Agent!Commit
    <3>2. runs[b][i].spends \in AgentOf.Buys
      BY <2>2 DEF Agent!Commit, AgentShows
    <3> QED BY <1>2, <3>1, <3>2 DEF AgentBoughtFits
  <2> QED BY <1>3, <1>5, <2>1, <2>2 DEF Agent!RunStep, Agent!Unheard, Agent!Failed, Agent!Reports, Agent!Answered, Agent!chainVars
<1>6. ASSUME \/ \E b \in AgentOf.Buys : Agent!Propose(b)
             \/ Agent!UseDashboard \/ Agent!Press \/ Agent!Cancel \/ Agent!Lookup \/ Agent!Leave \/ Agent!Return \/ Agent!Delivers
             \/ \E e \in events : Agent!LoseEvent(e)
             \/ \E b \in AgentOf.Linked, kind \in AgentOf.Answers : Agent!Taps(b, kind)
             \/ \E b \in AgentOf.Linked : Agent!TapInVain(b) \/ Agent!Confirm(b) \/ Agent!Deny(b)
      PROVE  UNCHANGED <<tokenAge, purchased, receipts>>
  BY <1>6 DEF Agent!Propose, Agent!UseDashboard, Agent!Press, Agent!Cancel, Agent!Lookup, Agent!Leave, Agent!Return, Agent!Delivers, Agent!Deliver,
              Agent!LoseEvent, Agent!Taps, Agent!TapInline, Agent!TapMiniApp, Agent!TapPage, Agent!Asks, Agent!TapInVain, Agent!Confirm, Agent!Deny,
              Agent!Apply, Agent!chainVars
<1> QED BY <1>3, <1>4, <1>5, <1>6 DEF Agent!Next, Agent!RunSteps

LEMMA AgentFitsSteps ==
  ASSUME AgentShows, AgentPageFits, AgentChatFits, AgentBoughtFits, Agent!Next
  PROVE  AgentPageFits' /\ AgentChatFits' /\ AgentBoughtFits'
<1>1. ASSUME \/ \E b \in AgentOf.Buys : Agent!Propose(b)
             \/ Agent!UseDashboard \/ Agent!Press \/ Agent!Cancel \/ Agent!Lookup \/ Agent!Leave \/ Agent!Return \/ Agent!Delivers
      PROVE  AgentPageFits'
  BY <1>1, AgentPageStep
<1>2. ASSUME NEW b \in AgentOf.Buys, NEW i \in DOMAIN runs[b], Agent!RunStep(b, i) PROVE AgentPageFits'
  BY <1>2, AgentRunsPage
<1>3. ASSUME \/ \E b \in AgentOf.Buys : Agent!Age(b)
             \/ \E e \in events : Agent!LoseEvent(e)
             \/ \E b \in AgentOf.Linked, kind \in AgentOf.Answers : Agent!Taps(b, kind)
             \/ \E b \in AgentOf.Linked : Agent!TapInVain(b) \/ Agent!Confirm(b) \/ Agent!Deny(b)
      PROVE  AgentPageFits'
  BY <1>3 DEF Agent!Age, Agent!LoseEvent, Agent!Taps, Agent!TapInline, Agent!TapMiniApp, Agent!TapPage, Agent!Asks, Agent!TapInVain, Agent!Confirm,
              Agent!Deny, Agent!Apply, Agent!pageVars, AgentPageFits
<1>4. AgentPageFits'
  BY <1>1, <1>2, <1>3 DEF Agent!Next, Agent!RunSteps
<1> QED BY <1>4, AgentChatStep, AgentBuyStep

LEMMA AgentFitsStarts ==
  ASSUME Agent!Init PROVE AgentPageFits /\ AgentChatFits /\ AgentBoughtFits
<1>1. AgentOf.MaxBuys \in Nat /\ AgentOf.MaxFaults \in Nat
  BY ConstantsAssumption DEF Agent!BoundsAssumption
<1>2. AgentPageFits
  BY DEF Agent!Init, AgentPageFits, Moods
<1>3. AgentChatFits
  BY DEF Agent!Init, AgentChatFits
<1>4. AgentBoughtFits
  <2>1. tokenAge = [b \in AgentOf.Buys |-> 0] /\ purchased = [b \in AgentOf.Buys |-> 0] /\ receipts = {} /\ mishaps = 0
    BY DEF Agent!Init
  <2>2. 0 \in 0 .. 2 /\ 0 \in 0 .. AgentOf.MaxBuys /\ 0 \in 0 .. AgentOf.MaxFaults
    BY <1>1
  <2> QED BY <2>1, <2>2 DEF AgentBoughtFits
<1> QED BY <1>2, <1>3, <1>4

\* A run belongs to a mounting of the page that was.
Within(s, v) == \A i \in DOMAIN s : s[i].visit <= v
RunsWithin == \A b \in Proposals : Within(runs[b], visit)

LEMMA WithinGone ==
  ASSUME NEW s \in Seq(BuyRun), NEW i \in DOMAIN s, NEW v, Within(s, v) PROVE Within(Agent!RemoveAt(s, i), v)
<1>1. \A j \in DOMAIN Agent!RemoveAt(s, i) : \E k \in DOMAIN s \ {i} : Agent!RemoveAt(s, i)[j] = s[k]
  BY Fewer
<1> QED BY <1>1 DEF Within

LEMMA WithinMore ==
  ASSUME BuysTyped, NEW s \in Seq(BuyRun), Within(s, visit) PROVE Within(Append(s, Agent!NewRun), visit)
<1>1. PICK r \in BuyRun : r = Agent!NewRun /\ r.visit = visit
  BY NewRunIs
<1>2. \A i \in DOMAIN Append(s, r) :
        (i \in DOMAIN s /\ Append(s, r)[i] = s[i]) \/ (i = Len(s) + 1 /\ Append(s, r)[i] = r)
  BY Started
<1>3. visit \in Nat
  BY DEF BuysTyped
<1> QED BY <1>1, <1>2, <1>3 DEF Within

LEMMA ShowWithin ==
  ASSUME BuysTyped, NEW q \in Seq(Proposals), NEW b \in Proposals \cup {NoProposal}, NEW status,
         NEW rs \in [Proposals -> Seq(BuyRun)], Agent!Show(q, b, status, rs),
         \A x \in Proposals : Within(rs[x], visit), visit' = visit
  PROVE  RunsWithin'
<1> DEFINE mounts == here /\ b = NoProposal /\ q # <<>> /\ Len(q) # Len(queue)
           now == IF mounts THEN q[1] ELSE b
           fires == mounts /\ Agent!AutoConfirmed(now) /\ tokenAge[now] = 0
<1>1. runs' = IF fires THEN [rs EXCEPT ![now] = Append(rs[now], Agent!NewRun)] ELSE rs
  BY DEF Agent!Show, NoProposal
<1>2. fires => now \in Proposals
  BY EmptySeq, ElementOfSeq
<1> HIDE DEF mounts, now, fires
<1>3. ASSUME NEW x \in Proposals PROVE Within(runs'[x], visit)
  <2>1. CASE fires /\ x = now
    <3>1. runs'[x] = Append(rs[x], Agent!NewRun) /\ rs[x] \in Seq(BuyRun)
      BY <1>1, <2>1
    <3> QED BY <3>1, WithinMore
  <2>2. CASE ~(fires /\ x = now)
    <3>1. runs'[x] = rs[x]
      BY <1>1, <2>2
    <3> QED BY <3>1
  <2> QED BY <2>1, <2>2
<1> QED BY <1>3 DEF RunsWithin

LEMMA BeginWithin ==
  ASSUME BuysTyped, RunsWithin, NEW b \in Proposals, Agent!Begin(b), visit' = visit PROVE RunsWithin'
<1>1. runs' = runs \/ runs' = [runs EXCEPT ![b] = Append(runs[b], Agent!NewRun)]
  BY DEF Agent!Begin
<1>2. runs \in [Proposals -> Seq(BuyRun)] /\ Within(Append(runs[b], Agent!NewRun), visit)
  BY WithinMore DEF BuysTyped, RunsWithin
<1> QED BY <1>1, <1>2 DEF RunsWithin

LEMMA GoneWithin ==
  ASSUME BuysTyped, RunsWithin, NEW b \in Proposals, NEW i \in DOMAIN runs[b], NEW x \in Proposals
  PROVE  Within(Agent!Gone(b, i)[x], visit)
<1>1. Agent!Gone(b, i) = [runs EXCEPT ![b] = Agent!RemoveAt(runs[b], i)] /\ runs \in [Proposals -> Seq(BuyRun)]
  BY DEF Agent!Gone, BuysTyped
<1>2. Within(Agent!RemoveAt(runs[b], i), visit)
  BY <1>1, WithinGone DEF RunsWithin
<1> QED BY <1>1, <1>2 DEF RunsWithin

LEMMA GoneTyped ==
  ASSUME BuysTyped, NEW b \in Proposals, NEW i \in DOMAIN runs[b]
  PROVE  Agent!Gone(b, i) \in [Proposals -> Seq(BuyRun)]
<1>1. Agent!Gone(b, i) = [runs EXCEPT ![b] = Agent!RemoveAt(runs[b], i)] /\ runs \in [Proposals -> Seq(BuyRun)]
  BY DEF Agent!Gone, BuysTyped
<1>2. Agent!RemoveAt(runs[b], i) \in Seq(BuyRun)
  BY <1>1, Removed
<1> QED BY <1>1, <1>2

LEMMA RunWithin ==
  ASSUME BuysTyped, RunsWithin, NEW b \in Proposals, NEW i \in DOMAIN runs[b], Agent!RunStep(b, i) PROVE RunsWithin'
<1>0. /\ visit' = visit /\ queue \in Seq(Proposals) /\ dialogue \in Proposals \cup {NoProposal}
      /\ runs \in [Proposals -> Seq(BuyRun)]
  BY DEF BuysTyped, Agent!RunStep, Agent!Ends, Agent!Unheard, Agent!Failed, Agent!Reports, Agent!Commit, Agent!Answered,
         Agent!pageVars
<1>1. ASSUME NEW r, r.visit = runs[b][i].visit, runs' = [runs EXCEPT ![b] = [runs[b] EXCEPT ![i] = r]] PROVE RunsWithin'
  <2>1. DOMAIN [runs[b] EXCEPT ![i] = r] = DOMAIN runs[b]
    OBVIOUS
  <2>2. Within([runs[b] EXCEPT ![i] = r], visit)
    BY <1>1 DEF RunsWithin, Within
  <2> QED BY <1>0, <1>1, <2>2 DEF RunsWithin
<1>2. ASSUME NEW place, runs' = Agent!MoveTo(b, i, place) PROVE RunsWithin'
  <2>1. runs' = [runs EXCEPT ![b] = [runs[b] EXCEPT ![i] = [runs[b][i] EXCEPT !.at = place]]]
    BY <1>2 DEF Agent!MoveTo
  <2>2. [runs[b][i] EXCEPT !.at = place].visit = runs[b][i].visit
    <3>1. runs[b][i] \in BuyRun
      BY <1>0, ElementOfSeq, LenProperties
    <3> QED BY <3>1 DEF BuyRun
  <2> QED BY <1>1, <2>1, <2>2
<1>3. CASE Agent!Ends(b, i) \/ Agent!Commit(b, i)
  <2>1. \E place : runs' = Agent!MoveTo(b, i, place)
    BY <1>3 DEF Agent!Ends, Agent!Commit
  <2> QED BY <1>2, <2>1
<1>4. CASE Agent!Reports(b, i)
  <2>1. runs' = [runs EXCEPT ![b] = [runs[b] EXCEPT ![i] = [runs[b][i] EXCEPT !.at = "commit", !.spends = dialogue]]]
    BY <1>4 DEF Agent!Reports
  <2>2. [runs[b][i] EXCEPT !.at = "commit", !.spends = dialogue].visit = runs[b][i].visit
    <3>1. runs[b][i] \in BuyRun
      BY <1>0, ElementOfSeq, LenProperties
    <3> QED BY <3>1 DEF BuyRun
  <2> QED BY <1>1, <2>1, <2>2
<1> DEFINE rs == Agent!Gone(b, i)
<1>5. rs \in [Proposals -> Seq(BuyRun)] /\ \A x \in Proposals : Within(rs[x], visit)
  BY GoneTyped, GoneWithin
<1> HIDE DEF rs
<1>6. CASE runs' = rs
  BY <1>0, <1>5, <1>6 DEF RunsWithin
<1>7. Agent!Without(dialogue) \in Seq(Proposals)
  BY <1>0, WithoutIs
<1>8. ASSUME NEW q \in Seq(Proposals), NEW d \in Proposals \cup {NoProposal}, NEW status, Agent!Show(q, d, status, rs)
      PROVE  RunsWithin'
  BY <1>0, <1>5, <1>8, ShowWithin
<1>9. CASE Agent!Failed(b, i)
  BY <1>0, <1>7, <1>8, <1>9 DEF Agent!Failed, rs
<1>10. CASE Agent!Answered(b, i)
  <2> DEFINE rest == Agent!Without(dialogue)
             next == IF rest = <<>> THEN NoProposal ELSE rest[1]
  <2>1. next \in Proposals \cup {NoProposal}
    BY <1>7, EmptySeq, ElementOfSeq
  <2>2. \/ Agent!Show(rest, next, "success", rs) \/ Agent!Show(rest, dialogue, "error", rs) \/ runs' = rs
    BY <1>10 DEF Agent!Answered, rs, NoProposal
  <2> HIDE DEF rest, next
  <2>3. rest \in Seq(Proposals)
    BY <1>7 DEF rest
  <2> QED BY <1>0, <1>6, <1>8, <2>1, <2>2, <2>3
<1>11. CASE Agent!Unheard(b, i)
  BY <1>6, <1>11 DEF Agent!Unheard, rs
<1> QED BY <1>3, <1>4, <1>9, <1>10, <1>11 DEF Agent!RunStep

LEMMA WithinSteps ==
  ASSUME BuysTyped, RunsWithin, Agent!Next PROVE RunsWithin'
<1>0. /\ queue \in Seq(Proposals) /\ dialogue \in Proposals \cup {NoProposal} /\ NoProposal \notin Proposals
      /\ runs \in [Proposals -> Seq(BuyRun)] /\ \A x \in Proposals : Within(runs[x], visit)
  BY ConstantsAssumption DEF BuysTyped, RunsWithin, Agent!BuysAssumption, Proposals, NoProposal
<1>1. ASSUME NEW q \in Seq(Proposals), NEW d \in Proposals \cup {NoProposal}, NEW status,
             Agent!Show(q, d, status, runs), visit' = visit
      PROVE  RunsWithin'
  BY <1>0, <1>1, ShowWithin
<1>2. ASSUME NEW b \in Proposals, Agent!Propose(b) PROVE RunsWithin'
  <2>1. Agent!Show(Append(queue, b), dialogue, modal, runs) /\ visit' = visit
    BY <1>2 DEF Agent!Propose, Agent!Queued
  <2>2. Append(queue, b) \in Seq(Proposals)
    BY <1>0, AppendProperties
  <2> QED BY <1>0, <1>1, <2>1, <2>2
<1>3. Agent!Without(dialogue) \in Seq(Proposals)
  BY <1>0, WithoutIs
<1>4. CASE Agent!Press
  <2>1. dialogue \in Proposals /\ visit' = visit /\ (Agent!Begin(dialogue) \/ runs' = runs)
    BY <1>0, <1>4 DEF Agent!Press, NoProposal
  <2> QED BY <2>1, BeginWithin DEF RunsWithin
<1>5. CASE Agent!Cancel
  <2>1. Agent!Show(Agent!Without(dialogue), NoProposal, modal, runs) /\ visit' = visit
    BY <1>5 DEF Agent!Cancel, NoProposal
  <2> QED BY <1>1, <1>3, <2>1
<1>6. CASE Agent!Return
  <2>1. runs' = runs /\ visit' = visit + 1 /\ visit \in Nat
    BY <1>6 DEF Agent!Return, BuysTyped
  <2>2. ASSUME NEW x \in Proposals, NEW i \in DOMAIN runs[x] PROVE runs[x][i].visit <= visit'
    <3>1. runs[x][i] \in BuyRun /\ runs[x][i].visit <= visit
      BY <1>0, ElementOfSeq, LenProperties DEF Within
    <3>2. runs[x][i].visit \in Nat
      BY <3>1 DEF BuyRun
    <3> QED BY <2>1, <3>1, <3>2
  <2> QED BY <2>1, <2>2 DEF RunsWithin, Within
<1>7. ASSUME NEW kind \in AgentOf.Answers, NEW b \in AgentOf.Linked, Agent!Deliver(kind, b) PROVE RunsWithin'
  <2>1. visit' = visit /\ b \in Proposals
    BY <1>7, LinkedAreBuys DEF Agent!Deliver
  <2>2. CASE runs' = runs
    BY <1>0, <2>1, <2>2 DEF RunsWithin
  <2>3. CASE dialogue = b /\ Agent!Begin(dialogue)
    BY <2>1, <2>3, BeginWithin
  <2>4. CASE Agent!Show(Agent!Without(dialogue), NoProposal, modal, runs)
    BY <1>1, <1>3, <2>1, <2>4
  <2> QED BY <1>7, <2>2, <2>3, <2>4 DEF Agent!Deliver, Agent!Heeded, NoProposal
<1>8. ASSUME UNCHANGED <<runs, visit>> PROVE RunsWithin'
  BY <1>0, <1>8 DEF RunsWithin
<1>9. ASSUME \/ Agent!UseDashboard \/ Agent!Lookup \/ Agent!Leave
             \/ \E b \in Proposals : Agent!Age(b)
             \/ \E e \in events : Agent!LoseEvent(e)
             \/ \E b \in AgentOf.Linked, kind \in AgentOf.Answers : Agent!Taps(b, kind)
             \/ \E b \in AgentOf.Linked : Agent!TapInVain(b) \/ Agent!Confirm(b) \/ Agent!Deny(b)
      PROVE  UNCHANGED <<runs, visit>>
  BY <1>9 DEF Agent!UseDashboard, Agent!Lookup, Agent!Leave, Agent!Age, Agent!LoseEvent, Agent!Taps, Agent!TapInline,
              Agent!TapMiniApp, Agent!TapPage, Agent!Asks, Agent!TapInVain, Agent!Confirm, Agent!Deny, Agent!Apply,
              Agent!pageVars
<1> QED BY <1>2, <1>4, <1>5, <1>6, <1>7, <1>8, <1>9, RunWithin DEF Agent!Next, Agent!Delivers, Agent!RunSteps, Proposals

AgentKeptAll == AgentInv /\ RunsWithin /\ AgentPageFits /\ AgentChatFits /\ AgentBoughtFits

LEMMA AgentShowsSo == ASSUME BuysTyped PROVE AgentShows
<1>1. ASSUME NEW b \in Proposals, NEW i \in DOMAIN runs[b], runs[b][i].at = "commit" PROVE runs[b][i].spends \in Proposals
  <2>1. runs[b][i] \in BuyRun
    BY ElementOfSeq, LenProperties DEF BuysTyped
  <2> QED BY <1>1, <2>1 DEF BuyRun
<1> QED BY <1>1 DEF BuysTyped, AgentShows, Proposals, NoProposal

LEMMA AgentKeptStarts == ASSUME Agent!Init PROVE AgentKeptAll
<1>1. RunsWithin
  BY DEF Agent!Init, RunsWithin, Within, Proposals
<1> QED BY <1>1, AgentStarts, AgentFitsStarts DEF AgentKeptAll

LEMMA AgentKeptSteps == ASSUME AgentKeptAll, Agent!Next PROVE AgentKeptAll'
<1>1. BuysTyped /\ AgentShows
  BY AgentShowsSo DEF AgentKeptAll, AgentInv
<1>2. AgentInv' /\ RunsWithin' /\ AgentPageFits' /\ AgentChatFits' /\ AgentBoughtFits'
  BY <1>1, AgentSteps, WithinSteps, AgentFitsSteps DEF AgentKeptAll
<1> QED BY <1>2 DEF AgentKeptAll

LEMMA AgentKeptStutters == ASSUME AgentKeptAll, UNCHANGED <<agentVars, mishaps>> PROVE AgentKeptAll'
<1>1. AgentInv'
  BY AgentStutters DEF AgentKeptAll
<1> QED BY <1>1 DEF AgentKeptAll, RunsWithin, Within, AgentPageFits, AgentChatFits, AgentBoughtFits, agentVars

LEMMA AgentIsTyped == ASSUME AgentKeptAll PROVE Agent!TypeOK
<1>0. BuysTyped /\ AnswersTyped /\ AgentPageFits /\ AgentChatFits /\ AgentBoughtFits
  BY DEF AgentKeptAll, AgentInv
<1>1. ASSUME NEW b \in AgentOf.Buys, NEW i \in DOMAIN runs[b]
      PROVE  runs[b][i] \in [visit : 0 .. visit, spends : AgentOf.Buys \cup {AgentOf.NoBuy},
                             at : {"sending", "ok", "failed", "commit", "recorded", "rejected"}]
  <2>1. runs[b][i] \in BuyRun /\ runs[b][i].visit <= visit /\ visit \in Nat
    BY <1>0, ElementOfSeq, LenProperties DEF BuysTyped, AgentKeptAll, RunsWithin, Within, Proposals
  <2>2. PICK r \in BuyRun : r = runs[b][i] /\ r.visit <= visit
    BY <2>1
  <2>3. r.visit \in 0 .. visit /\ r \in [visit : Nat, at : RunPlaces, spends : Proposals \cup {NoProposal}]
    BY <2>1, <2>2 DEF BuyRun
  <2>4. r \in [visit : 0 .. visit, spends : Proposals \cup {NoProposal}, at : RunPlaces]
    BY <2>3
  <2> QED BY <2>2, <2>4, Zenon DEF RunPlaces, Proposals, NoProposal
<1>2. /\ queue \in Seq(AgentOf.Buys) /\ dialogue \in AgentOf.Buys \cup {AgentOf.NoBuy} /\ here \in BOOLEAN /\ visit \in Nat
  BY <1>0 DEF BuysTyped, Proposals, NoProposal
<1>3. /\ row \in [AgentOf.Buys -> {"none", "pending", "confirmed", "denied", "expired"}]
      /\ token \in [AgentOf.Buys -> {"none", "live", "used"}]
  BY <1>0 DEF AnswersTyped, Proposals
<1>4. modal \in {"idle", "submitting", "committing", "success", "error"} /\ fallback \in BOOLEAN
      /\ firing \subseteq AgentOf.Linked /\ looked \subseteq AgentOf.Linked
      /\ asked \subseteq AgentOf.Buys /\ shown \subseteq AgentOf.Buys
  BY <1>0 DEF AgentPageFits, Moods
<1> QED BY <1>0, <1>1, <1>2, <1>3, <1>4 DEF Agent!TypeOK, AgentChatFits, AgentBoughtFits

-----------------------------------------------------------------------------
(* The same of one linked proposal followed alone *)

AlonePageFits ==
  /\ modal \in Moods /\ fallback \in BOOLEAN
  /\ firing \subseteq AloneAgent.Linked /\ looked \subseteq AloneAgent.Linked
  /\ asked \subseteq AloneAgent.Buys /\ shown \subseteq AloneAgent.Buys

AloneChatFits ==
  /\ sent \subseteq AloneAgent.Linked /\ coded \subseteq sent \cap AloneAgent.Coded /\ spurned \subseteq sent
  /\ requests \subseteq AloneAgent.Linked \X AloneAgent.Answers /\ events \subseteq AloneAgent.Answers \X AloneAgent.Linked
  /\ verdicts \in [AloneAgent.Buys -> SUBSET AloneAgent.Answers]

AloneBoughtFits ==
  /\ tokenAge \in [AloneAgent.Buys -> 0 .. 2] /\ purchased \in [AloneAgent.Buys -> 0 .. AloneAgent.MaxBuys]
  /\ receipts \subseteq AloneAgent.Buys \X AloneAgent.Buys /\ mishaps \in 0 .. AloneAgent.MaxFaults

\* What the page's own proofs say of the queue, the dialogue and the runs.
AloneShows ==
  /\ queue \in {<<>>, <<"a">>}
  /\ queue \in Seq(AloneAgent.Buys) /\ dialogue \in AloneAgent.Buys \cup {AloneAgent.NoBuy}
  /\ \A b \in AloneAgent.Buys : \A i \in DOMAIN runs[b] : runs[b][i].at = "commit" => runs[b][i].spends \in AloneAgent.Buys

LEMMA AloneConstants == Alone!BuysAssumption /\ Alone!AnswersAssumption /\ Alone!BoundsAssumption
<1>1. AloneAgent.Deep = {} /\ AloneAgent.MaxFaults = 3 /\ AloneAgent.MaxBuys = 2
  BY DEF AloneAgent, FaultyAgent
<1>2. Alone!BuysAssumption
  <2>1. {} \subseteq AloneAgent.Linked \ AloneAgent.Coded /\ "none" \notin {"a"}
    OBVIOUS
  <2> QED BY <1>1, <2>1, AloneIs DEF Alone!BuysAssumption
<1>3. Alone!AnswersAssumption
  BY AloneIs DEF Alone!AnswersAssumption
<1>4. Alone!BoundsAssumption
  BY <1>1, AloneIs DEF Alone!BoundsAssumption
<1> QED BY <1>2, <1>3, <1>4

\* Without a Scoped session nothing is authorized for the user.
LEMMA AloneShowFits ==
  ASSUME AlonePageFits, NEW q \in Seq(AloneAgent.Buys), NEW b \in AloneAgent.Buys \cup {AloneAgent.NoBuy}, NEW status \in Moods,
         NEW rs, Alone!Show(q, b, status, rs)
  PROVE  modal' \in Moods /\ fallback' \in BOOLEAN /\ asked' \subseteq AloneAgent.Buys
<1> DEFINE mounts == here /\ b = AloneAgent.NoBuy /\ q # <<>> /\ Len(q) # Len(queue)
           now == IF mounts THEN q[1] ELSE b
           auto == mounts /\ Alone!AutoConfirmed(now)
           fires == auto /\ tokenAge[now] = 0
<1>1. /\ modal' = CASE fires -> "submitting" [] auto /\ ~fires -> "error" [] ~auto /\ now = dialogue -> status [] OTHER -> "idle"
      /\ fallback' = (fallback /\ now = dialogue)
      /\ asked' = IF fires THEN asked \cup {now} ELSE asked
  BY DEF Alone!Show
<1>2. ~auto
  BY AloneIs DEF Alone!AutoConfirmed
<1> HIDE DEF now, auto
<1>3. asked' \subseteq AloneAgent.Buys
  BY <1>1, <1>2 DEF AlonePageFits
<1>4. modal' \in Moods
  BY <1>1, <1>2 DEF Moods
<1>5. fallback' \in BOOLEAN
  BY <1>1
<1> QED BY <1>3, <1>4, <1>5

LEMMA AloneDropIs ==
  ASSUME AloneShows, dialogue # AloneAgent.NoBuy PROVE Alone!Without(dialogue) \in Seq(AloneAgent.Buys)
<1>1. dialogue = "a" /\ queue \in {<<>>, <<"a">>}
  BY AloneIs DEF AloneShows
<1> QED BY <1>1, SoloWithout, EmptySeq

LEMMA AloneClosesFits ==
  ASSUME AloneShows, AlonePageFits, NEW b \in AloneAgent.Buys \cup {AloneAgent.NoBuy}, NEW status \in Moods, NEW rs, dialogue # AloneAgent.NoBuy,
         Alone!Show(Alone!Without(dialogue), b, status, rs)
  PROVE  modal' \in Moods /\ fallback' \in BOOLEAN /\ asked' \subseteq AloneAgent.Buys
<1>1. Alone!Without(dialogue) \in Seq(AloneAgent.Buys)
  BY AloneDropIs
<1> QED BY <1>1, AloneShowFits

LEMMA AloneBeginFits ==
  ASSUME AlonePageFits, NEW b \in AloneAgent.Buys, Alone!Begin(b)
  PROVE  firing' \subseteq AloneAgent.Linked
BY DEF AlonePageFits, Alone!Begin

\* The steps of the page.
LEMMA AlonePageStep ==
  ASSUME AloneShows, AlonePageFits,
         \/ \E b \in AloneAgent.Buys : Alone!Propose(b)
         \/ Alone!UseDashboard \/ Alone!Press \/ Alone!Cancel \/ Alone!Lookup \/ Alone!Leave \/ Alone!Return \/ Alone!Delivers
  PROVE  AlonePageFits'
<1>0. modal \in Moods /\ dialogue \in AloneAgent.Buys \cup {AloneAgent.NoBuy} /\ AloneAgent.NoBuy \notin AloneAgent.Buys
  BY AloneConstants DEF AlonePageFits, AloneShows, Alone!BuysAssumption
<1>1. ASSUME NEW b \in AloneAgent.Buys, Alone!Propose(b) PROVE AlonePageFits'
  <2>1. Alone!Show(Append(queue, b), dialogue, modal, runs) /\ UNCHANGED <<firing, looked, shown>>
    BY <1>1 DEF Alone!Propose, Alone!Queued
  <2>2. Append(queue, b) \in Seq(AloneAgent.Buys)
    BY AppendProperties DEF AloneShows
  <2>3. modal' \in Moods /\ fallback' \in BOOLEAN /\ asked' \subseteq AloneAgent.Buys
    BY <1>0, <2>1, <2>2, AloneShowFits
  <2> QED BY <2>1, <2>3 DEF AlonePageFits
<1>2. CASE Alone!UseDashboard
  BY <1>2 DEF Alone!UseDashboard, AlonePageFits
<1>3. CASE Alone!Press
  <2>1. dialogue \in AloneAgent.Buys /\ UNCHANGED <<fallback, looked, shown>>
    BY <1>0, <1>3 DEF Alone!Press
  <2>2. Alone!Begin(dialogue) /\ modal' = "submitting" /\ asked' = asked \cup {dialogue}
    BY <1>3 DEF Alone!Press
  <2>3. firing' \subseteq AloneAgent.Linked
    BY <2>1, <2>2, AloneBeginFits
  <2> QED BY <2>1, <2>2, <2>3 DEF AlonePageFits, Moods
<1>4. CASE Alone!Cancel
  <2>1. Alone!Show(Alone!Without(dialogue), AloneAgent.NoBuy, modal, runs) /\ dialogue # AloneAgent.NoBuy /\ UNCHANGED <<firing, looked, shown>>
    BY <1>4 DEF Alone!Cancel
  <2>2. modal' \in Moods /\ fallback' \in BOOLEAN /\ asked' \subseteq AloneAgent.Buys
    BY <1>0, <2>1, AloneClosesFits
  <2> QED BY <2>1, <2>2 DEF AlonePageFits
<1>5. CASE Alone!Lookup
  BY <1>5 DEF Alone!Lookup, AlonePageFits
<1>6. CASE Alone!Leave
  BY <1>6 DEF Alone!Leave, AlonePageFits, Moods
<1>7. CASE Alone!Return
  BY <1>7 DEF Alone!Return, AlonePageFits
<1>8. ASSUME NEW kind \in AloneAgent.Answers, NEW b \in AloneAgent.Linked, Alone!Deliver(kind, b) PROVE AlonePageFits'
  <2>0. UNCHANGED <<looked, shown>> /\ b # AloneAgent.NoBuy
    BY <1>0, <1>8, AloneConstants DEF Alone!Deliver, Alone!BuysAssumption
  <2>1. CASE UNCHANGED <<queue, dialogue, modal, fallback, firing, runs, asked>>
    BY <2>0, <2>1 DEF AlonePageFits
  <2>2. CASE /\ dialogue = b /\ Alone!Begin(dialogue) /\ modal' \in {modal, "submitting"}
             /\ UNCHANGED <<queue, dialogue, fallback, asked>>
    <3>1. firing' \subseteq AloneAgent.Linked
      BY <1>0, <2>0, <2>2, AloneBeginFits
    <3> QED BY <2>0, <2>2, <3>1 DEF AlonePageFits, Moods
  <2>3. CASE dialogue = b /\ Alone!Show(Alone!Without(dialogue), AloneAgent.NoBuy, modal, runs) /\ UNCHANGED firing
    <3>1. modal' \in Moods /\ fallback' \in BOOLEAN /\ asked' \subseteq AloneAgent.Buys
      BY <1>0, <2>0, <2>3, AloneClosesFits
    <3> QED BY <2>0, <2>3, <3>1 DEF AlonePageFits
  <2> QED BY <1>8, <2>1, <2>2, <2>3 DEF Alone!Deliver, Alone!Heeded
<1> QED BY <1>1, <1>2, <1>3, <1>4, <1>5, <1>6, <1>7, <1>8 DEF Alone!Delivers

\* The steps of a run, on the page.
LEMMA AloneRunsPage ==
  ASSUME AloneShows, AlonePageFits, NEW b \in AloneAgent.Buys, NEW i \in DOMAIN runs[b], Alone!RunStep(b, i) PROVE AlonePageFits'
<1>0. dialogue \in AloneAgent.Buys \cup {AloneAgent.NoBuy} /\ "error" \in Moods /\ "success" \in Moods
  BY DEF AloneShows, Moods
<1>1. CASE Alone!Ends(b, i) \/ Alone!Commit(b, i)
  BY <1>1 DEF Alone!Ends, Alone!Commit, Alone!pageVars, AlonePageFits
<1>2. Alone!Released(b, i) \subseteq firing
  BY DEF Alone!Released
<1>3. CASE Alone!Unheard(b, i)
  BY <1>2, <1>3 DEF Alone!Unheard, AlonePageFits
<1>4. CASE Alone!Failed(b, i)
  <2>1. /\ Alone!Show(Alone!Without(dialogue), dialogue, "error", Alone!Gone(b, i)) /\ dialogue # AloneAgent.NoBuy
        /\ firing' \subseteq firing /\ UNCHANGED <<looked, shown>>
    BY <1>2, <1>4 DEF Alone!Failed
  <2>2. modal' \in Moods /\ fallback' \in BOOLEAN /\ asked' \subseteq AloneAgent.Buys
    BY <1>0, <2>1, AloneClosesFits
  <2> QED BY <2>1, <2>2 DEF AlonePageFits
<1>5. CASE Alone!Reports(b, i)
  BY <1>5 DEF Alone!Reports, AlonePageFits, Moods
<1>6. CASE Alone!Answered(b, i)
  <2> DEFINE rest == Alone!Without(dialogue)
             next == IF rest = <<>> THEN AloneAgent.NoBuy ELSE rest[1]
  <2>1. firing' \subseteq firing /\ looked' = looked /\ (shown' = shown \/ shown' = shown \cup {b})
    BY <1>2, <1>6 DEF Alone!Answered
  <2>2. CASE dialogue # AloneAgent.NoBuy /\ Alone!Show(rest, next, "success", Alone!Gone(b, i))
    <3>1. next \in AloneAgent.Buys \cup {AloneAgent.NoBuy}
      <4>1. rest \in Seq(AloneAgent.Buys)
        BY <2>2, AloneDropIs
      <4> QED BY <4>1, EmptySeq, ElementOfSeq
    <3> HIDE DEF next
    <3>2. modal' \in Moods /\ fallback' \in BOOLEAN /\ asked' \subseteq AloneAgent.Buys
      BY <1>0, <2>2, <3>1, AloneClosesFits
    <3> QED BY <2>1, <3>2 DEF AlonePageFits
  <2>3. CASE dialogue # AloneAgent.NoBuy /\ Alone!Show(rest, dialogue, "error", Alone!Gone(b, i))
    <3>1. modal' \in Moods /\ fallback' \in BOOLEAN /\ asked' \subseteq AloneAgent.Buys
      BY <1>0, <2>3, AloneClosesFits
    <3> QED BY <2>1, <3>1 DEF AlonePageFits
  <2>4. CASE UNCHANGED <<queue, dialogue, modal, fallback, asked>>
    BY <2>1, <2>4 DEF AlonePageFits
  <2> QED BY <1>6, <2>2, <2>3, <2>4 DEF Alone!Answered
<1> QED BY <1>1, <1>3, <1>4, <1>5, <1>6 DEF Alone!RunStep

\* The messages and the answers.
LEMMA AloneChatStep ==
  ASSUME AloneChatFits, Alone!Next PROVE AloneChatFits'
<1>0. AloneAgent.Coded \subseteq AloneAgent.Linked /\ AloneAgent.Linked \subseteq AloneAgent.Buys
  BY AloneConstants DEF Alone!BuysAssumption
<1>1. ASSUME NEW b \in AloneAgent.Buys, Alone!Propose(b) PROVE AloneChatFits'
  <2>1. Alone!Notified(b) /\ UNCHANGED <<requests, verdicts, spurned, events>>
    BY <1>1 DEF Alone!Propose
  <2>2. sent \subseteq sent' /\ sent' \subseteq AloneAgent.Linked /\ coded' \subseteq sent' \cap AloneAgent.Coded
    BY <1>0, <2>1 DEF Alone!Notified, AloneChatFits
  <2> QED BY <2>1, <2>2 DEF AloneChatFits
<1>2. CASE \/ Alone!UseDashboard \/ Alone!Press \/ Alone!Cancel \/ Alone!Lookup \/ Alone!Return \/ Alone!Leave \/ Alone!Delivers
           \/ \E e \in events : Alone!LoseEvent(e)
           \/ \E b \in AloneAgent.Buys : Alone!Age(b)
  <2>1. UNCHANGED <<sent, coded, spurned, requests, verdicts>> /\ events' \subseteq events
    BY <1>2 DEF Alone!UseDashboard, Alone!Press, Alone!Cancel, Alone!Lookup, Alone!Return, Alone!Leave, Alone!Delivers, Alone!Deliver, Alone!LoseEvent,
                Alone!Age, Alone!botVars
  <2> QED BY <2>1 DEF AloneChatFits
<1>3. ASSUME NEW b \in AloneAgent.Buys, NEW i \in DOMAIN runs[b], Alone!RunStep(b, i) PROVE AloneChatFits'
  BY <1>3 DEF Alone!RunStep, Alone!Ends, Alone!Unheard, Alone!Failed, Alone!Reports, Alone!Commit, Alone!Answered, Alone!botVars, AloneChatFits
<1>4. ASSUME NEW b \in AloneAgent.Linked, NEW kind \in AloneAgent.Answers, Alone!Taps(b, kind) PROVE AloneChatFits'
  <2>1. requests' = requests \cup {<<b, kind>>} /\ UNCHANGED <<sent, coded, spurned, verdicts, events>>
    BY <1>4 DEF Alone!Taps, Alone!TapInline, Alone!TapMiniApp, Alone!TapPage, Alone!Asks
  <2> QED BY <2>1 DEF AloneChatFits
<1>5. ASSUME NEW b \in AloneAgent.Linked, Alone!TapInVain(b) PROVE AloneChatFits'
  BY <1>5 DEF Alone!TapInVain, AloneChatFits
<1>6. ASSUME NEW b \in AloneAgent.Linked, NEW kind \in {"confirm", "deny"}, NEW to, Alone!Apply(b, kind, to) PROVE AloneChatFits'
  <2>1. /\ UNCHANGED <<sent, coded, spurned>> /\ requests' \subseteq requests /\ <<b, kind>> \in requests
        /\ events' \subseteq events \cup {<<kind, b>>}
        /\ verdicts' = verdicts \/ verdicts' = [verdicts EXCEPT ![b] = verdicts[b] \cup {kind}]
    BY <1>6 DEF Alone!Apply, Alone!Published
  <2>2. kind \in AloneAgent.Answers
    BY <2>1 DEF AloneChatFits
  <2>3. verdicts' \in [AloneAgent.Buys -> SUBSET AloneAgent.Answers]
    <3>1. b \in AloneAgent.Buys /\ verdicts \in [AloneAgent.Buys -> SUBSET AloneAgent.Answers]
      BY <1>0 DEF AloneChatFits
    <3>2. verdicts[b] \cup {kind} \in SUBSET AloneAgent.Answers
      BY <2>2, <3>1
    <3> QED BY <2>1, <3>1, <3>2
  <2> QED BY <2>1, <2>2, <2>3 DEF AloneChatFits
<1> QED BY <1>1, <1>2, <1>3, <1>4, <1>5, <1>6 DEF Alone!Next, Alone!RunSteps, Alone!Confirm, Alone!Deny

\* The purchases, the tokens' ages and the faults.
LEMMA AloneBuyStep ==
  ASSUME AloneShows, AloneBoughtFits, Alone!Next PROVE AloneBoughtFits'
<1>0. AloneAgent.MaxBuys \in Nat /\ AloneAgent.MaxFaults \in Nat
  BY AloneConstants DEF Alone!BoundsAssumption
<1>1. mishaps' = mishaps \/ (mishaps < AloneAgent.MaxFaults /\ mishaps' = mishaps + 1)
  <2>1. ASSUME NEW b \in AloneAgent.Buys, Alone!Propose(b) \/ Alone!Age(b)
        PROVE  mishaps' = mishaps \/ (mishaps < AloneAgent.MaxFaults /\ mishaps' = mishaps + 1)
    BY <2>1 DEF Alone!Propose, Alone!Age, Alone!Notified, Alone!Fault
  <2>2. ASSUME \/ Alone!UseDashboard \/ Alone!Press \/ Alone!Cancel \/ Alone!Lookup \/ Alone!Leave \/ Alone!Return \/ Alone!Delivers
               \/ \E e \in events : Alone!LoseEvent(e)
        PROVE  mishaps' = mishaps \/ (mishaps < AloneAgent.MaxFaults /\ mishaps' = mishaps + 1)
    BY <2>2 DEF Alone!UseDashboard, Alone!Press, Alone!Cancel, Alone!Lookup, Alone!Leave, Alone!Return, Alone!Delivers, Alone!Deliver, Alone!LoseEvent, Alone!Fault
  <2>3. ASSUME NEW b \in AloneAgent.Buys, NEW i \in DOMAIN runs[b], Alone!RunStep(b, i)
        PROVE  mishaps' = mishaps \/ (mishaps < AloneAgent.MaxFaults /\ mishaps' = mishaps + 1)
    BY <2>3 DEF Alone!RunStep, Alone!Ends, Alone!Unheard, Alone!Failed, Alone!Reports, Alone!Commit, Alone!Answered, Alone!Fault
  <2>4. ASSUME NEW b \in AloneAgent.Linked, \/ \E kind \in AloneAgent.Answers : Alone!Taps(b, kind)
                                     \/ Alone!TapInVain(b) \/ Alone!Confirm(b) \/ Alone!Deny(b)
        PROVE  mishaps' = mishaps \/ (mishaps < AloneAgent.MaxFaults /\ mishaps' = mishaps + 1)
    BY <2>4 DEF Alone!Taps, Alone!TapInline, Alone!TapMiniApp, Alone!TapPage, Alone!Asks, Alone!TapInVain, Alone!Confirm, Alone!Deny, Alone!Apply, Alone!Fault
  <2> QED BY <2>1, <2>2, <2>3, <2>4 DEF Alone!Next, Alone!RunSteps
<1>2. mishaps' \in 0 .. AloneAgent.MaxFaults
  BY <1>0, <1>1 DEF AloneBoughtFits
<1>3. CASE UNCHANGED <<tokenAge, purchased, receipts>>
  BY <1>2, <1>3 DEF AloneBoughtFits
<1>4. ASSUME NEW b \in AloneAgent.Buys, Alone!Age(b) PROVE AloneBoughtFits'
  <2>1. tokenAge' = [tokenAge EXCEPT ![b] = tokenAge[b] + 1] /\ tokenAge[b] < 2 /\ UNCHANGED <<purchased, receipts>>
    BY <1>4 DEF Alone!Age
  <2>2. tokenAge' \in [AloneAgent.Buys -> 0 .. 2]
    <3>1. tokenAge \in [AloneAgent.Buys -> 0 .. 2] /\ tokenAge[b] + 1 \in 0 .. 2
      BY <2>1 DEF AloneBoughtFits
    <3> QED BY <2>1, <3>1
  <2> QED BY <1>2, <2>1, <2>2 DEF AloneBoughtFits
<1>5. ASSUME NEW b \in AloneAgent.Buys, NEW i \in DOMAIN runs[b], Alone!RunStep(b, i) PROVE AloneBoughtFits'
  <2>1. CASE Alone!Ends(b, i)
    <3>1. UNCHANGED <<tokenAge, receipts>>
      BY <2>1 DEF Alone!Ends
    <3>2. purchased' = purchased \/ (purchased[b] < AloneAgent.MaxBuys /\ purchased' = [purchased EXCEPT ![b] = purchased[b] + 1])
      BY <2>1 DEF Alone!Ends
    <3>3. purchased' \in [AloneAgent.Buys -> 0 .. AloneAgent.MaxBuys]
      <4>1. purchased \in [AloneAgent.Buys -> 0 .. AloneAgent.MaxBuys] /\ purchased[b] \in 0 .. AloneAgent.MaxBuys
        BY DEF AloneBoughtFits
      <4>2. purchased[b] < AloneAgent.MaxBuys => purchased[b] + 1 \in 0 .. AloneAgent.MaxBuys
        BY <1>0, <4>1
      <4> QED BY <3>2, <4>1, <4>2
    <3> QED BY <1>2, <3>1, <3>3 DEF AloneBoughtFits
  <2>2. CASE Alone!Commit(b, i)
    <3>1. UNCHANGED <<tokenAge, purchased>> /\ (receipts' = receipts \/ receipts' = receipts \cup {<<runs[b][i].spends, b>>})
      BY <2>2 DEF Alone!Commit
    <3>2. runs[b][i].spends \in AloneAgent.Buys
      BY <2>2 DEF Alone!Commit, AloneShows
    <3> QED BY <1>2, <3>1, <3>2 DEF AloneBoughtFits
  <2> QED BY <1>3, <1>5, <2>1, <2>2 DEF Alone!RunStep, Alone!Unheard, Alone!Failed, Alone!Reports, Alone!Answered, Alone!chainVars
<1>6. ASSUME \/ \E b \in AloneAgent.Buys : Alone!Propose(b)
             \/ Alone!UseDashboard \/ Alone!Press \/ Alone!Cancel \/ Alone!Lookup \/ Alone!Leave \/ Alone!Return \/ Alone!Delivers
             \/ \E e \in events : Alone!LoseEvent(e)
             \/ \E b \in AloneAgent.Linked, kind \in AloneAgent.Answers : Alone!Taps(b, kind)
             \/ \E b \in AloneAgent.Linked : Alone!TapInVain(b) \/ Alone!Confirm(b) \/ Alone!Deny(b)
      PROVE  UNCHANGED <<tokenAge, purchased, receipts>>
  BY <1>6 DEF Alone!Propose, Alone!UseDashboard, Alone!Press, Alone!Cancel, Alone!Lookup, Alone!Leave, Alone!Return, Alone!Delivers, Alone!Deliver,
              Alone!LoseEvent, Alone!Taps, Alone!TapInline, Alone!TapMiniApp, Alone!TapPage, Alone!Asks, Alone!TapInVain, Alone!Confirm, Alone!Deny,
              Alone!Apply, Alone!chainVars
<1> QED BY <1>3, <1>4, <1>5, <1>6 DEF Alone!Next, Alone!RunSteps

LEMMA AloneFitsSteps ==
  ASSUME AloneShows, AlonePageFits, AloneChatFits, AloneBoughtFits, Alone!Next
  PROVE  AlonePageFits' /\ AloneChatFits' /\ AloneBoughtFits'
<1>1. ASSUME \/ \E b \in AloneAgent.Buys : Alone!Propose(b)
             \/ Alone!UseDashboard \/ Alone!Press \/ Alone!Cancel \/ Alone!Lookup \/ Alone!Leave \/ Alone!Return \/ Alone!Delivers
      PROVE  AlonePageFits'
  BY <1>1, AlonePageStep
<1>2. ASSUME NEW b \in AloneAgent.Buys, NEW i \in DOMAIN runs[b], Alone!RunStep(b, i) PROVE AlonePageFits'
  BY <1>2, AloneRunsPage
<1>3. ASSUME \/ \E b \in AloneAgent.Buys : Alone!Age(b)
             \/ \E e \in events : Alone!LoseEvent(e)
             \/ \E b \in AloneAgent.Linked, kind \in AloneAgent.Answers : Alone!Taps(b, kind)
             \/ \E b \in AloneAgent.Linked : Alone!TapInVain(b) \/ Alone!Confirm(b) \/ Alone!Deny(b)
      PROVE  AlonePageFits'
  BY <1>3 DEF Alone!Age, Alone!LoseEvent, Alone!Taps, Alone!TapInline, Alone!TapMiniApp, Alone!TapPage, Alone!Asks, Alone!TapInVain, Alone!Confirm,
              Alone!Deny, Alone!Apply, Alone!pageVars, AlonePageFits
<1>4. AlonePageFits'
  BY <1>1, <1>2, <1>3 DEF Alone!Next, Alone!RunSteps
<1> QED BY <1>4, AloneChatStep, AloneBuyStep

LEMMA AloneFitsStarts ==
  ASSUME Alone!Init PROVE AlonePageFits /\ AloneChatFits /\ AloneBoughtFits
<1>1. AloneAgent.MaxBuys \in Nat /\ AloneAgent.MaxFaults \in Nat
  BY AloneConstants DEF Alone!BoundsAssumption
<1>2. AlonePageFits
  BY DEF Alone!Init, AlonePageFits, Moods
<1>3. AloneChatFits
  BY DEF Alone!Init, AloneChatFits
<1>4. AloneBoughtFits
  <2>1. tokenAge = [b \in AloneAgent.Buys |-> 0] /\ purchased = [b \in AloneAgent.Buys |-> 0] /\ receipts = {} /\ mishaps = 0
    BY DEF Alone!Init
  <2>2. 0 \in 0 .. 2 /\ 0 \in 0 .. AloneAgent.MaxBuys /\ 0 \in 0 .. AloneAgent.MaxFaults
    BY <1>1
  <2> QED BY <2>1, <2>2 DEF AloneBoughtFits
<1> QED BY <1>2, <1>3, <1>4

SoloToken == token \in [{"a"} -> {"none", "live", "used"}]

LEMMA SoloTokenSteps == ASSUME SoloToken, Alone!Next PROVE SoloToken'
<1>1. ASSUME token' = token PROVE SoloToken'
  BY <1>1 DEF SoloToken
<1>5. ASSUME NEW x, NEW mark \in {"live", "used"}, token' = [token EXCEPT ![x] = mark] PROVE SoloToken'
  BY <1>5 DEF SoloToken
<1>2. ASSUME NEW b \in AloneAgent.Buys, Alone!Propose(b) PROVE SoloToken'
  BY <1>2, <1>5 DEF Alone!Propose
<1>3. ASSUME NEW b \in AloneAgent.Buys, NEW i \in DOMAIN runs[b], Alone!RunStep(b, i) PROVE SoloToken'
  <2>1. CASE Alone!Commit(b, i)
    <3>1. token' = token \/ \E x : token' = [token EXCEPT ![x] = "used"]
      BY <2>1 DEF Alone!Commit
    <3> QED BY <1>1, <1>5, <3>1
  <2>2. CASE ~Alone!Commit(b, i)
    <3>1. token' = token
      BY <1>3, <2>2 DEF Alone!RunStep, Alone!Ends, Alone!Unheard, Alone!Failed, Alone!Reports, Alone!Answered, Alone!chainVars
    <3> QED BY <1>1, <3>1
  <2> QED BY <2>1, <2>2
<1>4. ASSUME \/ Alone!UseDashboard \/ Alone!Press \/ Alone!Cancel \/ Alone!Lookup \/ Alone!Leave \/ Alone!Return
             \/ Alone!Delivers
             \/ \E b \in AloneAgent.Buys : Alone!Age(b)
             \/ \E e \in events : Alone!LoseEvent(e)
             \/ \E b \in AloneAgent.Linked, kind \in AloneAgent.Answers : Alone!Taps(b, kind)
             \/ \E b \in AloneAgent.Linked : Alone!TapInVain(b) \/ Alone!Confirm(b) \/ Alone!Deny(b)
      PROVE  token' = token
  BY <1>4 DEF Alone!UseDashboard, Alone!Press, Alone!Cancel, Alone!Lookup, Alone!Leave, Alone!Return, Alone!Delivers,
              Alone!Deliver, Alone!Age, Alone!LoseEvent, Alone!Taps, Alone!TapInline, Alone!TapMiniApp, Alone!TapPage,
              Alone!Asks, Alone!TapInVain, Alone!Confirm, Alone!Deny, Alone!Apply, Alone!chainVars
<1> QED BY <1>1, <1>2, <1>3, <1>4 DEF Alone!Next, Alone!RunSteps

AloneKeptAll == AloneInv /\ SoloToken /\ AlonePageFits /\ AloneChatFits /\ AloneBoughtFits

\* What is said of the one run there is at most.
LEMMA SoloRunIs ==
  ASSUME SoloPage, NEW i \in DOMAIN runs["a"]
  PROVE  runs["a"][i] \in SoloRun /\ (runs["a"][i].at = "commit" => runs["a"][i].spends = "a")
<1>1. CASE runs["a"] = <<>>
  BY <1>1
<1>2. ASSUME NEW r \in SoloRun, Running(r)
      PROVE runs["a"][i] \in SoloRun /\ (runs["a"][i].at = "commit" => runs["a"][i].spends = "a")
  <2>1. runs["a"] = <<r>> /\ (r.at = "commit" => r.spends = "a")
    BY <1>2 DEF Running
  <2>2. DOMAIN runs["a"] = {1} /\ runs["a"][1] = r
    BY <2>1
  <2> QED BY <2>1, <2>2
<1> QED BY <1>1, <1>2 DEF SoloPage, Undecided, Settled

LEMMA AloneShowsSo == ASSUME SoloPage PROVE AloneShows
<1>1. ASSUME NEW b \in AloneAgent.Buys, NEW i \in DOMAIN runs[b], runs[b][i].at = "commit" PROVE runs[b][i].spends \in AloneAgent.Buys
  <2>1. b = "a"
    BY AloneIs
  <2> QED BY <1>1, <2>1, SoloRunIs, AloneIs
<1>2. queue \in {<<>>, <<"a">>} /\ dialogue \in {"a", "none"}
  BY DEF SoloPage
<1>3. queue \in Seq({"a"})
  <2>1. CASE queue = <<>>
    BY <2>1
  <2>2. CASE queue = <<"a">>
    BY <2>2
  <2> QED BY <1>2, <2>1, <2>2
<1> QED BY <1>1, <1>2, <1>3, AloneIs DEF AloneShows

LEMMA AloneKeptStarts == ASSUME Alone!Init PROVE AloneKeptAll
<1>1. SoloToken
  BY AloneIs DEF Alone!Init, SoloToken
<1> QED BY <1>1, AloneStarts, AloneFitsStarts DEF AloneKeptAll

LEMMA AloneKeptSteps == ASSUME AloneKeptAll, Alone!Next PROVE AloneKeptAll'
<1>1. SoloPage /\ AloneShows
  BY AloneShowsSo DEF AloneKeptAll, AloneInv
<1>2. AloneInv'
  BY SoloPageSteps, SoloAnswerSteps DEF AloneKeptAll, AloneInv
<1>3. SoloToken' /\ AlonePageFits' /\ AloneChatFits' /\ AloneBoughtFits'
  BY <1>1, AloneFitsSteps, SoloTokenSteps DEF AloneKeptAll
<1> QED BY <1>2, <1>3 DEF AloneKeptAll

LEMMA AloneKeptStutters == ASSUME AloneKeptAll, UNCHANGED <<agentVars, mishaps>> PROVE AloneKeptAll'
<1>1. AloneInv'
  BY AloneStutters DEF AloneKeptAll, agentVars
<1> QED BY <1>1 DEF AloneKeptAll, SoloToken, AlonePageFits, AloneChatFits, AloneBoughtFits, agentVars

LEMMA AloneIsTyped == ASSUME AloneKeptAll PROVE Alone!TypeOK
<1>0. SoloPage /\ SoloAnswers /\ AlonePageFits /\ AloneChatFits /\ AloneBoughtFits /\ AloneShows
  BY AloneShowsSo DEF AloneKeptAll, AloneInv
<1>1. ASSUME NEW b \in AloneAgent.Buys, NEW i \in DOMAIN runs[b]
      PROVE  runs[b][i] \in [visit : 0 .. visit, spends : AloneAgent.Buys \cup {AloneAgent.NoBuy},
                             at : {"sending", "ok", "failed", "commit", "recorded", "rejected"}]
  <2>1. b = "a" /\ visit = 0
    BY <1>0, AloneIs DEF SoloPage
  <2>2. PICK r \in SoloRun : r = runs[b][i]
    BY <1>0, <2>1, SoloRunIs
  <2>3. r \in [visit : 0 .. 0, spends : {"a"} \cup {"none"}, at : {"sending", "ok", "failed", "commit", "recorded", "rejected"}]
    BY DEF SoloRun
  <2> QED BY <2>1, <2>2, <2>3, AloneIs
<1>2. here \in BOOLEAN /\ visit \in Nat /\ queue \in Seq(AloneAgent.Buys) /\ dialogue \in AloneAgent.Buys \cup {AloneAgent.NoBuy}
  BY <1>0 DEF SoloPage, AloneShows
<1>3. row \in [AloneAgent.Buys -> {"none", "pending", "confirmed", "denied", "expired"}]
  BY <1>0, AloneIs DEF SoloAnswers
<1>4. token \in [AloneAgent.Buys -> {"none", "live", "used"}]
  BY AloneIs DEF AloneKeptAll, SoloToken
<1>5. modal \in {"idle", "submitting", "committing", "success", "error"} /\ fallback \in BOOLEAN
      /\ firing \subseteq AloneAgent.Linked /\ looked \subseteq AloneAgent.Linked
      /\ asked \subseteq AloneAgent.Buys /\ shown \subseteq AloneAgent.Buys
  BY <1>0 DEF AlonePageFits, Moods
<1> QED BY <1>0, <1>1, <1>2, <1>3, <1>4, <1>5 DEF Alone!TypeOK, AloneChatFits, AloneBoughtFits
=============================================================================
