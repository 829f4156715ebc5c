---------------------------- MODULE ScopedSession ----------------------------
(***************************************************************************)
(* Autonomous trading under a scoped session. The dashboard mints a        *)
(* session with a key of its own, the backend keeps its row (the mirror),  *)
(* the user pastes the key into a broker, and from then on the programs    *)
(* beside that broker trade without the user: they take the session's      *)
(* snapshot from the mirror, install its permission with the first         *)
(* operation, and let the broker sign. The dashboard revokes the row; the  *)
(* permission stays on chain, so that what stops a program is what it      *)
(* reads before it signs.                                                  *)
(*                                                                         *)
(* A session is its number: its key, its permission and its row have it.   *)
(***************************************************************************)
EXTENDS Naturals, FiniteSets, Sequences

CONSTANTS
  Brokers,
  Kinds,         \* programs beside each broker: "buy" the tools, "run" the reinvest runner
  MaxSessions,   \* bound: sessions minted
  Faults,        \* what goes wrong in this instance
  MaxFaults      \* bound: how often

SessionAssumption ==
  /\ Kinds \subseteq {"buy", "run"}
  /\ MaxSessions \in Nat /\ MaxFaults \in Nat
  /\ Faults \subseteq {"backend", "answer", "slow", "callback", "restart"}

VARIABLES
  rows,        \* agent_scoped_sessions: status, enable status, nonce its install was signed for
  due,         \* sessions whose validity is over
  draft,       \* the dashboard: the ceremony in progress, or the key it shows
  key,         \* broker -> session whose key it holds
  snapshots,   \* broker -> sessions whose snapshot it has stored
  clients,     \* <<broker, kind>> -> its attempt
  mempool,     \* operations submitted
  installed,   \* permissions installed on the account
  nonce,       \* the account's currentNonce
  callbacks,   \* broker -> installs it is telling the backend of
  indexer,     \* whether it has a cursor, and the logs before it
  faults

vars == <<rows, due, draft, key, snapshots, clients, mempool, installed, nonce, callbacks, indexer, faults>>

Id == 1 .. MaxSessions
Clients == Brokers \X Kinds
Idle == [at |-> "idle", s |-> 0, seen |-> 0, enable |-> FALSE]
NoDraft == [at |-> "none", nonce |-> 0, s |-> 0]

TypeOK ==
  /\ rows \in Seq([status : {"active", "revoked", "expired"}, enable : {"pending", "enabled", "failed"}, nonce : Nat])
  /\ Len(rows) <= MaxSessions
  /\ Cardinality({s \in DOMAIN rows : rows[s].status = "active"}) <= 1
  /\ due \subseteq DOMAIN rows
  /\ draft.at \in {"none", "signed", "reveal"}
  /\ key \in [Brokers -> {0} \cup DOMAIN rows]
  /\ snapshots \in [Brokers -> SUBSET DOMAIN rows]
  /\ clients \in [Clients -> [at : {"idle", "sync", "store", "gate", "install", "shares", "sign", "waiting", "landed"},
                              s : 0 .. MaxSessions, seen : 0 .. MaxSessions, enable : BOOLEAN]]
  /\ mempool \subseteq [client : Clients, s : Id, seen : 0 .. MaxSessions, enable : BOOLEAN]
  /\ installed \subseteq DOMAIN rows /\ nonce = Cardinality(installed)
  /\ callbacks \in [Brokers -> SUBSET installed]
  /\ indexer.logs \subseteq installed
  /\ faults \in 0 .. MaxFaults

Init ==
  /\ rows = <<>> /\ due = {} /\ draft = NoDraft
  /\ key = [b \in Brokers |-> 0] /\ snapshots = [b \in Brokers |-> {}]
  /\ clients = [c \in Clients |-> Idle]
  /\ mempool = {} /\ installed = {} /\ nonce = 0
  /\ callbacks = [b \in Brokers |-> {}]
  /\ indexer = [anchored |-> TRUE, logs |-> {}]
  /\ faults = 0

Fault(kind) == kind \in Faults /\ faults < MaxFaults /\ faults' = faults + 1

\* findLatestActive: the row of the session that is active and still valid.
LatestActive == {s \in DOMAIN rows : rows[s].status = "active" /\ s \notin due}

\* activeSessionId: a valid snapshot signed for by the key the broker holds.
ActiveSnapshot(b) == {s \in snapshots[b] : s \notin due /\ s = key[b]}

-----------------------------------------------------------------------------
(* The user *)

\* The passkey signs the install, for the nonce read from the chain.
Sign ==
  /\ draft.at # "signed" /\ Len(rows) < MaxSessions /\ LatestActive = {}
  /\ draft' = [at |-> "signed", nonce |-> nonce, s |-> 0]
  /\ UNCHANGED <<rows, due, key, snapshots, clients, mempool, installed, nonce, callbacks, indexer, faults>>

\* The rows past their validity are swept first. The key is shown only
\* when the answer comes. The dashboard always sends what the install needs, so
\* every row begins "pending"; one minted without it (enable_status null), whose
\* operations are sent as though it were installed, is not modelled.
Unswept == rows
Sweep == [s \in DOMAIN rows |-> IF rows[s].status = "active" /\ s \in due
                                THEN [rows[s] EXCEPT !.status = "expired"] ELSE rows[s]]
Mint ==
  /\ draft.at = "signed" /\ LatestActive = {}
  /\ rows' = Append(Sweep, [status |-> "active", enable |-> "pending", nonce |-> draft.nonce])
  /\ \/ draft' = [NoDraft EXCEPT !.at = "reveal", !.s = Len(rows) + 1] /\ UNCHANGED faults
     \/ Fault("answer") /\ draft' = NoDraft
  /\ UNCHANGED <<due, key, snapshots, clients, mempool, installed, nonce, callbacks, indexer>>

\* The key is put into a broker, which restarts: its callbacks are lost.
Paste(b) ==
  /\ draft.at = "reveal"
  /\ key' = [key EXCEPT ![b] = draft.s]
  /\ callbacks' = [callbacks EXCEPT ![b] = {}]
  /\ draft' = NoDraft
  /\ UNCHANGED <<rows, due, snapshots, clients, mempool, installed, nonce, indexer, faults>>

Revoke(s) ==
  /\ rows[s].status = "active"
  /\ rows' = [rows EXCEPT ![s].status = "revoked"]
  /\ UNCHANGED <<due, draft, key, snapshots, clients, mempool, installed, nonce, callbacks, indexer, faults>>

Expire(s) ==
  /\ s \notin due
  /\ due' = due \cup {s}
  /\ UNCHANGED <<rows, draft, key, snapshots, clients, mempool, installed, nonce, callbacks, indexer, faults>>

-----------------------------------------------------------------------------
(* One attempt *)

Goes(c, at) == clients' = [clients EXCEPT ![c].at = at]
Ends(c) == clients' = [clients EXCEPT ![c] = Idle]
Untouched == UNCHANGED <<rows, due, draft, key, installed, nonce, indexer>>

Probe(c) ==
  /\ clients[c].at = "idle" /\ key[c[1]] # 0
  /\ \/ \E s \in ActiveSnapshot(c[1]) : clients' = [clients EXCEPT ![c] = [Idle EXCEPT !.at = "gate", !.s = s]]
     \/ ActiveSnapshot(c[1]) = {} /\ Goes(c, "sync")
  /\ UNCHANGED <<snapshots, mempool, callbacks, faults>> /\ Untouched

\* syncSnapshotFromMirror: the mirror's row, if it is for the broker's key.
Sync(c) ==
  /\ clients[c].at = "sync"
  /\ \/ Fault("backend") /\ Ends(c)
     \/ /\ UNCHANGED faults
        /\ \/ LatestActive \cap {key[c[1]]} = {} /\ Ends(c)
           \/ \E s \in LatestActive \cap {key[c[1]]} :
                clients' = [clients EXCEPT ![c] = [Idle EXCEPT !.at = "store", !.s = s]]
  /\ UNCHANGED <<snapshots, mempool, callbacks>> /\ Untouched

Store(c) ==
  LET b == c[1] IN
  /\ clients[c].at = "store"
  /\ snapshots' = [snapshots EXCEPT ![b] = @ \cup {clients[c].s}]
  /\ \/ clients[c].s = key[b] /\ clients[c].s \notin due /\ Goes(c, "gate")
     \/ ~(clients[c].s = key[b] /\ clients[c].s \notin due) /\ Ends(c)
  /\ UNCHANGED <<mempool, callbacks, faults>> /\ Untouched

\* The mirror is read once more. The tools go on when that fails, the runner
\* does not. Only a row that is to be installed is compared with the snapshot.
Reads(c, s, at, enable) ==
  clients' = [clients EXCEPT ![c].at = at, ![c].seen = s, ![c].enable = enable]
Gone(c) ==
  /\ snapshots' = [snapshots EXCEPT ![c[1]] = @ \ {clients[c].s}]
  /\ Ends(c)
Compared(c, s) == IF s = clients[c].s THEN Reads(c, s, "install", TRUE) ELSE Ends(c)
Gate(c) ==
  /\ clients[c].at = "gate"
  /\ \/ clients[c].s \notin snapshots[c[1]] \ due /\ Ends(c) /\ UNCHANGED <<snapshots, faults>>
     \/ /\ clients[c].s \in snapshots[c[1]] \ due
        /\ \/ /\ Fault("backend") /\ UNCHANGED snapshots
              /\ \/ c[2] = "buy" /\ Reads(c, 0, "shares", FALSE)
                 \/ c[2] = "run" /\ Ends(c)
           \/ LatestActive = {} /\ Gone(c) /\ UNCHANGED faults
           \/ \E s \in LatestActive :
                /\ \/ rows[s].enable = "enabled" /\ Reads(c, s, "shares", FALSE)
                   \/ rows[s].enable = "pending" /\ c[2] = "buy" /\ Compared(c, s)
                   \/ rows[s].enable = "pending" /\ c[2] = "run" /\ Ends(c)
                   \/ rows[s].enable = "failed" /\ Ends(c)
                /\ UNCHANGED <<snapshots, faults>>
  /\ UNCHANGED <<mempool, callbacks>> /\ Untouched

\* The install material, and whether the nonce it was signed for is current.
StaleUnlessNext(s) == nonce # rows[s].nonce + 1
Stale(s) == nonce # rows[s].nonce
Install(c) ==
  /\ clients[c].at = "install"
  /\ \/ Fault("backend") /\ Ends(c)
     \/ /\ UNCHANGED faults
        /\ \/ Stale(clients[c].s) /\ Ends(c)
           \/ ~Stale(clients[c].s) /\ Goes(c, "shares")
  /\ UNCHANGED <<snapshots, mempool, callbacks>> /\ Untouched

\* encrypt-shares, mint-ephemeral: refused when no session is active.
Shares(c) ==
  /\ clients[c].at = "shares"
  /\ \/ Fault("backend") /\ Ends(c)
     \/ /\ UNCHANGED faults
        /\ \/ LatestActive = {} /\ Ends(c)
           \/ LatestActive # {} /\ Goes(c, "sign")
  /\ UNCHANGED <<snapshots, mempool, callbacks>> /\ Untouched

\* What the account accepts.
Valid(s, enable) == s \notin due /\ IF enable THEN s \notin installed /\ nonce = rows[s].nonce ELSE s \in installed

\* The sponsor simulates the operation, the broker signs it if its snapshot
\* is there and for the key it holds, the bundler takes it. A submission
\* whose answer is lost is taken for a refused one.
BrokerHas(c) == clients[c].s \in snapshots[c[1]] \ due
BrokerSigns(c) == BrokerHas(c) /\ clients[c].s = key[c[1]]
Submit(c) ==
  LET k == clients[c] IN
  /\ k.at = "sign"
  /\ \/ ~(Valid(k.s, k.enable) /\ BrokerSigns(c)) /\ Ends(c) /\ UNCHANGED <<mempool, faults>>
     \/ /\ Valid(k.s, k.enable) /\ BrokerSigns(c)
        /\ mempool' = mempool \cup {[client |-> c, s |-> k.s, seen |-> k.seen, enable |-> k.enable]}
        /\ \/ Goes(c, "waiting") /\ UNCHANGED faults
           \/ Fault("answer") /\ Ends(c)
  /\ UNCHANGED <<snapshots, callbacks>> /\ Untouched

\* The receipt: a tool whose operation installed tells the broker.
Receipt(c) ==
  /\ clients[c].at = "landed" /\ Ends(c)
  /\ callbacks' = IF clients[c].enable THEN [callbacks EXCEPT ![c[1]] = @ \cup {clients[c].s}] ELSE callbacks
  /\ UNCHANGED <<snapshots, mempool, faults>> /\ Untouched

\* No receipt within twelve seconds: the broker is not told.
Timeout(c) ==
  /\ clients[c].at = "waiting" /\ Ends(c)
  /\ \/ Fault("slow")
     \/ {o \in mempool : o.client = c} = {} /\ UNCHANGED faults
  /\ UNCHANGED <<snapshots, mempool, callbacks>> /\ Untouched

-----------------------------------------------------------------------------
(* The chain *)

Land(o) ==
  LET mine == clients[o.client].at = "waiting" /\ clients[o.client].s = o.s IN
  /\ mempool' = mempool \ {o}
  /\ \/ /\ ~Valid(o.s, o.enable)
        /\ UNCHANGED <<installed, nonce, indexer, clients>>
     \/ /\ Valid(o.s, o.enable)
        /\ clients' = IF mine THEN [clients EXCEPT ![o.client].at = "landed"] ELSE clients
        /\ installed' = IF o.enable THEN installed \cup {o.s} ELSE installed
        /\ nonce' = IF o.enable THEN nonce + 1 ELSE nonce
        /\ indexer' = IF o.enable /\ indexer.anchored THEN [indexer EXCEPT !.logs = @ \cup {o.s}] ELSE indexer
  /\ UNCHANGED <<rows, due, draft, key, snapshots, callbacks, faults>>

-----------------------------------------------------------------------------
(* The backend learns of an install *)

\* markValidatorEnabled: only a pending row changes, and only the session's
\* own, not the one that is active by now.
EnabledLatest(s) == rows' = [x \in DOMAIN rows |-> IF x \in LatestActive THEN [rows[x] EXCEPT !.enable = "enabled"] ELSE rows[x]]
Enabled(s) == rows' = IF rows[s].enable = "pending" THEN [rows EXCEPT ![s].enable = "enabled"] ELSE rows
Rest == UNCHANGED <<due, draft, key, snapshots, clients, mempool, installed, nonce>>

Callback(b, s) ==
  /\ s \in callbacks[b]
  /\ callbacks' = [callbacks EXCEPT ![b] = @ \ {s}]
  /\ \/ Enabled(s) /\ UNCHANGED faults
     \/ Fault("callback") /\ UNCHANGED rows
  /\ UNCHANGED indexer /\ Rest

\* The first tick after a start only takes the head as its cursor.
Anchor ==
  /\ ~indexer.anchored
  /\ indexer' = [indexer EXCEPT !.anchored = TRUE]
  /\ UNCHANGED <<rows, callbacks, faults>> /\ Rest

\* The cursor stays before a log whose row could not be written.
TickDrops(s) == s \in indexer.logs /\ indexer' = [indexer EXCEPT !.logs = @ \ {s}] /\ UNCHANGED <<rows, callbacks, faults>> /\ Rest
Tick(s) ==
  /\ s \in indexer.logs
  /\ indexer' = [indexer EXCEPT !.logs = @ \ {s}]
  /\ \/ rows[s].status = "active" /\ Enabled(s)
     \/ rows[s].status # "active" /\ UNCHANGED rows
  /\ UNCHANGED <<callbacks, faults>> /\ Rest

Restart ==
  /\ Fault("restart") /\ indexer.anchored
  /\ indexer' = [anchored |-> FALSE, logs |-> {}]
  /\ UNCHANGED <<rows, callbacks>> /\ Rest

\* Twelve minutes after the validity is over: what was under way is done.
Graced(s) ==
  /\ s \in due /\ s \notin indexer.logs
  /\ \A b \in Brokers : s \notin callbacks[b]
  /\ \A c \in Clients : clients[c].at = "landed" => clients[c].s # s
  /\ \A o \in mempool : o.s # s
Watchdog(s) ==
  /\ rows[s].status = "active" /\ rows[s].enable = "pending" /\ Graced(s)
  /\ rows' = [rows EXCEPT ![s].enable = "failed"]
  /\ UNCHANGED <<callbacks, indexer, faults>> /\ Rest

-----------------------------------------------------------------------------
Step(c) == Probe(c) \/ Sync(c) \/ Store(c) \/ Gate(c) \/ Install(c) \/ Shares(c) \/ Submit(c) \/ Receipt(c) \/ Timeout(c)

Next ==
  \/ Sign \/ Mint
  \/ \E b \in Brokers : Paste(b)
  \/ \E s \in DOMAIN rows : Revoke(s) \/ Expire(s) \/ Watchdog(s) \/ Tick(s)
  \/ \E c \in Clients : Step(c)
  \/ \E o \in mempool : Land(o)
  \/ \E b \in Brokers, s \in Id : Callback(b, s)
  \/ Anchor \/ Restart

Spec == Init /\ [][Next]_vars

\* The programs keep attempting, the chain and the backend's loops go on;
\* the user need not do anything.
FairSpec ==
  /\ Spec
  /\ \A c \in Clients : WF_vars(Step(c))
  /\ WF_vars(\E o \in mempool : Land(o))
  /\ WF_vars(Anchor)
  /\ \A s \in Id : WF_vars(s \in DOMAIN rows /\ Tick(s)) /\ WF_vars(\E b \in Brokers : Callback(b, s))

-----------------------------------------------------------------------------
(* Properties *)

\* An operation is submitted under a session only if the mirror, read on the
\* way, had that very session active (or could not be read, which the tools
\* accept): after a revocation a program stops at its next reading.
KillSwitch == \A o \in mempool : o.seen \in {o.s, 0}

\* A row says enabled only of a permission that is on the account.
EnabledIsInstalled == \A s \in DOMAIN rows : rows[s].enable = "enabled" => s \in installed

\* The first operation of a session whose key is in a broker installs its
\* permission, unless the session ends before, the user goes on to another
\* key, or another install took the nonce.
FirstBuyInstalls ==
  \A s \in Id, b \in Brokers :
    (s \in LatestActive /\ key[b] = s /\ nonce = rows[s].nonce)
      ~> (s \in installed \/ s \notin LatestActive \/ key[b] # s \/ nonce # rows[s].nonce)

\* An install becomes known: the row of an active session does not stay
\* pending while its permission is on the account.
InstallTold ==
  \A s \in Id : (s \in installed /\ s \in LatestActive) ~> (s \in DOMAIN rows /\ (rows[s].enable = "enabled" \/ s \notin LatestActive))

-----------------------------------------------------------------------------
(* Said of the code and not so: each has a counterexample under the faults *)
(* above, which the README tells.                                           *)

\* The watchdog gives up only on a permission that was never installed.
FailedNeverInstalled == \A s \in DOMAIN rows : rows[s].enable = "failed" => s \notin installed
=============================================================================
