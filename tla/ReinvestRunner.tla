--------------------------- MODULE ReinvestRunner ---------------------------
(***************************************************************************)
(* The reinvest runner: a process beside the broker that polls the         *)
(* backend for epochs its user can claim and, for each, submits one        *)
(* operation that claims the yield and buys shares with it. A cooldown in  *)
(* its memory keeps it from submitting twice while an operation settles; a *)
(* pidfile keeps a second runner, with a cooldown of its own, from         *)
(* starting. The runner is seen here with a session that permits all it    *)
(* does (ScopedSession has the gates) and one token, whose epochs are      *)
(* numbered.                                                               *)
(***************************************************************************)
EXTENDS Naturals, FiniteSets, FiniteSetsExt

CONSTANTS
  Runners,     \* processes that may be started
  None, Stale, \* no pidfile; one of a dead process
  Epochs,      \* epochs are 1 .. Epochs
  Lookback,    \* how many of the newest the gate looks at
  MaxOps,      \* bound: operations submitted
  Faults,      \* what goes wrong in this instance
  MaxFaults    \* bound: how often

ReinvestAssumption ==
  /\ None \notin Runners /\ Stale \notin Runners
  /\ Epochs \in Nat /\ Lookback \in Nat \ {0} /\ MaxOps \in Nat /\ MaxFaults \in Nat
  /\ Faults \subseteq {"backend", "answer", "slow", "hand", "market", "stop", "crash"}

VARIABLES
  proc,      \* runner -> where it is
  cooldown,  \* runner -> epochs it waits for
  pidfile,   \* the runner the file names
  stopper,   \* `muhaven-reinvest stop`: the runner it waits for
  current,   \* the newest funded epoch
  expired,   \* epochs past their claim window
  swept,     \* those whose rest the issuer has taken back
  market,    \* "open"; "unlisted": no share can be bought at the price the
             \* catalog shows; "shut": the purchase reverts
  claims,    \* epoch -> how its yield was claimed
  bought,    \* epoch -> purchases made with it
  nonce,     \* sequence of the permission's nonce key
  ops,       \* operations submitted, with their state
  audit,     \* rows of the cycle log
  faults

vars == <<proc, cooldown, pidfile, stopper, current, expired, swept, market, claims, bought, nonce, ops, audit, faults>>
chain == <<current, expired, swept, market, claims, bought, nonce>>

Epoch == 1 .. Epochs
Off == [at |-> "off", todo |-> {}, e |-> 0, n |-> 0, op |-> 0, ok |-> FALSE]
Alive(r) == proc[r].at # "off"
Op(n) == CHOOSE o \in ops : o.id = n
Pending(e) == {o \in ops : o.e = e /\ o.state = "pending"}

TypeOK ==
  /\ proc \in [Runners -> [at : {"off", "boot", "write", "sleep", "epoch", "sign", "waiting", "audit"},
                           todo : SUBSET Epoch, e : 0 .. Epochs, n : 0 .. MaxOps, op : 0 .. MaxOps, ok : BOOLEAN]]
  /\ cooldown \in [Runners -> SUBSET Epoch]
  /\ pidfile \in Runners \cup {None, Stale} /\ (pidfile \in Runners => Alive(pidfile))
  /\ stopper \in Runners \cup {None}
  /\ current \in 0 .. Epochs /\ expired \subseteq Epoch /\ swept \subseteq expired
  /\ market \in {"open", "unlisted", "shut"}
  /\ claims \in [Epoch -> {"no", "batch", "hand"}] /\ bought \in [Epoch -> 0 .. MaxOps]
  /\ nonce \in 0 .. MaxOps /\ nonce = Cardinality({o \in ops : o.state \in {"done", "reverted"}})
  /\ ops \subseteq [id : 1 .. MaxOps, r : Runners, e : Epoch, n : 0 .. MaxOps, state : {"pending", "done", "reverted", "dropped"}]
  /\ Cardinality({o.id : o \in ops}) = Cardinality(ops)
  /\ audit \subseteq [e : Epoch, op : 1 .. MaxOps, tx : BOOLEAN]
  /\ faults \in 0 .. MaxFaults

Init ==
  /\ proc = [r \in Runners |-> Off] /\ cooldown = [r \in Runners |-> {}]
  /\ pidfile = None /\ stopper = None
  /\ current = 0 /\ expired = {} /\ swept = {} /\ market = "open"
  /\ claims = [e \in Epoch |-> "no"] /\ bought = [e \in Epoch |-> 0]
  /\ nonce = 0 /\ ops = {} /\ audit = {} /\ faults = 0

Fault(kind) == kind \in Faults /\ faults < MaxFaults /\ faults' = faults + 1
Goes(r, at) == proc' = [proc EXCEPT ![r].at = at]

-----------------------------------------------------------------------------
(* Starting and stopping *)

Start(r) ==
  /\ ~Alive(r)
  /\ Goes(r, "boot") /\ cooldown' = [cooldown EXCEPT ![r] = {}]
  /\ UNCHANGED <<pidfile, stopper, ops, audit, faults>> /\ UNCHANGED chain

\* reinvestRunnerPid: a live runner in the file, or a stale file removed.
Boot(r) ==
  /\ proc[r].at = "boot"
  /\ \/ pidfile \in Runners /\ proc' = [proc EXCEPT ![r] = Off] /\ UNCHANGED pidfile
     \/ pidfile \notin Runners /\ Goes(r, "write") /\ pidfile' = None
  /\ UNCHANGED <<cooldown, stopper, ops, audit, faults>> /\ UNCHANGED chain

Write(r) ==
  /\ proc[r].at = "write"
  /\ pidfile' = r /\ Goes(r, "sleep")
  /\ UNCHANGED <<cooldown, stopper, ops, audit, faults>> /\ UNCHANGED chain

\* `stop` signals the runner in the file; the runner removes the file and
\* exits wherever it is; `stop` waits for that and removes the file again.
Stop ==
  /\ stopper = None /\ pidfile \in Runners /\ Fault("stop")
  /\ stopper' = pidfile
  /\ UNCHANGED <<proc, cooldown, pidfile, ops, audit>> /\ UNCHANGED chain

Exit(r) ==
  /\ stopper = r /\ Alive(r)
  /\ proc' = [proc EXCEPT ![r] = Off] /\ pidfile' = None
  /\ UNCHANGED <<cooldown, stopper, ops, audit, faults>> /\ UNCHANGED chain

Stopped ==
  /\ stopper # None /\ ~Alive(stopper)
  /\ stopper' = None /\ pidfile' = None
  /\ UNCHANGED <<proc, cooldown, ops, audit, faults>> /\ UNCHANGED chain

Crash(r) ==
  /\ Alive(r) /\ Fault("crash")
  /\ proc' = [proc EXCEPT ![r] = Off]
  /\ pidfile' = IF pidfile = r THEN Stale ELSE pidfile
  /\ UNCHANGED <<cooldown, stopper, ops, audit>> /\ UNCHANGED chain

-----------------------------------------------------------------------------
(* One cycle *)

Claimable(e) == e <= current /\ e \notin expired /\ claims[e] = "no"
Window == {e \in Epoch : e <= current /\ e + Lookback > current}

\* findClaimableEpochs: funded, open, not claimed, among the newest.
Gate(r) ==
  /\ proc[r].at = "sleep"
  /\ \/ Fault("backend") /\ UNCHANGED proc
     \/ /\ proc' = [proc EXCEPT ![r].at = "epoch", ![r].todo = {e \in Window : Claimable(e)}]
        /\ UNCHANGED faults
  /\ UNCHANGED <<cooldown, pidfile, stopper, ops, audit>> /\ UNCHANGED chain

CycleEnds(r) ==
  /\ proc[r].at = "epoch" /\ proc[r].todo = {}
  /\ proc' = [proc EXCEPT ![r] = [Off EXCEPT !.at = "sleep"]]
  /\ UNCHANGED <<cooldown, pidfile, stopper, ops, audit, faults>> /\ UNCHANGED chain

\* The newest first. One on cooldown is passed over, and so is one that the
\* catalog has no price of, or whose snapshot it disagrees on, or whose share
\* costs more than the budget, cycle after cycle. For another the gates of the
\* execution are passed and the nonce is read, or it is skipped.
Forgets(r, e) == FALSE
ForEver(r, e) == e \in cooldown[r] \/ \E o \in ops : o.r = r /\ o.e = e
Cooling(r, e) == e \in cooldown[r]
Prepare(r) ==
  LET e == Max(proc[r].todo) rest == proc[r].todo \ {e} IN
  /\ proc[r].at = "epoch" /\ proc[r].todo # {}
  /\ \/ /\ Cooling(r, e) /\ UNCHANGED faults
        /\ proc' = [proc EXCEPT ![r].todo = rest]
     \/ /\ ~Cooling(r, e) /\ Fault("backend")
        /\ proc' = [proc EXCEPT ![r].todo = rest]
     \/ /\ ~Cooling(r, e) /\ market = "unlisted" /\ UNCHANGED faults
        /\ proc' = [proc EXCEPT ![r].todo = rest]
     \/ /\ ~Cooling(r, e) /\ market # "unlisted" /\ UNCHANGED faults
        /\ proc' = [proc EXCEPT ![r] = [@ EXCEPT !.at = "sign", !.todo = rest, !.e = e, !.n = nonce]]
  /\ UNCHANGED <<cooldown, pidfile, stopper, ops, audit>> /\ UNCHANGED chain

\* The sponsor simulates the batch, claim and purchase, and the bundler takes
\* it; one with a nonce that is in use it refuses, or takes in the place of the
\* other, as the fees go. An answer that is lost is taken for a refusal. The
\* snapshot pays whoever has not claimed until it is swept, whatever the window.
Pays(e) == e <= current /\ e \notin swept /\ claims[e] = "no"
Simulated(e) == Pays(e) /\ market # "shut"
Replaced(n) == {IF o.n = n /\ o.state = "pending" THEN [o EXCEPT !.state = "dropped"] ELSE o : o \in ops}
Submit(r) ==
  LET e == proc[r].e n == proc[r].n id == Cardinality(ops) + 1
      used == \E o \in ops : o.n = n /\ o.state = "pending" IN
  /\ proc[r].at = "sign"
  /\ \/ /\ ~Simulated(e) \/ n # nonce \/ used
        /\ Goes(r, "epoch") /\ UNCHANGED <<ops, faults>>
     \/ /\ Simulated(e) /\ n = nonce /\ id <= MaxOps
        /\ ops' = Replaced(n) \cup {[id |-> id, r |-> r, e |-> e, n |-> n, state |-> "pending"]}
        /\ \/ proc' = [proc EXCEPT ![r] = [@ EXCEPT !.at = "waiting", !.op = id]] /\ UNCHANGED faults
           \/ Fault("answer") /\ Goes(r, "epoch")
  /\ UNCHANGED <<cooldown, pidfile, stopper, audit>> /\ UNCHANGED chain

\* From here every result is a submission: the cooldown is set, the cycle
\* recorded, with its transaction if there is a receipt.
Result(r, ok) ==
  /\ proc' = [proc EXCEPT ![r] = [@ EXCEPT !.at = "audit", !.ok = ok]]
  /\ cooldown' = [cooldown EXCEPT ![r] = @ \cup {proc[r].e}]
  /\ UNCHANGED <<pidfile, stopper, ops, audit>> /\ UNCHANGED chain
ResultOnReceipt(r, ok) ==
  /\ proc' = [proc EXCEPT ![r] = [@ EXCEPT !.at = "audit", !.ok = ok]]
  /\ cooldown' = IF ok THEN [cooldown EXCEPT ![r] = @ \cup {proc[r].e}] ELSE cooldown
  /\ UNCHANGED <<pidfile, stopper, ops, audit>> /\ UNCHANGED chain
Results(r, ok) == Result(r, ok)

Receipt(r) ==
  /\ proc[r].at = "waiting" /\ Op(proc[r].op).state \in {"done", "reverted"}
  /\ Results(r, TRUE) /\ UNCHANGED faults

NoReceipt(r) ==
  /\ proc[r].at = "waiting"
  /\ \/ Op(proc[r].op).state = "dropped" /\ UNCHANGED faults
     \/ Op(proc[r].op).state = "pending" /\ Fault("slow")
  /\ Results(r, FALSE)

\* One row per epoch (within two hours); a row that cannot be written is
\* let go.
Unrecorded(e) == ~\E row \in audit : row.e = e
Record(r) ==
  /\ proc[r].at = "audit" /\ Goes(r, "epoch")
  /\ \/ audit' = (IF Unrecorded(proc[r].e) THEN audit \cup {[e |-> proc[r].e, op |-> proc[r].op, tx |-> proc[r].ok]} ELSE audit)
        /\ UNCHANGED faults
     \/ Fault("backend") /\ UNCHANGED audit
  /\ UNCHANGED <<cooldown, pidfile, stopper, ops>> /\ UNCHANGED chain

\* Half an hour passes, in which an operation is mined or dropped.
Elapses(r, e) ==
  /\ e \in cooldown[r] /\ Pending(e) = {}
  /\ cooldown' = [cooldown EXCEPT ![r] = @ \ {e}]
  /\ UNCHANGED <<proc, pidfile, stopper, ops, audit, faults>> /\ UNCHANGED chain

-----------------------------------------------------------------------------
(* The chain *)

Local == UNCHANGED <<proc, cooldown, pidfile, stopper, audit>>

Fund ==
  /\ current < Epochs /\ current' = current + 1
  /\ UNCHANGED <<expired, swept, market, claims, bought, nonce, ops, faults>> /\ Local

Expire(e) ==
  /\ e <= current /\ e \notin expired
  /\ expired' = expired \cup {e}
  /\ UNCHANGED <<current, swept, market, claims, bought, nonce, ops, faults>> /\ Local

Sweep(e) ==
  /\ e \in expired \ swept
  /\ swept' = swept \cup {e}
  /\ UNCHANGED <<current, expired, market, claims, bought, nonce, ops, faults>> /\ Local

\* The user claims with the passkey.
ClaimByHand(e) ==
  /\ Pays(e) /\ Fault("hand")
  /\ claims' = [claims EXCEPT ![e] = "hand"]
  /\ UNCHANGED <<current, expired, swept, market, bought, nonce, ops>> /\ Local

\* The price leaves the catalog or the budget; or the subscription is paused,
\* its price out of date, or the user no longer eligible.
Close(m) ==
  /\ market = "open" /\ Fault("market") /\ market' = m
  /\ UNCHANGED <<current, expired, swept, claims, bought, nonce, ops>> /\ Local

Reopen ==
  /\ market # "open" /\ market' = "open"
  /\ UNCHANGED <<current, expired, swept, claims, bought, nonce, ops, faults>> /\ Local

\* The batch claims and buys in one execution that reverts as a whole.
EachOnItsOwn(e) ==
  /\ claims' = IF Pays(e) THEN [claims EXCEPT ![e] = "batch"] ELSE claims
  /\ bought' = [bought EXCEPT ![e] = IF market = "shut" THEN @ ELSE @ + 1]
Batch(e) ==
  IF Simulated(e) THEN claims' = [claims EXCEPT ![e] = "batch"] /\ bought' = [bought EXCEPT ![e] = @ + 1]
                  ELSE UNCHANGED <<claims, bought>>
Land(o) ==
  LET done == Simulated(o.e) IN
  /\ o.state = "pending" /\ o.n = nonce
  /\ Batch(o.e) /\ nonce' = nonce + 1
  /\ ops' = (ops \ {o}) \cup {[o EXCEPT !.state = IF done THEN "done" ELSE "reverted"]}
  /\ UNCHANGED <<current, expired, swept, market, faults>> /\ Local

Drop(o) ==
  /\ o.state = "pending" /\ Fault("slow")
  /\ ops' = (ops \ {o}) \cup {[o EXCEPT !.state = "dropped"]}
  /\ UNCHANGED chain /\ Local

-----------------------------------------------------------------------------
Works(r) == Boot(r) \/ Write(r) \/ Gate(r) \/ CycleEnds(r) \/ Prepare(r) \/ Submit(r) \/ Receipt(r) \/ NoReceipt(r) \/ Record(r)

Next ==
  \/ \E r \in Runners : Start(r) \/ Works(r) \/ Exit(r) \/ Crash(r) \/ \E e \in Epoch : Elapses(r, e)
  \/ Stop \/ Stopped
  \/ Fund \/ \E e \in Epoch : Expire(e) \/ Sweep(e) \/ ClaimByHand(e)
  \/ Reopen \/ \E m \in {"unlisted", "shut"} : Close(m)
  \/ \E o \in ops : Land(o) \/ Drop(o)

Spec == Init /\ [][Next]_vars

\* A runner that was started goes on, operations are mined, cooldowns end.
FairSpec ==
  /\ Spec
  /\ \A r \in Runners : WF_vars(Works(r)) /\ WF_vars(\E e \in Epoch : Elapses(r, e))
  /\ WF_vars(\E o \in ops : Land(o))

-----------------------------------------------------------------------------
(* Properties *)

\* A purchase goes with the yield it reinvests: each epoch buys once, and only
\* if this very batch claimed it, whatever is submitted how often. (The sum it
\* spends is the runner's budget; the yield stays encrypted.)
BuyIsClaimed == \A e \in Epoch : bought[e] = IF claims[e] = "batch" THEN 1 ELSE 0

\* While an operation for an epoch settles, no second one is submitted.
SubmitsNoSecond ==
  \A e \in Epoch : Pending(e) # {} => Cardinality({o \in ops' : o.e = e}) = Cardinality({o \in ops : o.e = e})
OnePending == [][SubmitsNoSecond]_vars

\* Every operation leaves the runner's hands recorded: none is submitted
\* that the runner reports as skipped.
SubmittedIsHeld ==
  \A o \in ops : o.state = "pending" /\ Alive(o.r) =>
    o.e \in cooldown[o.r] \/ (proc[o.r].at \in {"waiting", "audit"} /\ proc[o.r].op = o.id)

\* An epoch that stays claimable among the newest is reinvested, as long as
\* a runner is up and its token can be bought: one priced in the catalog within
\* the budget, whose purchase does not revert. While it cannot the runner passes
\* the epoch over, or is refused; it takes it up once the token can be bought.
Reinvested ==
  \A e \in Epoch :
    ((e \in Window /\ Claimable(e) /\ market = "open" /\ \E r \in Runners : Alive(r))
      ~> (~Claimable(e) \/ e \notin Window \/ market # "open" \/ Cardinality(ops) = MaxOps \/ \A r \in Runners : ~Alive(r)))

-----------------------------------------------------------------------------
(* Said of the code and not so: each has a counterexample under the faults *)
(* above, which the README tells.                                           *)

\* Two runners never poll at once.
OneRunner == \A p, q \in Runners : proc[p].at \notin {"off", "boot", "write"} /\ proc[q].at \notin {"off", "boot", "write"} => p = q

\* An epoch that stays claimable is reinvested.
ReinvestedAnyway ==
  \A e \in Epoch :
    ((e \in Window /\ Claimable(e) /\ \E r \in Runners : Alive(r))
      ~> (~Claimable(e) \/ e \notin Window \/ Cardinality(ops) = MaxOps \/ \A r \in Runners : ~Alive(r)))

\* What the log says of an epoch: it was claimed and bought with.
RecordedIsDone == \A row \in audit : row.tx => Op(row.op).state = "done"
=============================================================================
