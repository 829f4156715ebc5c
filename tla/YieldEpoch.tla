----------------------------- MODULE YieldEpoch -----------------------------
(***************************************************************************)
(* The daily yield distribution: once per guard window the cron sweeps the *)
(* active tokens, and for each a run opens an epoch on chain (or resumes   *)
(* one), captures the holders' balances, sizes the pool and funds it,      *)
(* keeping an audit row per epoch in Postgres. The process may die and any *)
(* call may fail between two steps; the next window picks up what is left. *)
(*                                                                         *)
(* All transactions come from one account, so they are mined in the order  *)
(* they were sent. Capturing stands for the batches and the finalization.  *)
(***************************************************************************)
EXTENDS Naturals, Sequences, FiniteSets, FiniteSetsExt

CONSTANTS
  Tokens,
  Rates,          \* what a day's NAV and APY may work out to
  RateScale,      \* a rate is in units of 1 / RateScale
  Supplies,       \* captured total supplies
  Cap,            \* effectiveMaxSupplyCap
  Float,          \* the issuer's mhUSDC, topped up every day
  SnapshotBased,  \* YIELD_CRON_SNAPSHOT_FUNDING
  MaxEpochs,      \* bound: epochs opened
  Faults,         \* what goes wrong in this instance
  MaxFaults       \* bound: how often

YieldAssumption ==
  /\ Rates \subseteq Nat /\ RateScale \in Nat \ {0}
  /\ Supplies \subseteq Nat \ {0} /\ Cap \in Nat \ {0}
  /\ SnapshotBased \in BOOLEAN /\ MaxEpochs \in Nat /\ Float \in Nat
  /\ Faults \subseteq {"stale", "call", "wait", "database", "crash"}

VARIABLES
  epochs,    \* YieldSnapshot: every epoch ever opened
  txs,       \* what the issuer's account sent, with the fate of each
  rows,      \* yield_distributions, by epoch; status "none": no row
  balance,   \* the issuer's mhUSDC
  due,       \* 23 hours have passed since cron_state was last claimed
  sweep,     \* the tick: tokens left, what its float ledger says is left
  run,       \* runYieldEpoch in progress
  faults

vars == <<epochs, txs, rows, balance, due, sweep, run, faults>>
chain == <<epochs, txs, balance>>

Resolved == {"success", "failure"}
NoRow == [status |-> "none", rate |-> 0, amount |-> 0, tx |-> 0]
Idle == [at |-> "idle", token |-> CHOOSE t \in Tokens : TRUE, rate |-> 0, current |-> 0,
         row |-> 0, epoch |-> 0, resumed |-> FALSE, fundRate |-> 0, amount |-> 0, tx |-> 0]
Asleep == [on |-> FALSE, left |-> {}, ledger |-> 0]

Init ==
  /\ epochs = <<>> /\ txs = <<>> /\ rows = [e \in 1 .. MaxEpochs |-> NoRow]
  /\ balance = Float /\ due = TRUE
  /\ sweep = Asleep /\ run = Idle
  /\ faults = 0

TypeOK ==
  /\ \A e \in DOMAIN epochs :
       /\ epochs[e].token \in Tokens /\ epochs[e].supply \in {0} \cup Supplies
       /\ epochs[e].funded => epochs[e].supply # 0
  /\ \A i \in DOMAIN txs : txs[i].status \in {"pending", "ok", "reverted"}
  /\ \A e \in DOMAIN rows :
       rows[e].status \in Resolved \cup {"none", "in_progress", "snapshot_done", "funded_no_audit"}
  /\ Len(epochs) <= MaxEpochs
  /\ balance \in 0 .. Float /\ sweep.ledger \in 0 .. Float
  /\ run.at # "idle" => sweep.on

-----------------------------------------------------------------------------
(* The chain *)

Current(t) == Max({0} \cup {e \in DOMAIN epochs : epochs[e].token = t})
Pending == {i \in DOMAIN txs : txs[i].status = "pending"}
Tx(kind, t, e, rate, amount) ==
  [kind |-> kind, token |-> t, epoch |-> e, rate |-> rate, amount |-> amount, status |-> "pending"]

\* fundEpoch's pull moves all or, silently, nothing; not whatever it is asked.
Pulled(amount) == IF balance >= amount THEN amount ELSE 0

Opened(i) ==
  /\ epochs' = Append(epochs, [token |-> txs[i].token, supply |-> 0, funded |-> FALSE,
                               rate |-> 0, amount |-> 0, paid |-> 0])
  /\ txs' = [txs EXCEPT ![i].status = "ok", ![i].epoch = Len(epochs) + 1]
  /\ UNCHANGED balance

Captured(i) ==
  /\ epochs[txs[i].epoch].supply = 0
  /\ \E s \in Supplies : epochs' = [epochs EXCEPT ![txs[i].epoch].supply = s]
  /\ txs' = [txs EXCEPT ![i].status = "ok"]
  /\ UNCHANGED balance

Funded(i) ==
  LET tx == txs[i] IN
    /\ epochs[tx.epoch].supply # 0 /\ ~ epochs[tx.epoch].funded
    /\ epochs' = [epochs EXCEPT ![tx.epoch] =
         [@ EXCEPT !.funded = TRUE, !.rate = tx.rate, !.amount = tx.amount,
                   !.paid = Pulled(tx.amount)]]
    /\ balance' = balance - Pulled(tx.amount)
    /\ txs' = [txs EXCEPT ![i].status = "ok"]

Reverted(i) ==
  /\ \/ txs[i].kind = "capture" /\ epochs[txs[i].epoch].supply # 0
     \/ txs[i].kind = "fund" /\ (epochs[txs[i].epoch].supply = 0 \/ epochs[txs[i].epoch].funded)
  /\ txs' = [txs EXCEPT ![i].status = "reverted"]
  /\ UNCHANGED <<epochs, balance>>

Mine ==
  /\ Pending # {}
  /\ LET i == Min(Pending) IN
       \/ txs[i].kind = "open" /\ Opened(i)
       \/ txs[i].kind = "capture" /\ Captured(i)
       \/ txs[i].kind = "fund" /\ Funded(i)
       \/ Reverted(i)
  /\ UNCHANGED <<rows, due, sweep, run, faults>>

\* The next window: by then what was sent is mined and the float topped up.
NewDay ==
  /\ ~ due /\ Pending = {} /\ ~ sweep.on
  /\ due' = TRUE /\ balance' = Float
  /\ UNCHANGED <<epochs, txs, rows, sweep, run, faults>>

-----------------------------------------------------------------------------
(* The cron *)

Fault(kind) == kind \in Faults /\ faults < MaxFaults /\ faults' = faults + 1

Tick ==
  /\ due /\ ~ sweep.on
  /\ due' = FALSE
  /\ \/ sweep' = [on |-> TRUE, left |-> Tokens, ledger |-> balance] /\ UNCHANGED faults
     \/ Fault("call") /\ UNCHANGED sweep
  /\ UNCHANGED <<chain, rows, run>>

\* The pool for a supply at a rate, and what the cron expects of the cap: both
\* rounded down, perhaps to nothing.
Sized(supply, rate) ==
  ((IF SnapshotBased THEN Min({supply, Cap}) ELSE Cap) * rate) \div RateScale
Estimate(rate) == (Cap * rate) \div RateScale

\* The runner's preconditions, and the cap-based check against the float.
Affordable(rate) == SnapshotBased \/ sweep.ledger >= Estimate(rate)

Handle(t) ==
  /\ sweep.on /\ run.at = "idle" /\ t \in sweep.left
  /\ sweep' = [sweep EXCEPT !.left = @ \ {t}]
  /\ \/ \E r \in Rates :
          /\ run' = IF Estimate(r) > 0 /\ Affordable(r)
                      THEN [Idle EXCEPT !.at = "read", !.token = t, !.rate = r, !.fundRate = r]
                      ELSE Idle
          /\ UNCHANGED faults
     \/ Fault("stale") /\ run' = Idle
  /\ UNCHANGED <<chain, rows, due>>

SweepDone ==
  /\ sweep.on /\ run.at = "idle" /\ sweep.left = {}
  /\ sweep' = Asleep
  /\ UNCHANGED <<chain, rows, due, run, faults>>

\* Killed and restarted: the locks go with the session, the claim stays.
Crash ==
  /\ sweep.on /\ Fault("crash")
  /\ sweep' = Asleep /\ run' = Idle
  /\ UNCHANGED <<chain, rows, due>>

-----------------------------------------------------------------------------
(* The runner *)

At(at) == run.at = at
Continue(r) == run' = r /\ UNCHANGED <<due, sweep, faults>>
Return == Continue(Idle) /\ UNCHANGED <<chain, rows>>
Throw(r) == run' = [r EXCEPT !.at = "catch"] /\ UNCHANGED <<chain, rows, due, sweep>>
Write(e, row) == rows' = [rows EXCEPT ![e] = row] /\ UNCHANGED chain
Send(tx) == txs' = Append(txs, tx) /\ UNCHANGED <<epochs, balance, rows>>

\* findLatestUnresolved (not losing what was sent) and currentEpoch.
UnresolvedUnsent(t) ==
  Max({0} \cup {e \in DOMAIN epochs : /\ epochs[e].token = t
                                      /\ rows[e].status \in {"in_progress", "snapshot_done"}})
Unresolved(t) ==
  Max({0} \cup {e \in DOMAIN epochs : /\ epochs[e].token = t
                                      /\ rows[e].status \notin Resolved \cup {"none"}})
Read ==
  /\ At("read")
  /\ Continue([run EXCEPT !.at = "decide", !.row = Unresolved(run.token), !.current = Current(run.token)])
  /\ UNCHANGED <<chain, rows>>

\* The row's epoch cannot be read: taken for one that never existed.
Stranded ==
  /\ At("decide") /\ run.row # 0 /\ Fault("call")
  /\ rows' = [rows EXCEPT ![run.row].status = "failure"]
  /\ run' = [run EXCEPT !.row = 0]
  /\ UNCHANGED <<chain, due, sweep>>

RefusedStrictly == run.current # run.row \/ rows[run.row].rate # run.rate
\* OrphanedAuditError and RateMismatchOnResumeError leave the row alone.
Refused ==
  \/ run.current # run.row
  \/ epochs[run.row].funded /\ epochs[run.row].rate # rows[run.row].rate

AlreadyFunded == epochs[run.row].funded
Closed(r) == [r EXCEPT !.status = "success"]

Resume ==
  LET e == run.row
      resumed == [run EXCEPT !.epoch = e]
      receipt == txs[rows[e].tx].status IN
  /\ At("decide") /\ e # 0
  /\ \/ Refused /\ Return
     \/ /\ ~ Refused /\ AlreadyFunded
        /\ \/ Continue(Idle) /\ Write(e, Closed(rows[e]))
           \/ Fault("database") /\ Throw(run)
     \/ /\ ~ Refused /\ ~ AlreadyFunded /\ rows[e].status = "funded_no_audit"
        /\ \/ receipt = "pending" /\ Return
           \/ receipt = "ok" /\ Continue(Idle) /\ Write(e, Closed(rows[e]))
           \/ receipt = "reverted" /\ Throw(resumed) /\ UNCHANGED faults
     \/ /\ ~ Refused /\ ~ AlreadyFunded /\ rows[e].status # "funded_no_audit"
        /\ \/ /\ Continue([resumed EXCEPT !.at = "capture", !.resumed = TRUE])
              /\ UNCHANGED <<chain, rows>>
           \/ Fault("database") /\ Throw(resumed)

Fresh == [status |-> "in_progress", rate |-> run.rate, amount |-> Estimate(run.rate), tx |-> 0]

BackFill ==
  /\ At("decide") /\ run.row = 0 /\ run.current # 0 /\ ~ epochs[run.current].funded
  /\ LET next == [run EXCEPT !.epoch = run.current, !.resumed = TRUE] IN
       \/ Continue([next EXCEPT !.at = "capture"]) /\ Write(run.current, Fresh)
       \/ Fault("database") /\ Throw(next)

Open ==
  /\ At("decide") /\ run.row = 0
  /\ run.current # 0 => epochs[run.current].funded
  /\ IF Len(epochs) + Cardinality({i \in Pending : txs[i].kind = "open"}) < MaxEpochs
       THEN /\ Continue([run EXCEPT !.at = "opening", !.tx = Len(txs) + 1])
            /\ Send(Tx("open", run.token, 0, 0, 0))
       ELSE Return

\* The wait of a transaction, or its receipt.
Confirmed == run.tx # 0 /\ txs[run.tx].status = "ok"
Failed == run.tx # 0 /\ txs[run.tx].status = "reverted"

Record ==
  /\ At("opening") /\ Confirmed
  /\ LET next == [run EXCEPT !.epoch = txs[run.tx].epoch, !.tx = 0] IN
       \/ Continue([next EXCEPT !.at = "capture"]) /\ Write(next.epoch, Fresh)
       \/ Fault("database") /\ Throw(next)

Capture ==
  /\ At("capture")
  /\ IF epochs[run.epoch].supply # 0
       THEN Continue([run EXCEPT !.at = "size"]) /\ UNCHANGED <<chain, rows>>
       ELSE /\ Continue([run EXCEPT !.at = "capturing", !.tx = Len(txs) + 1])
            /\ Send(Tx("capture", run.token, run.epoch, 0, 0))

Finalized ==
  /\ At("capturing") /\ Confirmed
  /\ \/ /\ Continue([run EXCEPT !.at = "size", !.tx = 0])
        /\ Write(run.epoch, [rows[run.epoch] EXCEPT !.status = "snapshot_done"])
     \/ Fault("database") /\ Throw(run)

\* The rate and the amount an epoch is funded with: its row's when resumed,
\* never that of today.
TodaysRate == run.rate
RowRate == IF run.row # 0 THEN rows[run.row].rate ELSE run.rate
TodaysAmount == Sized(epochs[run.epoch].supply, run.rate)
Amount ==
  IF ~ SnapshotBased /\ run.row # 0 THEN rows[run.row].amount
  ELSE Sized(epochs[run.epoch].supply, RowRate)

\* A pool that rounds to nothing is not funded, today or on any later day.
Size ==
  /\ At("size")
  /\ LET next == [run EXCEPT !.at = "fund", !.amount = Amount, !.fundRate = RowRate] IN
       \/ ~ SnapshotBased /\ Continue(next) /\ UNCHANGED <<chain, rows>>
       \/ SnapshotBased /\ Amount = 0 /\ Return
       \/ /\ SnapshotBased /\ Amount > 0 /\ sweep.ledger >= Amount
          /\ \/ /\ Continue(next)
                /\ Write(run.epoch, [rows[run.epoch] EXCEPT !.status = "snapshot_done", !.amount = Amount])
             \/ Fault("database") /\ Throw([next EXCEPT !.amount = 0])
       \/ SnapshotBased /\ sweep.ledger < Amount /\ Return

\* The captured supply cannot be decrypted in time.
DecryptFails ==
  /\ At("size") /\ SnapshotBased /\ Fault("call")
  /\ run' = Idle /\ UNCHANGED <<chain, rows, due, sweep>>

Fund ==
  /\ At("fund")
  /\ Continue([run EXCEPT !.at = "sent", !.tx = Len(txs) + 1])
  /\ Send(Tx("fund", run.token, run.epoch, run.fundRate, run.amount))

Sent ==
  /\ At("sent")
  /\ \/ /\ Continue([run EXCEPT !.at = "waiting"])
        /\ Write(run.epoch, [rows[run.epoch] EXCEPT !.status = "funded_no_audit", !.tx = run.tx])
     \/ Fault("database") /\ Throw(run)

\* The drain is deducted by the runner, or in the fallback by the cron.
NotConsumed(byRunner, amount) == sweep.ledger
Consumed(byRunner, amount) ==
  IF SnapshotBased = byRunner THEN sweep.ledger - Min({amount, sweep.ledger}) ELSE sweep.ledger

Settle ==
  /\ At("waiting") /\ Confirmed
  /\ run' = [run EXCEPT !.at = "closing", !.tx = 0]
  /\ sweep' = [sweep EXCEPT !.ledger = Consumed(TRUE, run.amount)]
  /\ UNCHANGED <<chain, rows, due, faults>>

Close ==
  /\ At("closing")
  /\ \/ /\ Write(run.epoch, Closed(rows[run.epoch]))
        /\ run' = Idle
        /\ sweep' = [sweep EXCEPT !.ledger = IF run.resumed THEN @ ELSE Consumed(FALSE, run.amount)]
        /\ UNCHANGED <<due, faults>>
     \/ Fault("database") /\ Throw(run)

\* A call before its effect (a read, an encryption, a refused send) fails.
CallFails ==
  /\ \/ run.at \in {"read", "capture", "fund"}
     \/ At("decide") /\ run.row = 0
  /\ Fault("call") /\ Throw(run)

\* The wait fails: for the transaction, or though it may still be mined.
WaitFails ==
  /\ run.at \in {"opening", "capturing", "waiting"}
  /\ \/ Failed /\ UNCHANGED faults
     \/ Fault("wait")
  /\ Throw(run)

\* The verdict of the catch block: what the chain says, if it answers.
Verdict == IF epochs[run.epoch].funded /\ epochs[run.epoch].rate = run.fundRate
             THEN "success" ELSE "failure"
Catch ==
  /\ At("catch")
  /\ run' = Idle
  /\ IF run.epoch = 0 \/ rows[run.epoch].status = "none"
       THEN UNCHANGED <<rows, faults>>
       ELSE \/ rows' = [rows EXCEPT ![run.epoch].status = Verdict] /\ UNCHANGED faults
            \/ Fault("call") /\ rows' = [rows EXCEPT ![run.epoch].status = "failure"]
            \/ Fault("database") /\ UNCHANGED rows
  /\ UNCHANGED <<chain, due, sweep>>

Runner ==
  \/ Read \/ Stranded \/ Resume \/ BackFill \/ Open \/ Record
  \/ Capture \/ Finalized \/ Size \/ DecryptFails \/ Fund \/ Sent \/ Settle \/ Close
  \/ CallFails \/ WaitFails \/ Catch

Next ==
  \/ Mine \/ NewDay \/ Crash
  \/ Tick \/ SweepDone \/ \E t \in Tokens : Handle(t)
  \/ Runner

\* Transactions are mined, a window follows a window, and the process, kept
\* alive by its supervisor, goes on with what it began.
Fairness ==
  /\ WF_vars(Mine) /\ WF_vars(NewDay) /\ WF_vars(Tick) /\ WF_vars(SweepDone)
  /\ WF_vars(Runner) /\ \A t \in Tokens : WF_vars(Handle(t))

Spec == Init /\ [][Next]_vars /\ Fairness

-----------------------------------------------------------------------------
Rowed(e) == e \in DOMAIN epochs /\ rows[e].status # "none"

\* An epoch is funded at the rate its audit row carries and, when the row
\* says success, has been funded: a resumed epoch keeps the rate of the day it
\* was opened on, whatever today's is.
RowsAgree ==
  \A e \in 1 .. MaxEpochs : Rowed(e) =>
    /\ epochs[e].funded => epochs[e].rate = rows[e].rate
    /\ rows[e].status = "success" => epochs[e].funded

\* The pool of a funded epoch is that of its own rate and its own holders, so
\* that it covers every claim unless the cap binds; one sized by its holders is
\* not empty.
AmountFits ==
  \A e \in DOMAIN epochs : epochs[e].funded =>
    epochs[e].amount = Sized(epochs[e].supply, epochs[e].rate) /\ (SnapshotBased => epochs[e].amount > 0)

\* An unresolved row always speaks of its token's current epoch, so a resume
\* is never refused as orphaned, and there is only one to resume.
NoOrphan ==
  \A e \in 1 .. MaxEpochs :
    Rowed(e) /\ rows[e].status \notin Resolved => Current(epochs[e].token) = e

\* An epoch that the chain shows funded was paid in full: the sweep never
\* commits the same mhUSDC to two tokens, whose pull would silently move
\* nothing.
PaidInFull == \A e \in DOMAIN epochs : epochs[e].funded => epochs[e].paid = epochs[e].amount

\* An epoch whose pool, at the rate its row carries, is rounded to nothing.
Worthless(e) ==
  /\ SnapshotBased /\ epochs[e].supply # 0 /\ rows[e].status \notin Resolved \cup {"none"}
  /\ Sized(epochs[e].supply, rows[e].rate) = 0

\* Whatever fails along the way, an epoch begun is eventually distributed,
\* though it may be days later; unless its token is left with an epoch that is
\* worth nothing, which is skipped every day.
EpochsComplete ==
  \A e \in 1 .. MaxEpochs :
    e \in DOMAIN epochs ~> \E f \in DOMAIN epochs :
        f >= e /\ epochs[f].token = epochs[e].token /\ (epochs[f].funded \/ Worthless(f))

-----------------------------------------------------------------------------
(* Said of the code and not so: each has a counterexample under the faults *)
(* above, which the README tells.                                           *)

\* An epoch begun is eventually distributed: not one whose captured supply is so
\* small that the pool rounds to nothing. It is resumed and skipped every day,
\* and no other epoch of its token is opened. yield-cron.ts:366-369 and 481-483
\* advise a higher cap, which changes neither its supply nor its row's rate.
EpochsDistributed ==
  \A e \in 1 .. MaxEpochs :
    e \in DOMAIN epochs ~> \E f \in DOMAIN epochs :
        f >= e /\ epochs[f].token = epochs[e].token /\ epochs[f].funded

\* The audit never says failure of an epoch that is funded.
FailureUnfunded ==
  \A e \in 1 .. MaxEpochs : Rowed(e) /\ rows[e].status = "failure" => ~ epochs[e].funded
=============================================================================
