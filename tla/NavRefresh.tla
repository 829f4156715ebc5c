----------------------------- MODULE NavRefresh -----------------------------
(***************************************************************************)
(* Keeping a NAV fresh. The worker fetches a token's reference rate from   *)
(* its feed and keeps a history of rows; the publisher, every quarter of   *)
(* the staleness window, looks whether the newest row is recent, as a sign *)
(* that the feed is alive, and writes the oracle's own value back so that  *)
(* its age starts again. A token that has no rows is taken for one without *)
(* a feed: the publisher refreshes it unconditionally and keeps its rows   *)
(* itself. One token that has a feed; its writer is the publisher.         *)
(*                                                                         *)
(* Time is kept as ages, in ticks, that stop at Old. A transaction takes   *)
(* a few; everything else is done within the tick it is due in.            *)
(***************************************************************************)
EXTENDS Integers

CONSTANTS
  Interval,    \* the publisher's cycle, in ticks; the window is four of them
  MaxDelay,    \* ticks a transaction may take
  BackfillAge, \* age of the newest row a backfill inserts
  Initial,     \* rows there may be when the services start: "none", "feed"
  Faults,      \* what goes wrong in this instance
  MaxFaults    \* bound: how often

RefreshAssumption ==
  /\ Interval \in Nat /\ MaxDelay \in 0 .. Interval - 1 /\ BackfillAge \in 0 .. 5 * Interval
  /\ Initial \subseteq {"none", "feed"} /\ MaxFaults \in Nat
  /\ Faults \subseteq {"dead", "rpc", "database", "restart", "worker"}

Window == 4 * Interval
Liveness == 4 * Interval
Old == Window + Interval
Older(age) == IF age < Old THEN age + 1 ELSE Old

VARIABLES
  age,       \* of the NAV on chain
  feed,      \* what the feed answers: the rate in the rows, another, nothing
  fedAge,    \* since it last answered
  newest,    \* whose row is the newest
  rowAge,    \* its age
  fed,       \* whether the worker has rows
  worker,    \* where the worker is
  due,       \* whether its fetch is due
  pub,       \* the publisher: where it is, and the mode of its cycle
  timer,     \* ticks to its next cycle
  status,    \* what /health answers from
  faults

vars == <<age, feed, fedAge, newest, rowAge, fed, worker, due, pub, timer, status, faults>>
rows == <<newest, rowAge, fed>>

Idle == [at |-> "idle", synthetic |-> FALSE, waited |-> 0]
NoStatus == [fresh |-> FALSE, outcome |-> "none"]

TypeOK ==
  /\ {age, fedAge, rowAge} \subseteq 0 .. Old
  /\ feed \in {"same", "other", "dead"}
  /\ newest \in {"none", "feed", "publisher"} /\ fed \in BOOLEAN
  /\ newest = "feed" => fed
  /\ worker \in {"boot", "idle", "bump", "write"} /\ due \in BOOLEAN
  /\ pub \in [at : {"idle", "view", "mirror", "decide", "send", "sent"}, synthetic : BOOLEAN, waited : 0 .. MaxDelay]
  /\ timer \in 0 .. Interval /\ (pub.at # "idle" => timer > 0)
  /\ status \in [fresh : BOOLEAN, outcome : {"none", "published", "fresh", "db-stale", "error"}]
  /\ faults \in 0 .. MaxFaults

Init ==
  /\ age = 0 /\ feed \in {"same", "other"} /\ fedAge = 0
  /\ \E kind \in Initial : newest = kind /\ fed = (kind = "feed")
  /\ rowAge = 0 /\ worker = "boot" /\ due = TRUE
  /\ pub = Idle /\ timer = 0 /\ status = NoStatus /\ faults = 0

Fault(kind) == kind \in Faults /\ faults < MaxFaults /\ faults' = faults + 1

Fresh == age <= Window

-----------------------------------------------------------------------------
(* The feed *)

FeedMoves ==
  /\ feed = "same" /\ feed' = "other"
  /\ UNCHANGED <<age, fedAge, rows, worker, due, pub, timer, status, faults>>

FeedDies ==
  /\ feed # "dead" /\ Fault("dead") /\ feed' = "dead"
  /\ UNCHANGED <<age, fedAge, rows, worker, due, pub, timer, status>>

FeedReturns ==
  /\ feed = "dead" /\ feed' \in {"same", "other"}
  /\ UNCHANGED <<age, fedAge, rows, worker, due, pub, timer, status, faults>>

-----------------------------------------------------------------------------
(* The worker *)

\* A source answers with a quote, or with nothing: it refuses, is late, or has
\* no observation.
Quoted == feed # "dead"

\* The rate is compared with the newest of the worker's own rows.
Deduped == fed /\ feed = "same"

Published == UNCHANGED <<age, pub, timer, status>>

\* Rows for the days that have none, dated as of those days; the last may
\* have the rate of today.
Backfill ==
  /\ worker = "boot" /\ worker' = "idle" /\ due' = TRUE
  /\ \/ ~ Quoted /\ UNCHANGED <<rows, feed, fedAge>>
     \/ /\ Quoted /\ fedAge' = 0 /\ fed' = TRUE
        /\ feed' \in (IF fed THEN {feed} ELSE {"same", "other"})
        /\ newest' = IF newest = "none" THEN "feed" ELSE newest
        /\ rowAge' = IF newest = "none" THEN BackfillAge ELSE rowAge
  /\ UNCHANGED faults /\ Published

Fetch ==
  /\ worker = "idle" /\ due /\ due' = FALSE
  /\ \/ ~ Quoted /\ UNCHANGED <<worker, fedAge>>
     \/ Quoted /\ fedAge' = 0 /\ worker' = IF Deduped THEN "bump" ELSE "write"
  /\ UNCHANGED <<feed, rows, faults>> /\ Published

\* The same rate: the newest row of the token, whoever wrote it, is dated now.
NotBumped == worker = "bump" /\ worker' = "idle" /\ UNCHANGED <<feed, fedAge, due, rows, faults>> /\ Published
Bump ==
  /\ worker = "bump" /\ worker' = "idle"
  /\ rowAge' = 0
  /\ UNCHANGED <<feed, fedAge, due, newest, fed, faults>> /\ Published

WriteRow ==
  /\ worker = "write" /\ worker' = "idle"
  /\ newest' = "feed" /\ rowAge' = 0 /\ fed' = TRUE
  /\ feed' = IF feed = "dead" THEN "dead" ELSE "same"
  /\ UNCHANGED <<fedAge, due, faults>> /\ Published

WorkerRestarts ==
  /\ Fault("worker") /\ worker' = "boot"
  /\ UNCHANGED <<feed, fedAge, due, rows>> /\ Published

-----------------------------------------------------------------------------
(* The publisher: one cycle *)

Worked == UNCHANGED <<feed, fedAge, worker, due>>
EndsQuietly(outcome) == pub' = Idle /\ IF outcome = "error" THEN UNCHANGED status ELSE status' = [status EXCEPT !.outcome = outcome]
Ends(outcome) == pub' = Idle /\ status' = [status EXCEPT !.outcome = outcome]

\* Recent rows of the feed, or none of it, let the cycle go on.
Rearmed == Interval
AlwaysRecent == TRUE
Recent == rowAge <= Liveness
Begin ==
  /\ pub.at = "idle" /\ timer = 0 /\ timer' = Rearmed
  /\ LET synthetic == newest # "feed" IN
     \/ /\ ~synthetic /\ ~Recent /\ Ends("db-stale")
     \/ /\ synthetic \/ Recent
        /\ pub' = [at |-> "view", synthetic |-> synthetic, waited |-> 0] /\ UNCHANGED status
  /\ UNCHANGED <<age, rows, faults>> /\ Worked

View ==
  /\ pub.at = "view"
  /\ \/ Fault("rpc") /\ Ends("error")
     \/ /\ UNCHANGED faults
        /\ pub' = [pub EXCEPT !.at = IF pub.synthetic THEN "mirror" ELSE "decide"]
        /\ status' = [status EXCEPT !.fresh = Fresh]
  /\ UNCHANGED <<age, rows, timer>> /\ Worked

\* The publisher's own row for a token without a feed.
Mirror ==
  /\ pub.at = "mirror" /\ pub' = [pub EXCEPT !.at = "decide"]
  /\ \/ newest' = "publisher" /\ rowAge' = 0 /\ UNCHANGED faults
     \/ Fault("database") /\ UNCHANGED <<newest, rowAge>>
  /\ UNCHANGED <<age, fed, timer, status>> /\ Worked

\* In the first half of its window the NAV is left alone.
OnceInThree == age < 3 * Interval
Young == age < 2 * Interval
Decide ==
  /\ pub.at = "decide"
  /\ \/ status.fresh /\ Young /\ Ends("fresh")
     \/ ~(status.fresh /\ Young) /\ pub' = [pub EXCEPT !.at = "send"] /\ UNCHANGED status
  /\ UNCHANGED <<age, rows, timer, faults>> /\ Worked

\* After its retries a submission has failed for this cycle.
Send ==
  /\ pub.at = "send"
  /\ \/ pub' = [pub EXCEPT !.at = "sent"] /\ UNCHANGED <<status, faults>>
     \/ Fault("rpc") /\ Ends("error")
  /\ UNCHANGED <<age, rows, timer>> /\ Worked

\* Mined, confirmed and read again; the cycle does not depend on that reading.
Mined ==
  /\ pub.at = "sent" /\ pub' = Idle
  /\ age' = 0
  /\ \/ status' = [fresh |-> TRUE, outcome |-> "published"] /\ UNCHANGED faults
     \/ status' = [status EXCEPT !.outcome = "published"] /\ Fault("rpc")
  /\ UNCHANGED <<rows, timer>> /\ Worked

\* A restart begins with a cycle and an empty status; what was sent is mined,
\* or lost where calls may fail.
PublisherRestarts ==
  /\ Fault("restart")
  /\ age' \in IF pub.at # "sent" THEN {age} ELSE {0} \cup (IF "rpc" \in Faults THEN {age} ELSE {})
  /\ pub' = Idle /\ timer' = 0 /\ status' = NoStatus
  /\ UNCHANGED rows /\ Worked

-----------------------------------------------------------------------------
Tick ==
  /\ worker = "idle" /\ ~due
  /\ \/ pub.at = "idle" /\ timer > 0 /\ UNCHANGED pub
     \/ pub.at = "sent" /\ pub.waited < MaxDelay /\ pub' = [pub EXCEPT !.waited = @ + 1]
  /\ age' = Older(age) /\ fedAge' = Older(fedAge) /\ rowAge' = Older(rowAge)
  /\ timer' = timer - 1 /\ due' = TRUE
  /\ UNCHANGED <<feed, newest, fed, worker, status, faults>>

WorkerStep == Backfill \/ Fetch \/ Bump \/ WriteRow
PublisherStep == Begin \/ View \/ Mirror \/ Decide \/ Send \/ Mined

Next ==
  \/ FeedMoves \/ FeedDies \/ FeedReturns
  \/ WorkerStep \/ WorkerRestarts
  \/ PublisherStep \/ PublisherRestarts
  \/ Tick

Spec == Init /\ [][Next]_vars

\* Both services run on their intervals, and time passes.
FairSpec == Spec /\ WF_vars(WorkerStep) /\ WF_vars(PublisherStep) /\ WF_vars(Tick)

-----------------------------------------------------------------------------
(* Properties *)

\* While nothing fails the NAV on chain does not go stale: the quiet feed's
\* rows stay recent, and a cycle comes before the window ends.
FreshWhileFed == Fresh

\* A NAV is not refreshed when its feed has been silent for longer than the
\* liveness gate allows: its price may no longer be right.
RenewedWhileHeard == age' = 0 /\ age # 0 => fedAge <= Liveness + MaxDelay
GateHolds == [][RenewedWhileHeard]_vars

\* What /health calls ok was fresh on chain a cycle ago at most.
HealthOk == status.outcome # "error" /\ status.fresh
HealthTruthful == pub.at = "idle" /\ HealthOk => age <= Window

\* Whatever failed, the NAV becomes fresh again once its feed is back.
Recovers == <>[](feed # "dead") => []<>Fresh
=============================================================================
