----------------------- MODULE IssuerControlledOracle -----------------------
(***************************************************************************)
(* The NAV oracle of one token: the writer quotes, a quote too far from    *)
(* the NAV in force is parked until the owner accepts or rejects it, and a *)
(* reading is fresh while it is young enough and the L2 sequencer has been *)
(* up for a grace period.                                                  *)
(*                                                                         *)
(* quotes is a history variable: what the writer has sent, and when.       *)
(***************************************************************************)
EXTENDS Naturals

CONSTANTS
  NAVs,            \* quotes the writer may send
  Windows,         \* maxStaleness overrides; 0 stands for the default
  DefaultWindow,   \* DEFAULT_MAX_STALENESS
  Deviations,      \* maxDeviationBps values, at most MAX_DEVIATION_BPS_CAP
  GracePeriods,    \* sequencerGracePeriod values
  DefaultGrace,    \* DEFAULT_SEQUENCER_GRACE_PERIOD
  MaxTime          \* bound: block timestamps are 1..MaxTime

ASSUME OracleAssumption ==
  /\ NAVs \subseteq Nat \ {0}
  /\ Windows \subseteq Nat
  /\ DefaultWindow \in Nat
  /\ Deviations \subseteq 0 .. 5000
  /\ GracePeriods \subseteq Nat
  /\ DefaultGrace \in Nat
  /\ MaxTime \in Nat \ {0}

VARIABLES
  now,        \* block.timestamp
  data,       \* _data[token]
  feed,       \* what the sequencer uptime feed answers
  grace,      \* sequencerGracePeriod
  quotes

vars == <<now, data, feed, grace, quotes>>

Times == 0 .. MaxTime

\* No feed configured, one that cannot be read, or latestRoundData's answer.
Feeds == [kind: {"unset", "broken", "down"}] \cup [kind: {"up"}, startedAt: Times]

\* The shape of the state; a parked quote is always dated.
TypeOK ==
  /\ now \in Times
  /\ data \in [nav: NAVs \cup {0}, updatedAt: Times, maxStaleness: Windows \cup {0},
               maxDeviationBps: Deviations \cup {0}, pendingNAV: NAVs \cup {0},
               pendingUpdatedAt: Times]
  /\ data.pendingNAV # 0 <=> data.pendingUpdatedAt # 0
  /\ feed \in Feeds
  /\ grace \in GracePeriods \cup {DefaultGrace}
  /\ quotes \subseteq [nav: NAVs, at: Times]

-----------------------------------------------------------------------------
\* (diff * BPS) / current, rounded down.
AbsDeviationBps(current, next) ==
  LET diff == IF current > next THEN current - next ELSE next - current
  IN  (diff * 10000) \div current

SequencerUp ==
  \/ feed.kind = "unset"
  \/ /\ feed.kind = "up"
     /\ feed.startedAt # 0
     /\ now >= feed.startedAt
     /\ now - feed.startedAt >= grace

Window == IF data.maxStaleness = 0 THEN DefaultWindow ELSE data.maxStaleness

IsFresh ==
  /\ SequencerUp
  /\ data.nav # 0
  /\ data.updatedAt # 0
  /\ now >= data.updatedAt
  /\ now - data.updatedAt <= Window

-----------------------------------------------------------------------------
Seeded(nav) == [data EXCEPT !.nav = nav, !.updatedAt = now]

\* Mutant: the quote is parked without its date.
ParkedUndated(nav) == [data EXCEPT !.pendingNAV = nav]

Parked(nav) == [data EXCEPT !.pendingNAV = nav, !.pendingUpdatedAt = now]

\* _commit: a direct quote also drops whatever is parked.
Committed(nav) == [Seeded(nav) EXCEPT !.pendingNAV = 0, !.pendingUpdatedAt = 0]

SetNAV(nav) ==
  /\ data' = IF data.nav = 0 THEN Seeded(nav)
             ELSE IF \/ data.maxDeviationBps = 0
                     \/ AbsDeviationBps(data.nav, nav) <= data.maxDeviationBps
                  THEN Committed(nav)
                  ELSE Parked(nav)
  /\ quotes' = quotes \cup {[nav |-> nav, at |-> now]}
  /\ UNCHANGED <<now, feed, grace>>

\* Mutant: an approval counts as a quote of its own.
ApprovedAt == now

\* The timestamp an accepted NAV takes effect with: that of the quote.
AcceptedAt == data.pendingUpdatedAt

\* Mutant: the owner's call does not look for a parked quote.
AlwaysPending == TRUE

HasPending == data.pendingNAV # 0

AcceptPendingNAV ==
  /\ HasPending
  /\ data' = [data EXCEPT !.nav = data.pendingNAV, !.updatedAt = AcceptedAt,
                          !.pendingNAV = 0, !.pendingUpdatedAt = 0]
  /\ UNCHANGED <<now, feed, grace, quotes>>

RejectPendingNAV ==
  /\ HasPending
  /\ data' = [data EXCEPT !.pendingNAV = 0, !.pendingUpdatedAt = 0]
  /\ UNCHANGED <<now, feed, grace, quotes>>

SetMaxStaleness(window) ==
  /\ data' = [data EXCEPT !.maxStaleness = window]
  /\ UNCHANGED <<now, feed, grace, quotes>>

SetMaxDeviationBps(bps) ==
  /\ data' = [data EXCEPT !.maxDeviationBps = bps]
  /\ UNCHANGED <<now, feed, grace, quotes>>

SetSequencerGracePeriod(period) ==
  /\ grace' = period
  /\ UNCHANGED <<now, data, feed, quotes>>

\* The owner points at another feed, or the feed starts a round of its own.
FeedChanges(f) ==
  /\ feed' = f
  /\ UNCHANGED <<now, data, grace, quotes>>

Tick ==
  /\ now < MaxTime
  /\ now' = now + 1
  /\ UNCHANGED <<data, feed, grace, quotes>>

Init ==
  /\ now = 1
  /\ data = [nav |-> 0, updatedAt |-> 0, maxStaleness |-> 0, maxDeviationBps |-> 0,
             pendingNAV |-> 0, pendingUpdatedAt |-> 0]
  /\ feed = [kind |-> "unset"]
  /\ grace = DefaultGrace
  /\ quotes = {}

Next ==
  \/ \E nav \in NAVs : SetNAV(nav)
  \/ AcceptPendingNAV
  \/ RejectPendingNAV
  \/ \E window \in Windows : SetMaxStaleness(window)
  \/ \E bps \in Deviations : SetMaxDeviationBps(bps)
  \/ \E period \in GracePeriods : SetSequencerGracePeriod(period)
  \/ \E f \in Feeds : FeedChanges(f)
  \/ Tick

Spec == Init /\ [][Next]_vars

-----------------------------------------------------------------------------
(* Properties                                                              *)

\* Trades execute only at a NAV the writer itself sent within the window: a
\* quote the owner sat on (acceptPendingNAV) does not become fresh by approval.
FreshMeansQuoted ==
  IsFresh => \E q \in quotes : q.nav = data.nav /\ now - q.at <= Window

\* The NAV in force never goes back to an older quote: committing a quote in
\* setNAV drops the parked one, so that the owner can no longer accept it.
QuoteTimeMonotone == [][data'.updatedAt >= data.updatedAt]_data

\* What the settlement contracts read behaves as they are entitled to assume.
Reading == INSTANCE NavReading WITH reading <- [nav |-> data.nav, fresh |-> IsFresh]
ReadingPromised == Reading!Spec
=============================================================================
