--------------------------- MODULE CheckoutSession ---------------------------
(***************************************************************************)
(* A hosted checkout: the buyer's pages (apps/checkout-pay) fund, wrap and *)
(* purchase on chain and report each step to the backend, whose handlers   *)
(* interleave at every await; the settlement indexer polls the chain for   *)
(* Purchased events and settles the session that recorded the transaction. *)
(* Everybody may open the link, so several tabs may serve one session.     *)
(*                                                                         *)
(* A transaction is named by its block; blocks with no Purchased event are *)
(* left out, since nothing happens in them.                                *)
(***************************************************************************)
EXTENDS Naturals, Sequences, FiniteSets, FiniteSetsExt, TLC

CONSTANTS
  Sessions,
  Tabs,
  MaxRange,       \* MAX_BLOCK_RANGE
  MaxPurchases,   \* bound: purchases on chain
  Faults,         \* what goes wrong in this instance
  MaxFaults       \* bound: how often, not counting expiry

FaultsAssumption ==
  /\ MaxRange \in Nat \ {0} /\ MaxPurchases \in Nat /\ MaxFaults \in Nat
  /\ Faults \subseteq {"expiry", "reload", "network", "database", "restart"}

VARIABLES
  status,      \* the session's row
  paidBy,      \* its purchaseTxHash, 0 for null
  late,        \* sessions past expiresAt
  tabs,        \* the pages: session served, what it is doing, status last seen
  handlers,    \* requests on their way to, or inside, the backend
  chain,       \* whom each purchase on chain was made for
  cursor,      \* lastProcessedBlock, None until the first tick
  scan,        \* the indexer's tick in progress
  announced,   \* events handed to the stream and the webhook dispatcher
  faults

vars == <<status, paidBy, late, tabs, handlers, chain, cursor, scan, announced, faults>>

Edges(fromPurchased) ==
  [pending   |-> {"funded", "failed"},
   funded    |-> {"wrapped", "failed"},
   wrapped   |-> {"purchased", "failed"},
   purchased |-> fromPurchased,
   settled   |-> {}, expired |-> {}, failed |-> {}]
\* A purchase may be reported again (a defect, for testing the properties).
Rereportable == Edges({"settled", "failed", "purchased"})
Forward == Edges({"settled", "failed"})
Statuses == DOMAIN Forward
Terminal == {"settled", "expired", "failed"}
Reported == {"funded", "wrapped", "purchased"}
None == MaxPurchases + 1

Doing == {"closed", "idle", "funding", "wrapping", "buying", "bought", "reporting"}
Resting == [active |-> FALSE, next |-> 0, to |-> 0, clamp |-> None, found |-> {}]

TypeOK ==
  /\ status \in [Sessions -> Statuses]
  /\ paidBy \in [Sessions -> 0 .. MaxPurchases]
  /\ late \subseteq Sessions
  /\ tabs \in [Tabs -> [of : Sessions, doing : Doing, seen : Statuses, tx : 0 .. MaxPurchases]]
  /\ handlers \subseteq [tab : Tabs, of : Sessions, to : Reported, tx : 0 .. MaxPurchases,
                         at : {"sent", "checked", "stored"}, expected : Statuses, heard : BOOLEAN]
  /\ chain \in Seq(Sessions) /\ Len(chain) <= MaxPurchases
  /\ cursor \in 0 .. None
  /\ scan \in [active : BOOLEAN, next : 0 .. None, to : 0 .. MaxPurchases,
               clamp : 0 .. None, found : SUBSET Sessions]
  /\ announced \in [Sessions -> [Statuses -> Nat]]
  /\ faults \in 0 .. MaxFaults

Init ==
  /\ status = [s \in Sessions |-> "pending"]
  /\ paidBy = [s \in Sessions |-> 0]
  /\ late = {}
  /\ tabs \in [Tabs -> [of : Sessions, doing : {"closed"}, seen : {"pending"}, tx : {0}]]
  /\ handlers = {}
  /\ chain = <<>>
  /\ cursor = None
  /\ scan = Resting
  /\ announced = [s \in Sessions |-> [e \in Statuses |-> 0]]
  /\ faults = 0

-----------------------------------------------------------------------------
Fault(kind) == kind \in Faults /\ faults < MaxFaults /\ faults' = faults + 1

\* The repository's conditional update, and one that is not.
Unconditionally(expected, s) == TRUE
Matches(expected, s) == status[s] = expected
Transition(s, to, tx) ==
  /\ status' = [status EXCEPT ![s] = to]
  /\ paidBy' = [paidBy EXCEPT ![s] = IF tx # 0 THEN tx ELSE @]

\* What the transition endpoint refuses before it tries the update.
Acceptable(s, to) ==
  /\ status[s] \notin Terminal
  /\ ~ (status[s] = "pending" /\ s \in late)
  /\ to \in Forward[status[s]]

-----------------------------------------------------------------------------
(* The page *)

Unheard(t) == {IF h.tab = t THEN [h EXCEPT !.heard = FALSE] ELSE h : h \in handlers}
Send(t, to, tx, then) ==
  /\ handlers' = Unheard(t) \cup
       {[tab |-> t, of |-> tabs[t].of, to |-> to, tx |-> tx,
         at |-> "sent", expected |-> "pending", heard |-> TRUE]}
  /\ tabs' = [tabs EXCEPT ![t].doing = then]
  /\ UNCHANGED <<status, paidBy, late, chain, cursor, scan, announced, faults>>

\* The page loads, or its event stream reconnects: it reads a snapshot.
Observe(t) ==
  /\ tabs[t].doing = "closed" \/ tabs[t].seen # status[tabs[t].of]
  /\ tabs' = [tabs EXCEPT ![t].seen = status[tabs[t].of],
                          ![t].doing = IF @ = "closed" THEN "idle" ELSE @]
  /\ UNCHANGED <<status, paidBy, late, handlers, chain, cursor, scan, announced, faults>>

\* The tab is closed or reloaded, forgetting what it was doing.
Close(t) ==
  /\ tabs[t].doing \notin {"closed", "idle"} /\ Fault("reload")
  /\ tabs' = [tabs EXCEPT ![t].doing = "closed", ![t].tx = 0]
  /\ handlers' = Unheard(t)
  /\ UNCHANGED <<status, paidBy, late, chain, cursor, scan, announced>>

\* The poller sees the deposit; commitFundedTransition.
ReportFunded(t) ==
  /\ tabs[t].doing = "idle" /\ tabs[t].seen = "pending"
  /\ Send(t, "funded", 0, "funding")

\* onConfirmBuy (by now the retry loop above is aborted): the wrapping
\* transactions succeed and are reported ...
ReportWrapped(t) ==
  /\ tabs[t].doing \in {"idle", "funding"} /\ tabs[t].seen \in {"funded", "wrapped"}
  /\ Send(t, "wrapped", 0, "wrapping")

\* ... the purchase goes on chain, or fails ...
Purchase(t) ==
  /\ tabs[t].doing = "buying"
  /\ \/ /\ Len(chain) < MaxPurchases
        /\ chain' = Append(chain, tabs[t].of)
        /\ tabs' = [tabs EXCEPT ![t].doing = "bought", ![t].tx = Len(chain) + 1]
     \/ /\ UNCHANGED chain
        /\ tabs' = [tabs EXCEPT ![t].doing = "idle"]
  /\ UNCHANGED <<status, paidBy, late, handlers, cursor, scan, announced, faults>>

\* ... and its hash is reported.
ReportPurchased(t) ==
  /\ tabs[t].doing = "bought"
  /\ Send(t, "purchased", tabs[t].tx, "reporting")

\* What a page does on an answer: only an error other than 409 stops the
\* ceremony, and only before the purchase.
After(doing, answer) ==
  CASE doing = "wrapping" /\ answer \in {"ok", "conflict"} -> "buying"
    [] doing = "closed" -> "closed"
    [] OTHER -> "idle"

Answered(h, answer) ==
  IF h.heard
  THEN [tabs EXCEPT ![h.tab].doing = After(@, answer),
                    ![h.tab].tx = IF h.to = "purchased" THEN 0 ELSE @]
  ELSE tabs

-----------------------------------------------------------------------------
(* The backend's transition handler: read, conditional update, announce. *)

Refuse(h) ==
  /\ tabs' = Answered(h, "conflict")
  /\ handlers' = handlers \ {h}
  /\ UNCHANGED <<status, paidBy, announced>>

Check(h) ==
  /\ h.at = "sent"
  /\ IF Acceptable(h.of, h.to)
     THEN /\ handlers' = (handlers \ {h}) \cup
               {[h EXCEPT !.at = "checked", !.expected = status[h.of]]}
          /\ UNCHANGED <<status, paidBy, tabs, announced>>
     ELSE Refuse(h)
  /\ UNCHANGED <<late, chain, cursor, scan, faults>>

Store(h) ==
  /\ h.at = "checked"
  /\ IF Matches(h.expected, h.of)
     THEN /\ Transition(h.of, h.to, h.tx)
          /\ handlers' = (handlers \ {h}) \cup {[h EXCEPT !.at = "stored"]}
          /\ UNCHANGED <<tabs, announced>>
     ELSE Refuse(h)
  /\ UNCHANGED <<late, chain, cursor, scan, faults>>

\* The stream pushes the event to the session's open pages.
Published(s, e, pages) ==
  [t \in Tabs |-> IF pages[t].of = s /\ pages[t].doing # "closed"
                  THEN [pages[t] EXCEPT !.seen = e] ELSE pages[t]]
Announce(s, e) == announced' = [announced EXCEPT ![s][e] = @ + 1]

Finish(h) ==
  /\ h.at = "stored"
  /\ tabs' = Published(h.of, h.to, Answered(h, "ok"))
  /\ Announce(h.of, h.to)
  /\ handlers' = handlers \ {h}
  /\ UNCHANGED <<status, paidBy, late, chain, cursor, scan, faults>>

-----------------------------------------------------------------------------
(* The settlement indexer *)

StartTick ==
  /\ ~ scan.active
  /\ IF cursor = None
     THEN /\ cursor' = Len(chain)
          /\ UNCHANGED scan
     ELSE /\ cursor < Len(chain)
          /\ scan' = [Resting EXCEPT !.active = TRUE, !.next = cursor + 1,
                        !.to = Min({cursor + MaxRange, Len(chain)})]
          /\ UNCHANGED cursor
  /\ UNCHANGED <<status, paidBy, late, tabs, handlers, chain, announced, faults>>

\* findByPurchaseTxHash: no row is "not ours", and the log is passed over.
Recorded(tx) == {s \in Sessions : paidBy[s] = tx}
LookUp ==
  /\ scan.active /\ scan.found = {} /\ scan.next <= scan.to
  /\ scan' = IF Recorded(scan.next) = {} THEN [scan EXCEPT !.next = @ + 1]
             ELSE [scan EXCEPT !.found = Recorded(scan.next)]
  /\ UNCHANGED <<status, paidBy, late, tabs, handlers, chain, cursor, announced, faults>>

\* On to the next log, possibly for the clamp to come back (or, a defect, for
\* it to be forgotten).
Passed == [scan EXCEPT !.found = {}, !.next = @ + 1]
Forgotten == [scan EXCEPT !.found = {}, !.next = @ + 1]
Retried == [Passed EXCEPT !.clamp = Min({@, scan.next})]

\* SettleFromEventUseCase: settle a session that is purchased, leave a
\* terminal one, come back for any other.
Settle(s) ==
  /\ scan.active /\ scan.found = {s}
  /\ IF status[s] = "purchased"
     THEN /\ Transition(s, "settled", 0)
          /\ Announce(s, "settled")
          /\ tabs' = Published(s, "settled", tabs)
          /\ scan' = Passed
     ELSE /\ scan' = IF status[s] \in Terminal THEN Passed ELSE Retried
          /\ UNCHANGED <<status, paidBy, tabs, announced>>
  /\ UNCHANGED <<late, handlers, chain, cursor, faults>>

\* The use case throws on a database error: processLog asks for a retry.
SettleFails ==
  /\ scan.active /\ scan.found # {} /\ Fault("database")
  /\ scan' = Retried
  /\ UNCHANGED <<status, paidBy, late, tabs, handlers, chain, cursor, announced>>

\* An error outside processLog's try abandons the tick, the cursor where it was.
TickFails ==
  /\ scan.active /\ Fault("database")
  /\ scan' = Resting
  /\ UNCHANGED <<status, paidBy, late, tabs, handlers, chain, cursor, announced>>

NextCursor(tick) == IF tick.clamp # None THEN tick.clamp - 1 ELSE tick.to
EndTick ==
  /\ scan.active /\ scan.found = {} /\ scan.next > scan.to
  /\ cursor' = Max({cursor, NextCursor(scan)})
  /\ scan' = Resting
  /\ UNCHANGED <<status, paidBy, late, tabs, handlers, chain, announced, faults>>

-----------------------------------------------------------------------------
(* Clock, network and crashes *)

\* The TTL gates pending sessions only.
Expire(s) ==
  /\ "expiry" \in Faults /\ s \notin late /\ status[s] = "pending"
  /\ late' = late \cup {s}
  /\ UNCHANGED <<status, paidBy, tabs, handlers, chain, cursor, scan, announced, faults>>

\* The page gives up on a request (no connection, 5xx, proxy timeout), which
\* may never have arrived or may still be served.
Lose(h) ==
  /\ h.heard /\ Fault("network")
  /\ tabs' = Answered(h, "error")
  /\ \/ h.at = "sent" /\ handlers' = handlers \ {h}
     \/ handlers' = (handlers \ {h}) \cup {[h EXCEPT !.heard = FALSE]}
  /\ UNCHANGED <<status, paidBy, late, chain, cursor, scan, announced>>

\* The backend restarts: requests, the tick and the in-memory cursor are gone.
Restart ==
  /\ Fault("restart")
  /\ handlers' = {}
  /\ tabs' = [t \in Tabs |->
       IF \E h \in handlers : h.tab = t /\ h.heard
       THEN [tabs[t] EXCEPT !.doing = After(@, "error"), !.tx = 0] ELSE tabs[t]]
  /\ cursor' = None
  /\ scan' = Resting
  /\ UNCHANGED <<status, paidBy, late, chain, announced>>

Page(t) ==
  Observe(t) \/ Close(t) \/ ReportFunded(t) \/ ReportWrapped(t) \/ Purchase(t) \/ ReportPurchased(t)
Handler(h) == Check(h) \/ Store(h) \/ Finish(h)
Indexer == StartTick \/ LookUp \/ (\E s \in Sessions : Settle(s)) \/ EndTick

Next ==
  \/ \E t \in Tabs : Page(t)
  \/ \E h \in handlers : Handler(h) \/ Lose(h)
  \/ Indexer \/ SettleFails \/ TickFails
  \/ \E s \in Sessions : Expire(s)
  \/ Restart

Spec == Init /\ [][Next]_vars

\* The process keeps serving its requests and its interval keeps firing.
Serving ==
  /\ WF_vars(Indexer)
  /\ \A t \in Tabs : WF_vars(\E h \in handlers : h.tab = t /\ Handler(h))
ServedSpec == Spec /\ Serving

-----------------------------------------------------------------------------
(* Safety *)

\* However tabs, retries and the indexer race, the issuer's webhook and the
\* stream hear of each step of a session at most once.
AnnouncedOnce == \A s \in Sessions, e \in Statuses : announced[s][e] <= 1

\* A row moves along one edge of the state machine at a time, although every
\* handler decides on a status it read before an await.
StepsForward == \A s \in Sessions : status'[s] # status[s] => status'[s] \in Forward[status[s]]
OneStepForward == [][StepsForward]_vars

\* Once a purchase is recorded for a session no other purchase, of another tab
\* or of a repeated ceremony, takes its place; and a settled session names a
\* purchase that was made for it.
KeepsPayment ==
  \A s \in Sessions :
    /\ paidBy[s] # 0 => paidBy'[s] = paidBy[s]
    /\ status'[s] = "settled" => chain'[paidBy'[s]] = s
PaymentKept == [][KeepsPayment]_vars

-----------------------------------------------------------------------------
(* Liveness *)

\* The indexer has yet to look for the row that recorded the purchase.
Ahead(s) ==
  /\ status[s] = "purchased" /\ cursor # None
  /\ cursor < paidBy[s] /\ (scan.active => scan.next <= paidBy[s])

\* A recorded purchase the indexer has not passed is settled, through failed
\* ticks and failed settlements; only a restart forgets it.
AheadSettles == \A s \in Sessions : Ahead(s) ~> (status[s] = "settled" \/ cursor = None)

-----------------------------------------------------------------------------
(* Said of the code and not so: each has a counterexample under the faults *)
(* above, which the README tells.                                           *)

\* A session whose purchase is recorded is settled in the end, as the indexer's
\* clamp promises.  (It is not.)
PurchasedSettles == \A s \in Sessions : status[s] = "purchased" ~> status[s] = "settled"
=============================================================================
