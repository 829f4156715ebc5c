----------------------------- MODULE TokenDeploy -----------------------------
(***************************************************************************)
(* The issuer's wizard: a request starts a deployment that runs inside the *)
(* backend's process, step after step, each a transaction; its progress is *)
(* kept in a row and streamed to the page, which may be reloaded or lose   *)
(* the stream, and then asks for the row.                                  *)
(*                                                                         *)
(* The ten steps are grouped: the proxies first, the grants and wiring,    *)
(* and last the registration. A step publishes three events, so that what  *)
(* was published is a number: event 3k - 2 is "pending" of step k.         *)
(***************************************************************************)
EXTENDS Naturals, FiniteSets, Sequences

CONSTANTS
  Pages,        \* wizards, one issuer each
  Symbols,
  Steps,        \* number of steps
  MaxDeploys,   \* bound: requests accepted
  Faults,       \* what goes wrong in this instance
  MaxFaults     \* bound: how often

DeployAssumption ==
  /\ Steps \in Nat /\ Steps >= 2 /\ MaxDeploys \in Nat /\ MaxFaults \in Nat
  /\ Faults \subseteq {"call", "wait", "database", "rotation", "network", "reload", "reattach", "crash"}

VARIABLES
  deploys,   \* issuer_token_deploys: symbol, status, lastStep
  workers,   \* the run of each: events published, what it is doing
  done,      \* steps of each that took effect on chain
  rotated,   \* steps on contracts the deployer no longer owns
  buffered,  \* deploys whose history the event bus still has
  pages,
  faults

vars == <<deploys, workers, done, rotated, buffered, pages, faults>>

Grant == 2
Id == 1 .. MaxDeploys
Running(d) == deploys[d].status = "running"
Step(n) == (n + 2) \div 3
Kind(n) == <<"pending", "sent", "mined">>[((n - 1) % 3) + 1]
Blank == [k \in 1 .. Steps |-> "idle"]
Away == [at |-> "form", symbol |-> CHOOSE s \in Symbols : TRUE, deploy |-> 0,
         shown |-> Blank, final |-> "none", heard |-> 0]

TypeOK ==
  /\ deploys \in Seq([symbol : Symbols, status : {"running", "succeeded", "failed"}, lastStep : 0 .. Steps])
  /\ Len(deploys) <= MaxDeploys
  /\ workers \in [Id -> [at : {"none", "next", "sending", "waiting", "failing", "closing", "ended", "dead"},
                         events : 0 .. 3 * Steps]]
  /\ done \in [Id -> SUBSET (1 .. Steps)]
  /\ rotated \subseteq Grant .. Steps /\ buffered \subseteq Id
  /\ \A p \in Pages :
       /\ pages[p].at \in {"form", "checked", "loaded", "lost", "looked", "stream", "end"}
       /\ pages[p].deploy # 0 => pages[p].heard <= LET w == workers[pages[p].deploy] IN
                                  w.events + (IF w.at = "ended" THEN 1 ELSE 0)
       /\ pages[p].final \in {"none", "succeeded", "failed"}
  /\ faults \in 0 .. MaxFaults

Init ==
  /\ deploys = <<>> /\ done = [d \in Id |-> {}] /\ rotated = {}
  /\ workers = [d \in Id |-> [at |-> "none", events |-> 0]]
  /\ buffered = {}
  /\ pages \in [Pages -> {[Away EXCEPT !.symbol = s] : s \in Symbols}]
  /\ faults = 0

Fault(kind) == kind \in Faults /\ faults < MaxFaults /\ faults' = faults + 1
Registered == {d \in DOMAIN deploys : Steps \in done[d]}

-----------------------------------------------------------------------------
(* The request *)

Check(p) ==
  /\ pages[p].at = "form"
  /\ \A d \in Registered : deploys[d].symbol # pages[p].symbol
  /\ pages' = [pages EXCEPT ![p].at = "checked"]
  /\ UNCHANGED <<deploys, workers, done, rotated, buffered, faults>>

\* The row is stored and the run begun; the answer may be lost.
Start(p) ==
  LET d == Len(deploys) + 1 IN
  /\ pages[p].at = "checked" /\ d \in Id
  /\ deploys' = Append(deploys, [symbol |-> pages[p].symbol, status |-> "running", lastStep |-> 0])
  /\ workers' = [workers EXCEPT ![d].at = "next"]
  /\ buffered' = buffered \cup {d}
  /\ \/ pages' = [pages EXCEPT ![p].at = "lost", ![p].deploy = d] /\ UNCHANGED faults
     \/ Fault("network") /\ pages' = [pages EXCEPT ![p].at = "form"]
  /\ UNCHANGED <<done, rotated>>

-----------------------------------------------------------------------------
(* The run *)

Doing(d) == Step(workers[d].events)
Publish(d, at) == workers' = [workers EXCEPT ![d].at = at, ![d].events = @ + 1]
Move(d, at) == workers' = [workers EXCEPT ![d].at = at] /\ UNCHANGED <<deploys, done>>

\* Before the first step the run asks who owns the stable, and ends there
\* when it is not the deployer, or nobody answers. No other owner is asked for.
Owned == Grant \notin rotated
Refuse(d) ==
  /\ workers[d].at = "next" /\ workers[d].events = 0
  /\ \/ ~ Owned /\ UNCHANGED faults
     \/ Fault("call")
  /\ Move(d, "failing") /\ UNCHANGED <<rotated, buffered, pages>>

\* advance(step, pending): the row takes the step, or the write fails.
Begin(d) ==
  /\ workers[d].at = "next" /\ workers[d].events < 3 * Steps
  /\ workers[d].events = 0 => Owned
  /\ Publish(d, "sending")
  /\ \/ deploys' = [deploys EXCEPT ![d].lastStep = Step(workers[d].events + 1)] /\ UNCHANGED faults
     \/ Fault("database") /\ UNCHANGED deploys
  /\ UNCHANGED <<done, rotated, buffered, pages>>

\* What a refused send does: end the run, rather than go on without it.
Skips(d) ==
  /\ workers' = [workers EXCEPT ![d].at = "next", ![d].events = @ + 2]
  /\ UNCHANGED <<deploys, done>>
Throws(d) == Move(d, "failing")
\* A transaction that would revert is not sent: its gas cannot be estimated.
Send(d) ==
  /\ workers[d].at = "sending"
  /\ \/ Doing(d) \notin rotated /\ Publish(d, "waiting") /\ UNCHANGED <<deploys, done, faults>>
     \/ Doing(d) \in rotated /\ Throws(d) /\ UNCHANGED faults
     \/ Fault("call") /\ Throws(d)
  /\ UNCHANGED <<rotated, buffered, pages>>

\* The transaction is mined; it reverts when an owner was rotated meanwhile.
\* Of no grant and of no registration is the receipt's status looked at.
TakesEffect(d) == done' = [done EXCEPT ![d] = @ \cup ({Doing(d)} \ rotated)]
Unheeded(d) == Publish(d, "next")
Mined(d) ==
  /\ workers[d].at = "waiting"
  /\ TakesEffect(d) /\ Unheeded(d) /\ UNCHANGED <<deploys, rotated, buffered, pages, faults>>

\* The receipt never comes, though the transaction is mined.
WaitFails(d) ==
  /\ workers[d].at = "waiting" /\ Fault("wait") /\ TakesEffect(d)
  /\ workers' = [workers EXCEPT ![d].at = "failing"]
  /\ UNCHANGED <<deploys, rotated, buffered, pages>>

\* The owner of the stable, of a registry or of the oracle hands it on.
Rotate(k) ==
  /\ k \notin rotated /\ Fault("rotation")
  /\ rotated' = rotated \cup {k}
  /\ UNCHANGED <<deploys, workers, done, buffered, pages>>

Finalized(d, status) ==
  /\ deploys' = [deploys EXCEPT ![d].status = status,
                                ![d].lastStep = IF status = "succeeded" THEN Steps ELSE @]
  /\ workers' = [workers EXCEPT ![d].at = "closing"]
  /\ UNCHANGED done
Succeed(d) ==
  /\ workers[d].at = "next" /\ workers[d].events = 3 * Steps
  /\ \/ Finalized(d, "succeeded") /\ UNCHANGED faults
     \/ Fault("database") /\ Move(d, "failing")
  /\ UNCHANGED <<rotated, buffered, pages>>
Fail(d) ==
  /\ workers[d].at = "failing"
  /\ \/ Finalized(d, "failed") /\ UNCHANGED faults
     \/ Fault("database") /\ Move(d, "dead")
  /\ UNCHANGED <<rotated, buffered, pages>>

\* The closing event; until then the stream stays open.
End(d) ==
  /\ workers[d].at = "closing" /\ Move(d, "ended")
  /\ UNCHANGED <<rotated, buffered, pages, faults>>

\* A minute later the bus forgets; no handler takes that long to subscribe.
Undrained(d) == TRUE
Drained(d) == \A p \in Pages : pages[p].deploy = d => pages[p].at # "looked"
Cleanup(d) ==
  /\ d \in buffered /\ workers[d].at \in {"ended", "dead"} /\ Drained(d)
  /\ buffered' = buffered \ {d}
  /\ UNCHANGED <<deploys, workers, done, rotated, pages, faults>>

Crash ==
  /\ Fault("crash")
  /\ workers' = [d \in Id |-> [workers[d] EXCEPT !.at = IF @ \in {"none", "ended"} THEN @ ELSE "dead"]]
  /\ buffered' = {}
  /\ pages' = [p \in Pages |-> [pages[p] EXCEPT !.at = IF @ = "checked" THEN "form"
                                                       ELSE IF @ \in {"looked", "stream"} THEN "lost" ELSE @]]
  /\ UNCHANGED <<deploys, done, rotated>>

-----------------------------------------------------------------------------
(* The page *)

Page(p, new) == pages' = [pages EXCEPT ![p] = new] /\ UNCHANGED <<deploys, workers, done, rotated, buffered>>
Told(p, status) == [pages[p] EXCEPT !.at = "end", !.final = status]

\* applyStatusSnapshot: what the row says of the steps.
Snapshot(d) ==
  [k \in 1 .. Steps |->
     IF k < deploys[d].lastStep THEN "mined"
     ELSE IF k > deploys[d].lastStep THEN "idle"
     ELSE IF deploys[d].status = "failed" THEN "failed" ELSE "mined"]
Reload(p) ==
  /\ pages[p].at \in {"lost", "looked", "stream"} /\ Fault("reload")
  /\ Page(p, [pages[p] EXCEPT !.at = "loaded", !.shown = Blank, !.heard = 0])
\* It asks for the row; when that fails, it starts over with an empty form.
Reattach(p) ==
  /\ pages[p].at = "loaded"
  /\ LET d == pages[p].deploy
         snapped == [pages[p] EXCEPT !.shown = Snapshot(d)] IN
       \/ /\ Page(p, IF Running(d) THEN [snapped EXCEPT !.at = "lost"]
                     ELSE [snapped EXCEPT !.at = "end", !.final = deploys[d].status])
          /\ UNCHANGED faults
       \/ Fault("reattach") /\ Page(p, [Away EXCEPT !.symbol = pages[p].symbol])
StreamDrops(p) ==
  /\ pages[p].at \in {"looked", "stream"} /\ Fault("network")
  /\ Page(p, [pages[p] EXCEPT !.at = "lost"])

\* The page asks for the row, and may learn the end from it; when that fails
\* it stays as it is, and the stream's next error has it ask again.
Poll(p) ==
  /\ pages[p].at = "lost"
  /\ LET d == pages[p].deploy IN
       \/ ~ Running(d) /\ UNCHANGED faults /\ Page(p, [Told(p, deploys[d].status) EXCEPT !.shown = Snapshot(d)])
       \/ Fault("network") /\ Page(p, pages[p])

\* The events endpoint reads the row, then subscribes and replays.
Look(p) ==
  /\ pages[p].at = "lost" /\ UNCHANGED faults
  /\ LET d == pages[p].deploy IN
       Page(p, IF Running(d) THEN [pages[p] EXCEPT !.at = "looked"] ELSE Told(p, deploys[d].status))
Replayed(p) == IF pages[p].deploy \in buffered THEN 0 ELSE workers[pages[p].deploy].events
Subscribe(p) ==
  /\ pages[p].at = "looked" /\ UNCHANGED faults
  /\ IF pages[p].deploy \notin buffered /\ workers[pages[p].deploy].at = "ended"
       THEN Page(p, [pages[p] EXCEPT !.at = "stream", !.heard = workers[pages[p].deploy].events + 1])
       ELSE Page(p, [pages[p] EXCEPT !.at = "stream", !.heard = Replayed(p)])

\* Events a stream may hand on: those published, never more.
Available(d) == workers[d].events
Hear(p) ==
  /\ pages[p].at = "stream" /\ UNCHANGED faults
  /\ LET d == pages[p].deploy
         n == pages[p].heard + 1 IN
       \/ /\ n <= Available(d)
          /\ Page(p, [pages[p] EXCEPT !.heard = n, !.shown[Step(n)] = Kind(n)])
       \/ /\ n = workers[d].events + 1 /\ workers[d].at = "ended"
          /\ Page(p, [Told(p, deploys[d].status) EXCEPT !.heard = n])

-----------------------------------------------------------------------------
Run(d) == Refuse(d) \/ Begin(d) \/ Send(d) \/ Mined(d) \/ WaitFails(d) \/ Succeed(d) \/ Fail(d) \/ End(d)
View(p) == Reattach(p) \/ Poll(p) \/ Look(p) \/ Subscribe(p) \/ Hear(p)
Next ==
  \/ \E p \in Pages : Check(p) \/ Start(p) \/ View(p) \/ Reload(p) \/ StreamDrops(p)
  \/ \E d \in DOMAIN deploys : Run(d) \/ Cleanup(d)
  \/ Crash \/ \E k \in Grant .. Steps : Rotate(k)

\* The process goes on with what it began; streams deliver or are reopened.
Fairness == (\A d \in Id : WF_vars(d \in DOMAIN deploys /\ Run(d))) /\ \A p \in Pages : WF_vars(View(p))
Spec == Init /\ [][Next]_vars /\ Fairness

-----------------------------------------------------------------------------
\* A token in the registry has everything that was deployed and wired before
\* it, so whoever finds it there can use it, whatever failed on the way, but
\* for what an owner the deployer lost meanwhile had to grant.
RegisteredIsWired == \A d \in Registered : 1 .. Steps \subseteq done[d] \cup rotated

\* What a page says of the end is what became of the token: succeeded only
\* when it is registered, unless the registry was handed on, and failed only
\* when it is not.
EndTruthful ==
  \A p \in Pages :
    /\ pages[p].final = "succeeded" => pages[p].deploy \in Registered \/ Steps \in rotated
    /\ pages[p].final = "failed" => pages[p].deploy \notin Registered

\* However often its stream drops or it is reloaded, a page that began a
\* deployment is told how it ended.
EndTold == \A p \in Pages : pages[p].deploy # 0 ~> pages[p].final # "none"

-----------------------------------------------------------------------------
(* Said of the code and not so: each has a counterexample under the faults *)
(* above, which the README tells.                                           *)

\* No two registered tokens carry one symbol.
SymbolUnique ==
  \A d, e \in Registered : deploys[d].symbol = deploys[e].symbol => d = e

\* The step a failed deployment's row ends with is its last successful one.
LastStepSucceeded ==
  \A d \in DOMAIN deploys : deploys[d].status = "failed" => deploys[d].lastStep \in done[d] \cup {0}

\* A deployment that is reported to succeed has taken effect in every step,
\* the registration included.
SucceededIsWired == \A d \in DOMAIN deploys : deploys[d].status = "succeeded" => done[d] = 1 .. Steps
=============================================================================
