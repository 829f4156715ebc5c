----------------------------- MODULE PolicyTier -----------------------------
(***************************************************************************)
(* How far the agent may go without asking. A user has a tier on each      *)
(* surface; the dashboard asks for another one (up: a confirmation token   *)
(* first, down: at once), pauses, resumes and mints the session whose key  *)
(* buys silently. A cron sweeps the silent tiers and pauses on a breach.   *)
(* Every request reads the stored tier, awaits, and writes a whole row     *)
(* back: requests interleave between their reads and their writes, and a   *)
(* failed insert of the audit row or a crash ends them in between.         *)
(*                                                                         *)
(* Two of the four surfaces; only "mcp" has sessions. A token is its       *)
(* number.                                                                 *)
(***************************************************************************)
EXTENDS Naturals, Sequences, FiniteSets

CONSTANTS
  Requests,   \* requests the backend handles at a time
  Wanted,     \* the tiers the user asks for
  Engine,     \* whether the policy engine's cron runs
  MaxTokens,  \* bound: confirmation tokens issued
  Faults,     \* what fails in this instance: "audit", "crash", "engine"
  MaxFaults   \* bound: how often

PolicyAssumption ==
  /\ Requests # {} /\ "cron" \notin Requests
  /\ Wanted \subseteq {"advisory", "confirm", "bound", "scoped"}
  /\ Engine \in BOOLEAN /\ MaxTokens \in Nat /\ MaxFaults \in Nat
  /\ Faults \subseteq {"audit", "crash", "engine"}

Order == <<"havenbot", "mcp">>
Surfaces == {Order[i] : i \in DOMAIN Order}
Rank == [advisory |-> 0, confirm |-> 1, bound |-> 2, scoped |-> 3]
Tiers == DOMAIN Rank \cup {"paused"}
Workers == Requests \cup (IF Engine THEN {"cron"} ELSE {})

VARIABLES
  tier,     \* agent_user_state: the tier on each surface
  tokens,   \* agent_confirm_tokens, in the order they were issued
  job,      \* what each worker is doing
  trail,    \* the last audit row of each surface: the tier it says was entered
  active,   \* whether there is an active session on "mcp"
  bought,   \* whether the session key has bought since the last step
  sweep,    \* surfaces the cron has still to look at, or that it sleeps
  breach,   \* what the risk parameters say of the user
  held,     \* history: surfaces a pause was answered for, and no resume begun
  faults

vars == <<tier, tokens, job, trail, active, bought, sweep, breach, held, faults>>

Idle == [kind |-> "none", at |-> "read", list |-> Order, n |-> 1, target |-> "paused", token |-> 0]
Surface(j) == j.list[j.n]
Last(j) == j.n = Len(j.list)

Jobs == [kind : {"none", "request", "commit", "pause", "resume", "mint"}, at : {"read", "issue", "consume", "write", "audit", "create"},
         list : {Order} \cup {<<s>> : s \in Surfaces}, n : 1 .. Len(Order), target : Tiers, token : 0 .. MaxTokens]
TypeOK ==
  /\ tier \in [Surfaces -> Tiers] /\ trail \in [Surfaces -> Tiers]
  /\ Len(tokens) <= MaxTokens
  /\ \A i \in DOMAIN tokens : tokens[i] \in [surface : Surfaces, target : DOMAIN Rank, live : BOOLEAN, old : BOOLEAN, writes : Nat]
  /\ job \in [Workers -> Jobs] /\ \A w \in Workers : job[w].n <= Len(job[w].list)
  /\ \A w \in Workers : job[w].at \in {"issue", "consume"} => job[w].target # "paused"
  /\ active \in BOOLEAN /\ bought \in BOOLEAN
  /\ sweep \in SUBSET Surfaces
  /\ breach \in {"none", "own", "kyc"}
  /\ held \subseteq Surfaces /\ faults \in 0 .. MaxFaults

Init ==
  /\ tier = [s \in Surfaces |-> "advisory"] /\ trail = tier
  /\ tokens = <<>> /\ job = [w \in Workers |-> Idle]
  /\ active = FALSE /\ bought = FALSE /\ sweep = {} /\ breach = "none"
  /\ held = {} /\ faults = 0

Fault(kind) == kind \in Faults /\ faults < MaxFaults /\ faults' = faults + 1

-----------------------------------------------------------------------------
(* The user *)

Started(kind, list, target, token) ==
  [kind |-> kind, at |-> "read", list |-> list, n |-> 1, target |-> target, token |-> token]
Starts(w, kind, list, target, token) ==
  /\ w \in Requests /\ job[w].kind = "none"
  /\ job' = [job EXCEPT ![w] = Started(kind, list, target, token)]
  /\ held' = IF kind = "resume" THEN held \ {list[1]} ELSE held
  /\ bought' = FALSE
  /\ UNCHANGED <<tier, tokens, trail, active, sweep, breach, faults>>

\* The page offers "scoped" on "mcp" only.
Request(w) == \E s \in Surfaces, t \in Wanted : (t = "scoped" => s = "mcp") /\ Starts(w, "request", <<s>>, t, 0)
\* The page posts its token, from one tab or two.
Commit(w) == \E i \in DOMAIN tokens : Starts(w, "commit", <<tokens[i].surface>>, tokens[i].target, i)
Pause(w) == \E list \in {<<s>> : s \in Surfaces} \cup {Order} : Starts(w, "pause", list, "paused", 0)
Resume(w) == \E s \in Surfaces : Starts(w, "resume", <<s>>, "advisory", 0)
Mint(w) == "scoped" \in Wanted /\ Starts(w, "mint", <<"mcp">>, "scoped", 0)

\* A session ends by revocation or in time; while there is one its key buys,
\* which no tier is looked at for.
SessionEnds ==
  /\ active /\ active' = FALSE /\ bought' = FALSE
  /\ UNCHANGED <<tier, tokens, job, trail, sweep, breach, held, faults>>
Buy ==
  /\ active /\ bought' = TRUE
  /\ UNCHANGED <<tier, tokens, job, trail, active, sweep, breach, held, faults>>

-----------------------------------------------------------------------------
(* The steps of a request *)

Now(w) == tier[Surface(job[w])]
Ends(w) == job' = [job EXCEPT ![w] = Idle]
Goes(w, at) == job' = [job EXCEPT ![w].at = at]
Rest == bought' = FALSE /\ UNCHANGED <<sweep, breach>>

\* A tier that is paused is left by resuming only; down is what loses power.
Allowed(from, to) == from # "paused" /\ to # from
\* The confirmation looks at the tier again.
AsRequested(from, to) == TRUE
Confirmable(from, to) == Allowed(from, to)
SilentToSilent(from, to) == Rank[to] < Rank[from] \/ Rank[from] + 1 = Rank[to]
Down(from, to) == Rank[to] < Rank[from]

\* The stored tier is read and what the request may do is decided on it.
Read(w) ==
  /\ job[w].kind # "none" /\ job[w].at = "read"
  /\ LET j == job[w] IN
     \/ /\ j.kind = "request" /\ Allowed(Now(w), j.target)
        /\ Goes(w, IF Down(Now(w), j.target) THEN "write" ELSE "issue")
     \/ j.kind = "commit" /\ Confirmable(Now(w), j.target) /\ Goes(w, "consume")
     \/ j.kind = "pause" /\ Goes(w, "write")
     \/ j.kind = "resume" /\ Now(w) = "paused" /\ Goes(w, "write")
     \/ j.kind = "mint" /\ Now(w) = "scoped" /\ Goes(w, "create")
     \/ /\ \/ j.kind = "request" /\ ~Allowed(Now(w), j.target)
           \/ j.kind = "commit" /\ ~Confirmable(Now(w), j.target)
           \/ j.kind = "resume" /\ Now(w) # "paused"
           \/ j.kind = "mint" /\ Now(w) # "scoped"
        /\ Ends(w)
  /\ Rest /\ UNCHANGED <<tier, tokens, trail, active, held, faults>>

Issue(w) ==
  /\ job[w].at = "issue" /\ Len(tokens) < MaxTokens
  /\ tokens' = Append(tokens, [surface |-> Surface(job[w]), target |-> job[w].target, live |-> TRUE, old |-> FALSE, writes |-> 0])
  /\ Ends(w) /\ Rest /\ UNCHANGED <<tier, trail, active, held, faults>>

\* One conditional update: of two posts of a token one consumes it.
Known(i) == i \in DOMAIN tokens
Consumable(i) == tokens[i].live
Consume(w) ==
  /\ job[w].at = "consume"
  /\ \/ /\ Consumable(job[w].token)
        /\ tokens' = [tokens EXCEPT ![job[w].token].live = FALSE]
        /\ job' = [job EXCEPT ![w].at = "write"]
     \/ ~Consumable(job[w].token) /\ Ends(w) /\ UNCHANGED tokens
  /\ Rest /\ UNCHANGED <<tier, trail, active, held, faults>>

\* A token lives for five minutes.
Lapse ==
  /\ \E i \in DOMAIN tokens : tokens[i].live /\ tokens' = [tokens EXCEPT ![i].live = FALSE]
  /\ Rest /\ UNCHANGED <<tier, job, trail, active, held, faults>>

\* The row is written as it follows from what was read. A pause makes the
\* surface's tokens old.
Used(w) ==
  [i \in DOMAIN tokens |->
     [tokens[i] EXCEPT !.old = @ \/ (job[w].kind = "pause" /\ tokens[i].surface = Surface(job[w])),
                       !.writes = IF i = job[w].token THEN @ + 1 ELSE @]]
Write(w) ==
  /\ job[w].at = "write"
  /\ tier' = [tier EXCEPT ![Surface(job[w])] = job[w].target]
  /\ tokens' = Used(w)
  /\ job' = [job EXCEPT ![w].at = "audit"]
  /\ Rest /\ UNCHANGED <<trail, active, held, faults>>

\* The audit row, and for a pause the next surface. Without the row the
\* request fails where it is.
Unrecorded(j) == j.target = "paused" \/ j.kind = "commit"
Recorded(j) == TRUE
Answered(j) == IF j.kind = "pause" /\ Last(j) THEN {j.list[i] : i \in DOMAIN j.list} ELSE {}
Onward(j) == [j EXCEPT !.at = "read", !.n = j.n + 1]
Audit(w) ==
  /\ job[w].at = "audit"
  /\ LET j == job[w] IN
     \/ /\ trail' = IF Recorded(j) THEN [trail EXCEPT ![Surface(j)] = j.target] ELSE trail
        /\ IF Last(j) THEN Ends(w) ELSE job' = [job EXCEPT ![w] = Onward(j)]
        /\ held' = held \cup Answered(j) /\ UNCHANGED faults
     \/ Fault("audit") /\ Ends(w) /\ UNCHANGED <<trail, held>>
  /\ Rest /\ UNCHANGED <<tier, tokens, active>>

\* The swept and deduplicated row; a unique index keeps one active.
Create(w) ==
  /\ job[w].at = "create" /\ active' = TRUE
  /\ Ends(w) /\ Rest /\ UNCHANGED <<tier, tokens, trail, held, faults>>

Crash ==
  /\ Fault("crash") /\ \E w \in Workers : job[w].kind # "none"
  /\ job' = [w \in Workers |-> Idle] /\ sweep' = {} /\ bought' = FALSE
  /\ UNCHANGED <<tier, tokens, trail, active, breach, held>>

-----------------------------------------------------------------------------
(* The cron *)

\* The users in a silent tier, read once for the tick.
SweptBound == {"bound"}
Silent == {"bound", "scoped"}
Swept == Silent
Tick ==
  /\ Engine /\ job["cron"].kind = "none" /\ sweep = {}
  /\ sweep' = {s \in Surfaces : tier[s] \in Swept} /\ bought' = FALSE
  /\ UNCHANGED <<tier, tokens, job, trail, active, breach, held, faults>>

\* A breach pauses; an answer that does not come after its retries does not.
Look ==
  /\ Engine /\ job["cron"].kind = "none"
  /\ \E s \in sweep :
       /\ sweep' = sweep \ {s}
       /\ \/ breach = "none" /\ UNCHANGED <<job, faults>>
          \/ breach # "none" /\ UNCHANGED faults
             /\ job' = [job EXCEPT !["cron"] = Started("pause", IF breach = "kyc" THEN Order ELSE <<s>>, "paused", 0)]
          \/ Fault("engine") /\ UNCHANGED job
  /\ bought' = FALSE /\ UNCHANGED <<tier, tokens, trail, active, breach, held>>

Breaches ==
  /\ Engine /\ breach' \in {"none", "own", "kyc"} \ {breach} /\ bought' = FALSE
  /\ UNCHANGED <<tier, tokens, job, trail, active, sweep, held, faults>>

-----------------------------------------------------------------------------
Step(w) == Read(w) \/ Issue(w) \/ Consume(w) \/ Write(w) \/ Audit(w) \/ Create(w)
User(w) == Request(w) \/ Commit(w) \/ Pause(w) \/ Resume(w) \/ Mint(w)
CronStep == Tick \/ Look \/ (Engine /\ Step("cron"))

Next ==
  \/ \E w \in Requests : User(w) \/ Step(w)
  \/ SessionEnds \/ Buy \/ Lapse
  \/ CronStep \/ Breaches \/ Crash

Spec == Init /\ [][Next]_vars

\* The cron ticks and its requests go on; what the user does is up to them.
FairSpec == Spec /\ WF_vars(CronStep)

-----------------------------------------------------------------------------
(* Properties *)

\* A pause that was answered holds until somebody resumes.
PauseHolds == \A s \in held : tier[s] = "paused"

\* One tap, one change: however often its token is posted, it changes the
\* tier once at most, and only its own surface's to its own tier.
OneTapOneChange == \A i \in DOMAIN tokens : tokens[i].writes <= 1

\* A change the user did not confirm never widens what the agent may do.
Narrows ==
  \A s \in Surfaces :
    tier'[s] # tier[s] /\ tier'[s] # "paused" /\ tokens' = tokens =>
      (IF tier[s] = "paused" THEN tier'[s] = "advisory" ELSE Rank[tier'[s]] < Rank[tier[s]])
NarrowsOnly == [][Narrows]_vars

\* When nothing is going on the last audit row of a surface says its tier.
AuditOrder == (\A w \in Workers : job[w].kind = "none") => trail = tier

\* A breach that lasts pauses every surface the agent acts silently on.
BreachPauses == \A s \in Surfaces : tier[s] \in Silent /\ breach # "none" ~> tier[s] \notin Silent \/ breach = "none"

-----------------------------------------------------------------------------
(* Said of the code and not so: each has a counterexample under the faults *)
(* above, which the README tells.                                           *)

\* Power given up by a pause comes back by a consent given after it.
FreshConsent == [][\A i \in DOMAIN tokens : tokens'[i].writes # tokens[i].writes => ~tokens[i].old]_vars

\* Under an answered pause of its surface the session key does not buy.
PausedStops == bought => "mcp" \notin held
=============================================================================
