--------------------------- MODULE OpenclawIntent ---------------------------
(***************************************************************************)
(* A purchase the chat agent proposes, from the proposal to the receipt:   *)
(* the queue of proposals and the confirmation dialogue of the agent page, *)
(* the intent the backend mints beside a proposal of a user who has linked *)
(* Telegram, the bot's Confirm and Deny buttons, the event stream that     *)
(* tells the open page of an answer, the runner that buys, and the commit  *)
(* that spends the proposal's confirm token.                               *)
(*                                                                         *)
(* A proposal lives in the memory of one browser tab, so one tab is        *)
(* modelled: the lock in local storage that keeps two tabs apart is left   *)
(* out.  An amount is only its tier: a small intent is answered with the   *)
(* buttons in the chat, a larger one in the mini-app with a code from a    *)
(* second message, the largest on a page of the dashboard.                 *)
(***************************************************************************)
EXTENDS Naturals, Sequences, FiniteSets, SequencesExt

CONSTANTS
    Buys,         \* the purchases the agent may propose
    Linked,       \* those for which an intent is minted
    Coded,        \* of those, the ones the mini-app confirms with a code
    Deep,         \* of those, the ones a page of the dashboard confirms
    Scoped,       \* TRUE when a Scoped session is live
    Answers,      \* what the user may tap in Telegram: "confirm", "deny"
    Faults,       \* the kinds of fault that may happen
    MaxFaults,    \* bound: how many of them
    MaxBuys,      \* bound: purchases of one proposal
    NoBuy         \* no dialogue is open

BuysAssumption == /\ Linked \subseteq Buys
                         /\ Coded \subseteq Linked /\ Deep \subseteq Linked \ Coded
                         /\ NoBuy \notin Buys
                         /\ Scoped \in BOOLEAN
AnswersAssumption == Answers \subseteq {"confirm", "deny"}
BoundsAssumption ==
    /\ Faults \subseteq {"notify", "audit", "event", "refuse", "timeout",
                         "commit", "slow", "leave"}
    /\ MaxFaults \in Nat
    /\ MaxBuys \in Nat \ {0}

VARIABLES
    queue,        \* pendingActions
    active,       \* activeAction, the proposal the dialogue shows
    modal,        \* the dialogue's status
    fallback,     \* "Use dashboard instead" was pressed
    here,         \* the agent page is mounted
    visit,        \* which mounting of it this is
    firing,       \* firingIntents
    looked,       \* lookedUpIntents
    runs,         \* runs[b]: the runs of the runner for b, in flight
    row,          \* row[b]: the intent's row
    sent,         \* intents whose message reached the chat
    coded,        \* intents whose code reached the chat
    spurned,      \* pending intents whose Deny in the chat was answered "Not allowed"
    requests,     \* answers the backend has checked and not yet applied
    verdicts,     \* verdicts[b]: the audit rows written for the intent
    events,       \* events on their way to the page
    token,        \* token[b]: the confirm token
    age,          \* age[b]: 1 once the token has expired, 2 once the intent has
    bought,       \* bought[b]: purchases that landed
    receipts,     \* <<b, c>>: the token of b was spent with the purchase of c
    asked,        \* proposals whose Authorize was pressed, or pressed for the user
    shown,        \* proposals reported as settled, with a receipt in the audit log
    faults        \* faults so far

pageVars == <<queue, active, modal, fallback, here, visit, firing, looked>>
botVars == <<row, sent, coded, spurned, requests, verdicts>>
chainVars == <<token, age, bought, receipts>>
vars == <<pageVars, runs, botVars, events, chainVars, asked, shown, faults>>

Fault(kind) == /\ kind \in Faults
               /\ faults < MaxFaults
               /\ faults' = faults + 1

NewRun == [visit |-> visit, at |-> "sending", spends |-> NoBuy]

TypeOK ==
    /\ queue \in Seq(Buys)
    /\ active \in Buys \cup {NoBuy}
    /\ modal \in {"idle", "submitting", "committing", "success", "error"}
    /\ fallback \in BOOLEAN /\ here \in BOOLEAN /\ visit \in Nat
    /\ firing \subseteq Linked /\ looked \subseteq Linked
    /\ \A b \in Buys : \A i \in DOMAIN runs[b] :
          runs[b][i] \in [visit : 0..visit, spends : Buys \cup {NoBuy},
                          at : {"sending", "ok", "failed", "commit",
                                "recorded", "rejected"}]
    /\ row \in [Buys -> {"none", "pending", "confirmed", "denied", "expired"}]
    /\ sent \subseteq Linked /\ coded \subseteq sent \cap Coded
    /\ spurned \subseteq sent
    /\ requests \subseteq Linked \X Answers
    /\ verdicts \in [Buys -> SUBSET Answers]
    /\ events \subseteq Answers \X Linked
    /\ token \in [Buys -> {"none", "live", "used"}]
    /\ age \in [Buys -> 0..2] /\ bought \in [Buys -> 0..MaxBuys]
    /\ receipts \subseteq Buys \X Buys
    /\ asked \subseteq Buys /\ shown \subseteq Buys
    /\ faults \in 0..MaxFaults

Init ==
    /\ queue = <<>> /\ active = NoBuy /\ modal = "idle" /\ fallback = FALSE
    /\ here = TRUE /\ visit = 0 /\ firing = {} /\ looked = {}
    /\ runs = [b \in Buys |-> <<>>]
    /\ row = [b \in Buys |-> "none"] /\ sent = {} /\ coded = {}
    /\ spurned = {} /\ requests = {}
    /\ verdicts = [b \in Buys |-> {}] /\ events = {}
    /\ token = [b \in Buys |-> "none"] /\ age = [b \in Buys |-> 0]
    /\ bought = [b \in Buys |-> 0] /\ receipts = {}
    /\ asked = {} /\ shown = {} /\ faults = 0

-----------------------------------------------------------------------------
(* The page. *)

\* A proposal is authorized for the user when a Scoped session is live and no
\* intent was minted for it.
AutoConfirmed(b) == Scoped /\ b \notin Linked

\* What every handler of the page ends with: the queue is q and the dialogue
\* shows b.  The watcher of the queue's length runs after the handler, when the
\* length changed, and opens the first proposal if no dialogue is open; the
\* dialogue's own watcher resets it when its proposal changes.
Show(q, b, status, rs) ==
    LET mounts == here /\ b = NoBuy /\ q # <<>> /\ Len(q) # Len(queue)
        now == IF mounts THEN q[1] ELSE b
        auto == mounts /\ AutoConfirmed(now)
        fires == auto /\ age[now] = 0
    IN  /\ queue' = q
        /\ active' = now
        /\ modal' = CASE fires -> "submitting"
                      [] auto /\ ~fires -> "error"
                      [] ~auto /\ now = active -> status
                      [] OTHER -> "idle"
        /\ fallback' = (fallback /\ now = active)
        /\ runs' = IF fires THEN [rs EXCEPT ![now] = Append(@, NewRun)] ELSE rs
        /\ asked' = IF fires THEN asked \cup {now} ELSE asked

\* A proposal is queued once.
Without(b) ==
    IF \E i \in DOMAIN queue : queue[i] = b
    THEN RemoveAt(queue, CHOOSE i \in DOMAIN queue : queue[i] = b)
    ELSE queue

\* The intent of a linked proposal, written before the proposal is returned.
Minted(b) == [row EXCEPT ![b] = IF b \in Linked THEN "pending" ELSE @]

\* The bot is told without waiting for it; its two messages, the preview and
\* the code, are each sent at best.
Notified(b) ==
    \/ /\ sent' = sent \cup ({b} \cap Linked)
       /\ coded' = coded \cup ({b} \cap Coded)
       /\ UNCHANGED faults
    \/ b \in Linked /\ Fault("notify") /\ UNCHANGED <<sent, coded>>
    \/ b \in Coded /\ Fault("notify") /\ sent' = sent \cup {b} /\ UNCHANGED coded

\* The chat stream's proposal joins the queue.
Queued(b) == Append(queue, b)

\* The agent proposes: a confirm token is issued, an intent minted and sent, and
\* the proposal reaches the queue.
Propose(b) ==
    /\ token[b] = "none"
    /\ token' = [token EXCEPT ![b] = "live"]
    /\ row' = Minted(b)
    /\ Notified(b)
    /\ Show(Queued(b), active, modal, runs)
    /\ UNCHANGED <<here, visit, firing, looked, requests, verdicts, spurned,
                   events, age, bought, receipts, shown>>

UseDashboard ==
    /\ here /\ active \in Linked /\ modal = "idle" /\ ~fallback
    /\ fallback' = TRUE
    /\ UNCHANGED <<queue, active, modal, here, visit, firing, looked, runs,
                   botVars, events, chainVars, asked, shown, faults>>

\* Mutant: the runner is started without the lock of the page.
BeginUnlocked(b) ==
    /\ runs' = [runs EXCEPT ![b] = Append(@, NewRun)]
    /\ firing' = firing

\* onAuthorize: a second caller for an intent that is being fired does nothing.
Begin(b) ==
    /\ runs' = IF b \in firing THEN runs
               ELSE [runs EXCEPT ![b] = Append(@, NewRun)]
    /\ firing' = firing \cup ({b} \cap Linked)

\* The Authorize button shows when the dialogue is idle or in error, unless the
\* dialogue waits for Telegram. Whether the proposal has expired is computed
\* when the button first shows, and then kept: one that expires on the screen is
\* fired all the same, and only its commit is refused. (The button of one that
\* had expired before that is disabled; here it may be pressed, too.)
Press ==
    /\ here /\ active # NoBuy /\ modal \in {"idle", "error"}
    /\ active \in Linked /\ modal = "idle" => fallback
    /\ bought[active] < MaxBuys
    /\ Begin(active) /\ modal' = "submitting" /\ asked' = asked \cup {active}
    /\ UNCHANGED <<queue, active, fallback, here, visit, looked, botVars,
                   events, chainVars, shown, faults>>

Cancel ==
    /\ here /\ active # NoBuy /\ modal \in {"idle", "error"}
    /\ Show(Without(active), NoBuy, modal, runs)
    /\ UNCHANGED <<here, visit, firing, looked, botVars, events, chainVars,
                   shown, faults>>

\* Every route of an intent first marks the expired ones.
Swept == [b \in Buys |-> IF row[b] = "pending" /\ age[b] = 2
                         THEN "expired" ELSE row[b]]

\* The lookup of a linked proposal that opens.  The route sweeps expired
\* intents and answers "pending" or 404 and nothing else, and neither answer
\* changes the page.
Lookup ==
    /\ here /\ active \in Linked \ looked
    /\ looked' = looked \cup {active}
    /\ row' = Swept
    /\ UNCHANGED <<queue, active, modal, fallback, here, visit, firing, runs,
                   sent, coded, spurned, requests, verdicts, events, chainVars, asked, shown,
                   faults>>

\* Mutant: the handler does not compare the event's intent with the dialogue's.
HeedAny(kind, b) == active # NoBuy

\* Mutant: the page stops listening once the dashboard's own button is shown.
HeedWhileWaiting(kind, b) == active = b /\ ~fallback

\* An event is heeded when it is about the intent of the open dialogue.
Heeded(kind, b) == active = b

\* An event reaches the page.
Deliver(kind, b) ==
    /\ here /\ <<kind, b>> \in events
    /\ events' = events \ {<<kind, b>>}
    /\ \/ /\ ~Heeded(kind, b)
          /\ UNCHANGED <<queue, active, modal, fallback, firing, runs, asked>>
       \/ /\ Heeded(kind, b) /\ kind = "confirm"
          /\ bought[active] < MaxBuys
          /\ Begin(active)
          /\ modal' = IF active \in firing THEN modal ELSE "submitting"
          /\ UNCHANGED <<queue, active, fallback, asked>>
       \/ /\ Heeded(kind, b) /\ kind = "deny"
          /\ Show(Without(active), NoBuy, modal, runs)
          /\ UNCHANGED firing
    /\ UNCHANGED <<here, visit, looked, botVars, chainVars, shown, faults>>

\* The stream is reconnecting, or a frame is lost.
LoseEvent(e) ==
    /\ e \in events /\ Fault("event")
    /\ events' = events \ {e}
    /\ UNCHANGED <<pageVars, runs, botVars, chainVars, asked, shown>>

\* The user goes to another route.  The page's own state goes with it; the
\* queue is in the store, and the runs go on.
Leave ==
    /\ here /\ Fault("leave")
    /\ here' = FALSE /\ active' = NoBuy /\ modal' = "idle" /\ fallback' = FALSE
    /\ firing' = {} /\ looked' = {} /\ events' = {}
    /\ UNCHANGED <<queue, visit, runs, botVars, chainVars, asked, shown>>

\* The watcher of the queue does not run when the page is mounted.
Return ==
    /\ ~here
    /\ here' = TRUE /\ visit' = visit + 1
    /\ UNCHANGED <<queue, active, modal, fallback, firing, looked, runs,
                   botVars, events, chainVars, asked, shown, faults>>

-----------------------------------------------------------------------------
(* The runner, and what the page does with its result. *)

Run(b, i) == i \in DOMAIN runs[b]
MoveTo(b, i, at) == [runs EXCEPT ![b][i].at = at]
Gone(b, i) == [runs EXCEPT ![b] = RemoveAt(@, i)]
Mounted(b, i) == here /\ runs[b][i].visit = visit
Released(b, i) == IF runs[b][i].visit = visit THEN firing \ {b} ELSE firing

\* The runner ends: the purchase landed; the balance gate, the passkey or the
\* bundler refused it; or it landed and the wait for its receipt threw.
Ends(b, i) ==
    /\ Run(b, i) /\ runs[b][i].at = "sending"
    /\ \/ bought[b] < MaxBuys /\ bought' = [bought EXCEPT ![b] = @ + 1]
          /\ runs' = MoveTo(b, i, "ok") /\ UNCHANGED faults
       \/ Fault("refuse") /\ runs' = MoveTo(b, i, "failed") /\ UNCHANGED bought
       \/ bought[b] < MaxBuys /\ bought' = [bought EXCEPT ![b] = @ + 1]
          /\ Fault("timeout") /\ runs' = MoveTo(b, i, "failed")
    /\ UNCHANGED <<pageVars, botVars, events, token, age, receipts, asked, shown>>

\* The runner returns and the dialogue is closed, or the page has gone: the
\* result is dropped and a success is still announced.
Unheard(b, i) ==
    /\ Run(b, i) /\ runs[b][i].at \in {"ok", "failed"}
    /\ Mounted(b, i) => active = NoBuy
    /\ runs' = Gone(b, i)
    /\ firing' = Released(b, i)
    /\ shown' = IF runs[b][i].at = "ok" THEN shown \cup {b} ELSE shown
    /\ UNCHANGED <<queue, active, modal, fallback, here, visit, looked, botVars,
                   events, chainVars, asked, faults>>

\* The runner returns with an error: the dialogue's proposal leaves the queue
\* and stays on the screen, with Authorize for another try.
Failed(b, i) ==
    /\ Run(b, i) /\ runs[b][i].at = "failed" /\ Mounted(b, i) /\ active # NoBuy
    /\ firing' = Released(b, i)
    /\ Show(Without(active), active, "error", Gone(b, i))
    /\ UNCHANGED <<here, visit, looked, botVars, events, chainVars, shown, faults>>

\* The runner returns with a hash: the dialogue commits it under the token of
\* the proposal it shows.
Reports(b, i) ==
    /\ Run(b, i) /\ runs[b][i].at = "ok" /\ Mounted(b, i) /\ active # NoBuy
    /\ modal' = "committing"
    /\ runs' = [runs EXCEPT ![b][i].at = "commit", ![b][i].spends = active]
    /\ UNCHANGED <<queue, active, fallback, here, visit, firing, looked, botVars,
                   events, chainVars, asked, shown, faults>>

\* Mutant: the commit does not spend the token.
SpendableTwice(b) == token[b] # "none" /\ age[b] = 0

\* A confirm token is spent once, before it expires.
Spendable(b) == token[b] = "live" /\ age[b] = 0

\* The commit request: the token is spent and the receipt written, or it is
\* refused; a request may be lost on the way in or its answer on the way out.
Commit(b, i) ==
    LET t == runs[b][i].spends IN
    /\ Run(b, i) /\ runs[b][i].at = "commit"
    /\ \/ /\ Spendable(t)
          /\ token' = [token EXCEPT ![t] = "used"]
          /\ receipts' = receipts \cup {<<t, b>>}
          /\ \/ runs' = MoveTo(b, i, "recorded") /\ UNCHANGED faults
             \/ Fault("commit") /\ runs' = MoveTo(b, i, "rejected")
       \/ /\ ~Spendable(t)
          /\ runs' = MoveTo(b, i, "rejected")
          /\ UNCHANGED <<token, receipts, faults>>
       \/ /\ Fault("commit")
          /\ runs' = MoveTo(b, i, "rejected")
          /\ UNCHANGED <<token, receipts>>
    /\ UNCHANGED <<pageVars, botVars, events, age, bought, asked, shown>>

\* The commit's answer reaches the dialogue.  Success takes the proposal the
\* dialogue shows out of the queue and opens the next; a refusal leaves it on
\* the screen with Authorize for another try.  The page announces the purchase
\* either way, unless the dialogue was closed meanwhile.
Answered(b, i) ==
    LET rest == Without(active) IN
    /\ Run(b, i) /\ runs[b][i].at \in {"recorded", "rejected"}
    /\ firing' = Released(b, i)
    /\ \/ /\ Mounted(b, i) /\ active # NoBuy
          /\ \/ runs[b][i].at = "recorded"
                /\ Show(rest, IF rest = <<>> THEN NoBuy ELSE rest[1], "success",
                        Gone(b, i))
             \/ runs[b][i].at = "rejected"
                /\ Show(rest, active, "error", Gone(b, i))
          /\ shown' = shown \cup {b}
       \/ /\ ~Mounted(b, i) \/ active = NoBuy
          /\ runs' = Gone(b, i)
          /\ shown' = IF Mounted(b, i) THEN shown ELSE shown \cup {b}
          /\ UNCHANGED <<queue, active, modal, fallback, asked>>
    /\ UNCHANGED <<here, visit, looked, botVars, events, chainVars, faults>>

Age(b) ==
    /\ token[b] # "none" /\ age[b] < 2 /\ Fault("slow")
    /\ age' = [age EXCEPT ![b] = @ + 1]
    /\ UNCHANGED <<pageVars, runs, botVars, events, token, bought, receipts,
                   asked, shown>>

-----------------------------------------------------------------------------
(* The bot's buttons, and the mini-app's, and the deep-linked page's. *)

\* What the use case asks before it writes.
Unanswered(b) == row[b] = "pending" /\ age[b] < 2

Asks(b, kind) ==
    /\ kind \in Answers /\ <<b, kind>> \notin requests
    /\ Unanswered(b)
    /\ requests' = requests \cup {<<b, kind>>}
    /\ row' = Swept
    /\ UNCHANGED <<pageVars, runs, sent, coded, spurned, verdicts, events,
                   chainVars, asked, shown, faults>>

\* The buttons in the chat, for a small intent.
TapInline(b, kind) == b \in sent \ (Coded \cup Deep) /\ Asks(b, kind)

\* The route of the chat's buttons serves small intents only, and the message
\* of a larger one has a Deny button too.
TapInVain(b) ==
    /\ b \in sent \cap (Coded \cup Deep) /\ "deny" \in Answers /\ row[b] = "pending"
    /\ spurned' = spurned \cup {b}
    /\ UNCHANGED <<pageVars, runs, row, sent, coded, requests, verdicts, events,
                   chainVars, asked, shown, faults>>

\* The mini-app: a confirmation carries the code.
TapMiniApp(b, kind) ==
    /\ b \in sent \cap Coded
    /\ kind = "confirm" => b \in coded
    /\ Asks(b, kind)

\* The page behind the link in the chat.
TapPage(b, kind) == b \in sent \cap Deep /\ Asks(b, kind)

\* Mutant: the update does not ask that the row is still pending.
StillOpenAnyRow(b) == token[b] # "none"

\* The condition of the update: still pending. A confirmation also asks that the
\* intent was not past its expiry when its handler began, which the check before
\* has found by the same clock reading: it is the sweep of another request that
\* ends one the handler has in hand.
StillOpen(b) == row[b] = "pending"

\* The event goes to the pages that are connected.
Published(b, kind) == IF here THEN events \cup {<<kind, b>>} ELSE events

\* The update, the audit row and the event; or the race is lost, and nothing is
\* done; or the audit row fails, and no event is sent.
Apply(b, kind, to) ==
    /\ <<b, kind>> \in requests
    /\ requests' = requests \ {<<b, kind>>}
    /\ \/ /\ ~StillOpen(b)
          /\ UNCHANGED <<row, verdicts, events, faults>>
       \/ /\ StillOpen(b)
          /\ row' = [row EXCEPT ![b] = to]
          /\ \/ /\ verdicts' = [verdicts EXCEPT ![b] = @ \cup {kind}]
                /\ events' = Published(b, kind)
                /\ UNCHANGED faults
             \/ Fault("audit") /\ UNCHANGED <<verdicts, events>>
    /\ UNCHANGED <<pageVars, runs, sent, coded, spurned, chainVars, asked, shown>>

Confirm(b) == Apply(b, "confirm", "confirmed")
Deny(b) == Apply(b, "deny", "denied")

-----------------------------------------------------------------------------

RunStep(b, i) == \/ Ends(b, i) \/ Unheard(b, i) \/ Failed(b, i) \/ Reports(b, i)
                 \/ Commit(b, i) \/ Answered(b, i)

RunSteps == \E b \in Buys : \E i \in DOMAIN runs[b] : RunStep(b, i)
Taps(b, kind) == TapInline(b, kind) \/ TapMiniApp(b, kind) \/ TapPage(b, kind)

Delivers == \E kind \in Answers, b \in Linked : Deliver(kind, b)

Next ==
    \/ \E b \in Buys : Propose(b) \/ Age(b)
    \/ UseDashboard \/ Press \/ Cancel \/ Lookup \/ Leave \/ Return
    \/ \E e \in events : LoseEvent(e)
    \/ Delivers \/ RunSteps
    \/ \E b \in Linked, kind \in Answers : Taps(b, kind)
    \/ \E b \in Linked : TapInVain(b) \/ Confirm(b) \/ Deny(b)

Spec == Init /\ [][Next]_vars

\* The browser delivers what arrives and runs what was started; requests that
\* reached the backend are answered.  Nothing is assumed of the user.
FairSpec ==
    Spec /\ WF_vars(Delivers) /\ WF_vars(RunSteps) /\ WF_vars(Lookup)
         /\ \A b \in Linked : WF_vars(Confirm(b)) /\ WF_vars(Deny(b))

-----------------------------------------------------------------------------

\* The page's lock: at no time do two runs of one mounting of the page buy for
\* one linked proposal, whoever started them: the button, or an event from Telegram.
OneRunner ==
    \A b \in Linked : \A i, j \in DOMAIN runs[b] :
        runs[b][i].visit = runs[b][j].visit => i = j

\* An intent has one answer: a confirmation and a denial that race, or either
\* and the sweep of the expired, leave one audit row, and it says what the row says.
OneVerdict ==
    \A b \in Linked :
        /\ Cardinality(verdicts[b]) <= 1
        /\ "confirm" \in verdicts[b] => row[b] = "confirmed"
        /\ "deny" \in verdicts[b] => row[b] = "denied"

\* Nothing is bought that nobody asked for: a purchase has its proposal
\* authorized on the page, or its intent confirmed in Telegram.
BoughtWasAsked ==
    \A b \in Buys : bought[b] > 0 => b \in asked \/ row[b] = "confirmed"

\* One proposal is bought at most once.
BoughtOnce == \A b \in Buys : bought[b] <= 1

\* A token is spent with one purchase.
TokenSpentOnce == \A r, s \in receipts : r[1] = s[1] => r = s

\* A proposal that is open and idle when its intent is confirmed is fired from
\* the open page, unless the user closes it or leaves.
ConfirmedFires ==
    \A b \in Linked :
        (active = b /\ modal = "idle" /\ row[b] = "confirmed")
            ~> (runs[b] # <<>> \/ bought[b] > 0 \/ active # b)

-----------------------------------------------------------------------------
(* Said of the code and not so: each has a counterexample under the faults *)
(* above, which the README tells.                                           *)

\* A confirm token is spent with the purchase it was issued for.
ReceiptIsOwn == \A r \in receipts : r[1] = r[2]

\* What was denied in Telegram is not bought.
DeniedIsNotBought ==
    [][\A b \in Linked : row[b] = "denied" => bought'[b] = bought[b]]_vars

\* In a live Scoped session no trade of the agent waits for a click.
NoClick == active \in Buys /\ AutoConfirmed(active) => modal # "idle"

\* What the page announces as settled has its receipt in the audit log.
SettledHasReceipt == \A b \in shown : <<b, b>> \in receipts

\* What is confirmed is bought, whether or not the agent page is open.
ConfirmedIsBought == \A b \in Linked : row[b] = "confirmed" ~> bought[b] > 0

\* A Deny button the bot offers is one the backend serves.
DenyIsServed == spurned = {}
=============================================================================
