----------------------------- MODULE FollowStudy -----------------------------
(***************************************************************************)
(* CoreClient::follow_study and StudyEventStream of                        *)
(* crates/embarch-core-client/src/study_events.rs: subscribe to a study's  *)
(* events, poll its record once, follow the events live, and fall back to  *)
(* polling when the stream ends.  Core's side (the record, the prompts of  *)
(* a host study, the broadcast channel that drops its oldest events) is    *)
(* not in the repository: it is modelled from what the client says of it.  *)
(***************************************************************************)
EXTENDS Naturals, Sequences

CONSTANTS
  Capacity,     \* events Core's broadcast channel keeps for a subscriber
  MaxSteps,     \* bound: step events a study publishes
  MaxPrompts,   \* bound: prompts a host study opens
  MaxFaults,    \* bound: failed requests, cut streams and Core restarts
  Budgets,      \* deadlines followed under: "none" is None, "left" a Some
  Stops         \* values of stop_on_prompt

ASSUME FollowAssumption ==
  /\ Capacity \in Nat \ {0}
  /\ {MaxSteps, MaxPrompts, MaxFaults} \subseteq Nat
  /\ Budgets \subseteq {"none", "left"}
  /\ Stops \subseteq BOOLEAN

VARIABLES
  study,    \* Core's record: status, pending prompt (0: none), prompts and steps so far
  stream,   \* the subscription: "unopened", "open", "cut" or "refused"
  queue,    \* events published to it and not yet read
  dropped,  \* events Core dropped from it since it was last read
  pc,       \* where follow_study is
  snap,     \* the answer of the poll in flight
  seen,     \* prompt_seen (0: None)
  told,     \* the prompts that on_item was given
  outcome,  \* how follow_study returned
  lagged,   \* outcome.lagged_events > 0
  blind,    \* the opening poll failed
  budget,   \* the deadline: "none", "left" or "spent"
  stop,     \* stop_on_prompt
  faults

core   == <<study, stream, queue, dropped>>
client == <<pc, snap, seen, told, outcome, lagged, blind>>
vars   == <<core, client, budget, stop, faults>>

Prompts  == 1..MaxPrompts
\* Not the code: "running" taken for a terminal status.
AnyKnown == {"completed", "failed", "interrupted", "running"}
Terminal == {"completed", "failed", "interrupted"}
Statuses == Terminal \cup {"unknown", "running"}
Events   == [kind : {"status"}, status : Terminal] \cup [kind : {"prompt"}, id : Prompts]
              \cup [kind : {"step"}]
Studies  == [status : Statuses, prompt : 0..MaxPrompts, opened : 0..MaxPrompts, steps : 0..MaxSteps]
NoSnap   == [status |-> "unknown", prompt |-> 0]
Outcomes == {"none", "error", "timeout", "prompt"} \cup Statuses
Places   == {"subscribe", "opening", "opened", "live", "polling", "polled", "returned"}

TypeOK ==
  /\ study \in Studies
  /\ stream \in {"unopened", "open", "cut", "refused"}
  /\ queue \in Seq(Events) /\ Len(queue) <= Capacity
  /\ dropped \in BOOLEAN
  /\ pc \in Places
  /\ snap \in [status : Statuses, prompt : 0..MaxPrompts]
  /\ seen \in 0..MaxPrompts
  /\ told \subseteq Prompts
  /\ outcome \in Outcomes
  /\ outcome # "none" <=> pc = "returned"
  /\ lagged \in BOOLEAN
  /\ blind \in BOOLEAN
  /\ budget \in Budgets \cup {"spent"}
  /\ stop \in Stops
  /\ faults \in 0..MaxFaults

\* The id may be unknown to Core, and the study in any state, a prompt waiting.
Init ==
  /\ study \in {[status |-> s, prompt |-> p, opened |-> p, steps |-> 0] :
                  s \in Statuses, p \in 0..(IF MaxPrompts = 0 THEN 0 ELSE 1)}
  /\ study.prompt # 0 => study.status = "running"
  /\ stream = "unopened"
  /\ queue = <<>>
  /\ dropped = FALSE
  /\ pc = "subscribe"
  /\ snap = NoSnap
  /\ seen = 0
  /\ told = {}
  /\ outcome = "none"
  /\ lagged = FALSE
  /\ blind = FALSE
  /\ budget \in Budgets
  /\ stop \in Stops
  /\ faults = 0

-----------------------------------------------------------------------------
(* Core: the record changes and the event goes to whoever subscribes by then *)

Publish(event) ==
  CASE stream # "open"         -> UNCHANGED <<queue, dropped>>
    [] Len(queue) < Capacity   -> queue' = Append(queue, event) /\ UNCHANGED dropped
    [] OTHER                   -> queue' = Append(Tail(queue), event) /\ dropped' = TRUE

Change(record, event) ==
  /\ study.status = "running"
  /\ study' = record
  /\ Publish(event)
  /\ UNCHANGED <<stream, client, budget, stop, faults>>

StepDone ==
  /\ study.steps < MaxSteps
  /\ Change([study EXCEPT !.steps = @ + 1], [kind |-> "step"])

OpenPrompt ==
  /\ study.prompt = 0 /\ study.opened < MaxPrompts
  /\ Change([study EXCEPT !.prompt = study.opened + 1, !.opened = @ + 1],
            [kind |-> "prompt", id |-> study.opened + 1])

\* Somebody answers the prompt, or its own deadline passes.
ClosePrompt ==
  /\ study.prompt # 0
  /\ Change([study EXCEPT !.prompt = 0], [kind |-> "step"])

Finish ==
  \E status \in {"completed", "failed"} :
    Change([study EXCEPT !.status = status, !.prompt = 0],
           [kind |-> "status", status |-> status])

Fault == faults < MaxFaults /\ faults' = faults + 1

\* The connection fails, closes or stalls beyond idle_timeout, with or without
\* what was buffered.
CutStream ==
  /\ Fault /\ stream = "open"
  /\ stream' = "cut"
  /\ queue' \in {<<>>, queue}
  /\ dropped' = FALSE
  /\ UNCHANGED <<study, client, budget, stop>>

\* A study that was running is found without a job behind it.
CoreRestart ==
  /\ Fault
  /\ study' = [study EXCEPT !.status = IF @ = "running" THEN "interrupted" ELSE @, !.prompt = 0]
  /\ stream' = IF stream = "open" THEN "cut" ELSE stream
  /\ queue' = <<>>
  /\ dropped' = FALSE
  /\ UNCHANGED <<client, budget, stop>>

DeadlinePasses ==
  /\ budget = "left"
  /\ budget' = "spent"
  /\ UNCHANGED <<core, client, stop, faults>>

-----------------------------------------------------------------------------
(* follow_study *)

Return(how) == pc' = "returned" /\ outcome' = how
Stay        == UNCHANGED <<pc, outcome>>

Tell(p) == told' = told \cup {p}

\* GET /study/{id}/events opens for any id; a refusal is not fatal.  The request has no
\* timeout and the deadline is not looked at: until Core answers, the follow waits.
Subscribe ==
  /\ pc = "subscribe"
  /\ pc' = "opening"
  /\ \/ stream' = "open" /\ UNCHANGED faults
     \/ stream' = "refused" /\ Fault
  /\ UNCHANGED <<study, queue, dropped, snap, seen, told, outcome, lagged, blind, budget, stop>>

\* Core reads the record; its answer is applied later.
Ask(from, to) ==
  /\ pc = from
  /\ snap' = [status |-> study.status, prompt |-> study.prompt]
  /\ pc' = to
  /\ UNCHANGED <<core, seen, told, outcome, lagged, blind, budget, stop, faults>>

AskOpening == Ask("opening", "opened")

OpeningFails ==
  /\ pc = "opening" /\ Fault
  /\ blind' = TRUE
  /\ IF stream = "refused" THEN Return("error") ELSE pc' = "live" /\ UNCHANGED outcome
  /\ UNCHANGED <<core, snap, seen, told, lagged, budget, stop>>

Follow == IF stream = "refused" THEN "polling" ELSE "live"

\* Not the code: an opening poll that is not asked for a prompt.
OpeningWithoutPrompt ==
  /\ pc = "opened"
  /\ CASE snap.status = "unknown"   -> Return("error")
       [] snap.status \in Terminal  -> Return(snap.status)
       [] OTHER                     -> pc' = Follow /\ UNCHANGED outcome
  /\ UNCHANGED <<core, snap, seen, told, lagged, blind, budget, stop, faults>>

\* Not the code: an opening poll that is not asked for the status.
OpeningWithoutTerminal ==
  /\ pc = "opened"
  /\ IF snap.prompt = 0 THEN UNCHANGED <<seen, told>>
     ELSE seen' = snap.prompt /\ Tell(snap.prompt)
  /\ pc' = Follow
  /\ UNCHANGED <<core, outcome, snap, lagged, blind, budget, stop, faults>>

\* The prompt comes first, then the terminal status; a 404 is fatal.
OpeningAnswered ==
  /\ pc = "opened"
  /\ IF snap.prompt = 0 THEN UNCHANGED <<seen, told>>
     ELSE seen' = snap.prompt /\ Tell(snap.prompt)
  /\ CASE snap.status = "unknown"    -> Return("error")
       [] snap.prompt # 0 /\ stop    -> Return("prompt")
       [] snap.status \in Terminal   -> Return(snap.status)
       [] OTHER                      -> pc' = Follow /\ UNCHANGED outcome
  /\ UNCHANGED <<core, snap, lagged, blind, budget, stop, faults>>

\* stream.next() yields the oldest event that was kept.
LiveEvent ==
  /\ pc = "live" /\ budget # "spent" /\ ~dropped /\ queue # <<>>
  /\ queue' = Tail(queue)
  /\ LET event == Head(queue) IN
       CASE event.kind = "step" -> Stay /\ UNCHANGED <<seen, told>>
         [] event.kind = "status" -> Return(event.status) /\ UNCHANGED <<seen, told>>
         [] event.kind = "prompt" ->
              IF seen = event.id THEN Stay /\ UNCHANGED <<seen, told>>
              ELSE /\ seen' = event.id
                   /\ Tell(event.id)
                   /\ IF stop THEN Return("prompt") ELSE Stay
  /\ UNCHANGED <<study, stream, dropped, snap, lagged, blind, budget, stop, faults>>

\* A lagged frame comes before the events that were kept.
LiveLagged ==
  /\ pc = "live" /\ budget # "spent" /\ dropped
  /\ dropped' = FALSE
  /\ lagged' = TRUE
  /\ UNCHANGED <<study, stream, queue, pc, snap, seen, told, outcome, blind, budget, stop, faults>>

LiveEnded ==
  /\ pc = "live" /\ budget # "spent" /\ stream = "cut" /\ queue = <<>>
  /\ pc' = "polling"
  /\ UNCHANGED <<core, snap, seen, told, outcome, lagged, blind, budget, stop, faults>>

\* Not the code: a deadline that the polling loop does not look at.
TimeOutLive ==
  /\ pc = "live" /\ budget = "spent"
  /\ Return("timeout")
  /\ UNCHANGED <<core, snap, seen, told, lagged, blind, budget, stop, faults>>

\* The deadline is looked at before the live loop's reads and the fallback's polls.
TimeOut ==
  /\ pc \in {"live", "polling"} /\ budget = "spent"
  /\ Return("timeout")
  /\ UNCHANGED <<core, snap, seen, told, lagged, blind, budget, stop, faults>>

AskAgain == budget # "spent" /\ Ask("polling", "polled")

PollFails ==
  /\ pc = "polling" /\ budget # "spent" /\ Fault
  /\ Return("error")
  /\ UNCHANGED <<core, snap, seen, told, lagged, blind, budget, stop>>

\* A prompt it has not reported last, then the status; else it sleeps and asks again.
PollAnswered ==
  /\ pc = "polled"
  /\ LET news == snap.prompt # 0 /\ snap.prompt # seen IN
     /\ IF news THEN seen' = snap.prompt /\ Tell(snap.prompt) ELSE UNCHANGED <<seen, told>>
     /\ CASE snap.status = "unknown"   -> Return("error")
          [] news /\ stop              -> Return("prompt")
          [] snap.status \in Terminal  -> Return(snap.status)
          [] OTHER                     -> pc' = "polling" /\ UNCHANGED outcome
  /\ UNCHANGED <<core, snap, lagged, blind, budget, stop, faults>>

FollowStep ==
  \/ AskOpening \/ OpeningAnswered
  \/ LiveEvent \/ LiveLagged \/ LiveEnded \/ TimeOut
  \/ AskAgain \/ PollAnswered

\* Core's keep-alive comment: bytes that restart the idle timeout and yield no item.
KeepAlive == pc = "live" /\ stream = "open" /\ UNCHANGED vars

Done == pc = "returned" /\ UNCHANGED vars

Next ==
  \/ StepDone \/ OpenPrompt \/ ClosePrompt \/ Finish
  \/ CutStream \/ CoreRestart \/ DeadlinePasses
  \/ Subscribe \/ FollowStep \/ OpeningFails \/ PollFails
  \/ KeepAlive \/ Done

\* The client's task runs, a poll is answered or fails by its timeout, and a deadline
\* that was set passes.  Core need never answer the subscription, the study need never
\* finish, nobody need answer a prompt, and no stream need ever break.
Fairness == WF_vars(FollowStep) /\ WF_vars(DeadlinePasses)

Spec == Init /\ [][Next]_vars /\ Fairness

-----------------------------------------------------------------------------
(* Properties *)

Returned == pc = "returned"
Over     == study.status \in Terminal \cup {"unknown"}

\* The subscription was answered, or refused.
Subscribed == pc # "subscribe"

\* A follow that reports a terminal status reports the one the record keeps, and
\* not that of a Core that died meanwhile.
ReportsTheRecord ==
  outcome \in Statuses => outcome = study.status /\ outcome \in Terminal

\* "subscribe, then poll": a follow without deadline ends when its study has ended or
\* never was, before or after the call, through cut streams and restarts, unless Core
\* never answered the subscription, the opening poll failed or Core told the follow
\* that events were dropped.
FollowEndsUnlessBlinded ==
  Over /\ Subscribed ~> Returned \/ blind \/ lagged \/ budget # "none"

\* "None follows until the study reaches a terminal status": once it is there, a
\* follow that has its subscription ends.
FollowEnds == Over /\ Subscribed ~> Returned

\* A prompt that waits is reported, published before the subscription or after it,
\* found live or by polling, unless it is closed first or the follow was blinded.
PromptIsTold ==
  \A p \in Prompts :
    study.prompt = p /\ Subscribed ~>
      p \in told \/ study.prompt # p \/ Returned \/ blind \/ lagged

\* Once its subscription is answered or refused, a deadline ends the follow wherever
\* it is: opening poll, quiet stream, busy stream or polling.
DeadlineEndsFollow == budget = "spent" /\ Subscribed ~> Returned

\* "Overall budget": a deadline ends every follow.
DeadlineIsOverall == budget = "spent" ~> Returned
==============================================================================
