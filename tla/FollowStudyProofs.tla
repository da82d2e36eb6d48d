-------------------------- MODULE FollowStudyProofs --------------------------
(***************************************************************************)
(* Proofs about FollowStudy, for any channel capacity, any number of       *)
(* steps, prompts, failed requests, cut streams and restarts of Core.      *)
(*                                                                         *)
(* A terminal status reaches the caller by three ways: the opening poll,   *)
(* an event that was queued, a later poll.  The invariant says that what   *)
(* travels on each of them is what the record says by now.                 *)
(***************************************************************************)
EXTENDS FollowStudy, TLAPS

USE FollowAssumption

\* An answer on its way, or a queued event, that names a terminal status names the
\* record's.
SnapTells ==
  pc \in {"opened", "polled"} /\ snap.status \in Terminal => snap.status = study.status

Says(event) ==
  event.kind = "status" => study.status \in Terminal /\ event.status = study.status

QueueTells == \A i \in DOMAIN queue : Says(queue[i])

IInv == TypeOK /\ SnapTells /\ QueueTells /\ ReportsTheRecord

-----------------------------------------------------------------------------

\* The bounds are numbers.
LEMMA Bounds ==
  /\ Capacity \in Nat /\ Capacity # 0
  /\ MaxSteps \in Nat /\ MaxPrompts \in Nat /\ MaxFaults \in Nat
  OBVIOUS

\* What Append and Tail leave of a sequence.
LEMMA Appended ==
  ASSUME NEW S, NEW s \in Seq(S), NEW x
  PROVE  /\ DOMAIN s = 1..Len(s) /\ Len(s) \in Nat
         /\ Len(Append(s, x)) = Len(s) + 1
         /\ DOMAIN Append(s, x) = 1..Len(s) + 1
         /\ \A i \in DOMAIN s : Append(s, x)[i] = s[i]
         /\ Append(s, x)[Len(s) + 1] = x
  OBVIOUS

LEMMA Shortened ==
  ASSUME NEW S, NEW s \in Seq(S), s # <<>>
  PROVE  /\ Tail(s) \in Seq(S) /\ Len(Tail(s)) = Len(s) - 1 /\ Len(s) # 0
         /\ Head(s) \in S /\ 1 \in DOMAIN s /\ Head(s) = s[1]
         /\ \A i \in DOMAIN Tail(s) : i + 1 \in DOMAIN s /\ Tail(s)[i] = s[i + 1]
  OBVIOUS

\* A published event is the last of the queue, and the others were there before.
LEMMA Published ==
  ASSUME TypeOK, NEW event \in Events, Publish(event)
  PROVE  /\ queue' \in Seq(Events) /\ Len(queue') <= Capacity
         /\ dropped' \in BOOLEAN
         /\ \A i \in DOMAIN queue' :
              queue'[i] = event \/ \E j \in DOMAIN queue : queue'[i] = queue[j]
<1> USE DEF TypeOK
<1>1. CASE UNCHANGED <<queue, dropped>>
  BY <1>1
<1>2. CASE Len(queue) < Capacity /\ queue' = Append(queue, event) /\ UNCHANGED dropped
  <2>1. queue' \in Seq(Events) /\ Len(queue') = Len(queue) + 1
    BY <1>2
  <2>2. ASSUME NEW i \in DOMAIN queue'
        PROVE  queue'[i] = event \/ \E j \in DOMAIN queue : queue'[i] = queue[j]
    BY <1>2, Appended
  <2>3. QED
    BY <1>2, <2>1, <2>2, Bounds
<1>3. CASE /\ stream = "open" /\ ~(Len(queue) < Capacity)
           /\ queue' = Append(Tail(queue), event) /\ dropped' = TRUE
  <2>1. queue # <<>>
    BY <1>3, Bounds
  <2>2. Tail(queue) \in Seq(Events) /\ Len(Tail(queue)) = Len(queue) - 1
    BY <2>1, Shortened
  <2>3. queue' \in Seq(Events) /\ Len(queue') = Len(queue)
    BY <1>3, <2>2, Appended
  <2>4. ASSUME NEW i \in DOMAIN queue'
        PROVE  queue'[i] = event \/ \E j \in DOMAIN queue : queue'[i] = queue[j]
    <3>1. queue'[i] = event \/ (i \in DOMAIN Tail(queue) /\ queue'[i] = Tail(queue)[i])
      BY <1>3, <2>2, <2>4, Appended
    <3>2. QED
      BY <2>1, <3>1, Shortened
  <2>5. QED
    BY <1>3, <2>3, <2>4
<1>4. QED
  BY <1>1, <1>2, <1>3 DEF Publish

-----------------------------------------------------------------------------
(* Types *)

\* A record stays one when its fields change within their ranges.
LEMMA Fields ==
  ASSUME NEW r \in Studies
  PROVE  /\ r.status \in Statuses /\ r.prompt \in 0..MaxPrompts
         /\ r.opened \in 0..MaxPrompts /\ r.steps \in 0..MaxSteps
         /\ \A s \in Statuses : [r EXCEPT !.status = s, !.prompt = 0] \in Studies
         /\ \A n \in 0..MaxPrompts : [r EXCEPT !.prompt = n, !.opened = n] \in Studies
<1> USE Bounds DEF Studies
<1>1. /\ r.status \in Statuses /\ r.prompt \in 0..MaxPrompts
      /\ r.opened \in 0..MaxPrompts /\ r.steps \in 0..MaxSteps
  OBVIOUS
<1>2. ASSUME NEW s \in Statuses PROVE [r EXCEPT !.status = s, !.prompt = 0] \in Studies
  <2>1. [r EXCEPT !.status = s] \in Studies
    OBVIOUS
  <2>2. 0 \in 0..MaxPrompts
    OBVIOUS
  <2>3. QED
    BY <2>1, <2>2
<1>3. ASSUME NEW n \in 0..MaxPrompts PROVE [r EXCEPT !.prompt = n, !.opened = n] \in Studies
  BY <1>1
<1>4. QED
  BY <1>1, <1>2, <1>3

\* Initially every variable has its type.
LEMMA InitTypeOK == Init => TypeOK
<1> SUFFICES ASSUME Init PROVE TypeOK
  OBVIOUS
<1>1. study \in Studies
  <2>1. PICK s \in Statuses, p \in 0..(IF MaxPrompts = 0 THEN 0 ELSE 1) :
           study = [status |-> s, prompt |-> p, opened |-> p, steps |-> 0]
    BY DEF Init
  <2>2. QED
    BY <2>1, Bounds DEF Studies
<1>2. queue \in Seq(Events) /\ Len(queue) <= Capacity
  BY Bounds DEF Init
<1>3. snap \in [status : Statuses, prompt : 0..MaxPrompts]
  BY Bounds DEF Init, NoSnap, Statuses
<1>4. outcome \in Outcomes /\ pc \in Places /\ (outcome # "none" <=> pc = "returned")
  BY DEF Init, Outcomes, Places
<1>5. seen \in 0..MaxPrompts /\ told \subseteq Prompts /\ faults \in 0..MaxFaults
  BY Bounds DEF Init
<1>6. /\ stream \in {"unopened", "open", "cut", "refused"} /\ dropped \in BOOLEAN
      /\ lagged \in BOOLEAN /\ blind \in BOOLEAN
  BY DEF Init
<1>7. budget \in Budgets \cup {"spent"} /\ stop \in Stops
  BY DEF Init
<1>8. QED
  BY <1>1, <1>2, <1>3, <1>4, <1>5, <1>6, <1>7 DEF TypeOK

\* What a change of the record does to the types.
LEMMA ChangeTypeOK ==
  ASSUME TypeOK, NEW record \in Studies, NEW event \in Events, Change(record, event)
  PROVE  TypeOK'
  BY Published DEF Change, TypeOK, client

\* Every step keeps the types.
LEMMA NextTypeOK == TypeOK /\ [Next]_vars => TypeOK'
<1> SUFFICES ASSUME TypeOK, [Next]_vars PROVE TypeOK'
  OBVIOUS
<1> USE Bounds DEF core, client, Places, Fault, Return, Stay, Prompts
<1>0. Statuses \subseteq Outcomes /\ Terminal \subseteq Statuses
  BY DEF Statuses, Outcomes
<1>1. CASE StepDone
  <2>1. [study EXCEPT !.steps = @ + 1] \in Studies
    BY <1>1 DEF StepDone, TypeOK, Studies
  <2>2. [kind |-> "step"] \in Events
    BY DEF Events
  <2>3. QED
    BY <1>1, <2>1, <2>2, ChangeTypeOK DEF StepDone
<1>2. CASE OpenPrompt
  <2> DEFINE n == study.opened + 1
  <2>0. n \in 0..MaxPrompts /\ n \in Prompts
    <3>1. study.opened \in 0..MaxPrompts
      BY Fields DEF TypeOK
    <3>2. study.opened < MaxPrompts
      BY <1>2 DEF OpenPrompt
    <3>3. QED
      BY <3>1, <3>2
  <2>1. [study EXCEPT !.prompt = study.opened + 1, !.opened = @ + 1] \in Studies
    BY <2>0, Fields DEF TypeOK
  <2>2. [kind |-> "prompt", id |-> study.opened + 1] \in Events
    BY <2>0 DEF Events
  <2>3. QED
    BY <1>2, <2>1, <2>2, ChangeTypeOK DEF OpenPrompt
<1>3. CASE ClosePrompt
  <2>1. [study EXCEPT !.prompt = 0] \in Studies
    BY <1>3 DEF TypeOK, Studies
  <2>2. [kind |-> "step"] \in Events
    BY DEF Events
  <2>3. QED
    BY <1>3, <2>1, <2>2, ChangeTypeOK DEF ClosePrompt
<1>4. CASE Finish
  <2>1. PICK status \in {"completed", "failed"} :
           Change([study EXCEPT !.status = status, !.prompt = 0], [kind |-> "status", status |-> status])
    BY <1>4 DEF Finish
  <2>2. [study EXCEPT !.status = status, !.prompt = 0] \in Studies
    BY Fields DEF TypeOK, Statuses, Terminal
  <2>3. [kind |-> "status", status |-> status] \in Events
    BY DEF Events, Terminal
  <2>4. QED
    BY <2>1, <2>2, <2>3, ChangeTypeOK
<1>5. CASE CutStream
  <2>1. queue' \in Seq(Events) /\ Len(queue') <= Capacity
    <3>1. CASE queue' = <<>>
      BY <3>1
    <3>2. CASE queue' = queue
      BY <3>2 DEF TypeOK
    <3>3. QED
      BY <1>5, <3>1, <3>2 DEF CutStream
  <2>2. /\ stream' = "cut" /\ dropped' = FALSE /\ faults' \in 0..MaxFaults
        /\ UNCHANGED <<study, client, budget, stop>>
    BY <1>5 DEF CutStream, TypeOK
  <2>3. QED
    BY <2>1, <2>2 DEF TypeOK
<1>6. CASE CoreRestart
  <2>1. study' \in Studies
    <3>1. PICK s \in Statuses : study' = [study EXCEPT !.status = s, !.prompt = 0]
      BY <1>6, Fields DEF CoreRestart, TypeOK, Statuses, Terminal
    <3>2. QED
      BY <3>1, Fields DEF TypeOK
  <2>2. queue' \in Seq(Events) /\ Len(queue') <= Capacity
    BY <1>6 DEF CoreRestart
  <2>3. /\ stream' \in {"unopened", "open", "cut", "refused"} /\ dropped' = FALSE
        /\ faults' \in 0..MaxFaults /\ UNCHANGED <<client, budget, stop>>
    BY <1>6 DEF CoreRestart, TypeOK
  <2>4. QED
    BY <2>1, <2>2, <2>3 DEF TypeOK
<1>7. CASE DeadlinePasses
  BY <1>7 DEF DeadlinePasses, TypeOK
<1>8. CASE Subscribe
  BY <1>8 DEF Subscribe, TypeOK
<1>9. CASE AskOpening \/ AskAgain
  <2>1. study.status \in Statuses /\ study.prompt \in 0..MaxPrompts
    BY Fields DEF TypeOK
  <2>2. snap' \in [status : Statuses, prompt : 0..MaxPrompts]
    BY <1>9, <2>1 DEF AskOpening, AskAgain, Ask
  <2>3. QED
    BY <1>9, <2>2 DEF AskOpening, AskAgain, Ask, TypeOK
<1>10. CASE OpeningFails
  BY <1>10 DEF OpeningFails, TypeOK, Outcomes
<1>11. CASE OpeningAnswered
  <2>1. snap.status \in Statuses /\ snap.prompt \in 0..MaxPrompts
    BY DEF TypeOK
  <2>2. seen' \in 0..MaxPrompts /\ told' \subseteq Prompts
    BY <1>11, <2>1 DEF OpeningAnswered, Tell, TypeOK
  <2>3. outcome' \in Outcomes /\ pc' \in Places /\ (outcome' # "none" <=> pc' = "returned")
    BY <1>0, <1>11, <2>1 DEF OpeningAnswered, Follow, TypeOK, Outcomes, Terminal
  <2>4. QED
    BY <1>11, <2>2, <2>3 DEF OpeningAnswered, TypeOK
<1>12. CASE LiveEvent
  <2> DEFINE event == Head(queue)
  <2>1. event \in Events /\ queue' \in Seq(Events) /\ Len(queue') <= Capacity
    BY <1>12, Shortened DEF LiveEvent, TypeOK
  <2>2. /\ event.kind = "status" => event.status \in Terminal
        /\ event.kind = "prompt" => event.id \in Prompts
    BY <2>1 DEF Events
  <2>3. seen' \in 0..MaxPrompts /\ told' \subseteq Prompts
    <3>1. CASE UNCHANGED <<seen, told>>
      BY <3>1 DEF TypeOK
    <3>2. CASE event.kind = "prompt" /\ seen' = event.id /\ told' = told \cup {event.id}
      <4>1. event.id \in Prompts
        BY <2>2, <3>2
      <4>2. told \subseteq Prompts
        BY DEF TypeOK
      <4>3. PICK id \in Prompts : seen' = id /\ told' = told \cup {id}
        BY <3>2, <4>1
      <4>4. QED
        BY <4>2, <4>3
    <3>3. QED
      BY <1>12, <2>1, <3>1, <3>2 DEF LiveEvent, Tell, Events
  <2>4. outcome' \in Outcomes /\ pc' \in Places /\ (outcome' # "none" <=> pc' = "returned")
    <3>1. CASE UNCHANGED <<pc, outcome>>
      BY <3>1 DEF TypeOK
    <3>2. CASE event.kind = "status" /\ pc' = "returned" /\ outcome' = event.status
      BY <2>2, <3>2 DEF Terminal, Outcomes, Statuses
    <3>3. CASE pc' = "returned" /\ outcome' = "prompt"
      BY <3>3 DEF Outcomes
    <3>4. QED
      BY <1>12, <2>1, <3>1, <3>2, <3>3 DEF LiveEvent, Events
  <2>5. QED
    BY <1>12, <2>1, <2>3, <2>4 DEF LiveEvent, TypeOK
<1>13. CASE LiveLagged
  BY <1>13 DEF LiveLagged, TypeOK
<1>14. CASE LiveEnded
  BY <1>14 DEF LiveEnded, TypeOK
<1>15. CASE TimeOut
  BY <1>15 DEF TimeOut, TypeOK, Outcomes
<1>16. CASE PollFails
  BY <1>16 DEF PollFails, TypeOK, Outcomes
<1>17. CASE PollAnswered
  <2>1. snap.status \in Statuses /\ snap.prompt \in 0..MaxPrompts
    BY DEF TypeOK
  <2>2. seen' \in 0..MaxPrompts /\ told' \subseteq Prompts
    BY <1>17, <2>1 DEF PollAnswered, Tell, TypeOK
  <2>3. outcome' \in Outcomes /\ pc' \in Places /\ (outcome' # "none" <=> pc' = "returned")
    BY <1>0, <1>17, <2>1 DEF PollAnswered, TypeOK, Outcomes, Terminal
  <2>4. QED
    BY <1>17, <2>2, <2>3 DEF PollAnswered, TypeOK
<1>18. CASE UNCHANGED vars
  BY <1>18 DEF vars, TypeOK
<1>19. QED
  BY <1>1, <1>2, <1>3, <1>4, <1>5, <1>6, <1>7, <1>8, <1>9, <1>10, <1>11, <1>12, <1>13, <1>14,
     <1>15, <1>16, <1>17, <1>18 DEF Next, FollowStep, KeepAlive, Done

-----------------------------------------------------------------------------
(* The record *)

Settled == study.status \in Terminal

\* A status that is terminal is final, through restarts of Core.
LEMMA RecordIsFinal ==
  ASSUME TypeOK, [Next]_vars, Settled
  PROVE  study'.status = study.status
<1>1. study.status # "running"
  BY DEF Settled, Terminal
<1>2. CASE CoreRestart
  BY <1>1, <1>2 DEF CoreRestart, TypeOK, Studies
<1>3. CASE UNCHANGED study
  BY <1>3
<1>4. QED
  BY <1>1, <1>2, <1>3 DEF Next, StepDone, OpenPrompt, ClosePrompt, Finish, Change, CutStream,
     DeadlinePasses, FollowStep, Subscribe, AskOpening, AskAgain, Ask, OpeningAnswered, LiveEvent,
     LiveLagged, LiveEnded, TimeOut, PollAnswered, OpeningFails, PollFails, KeepAlive, Done, vars,
     core

\* Initially nothing travels.
LEMMA InitIInv == Init => IInv
<1> SUFFICES ASSUME Init PROVE IInv
  OBVIOUS
<1>1. QueueTells
  BY DEF Init, QueueTells
<1>2. SnapTells /\ ReportsTheRecord
  BY DEF Init, SnapTells, ReportsTheRecord, Statuses, Terminal
<1>3. QED
  BY <1>1, <1>2, InitTypeOK DEF IInv

\* A live event keeps the follower there or ends it, with the status it carries or a prompt.
LEMMA LiveEffect ==
  ASSUME TypeOK, LiveEvent
  PROVE  /\ pc' \in {"live", "returned"}
         /\ \/ UNCHANGED outcome
            \/ outcome' = "prompt"
            \/ Head(queue).kind = "status" /\ outcome' = Head(queue).status
<1>1. pc = "live" /\ queue \in Seq(Events) /\ queue # <<>>
  BY DEF LiveEvent, TypeOK
<1>2. Head(queue) \in Events
  BY <1>1, Shortened
<1>3. CASE Head(queue).kind = "step"
  BY <1>1, <1>3 DEF LiveEvent, Stay
<1>4. CASE Head(queue).kind = "status"
  BY <1>1, <1>4 DEF LiveEvent, Return
<1>5. CASE Head(queue).kind = "prompt"
  BY <1>1, <1>5 DEF LiveEvent, Return, Stay
<1>6. QED
  BY <1>2, <1>3, <1>4, <1>5 DEF Events

\* An answer on its way keeps telling the record.
LEMMA NextSnapTells == IInv /\ [Next]_vars => SnapTells'
<1> SUFFICES ASSUME IInv, [Next]_vars, pc' \in {"opened", "polled"}, snap'.status \in Terminal
             PROVE  snap'.status = study'.status
  BY DEF SnapTells
<1>0. TypeOK
  BY DEF IInv
<1>1. CASE AskOpening \/ AskAgain
  BY <1>1 DEF AskOpening, AskAgain, Ask, core
<1>2. CASE UNCHANGED <<pc, snap>>
  <2>1. snap.status = study.status /\ Settled
    BY <1>2 DEF IInv, SnapTells, Settled
  <2>2. QED
    BY <1>0, <1>2, <2>1, RecordIsFinal
<1>3. CASE pc' \notin {"opened", "polled"}
  BY <1>3
<1>4. CASE LiveEvent
  BY <1>0, <1>4, LiveEffect
<1>5. CASE OpeningAnswered \/ PollAnswered \/ OpeningFails
  BY <1>5 DEF OpeningAnswered, PollAnswered, OpeningFails, Return, Follow
<1>6. QED
  BY <1>1, <1>2, <1>3, <1>4, <1>5 DEF Next, StepDone, OpenPrompt, ClosePrompt, Finish, Change,
     CutStream, CoreRestart, DeadlinePasses, FollowStep, Subscribe, LiveLagged, LiveEnded, TimeOut,
     PollFails, KeepAlive, Done, Return, vars, client

\* A status event is published with the record's last change, so none is left behind it.
LEMMA NextQueueTells == IInv /\ [Next]_vars => QueueTells'
<1> SUFFICES ASSUME IInv, [Next]_vars, NEW i \in DOMAIN queue', queue'[i].kind = "status"
             PROVE  study'.status \in Terminal /\ queue'[i].status = study'.status
  BY DEF QueueTells, Says
<1>0. TypeOK
  BY DEF IInv
<1>1. CASE \E j \in DOMAIN queue : queue'[i] = queue[j]
  <2>1. study.status \in Terminal /\ queue'[i].status = study.status
    BY <1>1 DEF IInv, QueueTells, Says
  <2>2. QED
    BY <1>0, <2>1, RecordIsFinal DEF Settled
<1>2. CASE UNCHANGED queue
  BY <1>1, <1>2
<1>3. CASE StepDone \/ ClosePrompt
  <2>1. [kind |-> "step"] \in Events /\ [kind |-> "step"].kind # "status"
    BY DEF Events
  <2>2. Publish([kind |-> "step"])
    BY <1>3 DEF StepDone, ClosePrompt, Change
  <2>3. QED
    BY <1>0, <1>1, <2>1, <2>2, Published
<1>4. CASE OpenPrompt
  <2> DEFINE event == [kind |-> "prompt", id |-> study.opened + 1]
  <2>0. study.opened \in 0..MaxPrompts /\ study.opened < MaxPrompts
    BY <1>0, <1>4, Fields DEF TypeOK, OpenPrompt
  <2>1. study.opened + 1 \in Prompts
    BY <2>0, Bounds DEF Prompts
  <2>2. event \in Events /\ event.kind # "status"
    BY <2>1 DEF Events
  <2>3. Publish(event)
    BY <1>4 DEF OpenPrompt, Change
  <2>4. QED
    BY <1>0, <1>1, <2>2, <2>3, Published
<1>5. CASE Finish
  <2>1. PICK status \in {"completed", "failed"} :
           Change([study EXCEPT !.status = status, !.prompt = 0], [kind |-> "status", status |-> status])
    BY <1>5 DEF Finish
  <2> DEFINE event == [kind |-> "status", status |-> status]
  <2>2. event \in Events /\ event.status = status /\ status \in Terminal
    BY DEF Events, Terminal
  <2>3. study'.status = status
    BY <1>0, <2>1 DEF Change, TypeOK, Studies
  <2>4. Publish(event)
    BY <2>1 DEF Change
  <2>5. queue'[i] = event \/ \E j \in DOMAIN queue : queue'[i] = queue[j]
    BY <1>0, <2>2, <2>4, Published
  <2>6. QED
    BY <1>1, <2>2, <2>3, <2>5
<1>6. CASE queue' = <<>>
  BY <1>6
<1>7. CASE LiveEvent
  <2>1. queue # <<>> /\ queue' = Tail(queue)
    BY <1>7 DEF LiveEvent
  <2>2. \E j \in DOMAIN queue : queue'[i] = queue[j]
    BY <1>0, <2>1, Shortened DEF TypeOK
  <2>3. QED
    BY <1>1, <2>2
<1>8. QED
  BY <1>2, <1>3, <1>4, <1>5, <1>6, <1>7 DEF Next, CutStream, CoreRestart, DeadlinePasses,
     FollowStep, Subscribe, AskOpening, AskAgain, Ask, OpeningAnswered, LiveLagged, LiveEnded,
     TimeOut, PollAnswered, OpeningFails, PollFails, KeepAlive, Done, vars, core

\* What is reported came from an answer or an event that told the record.
LEMMA NextReports == IInv /\ [Next]_vars => ReportsTheRecord'
<1> SUFFICES ASSUME IInv, [Next]_vars, outcome' \in Statuses
             PROVE  outcome' = study'.status /\ outcome' \in Terminal
  BY DEF ReportsTheRecord
<1>0. TypeOK
  BY DEF IInv
<1>1. CASE outcome \in Statuses /\ UNCHANGED outcome
  <2>1. outcome = study.status /\ Settled
    BY <1>1 DEF IInv, ReportsTheRecord, Settled
  <2>2. QED
    BY <1>0, <1>1, <2>1, RecordIsFinal DEF Settled
<1>2. CASE UNCHANGED outcome
  BY <1>1, <1>2
<1>3. {"error", "timeout", "prompt"} \cap Statuses = {}
  BY DEF Statuses, Terminal
<1>4. CASE OpeningAnswered \/ PollAnswered
  <2>1. UNCHANGED study
    BY <1>4 DEF OpeningAnswered, PollAnswered, core
  <2>2. UNCHANGED outcome \/ (outcome' = snap.status /\ snap.status \in Terminal)
    BY <1>3, <1>4 DEF OpeningAnswered, PollAnswered, Return
  <2>3. pc \in {"opened", "polled"}
    BY <1>4 DEF OpeningAnswered, PollAnswered
  <2>4. QED
    BY <1>2, <2>1, <2>2, <2>3 DEF IInv, SnapTells
<1>5. CASE LiveEvent
  <2>1. UNCHANGED study /\ queue # <<>>
    BY <1>5 DEF LiveEvent
  <2>2. UNCHANGED outcome \/ (Head(queue).kind = "status" /\ outcome' = Head(queue).status)
    BY <1>0, <1>3, <1>5, LiveEffect
  <2>3. 1 \in DOMAIN queue /\ Head(queue) = queue[1]
    BY <1>0, <2>1, Shortened DEF TypeOK
  <2>4. QED
    BY <1>2, <2>1, <2>2, <2>3 DEF IInv, QueueTells, Says
<1>6. CASE outcome' \in {"error", "timeout", "prompt"}
  BY <1>3, <1>6
<1>7. QED
  BY <1>2, <1>4, <1>5, <1>6 DEF Next, StepDone, OpenPrompt, ClosePrompt, Finish, Change, CutStream,
     CoreRestart, DeadlinePasses, FollowStep, Subscribe, AskOpening, AskAgain, Ask, LiveLagged,
     LiveEnded, TimeOut, OpeningFails, PollFails, KeepAlive, Done, Return, vars, client

\* IInv is an invariant of a follow.
LEMMA Invariance == Init /\ [][Next]_vars => []IInv
<1>1. IInv /\ [Next]_vars => IInv'
  BY NextTypeOK, NextSnapTells, NextQueueTells, NextReports DEF IInv
<1>2. QED
  BY <1>1, InitIInv, PTL

\* The variables of a follow keep their types; the queue never outgrows the channel.
THEOREM TypeCorrect == Spec => []TypeOK
  BY Invariance, PTL DEF IInv, Spec

\* A follow that returns a terminal status returns the one the record keeps.
THEOREM RecordIsReported == Spec => []ReportsTheRecord
  BY Invariance, PTL DEF IInv, Spec
==============================================================================
