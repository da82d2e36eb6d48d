------------------------- MODULE BenchExchangeProofs -------------------------
(***************************************************************************)
(* Proofs about BenchExchange, for any consoles, steps, replies and        *)
(* faults: the captures are stopped; lines are told once, at their own     *)
(* times, after the writes they answer, and in the order they were said.   *)
(*                                                                         *)
(* EInv says what each phase has started or stopped: while captures start, *)
(* those before `at` run; while they are undone, those already stopped and *)
(* the one whose start failed are off, or a request of theirs failed; a    *)
(* listener that is done has its capture off or a note; and from the last  *)
(* drain on, all listeners before the poller are done.                     *)
(*                                                                         *)
(* XInv adds what the rows are of.  A console says halves of lines whose   *)
(* numbers, times and counts of delivered writes grow (Said); a listener   *)
(* that has read n halves keeps the open one of them and its time, if Core *)
(* gave it, and has told the lines that the n halves complete, each once   *)
(* and in order (ListenerKeepsUp); a row that Core placed has the time of  *)
(* a line read, its own unless Core left a time out (RowsAreTimed); a half *)
(* said once a write was delivered is no earlier than the write's row      *)
(* (WritesComeFirst); replies of other consoles follow one another         *)
(* (RepliesInOrder).                                                       *)
(***************************************************************************)
EXTENDS BenchExchange, WellFoundedInduction, FiniteSetTheorems, SequenceTheorems, TLAPS

USE ExchangeAssumption

Indices == 1..Len(Listen)

On(i) == capture[Listen[i]].on

Shapes ==
  /\ pc \in {"check", "start", "undo", "run", "returned"}
  /\ at \in 1..Len(Listen) + 1
  /\ poll.pc \in {"sleep", "read", "final", "stop", "done"}
  /\ poll.l \in Nat \ {0}
  /\ poll.pc \in {"read", "final", "stop"} => poll.l \in Indices
  /\ DOMAIN poll = {"pc", "l", "ms", "last"}
  /\ DOMAIN capture = Listened
  /\ \A s \in Listened : /\ DOMAIN capture[s] = {"on", "started", "halves"}
                         /\ capture[s].on \in BOOLEAN
  /\ DOMAIN listener = Listened
  /\ \A s \in Listened : /\ DOMAIN listener[s] = DOMAIN Fresh
                         /\ listener[s].done \in BOOLEAN
                         /\ listener[s].note \in BOOLEAN
  /\ faults \in Nat
  /\ outcome \in {"none", "refused", "returned"}
  /\ outcome = "none" <=> pc # "returned"
  /\ undone \in Nat

\* Nothing has been drained before the steps run.
NotYetDrained ==
  pc \in {"check", "start", "undo"} =>
    poll.pc = "sleep" /\ \A s \in Listened : ~ listener[s].done

\* What has been started, and what has been undone.
Started ==
  /\ pc = "check" => at = 1 /\ undone = 0 /\ \A i \in Indices : ~ On(i)
  /\ pc = "start" => undone = 0 /\ \A i \in Indices : On(i) <=> i < at
  /\ pc = "undo" =>
       /\ undone < at
       /\ \A i \in Indices : On(i) => Listen[i] \in unsure \/ (undone < i /\ i < at)

DoneIsStopped == \A s \in Listened : listener[s].done => listener[s].note \/ ~ capture[s].on

StoppedBehind ==
  /\ poll.pc \in {"final", "stop"} =>
       \A i \in Indices : i < poll.l => listener[Listen[i]].done
  /\ poll.pc = "done" => \A i \in Indices : listener[Listen[i]].done

EInv ==
  /\ Shapes
  /\ NotYetDrained
  /\ Started
  /\ DoneIsStopped
  /\ StoppedBehind
  /\ CapturesAreStopped

-----------------------------------------------------------------------------

\* The listened signals are those of the list, one each.
LEMMA ListenedAt ==
  /\ \A i \in Indices : Listen[i] \in Listened
  /\ \A s \in Listened : \E i \in Indices : Listen[i] = s
  /\ \A i, j \in Indices : Listen[i] = Listen[j] => i = j
  /\ Len(Listen) \in Nat
<1>1. DOMAIN Listen = Indices /\ Len(Listen) \in Nat
  BY DEF Indices
<1>2. QED
  BY <1>1 DEF Listened, ToSet, IsInjective

\* No capture runs before the first start.
LEMMA InitEInv == Init => EInv
<1> SUFFICES ASSUME Init PROVE EInv
  OBVIOUS
<1> USE ListenedAt DEF Init
<1>1. Shapes
  <2>1. \A s \in Listened : capture[s] = NoCapture /\ listener[s] = Fresh
    BY DEF NoCapture, Fresh
  <2>2. DOMAIN NoCapture = {"on", "started", "halves"} /\ NoCapture.on \in BOOLEAN
    BY DEF NoCapture
  <2>3. Fresh.done \in BOOLEAN /\ Fresh.note \in BOOLEAN
    BY DEF Fresh
  <2>4. QED
    BY <2>1, <2>2, <2>3 DEF Shapes
<1>2. NotYetDrained /\ Started /\ DoneIsStopped /\ StoppedBehind /\ CapturesAreStopped
  BY DEF NoCapture, Fresh, NotYetDrained, Started, DoneIsStopped, StoppedBehind, CapturesAreStopped, On
<1>3. QED
  BY <1>1, <1>2 DEF EInv

\* Steps that touch neither a capture's state, nor a listener, nor the phase.
Aside ==
  /\ UNCHANGED <<main, listener, poll, unsure, faults>>
  /\ DOMAIN capture' = DOMAIN capture
  /\ \A s \in Listened : capture'[s].on = capture[s].on /\ DOMAIN capture'[s] = DOMAIN capture[s]

\* Steps aside change nothing that EInv speaks of.
LEMMA AsideEInv == ASSUME EInv, Aside PROVE EInv'
<1> USE DEF EInv, Aside, main
<1>1. Shapes'
  BY DEF Shapes
<1>2. \A i \in Indices : Listen[i] \in Listened
  BY ListenedAt
<1>3. Started'
  BY <1>2 DEF Started, On
<1>4. NotYetDrained' /\ DoneIsStopped' /\ StoppedBehind' /\ CapturesAreStopped'
  BY DEF NotYetDrained, DoneIsStopped, StoppedBehind, CapturesAreStopped
<1>5. QED
  BY <1>1, <1>3, <1>4

\* The world's steps and the steps future leave all of it alone.
LEMMA OthersAreAside ==
  ASSUME EInv, Tick \/ (\E s \in Listened : Receive(s)) \/ Deliver \/ Write \/ StepAnswered
               \/ StepsDone
  PROVE  Aside
<1>1. CASE Tick
  BY <1>1 DEF Tick, Aside, console, main, poller, history
<1>2. ASSUME NEW s \in Listened, Receive(s) PROVE Aside
  <2>1. PICK h : capture' = [capture EXCEPT ![s].halves = h]
    BY <1>2 DEF Receive
  <2>2. UNCHANGED <<main, listener, poll, unsure, faults>>
    BY <1>2 DEF Receive, main, poller, history
  <2>3. QED
    BY <2>1, <2>2 DEF Aside, EInv, Shapes
<1>3. CASE Deliver
  BY <1>3 DEF Deliver, Aside, main, poller, history
<1>4. CASE Write
  BY <1>4 DEF Write, Aside, console, main, poller, history
<1>5. CASE StepAnswered
  BY <1>5 DEF StepAnswered, Aside, console, main, poller, history
<1>6. CASE StepsDone
  BY <1>6 DEF StepsDone, Aside, console, main, poller, history
<1>7. QED
  BY <1>1, <1>2, <1>3, <1>4, <1>5, <1>6

\* Before the steps run: the captures start in order, or are undone in order.
LEMMA MainEInv == ASSUME EInv, MainStep PROVE EInv'
<1> USE ListenedAt DEF EInv
<1>1. CASE Check \/ Refuse
  <2>1. UNCHANGED <<capture, listener, poll, faults, at, undone>>
    BY <1>1 DEF Check, Refuse, console, poller
  <2>2. /\ pc = "check"
        /\ \/ pc' = "start" /\ outcome' = outcome
           \/ pc' = "returned" /\ outcome' = "refused"
    BY <1>1 DEF Check, Refuse, Return
  <2>3. Shapes' /\ NotYetDrained' /\ DoneIsStopped' /\ StoppedBehind'
    BY <2>1, <2>2 DEF Shapes, NotYetDrained, DoneIsStopped, StoppedBehind
  <2>4. Started'
    BY <2>1, <2>2 DEF Started, On, Indices
  <2>5. CapturesAreStopped'
    <3>1. \A s \in Listened : ~ capture'[s].on
      BY <2>1, <2>2 DEF Started, On
    <3>2. outcome' # "returned"
      BY <2>2 DEF Shapes
    <3>3. QED
      BY <3>1, <3>2 DEF CapturesAreStopped
  <2>6. QED
    BY <2>3, <2>4, <2>5
<1>2. CASE StartCapture
  <2>1. /\ UNCHANGED <<listener, poll, faults, undone, pc, outcome>>
        /\ pc = "start" /\ at \in Indices /\ at' = at + 1
    BY <1>2 DEF StartCapture, poller, Shapes, Indices
  <2> DEFINE c == capture[Listen[at]]
             r == [c EXCEPT !.on = TRUE, !.started = now]
  <2>2. capture' = [capture EXCEPT ![Listen[at]] = r]
    BY <1>2 DEF StartCapture
  <2>3. Listen[at] \in Listened /\ DOMAIN c = {"on", "started", "halves"}
    BY <2>1 DEF Shapes
  <2>4. DOMAIN r = {"on", "started", "halves"} /\ r.on = TRUE
    BY <2>3
  <2> HIDE DEF r
  <2>5. /\ DOMAIN capture' = Listened
        /\ \A s \in Listened : DOMAIN capture'[s] = {"on", "started", "halves"}
        /\ capture'[Listen[at]].on = TRUE
        /\ \A s \in Listened : s # Listen[at] => capture'[s].on = capture[s].on
    BY <2>2, <2>3, <2>4 DEF Shapes
  <2>6. at' \in 1..Len(Listen) + 1
    BY <2>1 DEF Indices
  <2> \A s \in Listened : capture'[s].on \in BOOLEAN
    BY <2>5 DEF Shapes
  <2>7. Shapes' /\ NotYetDrained'
    BY <2>1, <2>5, <2>6 DEF Shapes, NotYetDrained
  <2>8. \A i \in Indices : On(i)' <=> i = at \/ On(i)
    BY <2>1, <2>5 DEF On
  <2>9. Started'
    BY <2>1, <2>8 DEF Started, Indices
  <2>10. DoneIsStopped' /\ StoppedBehind' /\ CapturesAreStopped'
    BY <2>1 DEF DoneIsStopped, NotYetDrained, StoppedBehind, CapturesAreStopped, Shapes
  <2>11. QED
    BY <2>7, <2>9, <2>10
<1>3. CASE StartFails
  <2>1. /\ UNCHANGED <<listener, poll, at, undone, outcome>>
        /\ pc = "start" /\ pc' = "undo" /\ at \in Indices /\ faults' = faults + 1
        /\ unsure' = unsure \cup {Listen[at]}
    BY <1>3 DEF StartFails, Fault, poller, Shapes, Indices
  <2> DEFINE c == capture[Listen[at]]
             r == [c EXCEPT !.on = TRUE, !.started = now]
  <2>2. capture' = capture \/ capture' = [capture EXCEPT ![Listen[at]] = r]
    BY <1>3 DEF StartFails, console
  <2>3. Listen[at] \in Listened /\ DOMAIN c = {"on", "started", "halves"}
    BY <2>1 DEF Shapes
  <2>4. DOMAIN r = {"on", "started", "halves"} /\ r.on = TRUE
    BY <2>3
  <2> HIDE DEF r
  <2>5. /\ DOMAIN capture' = Listened
        /\ \A s \in Listened : DOMAIN capture'[s] = {"on", "started", "halves"}
        /\ \A s \in Listened : capture'[s].on \in BOOLEAN
        /\ \A s \in Listened : s # Listen[at] => capture'[s].on = capture[s].on
    <3>1. CASE capture' = capture
      BY <3>1 DEF Shapes
    <3>2. CASE capture' = [capture EXCEPT ![Listen[at]] = r]
      <4>1. /\ DOMAIN capture' = Listened /\ capture'[Listen[at]] = r
            /\ \A s \in Listened : s # Listen[at] => capture'[s] = capture[s]
        BY <2>3, <3>2 DEF Shapes
      <4>3. ASSUME NEW s \in Listened
            PROVE  DOMAIN capture'[s] = {"on", "started", "halves"} /\ capture'[s].on \in BOOLEAN
        <5>1. CASE s = Listen[at]
          BY <2>4, <4>1, <5>1
        <5>2. CASE s # Listen[at]
          BY <4>1, <5>2 DEF Shapes
        <5>3. QED
          BY <5>1, <5>2
      <4>4. QED
        BY <4>1, <4>3
    <3>3. QED
      BY <2>2, <3>1, <3>2
  <2>6. Shapes' /\ NotYetDrained'
    BY <2>1, <2>5 DEF Shapes, NotYetDrained
  <2>7. Started'
    <3>1. undone' < at'
      BY <2>1 DEF Started, Indices
    <3>2. ASSUME NEW i \in Indices, On(i)'
          PROVE  Listen[i] \in unsure' \/ (undone' < i /\ i < at')
      <4>1. CASE i = at
        BY <2>1, <4>1
      <4>2. CASE i # at
        <5>1. On(i)
          BY <2>1, <2>5, <3>2, <4>2 DEF On
        <5>2. QED
          BY <2>1, <5>1 DEF Started, Indices
      <4>3. QED
        BY <4>1, <4>2
    <3>3. QED
      BY <2>1, <3>1, <3>2 DEF Started
  <2>8. DoneIsStopped' /\ StoppedBehind' /\ CapturesAreStopped'
    BY <2>1 DEF DoneIsStopped, NotYetDrained, StoppedBehind, CapturesAreStopped, Shapes
  <2>9. QED
    BY <2>6, <2>7, <2>8
<1>4. CASE Undo /\ undone + 1 < at
  <2> DEFINE n == undone + 1
  <2>1. /\ UNCHANGED <<listener, poll, at, pc, outcome>>
        /\ pc = "undo" /\ n \in Indices /\ undone' = n /\ undone' \in Nat
    BY SMTT(30), <1>4 DEF Undo, poller, Shapes, Indices
  <2>2. /\ capture' = capture \/ capture' = [capture EXCEPT ![Listen[n]].on = FALSE]
        /\ \/ capture' = [capture EXCEPT ![Listen[n]].on = FALSE] /\ unsure' = unsure
           \/ unsure' = unsure \cup {Listen[n]}
        /\ faults' = faults \/ faults' = faults + 1
    BY <1>4 DEF Undo, Fault
  <2>3. /\ DOMAIN capture' = Listened
        /\ \A s \in Listened : DOMAIN capture'[s] = DOMAIN capture[s]
        /\ \A s \in Listened : s # Listen[n] => capture'[s].on = capture[s].on
        /\ \/ capture'[Listen[n]].on = FALSE
           \/ capture' = capture /\ unsure' = unsure \cup {Listen[n]}
    <3> DEFINE c == [capture[Listen[n]] EXCEPT !.on = FALSE]
    <3>1. /\ Listen[n] \in Listened /\ DOMAIN capture = Listened
          /\ DOMAIN capture[Listen[n]] = {"on", "started", "halves"}
      BY <2>1 DEF Shapes
    <3>2. c.on = FALSE /\ DOMAIN c = DOMAIN capture[Listen[n]]
      BY <3>1
    <3>3. \/ capture' = [capture EXCEPT ![Listen[n]] = c]
          \/ capture' = capture /\ unsure' = unsure \cup {Listen[n]}
      BY <2>2
    <3> HIDE DEF c
    <3>4. CASE capture' = [capture EXCEPT ![Listen[n]] = c]
      <4>1. /\ DOMAIN capture' = Listened /\ capture'[Listen[n]] = c
            /\ \A s \in Listened : s # Listen[n] => capture'[s] = capture[s]
        BY <3>1, <3>4
      <4>2. QED
        BY <3>2, <4>1
    <3>5. CASE capture' = capture /\ unsure' = unsure \cup {Listen[n]}
      BY <3>1, <3>5
    <3>6. QED
      BY <3>3, <3>4, <3>5
  <2>4. Shapes' /\ NotYetDrained'
    <3>1. faults' \in Nat
      BY <2>2 DEF Shapes
    <3>2. \A s \in Listened : capture'[s].on \in BOOLEAN
      BY <2>3 DEF Shapes
    <3>3. QED
      BY <2>1, <2>3, <3>1, <3>2 DEF Shapes, NotYetDrained
  <2>5. Started'
    <3>1. undone' < at'
      BY <1>4, <2>1
    <3>2. ASSUME NEW i \in Indices, On(i)'
          PROVE  Listen[i] \in unsure' \/ (undone' < i /\ i < at')
      <4>1. CASE i = n
        BY <2>3, <3>2, <4>1 DEF On
      <4>2. CASE i # n
        <5>1. On(i) /\ unsure \subseteq unsure'
          BY <2>1, <2>2, <2>3, <3>2, <4>2 DEF On
        <5>2. Listen[i] \in unsure \/ (undone < i /\ i < at)
          BY <2>1, <5>1 DEF Started
        <5>3. QED
          BY SMTT(30), <2>1, <4>2, <5>1, <5>2 DEF Indices, Shapes
      <4>3. QED
        BY <4>1, <4>2
    <3>3. QED
      BY <2>1, <3>1, <3>2 DEF Started
  <2>6. DoneIsStopped' /\ StoppedBehind' /\ CapturesAreStopped'
    BY <2>1, <2>3 DEF DoneIsStopped, NotYetDrained, StoppedBehind, CapturesAreStopped, Shapes
  <2>7. QED
    BY <2>4, <2>5, <2>6
<1>5. CASE Undo /\ ~ (undone + 1 < at)
  <2>1. /\ UNCHANGED <<capture, listener, poll, at, undone, unsure, faults>>
        /\ pc = "undo" /\ pc' = "returned" /\ outcome' = "refused"
    BY <1>5 DEF Undo, Return, poller
  <2>2. Shapes' /\ NotYetDrained' /\ Started' /\ DoneIsStopped' /\ StoppedBehind'
    BY <2>1 DEF Shapes, NotYetDrained, Started, DoneIsStopped, StoppedBehind
  <2>3. ASSUME NEW i \in Indices, On(i) PROVE Listen[i] \in unsure
    <3>1. Listen[i] \in unsure \/ (undone < i /\ i < at)
      BY <2>1, <2>3 DEF Started
    <3>2. undone \in Nat /\ at \in Nat /\ i \in Nat
      BY DEF Shapes, Indices
    <3>3. QED
      BY <1>5, <3>1, <3>2
  <2>4. CapturesAreStopped'
    BY <2>1, <2>3 DEF CapturesAreStopped, On
  <2>5. QED
    BY <2>2, <2>4
<1>6. CASE Run
  <2>1. /\ UNCHANGED <<capture, listener, poll, at, undone, faults, outcome>>
        /\ pc = "start" /\ pc' = "run"
    BY <1>6 DEF Run, console, poller
  <2>2. QED
    BY <2>1 DEF Shapes, NotYetDrained, Started, DoneIsStopped, StoppedBehind, CapturesAreStopped
<1>7. CASE Assemble
  <2>1. /\ UNCHANGED <<capture, listener, poll, at, undone, faults>>
        /\ pc' = "returned" /\ outcome' = "returned"
        /\ poll.pc = "done" \/ Listen = <<>>
    BY <1>7 DEF Assemble, Return, console, poller
  <2>2. Shapes' /\ NotYetDrained' /\ Started' /\ DoneIsStopped' /\ StoppedBehind'
    BY <2>1 DEF Shapes, NotYetDrained, Started, DoneIsStopped, StoppedBehind
  <2>3. \A i \in Indices : listener[Listen[i]].done
    BY <2>1 DEF StoppedBehind, Indices
  <2>4. CapturesAreStopped'
    BY <2>1, <2>3 DEF CapturesAreStopped, DoneIsStopped
  <2>5. QED
    BY <2>2, <2>4
<1>8. QED
  BY <1>1, <1>2, <1>3, <1>4, <1>5, <1>6, <1>7 DEF MainStep

\* The poller's next place, once the current listener is done or was only read.
LEMMA Advancing ==
  ASSUME EInv, pc = "run", poll.pc \in {"read", "final", "stop"}, poll' = Advanced,
         \A i \in Indices : listener[Listen[i]].done => listener'[Listen[i]].done,
         poll.pc = "stop" => listener'[Current].done
  PROVE  /\ poll'.pc \in {"sleep", "read", "final", "stop", "done"}
         /\ poll'.l \in Indices
         /\ DOMAIN poll' = {"pc", "l", "ms", "last"}
         /\ StoppedBehind'
<1> USE ListenedAt DEF EInv, Shapes
<1>1. CASE poll.pc = "read"
  <2>1. \/ poll' = [poll EXCEPT !.l = @ + 1] /\ poll.l # Len(Listen)
        \/ poll' = [poll EXCEPT !.pc = "sleep", !.ms = 0]
        \/ poll' = [poll EXCEPT !.pc = "final", !.l = 1, !.ms = Ms]
    BY <1>1 DEF Advanced
  <2>2. poll.l \in Indices /\ 1 \in Indices
    BY <1>1 DEF Indices
  <2>3. /\ DOMAIN poll' = {"pc", "l", "ms", "last"}
        /\ poll'.l \in Indices
        /\ poll'.pc \in {"read", "sleep"} \/ (poll'.pc = "final" /\ poll'.l = 1)
    <3>1. CASE poll' = [poll EXCEPT !.l = @ + 1] /\ poll.l # Len(Listen)
      BY SMTT(30), <1>1, <2>2, <3>1 DEF Indices
    <3>2. CASE poll' = [poll EXCEPT !.pc = "sleep", !.ms = 0]
      BY <1>1, <2>2, <3>2
    <3>3. CASE poll' = [poll EXCEPT !.pc = "final", !.l = 1, !.ms = Ms]
      BY <1>1, <2>2, <3>3
    <3>4. QED
      BY <2>1, <3>1, <3>2, <3>3
  <2>4. StoppedBehind'
    BY SMTT(30), <2>3 DEF StoppedBehind, Indices
  <2>5. QED
    BY <2>3, <2>4
<1>2. CASE poll.pc = "final"
  <2>1. poll' = [poll EXCEPT !.pc = "stop"]
    BY <1>2 DEF Advanced
  <2>2. QED
    BY <1>2, <2>1 DEF StoppedBehind
<1>3. CASE poll.pc = "stop"
  <2>1. \/ poll' = [poll EXCEPT !.pc = "final", !.l = @ + 1] /\ poll.l # Len(Listen)
        \/ poll' = [poll EXCEPT !.pc = "done", !.ms = 0] /\ poll.l = Len(Listen)
    BY <1>3 DEF Advanced
  <2>2. \A i \in Indices : i <= poll.l => listener'[Listen[i]].done
    BY <1>3 DEF StoppedBehind, Current, Indices
  <2>3. /\ DOMAIN poll' = {"pc", "l", "ms", "last"}
        /\ poll'.l \in Indices
        /\ \/ poll'.pc = "final" /\ poll'.l = poll.l + 1
           \/ poll'.pc = "done" /\ poll.l = Len(Listen)
    <3>1. CASE poll' = [poll EXCEPT !.pc = "final", !.l = @ + 1] /\ poll.l # Len(Listen)
      BY SMTT(30), <1>3, <3>1 DEF Indices
    <3>2. CASE poll' = [poll EXCEPT !.pc = "done", !.ms = 0] /\ poll.l = Len(Listen)
      BY <1>3, <3>2
    <3>3. QED
      BY <2>1, <3>1, <3>2
  <2>4. StoppedBehind'
    BY <2>2, <2>3 DEF StoppedBehind, Indices
  <2>5. QED
    BY <2>3, <2>4
<1>4. QED
  BY <1>1, <1>2, <1>3

\* What a drain of the listener s changes: nothing of another listener, and s is done
\* only with its capture off or a note.
CaptureDrained(s) ==
  /\ DOMAIN capture' = Listened
  /\ \A q \in Listened : DOMAIN capture'[q] = {"on", "started", "halves"}
  /\ capture'[s].on \in BOOLEAN
  /\ \A q \in Listened : q # s => capture'[q].on = capture[q].on

ListenerDrained(s) ==
  /\ DOMAIN listener' = Listened
  /\ \A q \in Listened : DOMAIN listener'[q] = DOMAIN Fresh
  /\ listener'[s].done \in BOOLEAN /\ listener'[s].note \in BOOLEAN
  /\ \A q \in Listened : q # s => listener'[q].done = listener[q].done
                                    /\ listener'[q].note = listener[q].note

Drained(s) ==
  /\ UNCHANGED main /\ faults' \in Nat
  /\ poll.pc \in {"read", "final", "stop"}
  /\ poll' = Advanced \/ poll' = poll
  /\ poll' = Advanced /\ poll.pc = "stop" => listener'[s].done
  /\ CaptureDrained(s) /\ ListenerDrained(s)
  /\ listener[s].done => listener'[s].done
  /\ listener'[s].done => listener'[s].note \/ ~ capture'[s].on

\* Whatever a drain of the current listener does within these bounds, it keeps EInv.
LEMMA DrainedEInv == ASSUME EInv, pc = "run", Drained(Current) PROVE EInv'
<1> USE ListenedAt DEF EInv, Drained, CaptureDrained, ListenerDrained, main
<1> DEFINE s == Current
<1>1. s \in Listened
  BY DEF Current, Shapes
<1>2. \A i \in Indices : listener[Listen[i]].done => listener'[Listen[i]].done
  OBVIOUS
<1>3. /\ poll'.pc \in {"sleep", "read", "final", "stop", "done"}
      /\ poll'.l \in Indices
      /\ DOMAIN poll' = {"pc", "l", "ms", "last"}
      /\ StoppedBehind'
  <2>1. CASE poll' = Advanced
    BY <1>2, <2>1, Advancing
  <2>2. CASE poll' = poll
    BY <1>2, <2>2 DEF StoppedBehind, Shapes
  <2>3. QED
    BY <2>1, <2>2
<1>4. Shapes'
  <2>1. \A q \in Listened : capture'[q].on \in BOOLEAN
    BY DEF Shapes
  <2>2. \A q \in Listened : listener'[q].done \in BOOLEAN /\ listener'[q].note \in BOOLEAN
    BY DEF Shapes
  <2>3. poll'.l \in Nat \ {0}
    BY <1>3 DEF Indices
  <2>4. QED
    BY <1>3, <2>1, <2>2, <2>3 DEF Shapes
<1>5. NotYetDrained' /\ Started' /\ CapturesAreStopped'
  BY DEF NotYetDrained, Started, CapturesAreStopped, Shapes
<1>6. DoneIsStopped'
  BY <1>1 DEF DoneIsStopped
<1>7. QED
  BY <1>3, <1>4, <1>5, <1>6

\* The listener's record is replaced by one that is not noted.
Replaces(s, last) ==
  \E next, total, partial, rx :
    listener' = [listener EXCEPT ![s] = [next |-> next, total |-> total, done |-> last,
                                         note |-> FALSE, partial |-> partial, rx |-> rx]]

LEMMA ReplyReplaces ==
  ASSUME NEW s, NEW text, NEW timed, NEW last, Absorb(s, text, timed, last)
  PROVE  Replaces(s, last)
  BY Zenon DEF Absorb, Replaces

\* The current listener's record replaced as a whole.
LEMMA ListenerReplaced ==
  ASSUME EInv, Current \in Listened, NEW l, listener' = [listener EXCEPT ![Current] = l],
         DOMAIN l = DOMAIN Fresh, l.done \in BOOLEAN, l.note \in BOOLEAN
  PROVE  ListenerDrained(Current) /\ listener'[Current] = l
  BY DEF EInv, Shapes, ListenerDrained

\* A drain leaves the captures of all other listeners alone.
LEMMA CaptureStopped ==
  ASSUME EInv, Current \in Listened,
         capture' = capture \/ capture' = [capture EXCEPT ![Current].on = FALSE]
  PROVE  CaptureDrained(Current)
<1>1. CASE capture' = capture
  BY <1>1 DEF EInv, Shapes, CaptureDrained
<1>2. CASE capture' = [capture EXCEPT ![Current].on = FALSE]
  <2> DEFINE c == [capture[Current] EXCEPT !.on = FALSE]
  <2>1. capture' = [capture EXCEPT ![Current] = c]
    BY <1>2
  <2>2. "on" \in DOMAIN capture[Current] /\ DOMAIN capture = Listened
    BY DEF EInv, Shapes
  <2>3. DOMAIN c = {"on", "started", "halves"} /\ c.on = FALSE
    BY <2>2 DEF EInv, Shapes
  <2> HIDE DEF c
  <2>4. capture'[Current] = c /\ \A q \in Listened \ {Current} : capture'[q] = capture[q]
    BY <2>1, <2>2
  <2>5. QED
    BY <2>1, <2>2, <2>3, <2>4 DEF EInv, Shapes, CaptureDrained
<1>3. QED
  BY <1>1, <1>2

\* A read, the stop, or the failure of either, of one listener.
LEMMA PollEInv == ASSUME EInv, pc = "run", PollStep PROVE EInv'
<1> USE ListenedAt
<1>1. CASE Wake
  <2>1. UNCHANGED <<capture, listener, main, faults>> /\ 1 \in Indices
    BY <1>1 DEF Wake, console, Indices
  <2>2. poll' = [pc |-> "read", l |-> 1, ms |-> Ms, last |-> finished]
    BY <1>1 DEF Wake
  <2>3. QED
    BY <2>1, <2>2 DEF EInv, main, Shapes, NotYetDrained, Started, DoneIsStopped, StoppedBehind,
       CapturesAreStopped, On
<1>2. Draining => Current \in Listened /\ poll.pc \in {"read", "final", "stop"}
  BY DEF EInv, Shapes, Draining, Current
<1>3. CASE SkipDone
  <2>1. Drained(Current)
    BY <1>2, <1>3 DEF EInv, SkipDone, Drained, CaptureDrained, ListenerDrained, console, Shapes,
       DoneIsStopped
  <2>2. QED
    BY <2>1, DrainedEInv
<1>4. CASE Drain
  <2> DEFINE Read(next, total, partial, rx) ==
               [next |-> next, total |-> total, done |-> FALSE, note |-> FALSE,
                partial |-> partial, rx |-> rx]
  <2>0. PICK timed \in Timings(Reply(Current)) : Absorb(Current, Reply(Current), timed, FALSE)
    BY <1>4 DEF Drain
  <2>1. PICK next, total, partial, rx :
          listener' = [listener EXCEPT ![Current] = Read(next, total, partial, rx)]
    <3>1. Replaces(Current, FALSE)
      BY <2>0, ReplyReplaces
    <3>2. QED
      BY <3>1, Zenon DEF Replaces
  <2> DEFINE l == Read(next, total, partial, rx)
  <2>2. DOMAIN l = DOMAIN Fresh /\ l.done = FALSE /\ l.note = FALSE
    BY DEF Fresh
  <2>9. listener' = [listener EXCEPT ![Current] = l]
    BY <2>1
  <2> HIDE DEF l
  <2>10. Current \in Listened
    BY <1>2, <1>4 DEF Drain
  <2>11. l.done \in BOOLEAN /\ l.note \in BOOLEAN
    BY <2>2
  <2>3. ListenerDrained(Current) /\ listener'[Current] = l
    BY <2>9, <2>10, <2>2, <2>11, ListenerReplaced
  <2>4. poll' = Advanced \/ poll' = poll
    BY <2>0 DEF Absorb
  <2>5. /\ UNCHANGED <<capture, main, faults>>
        /\ poll.pc \in {"read", "final"} /\ ~ listener[Current].done
    BY <1>4 DEF Drain, Draining, console
  <2>6. CaptureDrained(Current)
    BY <1>2, <1>4, <2>5, CaptureStopped DEF Drain
  <2>7. Drained(Current)
    BY <2>2, <2>3, <2>4, <2>5, <2>6 DEF EInv, Shapes, Drained
  <2>8. QED
    BY <2>7, DrainedEInv
<1>5. CASE DrainLast
  <2> DEFINE Stopped(next, total, partial, rx) ==
               [next |-> next, total |-> total, done |-> TRUE, note |-> FALSE,
                partial |-> partial, rx |-> rx]
  <2>0. PICK timed \in Timings(Reply(Current)) : Absorb(Current, Reply(Current), timed, TRUE)
    BY <1>5 DEF DrainLast
  <2>1. PICK next, total, partial, rx :
          listener' = [listener EXCEPT ![Current] = Stopped(next, total, partial, rx)]
    <3>1. Replaces(Current, TRUE)
      BY <2>0, ReplyReplaces
    <3>2. QED
      BY <3>1, Zenon DEF Replaces
  <2> DEFINE l == Stopped(next, total, partial, rx)
  <2>2. DOMAIN l = DOMAIN Fresh /\ l.done = TRUE /\ l.note = FALSE
    BY DEF Fresh
  <2>9. listener' = [listener EXCEPT ![Current] = l]
    BY <2>1
  <2> HIDE DEF l
  <2>10. Current \in Listened
    BY <1>2, <1>5 DEF DrainLast
  <2>11. l.done \in BOOLEAN /\ l.note \in BOOLEAN
    BY <2>2
  <2>3. ListenerDrained(Current) /\ listener'[Current] = l
    BY <2>9, <2>10, <2>2, <2>11, ListenerReplaced
  <2>4. poll' = Advanced
    BY <2>0 DEF Absorb
  <2>5. /\ UNCHANGED <<main, faults>> /\ poll.pc = "stop" /\ ~ listener[Current].done
        /\ capture' = [capture EXCEPT ![Current].on = FALSE]
    BY <1>5 DEF DrainLast, Draining
  <2>6. CaptureDrained(Current) /\ ~ capture'[Current].on
    BY <1>2, <1>5, <2>5, CaptureStopped DEF DrainLast, EInv, Shapes
  <2>7. Drained(Current)
    BY <2>2, <2>3, <2>4, <2>5, <2>6 DEF EInv, Shapes, Drained
  <2>8. QED
    BY <2>7, DrainedEInv
<1>6. CASE DrainFails
  <2> DEFINE l == [listener[Current] EXCEPT !.note = TRUE, !.done = TRUE]
  <2>1. listener' = [listener EXCEPT ![Current] = l]
    BY <1>6 DEF DrainFails
  <2>2. DOMAIN listener[Current] = DOMAIN Fresh /\ {"note", "done"} \subseteq DOMAIN Fresh
    BY <1>2, <1>6 DEF DrainFails, EInv, Shapes, Fresh
  <2>3. DOMAIN l = DOMAIN Fresh /\ l.done = TRUE /\ l.note = TRUE
    BY <2>2
  <2> HIDE DEF l
  <2>4. ListenerDrained(Current) /\ listener'[Current] = l
    BY <1>2, <1>6, <2>1, <2>3, ListenerReplaced DEF DrainFails
  <2>5. /\ UNCHANGED main /\ poll' = Advanced /\ faults' = faults + 1
        /\ capture' = capture \/ capture' = [capture EXCEPT ![Current].on = FALSE]
    BY <1>6 DEF DrainFails, Fault
  <2>6. CaptureDrained(Current)
    BY <1>2, <1>6, <2>5, CaptureStopped DEF DrainFails
  <2>7. Drained(Current)
    BY <1>2, <1>6, <2>3, <2>4, <2>5, <2>6 DEF DrainFails, EInv, Shapes, Drained
  <2>8. QED
    BY <2>7, DrainedEInv
<1>7. QED
  BY <1>1, <1>3, <1>4, <1>5, <1>6 DEF PollStep

\* A step's request that fails, which only the fault count knows of.
LEMMA StepFailsEInv == ASSUME EInv, pc = "run", StepFails PROVE EInv'
<1>1. UNCHANGED <<capture, listener, poll, main>> /\ faults' = faults + 1
  BY DEF StepFails, Fault, console, poller
<1>2. QED
  BY <1>1 DEF EInv, main, Shapes, NotYetDrained, Started, DoneIsStopped, StoppedBehind,
     CapturesAreStopped, On

\* Every step preserves the invariant.
LEMMA NextEInv == EInv /\ [Next]_vars => EInv'
<1> SUFFICES ASSUME EInv, [Next]_vars PROVE EInv'
  OBVIOUS
<1>1. CASE Tick \/ (\E s \in Listened : Receive(s)) \/ Deliver \/ Write \/ StepAnswered \/ StepsDone
  BY <1>1, OthersAreAside, AsideEInv
<1>2. CASE MainStep
  BY <1>2, MainEInv
<1>3. CASE StepFails
  BY <1>3, StepFailsEInv DEF StepFails
<1>4. CASE PollStep
  <2>1. pc = "run"
    BY <1>4 DEF PollStep, Wake, SkipDone, Drain, DrainLast, DrainFails, Draining
  <2>2. QED
    BY <1>4, <2>1, PollEInv
<1>5. CASE UNCHANGED vars
  <2>1. Aside
    BY <1>5 DEF vars, console, main, poller, history, Aside
  <2>2. QED
    BY <2>1, AsideEInv
<1>6. QED
  BY <1>1, <1>2, <1>3, <1>4, <1>5 DEF Next, StepStep, Done

\* For any consoles, steps and replies: an exchange that returns leaves no capture
\* running on Core unless a request of that capture failed, and says so; one that is
\* refused leaves none running but those whose own start, or own stop, failed.
THEOREM ExchangeStopsCaptures == Spec => []CapturesAreStopped
<1>1. EInv => CapturesAreStopped
  BY DEF EInv
<1>2. Spec => []EInv
  BY InitEInv, NextEInv, PTL DEF Spec
<1>3. QED
  BY <1>1, <1>2, PTL

-----------------------------------------------------------------------------
(* What the consoles have said *)

Half == [line : Nat \ {0}, at : Nat, after : Nat, first : BOOLEAN, end : BOOLEAN]

\* Lines are numbered 1, 2, .. and a half without an end is followed by its other half.
Follows(g, h) ==
  IF g.end THEN h.first /\ h.line = g.line + 1 ELSE ~ h.first /\ h.end /\ h.line = g.line

\* h, said by a console, is a sequence of halves, each line's first one in its place.
Said(h) ==
  /\ h \in Seq(Half)
  /\ Len(h) > 0 => h[1].first /\ h[1].line = 1
  /\ \A i \in 1..Len(h) : i + 1 \in 1..Len(h) => Follows(h[i], h[i + 1])
  /\ \A i, j \in 1..Len(h) : i < j =>
       h[i].line <= h[j].line /\ h[i].at <= h[j].at /\ h[i].after <= h[j].after
  /\ \A i, j \in 1..Len(h) : i < j /\ (h[i].end \/ h[j].first) => h[i].line < h[j].line
  /\ \A i \in 1..Len(h) : h[i].first \/ h[i].end
  /\ \A i \in 1..Len(h) : \E j \in 1..i : h[j].first /\ h[j].line = h[i].line

Clocks ==
  /\ now \in Nat /\ t0 \in Nat /\ t0 <= now
  /\ wire \in Nat /\ wire <= step.n /\ step.n \in 1..Len(Steps) + 1
  /\ step.pc \in {"delay", "sent", "done"} /\ DOMAIN step = {"pc", "n", "ms"}
  /\ step.pc = "sent" => step.n <= Len(Steps)
  /\ step.pc = "delay" => wire < step.n
  /\ pc \in {"check", "start", "undo"} => step.pc = "delay" /\ step.ms = 0 /\ rows = {}
  /\ step.ms \in Nat /\ step.ms + t0 <= now
  /\ stamping \in BOOLEAN
  /\ poll.pc \in {"read", "final", "stop"} => poll.ms \in Nat /\ poll.ms + t0 <= now

ConsolesSpeak ==
  \A s \in Listened :
    /\ DOMAIN capture[s] = {"on", "started", "halves"}
    /\ capture[s].started \in Nat /\ capture[s].started <= now
    /\ pc = "run" \/ rows # {} => capture[s].started <= t0
    /\ Said(capture[s].halves)
    /\ \A i \in 1..Len(capture[s].halves) :
         /\ capture[s].started <= capture[s].halves[i].at
         /\ capture[s].halves[i].at <= now /\ capture[s].halves[i].after <= wire

\* Nobody has spoken to a capture that has not begun.
SilentBefore ==
  /\ pc = "check" => \A s \in Listened : capture[s].halves = <<>>
  /\ pc = "start" => \A i \in Indices : i >= at => capture[Listen[i]].halves = <<>>

-----------------------------------------------------------------------------
(* What the poller has read *)

\* How many lines h has completed in its first n halves, and whether one is open then.
Lines(h, n) == IF n = 0 THEN 0 ELSE IF h[n].end THEN h[n].line ELSE h[n].line - 1
Open(h, n)  == IF n > 0 /\ ~ h[n].end THEN 1 ELSE 0

\* How many lines are told after n halves.
Told(h, n, last) == Lines(h, n) + (IF last THEN Open(h, n) ELSE 0)

Rest(h, n)   == IF n > 0 /\ ~ h[n].end THEN <<h[n]>> ELSE <<>>
Times0(text) == [i \in DOMAIN text |-> text[i].at]

HeardOf(s) == {r \in rows : IsRecv(r) /\ r.signal = s}

\* A listener keeps the open half it has read last, with its time unless Core left it out.
TailIsKept(s, l, h) ==
  /\ l.next \in 0..Len(h)
  /\ ~ l.done => /\ ~ l.note /\ l.partial = Rest(h, l.next)
                 /\ l.rx \in {<<>>, Times0(l.partial)}
                 /\ s \notin untimed => l.rx = Times0(l.partial)

\* The lines that are told are those that the reads completed.
ToldIsRead(l, h, heard) ==
  {r.n : r \in heard} = (1..Told(h, l.next, l.done /\ ~ l.note)) \ Blank

\* A row that Core placed has the time of the first half of a line that was read, its own
\* or a later one, and its own if Core left no time out; the others have the time of a poll.
RowsAreTimed(s, l, h, heard) ==
  \A r \in heard :
    /\ PollSeq <= r.seq /\ r.seq < seq
    /\ r.core => Anchors
    /\ Anchors /\ s \notin untimed => r.core
    /\ r.core => \E i \in 1..l.next : /\ h[i].first /\ r.n <= h[i].line
                                      /\ r.ms = Anchored(h[i].at)
                                      /\ s \notin untimed => h[i].line = r.n
    /\ ~ r.core => r.ms + t0 <= now /\ (poll.pc \in {"read", "final", "stop"} => r.ms <= poll.ms)

\* Rows of one console are in the order of its lines, each line once, and so are the
\* times that one clock gave them.
RowsInOrder(heard) ==
  \A r, q \in heard :
    /\ r.n < q.n => r.seq < q.seq /\ (r.core = q.core => r.ms <= q.ms)
    /\ r.n = q.n => r = q

ListenerKeepsUp(s) ==
  /\ TailIsKept(s, listener[s], capture[s].halves)
  /\ ToldIsRead(listener[s], capture[s].halves, HeardOf(s))
  /\ RowsAreTimed(s, listener[s], capture[s].halves, HeardOf(s))
  /\ RowsInOrder(HeardOf(s))

PollerKeepsUp ==
  /\ \A s \in Listened : ListenerKeepsUp(s)
  /\ outcome = "returned" => \A s \in Listened : listener[s].done

-----------------------------------------------------------------------------
(* What the steps have written *)

RowType == [ms : Nat, seq : Nat, signal : Signals, kind : {"write", "recv"}, n : Nat, core : BOOLEAN]

StepRows  == {r \in rows : r.seq < PollSeq}
IsReply(r) == IsRecv(r) /\ r.signal \notin Listened

RowsAreRows ==
  /\ rows \subseteq RowType /\ IsFiniteSet(rows)
  /\ seq \in Nat /\ seq >= PollSeq
  /\ \A r, q \in rows : r.seq = q.seq => r = q

StepsAreCounted ==
  /\ \A r \in StepRows : r.seq < Cardinality(StepRows)
  /\ Cardinality(StepRows) <= 2 * (step.n - 1) + (IF step.pc = "delay" THEN 0 ELSE 1)

\* What a console said after a write's line had reached it, it said after the write.
WritesComeFirst ==
  \A w \in rows : w.kind = "write" =>
    /\ w.seq < PollSeq
    /\ w.ms + t0 <= now
    /\ \A s \in Listened : \A i \in 1..Len(capture[s].halves) :
         w.n <= capture[s].halves[i].after => w.ms + t0 <= capture[s].halves[i].at

\* The replies of other consoles are told in the order of the steps.
RepliesInOrder ==
  /\ \A r \in rows : IsReply(r) =>
       /\ r.seq < PollSeq /\ r.n < step.n
       /\ ~ Anchors => r.ms + t0 <= now
       /\ Anchors => /\ r.ms + Origin <= now
                     /\ step.pc = "sent" => r.ms + Origin <= t0 + step.ms
  /\ \A r, q \in rows : IsReply(r) /\ IsReply(q) =>
       /\ r.n < q.n => r.ms <= q.ms /\ r.seq < q.seq
       /\ r.n = q.n => r = q

XInv ==
  /\ EInv
  /\ Clocks /\ ConsolesSpeak /\ SilentBefore /\ PollerKeepsUp
  /\ RowsAreRows /\ StepsAreCounted /\ WritesComeFirst /\ RepliesInOrder

-----------------------------------------------------------------------------
(* Numbers, and what OnlyAt picks *)

\* A set of numbers has a least one.
LEMMA LeastOf ==
  ASSUME NEW S \in SUBSET Nat, S # {}
  PROVE  \E x \in S : \A y \in S : x <= y
<1> DEFINE R == OpToRel(<, Nat)
<1>1. IsWellFoundedOn(R, Nat)
  BY NatLessThanWellFounded
<1>2. \A x, y \in Nat : <<y, x>> \in R <=> y < x
  BY DEF OpToRel
<1> HIDE DEF R
<1>3. PICK x \in S : \A y \in S : ~ (<<y, x>> \in R)
  BY <1>1, WFMin
<1>4. ASSUME NEW y \in S PROVE x <= y
  <2>1. x \in Nat /\ y \in Nat
    OBVIOUS
  <2>2. ~ (y < x)
    BY <1>2, <1>3, <2>1
  <2>3. QED
    BY <2>1, <2>2
<1>5. QED
  BY <1>4

\* The recursion of OnlyAt has a solution, which OnlyAt takes the last value of.
Selects(only, text, places) ==
  /\ only[0] = <<>>
  /\ \A i \in 1..Len(text) :
       only[i] = IF i \in places THEN Append(only[i - 1], text[i]) ELSE only[i - 1]

\* OnlyAt is the last value of its recursion, by the least place where it would not be.
LEMMA OnlyAtSteps ==
  ASSUME NEW text, Len(text) \in Nat, NEW places
  PROVE  \E only : Selects(only, text, places) /\ OnlyAt(text, places) = only[Len(text)]
<1> DEFINE N == Len(text)
           Eq(f, n) == f = [i \in 0..n |->
                              IF i = 0 THEN <<>>
                              ELSE IF i \in places THEN Append(f[i - 1], text[i]) ELSE f[i - 1]]
           Bad == {n \in 0..N : ~ \E f : Eq(f, n)}
<1>1. Bad = {}
  <2> SUFFICES ASSUME Bad # {} PROVE FALSE
    OBVIOUS
  <2>1. PICK n \in Bad : \A m \in Bad : n <= m
    <3>1. Bad \in SUBSET Nat
      OBVIOUS
    <3> HIDE DEF Bad
    <3>2. QED
      BY <3>1, LeastOf
  <2>2. CASE n = 0
    <3> DEFINE f == [i \in 0..0 |-> <<>>]
    <3>1. Eq(f, 0)
      OBVIOUS
    <3>2. QED
      BY <2>1, <2>2, <3>1
  <2>3. CASE n # 0
    <3>1. n - 1 \in 0..N /\ n - 1 \notin Bad
      <4>1. n \in 0..N
        OBVIOUS
      <4> HIDE DEF Bad
      <4>2. QED
        BY <2>1, <2>3, <4>1
    <3>2. PICK f : Eq(f, n - 1)
      <4> HIDE DEF Eq
      <4>1. QED
        BY <3>1
    <3> DEFINE g == [i \in 0..n |->
                       IF i = n THEN (IF n \in places THEN Append(f[n - 1], text[n]) ELSE f[n - 1])
                       ELSE f[i]]
    <3>3. n \in Nat /\ n - 1 \in 0..n - 1
      BY <2>1, <2>3
    <3>4. \A i \in 0..n - 1 : g[i] = f[i]
      BY <3>3
    <3>5. \A i \in 0..n - 1 : f[i] =
             IF i = 0 THEN <<>> ELSE IF i \in places THEN Append(f[i - 1], text[i]) ELSE f[i - 1]
      BY <3>2, <3>3
    <3>6. \A i \in 0..n : g[i] =
             IF i = 0 THEN <<>> ELSE IF i \in places THEN Append(g[i - 1], text[i]) ELSE g[i - 1]
      <4>1. ASSUME NEW i \in 0..n - 1
            PROVE  g[i] = IF i = 0 THEN <<>>
                          ELSE IF i \in places THEN Append(g[i - 1], text[i]) ELSE g[i - 1]
        <5>1. i # 0 => i - 1 \in 0..n - 1
          BY <3>3, <4>1
        <5> HIDE DEF g
        <5>2. QED
          BY <3>4, <3>5, <5>1, <4>1
      <4>2. g[n] = IF n \in places THEN Append(g[n - 1], text[n]) ELSE g[n - 1]
        <5>1. g[n] = IF n \in places THEN Append(f[n - 1], text[n]) ELSE f[n - 1]
          BY <3>3
        <5> HIDE DEF g
        <5>2. QED
          BY <3>3, <3>4, <5>1
      <4> HIDE DEF g
      <4>3. QED
        BY <2>3, <3>3, <4>1, <4>2
    <3>7. DOMAIN g = 0..n
      OBVIOUS
    <3>8. g = [i \in 0..n |-> g[i]]
      OBVIOUS
    <3> HIDE DEF g
    <3>9. Eq(g, n)
      BY <3>6, <3>8, Zenon
    <3>10. QED
      BY <2>1, <3>9
  <2>4. QED
    BY <2>2, <2>3
<1>2. \E f : Eq(f, N)
  <2>1. N \in 0..N
    OBVIOUS
  <2> HIDE DEF Eq
  <2>2. QED
    BY <1>1, <2>1
<1>3. Eq(CHOOSE f : Eq(f, N), N)
  BY <1>2
<1> DEFINE F == CHOOSE f : Eq(f, N)
<1>4. OnlyAt(text, places) = F[N]
  BY DEF OnlyAt
<1>5. Eq(F, N)
  BY <1>3
<1> HIDE DEF F
<1>6. \A i \in 0..N : F[i] =
         IF i = 0 THEN <<>> ELSE IF i \in places THEN Append(F[i - 1], text[i]) ELSE F[i - 1]
  BY <1>5
<1>7. Selects(F, text, places)
  BY <1>6 DEF Selects
<1>8. QED
  BY <1>4, <1>7

-----------------------------------------------------------------------------
(* The lines of a reply *)

\* From its n-th half to its i-th, a are the halves of h that start a line and b those
\* that end one, the open line before included.
Picks(h, n, i, a, b) ==
  /\ a \in Seq(Half) /\ b \in Seq(Half)
  /\ Len(a) + Open(h, n) = Len(b) + Open(h, i)
  /\ i > 0 => h[i].line = Lines(h, n) + Open(h, n) + Len(a)
  /\ \A k \in 1..Len(a) :
       \E j \in 1..i : a[k] = h[j] /\ h[j].first /\ h[j].line = Lines(h, n) + Open(h, n) + k
  /\ \A k \in 1..Len(b) :
       \E j \in 1..i : b[k] = h[j] /\ h[j].end /\ h[j].line = Lines(h, n) + k

\* The fields of what a console has said.
LEMMA SaidTypes ==
  ASSUME NEW h, Said(h)
  PROVE  /\ Len(h) \in Nat /\ DOMAIN h = 1..Len(h)
         /\ \A i \in 1..Len(h) :
              /\ h[i] \in Half /\ h[i].line \in Nat \ {0} /\ h[i].at \in Nat /\ h[i].after \in Nat
              /\ h[i].first \in BOOLEAN /\ h[i].end \in BOOLEAN
         /\ \A n \in 0..Len(h) : Lines(h, n) \in Nat /\ Open(h, n) \in {0, 1}
<1>1. Len(h) \in Nat /\ DOMAIN h = 1..Len(h) /\ \A i \in 1..Len(h) : h[i] \in Half
  BY DEF Said
<1>2. \A x \in Half : /\ x.line \in Nat \ {0} /\ x.at \in Nat /\ x.after \in Nat
                      /\ x.first \in BOOLEAN /\ x.end \in BOOLEAN
  BY DEF Half
<1>3. QED
  BY <1>1, <1>2 DEF Lines, Open

\* What Append adds, and what it keeps.
LEMMA Appends ==
  ASSUME NEW S, NEW s \in Seq(S), NEW x \in S
  PROVE  /\ Append(s, x) \in Seq(S) /\ Len(s) \in Nat /\ Len(Append(s, x)) = Len(s) + 1
         /\ \A i \in 1..Len(s) : Append(s, x)[i] = s[i]
         /\ Append(s, x)[Len(s) + 1] = x
  OBVIOUS

\* One half more is picked once: as a start, as an end, or as both.
LEMMA NextPicks ==
  ASSUME NEW h, Said(h), NEW n \in 0..Len(h), NEW i \in n..Len(h) - 1, NEW a, NEW b,
         Picks(h, n, i, a, b)
  PROVE  Picks(h, n, i + 1, IF h[i + 1].first THEN Append(a, h[i + 1]) ELSE a,
                            IF h[i + 1].end THEN Append(b, h[i + 1]) ELSE b)
<1> DEFINE x == h[i + 1]
           c == Lines(h, n)
           p == Open(h, n)
           A == IF x.first THEN Append(a, x) ELSE a
           B == IF x.end THEN Append(b, x) ELSE b
<1>0. /\ i \in Nat /\ i + 1 \in 1..Len(h) /\ (i > 0 => i \in 1..Len(h))
  BY SaidTypes
<1>1. /\ x \in Half /\ x.line \in Nat \ {0} /\ x.first \in BOOLEAN /\ x.end \in BOOLEAN
      /\ c \in Nat /\ p \in {0, 1}
      /\ i > 0 => h[i].end \in BOOLEAN /\ h[i].line \in Nat
  BY <1>0, SaidTypes
<1>2. a \in Seq(Half) /\ b \in Seq(Half) /\ Len(a) \in Nat /\ Len(b) \in Nat
  BY DEF Picks
<1>3. /\ A \in Seq(Half) /\ Len(A) = IF x.first THEN Len(a) + 1 ELSE Len(a)
      /\ \A k \in 1..Len(a) : A[k] = a[k]
      /\ x.first => A[Len(a) + 1] = x
  BY <1>1, <1>2, Appends
<1>4. /\ B \in Seq(Half) /\ Len(B) = IF x.end THEN Len(b) + 1 ELSE Len(b)
      /\ \A k \in 1..Len(b) : B[k] = b[k]
      /\ x.end => B[Len(b) + 1] = x
  BY <1>1, <1>2, Appends
<1>5. /\ i = 0 => x.first /\ x.line = 1
      /\ i > 0 => Follows(h[i], x)
      /\ x.first \/ x.end
  <2>1. i = 0 => Len(h) > 0
    BY <1>0, SaidTypes
  <2>2. QED
    BY <1>0, <2>1 DEF Said
<1>6. /\ Len(a) + p = Len(b) + Open(h, i)
      /\ i > 0 => h[i].line = c + p + Len(a)
  BY DEF Picks
<1>7. i = 0 => n = 0 /\ c = 0 /\ p = 0 /\ Len(a) = 0
  <2>1. i = 0 => n = 0
    BY <1>0
  <2>2. QED
    BY <1>2, <1>6, <2>1, SaidTypes, <1>0 DEF Lines, Open, Picks
<1>14. Open(h, i + 1) = (IF x.end THEN 0 ELSE 1) /\ Open(h, i) = (IF i > 0 /\ ~ h[i].end THEN 1 ELSE 0)
  BY <1>0 DEF Open
<1> DEFINE q == Open(h, i)
           z == Open(h, i + 1)
<1>15. /\ i > 0 /\ h[i].end => x.first /\ x.line = h[i].line + 1
       /\ i > 0 /\ ~ h[i].end => ~ x.first /\ x.end /\ x.line = h[i].line
  BY <1>5 DEF Follows
<1>16. \A j \in 1..i : j \in 1..i + 1
  BY <1>0
<1>17. x = h[i + 1] /\ i + 1 \in 1..i + 1
  BY <1>0
<1> HIDE DEF x, c, p, A, B, q, z
<1>8. x.line = c + p + Len(A)
  <2>1. CASE i = 0
    BY <1>1, <1>2, <1>3, <1>5, <1>7, <2>1
  <2>2. CASE i > 0 /\ h[i].end
    <3>1. x.first /\ x.line = h[i].line + 1 /\ h[i].line = c + p + Len(a) /\ Len(A) = Len(a) + 1
      BY <1>3, <1>6, <1>15, <2>2
    <3>2. p \in Nat
      BY <1>1
    <3>3. QED
      BY <1>1, <1>2, <3>1, <3>2
  <2>3. CASE i > 0 /\ ~ h[i].end
    BY <1>1, <1>2, <1>3, <1>6, <1>15, <2>3
  <2>4. QED
    BY <1>0, <2>1, <2>2, <2>3
<1>9. Len(A) + p = Len(B) + z
  <2>0. z = (IF x.end THEN 0 ELSE 1) /\ q = (IF i > 0 /\ ~ h[i].end THEN 1 ELSE 0) /\ Len(a) + p = Len(b) + q
    BY <1>6, <1>14 DEF q, z
  <2> DEFINE la == Len(a)
             lb == Len(b)
             lA == Len(A)
             lB == Len(B)
             f  == x.first
             e  == x.end
  <2>1. /\ la \in Nat /\ lb \in Nat /\ p \in Nat /\ la + p = lb + q
        /\ lA = (IF f THEN la + 1 ELSE la) /\ lB = (IF e THEN lb + 1 ELSE lb)
        /\ z = (IF e THEN 0 ELSE 1)
    BY <1>1, <1>2, <1>3, <1>4, <2>0
  <2>2. (q = 1 /\ ~ f /\ e) \/ (q = 0 /\ f)
    <3>1. CASE i > 0 /\ ~ h[i].end
      <4>1. q = 1
        BY <2>0, <3>1
      <4>2. ~ f /\ e
        BY <1>15, <3>1
      <4>3. QED
        BY <4>1, <4>2
    <3>2. CASE i = 0
      BY <1>5, <2>0, <3>2
    <3>3. CASE i > 0 /\ h[i].end
      BY <1>15, <2>0, <3>3
    <3>4. QED
      BY <1>0, <3>1, <3>2, <3>3
  <2> HIDE DEF la, lb, lA, lB, f, e
  <2>3. lA + p = lB + z
    BY <2>1, <2>2
  <2>4. QED
    BY <2>3 DEF lA, lB
<1>10. ASSUME NEW k \in 1..Len(A)
       PROVE  \E j \in 1..i + 1 : A[k] = h[j] /\ h[j].first /\ h[j].line = c + p + k
  <2>1. CASE k \in 1..Len(a)
    <3>1. PICK j \in 1..i : a[k] = h[j] /\ h[j].first /\ h[j].line = c + p + k
      BY <2>1 DEF Picks, c, p
    <3>2. QED
      BY <1>16, <1>3, <2>1, <3>1
  <2>2. CASE k \notin 1..Len(a)
    <3>1. k = Len(A) /\ x.first /\ A[k] = x
      BY <1>1, <1>2, <1>3, <2>2
    <3>2. QED
      BY <1>17, <1>8, <3>1
  <2>3. QED
    BY <2>1, <2>2
<1>11. ASSUME NEW k \in 1..Len(B)
       PROVE  \E j \in 1..i + 1 : B[k] = h[j] /\ h[j].end /\ h[j].line = c + k
  <2>1. CASE k \in 1..Len(b)
    <3>1. PICK j \in 1..i : b[k] = h[j] /\ h[j].end /\ h[j].line = c + k
      BY <2>1 DEF Picks, c
    <3>2. QED
      BY <1>16, <1>4, <2>1, <3>1
  <2>2. CASE k \notin 1..Len(b)
    <3>1. k = Len(B) /\ x.end /\ B[k] = x
      BY <1>1, <1>2, <1>4, <2>2
    <3>2. z = 0
      BY <1>14, <3>1 DEF z
    <3>3. x.line = c + k
      <4>1. Len(A) \in Nat /\ Len(B) \in Nat /\ p \in Nat /\ k \in Nat
        BY <1>1, <1>2, <1>3, <1>4
      <4>2. x.line = c + p + Len(A) /\ Len(A) + p = Len(B) + z /\ k = Len(B)
        BY <1>8, <1>9, <3>1
      <4> DEFINE u == Len(A)
                 v == Len(B)
                 w == x.line
      <4>3. u \in Nat /\ v \in Nat /\ w = c + p + u /\ u + p = v + 0 /\ k = v /\ c \in Nat
        BY <1>1, <3>2, <4>1, <4>2
      <4> HIDE DEF u, v, w
      <4>4. w = c + k
        BY <4>1, <4>3
      <4>5. QED
        BY <4>4 DEF w
    <3>4. QED
      BY <1>17, <3>1, <3>3
  <2>3. QED
    BY <2>1, <2>2
<1>12. Picks(h, n, i + 1, A, B)
  BY <1>3, <1>4, <1>8, <1>9, <1>10, <1>11, <1>17, Zenon DEF Picks, c, p, z
<1>13. QED
  BY <1>12 DEF A, B, x

\* What the poller takes when it reads from n to m.
Read(h, n, m) == SubSeq(h, n + 1, m)

Upto(h, n, m) == Rest(h, n) \o Read(h, n, m)

\* The halves of a reply, and those after the open half that was read before.
LEMMA ReadTypes ==
  ASSUME NEW h, Said(h), NEW n \in 0..Len(h), NEW m \in n..Len(h)
  PROVE  /\ Read(h, n, m) \in Seq(Half)
         /\ Len(Read(h, n, m)) = m - n /\ Len(Read(h, n, m)) \in Nat
         /\ \A i \in 1..m - n : Read(h, n, m)[i] = h[n + i]
         /\ Rest(h, n) \in Seq(Half) /\ Len(Rest(h, n)) = Open(h, n)
         /\ Upto(h, n, m) \in Seq(Half)
         /\ Len(Upto(h, n, m)) = Open(h, n) + (m - n) /\ Len(Upto(h, n, m)) \in Nat
         /\ \A i \in 1..m - n : Upto(h, n, m)[Open(h, n) + i] = h[n + i]
         /\ Open(h, n) = 1 => Upto(h, n, m)[1] = h[n] /\ ~ h[n].end /\ Rest(h, n)[1] = h[n]
         /\ Open(h, n) = 0 => Upto(h, n, m) = Read(h, n, m) /\ Rest(h, n) = <<>>
<1> DEFINE t == Read(h, n, m)
           w == Open(h, n)
           r == Rest(h, n)
           all == Upto(h, n, m)
<1>0. h \in Seq(Half) /\ n \in Nat /\ m \in Nat /\ n <= m /\ m <= Len(h) /\ Len(h) \in Nat
  BY SaidTypes DEF Said
<1>1. t \in Seq(Half) /\ Len(t) = m - n /\ \A i \in 1..m - n : t[i] = h[n + i]
  <2>1. \A i \in n + 1..m : h[i] \in Half
    BY <1>0, SaidTypes
  <2>2. n + 1 \in Int /\ m \in Int
    BY <1>0
  <2>3. /\ SubSeq(h, n + 1, m) \in Seq(Half)
        /\ Len(SubSeq(h, n + 1, m)) = IF n + 1 <= m THEN m - (n + 1) + 1 ELSE 0
        /\ \A i \in 1..m - (n + 1) + 1 : SubSeq(h, n + 1, m)[i] = h[n + 1 + i - 1]
    BY <2>1, <2>2, SubSeqProperties
  <2>4. m - (n + 1) + 1 = m - n /\ \A i \in 1..m - n : n + 1 + i - 1 = n + i
    BY <1>0
  <2>5. t = SubSeq(h, n + 1, m)
    BY DEF Read
  <2> HIDE DEF t
  <2>6. Len(t) = m - n
    BY <1>0, <2>3, <2>4, <2>5
  <2>7. \A i \in 1..m - n : t[i] = h[n + i]
    BY <2>3, <2>4, <2>5, Zenon
  <2>8. QED
    BY <2>3, <2>5, <2>6, <2>7
<1>2. /\ r \in Seq(Half) /\ Len(r) = w
      /\ w = 1 => r[1] = h[n] /\ ~ h[n].end
      /\ w = 0 => r = <<>>
  <2>1. CASE n > 0 /\ ~ h[n].end
    <3>1. r = <<h[n]>> /\ w = 1 /\ h[n] \in Half
      BY <1>0, <2>1, SaidTypes DEF Rest, Open
    <3>2. QED
      BY <2>1, <3>1
  <2>2. CASE ~ (n > 0 /\ ~ h[n].end)
    <3>1. r = <<>> /\ w = 0
      BY <2>2 DEF Rest, Open
    <3>2. QED
      BY <3>1
  <2>3. QED
    BY <2>1, <2>2
<1>3. w \in {0, 1}
  BY SaidTypes
<1> HIDE DEF t, w, r
<1>4. /\ all \in Seq(Half) /\ Len(all) = w + (m - n)
      /\ \A i \in 1..m - n : all[w + i] = h[n + i]
      /\ w = 1 => all[1] = r[1]
  <2>1. /\ all \in Seq(Half) /\ Len(all) = Len(r) + Len(t)
        /\ \A i \in 1..Len(r) + Len(t) : all[i] = IF i <= Len(r) THEN r[i] ELSE t[i - Len(r)]
    <3>1. all = r \o t
      BY DEF all, r, t, Upto
    <3> HIDE DEF all
    <3>2. r \in Seq(Half) /\ t \in Seq(Half)
      BY <1>1, <1>2
    <3>3. QED
      BY <3>1, <3>2, ConcatProperties
  <2> HIDE DEF all
  <2>2. ASSUME NEW i \in 1..m - n PROVE all[w + i] = h[n + i]
    <3> DEFINE k == w + i
    <3>1. k \in 1..Len(r) + Len(t) /\ ~ (k <= Len(r)) /\ k - Len(r) = i
      BY <1>0, <1>1, <1>2, <1>3
    <3> HIDE DEF k
    <3>2. all[k] = t[i]
      BY <2>1, <3>1
    <3>3. QED
      BY <1>1, <3>2 DEF k
  <2>3. w = 1 => 1 \in 1..Len(r) + Len(t) /\ 1 <= Len(r)
    BY <1>0, <1>1, <1>2
  <2>4. QED
    BY <1>1, <1>2, <2>1, <2>2, <2>3
<1>5. w = 0 => all = t
  <2>1. all = r \o t
    BY DEF all, r, t, Upto
  <2> HIDE DEF all
  <2>2. QED
    BY <1>1, <1>2, <2>1, ConcatEmptySeq
<1> HIDE DEF all
<1>7. Len(t) \in Nat /\ Len(all) \in Nat
  BY <1>0, <1>1, <1>3, <1>4
<1>8. w = 1 => all[1] = h[n] /\ ~ h[n].end /\ r[1] = h[n]
  BY <1>2, <1>4
<1>9. w = 0 => all = t /\ r = <<>>
  BY <1>2, <1>5
<1>6. QED
  BY <1>1, <1>2, <1>4, <1>7, <1>8, <1>9, Zenon DEF t, w, r, all

\* What OnlyAt picks of a reply, by the least length at which it would not.
LEMMA AllPicks ==
  ASSUME NEW h, Said(h), NEW n \in 0..Len(h), NEW m \in n..Len(h)
  PROVE  Picks(h, n, m, OnlyAt(Read(h, n, m), Starts(Read(h, n, m))),
                        OnlyAt(Upto(h, n, m), Ends(Upto(h, n, m))))
<1> DEFINE t == Read(h, n, m)
           w == Open(h, n)
           all == Upto(h, n, m)
<1>0. h \in Seq(Half) /\ n \in Nat /\ m \in Nat /\ n <= m /\ m <= Len(h) /\ Len(h) \in Nat
  BY SaidTypes DEF Said
<1>1. /\ t \in Seq(Half) /\ Len(t) = m - n /\ DOMAIN t = 1..m - n
      /\ all \in Seq(Half) /\ Len(all) = w + (m - n) /\ DOMAIN all = 1..w + (m - n)
      /\ \A i \in 1..m - n : t[i] = h[n + i] /\ all[w + i] = h[n + i]
      /\ w = 1 => all[1] = h[n] /\ ~ h[n].end
      /\ w \in {0, 1}
  <2>1. /\ t \in Seq(Half) /\ Len(t) = m - n
        /\ \A i \in 1..m - n : t[i] = h[n + i]
        /\ all \in Seq(Half) /\ Len(all) = w + (m - n)
        /\ \A i \in 1..m - n : all[w + i] = h[n + i]
        /\ w = 1 => all[1] = h[n] /\ ~ h[n].end
    BY ReadTypes
  <2>2. w \in {0, 1}
    BY SaidTypes
  <2> HIDE DEF t, w, all
  <2>3. DOMAIN t = 1..m - n /\ DOMAIN all = 1..w + (m - n)
    BY <2>1
  <2>4. QED
    BY <2>1, <2>2, <2>3
<1> HIDE DEF t, w, all
<1>10. Len(t) \in Nat /\ Len(all) \in Nat
  BY <1>1
<1>2. PICK f : Selects(f, t, Starts(t)) /\ OnlyAt(t, Starts(t)) = f[Len(t)]
  BY <1>10, OnlyAtSteps
<1>3. PICK g : Selects(g, all, Ends(all)) /\ OnlyAt(all, Ends(all)) = g[Len(all)]
  BY <1>10, OnlyAtSteps
<1> DEFINE Good(i) == Picks(h, n, n + i, f[i], g[w + i])
           Bad == {i \in 0..m - n : ~ Good(i)}
<1>4. Good(0)
  <2>1. g[w] = <<>>
    <3>1. w = 1 => 1 \notin Ends(all) /\ 1 \in 1..Len(all)
      BY <1>0, <1>1 DEF Ends
    <3>2. g[0] = <<>>
      BY <1>3 DEF Selects
    <3>3. ASSUME w = 1 PROVE g[1] = <<>>
      <4>1. g[1] = IF 1 \in Ends(all) THEN Append(g[1 - 1], all[1]) ELSE g[1 - 1]
        BY <1>3, <3>1, <3>3 DEF Selects
      <4>2. g[1] = g[0]
        BY <3>1, <3>3, <4>1
      <4>3. QED
        BY <3>2, <4>2
    <3>4. QED
      BY <1>1, <3>2, <3>3
  <2>2. n + 0 = n /\ w + 0 = w
    BY <1>0, <1>1
  <2>3. Picks(h, n, n, <<>>, <<>>)
    <3>1. <<>> \in Seq(Half) /\ Len(<<>>) = 0
      OBVIOUS
    <3>2. n > 0 => h[n].line = Lines(h, n) + Open(h, n) + 0
      <4>1. n > 0 => h[n].line \in Nat
        BY <1>0, SaidTypes
      <4>2. QED
        BY <4>1 DEF Lines, Open
    <3>3. QED
      BY <3>1, <3>2 DEF Picks
  <2>4. QED
    BY <1>2, <2>1, <2>2, <2>3 DEF Selects
<1>5. ASSUME NEW i \in 0..m - n, i + 1 \in 0..m - n, Good(i) PROVE Good(i + 1)
  <2> DEFINE x == h[n + i + 1]
  <2>1. /\ i + 1 \in 1..m - n /\ n + (i + 1) = n + i + 1 /\ w + (i + 1) = w + i + 1
        /\ i + 1 - 1 = i /\ w + i + 1 - 1 = w + i /\ w + i + 1 \in 1..Len(all)
        /\ i + 1 \in 1..Len(t) /\ n + i \in n..Len(h) - 1
    <3>1. i \in Nat /\ i + 1 <= m - n /\ w \in Nat
      BY <1>0, <1>1, <1>5
    <3> HIDE DEF Good
    <3>2. Len(t) = m - n /\ Len(all) = w + (m - n)
      BY <1>1
    <3>3. QED
      BY <1>0, <3>1, <3>2
  <2>2. t[i + 1] = x /\ all[w + i + 1] = x
    <3>1. t[i + 1] = h[n + (i + 1)] /\ all[w + (i + 1)] = h[n + (i + 1)]
      BY <1>1, <2>1
    <3>2. QED
      BY <2>1, <3>1
  <2>3. (i + 1 \in Starts(t) <=> x.first) /\ (w + i + 1 \in Ends(all) <=> x.end)
    <3>1. i + 1 \in DOMAIN t /\ w + i + 1 \in DOMAIN all
      BY <1>1, <2>1
    <3>2. QED
      BY <2>2, <3>1 DEF Starts, Ends
  <2> HIDE DEF x
  <2>4. f[i + 1] = IF x.first THEN Append(f[i], x) ELSE f[i]
    <3>1. f[i + 1] = IF i + 1 \in Starts(t) THEN Append(f[i + 1 - 1], t[i + 1]) ELSE f[i + 1 - 1]
      BY <1>2, <2>1 DEF Selects
    <3>2. QED
      BY <2>1, <2>2, <2>3, <3>1
  <2>5. g[w + i + 1] = IF x.end THEN Append(g[w + i], x) ELSE g[w + i]
    <3> DEFINE k == w + i + 1
    <3>1. k \in 1..Len(all) /\ k - 1 = w + i /\ all[k] = x /\ (k \in Ends(all) <=> x.end)
      <4>0. i \in Nat /\ w \in Nat
        BY <1>0, <1>1
      <4>1. k \in 1..Len(all) /\ k - 1 = w + i
        BY <2>1, <4>0
      <4>2. all[k] = x
        BY <2>2
      <4>3. k \in Ends(all) <=> x.end
        BY <2>3
      <4>4. QED
        BY <4>1, <4>2, <4>3
    <3> HIDE DEF k
    <3>2. g[k] = IF k \in Ends(all) THEN Append(g[k - 1], all[k]) ELSE g[k - 1]
      BY <1>3, <3>1 DEF Selects
    <3>3. g[k] = IF x.end THEN Append(g[w + i], x) ELSE g[w + i]
      BY <3>1, <3>2
    <3>4. QED
      BY <3>3 DEF k
  <2>6. Picks(h, n, n + i + 1, IF x.first THEN Append(f[i], x) ELSE f[i],
                               IF x.end THEN Append(g[w + i], x) ELSE g[w + i])
    <3>1. Picks(h, n, n + i, f[i], g[w + i])
      BY <1>5
    <3>2. QED
      BY <2>1, <3>1, NextPicks DEF x
  <2>7. QED
    BY <2>1, <2>4, <2>5, <2>6
<1> HIDE DEF Good
<1>6. Bad = {}
  <2> SUFFICES ASSUME Bad # {} PROVE FALSE
    OBVIOUS
  <2>1. Bad \in SUBSET Nat
    OBVIOUS
  <2>2. \A i \in Bad : i \in 0..m - n /\ ~ Good(i)
    OBVIOUS
  <2>3. \A i \in 0..m - n : i \notin Bad => Good(i)
    OBVIOUS
  <2> HIDE DEF Bad
  <2>4. PICK i \in Bad : \A j \in Bad : i <= j
    BY <2>1, LeastOf
  <2>5. i # 0
    BY <1>4, <2>2
  <2>6. i - 1 \in 0..m - n /\ i - 1 \notin Bad /\ i - 1 + 1 = i
    BY <1>0, <2>1, <2>2, <2>4, <2>5
  <2>7. QED
    BY <1>5, <2>2, <2>3, <2>6
<1>7. Good(m - n)
  <2>1. m - n \in 0..m - n
    BY <1>0
  <2>2. QED
    BY <1>6, <2>1, Zenon
<1>8. n + (m - n) = m /\ Len(t) = m - n /\ Len(all) = w + (m - n)
  BY <1>0, <1>1
<1>9. QED
  BY <1>2, <1>3, <1>7, <1>8 DEF Good, t, all, w

\* The poller's counts of lines add up.
LEMMA LinesAdd ==
  ASSUME NEW h, Said(h), NEW n \in 0..Len(h), NEW m \in n..Len(h), NEW a, NEW b, Picks(h, n, m, a, b)
  PROVE  /\ Lines(h, m) = Lines(h, n) + Len(b)
         /\ Lines(h, m) + Open(h, m) = Lines(h, n) + Open(h, n) + Len(a)
<1> DEFINE u == Lines(h, n)
           v == Lines(h, m)
           p == Open(h, n)
           q == Open(h, m)
           x == h[m]
           y == Len(a)
           z == Len(b)
<1>1. n \in Nat /\ m \in Nat /\ n <= m /\ (m > 0 => m \in 1..Len(h)) /\ m \in 0..Len(h)
  BY SaidTypes
<1>2. u \in Nat /\ v \in Nat /\ p \in Nat /\ q \in Nat
  <2>1. Lines(h, n) \in Nat /\ Open(h, n) \in {0, 1}
    BY SaidTypes
  <2>2. Lines(h, m) \in Nat /\ Open(h, m) \in {0, 1}
    BY <1>1, SaidTypes
  <2>3. QED
    BY <2>1, <2>2
<1>3. y \in Nat /\ z \in Nat /\ y + p = z + q /\ (m > 0 => x.line = u + p + y)
  BY DEF Picks
<1>4. /\ m > 0 => v = (IF x.end THEN x.line ELSE x.line - 1) /\ q = (IF x.end THEN 0 ELSE 1)
      /\ m > 0 => x.line \in Nat
  BY <1>1, SaidTypes DEF Lines, Open
<1>5. CASE m > 0
  <2> HIDE DEF u, v, p, q, x, y, z
  <2>1. v + q = x.line
    BY <1>4, <1>5
  <2>2. v + q = u + p + y /\ v = u + z
    BY <1>2, <1>3, <1>5, <2>1
  <2>3. QED
    BY <2>2 DEF u, v, p, q, y, z
<1>6. CASE m = 0
  <2>1. n = 0 /\ u = 0 /\ v = 0 /\ p = 0 /\ q = 0
    BY <1>1, <1>6 DEF Lines, Open
  <2>2. z = 0
    <3>1. \A k \in 1..z : \E j \in 1..m : TRUE
      BY DEF Picks
    <3> HIDE DEF z
    <3>2. ~ (1 \in 1..z)
      BY <1>6, <3>1
    <3>3. QED
      BY <1>3, <3>2
  <2>3. y = 0
    BY <1>3, <2>1, <2>2
  <2>4. QED
    BY <2>1, <2>2, <2>3
<1>7. QED
  BY <1>1, <1>5, <1>6

\* Times of halves are times, one each.
LEMMA TimesTypes ==
  ASSUME NEW text \in Seq(Half)
  PROVE  LET t == [i \in DOMAIN text |-> text[i].at] IN
         /\ t \in Seq(Nat) /\ Len(t) = Len(text) /\ Len(text) \in Nat
         /\ \A i \in 1..Len(text) : t[i] = text[i].at
<1> DEFINE t == [i \in DOMAIN text |-> text[i].at]
<1>1. DOMAIN text = 1..Len(text) /\ Len(text) \in Nat /\ \A i \in 1..Len(text) : text[i] \in Half
  OBVIOUS
<1>2. \A i \in 1..Len(text) : text[i].at \in Nat
  BY <1>1 DEF Half
<1>3. DOMAIN t = 1..Len(text) /\ \A i \in 1..Len(text) : t[i] = text[i].at
  BY <1>1
<1>4. t \in [1..Len(text) -> Nat]
  BY <1>1, <1>2
<1> HIDE DEF t
<1>5. t \in Seq(Nat) /\ Len(t) = Len(text)
  <2> DEFINE k == Len(text)
  <2>1. k \in Nat /\ t \in [1..k -> Nat]
    BY <1>1, <1>4
  <2> HIDE DEF k
  <2>2. t \in Seq(Nat)
    BY <2>1, SeqDef
  <2>3. DOMAIN t = 1..k /\ DOMAIN t = 1..Len(t) /\ Len(t) \in Nat
    BY <2>1, <2>2, LenProperties
  <2>4. Len(t) = k
    BY <2>1, <2>3
  <2>5. QED
    BY <2>2, <2>4 DEF k
<1>6. QED
  BY <1>1, <1>3, <1>5 DEF t

\* What is left open is what the last half read leaves open.
LEMMA TailOfReply ==
  ASSUME NEW h, Said(h), NEW n \in 0..Len(h), NEW m \in n..Len(h)
  PROVE  OpenTail(Upto(h, n, m)) = Rest(h, m)
<1> DEFINE all == Upto(h, n, m)
           w == Open(h, n)
<1>1. n \in Nat /\ m \in Nat /\ n <= m /\ w \in {0, 1} /\ (m > 0 => m \in 1..Len(h))
  BY SaidTypes
<1>2. /\ all \in Seq(Half) /\ Len(all) = w + (m - n)
      /\ \A i \in 1..m - n : all[w + i] = h[n + i]
      /\ w = 1 => all[1] = h[n] /\ ~ h[n].end
  <2>1. all \in Seq(Half) /\ Len(all) = w + (m - n)
    BY ReadTypes
  <2>2. \A i \in 1..m - n : all[w + i] = h[n + i]
    BY ReadTypes
  <2>3. w = 1 => all[1] = h[n] /\ ~ h[n].end
    BY ReadTypes
  <2>4. QED
    BY <2>1, <2>2, <2>3
<1> HIDE DEF all
<1>3. CASE n < m
  <2>1. m - n \in 1..m - n /\ n + (m - n) = m /\ Len(all) > 0 /\ m > 0
    <3> HIDE DEF w
    <3>1. m - n \in 1..m - n /\ n + (m - n) = m /\ m > 0
      BY <1>1, <1>3
    <3>2. Len(all) > 0
      BY <1>1, <1>2, <1>3
    <3>3. QED
      BY <3>1, <3>2
  <2>2. all[Len(all)] = h[m] /\ all # <<>>
    <3>1. all[w + (m - n)] = h[n + (m - n)]
      BY <1>2, <2>1
    <3>2. QED
      BY <1>2, <2>1, <3>1
  <2>3. Last(all) = h[m]
    BY <2>2 DEF Last
  <2>4. QED
    BY <2>1, <2>2, <2>3 DEF OpenTail, Rest, all
<1>4. CASE n = m /\ w = 1
  <2>1. Len(all) = 1 /\ all[1] = h[m] /\ ~ h[m].end /\ all # <<>>
    <3> HIDE DEF w
    <3>1. Len(all) = 1
      BY <1>1, <1>2, <1>4
    <3>2. all # <<>>
      <4> SUFFICES ASSUME all = <<>> PROVE FALSE
        OBVIOUS
      <4>1. Len(all) = 0
        OBVIOUS
      <4>2. QED
        BY <3>1, <4>1
    <3>3. all[1] = h[m] /\ ~ h[m].end
      BY <1>2, <1>4
    <3>4. QED
      BY <3>1, <3>2, <3>3
  <2>2. Last(all) = h[m]
    BY <2>1 DEF Last
  <2>3. m > 0
    BY <1>1, <1>4 DEF Open
  <2>4. QED
    BY <2>1, <2>2, <2>3 DEF OpenTail, Rest, all
<1>5. CASE n = m /\ w = 0
  <2>1. Len(all) = 0
    BY <1>1, <1>2, <1>5
  <2>2. all = <<>>
    BY <1>2, <2>1
  <2>3. Rest(h, m) = <<>>
    BY <1>5 DEF Open, Rest
  <2>4. QED
    BY <2>2, <2>3 DEF OpenTail, all
<1>6. QED
  BY <1>1, <1>3, <1>4, <1>5

\* The half left open starts the line after those that are complete.
LEMMA OpenHalf ==
  ASSUME NEW h, Said(h), NEW m \in 0..Len(h)
  PROVE  /\ Open(h, m) = 1 => m \in 1..Len(h) /\ h[m].first /\ h[m].line = Lines(h, m) + 1
                              /\ Rest(h, m) = <<h[m]>>
         /\ Open(h, m) # 1 => Open(h, m) = 0 /\ Rest(h, m) = <<>>
<1>1. CASE Open(h, m) = 1
  <2>1. m > 0 /\ ~ h[m].end
    BY <1>1 DEF Open
  <2>2. m \in 1..Len(h)
    BY <2>1, SaidTypes
  <2>3. h[m].first
    BY <2>1, <2>2 DEF Said
  <2>4. h[m].line \in Nat
    BY <2>2, SaidTypes
  <2>5. QED
    BY <1>1, <2>1, <2>2, <2>3, <2>4 DEF Lines, Rest
<1>2. CASE Open(h, m) # 1
  BY <1>2 DEF Open, Rest
<1>3. QED
  BY <1>1, <1>2

\* The lines that the poller has of the halves after n once it has read up to m.
Spoken(h, n, m, last) == Completed(Upto(h, n, m), last)

\* A reply tells the lines after those already told, each once, up to those it completes.
LEMMA LinesOfReply ==
  ASSUME NEW h, Said(h), NEW n \in 0..Len(h), NEW m \in n..Len(h), NEW last \in BOOLEAN
  PROVE  /\ Spoken(h, n, m, last) \in Seq(Half) /\ Len(Spoken(h, n, m, last)) \in Nat
         /\ Lines(h, n) + Len(Spoken(h, n, m, last)) = Told(h, m, last)
         /\ \A k \in 1..Len(Spoken(h, n, m, last)) :
              Spoken(h, n, m, last)[k].line = Lines(h, n) + k
<1> DEFINE a == OnlyAt(Read(h, n, m), Starts(Read(h, n, m)))
           b == OnlyAt(Upto(h, n, m), Ends(Upto(h, n, m)))
           lines == Spoken(h, n, m, last)
           c == Lines(h, n)
           q == Open(h, m)
           r == Rest(h, m)
<1>1. Picks(h, n, m, a, b)
  BY AllPicks
<1>2. OpenTail(Upto(h, n, m)) = r
  BY TailOfReply
<1>3. lines = b \o (IF last THEN r ELSE <<>>)
  BY <1>2 DEF Completed, Spoken
<1>4. m \in 0..Len(h)
  BY SaidTypes
<1>5. /\ c \in Nat /\ Lines(h, m) \in Nat /\ q \in {0, 1}
      /\ Lines(h, m) = c + Len(b)
  <2> HIDE DEF a, b
  <2>1. c \in Nat /\ Lines(h, m) \in Nat /\ q \in {0, 1}
    BY <1>4, SaidTypes
  <2>2. Lines(h, m) = c + Len(b)
    BY <1>1, LinesAdd
  <2>3. QED
    BY <2>1, <2>2
<1>6. /\ q = 1 => r = <<h[m]>> /\ h[m].line = Lines(h, m) + 1 /\ h[m] \in Half
      /\ q = 0 => r = <<>>
  BY <1>4, OpenHalf, SaidTypes
<1>7. /\ b \in Seq(Half) /\ Len(b) \in Nat
      /\ \A k \in 1..Len(b) : b[k].line = c + k
  <2> HIDE DEF a, b
  <2>1. b \in Seq(Half) /\ \A k \in 1..Len(b) : \E j \in 1..m : b[k] = h[j] /\ h[j].line = Lines(h, n) + k
    BY <1>1 DEF Picks
  <2>2. Len(b) \in Nat
    BY <2>1
  <2>3. ASSUME NEW k \in 1..Len(b) PROVE b[k].line = c + k
    <3>1. PICK j \in 1..m : b[k] = h[j] /\ h[j].line = Lines(h, n) + k
      BY <2>1
    <3>2. QED
      BY <3>1
  <2>4. QED
    BY <2>1, <2>2, <2>3
<1>8. CASE last /\ q = 1
  <2> HIDE DEF a, b, lines, c, q, r
  <2> DEFINE x == h[m]
  <2>1. x \in Half /\ lines = b \o <<x>> /\ x.line = c + Len(b) + 1
    BY <1>3, <1>5, <1>6, <1>8
  <2> HIDE DEF x
  <2>2. /\ lines \in Seq(Half) /\ Len(lines) = Len(b) + 1
        /\ \A k \in 1..Len(b) : lines[k] = b[k]
        /\ lines[Len(b) + 1] = x
    BY <1>7, <2>1
  <2>3. ASSUME NEW k \in 1..Len(lines) PROVE lines[k].line = c + k
    <3>1. CASE k \in 1..Len(b)
      BY <1>7, <2>2, <3>1
    <3>2. CASE k \notin 1..Len(b)
      <4>1. k = Len(b) + 1
        BY <1>7, <2>2, <3>2
      <4>2. QED
        BY <1>5, <1>7, <2>1, <2>2, <4>1
    <3>3. QED
      BY <3>1, <3>2
  <2>4. Told(h, m, last) = c + Len(b) + 1
    BY <1>5, <1>8 DEF Told, q
  <2>5. c + Len(lines) = Told(h, m, last) /\ Len(lines) \in Nat
    BY <1>5, <1>7, <2>2, <2>4
  <2>6. QED
    BY <2>2, <2>3, <2>5 DEF lines, c
<1>9. CASE ~ (last /\ q = 1)
  <2> HIDE DEF a, b, lines, c, q, r
  <2>1. lines = b \o <<>>
    BY <1>3, <1>5, <1>6, <1>9
  <2>2. lines = b
    BY <1>7, <2>1, ConcatEmptySeq
  <2>3. Told(h, m, last) = c + Len(b)
    BY <1>5, <1>7, <1>9 DEF Told, q
  <2>4. QED
    BY <1>7, <2>2, <2>3 DEF lines, c
<1>10. QED
  BY <1>8, <1>9

\* What joining two sequences keeps.
LEMMA Joined ==
  ASSUME NEW S, NEW s \in Seq(S), NEW t \in Seq(S)
  PROVE  /\ s \o t \in Seq(S) /\ Len(s \o t) = Len(s) + Len(t)
         /\ \A k \in 1..Len(s) : (s \o t)[k] = s[k]
         /\ \A k \in 1..Len(t) : (s \o t)[Len(s) + k] = t[k]
<1> DEFINE w == s \o t
<1>1. /\ w \in Seq(S) /\ Len(w) = Len(s) + Len(t)
      /\ \A i \in 1..Len(s) + Len(t) : w[i] = IF i <= Len(s) THEN s[i] ELSE t[i - Len(s)]
  BY ConcatProperties
<1>2. Len(s) \in Nat /\ Len(t) \in Nat
  OBVIOUS
<1> HIDE DEF w
<1>3. \A k \in 1..Len(s) : w[k] = s[k]
  BY <1>1, <1>2
<1>4. ASSUME NEW k \in 1..Len(t) PROVE w[Len(s) + k] = t[k]
  <2> DEFINE i == Len(s) + k
  <2>1. i \in 1..Len(s) + Len(t) /\ ~ (i <= Len(s)) /\ i - Len(s) = k
    BY <1>2
  <2> HIDE DEF i
  <2>2. w[i] = t[k]
    BY <1>1, <2>1
  <2>3. QED
    BY <2>2 DEF i
<1>5. QED
  BY <1>1, <1>3, <1>4 DEF w

\* The times that the poller has queued after a reply.
Queue(rx, h, n, m, timed) == rx \o RxTimes(Read(h, n, m), timed)

\* What is queued for the open line is its own time, or nothing when Core left that out.
Pending(rx, h, n) == rx \in {<<>>, Times0(Rest(h, n))}

\* Core has left out no time that is still due.
Whole(rx, h, n, timed) == rx = Times0(Rest(h, n)) /\ timed

\* A time for lines begun after n and not yet told at m, but for the first d of them:
\* that of their first half.
TimesFit(h, n, m, times, d) ==
  /\ times \in Seq(Nat) /\ Len(times) \in Nat
  /\ Lines(h, n) + d + Len(times) <= Lines(h, m) + Open(h, m)
  /\ \A k \in 1..Len(times) :
       \E j \in 1..m : h[j].first /\ h[j].line = Lines(h, n) + d + k /\ times[k] = h[j].at

\* The queue's times are those of the lines, or of the lines after the open one when its
\* time was left out.
LEMMA TimesOfReply ==
  ASSUME NEW h, Said(h), NEW n \in 0..Len(h), NEW m \in n..Len(h), NEW rx, Pending(rx, h, n),
         NEW timed \in BOOLEAN
  PROVE  \E d \in {0, 1} :
           /\ TimesFit(h, n, m, Queue(rx, h, n, m, timed), d)
           /\ Whole(rx, h, n, timed) =>
                d = 0 /\ Lines(h, n) + Len(Queue(rx, h, n, m, timed)) = Lines(h, m) + Open(h, m)
<1> DEFINE a == OnlyAt(Read(h, n, m), Starts(Read(h, n, m)))
           b == OnlyAt(Upto(h, n, m), Ends(Upto(h, n, m)))
           r == Rest(h, n)
           u == Times0(r)
           v == [i \in DOMAIN a |-> a[i].at]
           w == RxTimes(Read(h, n, m), timed)
           times == Queue(rx, h, n, m, timed)
           c == Lines(h, n)
           p == Open(h, n)
           e == Lines(h, m) + Open(h, m)
           x == Len(rx)
           y == Len(w)
           z == Len(a)
<1>1. Picks(h, n, m, a, b)
  BY AllPicks
<1>2. r \in Seq(Half) /\ Len(r) = p /\ a \in Seq(Half)
  <2> HIDE DEF a, b
  <2>1. r \in Seq(Half) /\ Len(r) = p
    BY ReadTypes
  <2>2. QED
    BY <1>1, <2>1 DEF Picks
<1>3. u \in Seq(Nat) /\ Len(u) = p /\ \A i \in 1..p : u[i] = r[i].at
  BY <1>2, TimesTypes DEF Times0
<1>4. v \in Seq(Nat) /\ Len(v) = z /\ z \in Nat /\ \A i \in 1..z : v[i] = a[i].at
  <2> HIDE DEF a
  <2>1. QED
    BY <1>2, TimesTypes
<1>5. e = c + p + z /\ c \in Nat /\ p \in {0, 1}
  <2> HIDE DEF a, b
  <2>1. e = c + p + z
    BY <1>1, LinesAdd
  <2>2. c \in Nat /\ p \in {0, 1}
    BY SaidTypes
  <2>3. QED
    BY <2>1, <2>2
<1>6. /\ rx \in Seq(Nat) /\ x \in {0, p} /\ (rx = u => x = p)
      /\ x = 0 \/ rx = u
  <2>1. rx = <<>> \/ rx = u
    BY DEF Pending
  <2>2. CASE rx = <<>>
    <3>1. x = 0
      BY <2>2
    <3>2. rx = u => x = p
      BY <1>3
    <3>3. QED
      BY <2>2, <3>1, <3>2
  <2>3. CASE rx = u
    BY <1>3, <2>3
  <2>4. QED
    BY <2>1, <2>2, <2>3
<1>7. /\ w \in Seq(Nat) /\ y \in Nat /\ y <= z /\ (timed => y = z)
      /\ \A i \in 1..y : w[i] = a[i].at
  <2>1. CASE timed
    <3>1. w = v
      BY <2>1 DEF RxTimes
    <3> HIDE DEF w, v, a
    <3>2. QED
      BY <1>4, <3>1
  <2>2. CASE ~ timed
    <3>1. w = <<>>
      BY <2>2 DEF RxTimes
    <3> HIDE DEF w, v, a
    <3>2. y = 0
      BY <3>1
    <3>3. QED
      BY <1>4, <2>2, <3>1, <3>2
  <2>3. QED
    BY <2>1, <2>2
<1>8. times = rx \o w
  BY DEF Queue
<1>9. /\ times \in Seq(Nat) /\ Len(times) = x + y
      /\ \A k \in 1..x : times[k] = rx[k]
      /\ \A k \in 1..y : times[x + k] = w[k]
  <2> HIDE DEF w, times
  <2>1. /\ rx \o w \in Seq(Nat) /\ Len(rx \o w) = Len(rx) + Len(w)
        /\ \A k \in 1..Len(rx) : (rx \o w)[k] = rx[k]
        /\ \A k \in 1..Len(w) : (rx \o w)[Len(rx) + k] = w[k]
    BY <1>6, <1>7, Joined
  <2>2. QED
    BY <1>8, <2>1, Zenon
<1> DEFINE d == p - x
           q == Len(times)
<1>10. x \in Nat /\ d \in {0, 1} /\ p = d + x /\ (rx = u => d = 0)
  <2> HIDE DEF u, p, x
  <2>1. QED
    BY <1>5, <1>6
<1>11. q \in Nat /\ q = x + y /\ c + d + q = c + p + y
  <2>1. q = x + y
    BY <1>9
  <2> HIDE DEF w, a, times, q, x, p, c, d
  <2>2. /\ c \in Nat /\ p \in {0, 1} /\ x \in Nat /\ d \in {0, 1} /\ p = d + x
    BY <1>5, <1>10
  <2>3. y \in Nat
    BY <1>7
  <2> HIDE DEF y
  <2>4. QED
    BY <2>1, <2>2, <2>3
<1>12. ASSUME NEW k \in 1..q
       PROVE  \E j \in 1..m : h[j].first /\ h[j].line = c + d + k /\ times[k] = h[j].at
  <2>1. CASE k \in 1..x
    <3>1. k = 1 /\ p = 1 /\ d = 0 /\ rx = u /\ x = 1
      <4> HIDE DEF u, p, x, d
      <4>1. QED
        BY <1>5, <1>6, <1>10, <2>1
    <3>2. n \in 1..Len(h) /\ h[n].first /\ h[n].line = c + 1 /\ r = <<h[n]>>
      <4>1. Open(h, n) = 1
        BY <3>1
      <4> HIDE DEF a, b, u, v, w, times, e, x, d, q
      <4>2. QED
        BY <4>1, OpenHalf
    <3>3. times[k] = u[1] /\ u[1] = r[1].at /\ r[1] = h[n]
      <4>1. times[k] = u[1]
        BY <1>9, <2>1, <3>1
      <4>2. u[1] = r[1].at
        BY <1>3, <3>1
      <4>3. QED
        BY <3>2, <4>1, <4>2
    <3>4. n \in 1..m
      BY <3>2, SaidTypes
    <3>5. c + d + k = c + 1
      BY <1>5, <3>1
    <3>6. QED
      BY <3>2, <3>3, <3>4, <3>5
  <2>2. CASE k \notin 1..x
    <3> DEFINE i == k - x
    <3>1. i \in 1..y /\ k = x + i /\ i \in 1..z /\ c + d + k = c + p + i
      <4> HIDE DEF x, y, z, q, p, c, d, u, v, w, a, b, e, r, times
      <4>1. z \in Nat /\ c \in Nat /\ y \in Nat /\ y <= z
        BY <1>4, <1>5, <1>7
      <4>2. x \in Nat /\ d \in {0, 1} /\ p = d + x /\ q = x + y
        BY <1>10, <1>11
      <4>3. QED
        BY <2>2, <4>1, <4>2
    <3> HIDE DEF i
    <3>2. times[k] = a[i].at
      <4>1. times[k] = w[i]
        BY <1>9, <3>1
      <4>2. w[i] = a[i].at
        BY <1>7, <3>1
      <4>3. QED
        BY <4>1, <4>2
    <3>3. PICK j \in 1..m : a[i] = h[j] /\ h[j].first /\ h[j].line = c + p + i
      <4> HIDE DEF a, b
      <4>1. QED
        BY <1>1, <3>1 DEF Picks
    <3>4. QED
      BY <3>1, <3>2, <3>3
  <2>3. QED
    BY <2>1, <2>2
<1>13. TimesFit(h, n, m, times, d)
  <2>1. c + d + q <= e
    <3> HIDE DEF c, d, q, e, p, y, z
    <3>1. QED
      BY <1>4, <1>5, <1>7, <1>11
  <2> HIDE DEF times, d
  <2>2. QED
    BY <1>9, <1>11, <1>12, <2>1 DEF TimesFit
<1>14. Whole(rx, h, n, timed) => d = 0 /\ c + q = e
  <2>1. Whole(rx, h, n, timed) => rx = u /\ timed
    BY DEF Whole
  <2> HIDE DEF c, d, q, e, p, u, x, y, z
  <2>2. QED
    BY <1>4, <1>5, <1>7, <1>10, <1>11, <2>1
<1>15. QED
  BY <1>10, <1>13, <1>14

\* Two first halves of one line are one.
LEMMA FirstsDiffer ==
  ASSUME NEW h, Said(h), NEW i \in 1..Len(h), NEW j \in 1..Len(h), h[i].first, h[j].first,
         h[i].line = h[j].line
  PROVE  i = j
<1>1. h[i].line \in Nat /\ Len(h) \in Nat
  BY SaidTypes
<1>2. ~ (i < j) /\ ~ (j < i)
  <2>1. \A x, y \in 1..Len(h) : x < y /\ h[y].first => h[x].line < h[y].line
    BY DEF Said
  <2>2. QED
    BY <1>1, <2>1
<1>3. QED
  BY <1>1, <1>2

\* A line that starts no earlier than another was not said earlier.
LEMMA FirstsAscend ==
  ASSUME NEW h, Said(h), NEW i \in 1..Len(h), NEW j \in 1..Len(h), h[i].first, h[j].first,
         h[i].line <= h[j].line
  PROVE  h[i].at <= h[j].at
<1>1. /\ h[i].line \in Nat /\ h[j].line \in Nat /\ Len(h) \in Nat
      /\ h[i].at \in Nat /\ h[j].at \in Nat
  BY SaidTypes
<1>2. CASE i = j
  BY <1>1, <1>2
<1>3. CASE i < j
  BY <1>3 DEF Said
<1>4. CASE j < i
  <2>1. h[j].line < h[i].line
    BY <1>4 DEF Said
  <2>2. QED
    BY <1>1, <2>1
<1>5. QED
  BY <1>1, <1>2, <1>3, <1>4

\* What has been read is of no line after the open one.
LEMMA ReadLines ==
  ASSUME NEW h, Said(h), NEW n \in 0..Len(h), NEW i \in 1..n
  PROVE  i \in 1..Len(h) /\ h[i].line <= Lines(h, n) + 1
<1>1. Len(h) \in Nat /\ n \in 1..Len(h) /\ i \in 1..Len(h) /\ (i < n \/ i = n)
  BY SaidTypes
<1>2. h[n].line \in Nat /\ h[i].line \in Nat
  BY <1>1, SaidTypes
<1>3. h[i].line <= h[n].line
  <2>1. i < n => h[i].line <= h[n].line
    BY <1>1 DEF Said
  <2>2. QED
    BY <1>1, <1>2, <2>1
<1>4. h[n].line <= Lines(h, n) + 1
  BY <1>1, <1>2 DEF Lines
<1>5. Lines(h, n) \in Nat
  BY SaidTypes
<1>6. QED
  BY <1>1, <1>2, <1>3, <1>4, <1>5

\* What is left of the queue once the complete lines have taken their times.
Left(rx, h, n, m, timed) ==
  SubSeq(Queue(rx, h, n, m, timed), Len(Spoken(h, n, m, FALSE)) + 1,
         Len(Queue(rx, h, n, m, timed)))

\* It is the open half's own time, or nothing when Core left times out.
LEMMA TimesLeft ==
  ASSUME NEW h, Said(h), NEW n \in 0..Len(h), NEW m \in n..Len(h), NEW rx, Pending(rx, h, n),
         NEW timed \in BOOLEAN
  PROVE  /\ Left(rx, h, n, m, timed) \in {<<>>, Times0(Rest(h, m))}
         /\ Whole(rx, h, n, timed) => Left(rx, h, n, m, timed) = Times0(Rest(h, m))
<1> DEFINE times == Queue(rx, h, n, m, timed)
           lines == Spoken(h, n, m, FALSE)
           k == Len(lines)
           z == Len(times)
           q == Open(h, m)
           left == SubSeq(times, k + 1, z)
           c == Lines(h, n)
           e == Lines(h, m)
<1>1. k \in Nat /\ c + k = e /\ c \in Nat /\ e \in Nat /\ q \in {0, 1} /\ m \in 0..Len(h) /\ m \in Nat
  <2>1. m \in 0..Len(h)
    BY SaidTypes
  <2>2. Lines(h, n) \in Nat /\ Lines(h, m) \in Nat /\ Open(h, m) \in {0, 1}
    BY <2>1, SaidTypes
  <2>3. Len(lines) \in Nat /\ Lines(h, n) + Len(lines) = Told(h, m, FALSE)
    BY LinesOfReply
  <2>4. Told(h, m, FALSE) = Lines(h, m)
    BY <2>2 DEF Told
  <2>5. m \in Nat
    BY <2>1, SaidTypes
  <2> HIDE DEF lines
  <2>6. QED
    BY <2>1, <2>2, <2>3, <2>4, <2>5
<1>2. PICK d \in {0, 1} :
        /\ times \in Seq(Nat) /\ z \in Nat /\ c + d + z <= e + q
        /\ \A i \in 1..z :
             \E j \in 1..m : h[j].first /\ h[j].line = c + d + i /\ times[i] = h[j].at
        /\ Whole(rx, h, n, timed) => c + z = e + q
  <2>1. PICK d \in {0, 1} :
          /\ TimesFit(h, n, m, times, d)
          /\ Whole(rx, h, n, timed) => d = 0 /\ c + z = e + q
    BY TimesOfReply
  <2> HIDE DEF times
  <2>2. QED
    BY <2>1 DEF TimesFit
<1>3. left = Left(rx, h, n, m, timed)
  BY DEF Left
<1> HIDE DEF times, k, z, c, e, q
<1>4. CASE z <= k
  <2>1. left = <<>>
    BY <1>1, <1>2, <1>4, SubSeqEmpty
  <2>2. Whole(rx, h, n, timed) => q = 0
    BY <1>1, <1>2, <1>4
  <2>3. q = 0 => Rest(h, m) = <<>>
    BY <1>1, OpenHalf DEF q
  <2>4. q = 0 => Times0(Rest(h, m)) = <<>>
    BY <2>3 DEF Times0
  <2> HIDE DEF left
  <2>5. QED
    BY <1>3, <2>1, <2>2, <2>4
<1>5. CASE z > k
  <2>1. z = k + 1 /\ q = 1 /\ d = 0 /\ k + 1 \in 1..z
    BY <1>1, <1>2, <1>5
  <2>2. m \in 1..Len(h) /\ h[m].first /\ h[m].line = e + 1 /\ Rest(h, m) = <<h[m]>>
    BY <1>1, <2>1, OpenHalf DEF q, e
  <2>3. PICK j \in 1..m : h[j].first /\ h[j].line = c + d + (k + 1) /\ times[k + 1] = h[j].at
    BY <1>2, <2>1
  <2>4. j \in 1..Len(h) /\ h[j].line = h[m].line
    <3>1. j \in 1..Len(h)
      BY <2>2, SaidTypes
    <3>2. c + d + (k + 1) = e + 1
      BY <1>1, <2>1
    <3>3. QED
      BY <2>2, <2>3, <3>1, <3>2
  <2>5. j = m
    BY <2>2, <2>3, <2>4, FirstsDiffer
  <2>6. left \in Seq(Nat) /\ Len(left) = 1 /\ left[1] = times[k + 1]
    BY <1>1, <1>2, <2>1 DEF z
  <2>7. Times0(Rest(h, m)) = <<h[m].at>>
    <3> DEFINE x == h[m]
    <3>1. Times0(Rest(h, m)) = [i \in DOMAIN <<x>> |-> <<x>>[i].at]
      BY <2>2 DEF Times0
    <3> HIDE DEF x
    <3>2. [i \in DOMAIN <<x>> |-> <<x>>[i].at] = <<x.at>>
      OBVIOUS
    <3>3. QED
      BY <3>1, <3>2 DEF x
  <2>8. left = <<h[m].at>>
    <3>1. left[1] = h[m].at
      BY <2>3, <2>5, <2>6
    <3> HIDE DEF left
    <3>2. QED
      BY <2>6, <3>1
  <2> HIDE DEF left
  <2>9. QED
    BY <1>3, <2>7, <2>8
<1>6. QED
  BY <1>1, <1>2, <1>4, <1>5

-----------------------------------------------------------------------------
(* The rows of a reply *)

\* The earliest start.
LEMMA OriginIsEarliest ==
  ASSUME Listened # {}, \A s \in Listened : capture[s].started \in Nat
  PROVE  /\ \E s \in Listened : Origin = capture[s].started
         /\ \A s \in Listened : Origin <= capture[s].started
         /\ Origin \in Nat
<1> DEFINE S == {capture[s].started : s \in Listened}
<1>1. S \in SUBSET Nat /\ S # {}
  OBVIOUS
<1>2. PICK u \in S : \A y \in S : u <= y
  <2> HIDE DEF S
  <2>1. QED
    BY <1>1, LeastOf
<1>3. \A s \in Listened : u <= capture[s].started
  BY <1>2
<1>4. Origin \in S /\ \A s \in Listened : Origin <= capture[s].started
  BY <1>2, <1>3 DEF Origin
<1>5. QED
  BY <1>1, <1>4

Told1(lines) == {i \in DOMAIN lines : lines[i].line \notin Blank}

\* Lines that are shown are counted on.
LEMMA ShownGrows ==
  ASSUME NEW lines \in Seq(Half)
  PROVE  /\ \A j \in 1..Len(lines) + 1 : Shown(lines, j) \in Nat
         /\ \A i \in Told1(lines) : \A j \in 1..Len(lines) + 1 :
              i < j => Shown(lines, i) < Shown(lines, j)
<1> DEFINE S(j) == {i \in 1..j - 1 : lines[i].line \notin Blank}
<1>0. Len(lines) \in Nat /\ DOMAIN lines = 1..Len(lines)
  OBVIOUS
<1>1. ASSUME NEW j \in 1..Len(lines) + 1
      PROVE  IsFiniteSet(S(j)) /\ Cardinality(S(j)) \in Nat /\ Shown(lines, j) = Cardinality(S(j))
  <2>1. IsFiniteSet(1..j - 1)
    BY <1>0, FS_Interval
  <2>2. S(j) \in SUBSET (1..j - 1)
    OBVIOUS
  <2>3. Shown(lines, j) = Cardinality(S(j))
    BY DEF Shown
  <2> HIDE DEF S
  <2>4. IsFiniteSet(S(j))
    BY <2>1, <2>2, FS_Subset
  <2>5. QED
    BY <2>3, <2>4, FS_CardinalityType
<1>2. ASSUME NEW i \in Told1(lines), NEW j \in 1..Len(lines) + 1, i < j
      PROVE  Shown(lines, i) < Shown(lines, j)
  <2>1. i \in 1..Len(lines) /\ lines[i].line \notin Blank /\ i \in 1..Len(lines) + 1
    BY <1>0 DEF Told1
  <2>2. i \in S(j) /\ i \notin S(i) /\ S(i) \subseteq S(j)
    BY <1>0, <1>2, <2>1
  <2>3. IsFiniteSet(S(i)) /\ IsFiniteSet(S(j))
    BY <1>1, <2>1
  <2> HIDE DEF S
  <2>4. Cardinality(S(i) \cup {i}) = Cardinality(S(i)) + 1
    BY <2>2, <2>3, FS_AddElement
  <2>5. S(i) \cup {i} \in SUBSET S(j)
    BY <2>2
  <2>6. Cardinality(S(i) \cup {i}) <= Cardinality(S(j))
    BY <2>3, <2>5, FS_Subset
  <2>7. Shown(lines, i) = Cardinality(S(i)) /\ Shown(lines, j) = Cardinality(S(j))
    BY <1>1, <2>1
  <2>8. Cardinality(S(i)) \in Nat /\ Cardinality(S(j)) \in Nat
    BY <1>1, <2>1
  <2>9. QED
    BY <2>4, <2>6, <2>7, <2>8
<1>3. QED
  BY <1>1, <1>2

\* The j-th line of a reply, as its row.
RowOf(s, lines, rx, j) ==
  LET timed == Anchors /\ j <= Len(rx)
  IN  Row(IF timed THEN Anchored(rx[j]) ELSE poll.ms, seq + Shown(lines, j), s, "recv",
          lines[j].line, timed)

\* LineRows has one row for each line shown.
LEMMA RowsOfLines ==
  ASSUME NEW s, NEW lines, NEW rx
  PROVE  LineRows(s, lines, rx) = {RowOf(s, lines, rx, j) : j \in Told1(lines)}
  BY DEF LineRows, RowOf, Told1

\* The fields of a row.
LEMMA RowFields ==
  ASSUME NEW ms, NEW k, NEW signal, NEW kind, NEW n, NEW core
  PROVE  /\ Row(ms, k, signal, kind, n, core).ms = ms
         /\ Row(ms, k, signal, kind, n, core).seq = k
         /\ Row(ms, k, signal, kind, n, core).signal = signal
         /\ Row(ms, k, signal, kind, n, core).kind = kind
         /\ Row(ms, k, signal, kind, n, core).n = n
         /\ Row(ms, k, signal, kind, n, core).core = core
         /\ ms \in Nat /\ k \in Nat /\ signal \in Signals /\ kind \in {"write", "recv"}
            /\ n \in Nat /\ core \in BOOLEAN => Row(ms, k, signal, kind, n, core) \in RowType
  BY DEF Row, RowType

\* The rows of the lines that the poller has once it has read from n up to m, and how
\* many of them there are.
Shows(s, rx, h, n, m, timed, last) ==
  LineRows(s, Spoken(h, n, m, last), Queue(rx, h, n, m, timed))
Counts(h, n, m, last) == Shown(Spoken(h, n, m, last), Len(Spoken(h, n, m, last)) + 1)

\* What the rows of a reply say.
LEMMA NewRows ==
  ASSUME NEW s \in Listened, NEW h, Said(h), NEW n \in 0..Len(h), NEW m \in n..Len(h),
         NEW old, Pending(old, h, n), NEW stamped \in BOOLEAN,
         NEW last \in BOOLEAN, seq \in Nat, poll.ms \in Nat, stamping \in BOOLEAN,
         Anchors => Origin \in Nat /\ \A i \in 1..Len(h) : Origin <= h[i].at
  PROVE  /\ Shows(s, old, h, n, m, stamped, last) \subseteq RowType
         /\ IsFiniteSet(Shows(s, old, h, n, m, stamped, last))
         /\ Counts(h, n, m, last) \in Nat
         /\ \A r \in Shows(s, old, h, n, m, stamped, last) :
              /\ IsRecv(r) /\ r.signal = s
              /\ seq <= r.seq /\ r.seq < seq + Counts(h, n, m, last)
              /\ r.core => Anchors
              /\ Anchors /\ Whole(old, h, n, stamped) => r.core
              /\ r.core => \E i \in 1..m : /\ h[i].first /\ r.n <= h[i].line
                                           /\ r.ms = Anchored(h[i].at)
                                           /\ Whole(old, h, n, stamped) => h[i].line = r.n
              /\ ~ r.core => r.ms = poll.ms
         /\ {r.n : r \in Shows(s, old, h, n, m, stamped, last)}
              = (Lines(h, n) + 1..Told(h, m, last)) \ Blank
         /\ \A r, q \in Shows(s, old, h, n, m, stamped, last) :
              /\ r.n < q.n => r.seq < q.seq /\ (r.core = q.core => r.ms <= q.ms)
              /\ r.n = q.n => r = q
              /\ r.seq = q.seq => r = q
<1> DEFINE lines == Spoken(h, n, m, last)
           rx == Queue(old, h, n, m, stamped)
           R == LineRows(s, lines, rx)
           k == Shown(lines, Len(lines) + 1)
           c == Lines(h, n)
           row(j) == RowOf(s, lines, rx, j)
           d == Told(h, m, last)
           whole == Whole(old, h, n, stamped)
<1>1. R = {row(j) : j \in Told1(lines)}
  BY RowsOfLines
<1>2. /\ lines \in Seq(Half) /\ Len(lines) \in Nat
      /\ c + Len(lines) = d
      /\ \A j \in 1..Len(lines) : lines[j].line = c + j
      /\ c \in Nat
  <2>1. c \in Nat
    BY SaidTypes
  <2>2. /\ lines \in Seq(Half) /\ Len(lines) \in Nat
        /\ c + Len(lines) = d
        /\ \A j \in 1..Len(lines) : lines[j].line = c + j
    BY LinesOfReply
  <2>3. QED
    BY <2>1, <2>2
<1>3. Told1(lines) = {j \in 1..Len(lines) : c + j \notin Blank}
  <2> HIDE DEF lines, c, d
  <2>1. DOMAIN lines = 1..Len(lines)
    BY <1>2
  <2>2. QED
    BY <1>2, <2>1 DEF Told1
<1>4. PICK e \in {0, 1} :
        /\ Len(rx) \in Nat
        /\ \A j \in 1..Len(rx) :
             \E i \in 1..m : h[i].first /\ h[i].line = c + e + j /\ rx[j] = h[i].at
        /\ whole => e = 0 /\ \A j \in 1..Len(lines) : j <= Len(rx)
  <2>1. PICK e \in {0, 1} :
          /\ TimesFit(h, n, m, rx, e)
          /\ whole => e = 0 /\ c + Len(rx) = Lines(h, m) + Open(h, m)
    BY TimesOfReply
  <2>2. /\ Len(rx) \in Nat
        /\ \A j \in 1..Len(rx) :
             \E i \in 1..m : h[i].first /\ h[i].line = c + e + j /\ rx[j] = h[i].at
    <3> HIDE DEF rx
    <3>1. QED
      BY <2>1 DEF TimesFit
  <2>3. Lines(h, m) \in Nat /\ Open(h, m) \in {0, 1}
    <3>1. m \in 0..Len(h)
      BY SaidTypes
    <3>2. QED
      BY <3>1, SaidTypes
  <2>4. d <= Lines(h, m) + Open(h, m)
    BY <2>3 DEF Told
  <2> DEFINE y == Lines(h, m) + Open(h, m)
             u == Len(rx)
             v == Len(lines)
  <2>5. y \in Nat /\ d <= y /\ (whole => c + u = y) /\ u \in Nat
    BY <2>1, <2>2, <2>3, <2>4
  <2> HIDE DEF lines, c, d, rx, y, whole
  <2>6. whole => v <= u
    <3> HIDE DEF u
    <3>1. QED
      BY <1>2, <2>5
  <2>7. whole => \A j \in 1..v : j <= u
    BY <1>2, <2>5, <2>6
  <2>8. QED
    BY <2>1, <2>2, <2>7
<1>5. /\ \A j \in 1..Len(lines) + 1 : Shown(lines, j) \in Nat
      /\ \A i \in Told1(lines) : \A j \in 1..Len(lines) + 1 :
           i < j => Shown(lines, i) < Shown(lines, j)
  <2> HIDE DEF lines
  <2>1. QED
    BY <1>2, ShownGrows
<1> HIDE DEF lines, c, d, rx, whole
<1>6. ASSUME NEW j \in Told1(lines)
      PROVE  /\ j \in 1..Len(lines)
             /\ row(j) \in RowType /\ IsRecv(row(j)) /\ row(j).signal = s
             /\ row(j).seq = seq + Shown(lines, j) /\ row(j).n = c + j
             /\ row(j).core => Anchors
             /\ Anchors /\ whole => row(j).core
             /\ row(j).core => \E i \in 1..m : h[i].first /\ h[i].line = c + e + j
                                               /\ row(j).ms = Anchored(h[i].at)
             /\ ~ row(j).core => row(j).ms = poll.ms
             /\ row(j).core \in BOOLEAN
  <2> DEFINE timed == Anchors /\ j <= Len(rx)
             ms == IF timed THEN Anchored(rx[j]) ELSE poll.ms
             x == Shown(lines, j)
             l == lines[j].line
  <2>1. j \in 1..Len(lines) /\ j \in 1..Len(lines) + 1
    BY <1>2, <1>3
  <2>2. (timed => Anchors) /\ (Anchors /\ whole => timed)
    BY <1>4, <2>1
  <2>3. row(j) = Row(ms, seq + x, s, "recv", l, timed)
    BY DEF RowOf
  <2>4. l = c + j /\ l \in Nat /\ x \in Nat /\ s \in Signals
    BY <1>2, <1>5, <2>1 DEF Signals
  <2>5. timed => \E i \in 1..m : h[i].first /\ h[i].line = c + e + j /\ ms = Anchored(h[i].at)
                                 /\ ms \in Nat
    <3> SUFFICES ASSUME timed
                 PROVE  \E i \in 1..m : h[i].first /\ h[i].line = c + e + j
                                        /\ ms = Anchored(h[i].at) /\ ms \in Nat
      OBVIOUS
    <3>0. j \in 1..Len(rx)
      BY <1>2, <1>4, <2>1
    <3>1. PICK i \in 1..m : h[i].first /\ h[i].line = c + e + j /\ rx[j] = h[i].at
      BY <1>4, <3>0
    <3>2. ms = Anchored(h[i].at)
      BY <3>1
    <3>3. i \in 1..Len(h)
      BY SaidTypes
    <3>4. h[i].at \in Nat /\ Origin \in Nat /\ Origin <= h[i].at
      BY <3>3, SaidTypes
    <3>5. Anchored(h[i].at) \in Nat
      BY <3>4 DEF Anchored
    <3>6. QED
      BY <3>1, <3>2, <3>5
  <2>6. ~ timed => ms = poll.ms
    OBVIOUS
  <2>7. ms \in Nat /\ timed \in BOOLEAN
    BY <2>5, <2>6
  <2>8. seq + x \in Nat
    BY <2>4
  <2> HIDE DEF ms, x, l, timed
  <2>9. /\ row(j) \in RowType /\ row(j).ms = ms /\ row(j).seq = seq + x /\ row(j).signal = s
        /\ row(j).kind = "recv" /\ row(j).n = l /\ row(j).core = timed
    <3> DEFINE z == seq + x
    <3> HIDE DEF row, z
    <3>1. Row(ms, z, s, "recv", l, timed) \in RowType
      BY <2>4, <2>7, <2>8, RowFields DEF z
    <3>2. /\ Row(ms, z, s, "recv", l, timed).ms = ms
          /\ Row(ms, z, s, "recv", l, timed).seq = z
          /\ Row(ms, z, s, "recv", l, timed).signal = s
          /\ Row(ms, z, s, "recv", l, timed).kind = "recv"
          /\ Row(ms, z, s, "recv", l, timed).n = l
          /\ Row(ms, z, s, "recv", l, timed).core = timed
      BY RowFields
    <3>3. row(j) = Row(ms, z, s, "recv", l, timed)
      BY <2>3 DEF z
    <3>4. QED
      BY <3>1, <3>2, <3>3 DEF z
  <2> HIDE DEF row
  <2>10. QED
    BY <2>1, <2>2, <2>4, <2>5, <2>6, <2>7, <2>9 DEF IsRecv, x
<1> HIDE DEF row, R
<1>7. k \in Nat
  <2>1. Len(lines) + 1 \in 1..Len(lines) + 1
    BY <1>2
  <2>2. QED
    BY <1>5, <2>1
<1> HIDE DEF k
<1>8. \A j \in Told1(lines) : Shown(lines, j) \in Nat /\ Shown(lines, j) < k
  <2>1. Len(lines) + 1 \in 1..Len(lines) + 1
    BY <1>2
  <2> SUFFICES ASSUME NEW j \in Told1(lines)
               PROVE  Shown(lines, j) \in Nat /\ Shown(lines, j) < Shown(lines, Len(lines) + 1)
    BY DEF k
  <2>2. j \in 1..Len(lines) /\ j \in 1..Len(lines) + 1 /\ j < Len(lines) + 1
    BY <1>2, <1>3
  <2>3. QED
    BY <1>5, <2>1, <2>2
<1>9. R \subseteq RowType
  BY <1>1, <1>6
<1>10. IsFiniteSet(R)
  <2>1. IsFiniteSet(1..Len(lines))
    <3> DEFINE z == Len(lines)
    <3>1. z \in Int /\ 1 \in Int
      BY <1>2
    <3> HIDE DEF z
    <3>2. IsFiniteSet(1..z)
      BY <3>1, FS_Interval
    <3>3. QED
      BY <3>2 DEF z
  <2>2. IsFiniteSet(Told1(lines))
    BY <1>3, <2>1, FS_Subset
  <2> DEFINE f == [j \in Told1(lines) |-> row(j)]
  <2>3. f \in Surjection(Told1(lines), R)
    BY <1>1 DEF Surjection
  <2> HIDE DEF f
  <2>4. QED
    BY <2>2, <2>3, FS_Surjection
<1>11. ASSUME NEW r \in R
       PROVE  /\ IsRecv(r) /\ r.signal = s /\ seq <= r.seq /\ r.seq < seq + k
              /\ r.core => Anchors
              /\ Anchors /\ whole => r.core
              /\ r.core => \E i \in 1..m : /\ h[i].first /\ r.n <= h[i].line
                                           /\ r.ms = Anchored(h[i].at)
                                           /\ whole => h[i].line = r.n
              /\ ~ r.core => r.ms = poll.ms
  <2>1. PICK j \in Told1(lines) : r = row(j)
    BY <1>1
  <2>2. seq <= r.seq /\ r.seq < seq + k
    BY <1>6, <1>7, <1>8, <2>1
  <2>3. j \in 1..Len(lines) /\ r.n = c + j /\ c \in Nat
    BY <1>2, <1>6, <2>1
  <2>4. ASSUME r.core
        PROVE  \E i \in 1..m : /\ h[i].first /\ r.n <= h[i].line /\ r.ms = Anchored(h[i].at)
                               /\ whole => h[i].line = r.n
    <3>1. PICK i \in 1..m : h[i].first /\ h[i].line = c + e + j /\ r.ms = Anchored(h[i].at)
      BY <1>6, <2>1, <2>4
    <3>2. r.n <= c + e + j /\ (whole => c + e + j = r.n)
      BY <1>2, <1>4, <2>3
    <3>3. QED
      BY <3>1, <3>2
  <2>5. QED
    BY <1>6, <2>1, <2>2, <2>4
<1>12. {r.n : r \in R} = (c + 1..d) \ Blank
  <2>1. \A r \in R : r.n \in (c + 1..d) \ Blank
    <3> SUFFICES ASSUME NEW r \in R PROVE r.n \in (c + 1..d) \ Blank
      OBVIOUS
    <3>1. PICK j \in Told1(lines) : r = row(j)
      BY <1>1
    <3>2. r.n = c + j /\ j \in 1..Len(lines) /\ c + j \notin Blank
      BY <1>3, <1>6, <3>1
    <3>3. QED
      BY <1>2, <3>2
  <2>2. ASSUME NEW x \in (c + 1..d) \ Blank PROVE \E r \in R : x = r.n
    <3>1. x - c \in 1..Len(lines) /\ c + (x - c) = x
      BY <1>2
    <3>2. x - c \in Told1(lines)
      BY <1>3, <3>1
    <3>3. row(x - c) \in R /\ row(x - c).n = x
      BY <1>1, <1>6, <3>1, <3>2
    <3>4. QED
      BY <3>3
  <2>3. QED
    BY <2>1, <2>2
<1>13. ASSUME NEW r \in R, NEW q \in R
       PROVE  /\ r.n < q.n => r.seq < q.seq /\ (r.core = q.core => r.ms <= q.ms)
              /\ r.n = q.n => r = q
              /\ r.seq = q.seq => r = q
  <2>1. PICK i \in Told1(lines) : r = row(i)
    BY <1>1
  <2>2. PICK j \in Told1(lines) : q = row(j)
    BY <1>1
  <2> DEFINE x == Shown(lines, i)
             y == Shown(lines, j)
  <2>3. /\ i \in 1..Len(lines) /\ j \in 1..Len(lines)
        /\ r.n = c + i /\ q.n = c + j /\ r.seq = seq + x /\ q.seq = seq + y
    BY <1>6, <2>1, <2>2
  <2>4. x \in Nat /\ y \in Nat
    BY <1>8
  <2>5. (i < j => x < y) /\ (j < i => y < x)
    BY SMTT(30), <1>2, <1>5, <2>3
  <2> HIDE DEF x, y
  <2>6. i = j => r = q
    BY <2>1, <2>2
  <2>7. (r.n < q.n => i < j) /\ (r.n = q.n => i = j)
    BY <1>2, <2>3
  <2>8. r.seq = q.seq => i = j
    <3>1. r.seq = q.seq => x = y
      BY <2>3, <2>4
    <3>2. QED
      BY <2>3, <2>4, <2>5, <3>1
  <2>9. i < j => r.seq < q.seq
    BY <2>3, <2>4, <2>5
  <2>11. ASSUME i < j, r.core, q.core PROVE r.ms <= q.ms
    <3>1. PICK a \in 1..m : h[a].first /\ h[a].line = c + e + i /\ r.ms = Anchored(h[a].at)
      BY <1>6, <2>1, <2>11
    <3>2. PICK b \in 1..m : h[b].first /\ h[b].line = c + e + j /\ q.ms = Anchored(h[b].at)
      BY <1>6, <2>2, <2>11
    <3>3. a \in 1..Len(h) /\ b \in 1..Len(h)
      BY SaidTypes
    <3>4. h[a].line <= h[b].line
      BY <1>2, <2>3, <2>11, <3>1, <3>2
    <3>5. h[a].at <= h[b].at /\ h[a].at \in Nat /\ h[b].at \in Nat
      BY <3>1, <3>2, <3>3, <3>4, FirstsAscend, SaidTypes
    <3>6. Anchors /\ Origin \in Nat
      BY <1>6, <2>1, <2>11
    <3> DEFINE f == h[a].at
               g == h[b].at
               o == Origin
    <3>9. f \in Nat /\ g \in Nat /\ o \in Nat /\ f <= g
      BY <3>5, <3>6
    <3> HIDE DEF f, g, o
    <3>10. f - o <= g - o
      BY <3>9
    <3>7. Anchored(h[a].at) <= Anchored(h[b].at)
      BY <3>10 DEF Anchored, f, g, o
    <3>8. QED
      BY <3>1, <3>2, <3>7
  <2>12. ASSUME ~ r.core, ~ q.core PROVE r.ms <= q.ms
    BY <1>11, <2>12
  <2>13. r.core \in BOOLEAN /\ q.core \in BOOLEAN
    BY <1>6, <2>1, <2>2
  <2>10. QED
    BY <2>6, <2>7, <2>8, <2>9, <2>11, <2>12, <2>13
<1>14. QED
  BY <1>7, <1>9, <1>10, <1>11, <1>12, <1>13 DEF R, lines, c, d, rx, k, whole, Shows, Counts

-----------------------------------------------------------------------------
(* What stays as it was *)

\* The origin stays while the starts do.
LEMMA SameOrigin ==
  ASSUME Listened # {}, \A s \in Listened : capture[s].started \in Nat,
         \A s \in Listened : capture'[s].started = capture[s].started
  PROVE  Origin' = Origin
<1> DEFINE S == {capture'[s].started : s \in Listened}
<1>1. /\ \E s \in Listened : Origin = capture[s].started
      /\ \A s \in Listened : Origin <= capture[s].started
      /\ Origin \in Nat
  BY OriginIsEarliest
<1>2. Origin \in S /\ \A s \in Listened : Origin <= capture'[s].started
  BY <1>1
<1>3. Origin' \in S /\ \A s \in Listened : Origin' <= capture'[s].started
  BY <1>2 DEF Origin
<1>4. PICK s \in Listened : Origin' = capture'[s].started
  BY <1>3
<1>5. Origin' \in Nat /\ Origin <= Origin'
  BY <1>2, <1>4
<1>6. Origin' <= Origin
  BY <1>1, <1>3
<1>7. QED
  BY <1>1, <1>5, <1>6

Extends(g, h) ==
  /\ Said(g) /\ Said(h) /\ Len(g) <= Len(h)
  /\ \A i \in 1..Len(g) : h[i] = g[i]

\* What has been read of a console stays read while it says more.
LEMMA ExtendsKeeps ==
  ASSUME NEW g, NEW h, Extends(g, h), NEW n \in 0..Len(g)
  PROVE  /\ n \in 0..Len(h) /\ Lines(h, n) = Lines(g, n) /\ Open(h, n) = Open(g, n)
         /\ Rest(h, n) = Rest(g, n)
         /\ \A last \in BOOLEAN : Told(h, n, last) = Told(g, n, last)
<1>1. Len(g) \in Nat /\ Len(h) \in Nat /\ Len(g) <= Len(h)
  BY SaidTypes DEF Extends
<1>2. n > 0 => h[n] = g[n]
  BY <1>1 DEF Extends
<1>3. Lines(h, n) = Lines(g, n) /\ Open(h, n) = Open(g, n)
  BY <1>1, <1>2 DEF Lines, Open
<1>4. Rest(h, n) = Rest(g, n)
  BY <1>1, <1>2 DEF Rest
<1>5. \A last \in BOOLEAN : Told(h, n, last) = Told(g, n, last)
  BY <1>3 DEF Told
<1>6. QED
  BY <1>1, <1>3, <1>4, <1>5

Draws == poll.pc \in {"read", "final", "stop"}

\* The poller's stamp is kept or is taken anew.
PollMoves == Draws' => (Draws /\ poll'.ms = poll.ms) \/ poll'.ms = Ms

\* Where the poller goes next takes a new stamp or keeps the one it has.
LEMMA AdvancedMoves == ASSUME EInv, Draws, poll' = Advanced \/ poll' = poll PROVE PollMoves
<1>1. DOMAIN poll = {"pc", "l", "ms", "last"}
  BY DEF EInv, Shapes
<1>2. CASE poll' = poll
  BY <1>2 DEF PollMoves, Draws
<1>3. CASE poll' = Advanced
  <2>1. \/ poll' = [poll EXCEPT !.l = @ + 1]
        \/ poll' = [poll EXCEPT !.pc = "sleep", !.ms = 0]
        \/ poll' = [poll EXCEPT !.pc = "final", !.l = 1, !.ms = Ms]
        \/ poll' = [poll EXCEPT !.pc = "stop"]
        \/ poll' = [poll EXCEPT !.pc = "final", !.l = @ + 1]
        \/ poll' = [poll EXCEPT !.pc = "done", !.ms = 0]
    BY <1>3 DEF Advanced, Draws
  <2>2. CASE poll' = [poll EXCEPT !.l = @ + 1]
    BY <1>1, <2>2 DEF PollMoves, Draws
  <2>3. CASE poll' = [poll EXCEPT !.pc = "sleep", !.ms = 0]
    BY <1>1, <2>3 DEF PollMoves, Draws
  <2>4. CASE poll' = [poll EXCEPT !.pc = "final", !.l = 1, !.ms = Ms]
    BY <1>1, <2>4 DEF PollMoves, Draws
  <2>5. CASE poll' = [poll EXCEPT !.pc = "stop"]
    BY <1>1, <2>5 DEF PollMoves, Draws
  <2>6. CASE poll' = [poll EXCEPT !.pc = "final", !.l = @ + 1]
    BY <1>1, <2>6 DEF PollMoves, Draws
  <2>7. CASE poll' = [poll EXCEPT !.pc = "done", !.ms = 0]
    BY <1>1, <2>7 DEF PollMoves, Draws
  <2>8. QED
    BY <2>1, <2>2, <2>3, <2>4, <2>5, <2>6, <2>7
<1>4. QED
  BY <1>2, <1>3

\* Nothing that a console's rows and listener depend on is undone.
Onward ==
  /\ \A s \in Listened : /\ Extends(capture[s].halves, capture'[s].halves)
                         /\ capture[s].started \in Nat
  /\ seq' \in Nat /\ seq <= seq' /\ now' \in Nat /\ now <= now' /\ stamping' = stamping
  /\ untimed \subseteq untimed'
  /\ rows # {} => t0' = t0 /\ \A s \in Listened : capture'[s].started = capture[s].started
  /\ PollMoves

\* A row of console s as RowsAreTimed has it after a step.
TimedNext(s, r) ==
  /\ PollSeq <= r.seq /\ r.seq < seq'
  /\ r.core => Anchors'
  /\ Anchors' /\ s \notin untimed' => r.core
  /\ r.core => \E i \in 1..listener'[s].next :
                 /\ capture'[s].halves[i].first /\ r.n <= capture'[s].halves[i].line
                 /\ r.ms = capture'[s].halves[i].at - Origin'
                 /\ s \notin untimed' => capture'[s].halves[i].line = r.n
  /\ ~ r.core => r.ms + t0' <= now' /\ (Draws' => r.ms <= poll'.ms)

LEMMA TimedNextIs ==
  ASSUME NEW s \in Listened, \A r \in HeardOf(s)' : TimedNext(s, r)
  PROVE  RowsAreTimed(s, listener[s], capture[s].halves, HeardOf(s))'
  BY DEF TimedNext, RowsAreTimed, Draws, Anchored

\* The times of rows stay those of their lines.
LEMMA TimesStay ==
  ASSUME XInv, Onward, NEW s \in Listened, NEW r \in HeardOf(s),
         listener'[s].next \in listener[s].next..Len(capture'[s].halves)
  PROVE  TimedNext(s, r)
<1> DEFINE g == capture[s].halves
           h == capture'[s].halves
           n == listener[s].next
           m == listener'[s].next
<1>1. /\ PollSeq <= r.seq /\ r.seq < seq
      /\ r.core => Anchors
      /\ Anchors /\ s \notin untimed => r.core
      /\ r.core => \E i \in 1..n : /\ g[i].first /\ r.n <= g[i].line /\ r.ms = Anchored(g[i].at)
                                   /\ s \notin untimed => g[i].line = r.n
      /\ ~ r.core => r.ms + t0 <= now /\ (Draws => r.ms <= poll.ms)
  BY DEF XInv, PollerKeepsUp, ListenerKeepsUp, RowsAreTimed, Draws
<1>2. r \in rows /\ r.ms \in Nat /\ r.seq \in Nat
  BY DEF HeardOf, XInv, RowsAreRows, RowType
<1>3. now \in Nat /\ t0 \in Nat /\ t0 <= now /\ seq \in Nat /\ PollSeq \in Nat
  BY DEF XInv, Clocks, RowsAreRows, PollSeq
<1>4. t0' = t0 /\ Origin' = Origin /\ Anchors' = Anchors /\ (s \notin untimed' => s \notin untimed)
  BY <1>2, SameOrigin DEF Onward, Anchors
<1>5. r.seq < seq'
  BY <1>1, <1>2, <1>3 DEF Onward
<1>6. Extends(g, h) /\ Len(g) \in Nat /\ Len(h) \in Nat /\ n \in 0..Len(g) /\ m \in n..Len(h)
  <2>1. Extends(g, h) /\ Len(g) \in Nat /\ Len(h) \in Nat
    BY SaidTypes DEF Onward, Extends
  <2>2. n \in 0..Len(g)
    BY DEF XInv, PollerKeepsUp, ListenerKeepsUp, TailIsKept
  <2>3. QED
    BY <2>1, <2>2
<1> HIDE DEF g, h, n, m
<1>7. ASSUME r.core
      PROVE  \E i \in 1..m : /\ h[i].first /\ r.n <= h[i].line /\ r.ms = h[i].at - Origin'
                             /\ s \notin untimed' => h[i].line = r.n
  <2>1. PICK i \in 1..n : /\ g[i].first /\ r.n <= g[i].line /\ r.ms = Anchored(g[i].at)
                          /\ s \notin untimed => g[i].line = r.n
    BY <1>1, <1>7
  <2>2. i \in 1..Len(g) /\ i \in 1..m
    BY <1>6
  <2>3. h[i] = g[i]
    BY <1>6, <2>2 DEF Extends
  <2>4. QED
    BY <1>4, <2>1, <2>2, <2>3 DEF Anchored
<1>8. ASSUME ~ r.core
      PROVE  r.ms + t0' <= now' /\ (Draws' => r.ms <= poll'.ms)
  <2>1. r.ms + t0 <= now /\ (Draws => r.ms <= poll.ms)
    BY <1>1, <1>8
  <2>2. r.ms <= Ms
    BY <1>2, <1>3, <2>1 DEF Ms
  <2>3. r.ms + t0' <= now'
    BY <1>2, <1>3, <1>4, <2>1 DEF Onward
  <2>4. QED
    BY <2>1, <2>2, <2>3 DEF Onward, PollMoves
<1>9. QED
  BY <1>1, <1>4, <1>5, <1>7, <1>8 DEF g, h, n, m, TimedNext

\* A console that nobody reads from now keeps its rows, and its listener or that fails.
LEMMA QuietKeepsUp ==
  ASSUME XInv, Onward, NEW s \in Listened, HeardOf(s)' = HeardOf(s),
         \/ listener'[s] = listener[s]
         \/ ~ listener[s].done
            /\ listener'[s] = [listener[s] EXCEPT !.note = TRUE, !.done = TRUE]
  PROVE  ListenerKeepsUp(s)'
<1> DEFINE g == capture[s].halves
           h == capture'[s].halves
           l == listener[s]
           k == listener'[s]
<1>0. /\ TailIsKept(s, l, g) /\ ToldIsRead(l, g, HeardOf(s)) /\ RowsInOrder(HeardOf(s))
      /\ Extends(g, h) /\ stamping' = stamping /\ untimed \subseteq untimed'
  BY DEF XInv, PollerKeepsUp, ListenerKeepsUp, Onward
<1>1. DOMAIN l = DOMAIN Fresh /\ l.done \in BOOLEAN /\ l.note \in BOOLEAN
  BY DEF XInv, EInv, Shapes
<1>2. \/ k = l
      \/ /\ ~ l.done /\ k.done /\ k.note /\ k.next = l.next
  <2>1. {"done", "note", "next"} \subseteq DOMAIN l
    BY <1>1 DEF Fresh
  <2> HIDE DEF l, k
  <2>2. ASSUME ~ l.done, k = [l EXCEPT !.note = TRUE, !.done = TRUE]
        PROVE  k.done /\ k.note /\ k.next = l.next
    BY <2>1, <2>2
  <2>3. k = l \/ (~ l.done /\ k = [l EXCEPT !.note = TRUE, !.done = TRUE])
    BY DEF k, l
  <2>4. QED
    BY <2>2, <2>3
<1>3. TailIsKept(s, l, g) => l.next \in 0..Len(g)
  BY DEF TailIsKept
<1>4. /\ l.next \in 0..Len(h) /\ Rest(h, l.next) = Rest(g, l.next)
      /\ \A last \in BOOLEAN : Told(h, l.next, last) = Told(g, l.next, last)
  BY <1>0, <1>3, ExtendsKeeps
<1>5. TailIsKept(s, listener[s], capture[s].halves)'
  <2>1. ~ l.done => /\ ~ l.note /\ l.partial = Rest(g, l.next)
                    /\ l.rx \in {<<>>, Times0(l.partial)}
                    /\ s \notin untimed => l.rx = Times0(l.partial)
    BY <1>0 DEF TailIsKept
  <2>2. k.next \in 0..Len(h)
    BY <1>2, <1>4
  <2>3. ~ k.done => /\ ~ k.note /\ k.partial = Rest(h, k.next)
                    /\ k.rx \in {<<>>, Times0(k.partial)}
                    /\ s \notin untimed' => k.rx = Times0(k.partial)
    BY <1>0, <1>2, <1>4, <2>1
  <2>4. QED
    BY <2>2, <2>3 DEF TailIsKept, Times0
<1>6. ToldIsRead(listener[s], capture[s].halves, HeardOf(s))'
  <2>1. {r.n : r \in HeardOf(s)} = (1..Told(g, l.next, l.done /\ ~ l.note)) \ Blank
    BY <1>0 DEF ToldIsRead
  <2>2. (l.done /\ ~ l.note) \in BOOLEAN
    BY <1>1
  <2>3. Told(h, k.next, k.done /\ ~ k.note) = Told(g, l.next, l.done /\ ~ l.note)
    BY <1>2, <1>4, <2>2
  <2>4. QED
    BY <2>1, <2>3 DEF ToldIsRead
<1>7. RowsInOrder(HeardOf(s))'
  BY <1>0 DEF RowsInOrder
<1>8. RowsAreTimed(s, listener[s], capture[s].halves, HeardOf(s))'
  <2>1. k.next \in l.next..Len(h)
    BY <1>2, <1>4
  <2>2. \A r \in HeardOf(s) : TimedNext(s, r)
    BY <2>1, TimesStay
  <2>3. QED
    BY <2>2, TimedNextIs
<1>9. QED
  BY <1>5, <1>6, <1>7, <1>8 DEF ListenerKeepsUp

-----------------------------------------------------------------------------
(* A reply is read *)

\* What a reply changes when the poller reads on in it up to m.
ReadsTo(s, m, timed, last) ==
  LET h == capture[s].halves n == listener[s].next rx == listener[s].rx IN
  /\ listener'[s].next = m /\ listener'[s].done = last /\ listener'[s].note = FALSE
  /\ ~ last => /\ listener'[s].partial = Rest(h, m)
               /\ listener'[s].rx \in {<<>>, Times0(Rest(h, m))}
               /\ Whole(rx, h, n, timed) => listener'[s].rx = Times0(Rest(h, m))
  /\ untimed' = IF timed THEN untimed ELSE untimed \cup {s}
  /\ \A q \in Listened : q # s => listener'[q] = listener[q]
  /\ rows' = rows \cup Shows(s, rx, h, n, m, timed, last)
  /\ seq' = seq + Counts(h, n, m, last)
  /\ poll' = Advanced \/ poll' = poll

\* Absorb reads on to some half of what the console has said.
LEMMA ReplyIsRead ==
  ASSUME XInv, NEW s \in Listened, NEW timed \in BOOLEAN, NEW last \in BOOLEAN,
         ~ listener[s].done, Absorb(s, Reply(s), timed, last)
  PROVE  \E m \in listener[s].next..Len(capture[s].halves) : ReadsTo(s, m, timed, last)
<1> DEFINE h == capture[s].halves
           l == listener[s]
           n == l.next
           m == Min2(n + Limit, Len(h))
<1>1. Said(h) /\ Len(h) \in Nat
  BY SaidTypes DEF XInv, ConsolesSpeak
<1>2. /\ n \in 0..Len(h) /\ l.partial = Rest(h, n) /\ Pending(l.rx, h, n)
  BY DEF XInv, PollerKeepsUp, ListenerKeepsUp, TailIsKept, Pending
<1>3. m \in n..Len(h) /\ m \in Nat /\ n \in Nat
  BY <1>1, <1>2 DEF Min2
<1>4. Reply(s) = Read(h, n, m)
  BY DEF Reply, Read
<1>5. Len(Read(h, n, m)) = m - n
  <2> HIDE DEF h, l, n, m
  <2>1. QED
    BY <1>1, <1>2, <1>3, ReadTypes
<1>6. n + Len(Reply(s)) = m
  BY <1>3, <1>4, <1>5
<1>7. l.partial \o Reply(s) = Upto(h, n, m)
  BY <1>2, <1>4 DEF Upto
<1>8. l.rx \o RxTimes(Reply(s), timed) = Queue(l.rx, h, n, m, timed)
  BY <1>4 DEF Queue
<1>9. Completed(l.partial \o Reply(s), last) = Spoken(h, n, m, last)
  BY <1>7 DEF Spoken
<1>10. Unfinished(l.partial \o Reply(s)) = Rest(h, m)
  BY <1>1, <1>2, <1>3, <1>7, TailOfReply DEF Unfinished
<1> DEFINE queue == Queue(l.rx, h, n, m, timed)
<1>11. /\ listener' = [listener EXCEPT ![s] =
                        [next |-> m, total |-> Len(h), done |-> last, note |-> FALSE,
                         partial |-> IF last THEN <<>> ELSE Rest(h, m),
                         rx |-> SubSeq(queue, Len(Spoken(h, n, m, last)) + 1, Len(queue))]]
       /\ rows' = rows \cup Shows(s, l.rx, h, n, m, timed, last)
       /\ seq' = seq + Counts(h, n, m, last)
       /\ untimed' = IF timed THEN untimed ELSE untimed \cup {s}
       /\ poll' = Advanced \/ poll' = poll
  <2> HIDE DEF m, queue
  <2>1. rows' = rows \cup LineRows(s, Completed(l.partial \o Reply(s), last),
                                   l.rx \o RxTimes(Reply(s), timed))
    BY DEF Absorb
  <2>2. seq' = seq + Shown(Completed(l.partial \o Reply(s), last),
                           Len(Completed(l.partial \o Reply(s), last)) + 1)
    BY DEF Absorb
  <2>3. /\ poll' = Advanced \/ poll' = poll
        /\ untimed' = IF timed THEN untimed ELSE untimed \cup {s}
    BY DEF Absorb
  <2>4. listener' = [listener EXCEPT ![s] =
          [next |-> n + Len(Reply(s)), total |-> Len(h), done |-> last, note |-> FALSE,
           partial |-> IF last THEN <<>> ELSE Unfinished(l.partial \o Reply(s)),
           rx |-> SubSeq(l.rx \o RxTimes(Reply(s), timed),
                         Popped(Completed(l.partial \o Reply(s), last)) + 1,
                         Len(l.rx \o RxTimes(Reply(s), timed)))]]
    BY DEF Absorb
  <2>5. rows' = rows \cup Shows(s, l.rx, h, n, m, timed, last)
    BY <2>1, <1>8, <1>9 DEF Shows
  <2>6. seq' = seq + Counts(h, n, m, last)
    BY <2>2, <1>9 DEF Counts
  <2>7. Popped(Completed(l.partial \o Reply(s), last)) = Len(Spoken(h, n, m, last))
    BY <1>9 DEF Popped
  <2>9. l.rx \o RxTimes(Reply(s), timed) = queue
    BY <1>8 DEF queue
  <2> HIDE DEF l, h, n
  <2>8. QED
    BY <1>6, <1>10, <2>3, <2>4, <2>5, <2>6, <2>7, <2>9
<1>12. DOMAIN listener = Listened
  BY DEF XInv, EInv, Shapes
<1>13. ~ last =>
         /\ SubSeq(queue, Len(Spoken(h, n, m, last)) + 1, Len(queue)) \in {<<>>, Times0(Rest(h, m))}
         /\ Whole(l.rx, h, n, timed) =>
              SubSeq(queue, Len(Spoken(h, n, m, last)) + 1, Len(queue)) = Times0(Rest(h, m))
  <2> SUFFICES ASSUME ~ last
               PROVE  /\ Left(l.rx, h, n, m, timed) \in {<<>>, Times0(Rest(h, m))}
                      /\ Whole(l.rx, h, n, timed) => Left(l.rx, h, n, m, timed) = Times0(Rest(h, m))
    <3>1. ~ last => last = FALSE
      OBVIOUS
    <3>2. QED
      BY <3>1 DEF Left
  <2> HIDE DEF h, n, m
  <2>1. QED
    BY <1>1, <1>2, <1>3, TimesLeft
<1>14. ReadsTo(s, m, timed, last)
  <2> DEFINE x == SubSeq(queue, Len(Spoken(h, n, m, last)) + 1, Len(queue))
             new == [next |-> m, total |-> Len(h), done |-> last, note |-> FALSE,
                     partial |-> IF last THEN <<>> ELSE Rest(h, m), rx |-> x]
  <2>1. listener' = [listener EXCEPT ![s] = new]
    BY <1>11
  <2>2. new.next = m /\ new.done = last /\ new.note = FALSE /\ new.rx = x
        /\ (~ last => new.partial = Rest(h, m))
    <3> HIDE DEF x, m
    <3>1. QED
      OBVIOUS
  <2>3. ~ last => /\ x \in {<<>>, Times0(Rest(h, m))}
                  /\ Whole(l.rx, h, n, timed) => x = Times0(Rest(h, m))
    BY <1>13
  <2> HIDE DEF new, x, m
  <2>4. listener'[s] = new /\ \A q \in Listened : q # s => listener'[q] = listener[q]
    BY <1>12, <2>1
  <2>5. /\ rows' = rows \cup Shows(s, l.rx, h, n, m, timed, last)
        /\ seq' = seq + Counts(h, n, m, last)
        /\ untimed' = IF timed THEN untimed ELSE untimed \cup {s}
        /\ poll' = Advanced \/ poll' = poll
    BY <1>11
  <2> HIDE DEF h, n, l
  <2>6. /\ listener'[s].next = m /\ listener'[s].done = last /\ listener'[s].note = FALSE
        /\ ~ last => /\ listener'[s].partial = Rest(h, m)
                     /\ listener'[s].rx \in {<<>>, Times0(Rest(h, m))}
                     /\ Whole(l.rx, h, n, timed) => listener'[s].rx = Times0(Rest(h, m))
    BY <2>2, <2>3, <2>4
  <2>7. QED
    BY <2>4, <2>5, <2>6 DEF ReadsTo, h, n, l
<1>15. QED
  BY <1>3, <1>14

\* What a step of the poller needs of the invariant.
LEMMA ConsoleFacts ==
  ASSUME XInv, NEW s \in Listened
  PROVE  /\ Said(capture[s].halves) /\ Len(capture[s].halves) \in Nat
         /\ seq \in Nat /\ PollSeq \in Nat /\ PollSeq <= seq /\ now \in Nat /\ t0 \in Nat
         /\ stamping \in BOOLEAN
         /\ Origin \in Nat /\ \A i \in 1..Len(capture[s].halves) : Origin <= capture[s].halves[i].at
         /\ \A r \in HeardOf(s) : r \in rows /\ r \in RowType /\ r.ms \in Nat /\ r.seq \in Nat
                                  /\ r.n \in Nat /\ r.core \in BOOLEAN
<1> DEFINE h == capture[s].halves
<1>1. Said(h) /\ Len(h) \in Nat
  BY SaidTypes DEF XInv, ConsolesSpeak
<1>2. /\ seq \in Nat /\ PollSeq \in Nat /\ PollSeq <= seq /\ now \in Nat /\ t0 \in Nat
      /\ stamping \in BOOLEAN
  BY DEF XInv, RowsAreRows, Clocks, PollSeq
<1>3. \A q \in Listened : capture[q].started \in Nat
  BY DEF XInv, ConsolesSpeak
<1>4. Origin \in Nat /\ Origin <= capture[s].started
  BY <1>3, OriginIsEarliest
<1>5. ASSUME NEW i \in 1..Len(h) PROVE Origin <= h[i].at
  <2>1. capture[s].started <= h[i].at
    BY DEF XInv, ConsolesSpeak
  <2>2. h[i].at \in Nat
    BY <1>1, SaidTypes
  <2> DEFINE a == capture[s].started
             b == h[i].at
  <2>3. a \in Nat /\ b \in Nat /\ a <= b /\ Origin <= a
    BY <1>3, <1>4, <2>1, <2>2
  <2> HIDE DEF a, b
  <2>4. Origin <= b
    BY <1>4, <2>3
  <2>5. QED
    BY <2>4 DEF b
<1>6. ASSUME NEW r \in HeardOf(s)
      PROVE  r \in rows /\ r \in RowType /\ r.ms \in Nat /\ r.seq \in Nat /\ r.n \in Nat
             /\ r.core \in BOOLEAN
  BY DEF XInv, RowsAreRows, RowType, HeardOf
<1>7. QED
  BY <1>1, <1>2, <1>4, <1>5, <1>6

\* The rows of one console grow by those of its reply.
LEMMA HeardMore ==
  ASSUME NEW s \in Listened, NEW R, rows' = rows \cup R, \A r \in R : IsRecv(r) /\ r.signal = s
  PROVE  /\ HeardOf(s)' = HeardOf(s) \cup R
         /\ \A q \in Listened : q # s => HeardOf(q)' = HeardOf(q)
  BY DEF HeardOf, IsRecv

\* The read of a reply tells exactly the lines it completes, in order, at their times.
LEMMA ReadKeepsUp ==
  ASSUME XInv, Draws, NEW s \in Listened, NEW timed \in BOOLEAN, NEW last \in BOOLEAN,
         ~ listener[s].done,
         NEW m \in listener[s].next..Len(capture[s].halves), ReadsTo(s, m, timed, last),
         UNCHANGED <<now, t0, stamping>>,
         \A q \in Listened : /\ capture'[q].halves = capture[q].halves
                             /\ capture'[q].started = capture[q].started
  PROVE  /\ Onward /\ ListenerKeepsUp(s)'
         /\ \A q \in Listened : q # s => HeardOf(q)' = HeardOf(q)
<1> DEFINE h == capture[s].halves
           l == listener[s]
           n == l.next
           R == Shows(s, l.rx, h, n, m, timed, last)
           k == Counts(h, n, m, last)
           whole == Whole(l.rx, h, n, timed)
<1>1. /\ Said(h) /\ Len(h) \in Nat
      /\ seq \in Nat /\ PollSeq \in Nat /\ PollSeq <= seq /\ now \in Nat /\ t0 \in Nat
      /\ stamping \in BOOLEAN
      /\ Origin \in Nat /\ \A i \in 1..Len(h) : Origin <= h[i].at
  BY ConsoleFacts
<1>2. n \in 0..Len(h) /\ m \in n..Len(h) /\ m \in 0..Len(h) /\ Pending(l.rx, h, n)
  <2>1. n \in 0..Len(h) /\ Pending(l.rx, h, n)
    BY DEF XInv, PollerKeepsUp, ListenerKeepsUp, TailIsKept, Pending
  <2>2. QED
    BY <1>1, <2>1
<1>3. poll.ms \in Nat /\ poll.ms + t0 <= now
  BY DEF XInv, Clocks, Draws
<1>16. Anchors => Origin \in Nat /\ \A i \in 1..Len(h) : Origin <= h[i].at
  BY <1>1
<1>17. seq \in Nat /\ poll.ms \in Nat /\ stamping \in BOOLEAN /\ Said(h)
  BY <1>1, <1>3
<1>18. /\ R \subseteq RowType /\ IsFiniteSet(R) /\ k \in Nat
       /\ {r.n : r \in R} = (Lines(h, n) + 1..Told(h, m, last)) \ Blank
  <2> HIDE DEF h, l, n
  <2>1. R \subseteq RowType /\ IsFiniteSet(R)
    BY <1>2, <1>16, <1>17, NewRows
  <2>2. k \in Nat
    BY <1>2, <1>16, <1>17, NewRows
  <2>3. {r.n : r \in R} = (Lines(h, n) + 1..Told(h, m, last)) \ Blank
    BY <1>2, <1>16, <1>17, NewRows
  <2> HIDE DEF R, k
  <2>4. QED
    BY <2>1, <2>2, <2>3
<1>19. \A r \in R :
         /\ IsRecv(r) /\ r.signal = s
         /\ seq <= r.seq /\ r.seq < seq + k
         /\ r.core => Anchors
         /\ Anchors /\ whole => r.core
         /\ r.core => \E i \in 1..m : /\ h[i].first /\ r.n <= h[i].line
                                      /\ r.ms = Anchored(h[i].at)
                                      /\ whole => h[i].line = r.n
         /\ ~ r.core => r.ms = poll.ms
  <2> HIDE DEF h, l, n
  <2>1. QED
    BY <1>2, <1>16, <1>17, NewRows
<1>4. \A r, q \in R : /\ r.n < q.n => r.seq < q.seq /\ (r.core = q.core => r.ms <= q.ms)
                      /\ r.n = q.n => r = q
                      /\ r.seq = q.seq => r = q
  <2> HIDE DEF h, l, n
  <2>1. QED
    BY <1>2, <1>16, <1>17, NewRows
<1>5. rows' = rows \cup R /\ seq' = seq + k
  BY DEF ReadsTo
<1>6. /\ HeardOf(s)' = HeardOf(s) \cup R
      /\ \A q \in Listened : q # s => HeardOf(q)' = HeardOf(q)
  <2> HIDE DEF R
  <2>1. QED
    BY <1>4, <1>18, <1>19, <1>5, HeardMore
<1>7. PollMoves
  BY AdvancedMoves DEF XInv, ReadsTo
<1>8. Onward
  <2>1. \A q \in Listened : Extends(capture[q].halves, capture'[q].halves) /\ capture[q].started \in Nat
    <3> SUFFICES ASSUME NEW q \in Listened
                 PROVE  Extends(capture[q].halves, capture'[q].halves) /\ capture[q].started \in Nat
      OBVIOUS
    <3>1. Said(capture[q].halves) /\ capture[q].started \in Nat
      BY DEF XInv, ConsolesSpeak
    <3>2. Len(capture[q].halves) \in Nat /\ capture'[q].halves = capture[q].halves
      BY <3>1, SaidTypes
    <3>3. QED
      BY <3>1, <3>2 DEF Extends
  <2>2. seq' \in Nat /\ seq <= seq'
    <3> HIDE DEF k
    <3>1. QED
      BY <1>1, <1>4, <1>18, <1>19, <1>5
  <2>3. QED
    BY <1>1, <1>7, <2>1, <2>2 DEF Onward, ReadsTo
<1>9. Anchors' = Anchors /\ Origin' = Origin
  <2>1. \A q \in Listened : capture[q].started \in Nat
    BY <1>8 DEF Onward
  <2>2. Origin' = Origin
    BY <2>1, SameOrigin
  <2>3. QED
    BY <2>2 DEF Anchors
<1>10. /\ l'.next = m /\ l'.done = last /\ l'.note = FALSE
       /\ ~ last => /\ l'.partial = Rest(h, m) /\ l'.rx \in {<<>>, Times0(Rest(h, m))}
                    /\ whole => l'.rx = Times0(Rest(h, m))
  BY DEF ReadsTo
<1>20. s \notin untimed' => whole
  <2>1. s \notin untimed' => timed /\ s \notin untimed
    BY DEF ReadsTo
  <2>2. s \notin untimed => l.rx = Times0(Rest(h, n))
    BY DEF XInv, PollerKeepsUp, ListenerKeepsUp, TailIsKept
  <2>3. QED
    BY <2>1, <2>2 DEF Whole
<1>11. TailIsKept(s, listener[s], capture[s].halves)'
  <2>1. capture'[s].halves = h
    OBVIOUS
  <2> HIDE DEF h, whole
  <2>2. QED
    BY <1>2, <1>10, <1>20, <2>1 DEF TailIsKept, Times0
<1> HIDE DEF R, k, whole
<1>12. ToldIsRead(listener[s], capture[s].halves, HeardOf(s))'
  <2>1. {r.n : r \in HeardOf(s)} = (1..Told(h, n, FALSE)) \ Blank
    <3>1. ToldIsRead(l, h, HeardOf(s))
      BY DEF XInv, PollerKeepsUp, ListenerKeepsUp
    <3>2. (l.done /\ ~ l.note) = FALSE
      OBVIOUS
    <3>3. QED
      BY <3>1, <3>2 DEF ToldIsRead
  <2>2. Told(h, n, FALSE) = Lines(h, n) /\ Lines(h, n) \in Nat
    <3> HIDE DEF h, n
    <3>1. Lines(h, n) \in Nat
      BY <1>1, <1>2, SaidTypes
    <3>2. QED
      BY <3>1 DEF Told
  <2>3. Lines(h, n) <= Told(h, m, last) /\ Told(h, m, last) \in Nat
    <3> DEFINE x == Len(Spoken(h, n, m, last))
    <3>1. x \in Nat /\ Lines(h, n) + x = Told(h, m, last)
      <4> HIDE DEF h, l, n
      <4>1. QED
        BY <1>1, <1>2, LinesOfReply
    <3> HIDE DEF x
    <3>2. QED
      BY <2>2, <3>1
  <2>4. {r.n : r \in HeardOf(s)'} = {r.n : r \in HeardOf(s)} \cup {r.n : r \in R}
    BY <1>6
  <2>5. {r.n : r \in HeardOf(s)'} = (1..Told(h, m, last)) \ Blank
    <3> DEFINE x == Lines(h, n)
               y == Told(h, m, last)
    <3>1. {r.n : r \in HeardOf(s)'} = ((1..x) \ Blank) \cup ((x + 1..y) \ Blank)
      BY <1>4, <1>18, <1>19, <2>1, <2>2, <2>4
    <3>2. x \in Nat /\ y \in Nat /\ x <= y
      BY <2>2, <2>3
    <3> HIDE DEF x, y
    <3>3. (1..x) \cup (x + 1..y) = 1..y
      BY <3>2
    <3>4. {r.n : r \in HeardOf(s)'} = (1..y) \ Blank
      BY <3>1, <3>3
    <3>5. QED
      BY <3>4 DEF y
  <2>6. l'.next = m /\ (l'.done /\ ~ l'.note) = last
    BY <1>10
  <2>7. QED
    BY <2>5, <2>6 DEF ToldIsRead
<1>13. RowsAreTimed(s, listener[s], capture[s].halves, HeardOf(s))'
  <2>0. capture'[s].halves = h /\ listener'[s].next = m
    BY <1>10
  <2> SUFFICES ASSUME NEW r \in HeardOf(s)' PROVE TimedNext(s, r)
    BY TimedNextIs
  <2>1. CASE r \in HeardOf(s)
    BY <1>8, <2>0, <2>1, TimesStay
  <2>2. CASE r \in R
    <3>1. r \in RowType /\ seq <= r.seq /\ r.seq < seq + k
      BY <1>18, <1>19, <2>2
    <3>2. PollSeq <= r.seq /\ r.seq < seq'
      <4>1. r.seq \in Nat
        BY <3>1 DEF RowType
      <4>2. QED
        BY <1>1, <1>5, <3>1, <4>1
    <3>3. (r.core => Anchors') /\ (Anchors' /\ s \notin untimed' => r.core)
      BY <1>19, <1>9, <1>20, <2>2
    <3>4. r.core => \E i \in 1..m : /\ h[i].first /\ r.n <= h[i].line /\ r.ms = h[i].at - Origin'
                                    /\ s \notin untimed' => h[i].line = r.n
      BY <1>19, <1>9, <1>20, <2>2 DEF Anchored
    <3>5. ~ r.core => r.ms = poll.ms
      BY <1>19, <2>2
    <3>6. Draws' => poll.ms <= poll'.ms
      BY <1>1, <1>3, <1>7 DEF PollMoves, Ms
    <3> HIDE DEF h
    <3>7. QED
      BY <1>3, <2>0, <3>2, <3>3, <3>4, <3>5, <3>6 DEF TimedNext
  <2>3. QED
    BY <1>6, <2>1, <2>2
<1>14. RowsInOrder(HeardOf(s))'
  <2> SUFFICES ASSUME NEW r \in HeardOf(s)', NEW q \in HeardOf(s)'
               PROVE  /\ r.n < q.n => r.seq < q.seq /\ (r.core = q.core => r.ms <= q.ms)
                      /\ r.n = q.n => r = q
    BY DEF RowsInOrder
  <2>1. \A x \in HeardOf(s) :
          /\ x.seq \in Nat /\ x.seq < seq /\ x.n \in Nat /\ x.n <= Lines(h, n)
          /\ x.core \in BOOLEAN /\ (~ x.core => x.ms <= poll.ms)
          /\ x.core => \E i \in 1..n : h[i].first /\ x.ms = Anchored(h[i].at)
    <3> SUFFICES ASSUME NEW x \in HeardOf(s)
                 PROVE  /\ x.seq \in Nat /\ x.seq < seq /\ x.n \in Nat /\ x.n <= Lines(h, n)
                        /\ x.core \in BOOLEAN /\ (~ x.core => x.ms <= poll.ms)
                        /\ x.core => \E i \in 1..n : h[i].first /\ x.ms = Anchored(h[i].at)
      OBVIOUS
    <3>1. x.seq \in Nat /\ x.n \in Nat /\ x.core \in BOOLEAN
      BY ConsoleFacts
    <3>2. /\ x.seq < seq /\ (~ x.core => x.ms <= poll.ms)
          /\ x.core => \E i \in 1..n : h[i].first /\ x.ms = Anchored(h[i].at)
      BY DEF XInv, PollerKeepsUp, ListenerKeepsUp, RowsAreTimed, Draws
    <3>3. x.n \in (1..Told(h, n, FALSE)) \ Blank
      <4>1. ToldIsRead(l, h, HeardOf(s)) /\ (l.done /\ ~ l.note) = FALSE
        BY DEF XInv, PollerKeepsUp, ListenerKeepsUp
      <4>2. QED
        BY <4>1 DEF ToldIsRead
    <3>4. Told(h, n, FALSE) = Lines(h, n) /\ Lines(h, n) \in Nat
      BY <1>1, <1>2, SaidTypes DEF Told
    <3>5. x.n <= Lines(h, n)
      <4> DEFINE y == Lines(h, n)
      <4>1. x.n \in 1..y /\ y \in Nat
        BY <3>3, <3>4
      <4> HIDE DEF y
      <4>2. x.n <= y
        BY <4>1
      <4>3. QED
        BY <4>2 DEF y
    <3>6. QED
      BY <3>1, <3>2, <3>5
  <2>2. \A x \in R : /\ x.seq \in Nat /\ seq <= x.seq /\ x.n \in Nat /\ Lines(h, n) < x.n
                     /\ x.core \in BOOLEAN /\ (~ x.core => x.ms = poll.ms)
                     /\ x.core => Anchors
                     /\ x.core => \E i \in 1..m : /\ h[i].first /\ x.n <= h[i].line
                                                  /\ x.ms = Anchored(h[i].at)
    <3> SUFFICES ASSUME NEW x \in R
                 PROVE  /\ x.seq \in Nat /\ seq <= x.seq /\ x.n \in Nat /\ Lines(h, n) < x.n
                        /\ x.core \in BOOLEAN /\ (~ x.core => x.ms = poll.ms)
                        /\ x.core => Anchors
                        /\ x.core => \E i \in 1..m : /\ h[i].first /\ x.n <= h[i].line
                                                     /\ x.ms = Anchored(h[i].at)
      OBVIOUS
    <3>1. x.seq \in Nat /\ x.n \in Nat /\ x.core \in BOOLEAN
      BY <1>18 DEF RowType
    <3>2. x.n \in (Lines(h, n) + 1..Told(h, m, last)) \ Blank
      BY <1>18
    <3>3. Lines(h, n) \in Nat
      BY <1>1, <1>2, SaidTypes
    <3>4. Lines(h, n) < x.n
      <4> DEFINE y == Lines(h, n)
      <4> HIDE DEF y
      <4>1. x.n \in (y + 1..Told(h, m, last)) /\ y \in Nat
        BY <3>2, <3>3 DEF y
      <4>2. y < x.n
        BY <3>1, <4>1
      <4>3. QED
        BY <4>2 DEF y
    <3>5. QED
      BY <1>19, <3>1, <3>4
  <2>3. Lines(h, n) \in Nat
    BY <1>1, <1>2, SaidTypes
  <2>4. CASE r \in HeardOf(s) /\ q \in HeardOf(s)
    BY <2>4 DEF XInv, PollerKeepsUp, ListenerKeepsUp, RowsInOrder
  <2>5. CASE r \in HeardOf(s) /\ q \in R
    <3>1. r.n < q.n /\ r.seq < q.seq
      BY <1>1, <2>1, <2>2, <2>3, <2>5
    <3>2. ~ r.core /\ ~ q.core => r.ms <= q.ms
      BY <2>1, <2>2, <2>5
    <3>3. ASSUME r.core, q.core PROVE r.ms <= q.ms
      <4>1. PICK i \in 1..n : h[i].first /\ r.ms = Anchored(h[i].at)
        BY <2>1, <2>5, <3>3
      <4>2. PICK j \in 1..m : h[j].first /\ q.n <= h[j].line /\ q.ms = Anchored(h[j].at)
        BY <2>2, <2>5, <3>3
      <4>3. i \in 1..Len(h) /\ h[i].line <= Lines(h, n) + 1
        <5> HIDE DEF h, n
        <5>1. QED
          BY <1>1, <1>2, ReadLines
      <4>4. j \in 1..Len(h)
        BY <1>1, <1>2
      <4>5. /\ h[i].line \in Nat /\ h[j].line \in Nat /\ h[i].at \in Nat /\ h[j].at \in Nat
        <5> HIDE DEF h
        <5>1. QED
          BY <1>1, <4>3, <4>4, SaidTypes
      <4>6. h[i].line <= h[j].line
        <5> DEFINE u == h[i].line
                   v == h[j].line
                   y == Lines(h, n)
                   z == q.n
        <5>1. u \in Nat /\ v \in Nat /\ y \in Nat /\ z \in Nat /\ u <= y + 1 /\ y < z /\ z <= v
          BY <2>2, <2>3, <2>5, <4>2, <4>3, <4>5
        <5> HIDE DEF u, v, y, z
        <5>2. u <= v
          BY <5>1
        <5>3. QED
          BY <5>2 DEF u, v
      <4>7. h[i].at <= h[j].at
        <5> HIDE DEF h
        <5>1. QED
          BY <1>1, <4>1, <4>2, <4>3, <4>4, <4>6, FirstsAscend
      <4> DEFINE a == h[i].at
                 b == h[j].at
      <4>8. a \in Nat /\ b \in Nat /\ a <= b /\ r.ms = Anchored(a) /\ q.ms = Anchored(b)
        BY <4>1, <4>2, <4>5, <4>7
      <4> HIDE DEF a, b
      <4>9. QED
        BY <1>1, <4>8 DEF Anchored
    <3>4. r.core \in BOOLEAN /\ q.core \in BOOLEAN /\ r.n # q.n
      BY <3>1, <2>1, <2>2, <2>5
    <3>5. QED
      BY <3>1, <3>2, <3>3, <3>4
  <2>6. CASE r \in R /\ q \in HeardOf(s)
    <3>1. q.n < r.n /\ q.n \in Nat /\ r.n \in Nat
      BY <2>1, <2>2, <2>3, <2>6
    <3>2. QED
      BY <3>1
  <2>7. CASE r \in R /\ q \in R
    BY <1>4, <2>7
  <2>8. QED
    BY <1>6, <2>4, <2>5, <2>6, <2>7
<1>15. QED
  BY <1>6, <1>8, <1>11, <1>12, <1>13, <1>14 DEF ListenerKeepsUp

-----------------------------------------------------------------------------
(* The clocks *)

World == Tick \/ (\E s \in Listened : Receive(s)) \/ Deliver

\* Only what starts a drain takes the poller's stamp; all others keep it.
LEMMA EveryStepMoves == ASSUME XInv, [Next]_vars PROVE PollMoves
<1>0. DOMAIN poll = {"pc", "l", "ms", "last"}
  BY DEF XInv, EInv, Shapes
<1>1. CASE poll' = poll
  BY <1>1 DEF PollMoves, Draws
<1>2. CASE Wake
  <2>1. poll' = [pc |-> "read", l |-> 1, ms |-> Ms, last |-> finished]
    BY <1>2 DEF Wake
  <2>2. QED
    BY <2>1 DEF PollMoves
<1>3. CASE SkipDone \/ Drain \/ DrainLast \/ DrainFails
  <2>1. Draws
    BY <1>3 DEF SkipDone, Drain, DrainLast, DrainFails, Draining, Draws
  <2>2. poll' = Advanced \/ poll' = poll
    BY <1>3 DEF SkipDone, Drain, DrainLast, DrainFails, Absorb
  <2>3. QED
    BY <2>1, <2>2, AdvancedMoves DEF XInv
<1>4. World \/ MainStep \/ StepStep \/ UNCHANGED vars => poll' = poll
  BY DEF World, Tick, Receive, Deliver, MainStep, Refuse, Check, StartCapture, StartFails, Undo,
     Run, Assemble, StepStep, Write, StepAnswered, StepFails, StepsDone, vars, poller
<1>5. QED
  BY <1>1, <1>2, <1>3, <1>4 DEF Next, PollStep, Done, World

\* The clocks and the steps keep their bounds.
LEMMA ClocksKeep == ASSUME XInv, [Next]_vars PROVE Clocks'
<1>0. /\ now \in Nat /\ t0 \in Nat /\ t0 <= now
      /\ wire \in Nat /\ wire <= step.n /\ step.n \in 1..Len(Steps) + 1
      /\ step.pc \in {"delay", "sent", "done"} /\ DOMAIN step = {"pc", "n", "ms"}
      /\ step.pc = "sent" => step.n <= Len(Steps)
      /\ step.pc = "delay" => wire < step.n
      /\ pc \in {"check", "start", "undo"} => step.pc = "delay" /\ step.ms = 0 /\ rows = {}
      /\ step.ms \in Nat /\ step.ms + t0 <= now
      /\ stamping \in BOOLEAN
      /\ Draws => poll.ms \in Nat /\ poll.ms + t0 <= now
      /\ Len(Steps) \in Nat
  BY DEF XInv, Clocks, Draws
<1>1. PollMoves
  BY EveryStepMoves
<1>2. ASSUME t0' = t0, now' \in Nat, now <= now' PROVE Draws' => poll'.ms \in Nat /\ poll'.ms + t0' <= now'
  <2>1. CASE Draws /\ poll'.ms = poll.ms
    <3>1. poll.ms \in Nat /\ poll.ms + t0 <= now
      BY <1>0, <2>1
    <3> DEFINE k == poll.ms
    <3> HIDE DEF k
    <3>2. k \in Nat /\ k + t0 <= now => k + t0 <= now'
      BY <1>0, <1>2
    <3>3. QED
      BY <1>2, <2>1, <3>1, <3>2 DEF k
  <2>2. CASE poll'.ms = Ms
    <3>1. Ms \in Nat /\ Ms + t0 <= now'
      BY <1>0, <1>2 DEF Ms
    <3>2. QED
      BY <1>2, <2>2, <3>1
  <2>3. QED
    BY <1>1, <2>1, <2>2 DEF PollMoves
<1>3. CASE Tick
  <2>1. UNCHANGED <<t0, wire, step, pc, rows, stamping>> /\ now' = now + 1
    BY <1>3 DEF Tick, console, main, stepper
  <2>2. QED
    BY <1>0, <1>2, <2>1 DEF Clocks, Draws
<1>4. CASE (\E s \in Listened : Receive(s)) \/ UNCHANGED vars
  <2>1. UNCHANGED <<now, t0, wire, step, pc, rows, stamping>>
    BY <1>4 DEF Receive, vars, console, main, stepper
  <2>2. QED
    BY <1>0, <1>2, <2>1 DEF Clocks, Draws
<1>5. CASE Deliver
  <2>1. /\ UNCHANGED <<now, t0, step, pc, rows, stamping>> /\ wire' = step.n /\ step.pc = "sent"
    BY <1>5 DEF Deliver, main, stepper
  <2>2. QED
    BY <1>0, <1>2, <2>1 DEF Clocks, Draws
<1>6. CASE MainStep /\ ~ Run
  <2>1. /\ UNCHANGED <<now, t0, step, wire, rows, stamping>>
        /\ pc' \in {"check", "start", "undo"} => pc \in {"check", "start", "undo"}
    BY <1>6 DEF MainStep, Refuse, Check, StartCapture, StartFails, Undo, Assemble, stepper,
       console, Return
  <2>2. QED
    BY <1>0, <1>2, <2>1 DEF Clocks, Draws
<1>7. CASE Run
  <2>1. /\ UNCHANGED <<now, step, wire, rows, stamping, poll>>
        /\ t0' = now /\ pc' = "run" /\ pc = "start"
    BY <1>7 DEF Run, console, stepper, poller
  <2>2. ~ Draws'
    BY <2>1 DEF XInv, EInv, NotYetDrained, Draws
  <2>3. QED
    BY <1>0, <2>1, <2>2 DEF Clocks, Draws
<1>8. CASE Write
  <2>1. /\ UNCHANGED <<now, t0, wire, pc, stamping>> /\ pc = "run"
        /\ step' = [step EXCEPT !.pc = "sent", !.ms = Ms]
        /\ step.pc = "delay" /\ step.n <= Len(Steps)
    BY <1>8 DEF Write, console, main
  <2>2. /\ step'.pc = "sent" /\ step'.ms = Ms /\ step'.n = step.n
        /\ DOMAIN step' = {"pc", "n", "ms"}
    BY <1>0, <2>1
  <2>3. Ms \in Nat /\ Ms + t0 <= now
    BY <1>0 DEF Ms
  <2>4. QED
    BY <1>0, <1>2, <2>1, <2>2, <2>3 DEF Clocks, Draws
<1>9. CASE StepAnswered
  <2>1. /\ UNCHANGED <<now, t0, wire, pc, stamping>> /\ pc = "run"
        /\ step' = [step EXCEPT !.pc = "delay", !.n = @ + 1, !.ms = 0]
        /\ step.pc = "sent" /\ wire = step.n
    BY <1>9 DEF StepAnswered, console, main
  <2>2. /\ step'.pc = "delay" /\ step'.ms = 0 /\ step'.n = step.n + 1
        /\ DOMAIN step' = {"pc", "n", "ms"}
    BY <1>0, <2>1
  <2>3. QED
    BY <1>0, <1>2, <2>1, <2>2 DEF Clocks, Draws
<1>10. CASE StepFails \/ StepsDone
  <2>1. /\ UNCHANGED <<now, t0, wire, pc, rows, stamping>> /\ pc = "run"
        /\ step' = [step EXCEPT !.pc = "done"]
    BY <1>10 DEF StepFails, StepsDone, console, main
  <2>2. /\ step'.pc = "done" /\ step'.ms = step.ms /\ step'.n = step.n
        /\ DOMAIN step' = {"pc", "n", "ms"}
    BY <1>0, <2>1
  <2>3. QED
    BY <1>0, <1>2, <2>1, <2>2 DEF Clocks, Draws
<1>11. CASE PollStep
  <2>1. /\ UNCHANGED <<now, t0, wire, step, pc, stamping>> /\ pc = "run"
    BY <1>11 DEF PollStep, Wake, SkipDone, Drain, DrainLast, DrainFails, Draining, console, main,
       stepper
  <2>2. QED
    BY <1>0, <1>2, <2>1 DEF Clocks, Draws
<1>12. QED
  BY <1>3, <1>4, <1>5, <1>6, <1>7, <1>8, <1>9, <1>10, <1>11 DEF Next, StepStep, Done

-----------------------------------------------------------------------------
(* The consoles *)

\* Another half continues what has been said.
LEMMA SaidMore ==
  ASSUME NEW h, Said(h), NEW x \in Half,
         Len(h) = 0 => x.first /\ x.line = 1,
         Len(h) > 0 => Follows(h[Len(h)], x),
         \A i \in 1..Len(h) : h[i].at <= x.at /\ h[i].after <= x.after,
         x.first \/ x.end
  PROVE  Extends(h, Append(h, x)) /\ Len(Append(h, x)) = Len(h) + 1 /\ Append(h, x)[Len(h) + 1] = x
<1> DEFINE g == Append(h, x)
           z == Len(h)
<1>1. /\ h \in Seq(Half) /\ z \in Nat
      /\ \A i \in 1..z : h[i].line \in Nat /\ h[i].at \in Nat /\ h[i].after \in Nat
                         /\ h[i].first \in BOOLEAN /\ h[i].end \in BOOLEAN
  BY SaidTypes DEF Said
<1>2. x.line \in Nat /\ x.at \in Nat /\ x.after \in Nat /\ x.first \in BOOLEAN /\ x.end \in BOOLEAN
  BY DEF Half
<1>3. g \in Seq(Half) /\ Len(g) = z + 1 /\ (\A i \in 1..z : g[i] = h[i]) /\ g[z + 1] = x
  BY <1>1, Appends
<1> HIDE DEF g, z
<1>4. z = Len(h)
  BY DEF z
<1>5. \A i \in 1..z : h[i].line <= x.line /\ (h[i].end \/ x.first => h[i].line < x.line)
  <2> SUFFICES ASSUME NEW i \in 1..z
               PROVE  h[i].line <= x.line /\ (h[i].end \/ x.first => h[i].line < x.line)
    OBVIOUS
  <2> DEFINE y == h[z]
  <2>1. z \in 1..z /\ Follows(y, x)
    BY <1>1, <1>4
  <2>2. y.line \in Nat /\ y.end \in BOOLEAN /\ h[i].line \in Nat
    BY <1>1, <2>1
  <2>3. i < z => h[i].line <= y.line /\ (h[i].end => h[i].line < y.line)
    BY <1>4, <2>1 DEF Said
  <2>4. IF y.end THEN x.first /\ x.line = y.line + 1 ELSE ~ x.first /\ x.end /\ x.line = y.line
    BY <2>1 DEF Follows
  <2>5. i = z \/ i < z
    BY <1>1
  <2>6. CASE i = z
    <3>1. h[i] = y
      BY <2>6
    <3> HIDE DEF y
    <3>2. QED
      BY <1>2, <2>2, <2>4, <3>1
  <2>7. CASE i < z
    <3> DEFINE a == h[i].line
               b == y.line
               c == x.line
    <3>1. a \in Nat /\ b \in Nat /\ c \in Nat /\ a <= b /\ (h[i].end => a < b)
      BY <1>2, <2>2, <2>3, <2>7
    <3>2. (c = b + 1 /\ x.first) \/ (c = b /\ ~ x.first)
      BY <2>4
    <3> HIDE DEF a, b, c, y
    <3>3. a <= c /\ (h[i].end \/ x.first => a < c)
      BY <3>1, <3>2
    <3>4. QED
      BY <3>3 DEF a, c
  <2>8. QED
    BY <2>5, <2>6, <2>7
<1>6. \A i \in 1..z + 1 : i \in 1..z \/ i = z + 1
  BY <1>1
<1>7. Said(g)
  <2>1. Len(g) > 0 => g[1].first /\ g[1].line = 1
    <3>1. CASE z = 0
      BY <1>3, <1>4, <3>1
    <3>2. CASE z > 0
      <4>1. 1 \in 1..z /\ h[1].first /\ h[1].line = 1
        BY <1>1, <1>4, <3>2 DEF Said
      <4>2. QED
        BY <1>3, <4>1
    <3>3. QED
      BY <1>1, <3>1, <3>2
  <2>2. ASSUME NEW i \in 1..z + 1, i + 1 \in 1..z + 1 PROVE Follows(g[i], g[i + 1])
    <3>1. i \in 1..z
      BY <1>1, <2>2
    <3>2. CASE i + 1 \in 1..z
      <4>1. Follows(h[i], h[i + 1])
        BY <1>4, <3>1, <3>2 DEF Said
      <4>2. QED
        BY <1>3, <3>1, <3>2, <4>1
    <3>3. CASE i = z
      <4>1. Follows(h[z], x) /\ g[z] = h[z]
        BY <1>1, <1>3, <1>4, <3>1, <3>3
      <4>2. QED
        BY <1>3, <3>3, <4>1
    <3>4. QED
      BY <1>1, <3>1, <3>2, <3>3
  <2>3. ASSUME NEW i \in 1..z + 1, NEW j \in 1..z + 1, i < j
        PROVE  /\ g[i].line <= g[j].line /\ g[i].at <= g[j].at /\ g[i].after <= g[j].after
               /\ g[i].end \/ g[j].first => g[i].line < g[j].line
    <3>1. i \in 1..z /\ g[i] = h[i]
      BY <1>1, <1>3, <2>3
    <3>2. CASE j \in 1..z
      <4>1. g[j] = h[j]
        BY <1>3, <3>2
      <4>2. /\ h[i].line <= h[j].line /\ h[i].at <= h[j].at /\ h[i].after <= h[j].after
            /\ h[i].end \/ h[j].first => h[i].line < h[j].line
        BY <1>4, <2>3, <3>1, <3>2 DEF Said
      <4>3. QED
        BY <3>1, <4>1, <4>2
    <3>3. CASE j = z + 1
      <4>1. h[i].at <= x.at /\ h[i].after <= x.after
        BY <1>4, <3>1
      <4>2. QED
        BY <1>3, <1>5, <3>1, <3>3, <4>1
    <3>4. QED
      BY <1>6, <3>2, <3>3
  <2>4. ASSUME NEW i \in 1..z + 1 PROVE g[i].first \/ g[i].end
    <3>1. \A k \in 1..z : h[k].first \/ h[k].end
      BY <1>4 DEF Said
    <3>2. QED
      BY <1>3, <1>6, <3>1
  <2>5. ASSUME NEW i \in 1..z + 1 PROVE \E j \in 1..i : g[j].first /\ g[j].line = g[i].line
    <3>1. ASSUME NEW k \in 1..z PROVE \E j \in 1..k : g[j].first /\ g[j].line = g[k].line
      <4>1. PICK j \in 1..k : h[j].first /\ h[j].line = h[k].line
        BY <1>4 DEF Said
      <4>2. j \in 1..z
        BY <1>1
      <4>3. QED
        BY <1>3, <4>1, <4>2
    <3>2. CASE i = z + 1 /\ x.first
      BY <1>1, <1>3, <3>2
    <3>3. CASE i = z + 1 /\ ~ x.first
      <4>1. z \in 1..z /\ Follows(h[z], x) /\ h[z].end \in BOOLEAN
        BY <1>1, <1>4, <3>3
      <4>2. x.line = h[z].line
        BY <3>3, <4>1 DEF Follows
      <4>3. PICK j \in 1..z : g[j].first /\ g[j].line = g[z].line
        BY <3>1, <4>1
      <4>4. g[j].line = g[i].line /\ j \in 1..i
        BY <1>1, <1>3, <3>3, <4>1, <4>2, <4>3
      <4>5. QED
        BY <4>3, <4>4
    <3>4. QED
      BY <1>6, <3>1, <3>2, <3>3
  <2>6. QED
    BY <1>3, <2>1, <2>2, <2>3, <2>4, <2>5 DEF Said
<1>8. QED
  BY <1>1, <1>3, <1>4, <1>7 DEF Extends, g

\* A console that says nothing continues what it has said.
LEMMA ExtendsItself == ASSUME NEW h, Said(h) PROVE Extends(h, h)
  BY SaidTypes DEF Extends

\* A capture's record may only change its flag.
CaptureSame ==
  \A s \in Listened :
    /\ DOMAIN capture'[s] = DOMAIN capture[s]
    /\ capture'[s].halves = capture[s].halves
    /\ capture'[s].started = capture[s].started

\* The consoles' invariant holds on while no console speaks.
LEMMA SameSpeak ==
  ASSUME XInv, CaptureSame, now' \in Nat, now <= now', wire' \in Nat, wire <= wire',
         pc' = "run" \/ rows' # {} =>
           /\ t0' \in Nat /\ (t0' = t0 \/ t0' = now)
           /\ t0' = t0 => pc = "run" \/ rows # {} \/ t0' = now
  PROVE  ConsolesSpeak'
<1> SUFFICES ASSUME NEW s \in Listened
             PROVE  /\ DOMAIN capture'[s] = {"on", "started", "halves"}
                    /\ capture'[s].started \in Nat /\ capture'[s].started <= now'
                    /\ pc' = "run" \/ rows' # {} => capture'[s].started <= t0'
                    /\ Said(capture'[s].halves)
                    /\ \A i \in 1..Len(capture'[s].halves) :
                         /\ capture'[s].started <= capture'[s].halves[i].at
                         /\ capture'[s].halves[i].at <= now'
                         /\ capture'[s].halves[i].after <= wire'
  BY DEF ConsolesSpeak, Said, Half, Follows
<1> DEFINE h == capture[s].halves
           u == capture[s].started
<1>1. /\ DOMAIN capture[s] = {"on", "started", "halves"} /\ u \in Nat /\ u <= now
      /\ pc = "run" \/ rows # {} => u <= t0
      /\ Said(h)
      /\ \A i \in 1..Len(h) : u <= h[i].at /\ h[i].at <= now /\ h[i].after <= wire
      /\ now \in Nat /\ wire \in Nat /\ t0 \in Nat
  BY DEF XInv, ConsolesSpeak, Clocks
<1>2. \A i \in 1..Len(h) : h[i].at \in Nat /\ h[i].after \in Nat
  BY <1>1, SaidTypes
<1>3. capture'[s].halves = h /\ capture'[s].started = u /\ DOMAIN capture'[s] = DOMAIN capture[s]
  BY DEF CaptureSame
<1> HIDE DEF h, u
<1>4. pc' = "run" \/ rows' # {} => u <= t0'
  BY <1>1
<1>5. \A i \in 1..Len(h) : h[i].at <= now' /\ h[i].after <= wire'
  BY <1>1, <1>2
<1>6. u <= now'
  BY <1>1
<1>7. QED
  BY <1>1, <1>3, <1>4, <1>5, <1>6

\* The halves said before stay, and one that is new is said now.
HalvesGrow ==
  \A s \in Listened :
    /\ Extends(capture[s].halves, capture'[s].halves)
    /\ \A i \in 1..Len(capture'[s].halves) :
         i \in 1..Len(capture[s].halves) \/ capture'[s].halves[i].at = now'

\* A console that says nothing has no new half.
LEMMA SameGrow == ASSUME XInv, CaptureSame PROVE HalvesGrow
<1> SUFFICES ASSUME NEW s \in Listened
             PROVE  /\ Extends(capture[s].halves, capture'[s].halves)
                    /\ \A i \in 1..Len(capture'[s].halves) :
                         i \in 1..Len(capture[s].halves) \/ capture'[s].halves[i].at = now'
  BY DEF HalvesGrow
<1>1. Said(capture[s].halves) /\ capture'[s].halves = capture[s].halves
  BY DEF XInv, ConsolesSpeak, CaptureSame
<1>2. QED
  BY <1>1, ExtendsItself

\* A half received continues the line that is open, or starts the next.
LEMMA ReceiveSpeaks ==
  ASSUME XInv, NEW s \in Listened, Receive(s)
  PROVE  /\ ConsolesSpeak' /\ HalvesGrow
         /\ \A q \in Listened : capture'[q].started = capture[q].started
<1> DEFINE h == capture[s].halves
           z == Len(h)
           open == h # <<>> /\ ~ Last(h).end
           line == IF open THEN Last(h).line ELSE IF h = <<>> THEN 1 ELSE Last(h).line + 1
<1>1. /\ \A q \in Listened : /\ DOMAIN capture[q] = {"on", "started", "halves"}
                             /\ capture[q].started \in Nat /\ capture[q].started <= now
                             /\ pc = "run" \/ rows # {} => capture[q].started <= t0
                             /\ Said(capture[q].halves)
                             /\ \A i \in 1..Len(capture[q].halves) :
                                  /\ capture[q].started <= capture[q].halves[i].at
                                  /\ capture[q].halves[i].at <= now
                                  /\ capture[q].halves[i].after <= wire
      /\ now \in Nat /\ wire \in Nat /\ DOMAIN capture = Listened
  BY DEF XInv, ConsolesSpeak, Clocks, EInv, Shapes
<1>2. UNCHANGED <<now, wire, pc, t0, rows>>
  BY DEF Receive, main
<1>3. PICK end \in (IF open THEN {TRUE} ELSE BOOLEAN) :
        capture' = [capture EXCEPT ![s].halves =
                      Append(@, [line |-> line, at |-> now, after |-> wire,
                                 first |-> ~ open, end |-> end])]
  BY DEF Receive
<1> DEFINE x == [line |-> line, at |-> now, after |-> wire, first |-> ~ open, end |-> end]
           g == Append(h, x)
<1>4. Said(h) /\ z \in Nat /\ h \in Seq(Half)
  BY <1>1, SaidTypes DEF Said
<1>5. (h = <<>> <=> z = 0) /\ (z > 0 => Last(h) = h[z] /\ z \in 1..z)
  BY <1>4 DEF Last
<1>6. z > 0 => h[z].line \in Nat \ {0} /\ h[z].end \in BOOLEAN
  BY <1>4, <1>5, SaidTypes
<1>7. end \in BOOLEAN /\ (open => end = TRUE) /\ open \in BOOLEAN
  BY <1>3
<1>8. /\ z = 0 => ~ open /\ line = 1
      /\ z > 0 => (open <=> ~ h[z].end) /\ line = (IF h[z].end THEN h[z].line + 1 ELSE h[z].line)
  BY <1>4, <1>5
<1>9. line \in Nat \ {0}
  <2> HIDE DEF open, line
  <2>1. QED
    BY <1>4, <1>6, <1>8
<1> HIDE DEF open, line, h, z
<1>10. /\ x \in Half /\ x.line = line /\ x.at = now /\ x.after = wire
       /\ x.first = ~ open /\ x.end = end
  BY <1>1, <1>7, <1>9 DEF Half
<1> HIDE DEF x
<1>11. z > 0 => Follows(h[z], x)
  BY <1>6, <1>7, <1>8, <1>10 DEF Follows
<1>12. \A i \in 1..z : h[i].at <= x.at /\ h[i].after <= x.after
  BY <1>1, <1>10 DEF h, z
<1>13. (z = 0 => x.first /\ x.line = 1) /\ (x.first \/ x.end)
  BY <1>7, <1>8, <1>10
<1>14. Extends(h, g) /\ Len(g) = z + 1 /\ g[z + 1] = x
  BY <1>4, <1>10, <1>11, <1>12, <1>13, SaidMore DEF z
<1>15. \A i \in 1..z : g[i] = h[i]
  BY <1>14 DEF Extends, z
<1>16. /\ DOMAIN capture'[s] = DOMAIN capture[s] /\ capture'[s].halves = g
       /\ capture'[s].started = capture[s].started
       /\ \A q \in Listened : q # s => capture'[q] = capture[q]
  <2> DEFINE c == [capture[s] EXCEPT !.halves = g]
  <2>1. capture' = [capture EXCEPT ![s] = c]
    BY <1>3 DEF x, h
  <2>2. DOMAIN c = DOMAIN capture[s] /\ c.halves = g /\ c.started = capture[s].started
    BY <1>1
  <2> HIDE DEF c, g
  <2>3. QED
    BY <1>1, <2>1, <2>2
<1> HIDE DEF g
<1>17. ASSUME NEW q \in Listened
       PROVE  /\ Extends(capture[q].halves, capture'[q].halves)
              /\ \A i \in 1..Len(capture'[q].halves) :
                   i \in 1..Len(capture[q].halves) \/ capture'[q].halves[i].at = now'
  <2>1. CASE q = s
    <3>1. \A i \in 1..z + 1 : i \in 1..z \/ i = z + 1
      BY <1>4
    <3>2. x.at = now'
      BY <1>2, <1>10
    <3>3. QED
      BY <1>14, <1>16, <2>1, <3>1, <3>2 DEF h, z
  <2>2. CASE q # s
    <3>1. capture'[q] = capture[q]
      BY <1>16, <2>2
    <3>2. QED
      BY <1>1, <3>1, ExtendsItself
  <2>3. QED
    BY <2>1, <2>2
<1>18. \A q \in Listened : capture'[q].started = capture[q].started
  BY <1>16
<1>19. ConsolesSpeak'
  <2> SUFFICES ASSUME NEW q \in Listened
               PROVE  /\ DOMAIN capture'[q] = {"on", "started", "halves"}
                      /\ capture'[q].started \in Nat /\ capture'[q].started <= now
                      /\ pc = "run" \/ rows # {} => capture'[q].started <= t0
                      /\ Said(capture'[q].halves)
                      /\ \A i \in 1..Len(capture'[q].halves) :
                           /\ capture'[q].started <= capture'[q].halves[i].at
                           /\ capture'[q].halves[i].at <= now
                           /\ capture'[q].halves[i].after <= wire
    BY <1>2 DEF ConsolesSpeak, Said, Half, Follows
  <2>1. CASE q # s
    BY <1>1, <1>16, <2>1
  <2>2. CASE q = s
    <3>1. Said(g)
      BY <1>14 DEF Extends
    <3>2. ASSUME NEW i \in 1..z + 1
          PROVE  capture[s].started <= g[i].at /\ g[i].at <= now /\ g[i].after <= wire
      <4>1. CASE i \in 1..z
        BY <1>1, <1>15, <4>1 DEF h, z
      <4>2. CASE i = z + 1
        BY <1>1, <1>10, <1>14, <4>2
      <4>3. QED
        BY <1>4, <4>1, <4>2
    <3>3. QED
      BY <1>1, <1>14, <1>16, <2>2, <3>1, <3>2
  <2>3. QED
    BY <2>1, <2>2
<1>20. QED
  BY <1>17, <1>18, <1>19 DEF HalvesGrow

\* Core starts the capture of the listener `at`, whether or not its answer arrives.
Begins ==
  /\ pc = "start" /\ pc' # "run" /\ at <= Len(Listen) /\ UNCHANGED <<now, wire, t0, rows>>
  /\ capture' = [capture EXCEPT ![Listen[at]] = [@ EXCEPT !.on = TRUE, !.started = now]]

LEMMA StartsBegin ==
  ASSUME StartCapture \/ (StartFails /\ capture' # capture)
  PROVE  Begins
<1>1. CASE StartCapture
  BY <1>1 DEF StartCapture, Begins
<1>2. CASE StartFails /\ capture' # capture
  BY <1>2 DEF StartFails, Begins
<1>3. QED
  BY <1>1, <1>2

\* A capture begins with nothing heard.
LEMMA StartSpeaks == ASSUME XInv, Begins PROVE ConsolesSpeak' /\ HalvesGrow
<1> DEFINE s == Listen[at]
           c == [capture[s] EXCEPT !.on = TRUE, !.started = now]
<1>1. /\ pc = "start" /\ pc' # "run" /\ rows = {} /\ UNCHANGED <<now, wire, t0, rows>>
      /\ at \in Indices /\ s \in Listened
      /\ capture[s].halves = <<>>
  <2>1. pc = "start" /\ pc' # "run" /\ at \in Indices /\ UNCHANGED <<now, wire, t0, rows>>
    BY DEF Begins, XInv, EInv, Shapes, Indices
  <2>2. rows = {}
    BY <2>1 DEF XInv, Clocks
  <2>3. at >= at
    BY <2>1 DEF Indices
  <2>4. capture[s].halves = <<>>
    BY <2>1, <2>3 DEF XInv, SilentBefore
  <2>5. QED
    BY <2>1, <2>2, <2>4, ListenedAt
<1>2. capture' = [capture EXCEPT ![s] = c]
  BY DEF Begins
<1>3. /\ \A q \in Listened : /\ DOMAIN capture[q] = {"on", "started", "halves"}
                             /\ capture[q].started \in Nat /\ capture[q].started <= now
                             /\ Said(capture[q].halves)
                             /\ \A i \in 1..Len(capture[q].halves) :
                                  /\ capture[q].started <= capture[q].halves[i].at
                                  /\ capture[q].halves[i].at <= now
                                  /\ capture[q].halves[i].after <= wire
      /\ now \in Nat /\ DOMAIN capture = Listened
  BY DEF XInv, ConsolesSpeak, Clocks, EInv, Shapes
<1>4. DOMAIN c = DOMAIN capture[s] /\ c.halves = capture[s].halves /\ c.started = now
  BY <1>1, <1>3
<1> HIDE DEF c
<1>5. capture'[s] = c /\ \A q \in Listened : q # s => capture'[q] = capture[q]
  BY <1>1, <1>2, <1>3
<1>6. \A q \in Listened : capture'[q].halves = capture[q].halves
  BY <1>4, <1>5
<1>7. ASSUME NEW q \in Listened
      PROVE  /\ DOMAIN capture'[q] = {"on", "started", "halves"}
             /\ capture'[q].started \in Nat /\ capture'[q].started <= now
  <2>1. CASE q = s
    <3>1. DOMAIN capture'[q] = {"on", "started", "halves"} /\ capture'[q].started = now
      BY <1>1, <1>3, <1>4, <1>5, <2>1
    <3>2. now \in Nat /\ now <= now
      BY <1>3
    <3>3. QED
      BY <3>1, <3>2
  <2>2. CASE q # s
    BY <1>3, <1>5, <2>2
  <2>3. QED
    BY <2>1, <2>2
<1>8. HalvesGrow
  <2>1. \A q \in Listened : Extends(capture[q].halves, capture[q].halves)
    BY <1>3, ExtendsItself
  <2>2. QED
    BY <1>6, <2>1 DEF HalvesGrow
<1>9. ConsolesSpeak'
  <2> SUFFICES ASSUME NEW q \in Listened
               PROVE  /\ DOMAIN capture'[q] = {"on", "started", "halves"}
                      /\ capture'[q].started \in Nat /\ capture'[q].started <= now
                      /\ Said(capture'[q].halves)
                      /\ \A i \in 1..Len(capture'[q].halves) :
                           /\ capture'[q].started <= capture'[q].halves[i].at
                           /\ capture'[q].halves[i].at <= now
                           /\ capture'[q].halves[i].after <= wire
    BY <1>1 DEF ConsolesSpeak, Said, Half, Follows
  <2>1. CASE q = s
    <3>1. capture'[q].halves = <<>>
      BY <1>1, <1>6, <2>1
    <3>2. Said(capture'[q].halves)
      BY <1>3, <1>6
    <3>3. \A i \in 1..Len(capture'[q].halves) : FALSE
      BY <3>1
    <3>4. QED
      BY <1>7, <3>2, <3>3
  <2>2. CASE q # s
    BY <1>3, <1>5, <2>2
  <2>3. QED
    BY <2>1, <2>2
<1>10. QED
  BY <1>8, <1>9

\* All other steps leave what the consoles have said, and when their captures started.
LEMMA OthersSame ==
  ASSUME XInv, [Next]_vars, ~ (\E s \in Listened : Receive(s)), ~ StartCapture,
         StartFails => capture' = capture
  PROVE  CaptureSame
<1>1. DOMAIN capture = Listened /\ \A q \in Listened : DOMAIN capture[q] = {"on", "started", "halves"}
  BY DEF XInv, EInv, Shapes
<1>2. CASE capture' = capture
  BY <1>2 DEF CaptureSame
<1>3. ASSUME NEW s \in Listened, capture' = [capture EXCEPT ![s].on = FALSE]
      PROVE  CaptureSame
  <2> DEFINE c == [capture[s] EXCEPT !.on = FALSE]
  <2>1. capture' = [capture EXCEPT ![s] = c]
    BY <1>3
  <2>2. DOMAIN c = DOMAIN capture[s] /\ c.halves = capture[s].halves /\ c.started = capture[s].started
    BY <1>1
  <2> HIDE DEF c
  <2>3. QED
    BY <1>1, <2>1, <2>2 DEF CaptureSame
<1>4. CASE Undo
  <2> DEFINE k == undone + 1
  <2>1. capture' = capture \/ (k < at /\ capture' = [capture EXCEPT ![Listen[k]].on = FALSE])
    BY <1>4 DEF Undo
  <2>2. k < at => Listen[k] \in Listened
    <3>1. undone \in Nat /\ at \in 1..Len(Listen) + 1
      BY DEF XInv, EInv, Shapes, Indices
    <3>2. k < at => k \in Indices
      BY <3>1 DEF Indices
    <3>3. QED
      BY <3>2, ListenedAt
  <2> HIDE DEF k
  <2>3. QED
    BY <1>2, <1>3, <2>1, <2>2
<1>5. CASE DrainLast \/ DrainFails
  <2>1. Draining /\ (capture' = capture \/ capture' = [capture EXCEPT ![Current].on = FALSE])
    BY <1>5 DEF DrainLast, DrainFails
  <2>2. Current \in Listened
    BY <2>1, ListenedAt DEF Draining, Current, XInv, EInv, Shapes
  <2>3. QED
    BY <1>2, <1>3, <2>1, <2>2
<1>6. Tick \/ Deliver \/ Refuse \/ Check \/ Run \/ Assemble \/ StepStep \/ Wake
      \/ SkipDone \/ Drain \/ UNCHANGED vars => capture' = capture
  BY DEF Tick, Deliver, Refuse, Check, Run, Assemble, StepStep, Write, StepAnswered,
     StepFails, StepsDone, Wake, SkipDone, Drain, vars, console
<1>7. QED
  BY <1>2, <1>4, <1>5, <1>6 DEF Next, MainStep, PollStep, Done

\* The phase and the origin once rows are told.
LEMMA PhaseMoves ==
  ASSUME XInv, [Next]_vars
  PROVE  /\ pc' = "run" \/ rows' # {} => t0' = now \/ (t0' = t0 /\ (pc = "run" \/ rows # {}))
         /\ rows # {} => t0' = t0
         /\ t0' \in Nat /\ now' \in Nat /\ now <= now' /\ wire' \in Nat /\ wire <= wire'
         /\ stamping' = stamping
<1>0. now \in Nat /\ t0 \in Nat /\ wire \in Nat /\ (pc = "start" => rows = {})
      /\ wire <= step.n /\ step.n \in Nat
  BY DEF XInv, Clocks
<1>1. stamping' = stamping
  BY DEF Next, Tick, Receive, Deliver, MainStep, Refuse, Check, StartCapture, StartFails, Undo,
     Run, Assemble, StepStep, Write, StepAnswered, StepFails, StepsDone, PollStep, Wake, SkipDone,
     Drain, DrainLast, DrainFails, Done, vars
<1>2. CASE Tick
  BY <1>0, <1>1, <1>2 DEF Tick, console, main
<1>3. CASE (\E s \in Listened : Receive(s)) \/ UNCHANGED vars
  <2>1. UNCHANGED <<now, wire, t0, pc, rows>>
    BY <1>3 DEF Receive, vars, console, main
  <2>2. QED
    BY <1>0, <1>1, <2>1
<1>4. CASE Deliver
  BY <1>0, <1>1, <1>4 DEF Deliver, main
<1>5. CASE MainStep /\ ~ Run
  <2>1. UNCHANGED <<now, wire, t0, rows>> /\ (pc' = "run" => pc = "run")
    BY <1>5 DEF MainStep, Refuse, Check, StartCapture, StartFails, Undo, Assemble, console, Return
  <2>2. QED
    BY <1>0, <1>1, <2>1
<1>6. CASE Run
  BY <1>0, <1>1, <1>6 DEF Run, console
<1>7. CASE StepStep \/ PollStep
  <2>1. UNCHANGED <<now, wire, t0, pc>> /\ pc = "run"
    BY <1>7 DEF StepStep, Write, StepAnswered, StepFails, StepsDone, PollStep, Wake, SkipDone,
       Drain, DrainLast, DrainFails, Draining, console, main
  <2>2. QED
    BY <1>0, <1>1, <2>1
<1>8. QED
  BY <1>2, <1>3, <1>4, <1>5, <1>6, <1>7 DEF Next, Done

\* The consoles keep speaking, and their captures have started before there are rows.
LEMMA NextSpeaks ==
  ASSUME XInv, [Next]_vars
  PROVE  /\ ConsolesSpeak' /\ HalvesGrow
         /\ rows # {} => \A s \in Listened : capture'[s].started = capture[s].started
<1>1. CASE \E s \in Listened : Receive(s)
  BY <1>1, ReceiveSpeaks
<1>2. CASE StartCapture \/ (StartFails /\ capture' # capture)
  <2>1. rows = {}
    BY <1>2 DEF StartCapture, StartFails, XInv, Clocks
  <2>2. QED
    BY <1>2, <2>1, StartsBegin, StartSpeaks
<1>3. CASE /\ ~ (\E s \in Listened : Receive(s)) /\ ~ StartCapture
           /\ StartFails => capture' = capture
  <2>1. CaptureSame
    BY <1>3, OthersSame
  <2>2. /\ pc' = "run" \/ rows' # {} => t0' = now \/ (t0' = t0 /\ (pc = "run" \/ rows # {}))
        /\ t0' \in Nat /\ now' \in Nat /\ now <= now' /\ wire' \in Nat /\ wire <= wire'
    BY PhaseMoves
  <2>3. ConsolesSpeak'
    <3>1. pc' = "run" \/ rows' # {} =>
            t0' \in Nat /\ (t0' = t0 \/ t0' = now) /\ (t0' = t0 => pc = "run" \/ rows # {} \/ t0' = now)
      BY <2>2
    <3>2. QED
      BY <2>1, <2>2, <3>1, SameSpeak
  <2>4. QED
    BY <2>1, <2>3, SameGrow DEF CaptureSame
<1>4. QED
  BY <1>1, <1>2, <1>3

\* A capture that has not begun has heard nothing.
LEMMA NextSilent == ASSUME XInv, [Next]_vars PROVE SilentBefore'
<1>1. /\ pc = "check" => \A s \in Listened : capture[s].halves = <<>>
      /\ pc = "start" => \A i \in Indices : i >= at => capture[Listen[i]].halves = <<>>
      /\ at \in Nat /\ \A i \in Indices : Listen[i] \in Listened /\ i \in Nat
  BY ListenedAt DEF XInv, SilentBefore, EInv, Shapes, Indices
<1>2. CASE \E s \in Listened : Receive(s)
  <2>1. PICK s \in Listened : Receive(s)
    BY <1>2
  <2>2. UNCHANGED <<pc, at>> /\ capture[s].on
    BY <2>1 DEF Receive, main
  <2>3. /\ pc # "check"
        /\ pc = "start" => \A i \in Indices : i >= at => Listen[i] # s
    BY <1>1, <2>2, ListenedAt DEF XInv, EInv, Started, On
  <2>4. \A q \in Listened : q # s => capture'[q] = capture[q]
    <3>1. PICK h : capture' = [capture EXCEPT ![s].halves = h]
      BY <2>1 DEF Receive
    <3>2. QED
      BY <3>1 DEF XInv, EInv, Shapes
  <2>5. QED
    BY <1>1, <2>2, <2>3, <2>4 DEF SilentBefore
<1>3. CASE StartCapture
  <2>1. pc = "start" /\ pc' = "start" /\ at' = at + 1
    BY <1>3 DEF StartCapture
  <2>2. at \in Indices
    BY <1>3 DEF StartCapture, XInv, EInv, Shapes, Indices
  <2>3. \A q \in Listened : q # Listen[at] => capture'[q] = capture[q]
    BY <1>3 DEF StartCapture, XInv, EInv, Shapes
  <2>4. ASSUME NEW i \in Indices, i >= at' PROVE capture'[Listen[i]].halves = <<>>
    <3>1. i # at /\ i >= at
      BY <1>1, <2>1, <2>4
    <3>2. Listen[i] # Listen[at] /\ Listen[i] \in Listened
      BY <2>2, <3>1, ListenedAt
    <3>3. QED
      BY <1>1, <2>1, <2>3, <3>1, <3>2
  <2>5. QED
    BY <2>1, <2>4 DEF SilentBefore
<1>6. CASE StartFails
  BY <1>6 DEF StartFails, SilentBefore
<1>4. CASE ~ (\E s \in Listened : Receive(s)) /\ ~ StartCapture /\ ~ StartFails
  <2>1. CaptureSame
    BY <1>4, OthersSame
  <2>2. /\ pc' = "check" => pc = "check"
        /\ pc' = "start" => pc = "check" \/ (pc = "start" /\ at' = at)
    BY <1>4 DEF Next, Tick, Deliver, MainStep, Refuse, Check, Undo, Run, Assemble,
       StepStep, Write, StepAnswered, StepFails, StepsDone, PollStep, Wake, SkipDone, Drain,
       DrainLast, DrainFails, Draining, Done, vars, main, Return
  <2>3. QED
    BY <1>1, <2>1, <2>2 DEF SilentBefore, CaptureSame
<1>5. QED
  BY <1>2, <1>3, <1>4, <1>6

-----------------------------------------------------------------------------
(* The poller *)

\* R is what a reply adds to the rows.
AddsHeard(R) ==
  /\ rows' = rows \cup R /\ R \subseteq RowType /\ IsFiniteSet(R)
  /\ \A r \in R : IsRecv(r) /\ r.signal \in Listened /\ seq <= r.seq /\ r.seq < seq'
  /\ \A r, q \in R : r.seq = q.seq => r = q

\* A reply to the poller, for the console it is for.
LEMMA CurrentReads ==
  ASSUME XInv, Drain \/ DrainLast, NEW s \in Listened, s = Current
  PROVE  Onward /\ PollerKeepsUp' /\ \E R : AddsHeard(R)
<1>1. /\ ~ listener[s].done /\ Draws /\ pc = "run"
      /\ UNCHANGED <<now, t0, stamping>> /\ outcome' = outcome
  <2>1. Draining /\ ~ listener[s].done /\ UNCHANGED <<now, main, stamping>>
    BY DEF Drain, DrainLast
  <2>2. QED
    BY <2>1 DEF Draining, Draws, main
<1>2. \E timed \in BOOLEAN, last \in BOOLEAN : Absorb(s, Reply(s), timed, last)
  <2>1. Timings(Reply(s)) \subseteq BOOLEAN
    BY ExchangeAssumption DEF Timings
  <2>2. \E timed \in Timings(Reply(s)) : Absorb(s, Reply(s), timed, FALSE) \/ Absorb(s, Reply(s), timed, TRUE)
    BY DEF Drain, DrainLast
  <2>3. QED
    BY <2>1, <2>2
<1>3. \A q \in Listened : /\ capture'[q].halves = capture[q].halves
                          /\ capture'[q].started = capture[q].started
  <2>1. capture' = capture \/ capture' = [capture EXCEPT ![s].on = FALSE]
    BY DEF Drain, DrainLast, console
  <2>2. DOMAIN capture = Listened /\ \A q \in Listened : DOMAIN capture[q] = {"on", "started", "halves"}
    BY DEF XInv, EInv, Shapes
  <2> DEFINE c == [capture[s] EXCEPT !.on = FALSE]
  <2>3. c.halves = capture[s].halves /\ c.started = capture[s].started
    BY <1>1, <2>2
  <2>4. capture' = capture \/ capture' = [capture EXCEPT ![s] = c]
    BY <2>1
  <2> HIDE DEF c
  <2>5. QED
    BY <2>2, <2>3, <2>4
<1>4. PICK timed \in BOOLEAN, last \in BOOLEAN : Absorb(s, Reply(s), timed, last)
  BY <1>2
<1>5. PICK m \in listener[s].next..Len(capture[s].halves) : ReadsTo(s, m, timed, last)
  BY <1>1, <1>4, ReplyIsRead
<1>6. Onward /\ ListenerKeepsUp(s)' /\ \A q \in Listened : q # s => HeardOf(q)' = HeardOf(q)
  BY <1>1, <1>3, <1>5, ReadKeepsUp
<1>7. ASSUME NEW q \in Listened, q # s PROVE ListenerKeepsUp(q)'
  <2>1. HeardOf(q)' = HeardOf(q) /\ listener'[q] = listener[q]
    BY <1>5, <1>6, <1>7 DEF ReadsTo
  <2>2. QED
    BY <1>6, <2>1, QuietKeepsUp
<1>8. PollerKeepsUp'
  <2>1. outcome' # "returned"
    BY <1>1 DEF XInv, EInv, Shapes
  <2>2. \A q \in Listened : ListenerKeepsUp(q)'
    BY <1>6, <1>7
  <2>3. QED
    BY <2>1, <2>2 DEF PollerKeepsUp
<1> DEFINE h == capture[s].halves
           n == listener[s].next
           rx == listener[s].rx
           R == Shows(s, rx, h, n, m, timed, last)
           k == Counts(h, n, m, last)
<1>9. AddsHeard(R)
  <2>1. Anchors => Origin \in Nat /\ \A i \in 1..Len(h) : Origin <= h[i].at
    BY ConsoleFacts
  <2>2. seq \in Nat /\ poll.ms \in Nat /\ stamping \in BOOLEAN /\ Said(h)
    BY <1>1, ConsoleFacts DEF XInv, Clocks, Draws
  <2>3. n \in 0..Len(h) /\ m \in n..Len(h) /\ Pending(rx, h, n)
    BY <1>1 DEF XInv, PollerKeepsUp, ListenerKeepsUp, TailIsKept, Pending
  <2>4. rows' = rows \cup R /\ seq' = seq + k
    BY <1>5 DEF ReadsTo
  <2> HIDE DEF h, n, rx
  <2>5. R \subseteq RowType /\ IsFiniteSet(R)
    BY <2>1, <2>2, <2>3, NewRows
  <2>6. \A r \in R : /\ IsRecv(r) /\ r.signal = s /\ seq <= r.seq /\ r.seq < seq + k
    BY <2>1, <2>2, <2>3, NewRows
  <2>7. \A r, q \in R : r.seq = q.seq => r = q
    BY <2>1, <2>2, <2>3, NewRows
  <2> HIDE DEF R, k
  <2>8. QED
    BY <2>4, <2>5, <2>6, <2>7 DEF AddsHeard
<1>10. QED
  BY <1>6, <1>8, <1>9

\* A reply to the poller, for whichever console it is for.
LEMMA DrainReads ==
  ASSUME XInv, Drain \/ DrainLast
  PROVE  Onward /\ PollerKeepsUp' /\ \E R : AddsHeard(R)
<1>1. Draining
  BY DEF Drain, DrainLast
<1>2. Current \in Listened
  BY <1>1, ListenedAt DEF Draining, Current, XInv, EInv, Shapes
<1>3. \A s \in Listened : s = Current => Onward /\ PollerKeepsUp' /\ \E R : AddsHeard(R)
  BY CurrentReads
<1>4. QED
  BY <1>2, <1>3

\* Writes and other consoles' replies are nothing that a listened console has said.
LEMMA StepsUnheard ==
  ASSUME XInv, Write \/ StepAnswered, NEW s \in Listened
  PROVE  HeardOf(s)' = HeardOf(s)
<1>1. CASE rows' = rows
  BY <1>1 DEF HeardOf
<1>2. ASSUME NEW r, rows' = rows \cup {r}, ~ IsRecv(r) \/ r.signal # s
      PROVE  HeardOf(s)' = HeardOf(s)
  BY <1>2 DEF HeardOf
<1>3. CASE Write
  <2> DEFINE w == Row(Ms, StepSeq, Steps[step.n], "write", step.n, FALSE)
  <2>1. w.kind = "write"
    BY DEF Row
  <2>2. rows' = rows \cup {w}
    BY <1>3 DEF Write
  <2> HIDE DEF w
  <2>3. QED
    BY <1>2, <2>1, <2>2 DEF IsRecv
<1>4. CASE StepAnswered
  <2>1. rows' = rows \/ \E ms : rows' = rows \cup {Row(ms, StepSeq, Steps[step.n], "recv", step.n, Anchors)}
                                /\ Steps[step.n] \notin Listened
    BY <1>4 DEF StepAnswered
  <2>2. ASSUME NEW ms, rows' = rows \cup {Row(ms, StepSeq, Steps[step.n], "recv", step.n, Anchors)},
               Steps[step.n] \notin Listened
        PROVE  HeardOf(s)' = HeardOf(s)
    <3> DEFINE r == Row(ms, StepSeq, Steps[step.n], "recv", step.n, Anchors)
    <3>1. r.signal = Steps[step.n] /\ rows' = rows \cup {r}
      BY <2>2, RowFields
    <3> HIDE DEF r
    <3>2. QED
      BY <1>2, <2>2, <3>1
  <2>3. QED
    BY <1>1, <2>1, <2>2
<1>5. QED
  BY <1>3, <1>4

\* Every step only adds to what rows and listeners depend on.
LEMMA NextOnward == ASSUME XInv, [Next]_vars PROVE Onward
<1>1. CASE Drain \/ DrainLast
  BY <1>1, DrainReads
<1>2. CASE ~ Drain /\ ~ DrainLast
  <2>1. seq' = seq
    BY <1>2 DEF Next, Tick, Receive, Deliver, MainStep, Refuse, Check, StartCapture, StartFails,
       Undo, Run, Assemble, StepStep, Write, StepAnswered, StepFails, StepsDone, PollStep, Wake,
       SkipDone, DrainFails, Done, vars, poller
  <2>2. seq \in Nat
    BY DEF XInv, RowsAreRows
  <2>3. HalvesGrow /\ (rows # {} => \A s \in Listened : capture'[s].started = capture[s].started)
    BY NextSpeaks
  <2>4. rows # {} => t0' = t0
    BY PhaseMoves
  <2>5. now' \in Nat /\ now <= now' /\ stamping' = stamping
    BY PhaseMoves
  <2>6. \A s \in Listened : capture[s].started \in Nat
    BY DEF XInv, ConsolesSpeak
  <2>7. seq' \in Nat /\ seq <= seq'
    BY <2>1, <2>2
  <2>9. untimed' = untimed
    BY <1>2 DEF Next, Tick, Receive, Deliver, MainStep, Refuse, Check, StartCapture, StartFails,
       Undo, Run, Assemble, StepStep, Write, StepAnswered, StepFails, StepsDone, PollStep, Wake,
       SkipDone, DrainFails, Done, vars, history
  <2>8. QED
    BY <2>3, <2>4, <2>5, <2>6, <2>7, <2>9, EveryStepMoves DEF Onward, HalvesGrow
<1>3. QED
  BY <1>1, <1>2

\* Every step keeps the listeners and the rows in line with what the consoles said.
LEMMA NextKeepsUp == ASSUME XInv, [Next]_vars PROVE PollerKeepsUp'
<1>1. CASE Drain \/ DrainLast
  BY <1>1, DrainReads
<1>2. CASE ~ Drain /\ ~ DrainLast
  <2>1. Onward
    BY NextOnward
  <2>2. ASSUME NEW s \in Listened PROVE HeardOf(s)' = HeardOf(s)
    <3>1. CASE Write \/ StepAnswered
      BY <3>1, StepsUnheard
    <3>2. CASE ~ Write /\ ~ StepAnswered
      <4>1. rows' = rows
        BY <1>2, <3>2 DEF Next, Tick, Receive, Deliver, MainStep, Refuse, Check, StartCapture,
           StartFails, Undo, Run, Assemble, StepStep, StepFails, StepsDone, PollStep, Wake,
           SkipDone, DrainFails, Done, vars
      <4>2. QED
        BY <4>1 DEF HeardOf
    <3>3. QED
      BY <3>1, <3>2
  <2>3. ASSUME NEW s \in Listened
        PROVE  \/ listener'[s] = listener[s]
               \/ ~ listener[s].done
                  /\ listener'[s] = [listener[s] EXCEPT !.note = TRUE, !.done = TRUE]
    <3>1. CASE DrainFails
      <4>1. ~ listener[Current].done
            /\ listener' = [listener EXCEPT ![Current] = [@ EXCEPT !.note = TRUE, !.done = TRUE]]
        BY <3>1 DEF DrainFails
      <4>2. DOMAIN listener = Listened
        BY DEF XInv, EInv, Shapes
      <4>3. QED
        BY <4>1, <4>2
    <3>2. CASE ~ DrainFails
      <4>1. listener' = listener
        BY <1>2, <3>2 DEF Next, Tick, Receive, Deliver, MainStep, Refuse, Check, StartCapture,
           StartFails, Undo, Run, Assemble, StepStep, Write, StepAnswered, StepFails, StepsDone,
           PollStep, Wake, SkipDone, Done, vars, poller
      <4>2. QED
        BY <4>1
    <3>3. QED
      BY <3>1, <3>2
  <2>4. \A s \in Listened : ListenerKeepsUp(s)'
    BY <2>1, <2>2, <2>3, QuietKeepsUp
  <2>5. ASSUME outcome' = "returned" PROVE \A s \in Listened : listener'[s].done
    <3>1. CASE outcome = "returned"
      <4>1. pc = "returned"
        BY <3>1 DEF XInv, EInv, Shapes
      <4>2. listener' = listener
        BY <4>1, <1>2 DEF Next, Tick, Receive, Deliver, MainStep, Refuse, Check, StartCapture,
           StartFails, Undo, Run, Assemble, StepStep, Write, StepAnswered, StepFails, StepsDone,
           PollStep, Wake, SkipDone, DrainFails, Draining, Done, vars, poller
      <4>3. QED
        BY <3>1, <4>2 DEF XInv, PollerKeepsUp
    <3>2. CASE outcome # "returned"
      <4>1. Assemble
        BY <2>5, <3>2 DEF Next, Tick, Receive, Deliver, MainStep, Refuse, Check, StartCapture,
           StartFails, Undo, Run, StepStep, Write, StepAnswered, StepFails, StepsDone, PollStep,
           Wake, SkipDone, Drain, DrainLast, DrainFails, Done, vars, main, Return
      <4>2. listener' = listener /\ (poll.pc = "done" \/ Listen = <<>>)
        BY <4>1 DEF Assemble, poller
      <4>3. CASE poll.pc = "done"
        <5>1. \A i \in Indices : listener[Listen[i]].done
          BY <4>3 DEF XInv, EInv, StoppedBehind
        <5>2. QED
          BY <4>2, <5>1, ListenedAt
      <4>4. CASE Listen = <<>>
        <5>1. Listened = {}
          BY <4>4, ListenedAt DEF Indices
        <5>2. QED
          BY <5>1
      <4>5. QED
        BY <4>2, <4>3, <4>4
    <3>3. QED
      BY <3>1, <3>2
  <2>6. QED
    BY <2>4, <2>5 DEF PollerKeepsUp
<1>3. QED
  BY <1>1, <1>2

-----------------------------------------------------------------------------
(* The rows of the steps *)

\* A row is a step's or what a console has said, and the poller counts on from all.
LEMMA RowsSplit ==
  ASSUME XInv, NEW r \in rows
  PROVE  /\ r \in RowType /\ r.ms \in Nat /\ r.seq \in Nat /\ r.n \in Nat /\ r.seq < seq
         /\ r.seq < PollSeq \/ \E s \in Listened : r \in HeardOf(s)
<1>1. r \in RowType /\ seq \in Nat /\ PollSeq <= seq /\ PollSeq \in Nat
  BY DEF XInv, RowsAreRows, PollSeq
<1>2. r.ms \in Nat /\ r.seq \in Nat /\ r.n \in Nat /\ r.kind \in {"write", "recv"}
  BY <1>1 DEF RowType
<1>3. CASE r.kind = "write"
  BY <1>1, <1>2, <1>3 DEF XInv, WritesComeFirst
<1>4. CASE IsReply(r)
  BY <1>1, <1>2, <1>4 DEF XInv, RepliesInOrder
<1>5. CASE IsRecv(r) /\ r.signal \in Listened
  <2> DEFINE s == r.signal
  <2>1. r \in HeardOf(s) /\ s \in Listened
    BY <1>5 DEF HeardOf
  <2>2. \A q \in HeardOf(s) : q.seq < seq
    BY <2>1 DEF XInv, PollerKeepsUp, ListenerKeepsUp, RowsAreTimed
  <2>3. QED
    BY <1>1, <1>2, <2>1, <2>2
<1>6. QED
  BY <1>2, <1>3, <1>4, <1>5 DEF IsReply, IsRecv

\* r is the row of a step, which steps count.
Tells(r) == r \in RowType /\ r.seq = StepSeq /\ r.n = step.n /\ rows' = rows \cup {r}

\* The number of the next step's row is below the poller's.
LEMMA StepsCounted ==
  ASSUME XInv
  PROVE  /\ StepSeq = Cardinality(StepRows) /\ StepSeq \in Nat /\ IsFiniteSet(StepRows)
         /\ step.n <= Len(Steps) /\ step.pc \in {"delay", "sent"} => StepSeq < PollSeq
<1>1. StepSeq = Cardinality(StepRows)
  BY DEF StepSeq, StepRows
<1>2. IsFiniteSet(StepRows)
  <2>1. StepRows \subseteq rows /\ IsFiniteSet(rows)
    BY DEF XInv, RowsAreRows, StepRows
  <2>2. QED
    BY <2>1, FS_Subset
<1>3. StepSeq \in Nat
  BY <1>1, <1>2, FS_CardinalityType
<1>4. ASSUME step.n <= Len(Steps), step.pc \in {"delay", "sent"} PROVE StepSeq < PollSeq
  <2>1. step.n \in Nat /\ Len(Steps) \in Nat /\ 2 * Len(Steps) <= PollSeq /\ PollSeq \in Nat
    BY DEF XInv, Clocks, PollSeq
  <2>2. StepSeq <= 2 * (step.n - 1) + 1
    BY <1>1, <1>3, <2>1 DEF XInv, StepsAreCounted
  <2> DEFINE n == step.n
             l == Len(Steps)
             k == StepSeq
             p == PollSeq
  <2>3. n \in Nat /\ l \in Nat /\ k \in Nat /\ p \in Nat /\ 2 * l <= p /\ n <= l /\ k <= 2 * (n - 1) + 1
    BY <1>3, <1>4, <2>1, <2>2
  <2> HIDE DEF n, l, k, p
  <2>4. k < p
    BY <2>3
  <2>5. QED
    BY <2>4 DEF k, p
<1>5. QED
  BY <1>1, <1>2, <1>3, <1>4

\* A write tells one row, now.
LEMMA WriteTells ==
  ASSUME XInv, Write
  PROVE  \E r : Tells(r) /\ r.kind = "write" /\ r.ms + t0 = now
<1> DEFINE r == Row(Ms, StepSeq, Steps[step.n], "write", step.n, FALSE)
<1>1. rows' = rows \cup {r}
  BY DEF Write
<1>2. r.ms = Ms /\ r.seq = StepSeq /\ r.n = step.n /\ r.kind = "write"
  BY DEF Row
<1>3. now \in Nat /\ t0 \in Nat /\ t0 <= now /\ step.n \in 1..Len(Steps)
  BY DEF XInv, Clocks, Write
<1>4. Ms \in Nat /\ Ms + t0 = now
  BY <1>3 DEF Ms
<1>5. Steps[step.n] \in Signals
  BY <1>3 DEF Signals, ToSet
<1>6. r \in RowType
  BY <1>3, <1>4, <1>5, StepsCounted DEF Row, RowType
<1> HIDE DEF r
<1>7. QED
  BY <1>1, <1>2, <1>4, <1>6 DEF Tells

\* Core's clock starts no later than the exchange.
LEMMA OriginBefore ==
  ASSUME XInv, pc = "run" \/ rows # {}, Listened # {}
  PROVE  Origin \in Nat /\ Origin <= t0
<1>1. \A s \in Listened : capture[s].started \in Nat /\ capture[s].started <= t0
  BY DEF XInv, ConsolesSpeak
<1>2. QED
  BY <1>1, OriginIsEarliest

\* An answer tells no row or one, no earlier than its write.
LEMMA AnswerTells ==
  ASSUME XInv, StepAnswered
  PROVE  \/ rows' = rows
         \/ \E r : /\ Tells(r) /\ IsReply(r)
                   /\ ~ Anchors => r.ms + t0 = now
                   /\ Anchors => t0 + step.ms <= r.ms + Origin /\ r.ms + Origin <= now
<1>1. CASE Steps[step.n] \in Listened
  BY <1>1 DEF StepAnswered
<1>2. CASE Steps[step.n] \notin Listened
  <2>1. PICK ms \in ReplyMs :
          rows' = rows \cup {Row(ms, StepSeq, Steps[step.n], "recv", step.n, Anchors)}
    BY <1>2 DEF StepAnswered
  <2>2. now \in Nat /\ t0 \in Nat /\ t0 <= now /\ step.n \in 1..Len(Steps) /\ stamping \in BOOLEAN
        /\ step.ms \in Nat /\ pc = "run"
    BY DEF XInv, Clocks, StepAnswered
  <2>3. CASE ~ Anchors
    <3>1. ms = Ms
      BY <2>1, <2>3 DEF ReplyMs
    <3>2. ms \in Nat /\ ms + t0 = now
      BY <3>1, <2>2 DEF Ms
    <3> DEFINE r == Row(ms, StepSeq, Steps[step.n], "recv", step.n, Anchors)
    <3>3. r.ms = ms /\ r.seq = StepSeq /\ r.n = step.n /\ r.kind = "recv" /\ r.signal = Steps[step.n]
      BY DEF Row
    <3>4. Steps[step.n] \in Signals
      BY <2>2 DEF Signals, ToSet
    <3>5. r \in RowType
      BY <2>2, <3>2, <3>4, StepsCounted DEF Row, RowType, Anchors
    <3>6. rows' = rows \cup {r}
      BY <2>1
    <3> HIDE DEF r
    <3>7. QED
      BY <1>2, <2>3, <3>2, <3>3, <3>5, <3>6 DEF Tells, IsReply, IsRecv
  <2>4. CASE Anchors
    <3>0. Origin \in Nat /\ Origin <= t0
      BY <2>2, <2>4, OriginBefore DEF Anchors
    <3>1. PICK u \in t0 + step.ms..now :
            ms = IF Anchored(u) < step.ms THEN step.ms ELSE Anchored(u)
      BY <2>1, <2>4 DEF ReplyMs
    <3>2. ms = u - Origin /\ ms \in Nat /\ ms + Origin = u
      BY <2>2, <3>0, <3>1 DEF Anchored
    <3> DEFINE r == Row(ms, StepSeq, Steps[step.n], "recv", step.n, Anchors)
    <3>3. r.ms = ms /\ r.seq = StepSeq /\ r.n = step.n /\ r.kind = "recv" /\ r.signal = Steps[step.n]
      BY DEF Row
    <3>4. Steps[step.n] \in Signals
      BY <2>2 DEF Signals, ToSet
    <3>5. r \in RowType
      BY <2>2, <3>2, <3>4, StepsCounted DEF Row, RowType, Anchors
    <3>6. rows' = rows \cup {r}
      BY <2>1
    <3>7. t0 + step.ms <= ms + Origin /\ ms + Origin <= now
      BY <2>2, <3>1, <3>2
    <3> HIDE DEF r
    <3>8. QED
      BY <1>2, <2>4, <3>3, <3>5, <3>6, <3>7 DEF Tells, IsReply, IsRecv
  <2>5. QED
    BY <2>3, <2>4
<1>3. QED
  BY <1>1, <1>2

\* A step's row takes the next number.
LEMMA TellsCounts ==
  ASSUME XInv, NEW r, Tells(r), StepSeq < PollSeq, seq' = seq
  PROVE  /\ RowsAreRows'
         /\ StepRows' = StepRows \cup {r} /\ Cardinality(StepRows') = StepSeq + 1
         /\ \A q \in StepRows' : q.seq < Cardinality(StepRows')
<1>1. /\ StepSeq = Cardinality(StepRows) /\ StepSeq \in Nat /\ IsFiniteSet(StepRows)
      /\ \A q \in StepRows : q.seq < StepSeq /\ q.seq \in Nat /\ q.seq < PollSeq
  <2>1. StepSeq = Cardinality(StepRows) /\ StepSeq \in Nat /\ IsFiniteSet(StepRows)
    BY StepsCounted
  <2>2. \A q \in StepRows : q.seq < StepSeq
    BY <2>1 DEF XInv, StepsAreCounted
  <2>3. \A q \in StepRows : q.seq \in Nat /\ q.seq < PollSeq
    BY RowsSplit DEF StepRows
  <2>4. QED
    BY <2>1, <2>2, <2>3
<1>2. r \notin StepRows /\ r.seq = StepSeq /\ r \in RowType /\ rows' = rows \cup {r}
  BY <1>1 DEF Tells
<1>3. StepRows' = StepRows \cup {r}
  BY <1>2 DEF StepRows
<1>4. Cardinality(StepRows') = StepSeq + 1
  BY <1>1, <1>2, <1>3, FS_AddElement
<1>5. \A q \in StepRows' : q.seq < Cardinality(StepRows')
  <2> SUFFICES ASSUME NEW q \in StepRows \cup {r} PROVE q.seq < StepSeq + 1
    BY <1>3, <1>4
  <2>1. q.seq \in Nat /\ q.seq <= StepSeq
    BY <1>1, <1>2
  <2>2. QED
    BY <1>1, <2>1
<1>6. RowsAreRows'
  <2>1. rows \subseteq RowType /\ IsFiniteSet(rows) /\ seq \in Nat /\ seq >= PollSeq
        /\ \A p, q \in rows : p.seq = q.seq => p = q
    BY DEF XInv, RowsAreRows
  <2>2. IsFiniteSet(rows')
    BY <1>2, <2>1, FS_AddElement
  <2>3. ASSUME NEW q \in rows PROVE q.seq # r.seq
    <3>1. CASE q \in StepRows
      BY <1>1, <1>2, <3>1
    <3>2. CASE q \notin StepRows
      BY <1>2, <3>2 DEF StepRows
    <3>3. QED
      BY <3>1, <3>2
  <2>4. \A p, q \in rows' : p.seq = q.seq => p = q
    BY <1>2, <2>1, <2>3
  <2>5. QED
    BY <1>2, <2>1, <2>2, <2>4 DEF RowsAreRows
<1>7. QED
  BY <1>3, <1>4, <1>5, <1>6

\* The steps' rows are the same after a drain, and all rows keep their numbers.
LEMMA HeardCounts ==
  ASSUME XInv, NEW R, AddsHeard(R), seq' \in Nat, seq <= seq'
  PROVE  /\ RowsAreRows' /\ StepRows' = StepRows
         /\ \A r \in rows' : r \in rows \/ (IsRecv(r) /\ ~ IsReply(r))
<1>1. /\ rows' = rows \cup R /\ R \subseteq RowType /\ IsFiniteSet(R)
      /\ \A r \in R : IsRecv(r) /\ r.signal \in Listened /\ seq <= r.seq /\ r.seq < seq'
      /\ \A r, q \in R : r.seq = q.seq => r = q
  BY DEF AddsHeard
<1>2. rows \subseteq RowType /\ IsFiniteSet(rows) /\ seq \in Nat /\ seq >= PollSeq
      /\ \A p, q \in rows : p.seq = q.seq => p = q
  BY DEF XInv, RowsAreRows
<1>3. \A r \in R : r.seq \in Nat
  BY <1>1 DEF RowType
<1>4. \A r \in R : ~ (r.seq < PollSeq)
  BY <1>1, <1>2, <1>3 DEF PollSeq
<1>5. StepRows' = StepRows
  BY <1>1, <1>4 DEF StepRows
<1>6. ASSUME NEW p \in rows, NEW q \in R PROVE p.seq # q.seq
  <2>1. p.seq \in Nat /\ p.seq < seq
    BY RowsSplit
  <2>2. QED
    BY <1>1, <1>2, <1>3, <2>1
<1>7. \A p, q \in rows' : p.seq = q.seq => p = q
  BY <1>1, <1>2, <1>6
<1>8. IsFiniteSet(rows')
  BY <1>1, <1>2, FS_Union
<1>9. seq' >= PollSeq
  BY <1>2 DEF PollSeq
<1>10. RowsAreRows'
  BY <1>1, <1>2, <1>7, <1>8, <1>9 DEF RowsAreRows
<1>11. QED
  BY <1>1, <1>5, <1>10 DEF IsReply

\* A step that is neither written nor answered tells no row of its own.
LEMMA OthersTellNone ==
  ASSUME XInv, [Next]_vars, ~ Write, ~ StepAnswered
  PROVE  /\ RowsAreRows' /\ StepRows' = StepRows
         /\ \A r \in rows' : r \in rows \/ (IsRecv(r) /\ ~ IsReply(r))
         /\ step'.n = step.n /\ (step' = step \/ step'.pc = "done")
<1>1. CASE Drain \/ DrainLast
  <2>1. Onward /\ \E R : AddsHeard(R)
    BY <1>1, DrainReads
  <2>2. seq' \in Nat /\ seq <= seq'
    BY <2>1 DEF Onward
  <2>3. step' = step
    BY <1>1 DEF Drain, DrainLast, stepper
  <2>4. QED
    BY <2>1, <2>2, <2>3, HeardCounts
<1>2. CASE ~ Drain /\ ~ DrainLast
  <2>1. rows' = rows /\ seq' = seq
    BY <1>2 DEF Next, Tick, Receive, Deliver, MainStep, Refuse, Check, StartCapture, StartFails,
       Undo, Run, Assemble, StepStep, StepFails, StepsDone, PollStep, Wake, SkipDone, DrainFails,
       Done, vars, poller
  <2>2. DOMAIN step = {"pc", "n", "ms"}
    BY DEF XInv, Clocks
  <2>3. step' = step \/ step' = [step EXCEPT !.pc = "done"]
    BY <1>2 DEF Next, Tick, Receive, Deliver, MainStep, Refuse, Check, StartCapture, StartFails,
       Undo, Run, Assemble, StepStep, StepFails, StepsDone, PollStep, Wake, SkipDone, DrainFails,
       Done, vars, stepper
  <2>4. RowsAreRows' /\ StepRows' = StepRows
    BY <2>1 DEF XInv, RowsAreRows, StepRows
  <2>5. QED
    BY <2>1, <2>2, <2>3, <2>4
<1>3. QED
  BY <1>1, <1>2

\* Rows keep numbers of their own, and the steps' stay below the poller's.
LEMMA NextRows ==
  ASSUME XInv, [Next]_vars
  PROVE  RowsAreRows' /\ StepsAreCounted'
<1>0. /\ StepSeq = Cardinality(StepRows) /\ StepSeq \in Nat
      /\ step.n <= Len(Steps) /\ step.pc \in {"delay", "sent"} => StepSeq < PollSeq
      /\ \A q \in StepRows : q.seq < StepSeq
      /\ StepSeq <= 2 * (step.n - 1) + (IF step.pc = "delay" THEN 0 ELSE 1)
      /\ step.n \in Nat \ {0} /\ Len(Steps) \in Nat /\ DOMAIN step = {"pc", "n", "ms"}
  <2>1. /\ StepSeq = Cardinality(StepRows) /\ StepSeq \in Nat
        /\ step.n <= Len(Steps) /\ step.pc \in {"delay", "sent"} => StepSeq < PollSeq
    BY StepsCounted
  <2>2. /\ \A q \in StepRows : q.seq < StepSeq
        /\ StepSeq <= 2 * (step.n - 1) + (IF step.pc = "delay" THEN 0 ELSE 1)
    BY <2>1 DEF XInv, StepsAreCounted
  <2>3. step.n \in Nat \ {0} /\ Len(Steps) \in Nat /\ DOMAIN step = {"pc", "n", "ms"}
    BY DEF XInv, Clocks
  <2>4. QED
    BY <2>1, <2>2, <2>3
<1>1. CASE Write
  <2>1. /\ step.pc = "delay" /\ step.n <= Len(Steps) /\ seq' = seq
        /\ step' = [step EXCEPT !.pc = "sent", !.ms = Ms]
    BY <1>1 DEF Write, poller
  <2>2. step'.pc = "sent" /\ step'.n = step.n
    BY <1>0, <2>1
  <2>3. PICK r : Tells(r)
    BY <1>1, WriteTells
  <2>4. /\ RowsAreRows' /\ Cardinality(StepRows') = StepSeq + 1
        /\ \A q \in StepRows' : q.seq < Cardinality(StepRows')
    BY <1>0, <2>1, <2>3, TellsCounts
  <2>5. StepSeq + 1 <= 2 * (step'.n - 1) + 1
    BY <1>0, <2>1, <2>2
  <2>6. QED
    BY <2>2, <2>4, <2>5 DEF StepsAreCounted
<1>2. CASE StepAnswered
  <2>1. /\ step.pc = "sent" /\ step.n <= Len(Steps) /\ seq' = seq
        /\ step' = [step EXCEPT !.pc = "delay", !.n = @ + 1, !.ms = 0]
    BY <1>2 DEF StepAnswered, poller, XInv, Clocks
  <2>2. step'.pc = "delay" /\ step'.n = step.n + 1
    BY <1>0, <2>1
  <2>3. StepSeq + 1 <= 2 * (step'.n - 1) + 0
    BY <1>0, <2>1, <2>2
  <2>4. CASE \E r : Tells(r)
    <3>1. PICK r : Tells(r)
      BY <2>4
    <3>2. /\ RowsAreRows' /\ Cardinality(StepRows') = StepSeq + 1
          /\ \A q \in StepRows' : q.seq < Cardinality(StepRows')
      BY <1>0, <2>1, <3>1, TellsCounts
    <3>3. QED
      BY <2>2, <2>3, <3>2 DEF StepsAreCounted
  <2>5. CASE rows' = rows
    <3>1. RowsAreRows' /\ StepRows' = StepRows
      BY <2>1, <2>5 DEF XInv, RowsAreRows, StepRows
    <3>2. Cardinality(StepRows) <= 2 * (step'.n - 1) + 0
      BY <1>0, <2>2, <2>3
    <3>3. QED
      BY <1>0, <2>2, <3>1, <3>2 DEF StepsAreCounted
  <2>6. QED
    BY <1>2, <2>4, <2>5, AnswerTells
<1>3. CASE ~ Write /\ ~ StepAnswered
  <2>1. /\ RowsAreRows' /\ StepRows' = StepRows
        /\ step'.n = step.n /\ (step' = step \/ step'.pc = "done")
    BY <1>3, OthersTellNone
  <2>2. StepSeq <= 2 * (step'.n - 1) + (IF step'.pc = "delay" THEN 0 ELSE 1)
    BY <1>0, <2>1
  <2>3. QED
    BY <1>0, <2>1, <2>2 DEF StepsAreCounted
<1>4. QED
  BY <1>1, <1>2, <1>3

\* What the other rows say of a write stays as it is; nothing follows a new one yet.
LEMMA NextWrites == ASSUME XInv, [Next]_vars PROVE WritesComeFirst'
<1>0. /\ now \in Nat /\ t0 \in Nat /\ now' \in Nat /\ now <= now' /\ (rows # {} => t0' = t0)
      /\ HalvesGrow
  BY PhaseMoves, NextSpeaks DEF XInv, Clocks
<1>1. ASSUME NEW w \in rows, w.kind = "write"
      PROVE  /\ w.seq < PollSeq /\ w.ms + t0' <= now'
             /\ \A s \in Listened : \A i \in 1..Len(capture'[s].halves) :
                  w.n <= capture'[s].halves[i].after => w.ms + t0' <= capture'[s].halves[i].at
  <2>1. /\ w.seq < PollSeq /\ w.ms + t0 <= now
        /\ \A s \in Listened : \A i \in 1..Len(capture[s].halves) :
             w.n <= capture[s].halves[i].after => w.ms + t0 <= capture[s].halves[i].at
    BY <1>1 DEF XInv, WritesComeFirst
  <2>2. t0' = t0 /\ w.ms \in Nat
    BY <1>0, RowsSplit
  <2>3. w.ms + t0' <= now'
    BY <1>0, <2>1, <2>2
  <2>4. ASSUME NEW s \in Listened, NEW i \in 1..Len(capture'[s].halves),
               w.n <= capture'[s].halves[i].after
        PROVE  w.ms + t0' <= capture'[s].halves[i].at
    <3>1. CASE i \in 1..Len(capture[s].halves)
      <4>1. capture'[s].halves[i] = capture[s].halves[i]
        BY <1>0, <3>1 DEF HalvesGrow, Extends
      <4>2. QED
        BY <2>1, <2>2, <2>4, <3>1, <4>1
    <3>2. CASE i \notin 1..Len(capture[s].halves)
      <4>1. capture'[s].halves[i].at = now'
        BY <1>0, <3>2 DEF HalvesGrow
      <4>2. QED
        BY <2>3, <4>1
    <3>3. QED
      BY <3>1, <3>2
  <2>5. QED
    BY <2>1, <2>3, <2>4
<1>2. CASE Write
  <2>1. PICK r : Tells(r) /\ r.kind = "write" /\ r.ms + t0 = now
    BY <1>2, WriteTells
  <2>2. /\ step.pc = "delay" /\ step.n <= Len(Steps)
        /\ UNCHANGED <<now, capture>> /\ t0' = t0
    BY <1>2 DEF Write, console, main
  <2>3. r.seq < PollSeq /\ r.n = step.n /\ rows' = rows \cup {r}
    BY <2>1, <2>2, StepsCounted DEF Tells
  <2>4. r.ms + t0' <= now'
    BY <1>0, <2>1, <2>2
  <2>5. ASSUME NEW s \in Listened, NEW i \in 1..Len(capture'[s].halves)
        PROVE  ~ (r.n <= capture'[s].halves[i].after)
    <3>1. capture' = capture
      BY <2>2
    <3>2. capture[s].halves[i].after <= wire /\ capture[s].halves[i].after \in Nat
      <4>1. Said(capture[s].halves) /\ i \in 1..Len(capture[s].halves)
        BY <3>1 DEF XInv, ConsolesSpeak
      <4>2. capture[s].halves[i].after \in Nat
        BY <4>1, SaidTypes
      <4>3. QED
        BY <4>1, <4>2 DEF XInv, ConsolesSpeak
    <3>3. wire \in Nat /\ step.n \in Nat /\ wire < step.n
      BY <2>2 DEF XInv, Clocks
    <3> DEFINE x == capture[s].halves[i].after
    <3>4. x \in Nat /\ x <= wire
      BY <3>2
    <3> HIDE DEF x
    <3>5. ~ (step.n <= x)
      BY <3>3, <3>4
    <3>6. QED
      BY <2>3, <3>1, <3>5 DEF x
  <2>6. QED
    BY <1>1, <2>3, <2>4, <2>5 DEF WritesComeFirst
<1>3. CASE ~ Write
  <2>1. \A r \in rows' : r.kind = "write" => r \in rows
    <3>1. CASE StepAnswered
      <4>1. CASE rows' = rows
        BY <4>1
      <4>2. CASE \E r : Tells(r) /\ IsReply(r)
        BY <4>2 DEF Tells, IsReply, IsRecv
      <4>3. QED
        BY <3>1, <4>1, <4>2, AnswerTells
    <3>2. CASE ~ StepAnswered
      BY <1>3, <3>2, OthersTellNone DEF IsRecv
    <3>3. QED
      BY <3>1, <3>2
  <2>2. QED
    BY <1>1, <2>1 DEF WritesComeFirst
<1>4. QED
  BY <1>2, <1>3

\* The step only goes on; what is in flight was written when its row says.
LEMMA StepMoves ==
  ASSUME XInv, [Next]_vars
  PROVE  /\ step'.n \in Nat /\ step.n <= step'.n
         /\ step'.pc = "sent" => step' = step \/ (t0' = t0 /\ t0 + step'.ms = now)
<1>0. step.n \in Nat /\ DOMAIN step = {"pc", "n", "ms"} /\ now \in Nat /\ t0 \in Nat /\ t0 <= now
  BY DEF XInv, Clocks
<1>1. CASE Write
  <2>1. step' = [step EXCEPT !.pc = "sent", !.ms = Ms] /\ t0' = t0
    BY <1>1 DEF Write, main
  <2>2. step'.n = step.n /\ step'.ms = Ms
    BY <1>0, <2>1
  <2>3. t0 + Ms = now
    BY <1>0 DEF Ms
  <2>4. QED
    BY <1>0, <2>1, <2>2, <2>3
<1>2. CASE StepAnswered
  <2>1. step' = [step EXCEPT !.pc = "delay", !.n = @ + 1, !.ms = 0]
    BY <1>2 DEF StepAnswered
  <2>2. step'.n = step.n + 1 /\ step'.pc = "delay"
    BY <1>0, <2>1
  <2>3. QED
    BY <1>0, <2>2
<1>3. CASE ~ Write /\ ~ StepAnswered
  <2>1. step'.n = step.n /\ (step' = step \/ step'.pc = "done")
    BY <1>3, OthersTellNone
  <2>2. QED
    BY <1>0, <2>1
<1>4. QED
  BY <1>1, <1>2, <1>3

\* A reply's row stays between the origin and now, and before the write in flight.
LEMMA RepliesStay ==
  ASSUME XInv, [Next]_vars, NEW r \in rows, IsReply(r)
  PROVE  /\ r.seq < PollSeq /\ r.n < step'.n
         /\ ~ Anchors' => r.ms + t0' <= now'
         /\ Anchors' => /\ r.ms + Origin' <= now'
                        /\ step'.pc = "sent" => r.ms + Origin' <= t0' + step'.ms
<1>1. /\ r.seq < PollSeq /\ r.n < step.n
      /\ ~ Anchors => r.ms + t0 <= now
      /\ Anchors => /\ r.ms + Origin <= now
                    /\ step.pc = "sent" => r.ms + Origin <= t0 + step.ms
  BY DEF XInv, RepliesInOrder
<1>2. r.ms \in Nat /\ r.n \in Nat
  BY RowsSplit
<1>3. /\ now \in Nat /\ t0 \in Nat /\ now' \in Nat /\ now <= now' /\ t0' = t0
      /\ stamping' = stamping /\ step.n \in Nat
  BY PhaseMoves DEF XInv, Clocks
<1>4. r.n < step'.n
  BY <1>1, <1>2, <1>3, StepMoves
<1>5. Anchors' = Anchors
  BY <1>3 DEF Anchors
<1>6. ~ Anchors' => r.ms + t0' <= now'
  BY <1>1, <1>2, <1>3, <1>5
<1>7. ASSUME Anchors PROVE Origin' = Origin /\ Origin \in Nat
  <2>1. \A s \in Listened : capture[s].started \in Nat /\ capture'[s].started = capture[s].started
    BY NextSpeaks DEF XInv, ConsolesSpeak
  <2>2. Listened # {}
    BY <1>7 DEF Anchors
  <2>3. QED
    BY <2>1, <2>2, SameOrigin, OriginIsEarliest
<1>8. ASSUME Anchors PROVE r.ms + Origin <= now'
  BY <1>1, <1>2, <1>3, <1>7, <1>8
<1>9. ASSUME Anchors, step'.pc = "sent" PROVE r.ms + Origin <= t0' + step'.ms
  <2>1. CASE step' = step
    BY <1>1, <1>3, <1>9, <2>1
  <2>2. CASE t0 + step'.ms = now
    BY <1>1, <1>3, <1>9, <2>2
  <2>3. QED
    BY <1>9, <2>1, <2>2, StepMoves
<1>10. QED
  BY <1>1, <1>4, <1>5, <1>6, <1>7, <1>8, <1>9

\* Replies stay in the order of the steps, in time and in number.
LEMMA NextReplies == ASSUME XInv, [Next]_vars PROVE RepliesInOrder'
<1>0. \A r, q \in rows : IsReply(r) /\ IsReply(q) =>
        /\ r.n < q.n => r.ms <= q.ms /\ r.seq < q.seq
        /\ r.n = q.n => r = q
  BY DEF XInv, RepliesInOrder
<1>1. CASE \A r \in rows' : IsReply(r) => r \in rows
  BY <1>0, <1>1, RepliesStay DEF RepliesInOrder, IsReply, IsRecv
<1>2. ASSUME NEW r, Tells(r), IsReply(r), StepAnswered,
             ~ Anchors => r.ms + t0 = now,
             Anchors => t0 + step.ms <= r.ms + Origin /\ r.ms + Origin <= now
      PROVE  RepliesInOrder'
  <2>1. /\ step.pc = "sent" /\ step.n <= Len(Steps)
        /\ step' = [step EXCEPT !.pc = "delay", !.n = @ + 1, !.ms = 0]
        /\ UNCHANGED <<now, stamping>> /\ t0' = t0 /\ capture' = capture /\ pc = "run"
    BY <1>2 DEF StepAnswered, console, main, XInv, Clocks
  <2>2. /\ step.n \in Nat /\ DOMAIN step = {"pc", "n", "ms"} /\ now \in Nat /\ t0 \in Nat
        /\ step.ms \in Nat
    BY DEF XInv, Clocks
  <2>3. step'.pc = "delay" /\ step'.n = step.n + 1
    BY <2>1, <2>2
  <2>4. /\ r.seq = StepSeq /\ StepSeq \in Nat /\ StepSeq < PollSeq
        /\ r.n = step.n /\ r.ms \in Nat /\ rows' = rows \cup {r}
    BY <1>2, <2>1, StepsCounted DEF Tells, RowType
  <2>5. Anchors' = Anchors /\ (Anchors => Origin' = Origin /\ Origin \in Nat)
    <3>1. Anchors' = Anchors
      BY <2>1 DEF Anchors
    <3>2. \A s \in Listened : capture[s].started \in Nat /\ capture'[s].started = capture[s].started
      BY <2>1 DEF XInv, ConsolesSpeak
    <3>3. Anchors => Listened # {}
      BY DEF Anchors
    <3>4. QED
      BY <3>1, <3>2, <3>3, SameOrigin, OriginIsEarliest
  <2>6. /\ r.seq < PollSeq /\ r.n < step'.n
        /\ ~ Anchors' => r.ms + t0' <= now'
        /\ Anchors' => /\ r.ms + Origin' <= now'
                       /\ step'.pc = "sent" => r.ms + Origin' <= t0' + step'.ms
    <3>1. r.n < step'.n
      BY <2>2, <2>3, <2>4
    <3>2. ~ Anchors => r.ms + t0' <= now'
      BY <1>2, <2>1, <2>2, <2>4
    <3>3. Anchors => r.ms + Origin' <= now'
      BY <1>2, <2>1, <2>5
    <3>4. QED
      BY <2>3, <2>4, <2>5, <3>1, <3>2, <3>3
  <2>7. ASSUME NEW q \in rows, IsReply(q)
        PROVE  q.n < r.n /\ ~ (r.n < q.n) /\ q.ms <= r.ms /\ q.seq < r.seq
    <3>1. /\ q.seq < PollSeq /\ q.n < step.n
          /\ ~ Anchors => q.ms + t0 <= now
          /\ Anchors => q.ms + Origin <= t0 + step.ms
      BY <2>1, <2>7 DEF XInv, RepliesInOrder
    <3>2. q.ms \in Nat /\ q.n \in Nat
      BY RowsSplit
    <3>3. q.n < r.n /\ ~ (r.n < q.n)
      BY <2>2, <2>4, <3>1, <3>2
    <3>4. q.ms <= r.ms
      <4>1. ~ Anchors => q.ms <= r.ms
        BY <1>2, <2>2, <2>4, <3>1, <3>2
      <4>2. ASSUME Anchors PROVE q.ms <= r.ms
        <5> DEFINE a == q.ms
                   b == r.ms
                   o == Origin
                   m == t0 + step.ms
        <5>1. a \in Nat /\ b \in Nat /\ o \in Nat /\ m \in Nat /\ a + o <= m /\ m <= b + o
          BY <1>2, <2>2, <2>4, <2>5, <3>1, <3>2, <4>2
        <5> HIDE DEF a, b, o, m
        <5>2. a <= b
          BY <5>1
        <5>3. QED
          BY <5>2 DEF a, b
      <4>3. QED
        BY <4>1, <4>2
    <3>5. q.seq < r.seq
      <4>1. q \in StepRows
        BY <3>1 DEF StepRows
      <4>2. QED
        BY <2>4, <4>1, StepsCounted DEF XInv, StepsAreCounted
    <3>6. QED
      BY <3>3, <3>4, <3>5
  <2>8. \A p, q \in rows' : IsReply(p) /\ IsReply(q) =>
          /\ p.n < q.n => p.ms <= q.ms /\ p.seq < q.seq
          /\ p.n = q.n => p = q
    <3> SUFFICES ASSUME NEW p \in rows', NEW q \in rows', IsReply(p), IsReply(q)
                 PROVE  /\ p.n < q.n => p.ms <= q.ms /\ p.seq < q.seq
                        /\ p.n = q.n => p = q
      OBVIOUS
    <3>1. CASE p \in rows /\ q \in rows
      BY <1>0, <3>1
    <3>2. CASE p \in rows /\ q = r
      <4>1. p.n < r.n /\ p.ms <= r.ms /\ p.seq < r.seq /\ p.n \in Nat /\ r.n \in Nat
        BY <2>2, <2>4, <2>7, <3>2, RowsSplit
      <4>2. QED
        BY <3>2, <4>1
    <3>3. CASE p = r /\ q \in rows
      <4>1. q.n < r.n /\ q.n \in Nat /\ r.n \in Nat
        BY <2>2, <2>4, <2>7, <3>3, RowsSplit
      <4>2. QED
        BY <3>3, <4>1
    <3>4. CASE p = r /\ q = r
      BY <2>2, <2>4, <3>4
    <3>5. QED
      BY <2>4, <3>1, <3>2, <3>3, <3>4
  <2>9. ASSUME NEW q \in rows', IsReply(q)
        PROVE  /\ q.seq < PollSeq /\ q.n < step'.n
               /\ ~ Anchors' => q.ms + t0' <= now'
               /\ Anchors' => /\ q.ms + Origin' <= now'
                              /\ step'.pc = "sent" => q.ms + Origin' <= t0' + step'.ms
    <3>1. CASE q \in rows
      BY <2>9, <3>1, RepliesStay
    <3>2. CASE q = r
      BY <2>6, <3>2
    <3>3. QED
      BY <2>4, <3>1, <3>2
  <2>10. QED
    BY <2>8, <2>9 DEF RepliesInOrder, IsReply, IsRecv
<1>3. CASE StepAnswered
  BY <1>1, <1>2, <1>3, AnswerTells
<1>4. CASE Write
  <2>1. PICK r : Tells(r) /\ r.kind = "write"
    BY <1>4, WriteTells
  <2>2. QED
    BY <1>1, <2>1 DEF Tells, IsReply, IsRecv
<1>5. CASE ~ Write /\ ~ StepAnswered
  BY <1>1, <1>5, OthersTellNone
<1>6. QED
  BY <1>3, <1>4, <1>5

\* Every step preserves the invariant.
LEMMA NextXInv == XInv /\ [Next]_vars => XInv'
<1> SUFFICES ASSUME XInv, [Next]_vars PROVE XInv'
  OBVIOUS
<1>1. EInv'
  BY NextEInv DEF XInv
<1>2. QED
  BY <1>1, ClocksKeep, NextSpeaks, NextSilent, NextKeepsUp, NextRows, NextWrites, NextReplies
  DEF XInv

\* The invariant holds before anything has started.
LEMMA InitXInv == Init => XInv
<1> SUFFICES ASSUME Init PROVE XInv
  OBVIOUS
<1>1. EInv
  BY InitEInv
<1>2. Clocks
  BY DEF Init, Clocks
<1>3. \A s \in Listened : capture[s] = NoCapture /\ listener[s] = Fresh
  BY DEF Init
<1>4. /\ DOMAIN NoCapture = {"on", "started", "halves"} /\ NoCapture.started = 0
      /\ NoCapture.halves = <<>> /\ Said(<<>>)
  BY DEF NoCapture, Said
<1>5. ConsolesSpeak
  BY <1>3, <1>4 DEF ConsolesSpeak, Init
<1>6. SilentBefore
  BY <1>3, <1>4 DEF SilentBefore, Init
<1>7. rows = {} /\ seq = PollSeq /\ step.pc = "delay" /\ step.n = 1
  BY DEF Init
<1>8. IsFiniteSet({}) /\ Cardinality({}) = 0
  BY FS_EmptySet
<1>9. RowsAreRows /\ WritesComeFirst /\ RepliesInOrder
  BY <1>7, <1>8 DEF RowsAreRows, WritesComeFirst, RepliesInOrder, PollSeq
<1>10. StepsAreCounted
  <2>1. StepRows = {}
    BY <1>7 DEF StepRows
  <2>2. QED
    BY <1>7, <1>8, <2>1 DEF StepsAreCounted
<1>11. ASSUME NEW s \in Listened PROVE ListenerKeepsUp(s)
  <2>1. HeardOf(s) = {}
    BY <1>7 DEF HeardOf
  <2>2. listener[s].next = 0 /\ listener[s].partial = <<>> /\ listener[s].rx = <<>>
        /\ ~ listener[s].done /\ ~ listener[s].note /\ capture[s].halves = <<>>
    BY <1>3, <1>4 DEF Fresh
  <2>3. TailIsKept(s, listener[s], capture[s].halves)
    <3>1. Times0(<<>>) = <<>>
      BY DEF Times0
    <3>2. Rest(<<>>, 0) = <<>> /\ 0 \in 0..Len(<<>>)
      BY DEF Rest
    <3>3. QED
      BY <2>2, <3>1, <3>2 DEF TailIsKept
  <2>4. ToldIsRead(listener[s], capture[s].halves, {})
    BY <2>2 DEF ToldIsRead, Told, Lines, Open
  <2>5. QED
    BY <2>1, <2>3, <2>4 DEF ListenerKeepsUp, RowsAreTimed, RowsInOrder
<1>12. outcome # "returned"
  BY DEF Init
<1>13. PollerKeepsUp
  BY <1>11, <1>12 DEF PollerKeepsUp
<1>14. QED
  BY <1>1, <1>2, <1>5, <1>6, <1>9, <1>10, <1>13 DEF XInv

\* For any consoles, steps, replies, cuts and faults: the listeners, the rows and their
\* times agree with what the consoles have said and the steps have written.
THEOREM ExchangeInvariant == Spec => []XInv
  BY InitXInv, NextXInv, PTL DEF Spec

-----------------------------------------------------------------------------
(* The properties *)

\* A row of a listened console is one that it has said.
LEMMA HeardIs == \A r : r \in Received <=> r.signal \in Listened /\ r \in HeardOf(r.signal)
  BY DEF Received, HeardOf, IsRecv

\* The first half of a line is the one half of it that starts it.
LEMMA FirstHalfIs ==
  ASSUME NEW s \in Listened, Said(capture[s].halves), NEW i \in 1..Len(capture[s].halves),
         capture[s].halves[i].first
  PROVE  FirstHalf(s, capture[s].halves[i].line) = capture[s].halves[i]
<1> DEFINE h == capture[s].halves
           n == h[i].line
           j == CHOOSE k \in HalvesOf(s, n) : h[k].first
<1>1. Len(h) \in Nat /\ DOMAIN h = 1..Len(h)
  BY SaidTypes
<1>2. i \in HalvesOf(s, n)
  BY <1>1 DEF HalvesOf
<1>3. j \in HalvesOf(s, n) /\ h[j].first
  BY <1>2
<1>4. FirstHalf(s, n) = h[j]
  BY DEF FirstHalf
<1>5. j \in 1..Len(h) /\ h[j].line = h[i].line
  BY <1>1, <1>3 DEF HalvesOf
<1> HIDE DEF j
<1>6. j = i
  BY <1>3, <1>5, FirstsDiffer
<1>7. QED
  BY <1>4, <1>6

\* The lines of the first halves are those up to the last.
LEMMA LinesUpTo ==
  ASSUME NEW h, Said(h), NEW n \in 0..Len(h)
  PROVE  {h[i].line : i \in 1..n} = 1..Told(h, n, TRUE)
<1>0. /\ Len(h) \in Nat /\ \A i \in 1..Len(h) : h[i].line \in Nat \ {0}
  BY SaidTypes
<1>1. CASE n = 0
  BY <1>1 DEF Told, Lines, Open
<1>2. CASE n # 0
  <2>1. n \in 1..Len(h) /\ h[n].line \in Nat
    BY <1>0, <1>2
  <2>2. Told(h, n, TRUE) = h[n].line
    BY <1>2, <2>1 DEF Told, Lines, Open
  <2>3. ASSUME NEW i \in 1..n PROVE h[i].line \in 1..h[n].line
    <3>1. i \in 1..Len(h) /\ (i < n \/ i = n)
      BY <1>0, <2>1
    <3>2. h[i].line <= h[n].line
      <4>1. i < n => h[i].line <= h[n].line
        BY <2>1, <3>1 DEF Said
      <4>2. QED
        BY <2>1, <3>1, <4>1
    <3>3. h[i].line \in Nat \ {0}
      BY <1>0, <3>1
    <3>4. QED
      BY <2>1, <3>2, <3>3
  <2>4. ASSUME NEW k \in 1..h[n].line PROVE \E i \in 1..n : h[i].line = k
    <3> DEFINE S == {i \in 1..n : h[i].line >= k}
    <3>1. n \in S /\ S \in SUBSET Nat
      BY <2>1, <2>4
    <3>2. PICK i \in S : \A j \in S : i <= j
      <4> HIDE DEF S
      <4>1. QED
        BY <3>1, LeastOf
    <3>3. i \in 1..n /\ i \in 1..Len(h) /\ h[i].line >= k /\ h[i].line \in Nat /\ k \in Nat \ {0}
      BY <1>0, <2>1, <3>2
    <3>4. CASE i = 1
      <4>1. h[1].line = 1
        BY <2>1, <1>0 DEF Said
      <4>2. QED
        BY <3>3, <3>4, <4>1
    <3>5. CASE i # 1
      <4>1. i - 1 \in 1..n /\ i - 1 \in 1..Len(h) /\ (i - 1) + 1 = i
        BY <1>0, <2>1, <3>3, <3>5
      <4>2. ~ (h[i - 1].line >= k)
        BY <3>2, <3>3, <4>1
      <4>3. h[i - 1].line \in Nat
        BY <1>0, <4>1
      <4>4. Follows(h[i - 1], h[i])
        BY <3>3, <4>1 DEF Said
      <4>5. h[i].line = h[i - 1].line + 1 \/ h[i].line = h[i - 1].line
        BY <4>4 DEF Follows
      <4> DEFINE a == h[i - 1].line
                 b == h[i].line
      <4>6. a \in Nat /\ b \in Nat /\ k \in Nat /\ ~ (a >= k) /\ b >= k /\ (b = a + 1 \/ b = a)
        BY <3>3, <4>2, <4>3, <4>5
      <4> HIDE DEF a, b
      <4>8. b = k
        BY <4>6
      <4>9. QED
        BY <3>3, <4>8 DEF b
    <3>6. QED
      BY <3>4, <3>5
  <2> DEFINE S == {h[i].line : i \in 1..n}
             T == 1..h[n].line
  <2>6. \A x \in S : x \in T
    BY <2>3
  <2>7. \A x \in T : x \in S
    BY <2>4
  <2> HIDE DEF S, T
  <2>8. S = T
    BY <2>6, <2>7
  <2>5. QED
    BY <2>2, <2>8 DEF S, T
<1>3. QED
  BY <1>1, <1>2

\* A row that Core placed is not before its line's first half, and at it unless Core left
\* a time out.
LEMMA CoreRow ==
  ASSUME XInv, NEW r \in Received, r.core
  PROVE  /\ Anchors
         /\ \E j \in 1..Len(capture[r.signal].halves) :
              /\ FirstHalf(r.signal, r.n) = capture[r.signal].halves[j]
              /\ r.ms >= Anchored(capture[r.signal].halves[j].at)
              /\ r.signal \notin untimed => r.ms = Anchored(capture[r.signal].halves[j].at)
<1> DEFINE s == r.signal
           h == capture[s].halves
           n == listener[s].next
<1>1. s \in Listened /\ r \in HeardOf(s)
  BY HeardIs
<1>2. Said(h) /\ n \in 0..Len(h)
  BY <1>1 DEF XInv, ConsolesSpeak, PollerKeepsUp, ListenerKeepsUp, TailIsKept
<1>3. Anchors
  BY <1>1 DEF XInv, PollerKeepsUp, ListenerKeepsUp, RowsAreTimed
<1>4. PICK i \in 1..n : /\ h[i].first /\ r.n <= h[i].line
                        /\ r.ms = Anchored(h[i].at)
                        /\ s \notin untimed => h[i].line = r.n
  BY <1>1 DEF XInv, PollerKeepsUp, ListenerKeepsUp, RowsAreTimed
<1>5. /\ Origin \in Nat /\ \A k \in 1..Len(h) : Origin <= h[k].at
      /\ r.n \in Nat
  BY <1>1, ConsoleFacts
<1>6. {x.n : x \in HeardOf(s)} = (1..Told(h, n, listener[s].done /\ ~ listener[s].note)) \ Blank
  BY <1>1 DEF XInv, PollerKeepsUp, ListenerKeepsUp, ToldIsRead
<1>7. r.n \in {x.n : x \in HeardOf(s)}
  BY <1>1
<1>8. r.n >= 1
  <2> DEFINE d == Told(h, n, listener[s].done /\ ~ listener[s].note)
  <2>1. r.n \in 1..d
    BY <1>6, <1>7
  <2> HIDE DEF d
  <2>2. QED
    BY <1>5, <2>1
<1> HIDE DEF h, n
<1>9. i \in 1..Len(h) /\ Len(h) \in Nat /\ h[i].line \in Nat /\ i \in 0..Len(h)
  <2>1. Len(h) \in Nat
    BY <1>2, SaidTypes
  <2>2. i \in 1..Len(h) /\ i \in 0..Len(h) /\ i # 0
    BY <1>2, <2>1
  <2>3. QED
    BY <1>2, <2>1, <2>2, SaidTypes
<1>10. PICK k \in 1..i : h[k].line = r.n
  <2>1. Told(h, i, TRUE) = h[i].line
    BY <1>2, <1>9, SaidTypes DEF Told, Lines, Open
  <2>2. r.n \in 1..h[i].line
    BY <1>4, <1>5, <1>8, <1>9
  <2>3. {h[k].line : k \in 1..i} = 1..h[i].line
    BY <1>2, <1>9, <2>1, LinesUpTo
  <2>4. QED
    BY <2>2, <2>3
<1>11. k \in 1..Len(h)
  BY <1>9
<1>12. PICK j \in 1..k : h[j].first /\ h[j].line = h[k].line
  BY <1>2, <1>11 DEF Said
<1>13. j \in 1..Len(h)
  BY <1>11, <1>9
<1>14. h[j].at <= h[i].at
  BY <1>2, <1>4, <1>9, <1>10, <1>12, <1>13, FirstsAscend
<1>15. s \notin untimed => j = i
  BY <1>2, <1>4, <1>9, <1>10, <1>12, <1>13, FirstsDiffer
<1>16. FirstHalf(s, r.n) = h[j]
  BY <1>1, <1>2, <1>10, <1>12, <1>13, FirstHalfIs DEF h
<1>17. r.ms >= Anchored(h[j].at)
  <2> DEFINE a == h[j].at
             b == h[i].at
             o == Origin
  <2>1. a \in Nat /\ b \in Nat /\ o \in Nat /\ a <= b /\ o <= a /\ r.ms = b - o
    BY <1>2, <1>4, <1>5, <1>9, <1>13, <1>14, SaidTypes DEF Anchored
  <2> HIDE DEF a, b, o
  <2>2. r.ms >= a - o
    BY <2>1
  <2>3. QED
    BY <2>2 DEF a, o, Anchored
<1>18. s \notin untimed => r.ms = Anchored(h[j].at)
  BY <1>4, <1>15
<1>19. QED
  BY <1>3, <1>13, <1>16, <1>17, <1>18 DEF h

\* The invariant gives each property.
LEMMA XTimes == XInv => TimeIsOfTheLine
<1> SUFFICES ASSUME XInv, NEW r \in Received
             PROVE  LET own == Anchored(FirstHalf(r.signal, r.n).at) IN
                    /\ Anchors /\ r.signal \notin untimed => r.core /\ r.ms = own
                    /\ r.core => r.ms >= own
  BY DEF TimeIsOfTheLine
<1>1. Anchors /\ r.signal \notin untimed => r.core
  <2>1. r.signal \in Listened /\ r \in HeardOf(r.signal)
    BY HeardIs
  <2>2. QED
    BY <2>1 DEF XInv, PollerKeepsUp, ListenerKeepsUp, RowsAreTimed
<1>2. QED
  BY <1>1, CoreRow

\* A half after a write's delivery has a later time, and a later number.
LEMMA XFollows == XInv => ReplyFollowsWrite
<1> SUFFICES ASSUME XInv, NEW r \in Received, r.core, NEW w \in rows, w.kind = "write",
                    FirstHalf(r.signal, r.n).after >= w.n
             PROVE  Before(w, r)
  BY DEF ReplyFollowsWrite
<1> DEFINE s == r.signal
<1>1. s \in Listened /\ r \in HeardOf(s)
  BY HeardIs
<1>2. r.core /\ PollSeq <= r.seq
  BY <1>1 DEF XInv, PollerKeepsUp, ListenerKeepsUp, RowsAreTimed
<1>3. PICK i \in 1..Len(capture[s].halves) : /\ FirstHalf(s, r.n) = capture[s].halves[i]
                                             /\ r.ms >= Anchored(capture[s].halves[i].at)
  BY <1>2, CoreRow
<1>4. r.ms >= capture[s].halves[i].at - Origin
  BY <1>3 DEF Anchored
<1>5. Said(capture[s].halves)
  BY <1>1 DEF XInv, ConsolesSpeak
<1>6. capture[s].halves[i].at \in Nat /\ capture[s].halves[i].after \in Nat
  BY <1>3, <1>5, SaidTypes
<1>7. w.ms \in Nat /\ w.n \in Nat /\ w.seq \in Nat /\ r.seq \in Nat /\ r.ms \in Nat
  BY <1>1, RowsSplit DEF HeardOf
<1>8. w.n <= capture[s].halves[i].after
  BY <1>3, <1>6, <1>7
<1>9. w.seq < PollSeq /\ w.ms + t0 <= capture[s].halves[i].at
  BY <1>1, <1>8 DEF XInv, WritesComeFirst
<1>10. Origin \in Nat /\ Origin <= t0 /\ t0 \in Nat
  BY <1>1, OriginBefore DEF XInv, Clocks
<1> DEFINE a == capture[s].halves[i].at
           o == Origin
           m == w.ms
<1>11. a \in Nat /\ o \in Nat /\ m \in Nat /\ m + t0 <= a /\ o <= t0 /\ r.ms >= a - o
  BY <1>4, <1>6, <1>7, <1>9, <1>10
<1> DEFINE x == r.ms
<1>15. x \in Nat /\ x >= a - o
  BY <1>7, <1>11
<1> HIDE DEF a, o, m, x
<1>16. m <= x
  BY <1>10, <1>11, <1>15
<1>12. m <= r.ms
  BY <1>16 DEF x
<1>13. w.seq < r.seq
  BY <1>2, <1>7, <1>9 DEF PollSeq
<1>14. QED
  BY <1>7, <1>12, <1>13 DEF Before, m

\* Rows of one signal and clock stand in the order of their lines, or of their steps.
LEMMA RecvOrder ==
  ASSUME XInv, NEW r \in rows, NEW q \in rows, IsRecv(r), IsRecv(q), r.signal = q.signal,
         r.core = q.core
  PROVE  /\ r.n < q.n => Before(r, q)
         /\ r.n = q.n => r = q
<1>1. /\ r.ms \in Nat /\ r.seq \in Nat /\ r.n \in Nat
      /\ q.ms \in Nat /\ q.seq \in Nat /\ q.n \in Nat
  BY RowsSplit
<1>2. (r.n < q.n => r.ms <= q.ms /\ r.seq < q.seq) /\ (r.n = q.n => r = q)
  <2>1. CASE r.signal \notin Listened
    <3>1. IsReply(r) /\ IsReply(q)
      BY <2>1 DEF IsReply
    <3>2. QED
      BY <3>1 DEF XInv, RepliesInOrder
  <2>2. CASE r.signal \in Listened
    <3>1. r \in HeardOf(r.signal) /\ q \in HeardOf(r.signal)
      BY DEF HeardOf
    <3>2. QED
      BY <2>2, <3>1 DEF XInv, PollerKeepsUp, ListenerKeepsUp, RowsInOrder
  <2>3. QED
    BY <2>1, <2>2
<1>3. QED
  BY <1>1, <1>2 DEF Before

\* The order of the lines decides the order of their rows, and so what the cap drops.
LEMMA XOrder == XInv => TimelineKeepsOrder
<1> SUFFICES ASSUME XInv
             PROVE  /\ \A r, q \in rows : r = q \/ Before(r, q) \/ Before(q, r)
                    /\ \A r, q \in Kept :
                         /\ IsRecv(r) /\ IsRecv(q) /\ r.signal = q.signal /\ r.core = q.core
                         /\ Before(r, q)
                         => r.n < q.n
                    /\ \A r \in Kept, q \in Capped :
                         IsRecv(r) /\ r.signal = q.signal /\ r.core = q.core => r.n < q.n
  BY DEF TimelineKeepsOrder
<1>0. \A r \in rows : r.ms \in Nat /\ r.seq \in Nat /\ r.n \in Nat
  BY RowsSplit
<1>1. ASSUME NEW r \in rows, NEW q \in rows PROVE r = q \/ Before(r, q) \/ Before(q, r)
  <2>1. r.seq = q.seq => r = q
    BY DEF XInv, RowsAreRows
  <2>2. QED
    BY <1>0, <2>1 DEF Before
<1>2. ASSUME NEW r \in rows, NEW q \in rows, IsRecv(r), IsRecv(q), r.signal = q.signal,
             r.core = q.core, Before(r, q)
      PROVE  r.n < q.n
  <2>1. ~ Before(q, r) /\ r # q
    BY <1>0, <1>2 DEF Before
  <2>2. ~ (q.n < r.n) /\ r.n # q.n
    BY <1>2, <2>1, RecvOrder
  <2>3. QED
    BY <1>0, <2>2
<1>3. ASSUME NEW r \in Kept, NEW q \in Capped, IsRecv(r), r.signal = q.signal, r.core = q.core
      PROVE  r.n < q.n
  <2> DEFINE ahead(x) == {p \in rows : IsRecv(p) /\ p.signal = x.signal /\ Before(p, x)}
  <2>1. r \in rows /\ q \in rows /\ r \notin Capped /\ IsRecv(q) /\ r # q
    BY <1>3 DEF Kept, Capped
  <2>2. Cardinality(ahead(q)) >= Cap /\ ~ (Cardinality(ahead(r)) >= Cap)
    BY <1>3, <2>1 DEF Capped
  <2>3. ASSUME Before(q, r) PROVE FALSE
    <3>1. ahead(q) \subseteq ahead(r)
      <4> SUFFICES ASSUME NEW p \in rows, Before(p, q) PROVE Before(p, r)
        BY <1>3
      <4>1. QED
        BY <1>0, <2>1, <2>3 DEF Before
    <3>2. IsFiniteSet(ahead(r)) /\ IsFiniteSet(ahead(q))
      <4>1. IsFiniteSet(rows) /\ ahead(r) \subseteq rows /\ ahead(q) \subseteq rows
        BY DEF XInv, RowsAreRows
      <4> HIDE DEF ahead
      <4>2. QED
        BY <4>1, FS_Subset
    <3> HIDE DEF ahead
    <3>3. Cardinality(ahead(q)) <= Cardinality(ahead(r))
      BY <3>1, <3>2, FS_Subset
    <3>4. Cardinality(ahead(q)) \in Nat /\ Cardinality(ahead(r)) \in Nat /\ Cap \in Nat
      BY <3>2, FS_CardinalityType
    <3>5. QED
      BY <2>2, <3>3, <3>4
  <2>4. ~ (q.n < r.n) /\ r.n # q.n
    BY <1>3, <2>1, <2>3, RecvOrder
  <2>5. QED
    BY <1>0, <2>1, <2>4
<1>4. QED
  BY <1>1, <1>2, <1>3 DEF Kept

\* Once all listeners are done, each line read has one row.
LEMMA XTold == XInv => LinesAreToldOnce
<1> SUFFICES ASSUME XInv, outcome = "returned", NEW s \in Listened, ~ listener[s].note
             PROVE  LET read == {capture[s].halves[i].line : i \in 1..listener[s].next} \ Blank IN
                    /\ {r.n : r \in {q \in Received : q.signal = s}} = read
                    /\ Cardinality({q \in Received : q.signal = s}) = Cardinality(read)
  BY DEF LinesAreToldOnce
<1> DEFINE heard == HeardOf(s)
           read == {capture[s].halves[i].line : i \in 1..listener[s].next} \ Blank
<1>1. {q \in Received : q.signal = s} = heard
  BY DEF Received, HeardOf, IsRecv
<1>2. listener[s].done /\ Said(capture[s].halves) /\ listener[s].next \in 0..Len(capture[s].halves)
  BY DEF XInv, PollerKeepsUp, ListenerKeepsUp, TailIsKept, ConsolesSpeak
<1>3. {r.n : r \in heard} = (1..Told(capture[s].halves, listener[s].next, TRUE)) \ Blank
  BY <1>2 DEF XInv, PollerKeepsUp, ListenerKeepsUp, ToldIsRead
<1>4. {r.n : r \in heard} = read
  <2>1. {capture[s].halves[i].line : i \in 1..listener[s].next}
          = 1..Told(capture[s].halves, listener[s].next, TRUE)
    BY <1>2, LinesUpTo
  <2>2. QED
    BY <1>3, <2>1
<1>5. \A r, q \in heard : r.n = q.n => r = q
  BY DEF XInv, PollerKeepsUp, ListenerKeepsUp, RowsInOrder
<1>6. IsFiniteSet(heard)
  <2>1. heard \subseteq rows /\ IsFiniteSet(rows)
    BY DEF HeardOf, XInv, RowsAreRows
  <2>2. QED
    BY <2>1, FS_Subset
<1> HIDE DEF heard, read
<1>7. Cardinality(heard) = Cardinality(read)
  <2> DEFINE f == [r \in heard |-> r.n]
  <2>1. f \in [heard -> read] /\ \A r \in heard : f[r] = r.n
    BY <1>4
  <2> HIDE DEF f
  <2>2. f \in Surjection(heard, read)
    <3>1. \A k \in read : \E r \in heard : f[r] = k
      BY <1>4, <2>1
    <3>2. QED
      BY <2>1, <3>1 DEF Surjection
  <2>3. f \in Injection(heard, read)
    BY <1>5, <2>1 DEF Injection, IsInjective
  <2>4. QED
    BY <1>6, <2>2, <2>3, FS_Surjection
<1>8. QED
  BY <1>1, <1>4, <1>7 DEF read

\* However the reads cut it, what a listened console said is told once.
THEOREM LinesToldOnce == Spec => []LinesAreToldOnce
  BY ExchangeInvariant, XTold, PTL

\* A line that came after a step's write had reached its console stands after the write,
\* when Core's clock placed it, with its own time or a later line's.
THEOREM RepliesFollowWrites == Spec => []ReplyFollowsWrite
  BY ExchangeInvariant, XFollows, PTL

\* Core's receive time on a row is that of the row's own line, as long as Core leaves no
\* time out; when it does, it is never that of an earlier line.
THEOREM TimesAreOfTheLines == Spec => []TimeIsOfTheLine
  BY ExchangeInvariant, XTimes, PTL

\* The timeline keeps each console's order, among the rows that one clock placed, and the
\* cap drops of them what came last.
THEOREM TimelineInOrder == Spec => []TimelineKeepsOrder
  BY ExchangeInvariant, XOrder, PTL
===============================================================================
