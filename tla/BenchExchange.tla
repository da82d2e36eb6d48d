---------------------------- MODULE BenchExchange ----------------------------
(***************************************************************************)
(* bench_exchange of src/bench_exchange.rs: start a capture on every       *)
(* listened console, then run the steps and a poller of the captures as    *)
(* two futures of one task, stop the captures, and merge what was written  *)
(* and received into one timeline.                                         *)
(*                                                                         *)
(* What a console receives is a sequence of halves of lines, so that a     *)
(* read may end within a line.  Time is Core's and the client's at once:   *)
(* an offset between their clocks drops out of the anchor.  Durations are  *)
(* not modelled: a sleep or a request ends at any time.                    *)
(***************************************************************************)
EXTENDS Naturals, Sequences, FiniteSets, SequencesExt

CONSTANTS
  Listen,    \* the listened signals, in order and without repetition
  Steps,     \* the signal each step writes to
  Stamping,  \* whether Core says when a capture or an exchange started
  Timing,    \* whether a reply says when its lines began: {TRUE}, {FALSE} or both
  Limit,     \* halves that Core puts in one reply at most
  Blank,     \* numbers of the lines that hold only white space
  Cap,       \* max_lines
  MaxHalves, \* bound: halves received on each signal
  MaxTime,   \* bound: the clock
  MaxFaults  \* bound: failing requests

PollSeq == 1000000 \* the poller counts on from here, after any row of a step of the same ms

\* The steps' rows stay below the poller's numbers, as the code takes for granted.
ASSUME ExchangeAssumption ==
  /\ Listen \in Seq(ToSet(Listen)) /\ IsInjective(Listen)
  /\ Steps \in Seq(ToSet(Steps)) /\ 2 * Len(Steps) <= PollSeq
  /\ Stamping \subseteq BOOLEAN /\ Timing \subseteq BOOLEAN
  /\ Limit \in Nat \ {0}
  /\ {Cap, MaxTime, MaxFaults} \subseteq Nat /\ MaxHalves \in [ToSet(Listen) -> Nat]

VARIABLES
  now,
  capture,  \* Core: [signal -> whether it records, its start, the halves received]
  wire,     \* steps whose line has reached its console
  pc,       \* where run is
  at,       \* the listener it starts; those below it have started
  undone,   \* listeners it has tried to stop after a start that failed
  t0,       \* when all captures had started: the origin of the timeline
  step,     \* the steps future: where it is, the step, when that was written
  finished, \* the flag that the steps future sets
  failure,  \* whether a step failed
  poll,     \* the poller: where it is, the listener, the stamp, the flag it read
  listener, \* [signal -> Listener]
  seq,      \* rows the poller has stamped
  rows,     \* all rows
  outcome,  \* how run returned
  stamping, \* whether this Core says when captures and exchanges started
  unsure,   \* history: signals of which a start, or the stop that undoes it, failed
  untimed,  \* history: signals of which Core left out when a line began
  faults

console == <<capture, wire>>
main    == <<pc, at, undone, t0, outcome>>
stepper == <<step, finished, failure>>
poller  == <<poll, listener, seq>>
history == <<unsure, untimed>>
vars    == <<now, console, main, stepper, poller, rows, stamping, history, faults>>

Listened == ToSet(Listen)
Signals  == Listened \cup ToSet(Steps)
Times    == 0..MaxTime

NoCapture == [on |-> FALSE, started |-> 0, halves |-> <<>>]
Fresh == [next |-> 0, partial |-> <<>>, done |-> FALSE, note |-> FALSE, total |-> 0, rx |-> <<>>]

TypeOK ==
  /\ now \in Times
  /\ \A s \in Listened : capture[s].started \in Times /\ Len(capture[s].halves) <= MaxHalves[s]
  /\ wire \in 0..Len(Steps)
  /\ pc \in {"check", "start", "undo", "run", "returned"}
  /\ at \in 1..Len(Listen) + 1 /\ undone \in 0..Len(Listen)
  /\ t0 \in Times
  /\ step.pc \in {"delay", "sent", "tail", "done"} /\ step.n \in 1..Len(Steps) + 1
  /\ finished \in BOOLEAN /\ failure \in BOOLEAN
  /\ poll.pc \in {"sleep", "read", "final", "stop", "done"} /\ poll.l \in 1..Len(Listen) + 1
  /\ \A s \in Listened :
       /\ listener[s].next <= listener[s].total
       /\ Len(listener[s].partial) <= 1
       /\ listener[s].note => listener[s].done
  /\ \A r \in rows : r.signal \in Signals /\ r.kind \in {"write", "recv"}
  /\ outcome \in {"none", "refused", "returned"}
  /\ outcome = "none" <=> pc # "returned"
  /\ unsure \subseteq Listened /\ untimed \subseteq Listened
  /\ faults \in 0..MaxFaults

Init ==
  /\ now = 0
  /\ capture = [s \in Listened |-> NoCapture]
  /\ wire = 0
  /\ pc = "check"
  /\ at = 1
  /\ undone = 0
  /\ t0 = 0
  /\ step = [pc |-> "delay", n |-> 1, ms |-> 0]
  /\ finished = FALSE
  /\ failure = FALSE
  /\ poll = [pc |-> "sleep", l |-> 1, ms |-> 0, last |-> FALSE]
  /\ listener = [s \in Listened |-> Fresh]
  /\ seq = PollSeq
  /\ rows = {}
  /\ outcome = "none"
  /\ stamping \in Stamping
  /\ unsure = {} /\ untimed = {}
  /\ faults = 0

-----------------------------------------------------------------------------
(* Time, the consoles and Core *)

Tick ==
  /\ pc # "returned" /\ now < MaxTime
  /\ now' = now + 1
  /\ UNCHANGED <<console, main, stepper, poller, rows, stamping, history, faults>>

Fault == faults < MaxFaults /\ faults' = faults + 1

\* A console says the start, the end or the whole of a line.
Receive(s) ==
  /\ capture[s].on /\ Len(capture[s].halves) < MaxHalves[s]
  /\ LET halves == capture[s].halves
         open   == halves # <<>> /\ ~ Last(halves).end
         line   == IF open THEN Last(halves).line
                   ELSE IF halves = <<>> THEN 1 ELSE Last(halves).line + 1
     IN \E end \in (IF open THEN {TRUE} ELSE BOOLEAN) :
          capture' = [capture EXCEPT ![s].halves =
                        Append(@, [line |-> line, at |-> now, after |-> wire,
                                   first |-> ~ open, end |-> end])]
  /\ UNCHANGED <<now, wire, main, stepper, poller, rows, stamping, history, faults>>

\* The line of the step in flight reaches its console.
Deliver ==
  /\ step.pc = "sent" /\ wire < step.n
  /\ wire' = step.n
  /\ UNCHANGED <<now, capture, main, stepper, poller, rows, stamping, history, faults>>

-----------------------------------------------------------------------------
(* run: from list_signals to the captures that have all started *)

Return(how) == pc' = "returned" /\ outcome' = how

\* list_signals fails, or does not list a signal.
Refuse ==
  /\ pc = "check"
  /\ Return("refused")
  /\ UNCHANGED <<now, console, at, undone, t0, stepper, poller, rows, stamping, history, faults>>

Check ==
  /\ pc = "check"
  /\ pc' = "start"
  /\ UNCHANGED <<now, console, at, undone, t0, outcome, stepper, poller, rows, stamping, history, faults>>

StartCapture ==
  /\ pc = "start" /\ at <= Len(Listen)
  /\ capture' = [capture EXCEPT ![Listen[at]] = [@ EXCEPT !.on = TRUE, !.started = now]]
  /\ at' = at + 1
  /\ UNCHANGED <<now, wire, pc, undone, t0, outcome, stepper, poller, rows, stamping, history, faults>>

\* capture_start fails: Core answers 409 or 400, or its answer does not come, and then
\* it may have started the capture.
StartFails ==
  /\ pc = "start" /\ at <= Len(Listen)
  /\ Fault
  /\ \/ UNCHANGED capture
     \/ capture' = [capture EXCEPT ![Listen[at]] = [@ EXCEPT !.on = TRUE, !.started = now]]
  /\ unsure' = unsure \cup {Listen[at]}
  /\ pc' = "undo"
  /\ UNCHANGED <<now, wire, at, undone, t0, outcome, stepper, poller, rows, stamping, untimed>>

\* The captures that have started are stopped one by one.  An error is not looked at; Core
\* may have stopped the capture all the same.
Undo ==
  /\ pc = "undo"
  /\ IF undone + 1 < at
     THEN LET s == Listen[undone + 1] IN
          /\ \/ /\ capture' = [capture EXCEPT ![s].on = FALSE]
                /\ UNCHANGED <<unsure, faults>>
             \/ /\ capture' \in {capture, [capture EXCEPT ![s].on = FALSE]}
                /\ unsure' = unsure \cup {s}
                /\ Fault
          /\ undone' = undone + 1
          /\ UNCHANGED <<pc, outcome>>
     ELSE Return("refused") /\ UNCHANGED <<capture, undone, unsure, faults>>
  /\ UNCHANGED <<now, wire, at, t0, stepper, poller, rows, stamping, untimed>>

\* Not the code: the clock of the timeline runs since the call began.
RunTimedFromCall ==
  /\ pc = "start" /\ at > Len(Listen)
  /\ pc' = "run"
  /\ UNCHANGED <<now, console, at, undone, t0, outcome, stepper, poller, rows, stamping, history, faults>>

Run ==
  /\ pc = "start" /\ at > Len(Listen)
  /\ pc' = "run"
  /\ t0' = now
  /\ UNCHANGED <<now, console, at, undone, outcome, stepper, poller, rows, stamping, history, faults>>

Ms == now - t0

\* Anchor::ms: Core's clock on the timeline.  The earliest start lands where all
\* captures had started.
Min2(a, b) == IF a <= b THEN a ELSE b
Origin == CHOOSE u \in {capture[s].started : s \in Listened} :
            \A s \in Listened : u <= capture[s].started
Anchored(utc) == utc - Origin

Anchors == stamping /\ Listened # {}

-----------------------------------------------------------------------------
(* The steps *)

Row(ms, k, signal, kind, n, core) ==
  [ms |-> ms, seq |-> k, signal |-> signal, kind |-> kind, n |-> n, core |-> core]

StepSeq == Cardinality({r \in rows : r.seq < PollSeq})

Write ==
  /\ pc = "run" /\ step.pc = "delay" /\ step.n <= Len(Steps)
  /\ rows' = rows \cup {Row(Ms, StepSeq, Steps[step.n], "write", step.n, FALSE)}
  /\ step' = [step EXCEPT !.pc = "sent", !.ms = Ms]
  /\ UNCHANGED <<now, console, main, finished, failure, poller, stamping, history, faults>>

\* The reply of a signal that is not listened to is stamped with the beginning of the
\* exchange, by Core's clock if it says, and never before the write.
ReplyMs == IF Anchors
           THEN {IF Anchored(u) < step.ms THEN step.ms ELSE Anchored(u) : u \in t0 + step.ms..now}
           ELSE {Ms}

StepAnswered ==
  /\ pc = "run" /\ step.pc = "sent" /\ wire = step.n
  /\ LET s == Steps[step.n] IN
       IF s \notin Listened
       THEN \E ms \in ReplyMs :
              rows' = rows \cup {Row(ms, StepSeq, s, "recv", step.n, Anchors)}
       ELSE UNCHANGED rows
  /\ step' = [step EXCEPT !.pc = "delay", !.n = @ + 1, !.ms = 0]
  /\ UNCHANGED <<now, console, main, finished, failure, poller, stamping, history, faults>>

\* Not the code: a failure that does not tell the poller.
StepFailsUntold ==
  /\ pc = "run" /\ step.pc = "sent"
  /\ Fault
  /\ failure' = TRUE
  /\ step' = [step EXCEPT !.pc = "done"]
  /\ UNCHANGED <<now, console, main, finished, poller, rows, stamping, history>>

\* The line may have reached the console.
StepFails ==
  /\ pc = "run" /\ step.pc = "sent"
  /\ Fault
  /\ failure' = TRUE /\ finished' = TRUE
  /\ step' = [step EXCEPT !.pc = "done"]
  /\ UNCHANGED <<now, console, main, poller, rows, stamping, history>>

\* After tail_ms.
StepsDone ==
  /\ pc = "run" /\ step.pc = "delay" /\ step.n > Len(Steps)
  /\ finished' = TRUE
  /\ step' = [step EXCEPT !.pc = "done"]
  /\ UNCHANGED <<now, console, main, failure, poller, rows, stamping, history, faults>>

-----------------------------------------------------------------------------
(* The poller *)

Wake ==
  /\ pc = "run" /\ poll.pc = "sleep" /\ Listen # <<>>
  /\ poll' = [pc |-> "read", l |-> 1, ms |-> Ms, last |-> finished]
  /\ UNCHANGED <<now, console, main, stepper, listener, seq, rows, stamping, history, faults>>

\* Not the code: a last read for the stop.
AdvancedUnstopped ==
  LET end == poll.l = Len(Listen) IN
  CASE ~ end              -> [poll EXCEPT !.l = @ + 1]
    [] end /\ ~ poll.last -> [poll EXCEPT !.pc = "sleep", !.ms = 0]
    [] end /\ poll.last   -> [poll EXCEPT !.pc = "done", !.ms = 0]

\* Where the poller goes from listener poll.l.
Advanced ==
  LET end == poll.l = Len(Listen) IN
  CASE poll.pc = "read" /\ ~ end              -> [poll EXCEPT !.l = @ + 1]
    [] poll.pc = "read" /\ end /\ ~ poll.last -> [poll EXCEPT !.pc = "sleep", !.ms = 0]
    [] poll.pc = "read" /\ end /\ poll.last   -> [poll EXCEPT !.pc = "final", !.l = 1, !.ms = Ms]
    [] poll.pc = "final"                      -> [poll EXCEPT !.pc = "stop"]
    [] poll.pc = "stop"  /\ ~ end             -> [poll EXCEPT !.pc = "final", !.l = @ + 1]
    [] poll.pc = "stop"  /\ end               -> [poll EXCEPT !.pc = "done", !.ms = 0]

Draining == pc = "run" /\ poll.pc \in {"read", "final", "stop"}
Current  == Listen[poll.l]

SkipDone ==
  /\ Draining /\ listener[Current].done
  /\ poll' = Advanced
  /\ UNCHANGED <<now, console, main, stepper, listener, seq, rows, stamping, history, faults>>

OpenTail(all) == IF all # <<>> /\ ~ Last(all).end THEN <<Last(all)>> ELSE <<>>

\* The elements of text at these places, in order.
OnlyAt(text, places) ==
  LET only[i \in 0..Len(text)] ==
        IF i = 0 THEN <<>> ELSE IF i \in places THEN Append(only[i - 1], text[i]) ELSE only[i - 1]
  IN  only[Len(text)]

Ends(text)   == {i \in DOMAIN text : text[i].end}
Starts(text) == {i \in DOMAIN text : text[i].first}

\* Not the code: an unterminated tail is never flushed; everything stays to be completed;
\* a blank line takes no time.
CompletedOnly(all, flush) == OnlyAt(all, Ends(all))
NothingDrained(all)       == all
PoppedByRows(lines)       == Cardinality({i \in DOMAIN lines : lines[i].line \notin Blank})

\* The lines that a reply completes, and the unterminated tail when it is flushed.
Completed(all, flush) ==
  OnlyAt(all, Ends(all)) \o (IF flush THEN OpenTail(all) ELSE <<>>)

Unfinished(all) == OpenTail(all)

\* `lines` of a reply, which Core may leave out: the receive time of every line that
\* starts in it.
RxTimes(text, timed) ==
  LET starts == OnlyAt(text, Starts(text))
  IN  IF timed THEN [i \in DOMAIN starts |-> starts[i].at] ELSE <<>>

\* push_line: a raw line is one entry of the queue of times, even when it is blank
\* and yields no row.
Popped(lines) == Len(lines)

Shown(lines, j) == Cardinality({i \in 1..j - 1 : lines[i].line \notin Blank})

LineRows(s, lines, rx) ==
  LET timed(j) == Anchors /\ j <= Len(rx)
  IN  {Row(IF timed(j) THEN Anchored(rx[j]) ELSE poll.ms, seq + Shown(lines, j), s, "recv",
           lines[j].line, timed(j)) : j \in {i \in DOMAIN lines : lines[i].line \notin Blank}}

\* What Core has from `next` on, as much as one reply holds.
Reply(s) ==
  LET h == capture[s].halves IN
  SubSeq(h, listener[s].next + 1, Min2(listener[s].next + Limit, Len(h)))

\* A reply in which no line begins has no time to leave out.
Timings(text) == IF Starts(text) = {} THEN {TRUE} ELSE Timing

Absorb(s, text, timed, last) ==
  LET l     == listener[s]
      all   == l.partial \o text
      rx    == l.rx \o RxTimes(text, timed)
      lines == Completed(all, last)
      total == Len(capture[s].halves)
      next  == l.next + Len(text)
  IN  /\ listener' = [listener EXCEPT ![s] =
                        [next |-> next, total |-> total, done |-> last, note |-> FALSE,
                         partial |-> IF last THEN <<>> ELSE Unfinished(all),
                         rx |-> SubSeq(rx, Popped(lines) + 1, Len(rx))]]
      /\ rows' = rows \cup LineRows(s, lines, rx)
      /\ seq' = seq + Shown(lines, Len(lines) + 1)
      /\ untimed' = IF timed THEN untimed ELSE untimed \cup {s}
      /\ poll' = IF last \/ text = <<>> \/ next >= total THEN Advanced ELSE poll

Drain ==
  /\ Draining /\ ~ listener[Current].done /\ poll.pc # "stop"
  /\ \E timed \in Timings(Reply(Current)) : Absorb(Current, Reply(Current), timed, FALSE)
  /\ UNCHANGED <<now, console, main, stepper, stamping, unsure, faults>>

\* The stop answers as a read does, once.
DrainLast ==
  /\ Draining /\ ~ listener[Current].done /\ poll.pc = "stop"
  /\ capture' = [capture EXCEPT ![Current].on = FALSE]
  /\ \E timed \in Timings(Reply(Current)) : Absorb(Current, Reply(Current), timed, TRUE)
  /\ UNCHANGED <<now, wire, main, stepper, stamping, unsure, faults>>

\* A read or the stop fails; a stop may have stopped the capture.
DrainFails ==
  /\ Draining /\ ~ listener[Current].done
  /\ Fault
  /\ \/ UNCHANGED capture
     \/ poll.pc = "stop" /\ capture' = [capture EXCEPT ![Current].on = FALSE]
  /\ listener' = [listener EXCEPT ![Current] = [@ EXCEPT !.note = TRUE, !.done = TRUE]]
  /\ poll' = Advanced
  /\ UNCHANGED <<now, wire, main, stepper, seq, rows, stamping, history>>

Assemble ==
  /\ pc = "run" /\ step.pc = "done" /\ (poll.pc = "done" \/ Listen = <<>>)
  /\ Return("returned")
  /\ UNCHANGED <<now, console, at, undone, t0, stepper, poller, rows, stamping, history, faults>>

\* build_timeline: by time, then arrival; received rows up to the cap.  What the other
\* filters drop is a row that was never kept, and left out.
Before(r, q) == r.ms < q.ms \/ (r.ms = q.ms /\ r.seq < q.seq)
IsRecv(r) == r.kind = "recv"

\* Not the code: the last max_lines lines.
CappedFromTheEnd ==
  {r \in rows : IsRecv(r) /\
     Cardinality({q \in rows : IsRecv(q) /\ q.signal = r.signal /\ Before(r, q)}) >= Cap}

Capped ==
  {r \in rows : IsRecv(r) /\
     Cardinality({q \in rows : IsRecv(q) /\ q.signal = r.signal /\ Before(q, r)}) >= Cap}

\* The timeline is these rows in the order of Before.
Kept == rows \ Capped

Done == pc = "returned" /\ UNCHANGED vars

MainStep == Refuse \/ Check \/ StartCapture \/ StartFails \/ Undo \/ Run \/ Assemble
StepStep == Write \/ StepAnswered \/ StepFails \/ StepsDone
PollStep == Wake \/ SkipDone \/ Drain \/ DrainLast \/ DrainFails

Next ==
  \/ Tick \/ (\E s \in Listened : Receive(s)) \/ Deliver
  \/ MainStep \/ StepStep \/ PollStep \/ Done

\* The requests are answered and the runtime polls both futures.
Fairness == WF_vars(Deliver) /\ WF_vars(MainStep) /\ WF_vars(StepStep) /\ WF_vars(PollStep)

Spec == Init /\ [][Next]_vars /\ Fairness

-----------------------------------------------------------------------------
(* Properties *)

HalvesOf(s, n) == {i \in DOMAIN capture[s].halves : capture[s].halves[i].line = n}
FirstHalf(s, n) == capture[s].halves[CHOOSE i \in HalvesOf(s, n) : capture[s].halves[i].first]
Received == {r \in rows : r.kind = "recv" /\ r.signal \in Listened}

\* "on any failure stop the ones already running": an exchange that returns leaves no
\* capture running on Core without a note; one that is refused leaves none running but
\* those whose own start, or own stop, failed and may or may not have reached Core.
CapturesAreStopped ==
  /\ outcome = "returned" => \A s \in Listened : capture[s].on => listener[s].note
  /\ outcome = "refused"  => \A s \in Listened : capture[s].on => s \in unsure

\* "on any failure stop the ones already running" taken to the letter: if the start of one
\* capture is all that failed, none is left running.
FailedStartLeavesNone ==
  outcome = "refused" /\ faults <= 1 => \A s \in Listened : ~ capture[s].on

\* What a listened console said from its start to the stop is told once, however the
\* reads cut it, unless the stop's one reply could not hold the rest.
LinesAreToldOnce ==
  outcome = "returned" =>
    \A s \in Listened : ~ listener[s].note =>
      LET read == {capture[s].halves[i].line : i \in 1..listener[s].next} \ Blank IN
      /\ {r.n : r \in {q \in Received : q.signal = s}} = read
      /\ Cardinality({q \in Received : q.signal = s}) = Cardinality(read)

\* "a reply cannot precede its write": a row placed by Core's clock, of a line that Core
\* received after a step's write, stands after that write in the timeline, also when the
\* row took the time of a later line.
ReplyFollowsWrite ==
  \A r \in Received, w \in rows :
    w.kind = "write" /\ r.core /\ FirstHalf(r.signal, r.n).after >= w.n => Before(w, r)

\* As long as Core says of every line when it began, each line is placed by Core's clock
\* at its own time; when Core left times out, a line may take that of a later one, but
\* never that of an earlier one.
TimeIsOfTheLine ==
  \A r \in Received :
    LET own == Anchored(FirstHalf(r.signal, r.n).at) IN
    /\ Anchors /\ r.signal \notin untimed => r.core /\ r.ms = own
    /\ r.core => r.ms >= own

\* "those place a row exactly", of a Core that leaves times out of some replies.
CoreRowsAreExact ==
  \A r \in Received : r.core => r.ms = Anchored(FirstHalf(r.signal, r.n).at)

\* The rows have one order by time and arrival; in the timeline the lines of a console
\* that were placed by one clock stand in the order it said them, and what max_lines
\* drops of them is what came last.
TimelineKeepsOrder ==
  outcome = "returned" =>
    /\ \A r, q \in rows : r = q \/ Before(r, q) \/ Before(q, r)
    /\ \A r, q \in Kept :
         /\ IsRecv(r) /\ IsRecv(q) /\ r.signal = q.signal /\ r.core = q.core
         /\ Before(r, q)
         => r.n < q.n
    /\ \A r \in Kept, q \in Capped :
         IsRecv(r) /\ r.signal = q.signal /\ r.core = q.core => r.n < q.n

\* The doc's promise for a Core without times: a row stamped by a poll is "a ceiling".
PolledRowIsCeiling ==
  \A r \in Received : ~ r.core => r.ms + t0 >= FirstHalf(r.signal, r.n).at

\* bench_exchange returns, whatever fails.
ExchangeEnds == <>(pc = "returned")
==============================================================================
