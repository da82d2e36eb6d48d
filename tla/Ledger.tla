------------------------------- MODULE Ledger --------------------------------
(***************************************************************************)
(* The hardware test ledger of src/ledger.rs: tool calls and CLI processes *)
(* submit studies to Core and append rows to rows.jsonl, and every view of *)
(* the ledger first settles the rows whose studies have ended.  Nothing    *)
(* locks the file: what one call reads, another has appended to since.     *)
(*                                                                         *)
(* A row is written in two steps, the object and its newline, because      *)
(* writeln! passes both to an unbuffered file.  The pending view is a      *)
(* function of the file.  Left out: what is attached (it sorts the pending *)
(* tests, it does not choose them), the image's hash (compared like the    *)
(* commit, but by the caller's choice), and rows that name no test.        *)
(***************************************************************************)
EXTENDS Naturals, Sequences

CONSTANTS
  Callers,     \* tool calls and CLI processes of one project
  Tests,       \* ids in tests.toml
  Newline,     \* the end of a line in rows.jsonl
  NoRow,       \* "no row to write"
  HandResults, \* the RESULTS that are added by hand
  MaxStudies,  \* bound: studies posted
  MaxEvents    \* bound: commits, rows added by hand, failures and kills, together

ASSUME LedgerAssumption ==
  /\ {MaxStudies, MaxEvents} \subseteq Nat
  /\ HandResults \subseteq {"pass", "fail", "skipped"}

VARIABLES
  record,     \* Core: [study -> its test and status]; studies run in the order 1, 2, ..
  file,       \* rows.jsonl: rows and newlines
  head,       \* HEAD of the project's tree; commits are 1, 2, ..
  reachable,  \* the commits that are ancestors of the branch
  pc,         \* where each call is
  own,        \* [Callers -> the study it has posted, or 0]
  draft,      \* [Callers -> the row it is about to write]
  todo,       \* [Callers -> positions of the unsettled rows settle still goes through]
  due,        \* [Callers -> studies that had ended and were unsettled when settle began]
  hand,       \* rows added by hand
  faults,
  crossed     \* whether two calls were ever under way at once

external == <<record, head, reachable>>
calls    == <<pc, own, draft, todo, due>>
vars     == <<external, file, calls, hand, faults, crossed>>

Studies  == 1..MaxStudies
Commits  == 1..MaxEvents + 1
Places   == {"idle", "posted", "write", "newline", "settle", "view"}

\* What a study's record means for its test; nothing while it still runs.  "met" is
\* completed with every step passed, "missed" is completed otherwise or failed.
Verdict == [met |-> "pass", missed |-> "fail", interrupted |-> "interrupted"]

Ended    == {"met", "missed", "interrupted"}
Statuses == Ended \cup {"unposted", "running"}
Rows     == [study : 0..MaxStudies, test : Tests, commit : Commits, by : {"run", "hand", "settle"},
             result : {"submitted", "pass", "fail", "skipped", "interrupted"}]

ASSUME RowAssumption == {NoRow, Newline} \cap Rows = {}

TypeOK ==
  /\ record \in [Studies -> [test : Tests, status : Statuses]]
  /\ file \in Seq(Rows \cup {Newline})
  /\ head \in Commits
  /\ reachable \subseteq Commits
  /\ pc \in [Callers -> Places]
  /\ own \in [Callers -> 0..MaxStudies]
  /\ draft \in [Callers -> Rows \cup {NoRow}]
  /\ todo \in [Callers -> SUBSET DOMAIN file]
  /\ due \in [Callers -> SUBSET Studies]
  /\ \A c \in Callers : pc[c] \in {"write", "newline"} <=> draft[c] # NoRow
  /\ hand \in 0..MaxEvents
  /\ faults \in 0..MaxEvents
  /\ crossed \in BOOLEAN

Init ==
  /\ record \in [Studies -> [test : Tests, status : {"unposted"}]]
  /\ file = <<>>
  /\ head = 1
  /\ reachable = {1}
  /\ pc = [c \in Callers |-> "idle"]
  /\ own = [c \in Callers |-> 0]
  /\ draft = [c \in Callers |-> NoRow]
  /\ todo = [c \in Callers |-> {}]
  /\ due = [c \in Callers |-> {}]
  /\ hand = 0
  /\ faults = 0
  /\ crossed = FALSE

-----------------------------------------------------------------------------
(* Reading the file *)

IsRow(i) == i \in DOMAIN file /\ file[i] # Newline
RowsAt   == {i \in DOMAIN file : IsRow(i)}

\* load_rows fails on a line that is not one object.
Readable == \A i \in DOMAIN file : ~ (IsRow(i) /\ IsRow(i + 1))

Closed(s) == \E i \in RowsAt : file[i].study = s /\ file[i].result # "submitted"

\* Submitted rows with no other row of their study.
Unsettled == {i \in RowsAt : file[i].result = "submitted" /\ ~ Closed(file[i].study)}

First(S) == {i \in S : \A j \in S : i <= j}
Last(S)  == CHOOSE i \in S : \A j \in S : j <= i

RowsOf(t) == {i \in RowsAt : file[i].test = t}

\* The pending view leaves a test out when its latest row is a pass whose commit is
\* reachable.
Done(t) ==
  /\ RowsOf(t) # {}
  /\ file[Last(RowsOf(t))].result = "pass"
  /\ file[Last(RowsOf(t))].commit \in reachable

-----------------------------------------------------------------------------
(* Core and the tree *)

\* It ends, by itself or by a restart of Core.
StudyEnds(s) ==
  /\ record[s].status = "running"
  /\ \E status \in Ended : record' = [record EXCEPT ![s].status = status]
  /\ UNCHANGED <<file, head, reachable, calls, hand, faults, crossed>>

Room == (head - 1) + hand + faults < MaxEvents

\* A commit on top of the branch, or an amended one that leaves HEAD unreachable.
TreeMoves ==
  /\ Room /\ head' = head + 1
  /\ \E kept \in {reachable, reachable \ {head}} : reachable' = kept \cup {head + 1}
  /\ UNCHANGED <<record, file, calls, hand, faults, crossed>>

-----------------------------------------------------------------------------
(* Calls *)

Fault == Room /\ faults' = faults + 1

Begin(c) ==
  /\ pc[c] = "idle"
  /\ crossed' = (crossed \/ \E d \in Callers : pc[d] # "idle")

\* run_study posts its study: Core runs one at a time and refuses with a conflict.
PostStudy(c) ==
  /\ Begin(c)
  /\ ~ \E s \in Studies : record[s].status = "running"
  /\ \E s \in Studies :
        /\ record[s].status = "unposted"
        /\ \A r \in Studies : record[r].status = "unposted" => s <= r
        /\ record' = [record EXCEPT ![s].status = "running"]
        /\ own' = [own EXCEPT ![c] = s]
  /\ pc' = [pc EXCEPT ![c] = "posted"]
  /\ UNCHANGED <<file, head, reachable, draft, todo, due, hand, faults>>

Write(c, row) ==
  /\ draft' = [draft EXCEPT ![c] = row]
  /\ pc' = [pc EXCEPT ![c] = "write"]

\* record_submission reads HEAD after the study was posted, asks Core for the roles,
\* and appends the row.
RecordSubmission(c) ==
  /\ pc[c] = "posted"
  /\ Write(c, [study |-> own[c], test |-> record[own[c]].test, commit |-> head,
               by |-> "run", result |-> "submitted"])
  /\ own' = [own EXCEPT ![c] = 0]
  /\ UNCHANGED <<external, file, todo, due, hand, faults, crossed>>

\* The bench header or the image cannot be read: the row is skipped, the study runs.
SkipSubmission(c) ==
  /\ pc[c] = "posted" /\ Fault
  /\ own' = [own EXCEPT ![c] = 0]
  /\ pc' = [pc EXCEPT ![c] = "idle"]
  /\ UNCHANGED <<external, file, draft, todo, due, hand, crossed>>

\* ledger_add: any result it accepts, for any test and perhaps a study.
Add(c) ==
  /\ Begin(c)
  /\ Room /\ hand' = hand + 1
  /\ \E t \in Tests, r \in HandResults, s \in {0} \cup {s \in Studies : record[s].status # "unposted"} :
        Write(c, [study |-> s, test |-> t, commit |-> head, by |-> "hand", result |-> r])
  /\ UNCHANGED <<external, file, own, todo, due, faults>>

\* ledger_show and ledger_pending settle first; rows that cannot be read are no error
\* of settle's callers until they read them again.
BeginSettle(c) ==
  /\ Begin(c)
  /\ pc' = [pc EXCEPT ![c] = IF Readable THEN "settle" ELSE "view"]
  /\ todo' = [todo EXCEPT ![c] = IF Readable THEN Unsettled ELSE {}]
  /\ due' = [due EXCEPT ![c] =
       IF Readable THEN {s \in Studies : record[s].status \in Ended
                                           /\ \E i \in Unsettled : file[i].study = s}
       ELSE {}]
  /\ UNCHANGED <<external, file, own, draft, hand, faults>>

\* Not the code: a closing row that names the tree's commit of the moment.
ClosingAtHead(row) ==
  [row EXCEPT !.result = Verdict[record[row.study].status], !.by = "settle", !.commit = head]

\* The submitted row again, commit and all, with the verdict for a result.
Closing(row) == [row EXCEPT !.result = Verdict[record[row.study].status], !.by = "settle"]

\* Not the code: the newest study first.
SettleNewest(c) ==
  /\ pc[c] = "settle" /\ todo[c] # {}
  /\ LET i == Last(todo[c]) IN
     /\ todo' = [todo EXCEPT ![c] = @ \ {i}]
     /\ IF record[file[i].study].status \in Ended
        THEN Write(c, Closing(file[i]))
        ELSE UNCHANGED <<draft, pc>>
  /\ UNCHANGED <<external, file, own, due, hand, faults, crossed>>

\* Not the code: a study that still runs ends the loop.
SettleUntilRunning(c) ==
  /\ pc[c] = "settle"
  /\ \E i \in First(todo[c]) :
     IF record[file[i].study].status \in Ended
     THEN todo' = [todo EXCEPT ![c] = @ \ {i}] /\ Write(c, Closing(file[i]))
     ELSE todo' = [todo EXCEPT ![c] = {}] /\ UNCHANGED <<draft, pc>>
  /\ UNCHANGED <<external, file, own, due, hand, faults, crossed>>

\* One turn of settle's loop: Core's answer decides; a running study is left alone.
SettleOne(c) ==
  /\ pc[c] = "settle"
  /\ \E i \in First(todo[c]) :
     /\ todo' = [todo EXCEPT ![c] = @ \ {i}]
     /\ IF record[file[i].study].status \in Ended
        THEN Write(c, Closing(file[i]))
        ELSE UNCHANGED <<draft, pc>>
  /\ UNCHANGED <<external, file, own, due, hand, faults, crossed>>

\* Core does not answer for this study: `continue`.
SettleUnanswered(c) ==
  /\ pc[c] = "settle" /\ Fault
  /\ \E i \in First(todo[c]) :
     /\ todo' = [todo EXCEPT ![c] = @ \ {i}]
     /\ due' = [due EXCEPT ![c] = @ \ {file[i].study}]
  /\ UNCHANGED <<external, file, pc, own, draft, hand, crossed>>

SettleEnds(c) ==
  /\ pc[c] = "settle" /\ todo[c] = {}
  /\ pc' = [pc EXCEPT ![c] = "view"]
  /\ UNCHANGED <<external, file, own, draft, todo, due, hand, faults, crossed>>

\* The rows are read again and the view is computed, or the call fails.
View(c) ==
  /\ pc[c] = "view"
  /\ pc' = [pc EXCEPT ![c] = "idle"]
  /\ due' = [due EXCEPT ![c] = {}]
  /\ UNCHANGED <<external, file, own, draft, todo, hand, faults, crossed>>

-----------------------------------------------------------------------------
(* append_row *)

WriteObject(c) ==
  /\ pc[c] = "write"
  /\ file' = Append(file, draft[c])
  /\ pc' = [pc EXCEPT ![c] = "newline"]
  /\ UNCHANGED <<external, own, draft, todo, due, hand, faults, crossed>>

\* settle goes on with its next row; the other calls have answered.
WriteNewline(c) ==
  /\ pc[c] = "newline"
  /\ file' = Append(file, Newline)
  /\ pc' = [pc EXCEPT ![c] = IF draft[c].by = "settle" THEN "settle" ELSE "idle"]
  /\ draft' = [draft EXCEPT ![c] = NoRow]
  /\ UNCHANGED <<external, own, todo, due, hand, faults, crossed>>

\* The open or a write fails: ledger_add and record_submission say so; settle ends
\* with its error, which its callers take for "none settled".
WriteFails(c) ==
  /\ pc[c] \in {"write", "newline"} /\ Fault
  /\ pc' = [pc EXCEPT ![c] = IF draft[c].by = "settle" THEN "view" ELSE "idle"]
  /\ draft' = [draft EXCEPT ![c] = NoRow]
  /\ todo' = [todo EXCEPT ![c] = {}]
  /\ due' = [due EXCEPT ![c] = {}]
  /\ UNCHANGED <<external, file, own, hand, crossed>>

\* The process is killed, or the call's future dropped, between any two steps.
Kill(c) ==
  /\ pc[c] # "idle" /\ Fault
  /\ pc' = [pc EXCEPT ![c] = "idle"]
  /\ own' = [own EXCEPT ![c] = 0]
  /\ draft' = [draft EXCEPT ![c] = NoRow]
  /\ todo' = [todo EXCEPT ![c] = {}]
  /\ due' = [due EXCEPT ![c] = {}]
  /\ UNCHANGED <<external, file, hand, crossed>>

Next ==
  \/ \E s \in Studies : StudyEnds(s)
  \/ TreeMoves
  \/ \E c \in Callers :
        \/ PostStudy(c) \/ RecordSubmission(c) \/ SkipSubmission(c) \/ Add(c)
        \/ BeginSettle(c) \/ SettleOne(c) \/ SettleUnanswered(c) \/ SettleEnds(c) \/ View(c)
        \/ WriteObject(c) \/ WriteNewline(c) \/ WriteFails(c) \/ Kill(c)

Spec == Init /\ [][Next]_vars

-----------------------------------------------------------------------------
(* Properties *)

\* A row that settle wrote says what Core's record says for good, at the commit under
\* which the study was submitted, however HEAD has moved and whoever else settled.
RowsTellTheRecord ==
  \A i \in RowsAt :
    file[i].by = "settle" =>
      LET s == file[i].study IN
      /\ record[s].status \in Ended /\ file[i].result = Verdict[record[s].status]
      /\ \E j \in RowsAt :
            j < i /\ file[j].study = s /\ file[j].by = "run" /\ file[j].commit = file[i].commit

\* "Close every submitted row whose study has ended": what settle found ended and
\* unsettled is closed when it is through, but for what Core did not answer for,
\* whether studies before it still ran or another call was settling the same rows.
SettleClosesWhatEnded ==
  \A c \in Callers : pc[c] = "view" => \A s \in due[c] : Closed(s)

EndedRuns(t) == {s \in Studies : record[s].test = t /\ record[s].status \in Ended}

DoneAfterFailure(t) ==
  /\ hand = 0 /\ Readable
  /\ EndedRuns(t) # {} /\ \A s \in EndedRuns(t) : Closed(s)
  /\ Done(t)
  /\ Verdict[record[Last(EndedRuns(t))].status] # "pass"

\* "The latest row wins": when calls came one at a time and nothing failed, a test
\* whose runs are all settled is done only if the last of them passed, late settling
\* of several runs at once included.
SequentialCallsTellTheLast ==
  ~ crossed /\ faults = 0 => \A t \in Tests : ~ DoneAfterFailure(t)

\* "One JSON object per line", whatever calls append at once: what load_rows needs to
\* read any row at all.
OneObjectPerLine == faults = 0 => Readable
==============================================================================
