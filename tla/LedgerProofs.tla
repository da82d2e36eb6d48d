---------------------------- MODULE LedgerProofs -----------------------------
(***************************************************************************)
(* Proofs about Ledger, for any callers and tests and any number of        *)
(* studies, commits, failures and kills.                                   *)
(*                                                                         *)
(* RowsTellTheRecord is about rows that are in the file.  Its inductive    *)
(* form says the same of the row a call is about to write, and that what   *)
(* settle still goes through are submitted rows, which only run_study      *)
(* writes: others may have closed them since, but a record that has ended  *)
(* stays as it is and a line of the file is never changed.                 *)
(*                                                                         *)
(* SequentialCallsTellTheLast speaks of a test's newest study and of the   *)
(* last line of its rows: InTurn says why these are the same study.  While *)
(* calls come one at a time the submitted rows, the closing rows and what  *)
(* is still unsettled come in the order in which the studies ran.          *)
(***************************************************************************)
EXTENDS Ledger, WellFoundedInduction, TLAPS

USE LedgerAssumption, RowAssumption

Posted == \A c \in Callers : pc[c] = "posted" => own[c] \in Studies

\* A submitted row is one that run_study wrote for its study.
ByRun(row) == row.result = "submitted" => row.by = "run" /\ row.study \in Studies

SubmittedByRun ==
  /\ \A i \in RowsAt : ByRun(file[i])
  /\ \A c \in Callers : draft[c] # NoRow => ByRun(draft[c])

TodoSubmitted ==
  \A c \in Callers : \A i \in todo[c] : IsRow(i) /\ file[i].result = "submitted"

\* What RowsTellTheRecord says of one row that settle wrote or is about to write, by
\* the records and lines of the moment, the submitted row being before position n.
Tells(row, n, rec, lines) ==
  /\ row.study \in Studies
  /\ rec[row.study].status \in Ended
  /\ row.result = Verdict[rec[row.study].status]
  /\ \E j \in DOMAIN lines :
        /\ j < n /\ lines[j] # Newline
        /\ lines[j].study = row.study /\ lines[j].by = "run" /\ lines[j].commit = row.commit

DraftsTell ==
  \A c \in Callers :
    draft[c] # NoRow /\ draft[c].by = "settle" =>
      Tells(draft[c], Len(file) + 1, record, file)

RowsTell == \A i \in RowsAt : file[i].by = "settle" => Tells(file[i], i, record, file)

IInv == TypeOK /\ Posted /\ SubmittedByRun /\ TodoSubmitted /\ DraftsTell /\ RowsTell

-----------------------------------------------------------------------------

\* The bounds are numbers.
LEMMA Bounds == MaxStudies \in Nat /\ MaxEvents \in Nat
  OBVIOUS

(* The file grows at its end *)

\* What Append does to a sequence, position by position.
LEMMA Appended ==
  ASSUME NEW S, NEW s \in Seq(S), NEW x
  PROVE  /\ DOMAIN s = 1..Len(s)
         /\ Len(s) \in Nat
         /\ Len(Append(s, x)) = Len(s) + 1
         /\ DOMAIN Append(s, x) = 1..Len(s) + 1
         /\ \A i \in DOMAIN s : Append(s, x)[i] = s[i]
         /\ Append(s, x)[Len(s) + 1] = x
  OBVIOUS

\* A verdict is one of the results of a row.
LEMMA VerdictType == \A s \in Ended : Verdict[s] \in {"pass", "fail", "interrupted"}
  BY DEF Ended, Verdict

-----------------------------------------------------------------------------
(* Types *)

\* Initially every variable has its type.
LEMMA InitTypeOK == Init => TypeOK
<1> SUFFICES ASSUME Init PROVE TypeOK
  OBVIOUS
<1> USE Bounds DEF Init, Commits, Statuses, Places, Ended
<1>1. record \in [Studies -> [test : Tests, status : Statuses]]
  OBVIOUS
<1>2. file \in Seq(Rows \cup {Newline})
  OBVIOUS
<1>3. head \in Commits /\ reachable \subseteq Commits /\ hand \in 0..MaxEvents /\ faults \in 0..MaxEvents
  OBVIOUS
<1>4. pc \in [Callers -> Places] /\ own \in [Callers -> 0..MaxStudies]
  OBVIOUS
<1>5. draft \in [Callers -> Rows \cup {NoRow}] /\ todo \in [Callers -> SUBSET DOMAIN file]
  OBVIOUS
<1>6. due \in [Callers -> SUBSET Studies] /\ crossed \in BOOLEAN
  OBVIOUS
<1>7. \A c \in Callers : pc[c] \in {"write", "newline"} <=> draft[c] # NoRow
  OBVIOUS
<1>8. QED
  BY <1>1, <1>2, <1>3, <1>4, <1>5, <1>6, <1>7 DEF TypeOK

\* Every step of a call, of Core or of the tree keeps the types.
LEMMA NextTypeOK == TypeOK /\ Posted /\ TodoSubmitted /\ [Next]_vars => TypeOK'
<1> SUFFICES ASSUME TypeOK, Posted, TodoSubmitted, [Next]_vars PROVE TypeOK'
  OBVIOUS
<1> USE DEF TypeOK, external, calls, Places, Statuses, Ended, Commits, Room, Fault
<1> USE Bounds
<1>1. ASSUME NEW s \in Studies, StudyEnds(s) PROVE TypeOK'
  <2>1. record' \in [Studies -> [test : Tests, status : Statuses]]
    BY <1>1 DEF StudyEnds
  <2>2. QED
    BY <1>1, <2>1 DEF StudyEnds
<1>2. CASE TreeMoves
  BY <1>2 DEF TreeMoves
<1>3. ASSUME NEW c \in Callers, PostStudy(c) PROVE TypeOK'
  <2>1. record' \in [Studies -> [test : Tests, status : Statuses]]
    <3>1. PICK s \in Studies : record' = [record EXCEPT ![s].status = "running"]
      BY <1>3 DEF PostStudy
    <3>2. QED
      BY <3>1
  <2>2. own' \in [Callers -> 0..MaxStudies]
    BY <1>3 DEF PostStudy, Studies
  <2>3. QED
    BY <1>3, <2>1, <2>2 DEF PostStudy, Begin
<1>4. ASSUME NEW c \in Callers, RecordSubmission(c) PROVE TypeOK'
  <2>1. draft'[c] \in Rows
    BY <1>4 DEF RecordSubmission, Write, Posted, Rows, Studies
  <2>2. QED
    BY <1>4, <2>1 DEF RecordSubmission, Write
<1>5. ASSUME NEW c \in Callers, SkipSubmission(c) PROVE TypeOK'
  BY <1>5 DEF SkipSubmission
<1>6. ASSUME NEW c \in Callers, Add(c) PROVE TypeOK'
  <2>1. draft'[c] \in Rows
    BY <1>6 DEF Add, Write, Rows, Studies
  <2>2. QED
    BY <1>6, <2>1 DEF Add, Write, Begin
<1>7. ASSUME NEW c \in Callers, BeginSettle(c) PROVE TypeOK'
  BY <1>7 DEF BeginSettle, Begin, Unsettled, RowsAt
<1>8. ASSUME NEW c \in Callers, SettleOne(c) PROVE TypeOK'
  <2>1. PICK i \in todo[c] :
           /\ todo' = [todo EXCEPT ![c] = @ \ {i}]
           /\ \/ Write(c, Closing(file[i])) /\ record[file[i].study].status \in Ended
              \/ UNCHANGED <<draft, pc>>
    BY <1>8 DEF SettleOne, First
  <2>2. CASE UNCHANGED <<draft, pc>>
    BY <1>8, <2>1, <2>2 DEF SettleOne
  <2>3. CASE Write(c, Closing(file[i])) /\ record[file[i].study].status \in Ended
    <3>1. file[i] \in Rows
      BY <2>1 DEF TodoSubmitted, IsRow
    <3>2. Closing(file[i]) \in Rows
      <4> DEFINE v == Verdict[record[file[i].study].status]
      <4>1. v \in {"pass", "fail", "interrupted"}
        BY <2>3, VerdictType
      <4> HIDE DEF v
      <4>2. [file[i] EXCEPT !.result = v, !.by = "settle"] \in Rows
        BY <3>1, <4>1 DEF Rows
      <4>3. QED
        BY <4>2 DEF Closing, v
    <3>3. draft' \in [Callers -> Rows \cup {NoRow}] /\ draft'[c] # NoRow
      BY <2>3, <3>2 DEF Write
    <3>4. QED
      BY <1>8, <2>1, <2>3, <3>3 DEF SettleOne, Write
  <2>4. QED
    BY <2>1, <2>2, <2>3
<1>9. ASSUME NEW c \in Callers, SettleUnanswered(c) PROVE TypeOK'
  BY <1>9 DEF SettleUnanswered
<1>10. ASSUME NEW c \in Callers, SettleEnds(c) PROVE TypeOK'
  BY <1>10 DEF SettleEnds
<1>11. ASSUME NEW c \in Callers, View(c) PROVE TypeOK'
  BY <1>11 DEF View
<1>12. ASSUME NEW c \in Callers, WriteObject(c) PROVE TypeOK'
  BY <1>12, Appended DEF WriteObject
<1>13. ASSUME NEW c \in Callers, WriteNewline(c) PROVE TypeOK'
  BY <1>13, Appended DEF WriteNewline
<1>14. ASSUME NEW c \in Callers, WriteFails(c) PROVE TypeOK'
  BY <1>14 DEF WriteFails
<1>15. ASSUME NEW c \in Callers, Kill(c) PROVE TypeOK'
  BY <1>15 DEF Kill
<1>16. CASE UNCHANGED vars
  BY <1>16 DEF vars
<1>17. QED
  BY <1>1, <1>2, <1>3, <1>4, <1>5, <1>6, <1>7, <1>8, <1>9, <1>10, <1>11, <1>12, <1>13,
     <1>14, <1>15, <1>16 DEF Next

-----------------------------------------------------------------------------
(* What no step undoes *)

\* The record of a study that has ended is final.
LEMMA RecordIsFinal ==
  ASSUME TypeOK, [Next]_vars, NEW s \in Studies, record[s].status \in Ended
  PROVE  record'[s].status = record[s].status
<1> USE DEF TypeOK, Ended, external
<1>1. ASSUME NEW r \in Studies, StudyEnds(r) PROVE record'[s].status = record[s].status
  BY <1>1 DEF StudyEnds
<1>2. ASSUME NEW c \in Callers, PostStudy(c) PROVE record'[s].status = record[s].status
  BY <1>2 DEF PostStudy
<1>3. CASE UNCHANGED record
  BY <1>3
<1>4. QED
  BY <1>1, <1>2, <1>3 DEF Next, TreeMoves, RecordSubmission, SkipSubmission, Add, BeginSettle,
     SettleOne, SettleUnanswered, SettleEnds, View, WriteObject, WriteNewline, WriteFails, Kill, vars

\* Only WriteObject and WriteNewline change the file.
LEMMA FileWriters ==
  ASSUME [Next]_vars
  PROVE  UNCHANGED file \/ \E c \in Callers : WriteObject(c) \/ WriteNewline(c)
  BY DEF Next, StudyEnds, TreeMoves, PostStudy, RecordSubmission, SkipSubmission, Add, BeginSettle,
     SettleOne, SettleUnanswered, SettleEnds, View, WriteFails, Kill, vars

\* Lines are appended and never changed.
LEMMA FileGrows ==
  ASSUME TypeOK, [Next]_vars
  PROVE  /\ Len(file) \in Nat /\ Len(file') \in Nat /\ Len(file) <= Len(file')
         /\ DOMAIN file = 1..Len(file) /\ DOMAIN file' = 1..Len(file')
         /\ \A i \in DOMAIN file : i \in DOMAIN file' /\ file'[i] = file[i]
<1>1. file \in Seq(Rows \cup {Newline})
  BY DEF TypeOK
<1>2. CASE UNCHANGED file
  BY <1>1, <1>2
<1>3. ASSUME NEW x, file' = Append(file, x)
      PROVE  /\ Len(file') = Len(file) + 1 /\ DOMAIN file' = 1..Len(file) + 1
             /\ \A i \in DOMAIN file : file'[i] = file[i]
  BY <1>1, <1>3, Appended
<1>4. QED
  BY <1>1, <1>2, <1>3, FileWriters, Appended DEF WriteObject, WriteNewline

\* What settle has read of a study stays true.
LEMMA TellsStays ==
  ASSUME TypeOK, [Next]_vars, NEW row, NEW n \in Nat, NEW m \in Nat, n <= m,
         Tells(row, n, record, file)
  PROVE  Tells(row, m, record', file')
<1>1. /\ row.study \in Studies
      /\ record'[row.study].status = record[row.study].status
  BY RecordIsFinal DEF Tells
<1>2. PICK j \in DOMAIN file :
         /\ j < n /\ file[j] # Newline
         /\ file[j].study = row.study /\ file[j].by = "run" /\ file[j].commit = row.commit
  BY DEF Tells
<1>3. j \in DOMAIN file' /\ file'[j] = file[j]
  BY <1>2, FileGrows
<1>4. j < m
  BY <1>2, FileGrows
<1>5. QED
  BY <1>1, <1>2, <1>3, <1>4 DEF Tells

-----------------------------------------------------------------------------
(* The invariant *)

\* Initially nothing is written, posted or to be settled.
LEMMA InitIInv == Init => IInv
<1> SUFFICES ASSUME Init PROVE IInv
  OBVIOUS
<1>1. RowsAt = {}
  BY DEF Init, RowsAt
<1>2. QED
  BY <1>1, InitTypeOK DEF Init, IInv, Posted, SubmittedByRun, TodoSubmitted, DraftsTell, RowsTell

\* A call that has posted knows its study.
LEMMA NextPosted == IInv /\ [Next]_vars => Posted'
<1> SUFFICES ASSUME IInv, [Next]_vars PROVE Posted'
  OBVIOUS
<1> USE DEF IInv, TypeOK, Posted, Places
<1>1. ASSUME NEW c \in Callers, PostStudy(c) PROVE Posted'
  BY <1>1 DEF PostStudy
<1>2. ASSUME NEW c \in Callers,
             RecordSubmission(c) \/ SkipSubmission(c) \/ Add(c) \/ BeginSettle(c) \/ SettleEnds(c)
               \/ View(c) \/ WriteNewline(c) \/ WriteFails(c) \/ WriteObject(c) \/ Kill(c)
      PROVE  Posted'
  BY <1>2 DEF RecordSubmission, SkipSubmission, Add, BeginSettle, SettleEnds, View, WriteNewline,
              WriteFails, WriteObject, Kill, Write
<1>3. ASSUME NEW c \in Callers, SettleOne(c) PROVE Posted'
  BY <1>3 DEF SettleOne, Write
<1>4. CASE UNCHANGED <<pc, own>>
  BY <1>4
<1>5. QED
  BY <1>1, <1>2, <1>3, <1>4 DEF Next, StudyEnds, TreeMoves, SettleUnanswered, vars, calls

\* Only run_study writes rows with the result "submitted".
LEMMA NextSubmittedByRun == IInv /\ [Next]_vars => SubmittedByRun'
<1> SUFFICES ASSUME IInv, [Next]_vars PROVE SubmittedByRun'
  OBVIOUS
<1> DEFINE Drafts == \A c \in Callers : draft[c] # NoRow => ByRun(draft[c])
<1>1. Drafts'
  <2> USE DEF IInv, TypeOK, SubmittedByRun
  <2>1. ASSUME NEW c \in Callers, RecordSubmission(c) PROVE Drafts'
    BY <2>1 DEF RecordSubmission, Write, ByRun, Posted
  <2>2. ASSUME NEW c \in Callers, Add(c) PROVE Drafts'
    BY <2>2 DEF Add, Write, ByRun
  <2>3. ASSUME NEW c \in Callers, SettleOne(c) PROVE Drafts'
    <3>1. CASE UNCHANGED draft
      BY <3>1 DEF ByRun
    <3>2. ASSUME NEW i \in todo[c], record[file[i].study].status \in Ended,
                 draft' = [draft EXCEPT ![c] = Closing(file[i])]
          PROVE  Drafts'
      <4>1. file[i] \in Rows
        BY DEF TodoSubmitted, IsRow
      <4>2. Closing(file[i]).result \in {"pass", "fail", "interrupted"}
        BY <3>2, <4>1, VerdictType DEF Closing, Rows
      <4>3. QED
        BY <3>2, <4>2 DEF ByRun
    <3>3. QED
      BY <2>3, <3>1, <3>2 DEF SettleOne, First, Write
  <2>4. ASSUME NEW c \in Callers, WriteNewline(c) \/ WriteFails(c) \/ Kill(c) PROVE Drafts'
    BY <2>4 DEF WriteNewline, WriteFails, Kill, ByRun
  <2>5. CASE UNCHANGED draft
    BY <2>5 DEF ByRun
  <2>6. QED
    BY <2>1, <2>2, <2>3, <2>4, <2>5 DEF Next, StudyEnds, TreeMoves, PostStudy, SkipSubmission,
       BeginSettle, SettleUnanswered, SettleEnds, View, WriteObject, vars, calls
<1>2. ASSUME NEW i \in RowsAt' PROVE ByRun(file[i])'
  <2>1. CASE i \in DOMAIN file
    <3>1. file'[i] = file[i] /\ i \in RowsAt
      BY <1>2, <2>1, FileGrows DEF RowsAt, IsRow, IInv
    <3>2. QED
      BY <3>1 DEF IInv, SubmittedByRun, ByRun
  <2>2. CASE i \notin DOMAIN file
    <3>1. PICK c \in Callers : WriteObject(c) \/ WriteNewline(c)
      BY <1>2, <2>2, FileWriters DEF RowsAt, IsRow
    <3>2. PICK x : file' = Append(file, x) /\ ((x = draft[c] /\ WriteObject(c)) \/ x = Newline)
      BY <3>1 DEF WriteObject, WriteNewline
    <3>3. file'[i] = x
      BY <1>2, <2>2, <3>2, Appended DEF RowsAt, IsRow, IInv, TypeOK
    <3>4. x = draft[c] /\ draft[c] # NoRow
      BY <1>2, <3>2, <3>3 DEF RowsAt, IsRow, WriteObject, IInv, TypeOK
    <3>5. QED
      BY <3>3, <3>4 DEF IInv, SubmittedByRun, ByRun
  <2>3. QED
    BY <2>1, <2>2
<1>3. QED
  BY <1>1, <1>2 DEF SubmittedByRun

\* What settle goes through are submitted rows, whatever is appended meanwhile.
LEMMA NextTodoSubmitted == IInv /\ [Next]_vars => TodoSubmitted'
<1> SUFFICES ASSUME IInv, [Next]_vars, NEW c \in Callers, NEW i \in todo'[c]
             PROVE  (IsRow(i) /\ file[i].result = "submitted")'
  BY DEF TodoSubmitted
<1> USE DEF IInv, TypeOK
<1>1. i \in todo[c] \/ i \in Unsettled
  <2>1. ASSUME NEW d \in Callers, BeginSettle(d) PROVE i \in todo[c] \/ i \in Unsettled
    BY <2>1 DEF BeginSettle
  <2>2. ASSUME NEW d \in Callers, SettleOne(d) \/ SettleUnanswered(d)
        PROVE  i \in todo[c] \/ i \in Unsettled
    BY <2>2 DEF SettleOne, SettleUnanswered
  <2>3. ASSUME NEW d \in Callers, WriteFails(d) \/ Kill(d) PROVE i \in todo[c] \/ i \in Unsettled
    BY <2>3 DEF WriteFails, Kill
  <2>4. CASE UNCHANGED todo
    BY <2>4
  <2>5. QED
    BY <2>1, <2>2, <2>3, <2>4 DEF Next, StudyEnds, TreeMoves, PostStudy, RecordSubmission,
       SkipSubmission, Add, SettleEnds, View, WriteObject, WriteNewline, vars, calls
<1>2. IsRow(i) /\ file[i].result = "submitted"
  BY <1>1 DEF TodoSubmitted, Unsettled, RowsAt
<1>3. QED
  BY <1>2, FileGrows DEF IsRow

\* A closing row that is about to be written tells what Core's record says.
LEMMA NextDraftsTell == IInv /\ [Next]_vars => DraftsTell'
<1> SUFFICES ASSUME IInv, [Next]_vars, NEW c \in Callers,
                    draft'[c] # NoRow, draft'[c].by = "settle"
             PROVE  Tells(draft'[c], Len(file') + 1, record', file')
  BY DEF DraftsTell
<1> USE DEF IInv, TypeOK
<1>1. CASE draft'[c] = draft[c]
  <2>1. Tells(draft[c], Len(file) + 1, record, file)
    BY <1>1 DEF DraftsTell
  <2>2. Len(file) + 1 \in Nat /\ Len(file') + 1 \in Nat /\ Len(file) + 1 <= Len(file') + 1
    BY FileGrows
  <2>3. QED
    BY <1>1, <2>1, <2>2, TellsStays
<1>2. CASE \E i \in todo[c] : record[file[i].study].status \in Ended /\ draft'[c] = Closing(file[i])
  <2>1. PICK i \in todo[c] : record[file[i].study].status \in Ended /\ draft'[c] = Closing(file[i])
    BY <1>2
  <2>2. IsRow(i) /\ file[i] \in Rows /\ file[i].by = "run" /\ file[i].study \in Studies
    BY <2>1 DEF TodoSubmitted, SubmittedByRun, RowsAt, IsRow, ByRun
  <2>3. /\ Closing(file[i]).study = file[i].study
        /\ Closing(file[i]).commit = file[i].commit
        /\ Closing(file[i]).result = Verdict[record[file[i].study].status]
    BY <2>2 DEF Closing, Rows
  <2>4. i < Len(file) + 1 /\ i \in DOMAIN file /\ file[i] # Newline
    BY <2>2, FileGrows DEF IsRow
  <2>5. Tells(draft'[c], Len(file) + 1, record, file)
    BY <2>1, <2>2, <2>3, <2>4 DEF Tells
  <2>6. Len(file) + 1 \in Nat /\ Len(file') + 1 \in Nat /\ Len(file) + 1 <= Len(file') + 1
    BY FileGrows
  <2>7. QED
    BY <2>5, <2>6, TellsStays
<1>3. draft'[c] = draft[c]
        \/ \E i \in todo[c] : record[file[i].study].status \in Ended /\ draft'[c] = Closing(file[i])
  <2>1. ASSUME NEW d \in Callers, RecordSubmission(d) \/ Add(d) PROVE draft'[c] = draft[c]
    BY <2>1 DEF RecordSubmission, Add, Write
  <2>2. ASSUME NEW d \in Callers, SettleOne(d)
        PROVE  \/ draft'[c] = draft[c]
               \/ \E i \in todo[c] :
                    record[file[i].study].status \in Ended /\ draft'[c] = Closing(file[i])
    BY <2>2 DEF SettleOne, First, Write
  <2>3. ASSUME NEW d \in Callers, WriteNewline(d) \/ WriteFails(d) \/ Kill(d)
        PROVE  draft'[c] = draft[c]
    BY <2>3 DEF WriteNewline, WriteFails, Kill
  <2>4. QED
    BY <2>1, <2>2, <2>3 DEF Next, StudyEnds, TreeMoves, PostStudy, SkipSubmission, BeginSettle,
       SettleUnanswered, SettleEnds, View, WriteObject, vars, calls
<1>4. QED
  BY <1>1, <1>2, <1>3

\* And it still does once it is in the file.
LEMMA NextRowsTell == IInv /\ [Next]_vars => RowsTell'
<1> SUFFICES ASSUME IInv, [Next]_vars, NEW i \in RowsAt', file'[i].by = "settle"
             PROVE  Tells(file'[i], i, record', file')
  BY DEF RowsTell
<1>0. TypeOK
  BY DEF IInv
<1>1. CASE i \in DOMAIN file
  <2>1. file'[i] = file[i] /\ i \in RowsAt /\ i \in Nat
    BY <1>0, <1>1, FileGrows DEF RowsAt, IsRow
  <2>2. Tells(file[i], i, record, file)
    BY <2>1 DEF IInv, RowsTell
  <2>3. QED
    BY <1>0, <2>1, <2>2, TellsStays
<1>2. CASE i \notin DOMAIN file
  <2>1. PICK c \in Callers : WriteObject(c) \/ WriteNewline(c)
    BY <1>2, FileWriters DEF RowsAt, IsRow
  <2>2. PICK x : file' = Append(file, x) /\ ((x = draft[c] /\ WriteObject(c)) \/ x = Newline)
    BY <2>1 DEF WriteObject, WriteNewline
  <2>3. i = Len(file) + 1 /\ file'[i] = x
    BY <1>0, <1>2, <2>2, Appended DEF RowsAt, IsRow, TypeOK
  <2>4. x = draft[c] /\ draft[c] # NoRow
    BY <1>0, <2>2, <2>3 DEF RowsAt, IsRow, WriteObject, TypeOK
  <2>5. Tells(draft[c], i, record, file)
    BY <2>3, <2>4 DEF IInv, DraftsTell
  <2>6. QED
    BY <1>0, <2>3, <2>4, <2>5, TellsStays, FileGrows
<1>3. QED
  BY <1>1, <1>2

\* IInv is an invariant of the ledger.
LEMMA Invariance == Spec => []IInv
<1>1. IInv /\ [Next]_vars => IInv'
  BY NextTypeOK, NextPosted, NextSubmittedByRun, NextTodoSubmitted, NextDraftsTell, NextRowsTell
     DEF IInv
<1>2. QED
  BY <1>1, InitIInv, PTL DEF Spec

\* The variables of the ledger keep their types.
THEOREM TypeCorrect == Spec => []TypeOK
  BY Invariance, PTL DEF IInv

\* A row that settle wrote says what Core's record says for good, at the commit of the
\* submitted row it closes.
THEOREM SettledRowsAreTrue == Spec => []RowsTellTheRecord
<1>1. IInv => RowsTellTheRecord
  BY DEF IInv, RowsTell, Tells, RowsTellTheRecord, RowsAt, IsRow
<1>2. QED
  BY <1>1, Invariance, PTL

-----------------------------------------------------------------------------
(* What settle found to be closed *)

Pending(c, s) ==
  \/ \E i \in todo[c] : file[i].study = s
  \/ pc[c] = "write" /\ draft[c].by = "settle" /\ draft[c].study = s

\* What a settle is to close has ended, and is closed, still on its list, or in hand.
DueIsKept ==
  \A c \in Callers : \A s \in due[c] : record[s].status \in Ended /\ (Closed(s) \/ Pending(c, s))

ViewDone == \A c \in Callers : pc[c] = "view" => todo[c] = {}

\* A study that has a closing row keeps it.
LEMMA ClosedStays ==
  ASSUME TypeOK, [Next]_vars, NEW s, Closed(s)
  PROVE  Closed(s)'
<1>1. PICK i \in RowsAt : file[i].study = s /\ file[i].result # "submitted"
  BY DEF Closed
<1>2. i \in RowsAt' /\ file'[i] = file[i]
  BY <1>1, FileGrows DEF RowsAt, IsRow
<1>3. QED
  BY <1>1, <1>2 DEF Closed

\* A call leaves settle's loop with nothing left to go through.
LEMMA NextViewDone == TypeOK /\ ViewDone /\ [Next]_vars => ViewDone'
<1> SUFFICES ASSUME TypeOK, ViewDone, [Next]_vars PROVE ViewDone'
  OBVIOUS
<1> USE DEF ViewDone, TypeOK, Places
<1>1. ASSUME NEW c \in Callers,
             PostStudy(c) \/ RecordSubmission(c) \/ SkipSubmission(c) \/ Add(c) \/ BeginSettle(c)
               \/ SettleUnanswered(c) \/ SettleEnds(c) \/ View(c)
      PROVE  ViewDone'
  BY <1>1 DEF PostStudy, RecordSubmission, SkipSubmission, Add, BeginSettle, SettleUnanswered,
              SettleEnds, View, Write
<1>2. ASSUME NEW c \in Callers, SettleOne(c) PROVE ViewDone'
  BY <1>2 DEF SettleOne, Write
<1>3. ASSUME NEW c \in Callers, WriteObject(c) \/ WriteNewline(c) \/ WriteFails(c) \/ Kill(c)
      PROVE  ViewDone'
  BY <1>3 DEF WriteObject, WriteNewline, WriteFails, Kill
<1>4. CASE UNCHANGED <<pc, todo>>
  BY <1>4
<1>5. QED
  BY <1>1, <1>2, <1>3, <1>4 DEF Next, StudyEnds, TreeMoves, vars, calls

\* Only a call's own steps of settle change its list, and an end of it clears its due.
LEMMA ListSteps ==
  ASSUME TypeOK, [Next]_vars, NEW c \in Callers
  PROVE  \/ BeginSettle(c) \/ SettleOne(c) \/ SettleUnanswered(c)
         \/ due'[c] = {}
         \/ todo'[c] = todo[c] /\ due'[c] = due[c]
<1> USE DEF TypeOK
<1>1. ASSUME NEW d \in Callers, BeginSettle(d)
      PROVE  BeginSettle(c) \/ (todo'[c] = todo[c] /\ due'[c] = due[c])
  BY <1>1 DEF BeginSettle
<1>2. ASSUME NEW d \in Callers, SettleOne(d)
      PROVE  SettleOne(c) \/ (todo'[c] = todo[c] /\ due'[c] = due[c])
  BY <1>2 DEF SettleOne
<1>3. ASSUME NEW d \in Callers, SettleUnanswered(d)
      PROVE  SettleUnanswered(c) \/ (todo'[c] = todo[c] /\ due'[c] = due[c])
  BY <1>3 DEF SettleUnanswered
<1>4. ASSUME NEW d \in Callers, View(d) \/ WriteFails(d) \/ Kill(d)
      PROVE  due'[c] = {} \/ (todo'[c] = todo[c] /\ due'[c] = due[c])
  BY <1>4 DEF View, WriteFails, Kill
<1>5. CASE UNCHANGED <<todo, due>>
  BY <1>5
<1>6. QED
  BY <1>1, <1>2, <1>3, <1>4, <1>5 DEF Next, StudyEnds, TreeMoves, PostStudy, RecordSubmission,
     SkipSubmission, Add, SettleEnds, WriteObject, WriteNewline, vars, calls

\* The step of one call: what was due to it stays so until it is closed.
LEMMA NextDueIsKept == IInv /\ DueIsKept /\ [Next]_vars => DueIsKept'
<1> SUFFICES ASSUME IInv, DueIsKept, [Next]_vars, NEW c \in Callers, NEW s \in due'[c]
             PROVE  record'[s].status \in Ended /\ (Closed(s)' \/ Pending(c, s)')
  BY DEF DueIsKept
<1> USE DEF TypeOK
<1>0. TypeOK /\ s \in Studies
  <2>1. TypeOK'
    BY NextTypeOK DEF IInv
  <2>2. QED
    BY <2>1 DEF IInv
<1>1. ASSUME BeginSettle(c)
      PROVE  record[s].status \in Ended /\ \E i \in todo'[c] : i \in DOMAIN file /\ file[i].study = s
  BY <1>0, <1>1 DEF BeginSettle, Unsettled, RowsAt, IsRow
<1>2. CASE BeginSettle(c)
  <2>1. PICK i \in todo'[c] : i \in DOMAIN file /\ file[i].study = s
    BY <1>1, <1>2
  <2>2. file'[i] = file[i]
    BY <1>0, <2>1, FileGrows
  <2>3. QED
    BY <1>0, <1>1, <1>2, <2>1, <2>2, RecordIsFinal DEF Pending
<1>3. CASE ~ BeginSettle(c)
  <2>1. s \in due[c]
    <3>1. CASE SettleOne(c)
      BY <3>1 DEF SettleOne
    <3>2. CASE SettleUnanswered(c)
      BY <1>0, <3>2 DEF SettleUnanswered
    <3>3. QED
      BY <1>0, <1>3, <3>1, <3>2, ListSteps
  <2>2. record'[s].status \in Ended
    BY <1>0, <2>1, RecordIsFinal DEF DueIsKept
  <2>3. CASE Closed(s)
    BY <1>0, <2>2, <2>3, ClosedStays
  <2>4. ASSUME NEW i \in todo[c], file[i].study = s
        PROVE  Closed(s)' \/ Pending(c, s)'
    <3>1. i \in DOMAIN file /\ file'[i] = file[i]
      BY <1>0, FileGrows
    <3>2. CASE i \in todo'[c]
      BY <2>4, <3>1, <3>2 DEF Pending
    <3>3. CASE i \notin todo'[c]
      <4>1. SettleOne(c) \/ SettleUnanswered(c)
        BY <1>0, <1>3, <3>3, ListSteps
      <4>2. CASE SettleUnanswered(c)
        BY <1>0, <2>4, <3>3, <4>2 DEF SettleUnanswered
      <4>3. CASE SettleOne(c)
        <5>1. record[s].status \in Ended
          BY <2>1 DEF DueIsKept
        <5>2. Write(c, Closing(file[i]))
          BY <1>0, <2>4, <3>3, <4>3, <5>1 DEF SettleOne, First
        <5>3. file[i] \in Rows
          BY DEF IInv, TodoSubmitted, IsRow
        <5>4. Closing(file[i]).study = s /\ Closing(file[i]).by = "settle"
          BY <2>4, <5>3 DEF Closing, Rows
        <5>5. QED
          BY <1>0, <5>2, <5>4 DEF Write, Pending
      <4>4. QED
        BY <4>1, <4>2, <4>3
    <3>4. QED
      BY <3>2, <3>3
  <2>5. ASSUME pc[c] = "write", draft[c].by = "settle", draft[c].study = s
        PROVE  Closed(s)' \/ Pending(c, s)'
    <3>1. CASE WriteObject(c)
      <4>1. file' = Append(file, draft[c]) /\ draft[c] \in Rows /\ draft[c] # NoRow
        BY <1>0, <2>5, <3>1 DEF WriteObject
      <4>2. draft[c].result \in {"pass", "fail", "interrupted"}
        BY <2>5, <4>1, VerdictType DEF IInv, DraftsTell, Tells
      <4>3. Len(file) + 1 \in DOMAIN file' /\ file'[Len(file) + 1] = draft[c]
        BY <1>0, <4>1, Appended
      <4>4. draft[c] # Newline
        BY <4>1, RowAssumption
      <4>5. QED
        BY <2>5, <4>2, <4>3, <4>4 DEF Closed, RowsAt, IsRow
    <3>2. CASE WriteFails(c) \/ Kill(c)
      BY <1>0, <3>2 DEF WriteFails, Kill
    <3>3. CASE pc'[c] = pc[c] /\ draft'[c] = draft[c]
      BY <2>5, <3>3 DEF Pending
    <3>4. QED
      BY <1>0, <2>5, <3>1, <3>2, <3>3 DEF Next, StudyEnds, TreeMoves, PostStudy, RecordSubmission,
         SkipSubmission, Add, Begin, BeginSettle, SettleOne, SettleUnanswered, SettleEnds, View,
         WriteObject, WriteNewline, WriteFails, Kill, Write, vars, calls
  <2>6. QED
    BY <2>1, <2>2, <2>3, <2>4, <2>5 DEF DueIsKept, Pending
<1>4. QED
  BY <1>2, <1>3

\* What settle found ended and unsettled is closed when it is through, whoever closed
\* it, but for what Core did not answer for.
THEOREM SettleCloses == Spec => []SettleClosesWhatEnded
<1>1. Init => DueIsKept /\ ViewDone
  BY DEF Init, DueIsKept, ViewDone
<1>2. IInv /\ DueIsKept /\ ViewDone /\ [Next]_vars => DueIsKept' /\ ViewDone'
  BY NextDueIsKept, NextViewDone DEF IInv
<1>3. IInv /\ DueIsKept /\ ViewDone => SettleClosesWhatEnded
  BY DEF DueIsKept, ViewDone, Pending, SettleClosesWhatEnded
<1>4. QED
  BY <1>1, <1>2, <1>3, Invariance, PTL DEF Spec

-----------------------------------------------------------------------------
(* Calls that come one at a time *)

Calm == ~ crossed /\ faults = 0 /\ hand = 0

OneAtATime == \A c, d \in Callers : pc[c] # "idle" /\ pc[d] # "idle" => c = d

WasPosted(s) == s \in Studies /\ record[s].status # "unposted"

\* No study is posted before the one before it has ended.
PostedInOrder == \A r, s \in Studies : r < s /\ WasPosted(s) => record[r].status \in Ended

\* A row of a study that was posted, for that study's test, by run_study or by settle.
Known(row) ==
  /\ WasPosted(row.study) /\ row.test = record[row.study].test
  /\ \/ row.by = "run" /\ row.result = "submitted"
     \/ row.by = "settle" /\ row.result # "submitted"

RowsAreKnown ==
  /\ \A i \in RowsAt : Known(file[i])
  /\ \A c \in Callers : draft[c] # NoRow => Known(draft[c])

\* A study that is still to be recorded is the newest.
NewestIsLast ==
  /\ \A c \in Callers : pc[c] = "posted" =>
       WasPosted(own[c]) /\ \A i \in RowsAt : file[i].study < own[c]
  /\ \A c \in Callers : pc[c] = "write" /\ draft[c].by = "run" =>
       \A i \in RowsAt : file[i].study < draft[c].study

SubmittedInOrder ==
  \A i, j \in RowsAt : i < j /\ file[i].by = "run" /\ file[j].by = "run" => file[i].study < file[j].study

SettledInOrder ==
  \A i, j \in RowsAt :
    i < j /\ file[i].by = "settle" /\ file[j].by = "settle" => file[i].study <= file[j].study

\* What is unsettled is newer than what is settled.
OpenComeLater ==
  \A i \in Unsettled, j \in RowsAt : file[j].by = "settle" => file[j].study <= file[i].study

Closes(c) == draft[c] # NoRow /\ draft[c].by = "settle"

\* The row that settle is about to write is of the oldest study that is unsettled.
OldestIsNext ==
  \A c \in Callers : Closes(c) =>
    /\ \A i \in Unsettled : draft[c].study <= file[i].study
    /\ \A j \in RowsAt : file[j].by = "settle" => file[j].study <= draft[c].study
    /\ \A k \in todo[c] : draft[c].study < file[k].study

TodoIsOpen ==
  \A c \in Callers : todo[c] \subseteq Unsettled /\ (todo[c] # {} => pc[c] = "settle" \/ Closes(c))

\* A closing row whose newline is still to come has closed its study.
Written == \A c \in Callers : pc[c] = "newline" /\ Closes(c) => Closed(draft[c].study)

\* settle goes through everything that is older than what it has not come to.
NoneIsSkipped ==
  \A c \in Callers : \A k \in todo[c], i \in Unsettled :
    file[i].study < file[k].study => i \in todo[c] \/ (Closes(c) /\ draft[c].study = file[i].study)

\* Everything goes in the order in which the studies ran, as long as calls are Calm.
InTurn ==
  /\ OneAtATime /\ PostedInOrder /\ RowsAreKnown /\ NewestIsLast
  /\ SubmittedInOrder /\ SettledInOrder /\ OpenComeLater
  /\ OldestIsNext /\ TodoIsOpen /\ Written /\ NoneIsSkipped

CalmInv == Calm => InTurn

-----------------------------------------------------------------------------
(* What a step of such a call may do *)

\* The only steps of calls that come one at a time, none of which fails.
LEMMA CalmSteps ==
  ASSUME TypeOK, [Next]_vars, Calm'
  PROVE  /\ Calm
         /\ \/ \E s \in Studies : StudyEnds(s)
            \/ UNCHANGED <<record, file, calls>>
            \/ \E c \in Callers :
                  \/ PostStudy(c) \/ BeginSettle(c) \/ RecordSubmission(c) \/ SettleOne(c)
                  \/ SettleEnds(c) \/ View(c) \/ WriteObject(c) \/ WriteNewline(c)
<1> USE DEF TypeOK, Calm, calls, external
<1>1. ASSUME NEW s \in Studies, StudyEnds(s) PROVE Calm
  BY <1>1 DEF StudyEnds
<1>2. CASE TreeMoves
  BY <1>2 DEF TreeMoves
<1>3. ASSUME NEW c \in Callers,
             PostStudy(c) \/ BeginSettle(c) \/ RecordSubmission(c) \/ SettleOne(c)
               \/ SettleEnds(c) \/ View(c) \/ WriteObject(c) \/ WriteNewline(c)
      PROVE  Calm
  BY <1>3 DEF PostStudy, BeginSettle, Begin, RecordSubmission, SettleOne, SettleEnds, View,
     WriteObject, WriteNewline
<1>4. ASSUME NEW c \in Callers,
             SkipSubmission(c) \/ SettleUnanswered(c) \/ WriteFails(c) \/ Kill(c)
      PROVE  FALSE
  BY <1>4, Bounds DEF SkipSubmission, SettleUnanswered, WriteFails, Kill, Fault
<1>5. ASSUME NEW c \in Callers, Add(c) PROVE FALSE
  BY <1>5, Bounds DEF Add
<1>6. CASE UNCHANGED vars
  BY <1>6 DEF vars
<1>7. QED
  BY <1>1, <1>2, <1>3, <1>4, <1>5, <1>6 DEF Next, TreeMoves

\* A call that begins then finds no other under way.
LEMMA CalmBegins ==
  ASSUME Calm', NEW c \in Callers, Begin(c)
  PROVE  \A d \in Callers : pc[d] = "idle"
  BY DEF Calm, Begin

\* A step that writes no object leaves the rows as they are.
LEMMA SameRows ==
  ASSUME TypeOK, [Next]_vars, \A c \in Callers : ~ WriteObject(c)
  PROVE  /\ RowsAt' = RowsAt
         /\ \A i \in RowsAt : file'[i] = file[i]
         /\ Unsettled' = Unsettled
         /\ \A s : Closed(s)' <=> Closed(s)
<1>1. RowsAt' = RowsAt /\ \A i \in RowsAt : file'[i] = file[i]
  <2>1. CASE UNCHANGED file
    BY <2>1 DEF RowsAt, IsRow
  <2>2. ASSUME NEW c \in Callers, WriteNewline(c)
        PROVE  RowsAt' = RowsAt /\ \A i \in RowsAt : file'[i] = file[i]
    <3>1. file' = Append(file, Newline) /\ file \in Seq(Rows \cup {Newline})
      BY <2>2 DEF WriteNewline, TypeOK
    <3>2. /\ DOMAIN file = 1..Len(file) /\ Len(file) \in Nat
          /\ DOMAIN file' = 1..Len(file) + 1
          /\ \A i \in DOMAIN file : file'[i] = file[i]
          /\ file'[Len(file) + 1] = Newline
      BY <3>1, Appended
    <3>3. QED
      BY <3>2 DEF RowsAt, IsRow
  <2>3. QED
    BY <2>1, <2>2, FileWriters
<1>2. \A s : Closed(s)' <=> Closed(s)
  BY <1>1 DEF Closed
<1>3. Unsettled' = Unsettled
  BY <1>1, <1>2 DEF Unsettled, RowsAt
<1>4. QED
  BY <1>1, <1>2, <1>3

\* What one object adds.
LEMMA OneRow ==
  ASSUME TypeOK, NEW c \in Callers, WriteObject(c)
  PROVE  /\ Len(file) + 1 \in Nat
         /\ RowsAt' = RowsAt \cup {Len(file) + 1}
         /\ \A i \in RowsAt : i \in Nat /\ i < Len(file) + 1 /\ file'[i] = file[i]
         /\ file'[Len(file) + 1] = draft[c]
         /\ draft[c] # NoRow /\ draft[c] \in Rows
         /\ UNCHANGED <<record, draft, own, todo>>
<1>1. file' = Append(file, draft[c]) /\ file \in Seq(Rows \cup {Newline})
  BY DEF WriteObject, TypeOK
<1>2. draft[c] # NoRow /\ draft[c] \in Rows
  BY DEF WriteObject, TypeOK
<1>3. draft[c] # Newline
  BY <1>2
<1>4. /\ DOMAIN file = 1..Len(file) /\ Len(file) \in Nat
      /\ DOMAIN file' = 1..Len(file) + 1
      /\ \A i \in DOMAIN file : file'[i] = file[i]
      /\ file'[Len(file) + 1] = draft[c]
  BY <1>1, Appended
<1>5. QED
  BY <1>2, <1>3, <1>4 DEF RowsAt, IsRow, WriteObject, external

\* A row's study and its position are numbers.
LEMMA Numbers ==
  ASSUME TypeOK
  PROVE  /\ \A i \in RowsAt : i \in Nat /\ file[i] \in Rows /\ file[i].study \in Nat
         /\ \A c \in Callers : draft[c] # NoRow => draft[c] \in Rows /\ draft[c].study \in Nat
         /\ \A c \in Callers : own[c] \in Nat
         /\ Studies \subseteq Nat
         /\ Unsettled \subseteq RowsAt
<1>1. DOMAIN file \subseteq Nat /\ \A i \in DOMAIN file : file[i] \in Rows \cup {Newline}
  BY DEF TypeOK
<1>2. \A row \in Rows : row.study \in Nat
  BY Bounds DEF Rows
<1>3. QED
  BY <1>1, <1>2, Bounds DEF TypeOK, RowsAt, IsRow, Studies, Unsettled

\* A study that has been posted stays so, for its test.
LEMMA PostedStays ==
  ASSUME TypeOK, [Next]_vars, NEW s, WasPosted(s)
  PROVE  WasPosted(s)' /\ record'[s].test = record[s].test
<1> USE DEF TypeOK, Ended, external, WasPosted, Statuses
<1>1. ASSUME NEW r \in Studies, StudyEnds(r) PROVE WasPosted(s)' /\ record'[s].test = record[s].test
  BY <1>1 DEF StudyEnds
<1>2. ASSUME NEW c \in Callers, PostStudy(c) PROVE WasPosted(s)' /\ record'[s].test = record[s].test
  BY <1>2 DEF PostStudy
<1>3. CASE UNCHANGED record
  BY <1>3
<1>4. QED
  BY <1>1, <1>2, <1>3 DEF Next, TreeMoves, RecordSubmission, SkipSubmission, Add, BeginSettle,
     SettleOne, SettleUnanswered, SettleEnds, View, WriteObject, WriteNewline, WriteFails, Kill, vars

-----------------------------------------------------------------------------
(* One part of InTurn after the other *)

\* One call at a time.
LEMMA NextOneAtATime ==
  ASSUME TypeOK, OneAtATime, [Next]_vars, Calm' PROVE OneAtATime'
<1> USE DEF TypeOK, OneAtATime, Places
<1>1. ASSUME NEW c \in Callers, PostStudy(c) \/ BeginSettle(c) PROVE OneAtATime'
  <2>1. \A d \in Callers : pc[d] = "idle"
    BY <1>1, CalmBegins DEF PostStudy, BeginSettle
  <2>2. QED
    BY <1>1, <2>1 DEF PostStudy, BeginSettle
<1>2. ASSUME NEW c \in Callers,
             RecordSubmission(c) \/ SettleEnds(c) \/ View(c) \/ WriteObject(c) \/ WriteNewline(c)
      PROVE  OneAtATime'
  BY <1>2 DEF RecordSubmission, SettleEnds, View, WriteObject, WriteNewline, Write
<1>3. ASSUME NEW c \in Callers, SettleOne(c) PROVE OneAtATime'
  BY <1>3 DEF SettleOne, Write
<1>4. CASE UNCHANGED pc
  BY <1>4
<1>5. QED
  BY <1>1, <1>2, <1>3, <1>4, CalmSteps DEF StudyEnds, calls

\* Core runs one study at a time, in order.
LEMMA NextPostedInOrder ==
  ASSUME TypeOK, PostedInOrder, [Next]_vars PROVE PostedInOrder'
<1> SUFFICES ASSUME NEW r \in Studies, NEW s \in Studies, r < s, WasPosted(s)'
             PROVE  record'[r].status \in Ended
  BY DEF PostedInOrder, WasPosted
<1>1. CASE WasPosted(s)
  BY <1>1, RecordIsFinal DEF PostedInOrder
<1>2. CASE ~ WasPosted(s)
  <2>1. record[s].status = "unposted" /\ record'[s].status # "unposted"
    BY <1>2 DEF WasPosted
  <2>2. ~ \E d \in Studies : StudyEnds(d)
    BY <2>1 DEF StudyEnds, TypeOK
  <2>3. PICK c \in Callers : PostStudy(c)
    BY <2>1, <2>2 DEF Next, TreeMoves, RecordSubmission, SkipSubmission, Add, BeginSettle,
       SettleOne, SettleUnanswered, SettleEnds, View, WriteObject, WriteNewline, WriteFails, Kill,
       vars, external
  <2>4. PICK n \in Studies : /\ record[n].status = "unposted"
                             /\ \A k \in Studies : record[k].status = "unposted" => n <= k
                             /\ record' = [record EXCEPT ![n].status = "running"]
    BY <2>3 DEF PostStudy
  <2>5. n = s
    BY <2>1, <2>4 DEF TypeOK
  <2>6. record[r].status \notin {"unposted", "running"}
    BY <2>3, <2>4, <2>5, Bounds DEF PostStudy, Studies
  <2>7. record[r].status \in Ended
    BY <2>6 DEF TypeOK, Statuses
  <2>8. QED
    BY <2>7, RecordIsFinal
<1>3. QED
  BY <1>1, <1>2

\* What a call is about to write is what it read of its study.
LEMMA NextRowsAreKnown ==
  ASSUME IInv, InTurn, [Next]_vars, Calm' PROVE RowsAreKnown'
<1> USE DEF InTurn
<1>0. TypeOK
  BY DEF IInv
<1>1. ASSUME NEW row, Known(row) PROVE Known(row)'
  BY <1>0, <1>1, PostedStays DEF Known
<1>2. ASSUME NEW c \in Callers, draft'[c] # NoRow PROVE Known(draft[c])'
  <2>1. CASE draft'[c] = draft[c]
    BY <1>1, <1>2, <2>1 DEF RowsAreKnown, Known, WasPosted
  <2>2. CASE RecordSubmission(c)
    <3>1. WasPosted(own[c])
      BY <2>2 DEF NewestIsLast, RecordSubmission
    <3>2. draft'[c] = [study |-> own[c], test |-> record[own[c]].test, commit |-> head,
                       by |-> "run", result |-> "submitted"]
      BY <1>0, <2>2 DEF RecordSubmission, Write, TypeOK
    <3>3. Known(draft'[c])
      BY <3>1, <3>2 DEF Known
    <3>4. QED
      BY <3>3, <1>1 DEF Known, WasPosted
  <2>3. ASSUME NEW i \in todo[c], record[file[i].study].status \in Ended, draft'[c] = Closing(file[i])
        PROVE  Known(draft[c])'
    <3>1. i \in RowsAt /\ file[i] \in Rows
      BY <1>0, Numbers DEF TodoIsOpen, Unsettled
    <3>2. Known(file[i])
      BY <3>1 DEF RowsAreKnown
    <3>3. /\ Closing(file[i]).study = file[i].study /\ Closing(file[i]).test = file[i].test
          /\ Closing(file[i]).by = "settle"
          /\ Closing(file[i]).result = Verdict[record[file[i].study].status]
      BY <3>1 DEF Closing, Rows
    <3>4. Verdict[record[file[i].study].status] # "submitted"
      BY <2>3, VerdictType
    <3>5. Known(Closing(file[i]))
      BY <3>2, <3>3, <3>4 DEF Known
    <3>6. QED
      BY <1>1, <2>3, <3>5 DEF Known, WasPosted
  <2>4. \/ draft'[c] = draft[c]
        \/ RecordSubmission(c)
        \/ \E i \in todo[c] : record[file[i].study].status \in Ended /\ draft'[c] = Closing(file[i])
    <3> USE <1>0, <1>2 DEF TypeOK
    <3>1. ASSUME NEW d \in Callers, RecordSubmission(d)
          PROVE  draft'[c] = draft[c] \/ RecordSubmission(c)
      BY <3>1 DEF RecordSubmission, Write
    <3>2. ASSUME NEW d \in Callers, SettleOne(d)
          PROVE  \/ draft'[c] = draft[c]
                 \/ \E i \in todo[c] :
                      record[file[i].study].status \in Ended /\ draft'[c] = Closing(file[i])
      BY <3>2 DEF SettleOne, First, Write
    <3>3. ASSUME NEW d \in Callers, WriteNewline(d) PROVE draft'[c] = draft[c]
      BY <3>3 DEF WriteNewline
    <3>4. QED
      BY <3>1, <3>2, <3>3, CalmSteps DEF StudyEnds, PostStudy, BeginSettle, SettleEnds, View,
         WriteObject, calls
  <2>5. QED
    BY <2>1, <2>2, <2>3, <2>4
<1>3. ASSUME NEW i \in RowsAt' PROVE Known(file[i])'
  <2>1. ASSUME NEW c \in Callers, WriteObject(c) PROVE Known(file[i])'
    BY <1>0, <1>1, <2>1, OneRow DEF RowsAreKnown, Known, WasPosted
  <2>2. CASE \A c \in Callers : ~ WriteObject(c)
    BY <1>0, <1>1, <2>2, SameRows DEF RowsAreKnown, Known, WasPosted
  <2>3. QED
    BY <2>1, <2>2
<1>4. QED
  BY <1>2, <1>3 DEF RowsAreKnown

\* What is submitted next is newer than every row.
LEMMA NextNewestIsLast ==
  ASSUME IInv, InTurn, [Next]_vars, Calm' PROVE NewestIsLast'
<1> USE DEF InTurn
<1>0. TypeOK
  BY DEF IInv
<1>1. ASSUME NEW c \in Callers, WriteObject(c) PROVE NewestIsLast'
  <2>1. \A d \in Callers : d # c => pc[d] = "idle"
    BY <1>0, <1>1 DEF OneAtATime, WriteObject
  <2>2. \A d \in Callers : pc'[d] \notin {"posted", "write"}
    BY <1>0, <1>1, <2>1 DEF WriteObject, TypeOK
  <2>3. QED
    BY <2>2 DEF NewestIsLast
<1>2. ASSUME \A c \in Callers : ~ WriteObject(c), NEW c \in Callers, pc'[c] = "posted"
      PROVE  WasPosted(own[c])' /\ \A i \in RowsAt' : file'[i].study < own'[c]
  <2>1. CASE pc[c] = "posted" /\ own'[c] = own[c]
    BY <1>0, <1>2, <2>1, SameRows, PostedStays DEF NewestIsLast, WasPosted
  <2>2. CASE PostStudy(c)
    <3>1. PICK n \in Studies : /\ record[n].status = "unposted"
                               /\ record' = [record EXCEPT ![n].status = "running"]
                               /\ own' = [own EXCEPT ![c] = n]
      BY <2>2 DEF PostStudy
    <3>2. own'[c] = n /\ WasPosted(n)'
      BY <1>0, <3>1 DEF TypeOK, WasPosted
    <3>3. ASSUME NEW i \in RowsAt PROVE file[i].study < n
      <4>1. WasPosted(file[i].study) /\ ~ WasPosted(n)
        BY <3>1 DEF RowsAreKnown, Known, WasPosted
      <4>2. ~ (n < file[i].study)
        BY <3>1, <4>1 DEF PostedInOrder, WasPosted, Ended
      <4>3. QED
        BY <1>0, <4>1, <4>2, Numbers
    <3>4. QED
      BY <1>0, <1>2, <3>2, <3>3, SameRows
  <2>3. (pc[c] = "posted" /\ own'[c] = own[c]) \/ PostStudy(c)
    <3> USE <1>0 DEF TypeOK, Places
    <3>1. ASSUME NEW d \in Callers,
                 BeginSettle(d) \/ SettleEnds(d) \/ View(d) \/ WriteNewline(d)
          PROVE  pc[c] = "posted" /\ own'[c] = own[c]
      BY <1>2, <3>1 DEF BeginSettle, SettleEnds, View, WriteNewline
    <3>2. ASSUME NEW d \in Callers, SettleOne(d) PROVE pc[c] = "posted" /\ own'[c] = own[c]
      BY <1>2, <3>2 DEF SettleOne, Write
    <3>3. ASSUME NEW d \in Callers, RecordSubmission(d) PROVE pc[c] = "posted" /\ own'[c] = own[c]
      BY <1>2, <3>3 DEF RecordSubmission, Write
    <3>4. ASSUME NEW d \in Callers, PostStudy(d)
          PROVE  (pc[c] = "posted" /\ own'[c] = own[c]) \/ PostStudy(c)
      <4>1. CASE d = c
        BY <3>4, <4>1
      <4>2. CASE d # c
        BY <1>2, <3>4, <4>2 DEF PostStudy
      <4>3. QED
        BY <4>1, <4>2
    <3>5. QED
      BY <1>2, <3>1, <3>2, <3>3, <3>4, CalmSteps DEF StudyEnds, calls
  <2>4. QED
    BY <2>1, <2>2, <2>3
<1>3. ASSUME \A c \in Callers : ~ WriteObject(c),
             NEW c \in Callers, pc'[c] = "write", draft'[c].by = "run"
      PROVE  \A i \in RowsAt' : file'[i].study < draft'[c].study
  <2>1. CASE pc[c] = "write" /\ draft'[c] = draft[c]
    BY <1>0, <1>3, <2>1, SameRows DEF NewestIsLast
  <2>2. CASE RecordSubmission(c)
    <3>1. pc[c] = "posted" /\ draft'[c].study = own[c]
      BY <1>0, <2>2 DEF RecordSubmission, Write, TypeOK
    <3>2. QED
      BY <1>0, <1>3, <3>1, SameRows DEF NewestIsLast
  <2>3. (pc[c] = "write" /\ draft'[c] = draft[c]) \/ RecordSubmission(c)
    <3> USE <1>0 DEF TypeOK, Places
    <3>1. ASSUME NEW d \in Callers,
                 PostStudy(d) \/ BeginSettle(d) \/ SettleEnds(d) \/ View(d) \/ WriteNewline(d)
          PROVE  pc[c] = "write" /\ draft'[c] = draft[c]
      BY <1>3, <3>1 DEF PostStudy, BeginSettle, SettleEnds, View, WriteNewline
    <3>2. ASSUME NEW d \in Callers, SettleOne(d) PROVE pc[c] = "write" /\ draft'[c] = draft[c]
      <4>1. PICK i \in todo[d] : \/ Write(d, Closing(file[i])) \/ UNCHANGED <<draft, pc>>
        BY <3>2 DEF SettleOne, First
      <4>2. file[i] \in Rows
        BY <1>0, Numbers DEF TodoIsOpen
      <4>3. Closing(file[i]).by = "settle"
        BY <4>2 DEF Closing, Rows
      <4>4. QED
        BY <1>3, <3>2, <4>1, <4>3 DEF SettleOne, Write
    <3>3. ASSUME NEW d \in Callers, RecordSubmission(d)
          PROVE  (pc[c] = "write" /\ draft'[c] = draft[c]) \/ RecordSubmission(c)
      <4>1. CASE d = c
        BY <3>3, <4>1
      <4>2. CASE d # c
        BY <1>3, <3>3, <4>2 DEF RecordSubmission, Write
      <4>3. QED
        BY <4>1, <4>2
    <3>4. QED
      BY <1>3, <3>1, <3>2, <3>3, CalmSteps DEF StudyEnds, calls
  <2>4. QED
    BY <2>1, <2>2, <2>3
<1>4. CASE \A c \in Callers : ~ WriteObject(c)
  BY <1>2, <1>3, <1>4 DEF NewestIsLast
<1>5. QED
  BY <1>1, <1>4

\* Submitted rows, closing rows and what is left open come in the order of the studies.
LEMMA NextFileOrder ==
  ASSUME IInv, InTurn, [Next]_vars
  PROVE  SubmittedInOrder' /\ SettledInOrder' /\ OpenComeLater'
<1> USE DEF InTurn
<1>0. TypeOK
  BY DEF IInv
<1>1. CASE \A c \in Callers : ~ WriteObject(c)
  BY <1>0, <1>1, SameRows, Numbers DEF SubmittedInOrder, SettledInOrder, OpenComeLater
<1>2. ASSUME NEW c \in Callers, WriteObject(c)
      PROVE  SubmittedInOrder' /\ SettledInOrder' /\ OpenComeLater'
  <2> DEFINE n == Len(file) + 1
  <2>1. /\ n \in Nat /\ RowsAt' = RowsAt \cup {n} /\ file'[n] = draft[c]
        /\ \A i \in RowsAt : i \in Nat /\ i < n /\ file'[i] = file[i]
        /\ draft[c] # NoRow /\ pc[c] = "write" /\ draft[c].study \in Nat
    BY <1>0, <1>2, OneRow, Numbers DEF WriteObject
  <2> HIDE DEF n
  <2>2. Unsettled' \subseteq Unsettled \cup {n}
    BY <2>1 DEF Unsettled, Closed
  <2>3. \/ draft[c].by = "run" /\ \A i \in RowsAt : file[i].study < draft[c].study
        \/ /\ draft[c].by = "settle" /\ draft[c].result # "submitted"
           /\ \A i \in Unsettled : draft[c].study <= file[i].study
           /\ \A j \in RowsAt : file[j].by = "settle" => file[j].study <= draft[c].study
    BY <2>1 DEF RowsAreKnown, Known, NewestIsLast, OldestIsNext, Closes
  <2>4. n \in Unsettled' => draft[c].by = "run"
    BY <2>1, <2>3 DEF Unsettled
  <2>5. SubmittedInOrder'
    BY <2>1, <2>3 DEF SubmittedInOrder
  <2>6. SettledInOrder'
    BY <2>1, <2>3 DEF SettledInOrder
  <2>7. OpenComeLater'
    <3> SUFFICES ASSUME NEW i \in Unsettled', NEW j \in RowsAt', file'[j].by = "settle"
                 PROVE  file'[j].study <= file'[i].study
      BY DEF OpenComeLater
    <3>1. CASE i = n
      <4>1. j \in RowsAt
        BY <2>1, <2>3, <2>4, <3>1
      <4>2. file[j].study \in Nat /\ file[j].study < draft[c].study
        BY <1>0, <2>3, <2>4, <3>1, <4>1, Numbers
      <4>3. QED
        BY <2>1, <3>1, <4>1, <4>2
    <3>2. CASE i # n
      <4>1. i \in Unsettled /\ i \in RowsAt
        BY <1>0, <2>2, <3>2, Numbers
      <4>2. CASE j \in RowsAt
        BY <2>1, <4>1, <4>2 DEF OpenComeLater
      <4>3. CASE j = n
        BY <2>1, <2>3, <4>1, <4>3
      <4>4. QED
        BY <2>1, <4>2, <4>3
    <3>3. QED
      BY <3>1, <3>2
  <2>8. QED
    BY <2>5, <2>6, <2>7
<1>3. QED
  BY <1>1, <1>2

\* A row that closes what was unsettled leaves only other studies' rows unsettled.
LEMMA WhatStaysOpen ==
  ASSUME TypeOK, RowsAreKnown, NEW c \in Callers, WriteObject(c)
  PROVE  /\ draft[c].by = "run" => Unsettled \subseteq Unsettled'
         /\ draft[c].by = "settle" =>
              /\ Closed(draft[c].study)'
              /\ Unsettled' = {i \in Unsettled : file[i].study # draft[c].study}
<1> DEFINE n == Len(file) + 1
<1>1. /\ n \notin RowsAt /\ RowsAt' = RowsAt \cup {n} /\ file'[n] = draft[c]
      /\ \A i \in RowsAt : file'[i] = file[i]
      /\ Known(draft[c])
  BY OneRow DEF RowsAreKnown
<1> HIDE DEF n
<1>2. ASSUME draft[c].by = "run" PROVE Unsettled \subseteq Unsettled'
  <2>1. \A s : Closed(s)' => Closed(s)
    BY <1>1, <1>2 DEF Closed, Known
  <2>2. QED
    BY <1>1, <2>1 DEF Unsettled
<1>3. ASSUME draft[c].by = "settle"
      PROVE  /\ Closed(draft[c].study)'
             /\ Unsettled' = {i \in Unsettled : file[i].study # draft[c].study}
  <2>1. draft[c].result # "submitted"
    BY <1>1, <1>3 DEF Known
  <2>2. \A s : Closed(s)' <=> Closed(s) \/ s = draft[c].study
    BY <1>1, <2>1 DEF Closed
  <2>3. UNCHANGED draft
    BY OneRow
  <2>4. \A i : i \in Unsettled' <=> i \in Unsettled /\ file[i].study # draft[c].study
    BY <1>1, <2>1, <2>2 DEF Unsettled
  <2>5. Closed(draft[c].study)'
    BY <1>1, <2>1, <2>3 DEF Closed
  <2>6. QED
    BY <2>4, <2>5
<1>4. QED
  BY <1>2, <1>3

\* A row that settle comes to is of the oldest study that is unsettled, and older than
\* what is left on its list.
LEMMA FirstIsOldest ==
  ASSUME IInv, InTurn, NEW c \in Callers, pc[c] = "settle", NEW k \in First(todo[c])
  PROVE  /\ k \in todo[c] /\ k \in Unsettled /\ file[k] \in Rows /\ file[k].study \in Nat
         /\ draft[c] = NoRow
         /\ \A i \in Unsettled : file[k].study <= file[i].study
         /\ \A i \in todo[c] \ {k} : file[k].study < file[i].study
<1> USE DEF InTurn
<1>0. TypeOK /\ SubmittedByRun
  BY DEF IInv
<1>1. k \in todo[c] /\ \A i \in todo[c] : k <= i
  BY DEF First
<1>2. draft[c] = NoRow
  BY <1>0 DEF TypeOK
<1>3. /\ todo[c] \subseteq Unsettled /\ Unsettled \subseteq RowsAt
      /\ \A i \in RowsAt : i \in Nat /\ file[i] \in Rows /\ file[i].study \in Nat
      /\ \A i \in Unsettled : file[i].by = "run"
  BY <1>0, Numbers DEF TodoIsOpen, SubmittedByRun, ByRun, Unsettled
<1>4. ASSUME NEW i \in todo[c], i # k PROVE file[k].study < file[i].study
  BY <1>1, <1>3, <1>4 DEF SubmittedInOrder
<1>5. ASSUME NEW i \in Unsettled PROVE file[k].study <= file[i].study
  <2>1. CASE file[i].study < file[k].study
    <3>1. i \in todo[c]
      BY <1>1, <1>2, <2>1 DEF NoneIsSkipped, Closes
    <3>2. QED
      BY <1>1, <1>3, <1>4, <2>1, <3>1
  <2>2. QED
    BY <1>1, <1>3, <2>1
<1>6. QED
  BY <1>1, <1>2, <1>3, <1>4, <1>5

\* What a call in settle's loop does to its list and to the row in its hand.
LEMMA SettleTakesFirst ==
  ASSUME IInv, InTurn, NEW c \in Callers, SettleOne(c)
  PROVE  \E k \in First(todo[c]) :
           /\ todo' = [todo EXCEPT ![c] = @ \ {k}]
           /\ \/ /\ record[file[k].study].status \in Ended
                 /\ draft' = [draft EXCEPT ![c] = Closing(file[k])]
                 /\ pc' = [pc EXCEPT ![c] = "write"]
                 /\ Closing(file[k]) # NoRow
                 /\ Closing(file[k]).by = "settle" /\ Closing(file[k]).study = file[k].study
              \/ record[file[k].study].status \notin Ended /\ UNCHANGED <<draft, pc>>
<1>1. PICK k \in First(todo[c]) :
         /\ todo' = [todo EXCEPT ![c] = @ \ {k}]
         /\ \/ record[file[k].study].status \in Ended /\ Write(c, Closing(file[k]))
            \/ record[file[k].study].status \notin Ended /\ UNCHANGED <<draft, pc>>
  BY DEF SettleOne
<1>2. file[k] \in Rows
  BY FirstIsOldest DEF SettleOne
<1>3. /\ Closing(file[k]).by = "settle" /\ Closing(file[k]).study = file[k].study
      /\ record[file[k].study].status \in Ended => Closing(file[k]) \in Rows
  <2> DEFINE v == Verdict[record[file[k].study].status]
  <2>1. record[file[k].study].status \in Ended => v \in {"pass", "fail", "interrupted"}
    BY VerdictType
  <2> HIDE DEF v
  <2>2. /\ [file[k] EXCEPT !.result = v, !.by = "settle"].by = "settle"
        /\ [file[k] EXCEPT !.result = v, !.by = "settle"].study = file[k].study
        /\ v \in {"pass", "fail", "interrupted"} =>
             [file[k] EXCEPT !.result = v, !.by = "settle"] \in Rows
    BY <1>2 DEF Rows
  <2>3. QED
    BY <2>1, <2>2 DEF Closing, v
<1>4. record[file[k].study].status \in Ended => Closing(file[k]) # NoRow
  BY <1>3, RowAssumption
<1>5. QED
  BY <1>1, <1>3, <1>4 DEF Write

\* A call's closing row is in its hand from the turn of settle's loop to its newline.
LEMMA ClosesSteps ==
  ASSUME IInv, InTurn, [Next]_vars, Calm', NEW c \in Callers, Closes(c)'
  PROVE  \/ SettleOne(c) /\ UNCHANGED <<file, record>>
         \/ Closes(c) /\ draft'[c] = draft[c] /\ todo'[c] = todo[c]
<1> USE DEF InTurn, Closes
<1>0. TypeOK
  BY DEF IInv
<1> USE <1>0 DEF TypeOK, Places
<1>1. ASSUME NEW d \in Callers, SettleOne(d)
      PROVE  \/ SettleOne(c) /\ UNCHANGED <<file, record>>
             \/ Closes(c) /\ draft'[c] = draft[c] /\ todo'[c] = todo[c]
  <2>1. CASE d = c
    BY <1>1, <2>1 DEF SettleOne, external
  <2>2. CASE d # c
    BY <1>1, <2>2 DEF SettleOne, Write
  <2>3. QED
    BY <2>1, <2>2
<1>2. ASSUME NEW d \in Callers, PostStudy(d) \/ SettleEnds(d) \/ View(d) \/ WriteObject(d)
      PROVE  Closes(c) /\ draft'[c] = draft[c] /\ todo'[c] = todo[c]
  BY <1>2 DEF PostStudy, SettleEnds, View, WriteObject
<1>3. ASSUME NEW d \in Callers, BeginSettle(d)
      PROVE  Closes(c) /\ draft'[c] = draft[c] /\ todo'[c] = todo[c]
  BY <1>3, CalmBegins DEF BeginSettle
<1>4. ASSUME NEW d \in Callers, WriteNewline(d)
      PROVE  Closes(c) /\ draft'[c] = draft[c] /\ todo'[c] = todo[c]
  BY <1>4 DEF WriteNewline
<1>5. ASSUME NEW d \in Callers, RecordSubmission(d)
      PROVE  Closes(c) /\ draft'[c] = draft[c] /\ todo'[c] = todo[c]
  BY <1>5 DEF RecordSubmission, Write
<1>6. CASE UNCHANGED <<draft, todo>>
  BY <1>6
<1>7. QED
  BY <1>1, <1>2, <1>3, <1>4, <1>5, <1>6, CalmSteps DEF StudyEnds, calls

\* The row in settle's hand stays the oldest.
LEMMA NextOldestIsNext ==
  ASSUME IInv, InTurn, [Next]_vars, Calm' PROVE OldestIsNext'
<1> USE DEF InTurn
<1>0. TypeOK
  BY DEF IInv
<1> SUFFICES ASSUME NEW c \in Callers, Closes(c)'
             PROVE  /\ \A i \in Unsettled' : draft'[c].study <= file'[i].study
                    /\ \A j \in RowsAt' : file'[j].by = "settle" => file'[j].study <= draft'[c].study
                    /\ \A k \in todo'[c] : draft'[c].study < file'[k].study
  BY DEF OldestIsNext
<1>1. CASE SettleOne(c) /\ UNCHANGED <<file, record>>
  <2>1. PICK k \in First(todo[c]) :
           /\ todo' = [todo EXCEPT ![c] = @ \ {k}]
           /\ \/ /\ draft' = [draft EXCEPT ![c] = Closing(file[k])]
                 /\ Closing(file[k]).study = file[k].study
              \/ UNCHANGED draft
    BY <1>1, SettleTakesFirst
  <2>2. /\ draft[c] = NoRow /\ k \in Unsettled
        /\ \A i \in Unsettled : file[k].study <= file[i].study
        /\ \A i \in todo[c] \ {k} : file[k].study < file[i].study
    BY <1>1, FirstIsOldest DEF SettleOne
  <2>3. draft'[c].study = file[k].study /\ todo'[c] = todo[c] \ {k}
    BY <1>0, <2>1, <2>2 DEF Closes, TypeOK
  <2>4. \A j \in RowsAt : file[j].by = "settle" => file[j].study <= file[k].study
    BY <2>2 DEF OpenComeLater
  <2>5. \A d \in Callers : ~ WriteObject(d)
    BY <1>0, <1>1, Appended DEF WriteObject, TypeOK
  <2>6. /\ Unsettled' = Unsettled /\ RowsAt' = RowsAt /\ file' = file
    BY <1>0, <1>1, <2>5, SameRows
  <2>7. QED
    BY <2>2, <2>3, <2>4, <2>6
<1>2. CASE Closes(c) /\ draft'[c] = draft[c] /\ todo'[c] = todo[c]
  <2>1. /\ \A i \in Unsettled : draft[c].study <= file[i].study
        /\ \A j \in RowsAt : file[j].by = "settle" => file[j].study <= draft[c].study
        /\ \A k \in todo[c] : draft[c].study < file[k].study
    BY <1>2 DEF OldestIsNext
  <2>2. todo[c] \subseteq RowsAt /\ Unsettled \subseteq RowsAt /\ draft[c].study \in Nat
    BY <1>0, <1>2, Numbers DEF TodoIsOpen, Closes
  <2>3. CASE \A d \in Callers : ~ WriteObject(d)
    <3>1. /\ RowsAt' = RowsAt /\ Unsettled' = Unsettled
          /\ \A i \in RowsAt : file'[i] = file[i]
      BY <1>0, <2>3, SameRows
    <3>2. QED
      BY <1>2, <2>1, <2>2, <3>1
  <2>4. ASSUME NEW d \in Callers, WriteObject(d)
        PROVE  /\ \A i \in Unsettled' : draft'[c].study <= file'[i].study
               /\ \A j \in RowsAt' : file'[j].by = "settle" => file'[j].study <= draft'[c].study
               /\ \A k \in todo'[c] : draft'[c].study < file'[k].study
    <3>1. d = c /\ draft[c].by = "settle"
      BY <1>0, <1>2, <2>4 DEF OneAtATime, WriteObject, Closes, TypeOK
    <3>2. /\ RowsAt' = RowsAt \cup {Len(file) + 1}
          /\ \A i \in RowsAt : file'[i] = file[i]
          /\ file'[Len(file) + 1] = draft[c]
      BY <1>0, <2>4, <3>1, OneRow
    <3>3. Unsettled' \subseteq Unsettled
      BY <1>0, <2>4, <3>1, WhatStaysOpen
    <3>4. QED
      BY <1>2, <2>1, <2>2, <3>2, <3>3
  <2>5. QED
    BY <2>3, <2>4
<1>3. QED
  BY <1>1, <1>2, ClosesSteps

\* A closing row in the file closes its study before its newline is written.
LEMMA NextWritten ==
  ASSUME IInv, InTurn, [Next]_vars, Calm' PROVE Written'
<1> USE DEF InTurn
<1>0. TypeOK
  BY DEF IInv
<1> SUFFICES ASSUME NEW c \in Callers, pc'[c] = "newline", Closes(c)'
             PROVE  Closed(draft[c].study)'
  BY DEF Written
<1>1. CASE WriteObject(c)
  <2>1. draft[c].by = "settle"
    BY <1>0, <1>1, OneRow DEF Closes
  <2>2. Closed(draft[c].study)'
    BY <1>0, <1>1, <2>1, WhatStaysOpen
  <2>3. QED
    BY <2>2
<1>2. CASE pc[c] = "newline" /\ draft'[c] = draft[c]
  <2>1. Closed(draft[c].study)
    BY <1>2 DEF Written, Closes
  <2>2. PICK i \in RowsAt : file[i].study = draft[c].study /\ file[i].result # "submitted"
    BY <2>1 DEF Closed
  <2>3. i \in RowsAt' /\ file'[i] = file[i]
    BY <1>0, <2>2, FileGrows DEF RowsAt, IsRow
  <2>4. QED
    BY <1>2, <2>2, <2>3 DEF Closed
<1>3. WriteObject(c) \/ (pc[c] = "newline" /\ draft'[c] = draft[c])
  <2> USE <1>0 DEF TypeOK, Places
  <2>1. ASSUME NEW d \in Callers, PostStudy(d) \/ BeginSettle(d) \/ SettleEnds(d) \/ View(d)
        PROVE  pc[c] = "newline" /\ draft'[c] = draft[c]
    BY <2>1 DEF PostStudy, BeginSettle, SettleEnds, View
  <2>2. ASSUME NEW d \in Callers, RecordSubmission(d) PROVE pc[c] = "newline" /\ draft'[c] = draft[c]
    BY <2>2 DEF RecordSubmission, Write
  <2>3. ASSUME NEW d \in Callers, SettleOne(d) PROVE pc[c] = "newline" /\ draft'[c] = draft[c]
    BY <2>3 DEF SettleOne, Write
  <2>4. ASSUME NEW d \in Callers, WriteNewline(d) PROVE pc[c] = "newline" /\ draft'[c] = draft[c]
    BY <2>4 DEF WriteNewline
  <2>5. ASSUME NEW d \in Callers, WriteObject(d)
        PROVE  WriteObject(c) \/ (pc[c] = "newline" /\ draft'[c] = draft[c])
    <3>1. CASE d = c
      BY <2>5, <3>1
    <3>2. CASE d # c
      BY <2>5, <3>2 DEF WriteObject
    <3>3. QED
      BY <3>1, <3>2
  <2>6. QED
    BY <2>1, <2>2, <2>3, <2>4, <2>5, CalmSteps DEF StudyEnds, calls
<1>4. QED
  BY <1>1, <1>2, <1>3

\* Only settle changes a call's list; a call that has one keeps the row in its hand
\* until the row's newline, and goes on.
LEMMA TodoSteps ==
  ASSUME IInv, InTurn, [Next]_vars, Calm', NEW c \in Callers
  PROVE  \/ BeginSettle(c) /\ Unsettled' = Unsettled
         \/ SettleOne(c) /\ UNCHANGED <<file, record>> /\ Unsettled' = Unsettled
         \/ todo'[c] = todo[c] /\ todo[c] = {}
         \/ /\ todo'[c] = todo[c]
            /\ pc'[c] = "settle" \/ Closes(c)'
            /\ \/ UNCHANGED <<pc[c], draft[c]>> /\ Unsettled' = Unsettled
               \/ WriteObject(c) /\ Closes(c) /\ draft'[c] = draft[c]
               \/ WriteNewline(c) /\ Closes(c) /\ Unsettled' = Unsettled
<1> USE DEF InTurn
<1>0. TypeOK
  BY DEF IInv
<1>1. CASE BeginSettle(c)
  <2>1. \A d \in Callers : ~ WriteObject(d)
    BY <1>0, <1>1, Appended DEF BeginSettle, WriteObject, TypeOK
  <2>2. QED
    BY <1>0, <1>1, <2>1, SameRows
<1>2. CASE SettleOne(c)
  <2>1. UNCHANGED <<file, record>>
    BY <1>2 DEF SettleOne, external
  <2>2. \A d \in Callers : ~ WriteObject(d)
    BY <1>0, <2>1, Appended DEF WriteObject, TypeOK
  <2>3. QED
    BY <1>0, <1>2, <2>1, <2>2, SameRows
<1>3. CASE ~ BeginSettle(c) /\ ~ SettleOne(c)
  <2>1. todo'[c] = todo[c]
    <3> USE <1>0 DEF TypeOK
    <3>1. ASSUME NEW d \in Callers, BeginSettle(d) \/ SettleOne(d) PROVE todo'[c] = todo[c]
      BY <1>3, <3>1 DEF BeginSettle, SettleOne
    <3>2. QED
      BY <3>1, CalmSteps DEF StudyEnds, PostStudy, RecordSubmission, SettleEnds, View, WriteObject,
         WriteNewline, calls
  <2>2. CASE todo[c] = {}
    BY <2>1, <2>2
  <2>3. CASE todo[c] # {}
    <3>1. /\ pc[c] = "settle" \/ Closes(c)
          /\ pc[c] \in {"settle", "write", "newline"}
          /\ \A d \in Callers : d # c => pc[d] = "idle"
      BY <1>0, <2>3 DEF TodoIsOpen, Closes, TypeOK, OneAtATime, Places
    <3>2. CASE WriteObject(c)
      BY <1>0, <2>1, <3>1, <3>2 DEF WriteObject, Closes, TypeOK
    <3>3. CASE WriteNewline(c)
      <4>1. Closes(c) /\ pc'[c] = "settle"
        BY <1>0, <3>1, <3>3 DEF WriteNewline, Closes, TypeOK
      <4>2. \A d \in Callers : ~ WriteObject(d)
        BY <3>1, <3>3 DEF WriteObject, WriteNewline
      <4>3. Unsettled' = Unsettled
        BY <1>0, <4>2, SameRows
      <4>4. QED
        BY <2>1, <3>3, <4>1, <4>3
    <3>4. CASE ~ WriteObject(c) /\ ~ WriteNewline(c)
      <4>1. \A d \in Callers : ~ WriteObject(d)
        BY <3>1, <3>4 DEF WriteObject
      <4>2. Unsettled' = Unsettled
        BY <1>0, <4>1, SameRows
      <4>3. UNCHANGED <<pc[c], draft[c]>>
        <5>1. \A d \in Callers : ~ PostStudy(d) /\ ~ BeginSettle(d)
          BY <3>1, CalmBegins DEF PostStudy, BeginSettle
        <5>2. \A d \in Callers : ~ RecordSubmission(d) /\ ~ View(d) /\ ~ SettleEnds(d)
          BY <2>3, <3>1 DEF RecordSubmission, View, SettleEnds
        <5>3. \A d \in Callers : ~ WriteObject(d) /\ ~ WriteNewline(d) /\ ~ SettleOne(d)
          BY <1>3, <3>1, <3>4 DEF WriteObject, WriteNewline, SettleOne
        <5>4. QED
          BY <1>0, <5>1, <5>2, <5>3, CalmSteps DEF StudyEnds, calls
      <4>4. Closes(c)' <=> Closes(c)
        BY <4>3 DEF Closes
      <4>5. QED
        BY <2>1, <3>1, <4>2, <4>3, <4>4
    <3>5. QED
      BY <3>2, <3>3, <3>4
  <2>4. QED
    BY <2>2, <2>3
<1>4. QED
  BY <1>1, <1>2, <1>3

\* What a call still goes through is unsettled.
LEMMA NextTodoIsOpen ==
  ASSUME IInv, InTurn, [Next]_vars, Calm' PROVE TodoIsOpen'
<1> USE DEF InTurn
<1>0. TypeOK
  BY DEF IInv
<1> SUFFICES ASSUME NEW c \in Callers
             PROVE  todo'[c] \subseteq Unsettled' /\ (todo'[c] # {} => pc'[c] = "settle" \/ Closes(c)')
  BY DEF TodoIsOpen
<1>1. CASE BeginSettle(c) /\ Unsettled' = Unsettled
  BY <1>0, <1>1 DEF BeginSettle, TypeOK
<1>2. CASE SettleOne(c) /\ UNCHANGED <<file, record>> /\ Unsettled' = Unsettled
  <2>1. PICK k \in First(todo[c]) :
           /\ todo' = [todo EXCEPT ![c] = @ \ {k}]
           /\ \/ /\ draft' = [draft EXCEPT ![c] = Closing(file[k])]
                 /\ Closing(file[k]) # NoRow /\ Closing(file[k]).by = "settle"
              \/ UNCHANGED <<draft, pc>>
    BY <1>2, SettleTakesFirst
  <2>2. todo'[c] \subseteq todo[c] /\ todo[c] \subseteq Unsettled
    BY <1>0, <2>1 DEF TodoIsOpen, TypeOK
  <2>3. pc'[c] = "settle" \/ Closes(c)'
    BY <1>0, <1>2, <2>1 DEF SettleOne, Closes, TypeOK
  <2>4. QED
    BY <1>2, <2>2, <2>3
<1>3. CASE todo'[c] = todo[c] /\ todo[c] = {}
  BY <1>3
<1>4. CASE /\ todo'[c] = todo[c]
           /\ pc'[c] = "settle" \/ Closes(c)'
           /\ Unsettled' = Unsettled
  BY <1>4 DEF TodoIsOpen
<1>5. CASE /\ todo'[c] = todo[c]
           /\ pc'[c] = "settle" \/ Closes(c)'
           /\ WriteObject(c) /\ Closes(c)
  <2>1. Unsettled' = {i \in Unsettled : file[i].study # draft[c].study}
    BY <1>0, <1>5, WhatStaysOpen DEF Closes
  <2>2. \A k \in todo[c] : k \in Unsettled /\ draft[c].study < file[k].study
    BY <1>5 DEF OldestIsNext, TodoIsOpen
  <2>3. draft[c].study \in Nat
    BY <1>0, <1>5, Numbers DEF Closes
  <2>4. QED
    BY <1>5, <2>1, <2>2, <2>3
<1>6. QED
  BY <1>1, <1>2, <1>3, <1>4, <1>5, TodoSteps

\* settle skips no study that has ended and is older than one it comes to.
LEMMA NextNoneIsSkipped ==
  ASSUME IInv, InTurn, [Next]_vars, Calm' PROVE NoneIsSkipped'
<1> USE DEF InTurn
<1>0. TypeOK
  BY DEF IInv
<1> SUFFICES ASSUME NEW c \in Callers, NEW k \in todo'[c], NEW i \in Unsettled',
                    file'[i].study < file'[k].study
             PROVE  i \in todo'[c] \/ (Closes(c)' /\ draft'[c].study = file'[i].study)
  BY DEF NoneIsSkipped
<1>1. CASE BeginSettle(c) /\ Unsettled' = Unsettled
  BY <1>0, <1>1 DEF BeginSettle, TypeOK
<1>2. CASE SettleOne(c) /\ UNCHANGED <<file, record>> /\ Unsettled' = Unsettled
  <2>1. PICK f \in First(todo[c]) :
           /\ todo' = [todo EXCEPT ![c] = @ \ {f}]
           /\ \/ /\ record[file[f].study].status \in Ended
                 /\ draft' = [draft EXCEPT ![c] = Closing(file[f])]
                 /\ Closing(file[f]) # NoRow
                 /\ Closing(file[f]).by = "settle" /\ Closing(file[f]).study = file[f].study
              \/ record[file[f].study].status \notin Ended
    BY <1>2, SettleTakesFirst
  <2>2. todo'[c] = todo[c] \ {f}
    BY <1>0, <2>1 DEF TypeOK
  <2>3. i \in todo[c]
    <3>1. draft[c] = NoRow
      BY <1>0, <1>2 DEF SettleOne, TypeOK
    <3>2. file[i].study < file[k].study /\ k \in todo[c] /\ i \in Unsettled
      BY <1>2, <2>2
    <3>3. QED
      BY <3>1, <3>2 DEF NoneIsSkipped, Closes
  <2>4. CASE i = f
    <3>1. WasPosted(file[k].study) /\ WasPosted(file[f].study)
      <4>1. k \in RowsAt /\ f \in RowsAt
        BY <2>2 DEF First, TodoIsOpen, Unsettled
      <4>2. QED
        BY <4>1 DEF RowsAreKnown, Known
    <3>2. record[file[f].study].status \in Ended
      BY <1>2, <2>4, <3>1 DEF PostedInOrder, WasPosted
    <3>3. QED
      BY <1>0, <1>2, <2>1, <2>4, <3>2 DEF Closes, TypeOK
  <2>5. QED
    BY <2>2, <2>3, <2>4
<1>3. CASE todo'[c] = todo[c] /\ todo[c] = {}
  BY <1>3
<1>4. ASSUME todo'[c] = todo[c], i \in Unsettled
      PROVE  i \in todo[c] \/ (Closes(c) /\ draft[c].study = file[i].study)
  <2>1. k \in todo[c] /\ k \in DOMAIN file /\ i \in DOMAIN file
    BY <1>0, <1>4 DEF TypeOK, Unsettled, RowsAt
  <2>2. file'[k] = file[k] /\ file'[i] = file[i]
    BY <1>0, <2>1, FileGrows
  <2>3. QED
    BY <1>4, <2>1, <2>2 DEF NoneIsSkipped
<1>5. i \in Unsettled => file'[i] = file[i]
  BY <1>0, FileGrows DEF Unsettled, RowsAt
<1>6. CASE todo'[c] = todo[c] /\ UNCHANGED <<pc[c], draft[c]>> /\ Unsettled' = Unsettled
  BY <1>4, <1>5, <1>6 DEF Closes
<1>7. CASE todo'[c] = todo[c] /\ WriteObject(c) /\ Closes(c) /\ draft'[c] = draft[c]
  <2>1. i \in Unsettled
    BY <1>0, <1>7, WhatStaysOpen DEF Closes
  <2>2. QED
    BY <1>4, <1>5, <1>7, <2>1 DEF Closes
<1>8. CASE todo'[c] = todo[c] /\ WriteNewline(c) /\ Closes(c) /\ Unsettled' = Unsettled
  <2>1. Closed(draft[c].study)
    BY <1>8 DEF Written, WriteNewline
  <2>2. i \in Unsettled /\ ~ Closed(file[i].study)
    BY <1>8 DEF Unsettled
  <2>3. draft[c].study # file[i].study
    BY <2>1, <2>2
  <2>4. QED
    BY <1>4, <1>8, <2>2, <2>3
<1>9. QED
  BY <1>1, <1>2, <1>3, <1>6, <1>7, <1>8, TodoSteps

-----------------------------------------------------------------------------
(* The newest study is the last line *)

\* Calls that come one at a time, without failures and rows added by hand, go in turn.
LEMMA CalmInvariance == Spec => []CalmInv
<1>1. Init => CalmInv
  <2> SUFFICES ASSUME Init PROVE InTurn
    BY DEF CalmInv
  <2>1. RowsAt = {} /\ Unsettled = {}
    BY DEF Init, RowsAt, Unsettled
  <2>2. \A s \in Studies : record[s].status = "unposted"
    BY DEF Init
  <2>3. OneAtATime /\ PostedInOrder /\ RowsAreKnown /\ NewestIsLast
    BY <2>1, <2>2 DEF Init, OneAtATime, PostedInOrder, WasPosted, RowsAreKnown, NewestIsLast
  <2>4. SubmittedInOrder /\ SettledInOrder /\ OpenComeLater
    BY <2>1 DEF SubmittedInOrder, SettledInOrder, OpenComeLater
  <2>5. OldestIsNext /\ TodoIsOpen /\ Written /\ NoneIsSkipped
    BY <2>1 DEF Init, OldestIsNext, Closes, TodoIsOpen, Written, NoneIsSkipped
  <2>6. QED
    BY <2>3, <2>4, <2>5 DEF InTurn
<1>2. IInv /\ CalmInv /\ [Next]_vars => CalmInv'
  <2> SUFFICES ASSUME IInv, CalmInv, [Next]_vars, Calm' PROVE InTurn'
    BY DEF CalmInv
  <2>1. TypeOK
    BY DEF IInv
  <2>2. InTurn
    BY <2>1, CalmSteps DEF CalmInv
  <2>3. OneAtATime' /\ PostedInOrder'
    BY <2>1, <2>2, NextOneAtATime, NextPostedInOrder DEF InTurn
  <2>4. RowsAreKnown' /\ NewestIsLast'
    BY <2>2, NextRowsAreKnown, NextNewestIsLast
  <2>5. SubmittedInOrder' /\ SettledInOrder' /\ OpenComeLater'
    BY <2>2, NextFileOrder
  <2>6. OldestIsNext' /\ Written'
    BY <2>2, NextOldestIsNext, NextWritten
  <2>7. TodoIsOpen' /\ NoneIsSkipped'
    BY <2>2, NextTodoIsOpen, NextNoneIsSkipped
  <2>8. QED
    BY <2>3, <2>4, <2>5, <2>6, <2>7 DEF InTurn
<1>3. QED
  BY <1>1, <1>2, Invariance, PTL DEF Spec

\* Numbers that are not above all bounds have a greatest one.
LEMMA HasLast ==
  ASSUME NEW S \in SUBSET Nat, S # {}, NEW n \in Nat, \A i \in S : i <= n
  PROVE  Last(S) \in S /\ \A j \in S : j <= Last(S)
<1> DEFINE R == OpToRel(<, Nat)
           U == {u \in Nat : \A i \in S : i <= u}
<1>1. \A x, y \in Nat : <<y, x>> \in R <=> y < x
  BY DEF OpToRel
<1>2. U \subseteq Nat /\ n \in U
  OBVIOUS
<1>3. IsWellFoundedOn(R, Nat)
  BY NatLessThanWellFounded
<1> HIDE DEF R
<1>4. PICK u \in U : \A v \in U : ~ (<<v, u>> \in R)
  <2> HIDE DEF U
  <2> QED
    BY <1>2, <1>3, WFMin
<1>5. u \in S
  <2> SUFFICES ASSUME u \notin S PROVE FALSE
    OBVIOUS
  <2>1. PICK i \in S : TRUE
    OBVIOUS
  <2>2. u - 1 \in Nat /\ u - 1 < u
    BY <2>1
  <2>3. u - 1 \in U
    BY <2>2
  <2>4. QED
    BY <1>1, <1>4, <2>2, <2>3
<1>6. \E i \in S : \A j \in S : j <= i
  BY <1>5
<1>7. QED
  BY <1>6 DEF Last

\* When calls came one at a time and nothing failed or was added by hand, a test whose
\* runs are all settled counts as done only if its last run passed, however late and
\* in however many passes its runs were settled.
THEOREM LatestRunDecides == Spec => []SequentialCallsTellTheLast
<1>1. IInv /\ CalmInv => SequentialCallsTellTheLast
  <2> SUFFICES ASSUME IInv, CalmInv, ~ crossed, faults = 0, NEW t \in Tests, DoneAfterFailure(t)
               PROVE  FALSE
    BY DEF SequentialCallsTellTheLast
  <2> USE DEF DoneAfterFailure
  <2> DEFINE m == Last(RowsOf(t))
             L == Last(EndedRuns(t))
  <2>1. TypeOK /\ InTurn
    BY DEF IInv, CalmInv, Calm
  <2>2. m \in RowsOf(t) /\ \A i \in RowsOf(t) : i <= m
    <3>1. /\ RowsOf(t) \subseteq Nat /\ RowsOf(t) # {} /\ Len(file) \in Nat
          /\ \A i \in RowsOf(t) : i <= Len(file)
      <4>1. DOMAIN file = 1..Len(file) /\ Len(file) \in Nat
        BY <2>1 DEF TypeOK
      <4>2. QED
        BY <4>1 DEF RowsOf, RowsAt, IsRow, Done
    <3>2. QED
      BY <3>1, HasLast
  <2>3. L \in EndedRuns(t) /\ \A s \in EndedRuns(t) : s <= L
    <3>1. /\ EndedRuns(t) \subseteq Nat /\ EndedRuns(t) # {} /\ MaxStudies \in Nat
          /\ \A s \in EndedRuns(t) : s <= MaxStudies
      BY Bounds DEF EndedRuns, Studies
    <3>2. QED
      BY <3>1, HasLast
  <2>4. file[m].result = "pass" /\ Closed(L) /\ Verdict[record[L].status] # "pass"
    BY <2>3 DEF Done
  <2> HIDE DEF m, L
  <2>5. \A i \in RowsAt :
          /\ file[i].study \in Studies /\ file[i].test = record[file[i].study].test
          /\ file[i].result # "submitted" => file[i].by = "settle"
    BY <2>1 DEF InTurn, RowsAreKnown, Known, WasPosted
  <2>6. m \in RowsAt /\ file[m].test = t /\ file[m].by = "settle"
    BY <2>2, <2>4, <2>5 DEF RowsOf
  <2>7. file[m].study \in EndedRuns(t) /\ Verdict[record[file[m].study].status] = "pass"
    BY <2>4, <2>5, <2>6 DEF IInv, RowsTell, Tells, EndedRuns
  <2>8. PICK i \in RowsAt : file[i].study = L /\ file[i].by = "settle" /\ i \in RowsOf(t)
    BY <2>3, <2>4, <2>5 DEF Closed, EndedRuns, RowsOf
  <2>9. L <= file[m].study
    <3>1. i \in Nat /\ m \in Nat /\ L \in Nat /\ i <= m
      BY <2>1, <2>2, <2>6, <2>8, Numbers
    <3>2. CASE i < m
      BY <2>1, <2>6, <2>8, <3>2 DEF InTurn, SettledInOrder
    <3>3. CASE i = m
      BY <2>8, <3>1, <3>3
    <3>4. QED
      BY <3>1, <3>2, <3>3
  <2>10. L = file[m].study
    <3>1. L \in Nat /\ file[m].study \in Nat /\ file[m].study <= L
      BY <2>1, <2>3, <2>6, <2>7, <2>8, Numbers
    <3>2. QED
      BY <2>9, <3>1
  <2>11. QED
    BY <2>4, <2>7, <2>10
<1>2. QED
  BY <1>1, CalmInvariance, Invariance, PTL
==============================================================================
