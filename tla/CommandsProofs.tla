--------------------------- MODULE CommandsProofs ----------------------------
(***************************************************************************)
(* Proofs about Commands, for any builds of Core: how many there are, what *)
(* routes each of them has, and which schemas they speak.                  *)
(*                                                                         *)
(* That a refusal is told by its cause (CInv) needs nothing of the scripts:  *)
(* an answer that has been told names its cause through the reading of its *)
(* own method, whatever was asked before, and no method looks at Core      *)
(* again to read it.                                                       *)
(*                                                                         *)
(* That a report is true of Core (RInv) rests on the scripts.  Every one   *)
(* of them, of both faces, has the shape Whole, what is left of it has the *)
(* shape Rest, and that is all the argument uses: what changes Core comes  *)
(* last, but for what is on the way there, a study comes after the         *)
(* schemas, and what the command is for is done or still ahead.            *)
(*                                                                         *)
(* Of the commands beside Core, the stack command (Restack, for any number *)
(* of branches, folds and restacks) is the one that could lose work.  That *)
(* the stack's old tips are in backups (StackInv) needs the histories to   *)
(* be sequences of patches, whatever a rebase makes of them, and restack   *)
(* to have backed up its whole stack before the first rebase.              *)
(*                                                                         *)
(* What restack promises of the patches (HistoriesAreSound) holds whatever *)
(* is below, above or beside the stack: no history has a patch twice, what *)
(* has a patch of a branch has it from there, and a branch has all that it *)
(* ever had.  What it promises of how it ends (Underway) follows the run:  *)
(* before the first rebase nothing has moved, one rebase mends one break,  *)
(* and no rebase drops a patch that is not below its branch.               *)
(***************************************************************************)
EXTENDS Commands, Restack, FiniteSetTheorems, SequenceTheorems, WellFoundedInduction, TLAPS

\* The cause that the outcome of a method names is the one Core refused for.
Names(out, a) ==
  /\ out = "held" => a.fact = "leased"
  /\ out \in {"conflict", "busy"} => a.fact = "running"
  /\ out = "handshake" => a.fact = "handshake"
  /\ out = "mismatch" => a.fact = "mismatch"
  /\ out = "notattached" => a.fact = "unattached"
  /\ out = "unclassified" => a.fact \in {"mismatch", "unattached"}
  /\ out = "unknown" => a.fact = "unknown"
  /\ out = "old" => a.fact = "noroute"

\* A call is a record of what the actions read and write of it.
Fields == {"cmd", "face", "by", "left", "at", "built", "ans", "did", "under", "lost",
           "alone", "out", "exit"}

WellFormed == call # <<>> => Fields \subseteq DOMAIN call

ReadingNames ==
  call # <<>> /\ call.at = "told" =>
    Names(Outcome(Head(call.left), call.by, call.ans), call.ans)

ReportNames == call # <<>> /\ call.at = "over" => Names(call.out, call.ans)

CInv == WellFormed /\ ReadingNames /\ ReportNames

-----------------------------------------------------------------------------
(* What Core answers, and what the client reads in it *)

\* What Core answers to any request, by the code and the class of the body.
LEMMA AnswersByCode ==
  ASSUME NEW rq, NEW by, NEW a \in Replies(rq, by)
  PROVE  /\ a.body = "lease" => a.code = 409 /\ a.fact = "leased"
         /\ a.body = "study" => a.code = 409 /\ a.fact = "running"
         /\ a.body = "kind" => \/ a.data = "mismatch" /\ a.fact = "mismatch"
                               \/ a.data = "notattached" /\ a.fact = "unattached"
         /\ a.body = "nokind" => a.fact \in {"mismatch", "unattached"}
         /\ a.body = "id" => a.fact = "unknown"
         /\ a.body = "empty" => a.fact = "noroute"
         /\ a.code = 502 => a.fact = "handshake"
         /\ a.code # 405
  BY DEF Replies, Own, NoRoute, LeaseHeld, Said, Done, Missing, Row, Reply, Mismatch

\* The refusals whose meaning depends on the route.
LEMMA AnswersByRoute ==
  ASSUME NEW rq, NEW by, NEW a \in Replies(rq, by)
  PROVE  /\ rq = "hello" /\ a.code = 409 /\ a.body # "lease" => a.fact = "running"
         /\ rq \in {"study.get", "follow"} /\ a.code = 404 => a.fact = "unknown"
         /\ rq = "host.post" /\ a.code = 404 => a.fact = "noroute"
         /\ rq = "prompt.post" /\ a.code = 404 /\ a.body # "id" => a.fact = "noroute"
  BY DEF Replies, Own, NoRoute, LeaseHeld, Said, Done, Missing, Row, Reply, HasRoute, FeatureOf

\* Every method reads the cause of a refusal off the answer alone.
LEMMA OutcomeNames ==
  ASSUME NEW rq, NEW by, NEW a \in Replies(rq, by)
  PROVE  Names(Outcome(rq, by, a), a)
<1>1. CASE a.code = 200
  BY <1>1 DEF Outcome, Accepted, CheckAnswered, StoredWithBoard, SchemaAgrees, Names
<1>2. CASE a.code # 200 /\ rq \in {"validate", "study.post", "host.post", "hello"}
  BY <1>2, AnswersByCode, AnswersByRoute
     DEF Outcome, Failed, ValidateFailed, StudyFailed, HostStudyFailed, HelloFailed,
         MismatchKind, LeaseRefusal, Names
<1>3. CASE a.code # 200 /\ rq \in {"study.get", "follow", "prompt.post", "stream.get", "load.get"}
  BY <1>3, AnswersByCode, AnswersByRoute
     DEF Outcome, Failed, StatusFailed, PromptFailed, CaptureFailed, Names
<1>4. CASE /\ a.code # 200
           /\ rq \notin {"validate", "study.post", "host.post", "hello", "study.get", "follow",
                         "prompt.post", "stream.get", "load.get"}
  <2>1. Outcome(rq, by, a) = Refused(rq, a)
    BY <1>4 DEF Outcome, Failed
  <2>2. Refused(rq, a) \in {"old", "none", "error"} /\ (Refused(rq, a) = "old" => RouteMissing(a))
    BY DEF Refused, AbsentOrOld, RoutedFailed, DeleteFailed, SendFailed
  <2>3. QED
    BY <2>1, <2>2, AnswersByCode DEF RouteMissing, Names
<1>5. QED
  BY <1>1, <1>2, <1>3, <1>4

-----------------------------------------------------------------------------

LEMMA InitCInv == Init => CInv
  BY DEF Init, CInv, WellFormed, ReadingNames, ReportNames

\* A step of the call on this machine ends it with an outcome that names nothing, or
\* goes on to the next step.
LEMMA LocalCInv ==
  ASSUME CInv, call # <<>>, NEW out \in {"refused", "unreachable", "ok", "none"}, NEW exit,
         Over(out, exit)
  PROVE  CInv'
  BY DEF CInv, WellFormed, ReadingNames, ReportNames, Over, Fields, Names

\* Every step preserves the invariant.
LEMMA NextCInv == CInv /\ [Next]_vars => CInv'
<1> SUFFICES ASSUME CInv, [Next]_vars PROVE CInv'
  OBVIOUS
<1> USE DEF Fields
<1>1. ASSUME Begin PROVE CInv'
  <2>1. PICK face, table, cmd, by, good :
          call' = Issued(cmd, face, by, good, Script(table[cmd], by))
    BY <1>1, Zenon DEF Begin
  <2> DEFINE issued == Issued(cmd, face, by, good, Script(table[cmd], by))
  <2>2. Fields \subseteq DOMAIN issued /\ issued.at = "step"
    BY DEF Issued
  <2>3. Fields \subseteq DOMAIN call' /\ call'.at = "step"
    BY <2>1, <2>2
  <2>4. QED
    BY <2>3 DEF CInv, WellFormed, ReadingNames, ReportNames
<1>2. ASSUME call' = Onward(call), call # <<>> PROVE CInv'
  BY <1>2 DEF Onward, CInv, WellFormed, ReadingNames, ReportNames
<1>3. ASSUME Passes \/ ArgsChecked \/ SkipsResolve \/ UploadUnread PROVE CInv'
  BY <1>2, <1>3, LocalCInv DEF Passes, ArgsChecked, SkipsResolve, UploadUnread, At
<1>4. ASSUME NEW b \in {"fresh", "stale", "failed"}, BuildEnds(b) PROVE CInv'
  <2>1. CASE b = "failed"
    BY <1>4, <2>1, LocalCInv DEF BuildEnds, At
  <2>2. CASE b # "failed"
    BY <1>4, <2>2 DEF BuildEnds, At, Onward, CInv, WellFormed, ReadingNames, ReportNames
  <2>3. QED
    BY <2>1, <2>2
<1>5. ASSUME Gate PROVE CInv'
  BY <1>2, <1>5, LocalCInv DEF Gate, At
<1>6. ASSUME Answers PROVE CInv'
  <2>1. PICK a \in Replies(Head(call.left), call.by) : Handles(a)
    BY <1>6 DEF Answers
  <2>2. Names(Outcome(Head(call.left), call.by, a), a)
    BY <2>1, OutcomeNames
  <2>3. call # <<>>
    BY <1>6 DEF Answers, Requested
  <2>4. /\ Fields \subseteq DOMAIN call'
        /\ call'.at = "told" /\ call'.ans = a /\ call'.left = call.left /\ call'.by = call.by
    <3>1. CASE a.code = 200
      <4> DEFINE did == call.did \cup ({Head(call.left)} \cap Effects)
                 under == IF Head(call.left) \in {"study.post", "host.post"}
                          THEN core.build.schema ELSE call.under
      <4>1. call' = [call EXCEPT !.at = "told", !.ans = a, !.did = did, !.under = under]
        BY <2>1, <3>1, Zenon DEF Handles
      <4> HIDE DEF did, under
      <4>2. QED
        BY <4>1, <2>3 DEF CInv, WellFormed
    <3>2. CASE a.code # 200
      BY <2>1, <2>3, <3>2 DEF Handles, CInv, WellFormed
    <3>3. QED
      BY <3>1, <3>2
  <2>5. QED
    BY <2>2, <2>4 DEF CInv, WellFormed, ReadingNames, ReportNames, Outcome
<1>7. ASSUME Unanswered PROVE CInv'
  BY <1>7, LocalCInv DEF Unanswered, Requested
<1>8. ASSUME AnswerLost PROVE CInv'
  BY <1>8 DEF AnswerLost, CInv, WellFormed, ReadingNames, ReportNames, Names
<1>9. ASSUME Reads PROVE CInv'
  <2> DEFINE o == Outcome(Head(call.left), call.by, call.ans)
  <2>1. call # <<>> /\ call.at = "told" /\ Names(o, call.ans)
    BY <1>9 DEF Reads, CInv, ReadingNames
  <2>2. CASE o = "ok"
    BY <1>2, <1>9, <2>1, <2>2 DEF Reads
  <2>3. CASE o = "none"
    BY <1>9, <2>1, <2>3, LocalCInv DEF Reads
  <2>4. CASE o \notin {"ok", "none"}
    <3>1. Over(o, 1)
      BY <1>9, <2>4 DEF Reads
    <3>2. QED
      BY <2>1, <3>1 DEF Over, CInv, WellFormed, ReadingNames, ReportNames
  <2>5. QED
    BY <2>2, <2>3, <2>4
<1>10. ASSUME Finishes PROVE CInv'
  BY <1>10, LocalCInv DEF Finishes
<1>11. ASSUME Others PROVE CInv'
  <2>1. call' = [call EXCEPT !.alone = FALSE] /\ call # <<>>
    BY <1>11 DEF Others
  <2>2. QED
    BY <2>1 DEF CInv, WellFormed, ReadingNames, ReportNames
<1>12. CASE UNCHANGED vars
  BY <1>12 DEF vars, CInv, WellFormed, ReadingNames, ReportNames
<1>13. QED
  BY <1>1, <1>3, <1>4, <1>5, <1>6, <1>7, <1>8, <1>9, <1>10, <1>11, <1>12 DEF Next, Steps

\* Whoever reads a refusal learns its cause, for any builds of Core, any table of
\* scripts and whatever else happens to Core between the requests.
THEOREM RefusalsNameTheirCause == Spec => []RefusalNamesItsCause
<1>1. CInv => RefusalNamesItsCause
  BY DEF CInv, ReportNames, Names, RefusalNamesItsCause, Ended
<1>2. Spec => []CInv
  BY InitCInv, NextCInv, PTL DEF Spec
<1>3. QED
  BY <1>1, <1>2, PTL

-----------------------------------------------------------------------------
(* The scripts *)

Deletes == {"role.delete", "serial.delete", "signal.delete"}
Posts   == {"study.post", "host.post"}

\* Commands that end with more than one code on success, and that read a board.
Graded  == {"instrument_exchange", "signal_exchange", "study_watch"}
Reading == {"mem_read", "core_state", "validate"}

OtherSteps == {"resolve", "serialports", "hello", "alerts", "validate", "mem", "state", "status",
               "schema", "study.get", "follow", "stream.get", "load.get", "serial", "instr.list",
               "instr.exchange", "signal.list", "signal.check", "signal.exchange"}
AllSteps == Local \cup Effects \cup Tables \cup Deletes \cup OtherSteps

StepsOf(s) == {s[i] : i \in 1..Len(s)}

\* What changes Core comes last, but for what is on the way.
EffectIsLast(cmd, s) ==
  \A i \in 1..Len(s) : s[i] \in Effects \ OnTheWay(cmd) => i = Len(s)

\* The one route an older Core may lack whose method has a word for any 404.
SerialOnly(cmd, by, s) ==
  \A i \in 1..Len(s) : s[i] = "serial.delete" => cmd = "unenroll_probe" /\ by = "probe"

GradedOnly(cmd, s) == cmd \in Graded => \A i \in 1..Len(s) : s[i] \notin Effects

ReadsOnly(cmd, s) ==
  cmd \in Reading =>
    \/ s = <<>>
    \/ \E r \in {"mem", "state", "validate"} : s = <<"args", r>> \/ s = <<r>>

ReadsBack(cmd, by, s) ==
  cmd = "declare_signal" =>
    IF by = "role"
    THEN s = <<"args", "signal.post">> \/ s = <<"signal.post">> \/ s = <<>>
    ELSE \/ s = <<"args", "signal.post", "signal.check">> \/ s = <<"signal.post", "signal.check">>
         \/ s = <<"signal.check">> \/ s = <<>>

\* A study is posted right after the schemas were compared.
SchemaFirst(s) ==
  \A i \in 1..Len(s) : s[i] \in Posts => i = 1 \/ s[i - 1] = "schema"

\* What holds of every script, and of what is left of it.
Rest(cmd, by, s) ==
  /\ s \in Seq(AllSteps)
  /\ EffectIsLast(cmd, s) /\ SerialOnly(cmd, by, s) /\ GradedOnly(cmd, s)
  /\ ReadsOnly(cmd, s) /\ ReadsBack(cmd, by, s) /\ SchemaFirst(s)

\* A whole script leads to what the command is for.
Whole(cmd, by, s) ==
  /\ Rest(cmd, by, s) /\ s # <<>>
  /\ Purpose(cmd, by) \subseteq StepsOf(s)
  /\ s[1] \notin Posts

\* The script a command runs for a board named by its role or its probe.
Leads(cmd, steps, by) == Whole(cmd, by, Script(steps, by))

\* Commands that build, flash and bootload firmware
LEMMA BuildingLeads ==
  ASSUME NEW by \in Whom
  PROVE  /\ Leads("build", <<"project", "target", "resolve", "build">>, by)
         /\ Leads("flash", <<"project", "target", "resolve", "flash">>, by)
         /\ Leads("build_and_flash", <<"project", "target", "resolve", "build", "gate", "flash">>, by)
         /\ Leads("bootload", <<"project", "plan", "file", "bootload">>, by)
         /\ Leads("build_and_bootload", <<"project", "args", "plan", "build", "signed", "bootload">>, by)
         /\ Leads("build_and_bootload", <<"project", "plan", "build", "signed", "bootload">>, by)
<1> USE DEF Leads, Whole, Rest, EffectIsLast, SerialOnly, GradedOnly, ReadsOnly,
             ReadsBack, SchemaFirst, AllSteps, Local, Effects, Purpose, OnTheWay, StepsOf,
             BenchFirst, DutFirst, Tables, Deletes,
             OtherSteps, Graded, Reading, Posts, Whom, Script, Last, Front
<1>1. Leads("build", <<"project", "target", "resolve", "build">>, by)
  BY SMTT(30)
<1>2. Leads("flash", <<"project", "target", "resolve", "flash">>, by)
  BY SMTT(30)
<1>3. Leads("build_and_flash", <<"project", "target", "resolve", "build", "gate", "flash">>, by)
  BY SMTT(30)
<1>4. Leads("bootload", <<"project", "plan", "file", "bootload">>, by)
  BY SMTT(30)
<1>5. Leads("build_and_bootload", <<"project", "args", "plan", "build", "signed", "bootload">>, by)
  BY SMTT(30)
<1>6. Leads("build_and_bootload", <<"project", "plan", "build", "signed", "bootload">>, by)
  BY SMTT(30)
<1>7. QED
  BY ONLY <1>1, <1>2, <1>3, <1>4, <1>5, <1>6

\* Commands of the dev bench, and resets
LEMMA BenchingLeads ==
  ASSUME NEW by \in Whom
  PROVE  /\ Leads("build_dev_bench", <<"bench", "build">>, by)
         /\ Leads("flash_dev_bench", <<"bench", "bench.flash">>, by)
         /\ Leads("build_and_flash_dev_bench", <<"bench", "build", "gate", "bench.flash">>, by)
         /\ Leads("reset_dev_bench", <<"bench", "bench.reset">>, by)
         /\ Leads("reset", <<"project", "target", "resolve", "reset">>, by)
         /\ Leads("dev_bench_hello", <<"hello">>, by)
         /\ Leads("dev_bench_link", <<"args", "link">>, by)
<1> USE DEF Leads, Whole, Rest, EffectIsLast, SerialOnly, GradedOnly, ReadsOnly,
             ReadsBack, SchemaFirst, AllSteps, Local, Effects, Purpose, OnTheWay, StepsOf,
             BenchFirst, DutFirst, Tables, Deletes,
             OtherSteps, Graded, Reading, Posts, Whom, Script, Last, Front
<1>1. Leads("build_dev_bench", <<"bench", "build">>, by)
  BY SMTT(30)
<1>2. Leads("flash_dev_bench", <<"bench", "bench.flash">>, by)
  BY SMTT(30)
<1>3. Leads("build_and_flash_dev_bench", <<"bench", "build", "gate", "bench.flash">>, by)
  BY SMTT(30)
<1>4. Leads("reset_dev_bench", <<"bench", "bench.reset">>, by)
  BY SMTT(30)
<1>5. Leads("reset", <<"project", "target", "resolve", "reset">>, by)
  BY SMTT(30)
<1>6. Leads("dev_bench_hello", <<"hello">>, by)
  BY SMTT(30)
<1>7. Leads("dev_bench_link", <<"args", "link">>, by)
  BY SMTT(30)
<1>8. QED
  BY ONLY <1>1, <1>2, <1>3, <1>4, <1>5, <1>6, <1>7

\* Commands that declare ports and instruments
LEMMA DeclaringLeads ==
  ASSUME NEW by \in Whom
  PROVE  /\ Leads("declare_bootload_ports", <<"args", "ports.put">>, by)
         /\ Leads("show_bootload_ports", <<"ports.get">>, by)
         /\ Leads("clear_bootload_ports", <<"ports.delete">>, by)
         /\ Leads("declare_instrument", <<"args", "instr.put">>, by)
         /\ Leads("list_instruments", <<"instr.list">>, by)
         /\ Leads("remove_instrument", <<"instr.delete">>, by)
         /\ Leads("instrument_exchange", <<"instr.exchange">>, by)
<1> USE DEF Leads, Whole, Rest, EffectIsLast, SerialOnly, GradedOnly, ReadsOnly,
             ReadsBack, SchemaFirst, AllSteps, Local, Effects, Purpose, OnTheWay, StepsOf,
             BenchFirst, DutFirst, Tables, Deletes,
             OtherSteps, Graded, Reading, Posts, Whom, Script, Last, Front
<1>1. Leads("declare_bootload_ports", <<"args", "ports.put">>, by)
  BY SMTT(30)
<1>2. Leads("show_bootload_ports", <<"ports.get">>, by)
  BY SMTT(30)
<1>3. Leads("clear_bootload_ports", <<"ports.delete">>, by)
  BY SMTT(30)
<1>4. Leads("declare_instrument", <<"args", "instr.put">>, by)
  BY SMTT(30)
<1>5. Leads("list_instruments", <<"instr.list">>, by)
  BY SMTT(30)
<1>6. Leads("remove_instrument", <<"instr.delete">>, by)
  BY SMTT(30)
<1>7. Leads("instrument_exchange", <<"instr.exchange">>, by)
  BY SMTT(30)
<1>8. QED
  BY ONLY <1>1, <1>2, <1>3, <1>4, <1>5, <1>6, <1>7

\* Commands that name a board
LEMMA BoardsLeads ==
  ASSUME NEW by \in Whom
  PROVE  /\ Leads("enroll_probe", <<"enroll">>, by)
         /\ Leads("set_role_board", <<"role.put">>, by)
         /\ Leads("unenroll_probe", <<"args", "delete">>, by)
         /\ Leads("validate", <<"args", "validate">>, by)
         /\ Leads("mem_read", <<"args", "mem">>, by)
         /\ Leads("core_state", <<"args", "state">>, by)
         /\ Leads("serial_log", <<"project", "args", "serial">>, by)
         /\ Leads("serial_log_signal", <<"serial">>, by)
<1> USE DEF Leads, Whole, Rest, EffectIsLast, SerialOnly, GradedOnly, ReadsOnly,
             ReadsBack, SchemaFirst, AllSteps, Local, Effects, Purpose, OnTheWay, StepsOf,
             BenchFirst, DutFirst, Tables, Deletes,
             OtherSteps, Graded, Reading, Posts, Whom, Script, Last, Front
<1>1. Leads("enroll_probe", <<"enroll">>, by)
  BY SMTT(30)
<1>2. Leads("set_role_board", <<"role.put">>, by)
  BY SMTT(30)
<1>3. Leads("unenroll_probe", <<"args", "delete">>, by)
  BY SMTT(30)
<1>4. Leads("validate", <<"args", "validate">>, by)
  BY SMTT(30)
<1>5. Leads("mem_read", <<"args", "mem">>, by)
  BY SMTT(30)
<1>6. Leads("core_state", <<"args", "state">>, by)
  BY SMTT(30)
<1>7. Leads("serial_log", <<"project", "args", "serial">>, by)
  BY SMTT(30)
<1>8. Leads("serial_log_signal", <<"serial">>, by)
  BY SMTT(30)
<1>9. QED
  BY ONLY <1>1, <1>2, <1>3, <1>4, <1>5, <1>6, <1>7, <1>8

\* Commands of signals, and what is on the bench
LEMMA SignalsLeads ==
  ASSUME NEW by \in Whom
  PROVE  /\ Leads("declare_signal", <<"args", "signal.post", "signal.check">>, by)
         /\ Leads("list_signals", <<"signal.list">>, by)
         /\ Leads("remove_signal", <<"signal.delete">>, by)
         /\ Leads("signal_exchange", <<"signal.exchange">>, by)
         /\ Leads("alerts", <<"alerts">>, by)
         /\ Leads("list_serial_ports", <<"serialports">>, by)
         /\ Leads("status", <<"status">>, by)
<1> USE DEF Leads, Whole, Rest, EffectIsLast, SerialOnly, GradedOnly, ReadsOnly,
             ReadsBack, SchemaFirst, AllSteps, Local, Effects, Purpose, OnTheWay, StepsOf,
             BenchFirst, DutFirst, Tables, Deletes,
             OtherSteps, Graded, Reading, Posts, Whom, Script, Last, Front
<1>1. Leads("declare_signal", <<"args", "signal.post", "signal.check">>, by)
  <2>1. CASE by = "role"
    BY <2>1
  <2>2. CASE by = "probe"
    BY <2>2
  <2>3. QED
    BY <2>1, <2>2
<1>2. Leads("list_signals", <<"signal.list">>, by)
  BY SMTT(30)
<1>3. Leads("remove_signal", <<"signal.delete">>, by)
  BY SMTT(30)
<1>4. Leads("signal_exchange", <<"signal.exchange">>, by)
  BY SMTT(30)
<1>5. Leads("alerts", <<"alerts">>, by)
  BY SMTT(30)
<1>6. Leads("list_serial_ports", <<"serialports">>, by)
  BY SMTT(30)
<1>7. Leads("status", <<"status">>, by)
  BY SMTT(30)
<1>8. QED
  BY ONLY <1>1, <1>2, <1>3, <1>4, <1>5, <1>6, <1>7

\* Commands of studies
LEMMA StudyingLeads ==
  ASSUME NEW by \in Whom
  PROVE  /\ Leads("run_host_study", <<"args", "schema", "host.post">>, by)
         /\ Leads("answer_prompt", <<"args", "prompt.post">>, by)
         /\ Leads("study_status", <<"study.get">>, by)
         /\ Leads("list_study_streams", <<"study.get">>, by)
         /\ Leads("study_watch", <<"follow">>, by)
         /\ Leads("study_stream_data", <<"stream.get">>, by)
         /\ Leads("study_stream_load", <<"load.get">>, by)
<1> USE DEF Leads, Whole, Rest, EffectIsLast, SerialOnly, GradedOnly, ReadsOnly,
             ReadsBack, SchemaFirst, AllSteps, Local, Effects, Purpose, OnTheWay, StepsOf,
             BenchFirst, DutFirst, Tables, Deletes,
             OtherSteps, Graded, Reading, Posts, Whom, Script, Last, Front
<1>2. Leads("run_host_study", <<"args", "schema", "host.post">>, by)
  BY SMTT(30)
<1>3. Leads("answer_prompt", <<"args", "prompt.post">>, by)
  BY SMTT(30)
<1>4. Leads("study_status", <<"study.get">>, by)
  BY SMTT(30)
<1>5. Leads("list_study_streams", <<"study.get">>, by)
  BY SMTT(30)
<1>6. Leads("study_watch", <<"follow">>, by)
  BY SMTT(30)
<1>7. Leads("study_stream_data", <<"stream.get">>, by)
  BY SMTT(30)
<1>8. Leads("study_stream_load", <<"load.get">>, by)
  BY SMTT(30)
<1>9. QED
  BY ONLY <1>2, <1>3, <1>4, <1>5, <1>6, <1>7, <1>8

\* What run_study may do before it submits.
Before(cmd) == Local \cup {"resolve", "hello"} \cup OnTheWay(cmd)

Prelude(cmd, s) == s \in Seq(AllSteps) /\ StepsOf(s) \subseteq Before(cmd)

\* One script after another
LEMMA StepsOfBoth ==
  ASSUME NEW s \in Seq(AllSteps), NEW t \in Seq(AllSteps)
  PROVE  /\ s \o t \in Seq(AllSteps) /\ Len(s \o t) = Len(s) + Len(t)
         /\ Len(s) \in Nat /\ Len(t) \in Nat
         /\ \A i \in 1..Len(s) : (s \o t)[i] = s[i]
         /\ \A i \in 1..Len(t) : (s \o t)[Len(s) + i] = t[i]
         /\ StepsOf(s \o t) = StepsOf(s) \cup StepsOf(t)
<1>1. /\ s \o t \in Seq(AllSteps) /\ Len(s \o t) = Len(s) + Len(t)
      /\ Len(s) \in Nat /\ Len(t) \in Nat
      /\ \A i \in 1..Len(s) + Len(t) :
           (s \o t)[i] = IF i <= Len(s) THEN s[i] ELSE t[i - Len(s)]
  OBVIOUS
<1> DEFINE st == s \o t
<1> HIDE DEF st
<1>2. /\ \A i \in 1..Len(s) : st[i] = s[i] /\ i \in 1..Len(s) + Len(t)
      /\ \A i \in 1..Len(t) : st[Len(s) + i] = t[i] /\ Len(s) + i \in 1..Len(s) + Len(t)
  BY <1>1 DEF st
<1>3. ASSUME NEW i \in 1..Len(s) + Len(t) PROVE st[i] \in StepsOf(s) \cup StepsOf(t)
  <2>1. CASE i <= Len(s)
    <3>1. i \in 1..Len(s)
      BY <1>1, <2>1
    <3>2. QED
      BY <1>2, <3>1 DEF StepsOf
  <2>2. CASE ~ i <= Len(s)
    <3>1. i - Len(s) \in 1..Len(t) /\ st[i] = t[i - Len(s)]
      BY <1>1, <2>2 DEF st
    <3>2. QED
      BY <3>1 DEF StepsOf
  <2>3. QED
    BY <2>1, <2>2
<1>4. StepsOf(st) = StepsOf(s) \cup StepsOf(t)
  <2>1. Len(st) = Len(s) + Len(t)
    BY <1>1 DEF st
  <2>2. StepsOf(s) \subseteq StepsOf(st) /\ StepsOf(t) \subseteq StepsOf(st)
    BY <1>2, <2>1 DEF StepsOf
  <2>3. StepsOf(st) \subseteq StepsOf(s) \cup StepsOf(t)
    BY <1>3, <2>1 DEF StepsOf
  <2>4. QED
    BY <2>2, <2>3
<1>5. QED
  BY <1>1, <1>2, <1>4 DEF st

\* The parts of run_study before the submit
LEMMA PreludeParts ==
  ASSUME NEW cmd
  PROVE  /\ Prelude(cmd, <<"args">>) /\ Prelude(cmd, <<>>) /\ Prelude(cmd, AskBench)
         /\ cmd \in BenchFirst =>
              /\ Prelude(cmd, FlashBench)
              /\ {"bench.flash", "bench.reset"} \subseteq StepsOf(FlashBench)
         /\ cmd \in DutFirst =>
              /\ Prelude(cmd, FlashDut)
              /\ {"flash", "reset"} \subseteq StepsOf(FlashDut)
<1> USE DEF Prelude, StepsOf, Before, Local, OnTheWay, Effects, AllSteps, OtherSteps
<1>1. Prelude(cmd, <<"args">>) /\ Prelude(cmd, AskBench)
  BY DEF AskBench
<1>2. Prelude(cmd, <<>>)
  OBVIOUS
<1>3. ASSUME cmd \in BenchFirst
      PROVE  /\ Prelude(cmd, FlashBench)
             /\ {"bench.flash", "bench.reset"} \subseteq StepsOf(FlashBench)
  <2>1. FlashBench \in Seq(AllSteps) /\ Len(FlashBench) = 5
    BY DEF FlashBench
  <2>2. StepsOf(FlashBench) = {"bench", "build", "gate", "bench.flash", "bench.reset"}
    BY <2>1 DEF FlashBench
  <2>3. QED
    BY <1>3, <2>1, <2>2
<1>4. ASSUME cmd \in DutFirst
      PROVE  /\ Prelude(cmd, FlashDut)
             /\ {"flash", "reset"} \subseteq StepsOf(FlashDut)
  <2>1. FlashDut \in Seq(AllSteps) /\ Len(FlashDut) = 8
    BY DEF FlashDut
  <2>2. /\ StepsOf(FlashDut) \subseteq
             {"project", "version", "target", "resolve", "build", "gate", "flash", "reset"}
        /\ {"flash", "reset"} \subseteq StepsOf(FlashDut)
    BY <2>1 DEF FlashDut
  <2>3. QED
    BY <1>4, <2>1, <2>2
<1>5. QED
  BY ONLY <1>1, <1>2, <1>3, <1>4

LEMMA PreludeOfBoth ==
  ASSUME NEW cmd, NEW s, NEW t, Prelude(cmd, s), Prelude(cmd, t)
  PROVE  Prelude(cmd, s \o t) /\ StepsOf(s \o t) = StepsOf(s) \cup StepsOf(t)
<1>1. /\ s \o t \in Seq(AllSteps) /\ StepsOf(s \o t) = StepsOf(s) \cup StepsOf(t)
      /\ StepsOf(s) \subseteq Before(cmd) /\ StepsOf(t) \subseteq Before(cmd)
  BY StepsOfBoth DEF Prelude
<1>2. QED
  BY <1>1 DEF Prelude

\* The commands that submit a study
Submits == {"run_study"} \cup BenchFirst \cup DutFirst

\* Whatever run_study reflashes and asks before, its script is whole.
LEMMA SubmittingLeads ==
  ASSUME NEW by \in Whom, NEW cmd \in Submits, NEW p, Prelude(cmd, p), p # <<>>,
         OnTheWay(cmd) \subseteq StepsOf(p)
  PROVE  Leads(cmd, p \o PostStudy, by)
<1> DEFINE s == p \o PostStudy
           n == Len(p)
<1>1. /\ PostStudy \in Seq(AllSteps) /\ Len(PostStudy) = 2
      /\ PostStudy[1] = "schema" /\ PostStudy[2] = "study.post"
  BY DEF PostStudy, AllSteps, OtherSteps, Effects
<1>2. /\ s \in Seq(AllSteps) /\ Len(s) = n + 2 /\ n \in Nat
      /\ \A i \in 1..n : s[i] = p[i]
      /\ s[n + 1] = "schema" /\ s[n + 2] = "study.post"
      /\ StepsOf(s) = StepsOf(p) \cup StepsOf(PostStudy)
  <2>1. p \in Seq(AllSteps)
    BY DEF Prelude
  <2>2. /\ s \in Seq(AllSteps) /\ Len(s) = n + Len(PostStudy) /\ n \in Nat
        /\ \A i \in 1..n : s[i] = p[i]
        /\ \A i \in 1..Len(PostStudy) : s[n + i] = PostStudy[i]
        /\ StepsOf(s) = StepsOf(p) \cup StepsOf(PostStudy)
    BY <1>1, <2>1, StepsOfBoth
  <2>3. 1 \in 1..Len(PostStudy) /\ 2 \in 1..Len(PostStudy)
    BY <1>1
  <2> HIDE DEF s, n
  <2>4. QED
    BY <1>1, <2>2, <2>3
<1>3. n # 0
  BY <1>2, EmptySeq DEF Prelude
<1>4. \A i \in 1..n : s[i] \in Before(cmd)
  BY <1>2 DEF Prelude, StepsOf
<1> HIDE DEF s, n
<1>5. \A i \in 1..Len(s) : i \in 1..n \/ i = n + 1 \/ i = n + 2
  BY <1>2
<1>6. cmd \notin Graded \cup Reading \cup {"declare_signal", "unenroll_probe"}
  BY DEF Submits, BenchFirst, DutFirst, Graded, Reading
<1>7. /\ Before(cmd) \cap Effects \subseteq OnTheWay(cmd) /\ Before(cmd) \cap Posts = {}
      /\ "serial.delete" \notin Before(cmd) /\ "delete" \notin Before(cmd)
  BY <1>6 DEF Before, OnTheWay, Local, Effects, Posts
<1>8. Script(s, by) = s
  <2>1. Last(s) # "signal.check"
    BY <1>2 DEF Last
  <2>2. \A i \in 1..Len(s) : s[i] # "delete"
    BY <1>2, <1>4, <1>5, <1>7
  <2>3. DOMAIN s = 1..Len(s) /\ s = [i \in 1..Len(s) |-> s[i]]
    BY <1>2
  <2>4. Script(s, by) = [i \in DOMAIN s |-> IF s[i] = "delete"
                           THEN (IF by = "role" THEN "role.delete" ELSE "serial.delete")
                           ELSE s[i]]
    BY <2>1 DEF Script
  <2>5. QED
    BY <2>2, <2>3, <2>4
<1>9. EffectIsLast(cmd, s)
  BY <1>2, <1>4, <1>5, <1>7 DEF EffectIsLast, Effects
<1>10. SerialOnly(cmd, by, s)
  BY <1>2, <1>4, <1>5, <1>7 DEF SerialOnly
<1>11. SchemaFirst(s)
  <2>1. SUFFICES ASSUME NEW i \in 1..Len(s), s[i] \in Posts PROVE s[i - 1] = "schema"
    BY DEF SchemaFirst
  <2>2. i = n + 2
    BY <1>2, <1>4, <1>5, <1>7, <2>1 DEF Posts
  <2>3. i - 1 = n + 1
    BY <1>2, <2>2
  <2>4. QED
    BY <1>2, <2>3
<1>12. Rest(cmd, by, s)
  BY <1>2, <1>6, <1>9, <1>10, <1>11 DEF Rest, GradedOnly, ReadsOnly, ReadsBack
<1>13. s # <<>> /\ s[1] \notin Posts
  <2>1. 1 \in 1..n
    BY <1>2, <1>3
  <2>2. Len(s) # 0
    BY <1>2
  <2>3. QED
    BY <1>4, <1>7, <2>1, <2>2, EmptySeq
<1>14. Purpose(cmd, by) \subseteq StepsOf(s)
  <2>1. Purpose(cmd, by) \subseteq OnTheWay(cmd) \cup {"study.post"}
    BY DEF Purpose, Submits, BenchFirst, DutFirst
  <2>2. n + 2 \in 1..Len(s)
    BY <1>2
  <2>3. "study.post" \in StepsOf(s)
    BY <1>2, <2>2 DEF StepsOf
  <2>4. QED
    BY <1>2, <2>1, <2>3
<1>15. QED
  BY <1>8, <1>12, <1>13, <1>14 DEF Leads, Whole, s

\* Whichever boards it reflashes, and whether or not it asks the bench for its version
LEMMA RunStudyLeads ==
  ASSUME NEW by \in Whom, NEW cmd \in Submits, NEW asks \in BOOLEAN
  PROVE  Leads(cmd, RunStudy(cmd, asks), by)
<1> DEFINE args == <<"args">>
           bench == IF cmd \in BenchFirst THEN FlashBench ELSE <<>>
           ask == IF asks THEN AskBench ELSE <<>>
           dut == IF cmd \in DutFirst THEN FlashDut ELSE <<>>
           p == args \o bench \o ask \o dut
<1>1. Prelude(cmd, bench) /\ Prelude(cmd, ask) /\ Prelude(cmd, dut) /\ Prelude(cmd, args)
  BY PreludeParts
<1>2. /\ cmd \in BenchFirst => {"bench.flash", "bench.reset"} \subseteq StepsOf(bench)
      /\ cmd \in DutFirst => {"flash", "reset"} \subseteq StepsOf(dut)
  BY PreludeParts
<1>3. RunStudy(cmd, asks) = p \o PostStudy
  BY DEF RunStudy
<1> HIDE DEF args, bench, ask, dut
<1>4. /\ Prelude(cmd, args \o bench)
      /\ StepsOf(args \o bench) = StepsOf(args) \cup StepsOf(bench)
  BY <1>1, PreludeOfBoth
<1>5. /\ Prelude(cmd, args \o bench \o ask)
      /\ StepsOf(args \o bench \o ask) = StepsOf(args \o bench) \cup StepsOf(ask)
  BY <1>1, <1>4, PreludeOfBoth
<1>6. /\ Prelude(cmd, p) /\ StepsOf(p) = StepsOf(args \o bench \o ask) \cup StepsOf(dut)
  <2> DEFINE front == args \o bench \o ask
  <2>1. Prelude(cmd, front) /\ Prelude(cmd, dut)
    BY <1>1, <1>5
  <2> HIDE DEF front
  <2>2. Prelude(cmd, front \o dut) /\ StepsOf(front \o dut) = StepsOf(front) \cup StepsOf(dut)
    <3>1. /\ front \in Seq(AllSteps) /\ dut \in Seq(AllSteps)
          /\ StepsOf(front) \subseteq Before(cmd) /\ StepsOf(dut) \subseteq Before(cmd)
      BY <2>1 DEF Prelude
    <3>2. front \o dut \in Seq(AllSteps) /\ StepsOf(front \o dut) = StepsOf(front) \cup StepsOf(dut)
      BY <3>1, StepsOfBoth
    <3>3. QED
      BY <3>1, <3>2 DEF Prelude
  <2>3. QED
    BY <2>2 DEF front
<1>7. "args" \in StepsOf(p)
  BY <1>4, <1>5, <1>6 DEF StepsOf, args
<1>8. p # <<>>
  <2>1. StepsOf(<<>>) = {}
    BY DEF StepsOf
  <2>2. QED
    BY <1>7, <2>1
<1>9. OnTheWay(cmd) \subseteq StepsOf(p)
  <2>1. /\ OnTheWay(cmd) \subseteq {"bench.flash", "bench.reset", "flash", "reset"}
        /\ {"bench.flash", "bench.reset"} \cap OnTheWay(cmd) # {} => cmd \in BenchFirst
        /\ {"flash", "reset"} \cap OnTheWay(cmd) # {} => cmd \in DutFirst
    BY DEF OnTheWay, Submits, BenchFirst, DutFirst
  <2>2. StepsOf(bench) \subseteq StepsOf(p) /\ StepsOf(dut) \subseteq StepsOf(p)
    BY <1>4, <1>5, <1>6
  <2> HIDE DEF p
  <2>3. QED
    BY <1>2, <2>1, <2>2
<1> HIDE DEF p
<1>10. QED
  BY <1>3, <1>6, <1>8, <1>9, SubmittingLeads

\* Every script of either face is whole.
LEMMA ScriptsLead ==
  ASSUME NEW by \in Whom, NEW face, NEW table \in Scripts(face), NEW cmd \in DOMAIN table
  PROVE  Leads(cmd, table[cmd], by)
<1>1. CASE table = McpBuild
  BY <1>1, BuildingLeads DEF McpBuild
<1>2. CASE table = McpFirmware
  BY <1>2, BuildingLeads DEF McpFirmware
<1>3. CASE table = McpBootload
  BY <1>3, BuildingLeads, DeclaringLeads DEF McpBootload, Bootload
<1>4. CASE table = McpInstruments
  BY <1>4, DeclaringLeads, StudyingLeads DEF McpInstruments, DeclareInstrument, RunHostStudy
<1>5. CASE table = McpDevBench
  BY <1>5, BenchingLeads DEF McpDevBench
<1>6. CASE table = McpBoards
  BY <1>6, BenchingLeads, BoardsLeads DEF McpBoards
<1>7. CASE table = McpSignals
  BY <1>7, SignalsLeads DEF McpSignals
<1>8. CASE table = McpReads
  BY SMTT(90), <1>8, BenchingLeads, BoardsLeads, SignalsLeads DEF McpReads
<1>9. CASE table = McpWatch
  BY <1>9, StudyingLeads DEF McpWatch
<1>10. CASE table = McpStreams
  BY <1>10, StudyingLeads DEF McpStreams
<1>11. CASE table = CliBuild
  BY <1>11, BuildingLeads DEF CliBuild
<1>12. CASE table = CliFirmware
  BY <1>12, BenchingLeads, BuildingLeads DEF CliFirmware
<1>13. CASE table = CliBootload
  BY <1>13, BuildingLeads, DeclaringLeads DEF CliBootload, Bootload, BuildAndBootload
<1>14. CASE table = CliInstruments
  BY <1>14, DeclaringLeads, StudyingLeads DEF CliInstruments, DeclareInstrument, RunHostStudy
<1>15. CASE table = CliDevBench
  BY <1>15, BenchingLeads DEF CliDevBench
<1>16. CASE table = CliBoards
  BY <1>16, BenchingLeads, BoardsLeads DEF CliBoards
<1>17. CASE table = CliBench
  BY <1>17, BoardsLeads, SignalsLeads DEF CliBench
<1>18. CASE table = CliSignals
  BY <1>18, SignalsLeads DEF CliSignals
<1>19. CASE table = CliReads
  BY SMTT(90), <1>19, BenchingLeads, BoardsLeads, SignalsLeads DEF CliReads
<1>20. CASE table = CliWatch
  BY <1>20, StudyingLeads DEF CliWatch
<1>21. CASE table = CliStreams
  BY <1>21, StudyingLeads DEF CliStreams
<1>22. CASE table = Direct
  BY <1>22, BoardsLeads, SignalsLeads DEF Direct
<1>23. ASSUME NEW asks \in BOOLEAN, table = Studies(asks) PROVE Leads(cmd, table[cmd], by)
  BY <1>23, RunStudyLeads DEF Studies, Submits
<1>24. QED
  BY <1>1, <1>2, <1>3, <1>4, <1>5, <1>6, <1>7, <1>8, <1>9, <1>10, <1>11,
     <1>12, <1>13, <1>14, <1>15, <1>16, <1>17, <1>18, <1>19, <1>20, <1>21, <1>22, <1>23 DEF Scripts

-----------------------------------------------------------------------------
(* The invariant *)

\* A call with s left to do, on course: what it is for is done or still ahead, and as
\* long as something is ahead Core changed nothing that is not on the way.
OnCourse(s) ==
  /\ Rest(call.cmd, call.by, s)
  /\ Purpose(call.cmd, call.by) \subseteq call.did \cup StepsOf(s)
  /\ s # <<>> => call.did \subseteq OnTheWay(call.cmd)
  /\ call.cmd \in Graded => call.did = {}
  /\ s = <<>> /\ call.cmd \in Reading => call.ans.data = call.by
  /\ s # <<>> /\ call.alone => (s[1] \in Posts => core.build.schema = Ours)
  /\ call.cmd = "declare_signal" /\ s = <<>> /\ call.alone => core.signal = call.by

\* What reading the answer will make of the call.
Read == Outcome(Head(call.left), call.by, call.ans)

\* Core said that there was no such row, or the method could not tell.
Absent == call.ans.fact = "absent" \/ OldUnenroll

Stepping == call.at = "step" => OnCourse(call.left)

Told ==
  call.at = "told" =>
    /\ call.left # <<>>
    /\ Read = "ok" => OnCourse(Tail(call.left))
    /\ Read = "none" => Absent /\ call.cmd # "declare_signal"
    /\ Read \notin {"ok", "none"} => call.did \subseteq OnTheWay(call.cmd)
    /\ call.did \subseteq OnTheWay(call.cmd) \cup {Head(call.left)}

Agreed == call.did \cap Posts # {} /\ call.alone => call.under = Ours

IsOver ==
  call.at = "over" =>
    /\ call.out = "none" => Absent
    /\ call.out = "ok" /\ call.cmd \in Reading => call.ans.data = call.by
    /\ call.exit = 0 => Purpose(call.cmd, call.by) \subseteq call.did \/ call.out = "none"
    /\ call.exit # 0 =>
         call.did \subseteq OnTheWay(call.cmd) \cup (IF call.lost THEN {Head(call.left)} ELSE {})
    /\ call.cmd = "declare_signal" /\ call.exit = 0 /\ call.alone => core.signal = call.by

RInv ==
  /\ core \in CoreStates
  /\ WellFormed
  /\ call # <<>> =>
       /\ call.at \in {"step", "told", "over"} /\ call.by \in Whom
       /\ Stepping /\ Told /\ Agreed /\ IsOver

\* What is left after a step of a script.
LEMMA TailOf ==
  ASSUME NEW S, NEW s \in Seq(S), s # <<>>
  PROVE  /\ Tail(s) \in Seq(S) /\ Len(Tail(s)) = Len(s) - 1 /\ Head(s) = s[1]
         /\ \A i \in 1..Len(Tail(s)) : Tail(s)[i] = s[i + 1] /\ i + 1 \in 1..Len(s)
         /\ Tail(s) = <<>> <=> Len(s) = 1
         /\ Len(s) \in Nat /\ 1 \in 1..Len(s)
<1>1. Len(s) \in Nat \ {0} /\ Tail(s) \in Seq(S) /\ Len(Tail(s)) = Len(s) - 1
  BY EmptySeq
<1>2. Tail(s) = <<>> <=> Len(Tail(s)) = 0
  BY <1>1, EmptySeq
<1>3. QED
  BY <1>1, <1>2

\* What is left of a script keeps its shape.
LEMMA RestTail ==
  ASSUME NEW cmd, NEW by \in Whom, NEW s, Rest(cmd, by, s), s # <<>>
  PROVE  Rest(cmd, by, Tail(s))
<1> DEFINE t == Tail(s)
<1>1. /\ t \in Seq(AllSteps) /\ Len(t) = Len(s) - 1 /\ Len(s) \in Nat
      /\ \A i \in 1..Len(t) : t[i] = s[i + 1] /\ i + 1 \in 1..Len(s)
  BY TailOf DEF Rest
<1>2. EffectIsLast(cmd, t)
  <2>1. SUFFICES ASSUME NEW i \in 1..Len(t), t[i] \in Effects \ OnTheWay(cmd)
                 PROVE  i = Len(t)
    BY DEF EffectIsLast
  <2>2. s[i + 1] \in Effects \ OnTheWay(cmd) /\ i + 1 \in 1..Len(s)
    BY <1>1, <2>1
  <2>3. i + 1 = Len(s)
    BY <2>1, <2>2 DEF Rest, EffectIsLast
  <2>4. i \in Nat /\ Len(t) = Len(s) - 1 /\ Len(s) \in Nat
    BY <1>1, <2>1
  <2>5. QED
    BY <2>3, <2>4
<1>3. SerialOnly(cmd, by, t) /\ GradedOnly(cmd, t)
  BY <1>1 DEF Rest, SerialOnly, GradedOnly
<1>4. ReadsOnly(cmd, t)
  <2>1. SUFFICES ASSUME cmd \in Reading PROVE ReadsOnly(cmd, t)
    BY DEF ReadsOnly
  <2>2. PICK r \in {"mem", "state", "validate"} : s = <<"args", r>> \/ s = <<r>>
    BY <2>1 DEF Rest, ReadsOnly
  <2>3. Tail(<<"args", r>>) = <<r>> /\ Tail(<<r>>) = <<>>
    OBVIOUS
  <2>4. QED
    BY <2>2, <2>3 DEF ReadsOnly
<1>5. ReadsBack(cmd, by, t)
  <2>1. ReadsBack(cmd, by, s)
    BY DEF Rest
  <2>2. /\ Tail(<<"args", "signal.post", "signal.check">>) = <<"signal.post", "signal.check">>
        /\ Tail(<<"signal.post", "signal.check">>) = <<"signal.check">>
        /\ Tail(<<"args", "signal.post">>) = <<"signal.post">>
        /\ Tail(<<"signal.check">>) = <<>> /\ Tail(<<"signal.post">>) = <<>>
    OBVIOUS
  <2>3. QED
    BY <2>1, <2>2 DEF ReadsBack
<1>6. ASSUME NEW i \in 1..Len(t), t[i] \in Posts
      PROVE  i = 1 \/ t[i - 1] = "schema"
  <2>1. s[i + 1] \in Posts /\ i + 1 \in 1..Len(s) /\ i + 1 # 1 /\ (i + 1) - 1 = i
    BY <1>1, <1>6
  <2>2. s[i] = "schema"
    BY <2>1 DEF Rest, SchemaFirst
  <2>3. i # 1 => i - 1 \in 1..Len(t) /\ (i - 1) + 1 = i
    BY <1>1
  <2>4. QED
    BY <1>1, <2>2, <2>3
<1>7. QED
  BY <1>1, <1>2, <1>3, <1>4, <1>5, <1>6 DEF Rest, SchemaFirst

\* What is left to do when a study is posted next.
LEMMA PostAhead ==
  ASSUME NEW cmd, NEW by \in Whom, NEW s, Rest(cmd, by, s), s # <<>>,
         Tail(s) # <<>>, Tail(s)[1] \in Posts
  PROVE  Head(s) = "schema"
<1>1. s[2] \in Posts /\ 2 \in 1..Len(s) /\ Head(s) = s[1]
  <2>1. /\ s \in Seq(AllSteps) /\ Len(Tail(s)) = Len(s) - 1 /\ Len(Tail(s)) # 0 /\ Head(s) = s[1]
        /\ Len(s) \in Nat
    BY TailOf DEF Rest
  <2>2. QED
    BY <2>1, TailOf DEF Rest
<1>2. s[2 - 1] = "schema"
  BY <1>1 DEF Rest, SchemaFirst
<1>3. QED
  BY <1>1, <1>2

\* What a step leaves ahead, of what was.
LEMMA StepsAhead ==
  ASSUME NEW s \in Seq(AllSteps), s # <<>>
  PROVE  StepsOf(s) = {Head(s)} \cup StepsOf(Tail(s)) /\ Head(s) \in AllSteps
<1> DEFINE t == Tail(s)
<1>1. /\ t \in Seq(AllSteps) /\ Len(t) = Len(s) - 1 /\ Head(s) = s[1] /\ 1 \in 1..Len(s)
      /\ \A i \in 1..Len(t) : t[i] = s[i + 1] /\ i + 1 \in 1..Len(s)
      /\ Len(s) \in Nat
  BY TailOf
<1> HIDE DEF t
<1>2. ASSUME NEW i \in 1..Len(s) PROVE s[i] \in {Head(s)} \cup StepsOf(t)
  <2>1. CASE i = 1
    BY <1>1, <2>1
  <2>2. CASE i # 1
    <3>1. i - 1 \in 1..Len(t) /\ (i - 1) + 1 = i
      BY <1>1, <2>2
    <3>2. t[i - 1] = s[i]
      BY <1>1, <3>1
    <3>3. QED
      BY <3>1, <3>2 DEF StepsOf
  <2>3. QED
    BY <2>1, <2>2
<1>3. StepsOf(t) \subseteq StepsOf(s) /\ Head(s) \in StepsOf(s)
  BY <1>1 DEF StepsOf
<1>4. StepsOf(s) \subseteq {Head(s)} \cup StepsOf(t)
  BY <1>2 DEF StepsOf
<1>5. QED
  BY <1>1, <1>3, <1>4 DEF t

\* The steps a call may pass without asking Core.
Passed == Local \cup {"resolve"}

\* A step on this machine leaves what the call is for ahead.
LEMMA LocalAhead ==
  ASSUME NEW cmd, NEW by \in Whom, NEW s, Rest(cmd, by, s), s # <<>>, Head(s) \in Passed
  PROVE  /\ StepsOf(s) = {Head(s)} \cup StepsOf(Tail(s)) /\ Head(s) \notin Effects
         /\ cmd \in Reading => Tail(s) # <<>>
         /\ Tail(s) # <<>> => Tail(s)[1] \notin Posts
         /\ cmd = "declare_signal" => Tail(s) # <<>>
<1>1. /\ s \in Seq(AllSteps) /\ Tail(s) \in Seq(AllSteps) /\ Len(Tail(s)) = Len(s) - 1 /\ Head(s) = s[1]
      /\ \A i \in 1..Len(Tail(s)) : Tail(s)[i] = s[i + 1] /\ i + 1 \in 1..Len(s)
      /\ Tail(s) = <<>> <=> Len(s) = 1
      /\ Len(s) \in Nat
  BY TailOf DEF Rest
<1>2. StepsOf(s) = {Head(s)} \cup StepsOf(Tail(s)) /\ Head(s) \notin Effects
  BY <1>1, StepsAhead DEF Passed, Local, Effects
<1>3. cmd \in Reading => Tail(s) # <<>>
  BY <1>1 DEF Rest, ReadsOnly, Passed, Local
<1>4. Tail(s) # <<>> => Tail(s)[1] \notin Posts
  BY PostAhead DEF Passed, Passed, Local
<1>5. ASSUME cmd = "declare_signal" PROVE Tail(s) # <<>>
  <2>1. s = <<"args", "signal.post">> \/ s = <<"args", "signal.post", "signal.check">>
    BY <1>5, <1>1 DEF Rest, ReadsBack, Passed, Local
  <2>2. /\ Tail(<<"args", "signal.post", "signal.check">>) = <<"signal.post", "signal.check">>
        /\ Tail(<<"args", "signal.post">>) = <<"signal.post">>
    OBVIOUS
  <2>3. <<"signal.post", "signal.check">> # <<>> /\ <<"signal.post">> # <<>>
    OBVIOUS
  <2>4. QED
    BY <2>1, <2>2, <2>3
<1>6. QED
  BY <1>2, <1>3, <1>4, <1>5

\* What a request may be, by what is left after it.
LEMMA RequestAhead ==
  ASSUME NEW cmd, NEW by \in Whom, NEW s, Rest(cmd, by, s), s # <<>>, Head(s) \notin Local
  PROVE  /\ StepsOf(s) = {Head(s)} \cup StepsOf(Tail(s))
         /\ Tail(s) # <<>> => Head(s) \notin Effects \ OnTheWay(cmd)
         /\ cmd \in Graded => Head(s) \notin Effects
         /\ Head(s) = "serial.delete" => cmd = "unenroll_probe" /\ by = "probe"
         /\ cmd \in Reading => Tail(s) = <<>> /\ Head(s) \in {"mem", "state", "validate"}
         /\ cmd = "declare_signal" =>
              \/ Head(s) = "signal.post" /\ Tail(s) = <<>> /\ by = "role"
              \/ Head(s) = "signal.post" /\ Tail(s) = <<"signal.check">> /\ by = "probe"
              \/ Head(s) = "signal.check" /\ Tail(s) = <<>> /\ by = "probe"
<1>1. /\ s \in Seq(AllSteps) /\ Tail(s) \in Seq(AllSteps) /\ Len(Tail(s)) = Len(s) - 1 /\ Head(s) = s[1]
      /\ \A i \in 1..Len(Tail(s)) : Tail(s)[i] = s[i + 1] /\ i + 1 \in 1..Len(s)
      /\ Tail(s) = <<>> <=> Len(s) = 1
      /\ Len(s) \in Nat /\ 1 \in 1..Len(s)
  BY TailOf DEF Rest
<1>2. ASSUME Tail(s) # <<>> PROVE Head(s) \notin Effects \ OnTheWay(cmd)
  BY <1>1, <1>2 DEF Rest, EffectIsLast
<1>3. StepsOf(s) = {Head(s)} \cup StepsOf(Tail(s))
  BY <1>1, StepsAhead
<1>4. /\ cmd \in Graded => Head(s) \notin Effects
      /\ Head(s) = "serial.delete" => cmd = "unenroll_probe" /\ by = "probe"
  BY <1>1 DEF Rest, SerialOnly, GradedOnly
<1>5. ASSUME cmd \in Reading
      PROVE  Tail(s) = <<>> /\ Head(s) \in {"mem", "state", "validate"}
  <2>1. PICK r \in {"mem", "state", "validate"} : s = <<"args", r>> \/ s = <<r>>
    BY <1>5 DEF Rest, ReadsOnly
  <2>2. s # <<"args", r>>
    BY DEF Local
  <2>3. QED
    BY <1>1, <2>1, <2>2
<1>6. ASSUME cmd = "declare_signal"
      PROVE  \/ Head(s) = "signal.post" /\ Tail(s) = <<>> /\ by = "role"
             \/ Head(s) = "signal.post" /\ Tail(s) = <<"signal.check">> /\ by = "probe"
             \/ Head(s) = "signal.check" /\ Tail(s) = <<>> /\ by = "probe"
  <2>1. IF by = "role" THEN s = <<"signal.post">>
        ELSE s = <<"signal.post", "signal.check">> \/ s = <<"signal.check">>
    BY <1>6 DEF Rest, ReadsBack, Local
  <2>2. s = <<"signal.post">> => Head(s) = "signal.post" /\ Tail(s) = <<>>
    OBVIOUS
  <2>3. s = <<"signal.post", "signal.check">> =>
          Head(s) = "signal.post" /\ Tail(s) = <<"signal.check">>
    OBVIOUS
  <2>4. s = <<"signal.check">> => Head(s) = "signal.check" /\ Tail(s) = <<>>
    OBVIOUS
  <2>5. by # "role" => by = "probe"
    BY DEF Whom
  <2>6. QED
    BY <2>1, <2>2, <2>3, <2>4, <2>5
<1>7. QED
  BY <1>2, <1>3, <1>4, <1>5, <1>6


-----------------------------------------------------------------------------
\* An answer that is no success is never read as one, and is read as an absence by the
\* methods that look up or remove a row alone.
LEMMA RefusalsAreRead ==
  ASSUME NEW rq, NEW by, NEW a \in Replies(rq, by), a.code # 200
  PROVE  /\ Outcome(rq, by, a) # "ok"
         /\ Outcome(rq, by, a) = "none" => rq \in Tables \cup Deletes
         /\ Outcome(rq, by, a) = "none" =>
              \/ a.fact = "absent"
              \/ a.fact = "noroute" /\ rq = "serial.delete"
<1>1. CASE rq \in {"validate", "study.post", "host.post", "hello"}
  <2>1. a.body = "kind" => a.data \in {"mismatch", "notattached"}
    BY AnswersByCode
  <2>2. QED
    BY <1>1, <2>1
       DEF Outcome, Failed, ValidateFailed, StudyFailed, HostStudyFailed, HelloFailed, MismatchKind
<1>2. CASE rq \in {"study.get", "follow", "prompt.post", "stream.get", "load.get"}
  BY <1>2 DEF Outcome, Failed, StatusFailed, PromptFailed, CaptureFailed
<1>3. CASE rq \in Tables
  <2>1. a.code = 404 /\ a.body # "empty" => a.fact = "absent"
    BY <1>3 DEF Replies, Own, Tables, NoRoute, LeaseHeld, Said, Done, Missing, Row, Reply
  <2>2. Outcome(rq, by, a) = AbsentOrOld(a)
    <3>1. rq \notin {"validate", "study.post", "host.post", "hello", "study.get", "follow",
                     "prompt.post", "stream.get", "load.get"}
      BY <1>3 DEF Tables
    <3>2. Outcome(rq, by, a) = Refused(rq, a)
      BY <3>1 DEF Outcome, Failed
    <3>3. Refused(rq, a) = AbsentOrOld(a)
      BY <1>3 DEF Refused, Tables, Declared, Boards, Listed, Link
    <3>4. QED
      BY <3>2, <3>3
  <2>3. QED
    BY <1>3, <2>1, <2>2 DEF AbsentOrOld, RouteMissing
<1>4. CASE rq \in Deletes
  <2>1. rq \notin {"validate", "study.post", "host.post", "hello", "study.get", "follow",
                   "prompt.post", "stream.get", "load.get"} \cup Tables
    BY <1>4 DEF Deletes, Tables
  <2>2. Outcome(rq, by, a) = Refused(rq, a)
    BY <2>1 DEF Outcome, Failed
  <2>3. Refused(rq, a) = DeleteFailed(a)
    BY <1>4 DEF Refused, Deletes, Tables, Declared, Boards, Listed, Link
  <2>4. a.code = 404 => a.fact = "absent" \/ (a.fact = "noroute" /\ rq = "serial.delete")
    <3>1. ~ HasRoute(rq) => rq = "serial.delete"
      BY <1>4 DEF HasRoute, FeatureOf, Deletes
    <3>2. CASE ~ HasRoute(rq)
      BY <3>1, <3>2 DEF Replies, NoRoute, Reply
    <3>3. CASE HasRoute(rq)
      <4>1. Own(rq, by) \subseteq {Done("none"), Missing}
        BY <1>4 DEF Own, Row, Deletes
      <4>2. QED
        BY <3>3, <4>1 DEF Replies, LeaseHeld, Said, Done, Missing, Reply
    <3>4. QED
      BY <3>2, <3>3
  <2>5. QED
    BY <1>4, <2>2, <2>3, <2>4 DEF DeleteFailed
<1>5. CASE rq \notin Tables \cup Deletes \cup
             {"validate", "study.post", "host.post", "hello", "study.get", "follow", "prompt.post",
              "stream.get", "load.get"}
  <2>1. Outcome(rq, by, a) = Refused(rq, a)
    BY <1>5 DEF Outcome, Failed
  <2>2. Refused(rq, a) \in {"old", "error"}
    BY <1>5 DEF Refused, RoutedFailed, SendFailed, Deletes
  <2>3. QED
    BY <2>1, <2>2
<1>6. QED
  BY <1>1, <1>2, <1>3, <1>4, <1>5

\* What a success tells of Core.
LEMMA SuccessesAreRead ==
  ASSUME NEW rq, NEW by \in Whom, NEW a \in Replies(rq, by), a.code = 200
  PROVE  /\ Outcome(rq, by, a) # "none"
         /\ rq \in Effects => Outcome(rq, by, a) = "ok"
         /\ Outcome(rq, by, a) = "ok" =>
              /\ rq \in {"mem", "state", "validate"} => a.data = by
              /\ rq = "schema" => core.build.schema = Ours
              /\ rq = "signal.check" => core.signal = "probe"
<1>1. Outcome(rq, by, a) # "none" /\ (rq \in Effects => Outcome(rq, by, a) = "ok")
  BY DEF Outcome, Accepted, CheckAnswered, StoredWithBoard, SchemaAgrees, Effects
<1>2. ASSUME rq \in {"mem", "state"} PROVE Outcome(rq, by, a) = "ok" => a.data = by
  <2>1. Own(rq, by) = IF BoardRead(by) \in core.enrolled
                      THEN {Done(BoardRead(by))} ELSE {Said(404, "unenrolled")}
    BY <1>2 DEF Own
  <2>2. a.data = BoardRead(by)
    BY <2>1 DEF Replies, NoRoute, LeaseHeld, Said, Done, Reply
  <2>3. Outcome(rq, by, a) = CheckAnswered(by, a)
    BY <1>2 DEF Outcome, Accepted
  <2>4. QED
    BY <1>2, <2>2, <2>3 DEF CheckAnswered, BoardRead, Whom
<1>3. ASSUME rq = "validate" PROVE a.data = by
  <2>1. Own(rq, by) \subseteq {Done(by), Said(422, "norole"), Said(404, "unenrolled"),
                              Mismatch(409, "mismatch", "mismatch"),
                              Mismatch(503, "notattached", "unattached")}
    BY <1>3 DEF Own
  <2>2. QED
    BY <1>3, <2>1 DEF Replies, NoRoute, LeaseHeld, Said, Done, Reply, Mismatch
<1>4. ASSUME rq = "schema" PROVE Outcome(rq, by, a) = "ok" => core.build.schema = Ours
  <2>1. Own(rq, by) = {Done(core.build.schema)}
    BY <1>4 DEF Own
  <2>2. a.data = core.build.schema
    BY <2>1 DEF Replies, NoRoute, LeaseHeld, Said, Done, Reply
  <2>3. Outcome(rq, by, a) = SchemaAgrees(a)
    BY <1>4 DEF Outcome, Accepted
  <2>4. QED
    BY <1>4, <2>2, <2>3 DEF SchemaAgrees
<1>5. ASSUME rq = "signal.check" PROVE Outcome(rq, by, a) = "ok" => core.signal = "probe"
  <2>1. Own(rq, by) = {Done(core.signal)}
    BY <1>5 DEF Own
  <2>2. a.data = core.signal
    BY <2>1 DEF Replies, NoRoute, LeaseHeld, Said, Done, Reply
  <2>3. Outcome(rq, by, a) = StoredWithBoard(a)
    BY <1>5 DEF Outcome, Accepted
  <2>4. QED
    BY <1>5, <2>2, <2>3 DEF StoredWithBoard
<1>6. QED
  BY <1>1, <1>2, <1>3, <1>4, <1>5

\* What a handled request leaves of Core.
LEMMA AfterTyped ==
  ASSUME NEW rq, NEW by \in Whom, core \in CoreStates
  PROVE  /\ After(rq, by) \in CoreStates
         /\ rq \in {"schema", "signal.check"} => After(rq, by) = core
         /\ rq = "signal.post" /\ by = "role" => After(rq, by).signal = by
  BY DEF After, CoreStates, Whom

\* What a step of the call on this machine leaves alone.
Same ==
  /\ core' = core /\ call' # <<>> /\ Fields \subseteq DOMAIN call'
  /\ call'.cmd = call.cmd /\ call'.by = call.by /\ call'.did = call.did
  /\ call'.ans = call.ans /\ call'.under = call.under /\ call'.alone = call.alone

\* A record with these fields is a call.
LEMMA FieldsOfCall ==
  ASSUME NEW c, Fields \subseteq DOMAIN c
  PROVE  c # <<>>
<1>1. "at" \in DOMAIN c /\ DOMAIN <<>> = {}
  BY DEF Fields
<1>2. QED
  BY <1>1

\* Going on, and ending, change nothing else of the call.
LEMMA OnwardSame ==
  ASSUME WellFormed, call # <<>>, core' = core, call' = Onward(call)
  PROVE  Same /\ call'.at = "step" /\ call'.left = Tail(call.left)
<1>1. Fields \subseteq DOMAIN call'
  BY DEF WellFormed, Onward
<1>2. /\ call'.cmd = call.cmd /\ call'.by = call.by /\ call'.did = call.did
      /\ call'.ans = call.ans /\ call'.under = call.under /\ call'.alone = call.alone
      /\ call'.at = "step" /\ call'.left = Tail(call.left)
  BY DEF WellFormed, Onward, Fields
<1>3. QED
  BY <1>1, <1>2, FieldsOfCall DEF Same

LEMMA OverSame ==
  ASSUME WellFormed, call # <<>>, core' = core, NEW out, NEW exit, Over(out, exit)
  PROVE  Same /\ call'.at = "over" /\ call'.out = out /\ call'.exit = exit
<1>1. Fields \subseteq DOMAIN call'
  BY DEF WellFormed, Over
<1>2. /\ call'.cmd = call.cmd /\ call'.by = call.by /\ call'.did = call.did
      /\ call'.ans = call.ans /\ call'.under = call.under /\ call'.alone = call.alone
      /\ call'.at = "over" /\ call'.out = out /\ call'.exit = exit
  BY DEF WellFormed, Over, Fields
<1>3. QED
  BY <1>1, <1>2, FieldsOfCall DEF Same

\* A step on this machine that passes goes on to the next.
LEMMA OnwardRInv ==
  ASSUME RInv, call # <<>>, call.at = "step", call.left # <<>>, Head(call.left) \in Passed,
         Same, call'.at = "step", call'.left = Tail(call.left)
  PROVE  RInv'
<1>1. OnCourse(call.left) /\ call.by \in Whom /\ Agreed /\ core \in CoreStates
  BY DEF RInv, Stepping
<1> DEFINE s == call.left
           t == Tail(s)
<1>2. Rest(call.cmd, call.by, s)
  BY <1>1 DEF OnCourse
<1>3. Rest(call.cmd, call.by, t)
  BY <1>1, <1>2, RestTail
<1>4. /\ StepsOf(s) = {Head(s)} \cup StepsOf(t) /\ Head(s) \notin Effects
      /\ call.cmd \in Reading => t # <<>>
      /\ t # <<>> => t[1] \notin Posts
      /\ call.cmd = "declare_signal" => t # <<>>
  BY <1>1, <1>2, LocalAhead
<1>5. Purpose(call.cmd, call.by) \subseteq call.did \cup StepsOf(t)
  <2>1. Purpose(call.cmd, call.by) \subseteq Effects
    BY DEF Purpose, OnTheWay
  <2>2. Purpose(call.cmd, call.by) \subseteq call.did \cup StepsOf(s)
    BY <1>1 DEF OnCourse
  <2>3. QED
    BY <1>4, <2>1, <2>2
<1>6. OnCourse(call.left)'
  BY <1>1, <1>3, <1>4, <1>5 DEF OnCourse, Same
<1>7. QED
  BY <1>1, <1>6 DEF RInv, WellFormed, Stepping, Told, Agreed, IsOver, Same

\* One that fails, and a request nobody answers, end the call as it stands.
LEMMA FailsRInv ==
  ASSUME RInv, call # <<>>, call.at = "step", call.left # <<>>,
         NEW out \in {"refused", "unreachable"}, Over(out, 1), core' = core
  PROVE  RInv'
<1>1. OnCourse(call.left) /\ call.by \in Whom /\ Agreed /\ core \in CoreStates
  BY DEF RInv, Stepping
<1>2. Same /\ call'.at = "over" /\ call'.out = out /\ call'.exit = 1
  BY OverSame DEF RInv
<1>3. call.did \subseteq OnTheWay(call.cmd)
  BY <1>1 DEF OnCourse
<1>4. QED
  BY <1>1, <1>2, <1>3 DEF RInv, WellFormed, Stepping, Told, Agreed, IsOver, Same

LEMMA InitRInv == Init => RInv
  BY DEF Init, RInv, WellFormed

LEMMA BeginRInv == RInv /\ Begin => RInv'
<1> SUFFICES ASSUME RInv, Begin PROVE RInv'
  OBVIOUS
<1>1. PICK face, table, cmd, by, good :
        /\ table \in Scripts(face) /\ cmd \in DOMAIN table /\ by \in Whom
        /\ call' = Issued(cmd, face, by, good, Script(table[cmd], by))
  BY Zenon DEF Begin, Whom
<1> DEFINE s == Script(table[cmd], by)
<1>2. Whole(cmd, by, s)
  BY <1>1, ScriptsLead DEF Leads
<1> HIDE DEF s
<1>3. /\ call' # <<>> /\ Fields \subseteq DOMAIN call' /\ call'.at = "step" /\ call'.left = s
      /\ call'.cmd = cmd /\ call'.by = by /\ call'.did = {} /\ core' = core
  <2> DEFINE issued == Issued(cmd, face, by, good, s)
  <2>1. /\ Fields \subseteq DOMAIN issued /\ issued.at = "step" /\ issued.left = s
        /\ issued.cmd = cmd /\ issued.by = by /\ issued.did = {}
    BY DEF Issued, Fields
  <2>2. call' = issued /\ core' = core
    BY <1>1 DEF Begin, s
  <2> HIDE DEF issued
  <2>3. QED
    BY <2>1, <2>2, FieldsOfCall
<1>4. OnCourse(s)'
  BY <1>2, <1>3 DEF Whole, OnCourse
<1>5. core' \in CoreStates /\ by \in Whom
  BY <1>1, <1>3 DEF RInv
<1>6. Stepping' /\ Told' /\ IsOver'
  BY <1>3, <1>4 DEF Stepping, Told, IsOver
<1>7. Agreed'
  BY <1>3 DEF Agreed
<1>8. QED
  BY <1>3, <1>5, <1>6, <1>7 DEF RInv, WellFormed

LEMMA OthersRInv == RInv /\ Others => RInv'
<1> SUFFICES ASSUME RInv, Others PROVE RInv'
  OBVIOUS
<1>1. /\ call # <<>> /\ call.at \in {"step", "told"}
      /\ call' = [call EXCEPT !.alone = FALSE] /\ core' \in CoreStates
  BY DEF Others, RInv, CoreStates
<1>2. /\ call' # <<>> /\ Fields \subseteq DOMAIN call' /\ call'.alone = FALSE
      /\ call'.at = call.at /\ call'.left = call.left /\ call'.cmd = call.cmd /\ call'.by = call.by
      /\ call'.did = call.did /\ call'.ans = call.ans
  BY <1>1 DEF RInv, WellFormed, Fields
<1>3. ASSUME NEW s, OnCourse(s) PROVE OnCourse(s)'
  BY <1>2, <1>3 DEF OnCourse
<1>4. Read' = Read
  BY <1>2 DEF Read, Outcome, Accepted, CheckAnswered, StoredWithBoard, SchemaAgrees, Failed, Refused
<1>5. Absent' = Absent /\ OnTheWay(call.cmd)' = OnTheWay(call.cmd)
  BY <1>2 DEF Absent, OldUnenroll, OnTheWay
<1>6. Stepping' /\ Told' /\ Agreed' /\ IsOver'
  BY <1>1, <1>2, <1>3, <1>4, <1>5 DEF RInv, Stepping, Told, Agreed, IsOver
<1>7. QED
  BY <1>1, <1>2, <1>6 DEF RInv, WellFormed

LEMMA ReadsRInv == RInv /\ Reads => RInv'
<1> SUFFICES ASSUME RInv, Reads PROVE RInv'
  OBVIOUS
<1>1. call # <<>> /\ call.at = "told" /\ core' = core
  BY DEF Reads
<1>2. CASE Read = "ok"
  <2>1. call' = Onward(call)
    BY <1>2 DEF Reads, Read
  <2>2. Same /\ call'.at = "step" /\ call'.left = Tail(call.left)
    BY <1>1, <2>1, OnwardSame DEF RInv
  <2>3. OnCourse(Tail(call.left))
    BY <1>1, <1>2 DEF RInv, Told
  <2>4. OnCourse(call.left)'
    BY <2>2, <2>3 DEF OnCourse, Same
  <2>5. QED
    BY <1>1, <2>2, <2>4 DEF RInv, WellFormed, Stepping, Told, Agreed, IsOver, Same
<1>3. CASE Read = "none"
  <2>1. Over("none", 0)
    BY <1>3 DEF Reads, Read
  <2>2. Same /\ call'.at = "over" /\ call'.out = "none" /\ call'.exit = 0
    BY <1>1, <2>1, OverSame DEF RInv
  <2>3. Absent /\ call.cmd # "declare_signal"
    BY <1>1, <1>3 DEF RInv, Told
  <2>4. Absent'
    BY <2>2, <2>3 DEF Absent, OldUnenroll, Same
  <2>5. QED
    BY <1>1, <2>2, <2>3, <2>4 DEF RInv, WellFormed, Stepping, Told, Agreed, IsOver, Same
<1>4. CASE Read \notin {"ok", "none"}
  <2>1. Over(Read, 1)
    BY <1>4 DEF Reads, Read
  <2>2. Same /\ call'.at = "over" /\ call'.out = Read /\ call'.exit = 1
    BY <1>1, <2>1, OverSame DEF RInv
  <2>3. call.did \subseteq OnTheWay(call.cmd)
    BY <1>1, <1>4 DEF RInv, Told
  <2>4. QED
    BY <1>1, <1>4, <2>2, <2>3 DEF RInv, WellFormed, Stepping, Told, Agreed, IsOver, Same
<1>5. QED
  BY <1>2, <1>3, <1>4

LEMMA AnswerLostRInv == RInv /\ AnswerLost => RInv'
<1> SUFFICES ASSUME RInv, AnswerLost PROVE RInv'
  OBVIOUS
<1>1. /\ Same /\ call # <<>> /\ call'.at = "over" /\ call'.out = "unreachable" /\ call'.exit = 1
      /\ call'.lost = TRUE /\ call'.left = call.left
  <2>1. WellFormed /\ call # <<>>
    BY DEF RInv, AnswerLost
  <2>2. Fields \subseteq DOMAIN call' /\ core' = core
    BY <2>1 DEF AnswerLost, WellFormed
  <2>3. /\ call'.cmd = call.cmd /\ call'.by = call.by /\ call'.did = call.did
        /\ call'.ans = call.ans /\ call'.under = call.under /\ call'.alone = call.alone
        /\ call'.at = "over" /\ call'.out = "unreachable" /\ call'.exit = 1 /\ call'.lost = TRUE
        /\ call'.left = call.left
    BY <2>1 DEF AnswerLost, WellFormed, Fields
  <2>4. QED
    BY <2>1, <2>2, <2>3, FieldsOfCall DEF Same
<1>2. call.did \subseteq OnTheWay(call.cmd) \cup {Head(call.left)}
  BY DEF RInv, AnswerLost, Told
<1>3. IsOver'
  BY <1>1, <1>2 DEF IsOver, Same
<1>4. QED
  BY <1>1, <1>3 DEF RInv, WellFormed, Stepping, Told, Agreed, Same

LEMMA FinishesRInv == RInv /\ Finishes => RInv'
<1> SUFFICES ASSUME RInv, Finishes PROVE RInv'
  OBVIOUS
<1> DEFINE exit == Exit(call.ans.data)
<1>1. call # <<>> /\ call.at = "step" /\ call.left = <<>> /\ Over("ok", exit) /\ core' = core
  BY DEF Finishes
<1>2. exit # 0 => call.cmd \in Graded
  BY DEF Exit, McpExit, CliExit, Graded
<1> HIDE DEF exit
<1>3. Same /\ call'.at = "over" /\ call'.out = "ok" /\ call'.exit = exit
  BY <1>1, OverSame DEF RInv
<1>4. OnCourse(call.left) /\ Agreed /\ call.by \in Whom /\ core \in CoreStates
  BY <1>1 DEF RInv, Stepping
<1>5. /\ Purpose(call.cmd, call.by) \subseteq call.did
      /\ call.cmd \in Graded => call.did = {}
      /\ call.cmd \in Reading => call.ans.data = call.by
      /\ call.cmd = "declare_signal" /\ call.alone => core.signal = call.by
  <2>1. StepsOf(<<>>) = {}
    BY DEF StepsOf
  <2>2. QED
    BY <1>1, <1>4, <2>1 DEF OnCourse
<1>6. IsOver'
  BY <1>1, <1>2, <1>3, <1>5 DEF IsOver, Same
<1>7. QED
  BY <1>1, <1>3, <1>4, <1>6 DEF RInv, WellFormed, Stepping, Told, Agreed, Same

\* Core's answer to a request, whichever it is, is read for what it is.
LEMMA AnswersRInv == RInv /\ Answers => RInv'
<1> SUFFICES ASSUME RInv, Answers PROVE RInv'
  OBVIOUS
<1> DEFINE rq == Head(call.left)
           t == Tail(call.left)
<1>1. PICK a \in Replies(rq, call.by) : Handles(a)
  BY DEF Answers
<1> DEFINE o == Outcome(rq, call.by, a)
<1>2. /\ call # <<>> /\ call.at = "step" /\ call.left # <<>> /\ rq \notin Local
      /\ OnCourse(call.left) /\ call.by \in Whom /\ Agreed /\ core \in CoreStates /\ WellFormed
  BY DEF Answers, Requested, RInv, Stepping
<1>3. Rest(call.cmd, call.by, call.left)
  BY <1>2 DEF OnCourse
<1>4. Rest(call.cmd, call.by, t)
  BY <1>2, <1>3, RestTail
<1>5. t # <<>> /\ t[1] \in Posts => rq = "schema"
  BY <1>2, <1>3, PostAhead
<1>6. CASE a.code # 200
  <2>1. call' = [call EXCEPT !.at = "told", !.ans = a] /\ core' = core
    BY <1>1, <1>6 DEF Handles
  <2>2. Fields \subseteq DOMAIN call'
    BY <1>2, <2>1 DEF WellFormed
  <2>3. /\ call'.at = "told" /\ call'.left = call.left /\ call'.ans = a /\ call'.cmd = call.cmd
        /\ call'.by = call.by /\ call'.did = call.did /\ call'.under = call.under
        /\ call'.alone = call.alone
    BY <1>2, <2>1 DEF WellFormed, Fields
  <2>4. Read' = o
    BY <2>3 DEF Read
  <2>5. /\ o # "ok"
        /\ o = "none" =>
             /\ a.fact = "absent" \/ (a.fact = "noroute" /\ rq = "serial.delete")
             /\ rq \in Tables \cup Deletes
    BY <1>1, <1>6, RefusalsAreRead
  <2>6. /\ rq = "serial.delete" => call.cmd = "unenroll_probe" /\ call.by = "probe"
        /\ call.cmd = "declare_signal" => rq \in {"signal.post", "signal.check"}
    BY <1>2, <1>3, RequestAhead
  <2> HIDE DEF o, rq
  <2>7. o = "none" => Absent' /\ call.cmd # "declare_signal"
    <3>1. o = "none" => Absent'
      BY <2>3, <2>5, <2>6 DEF Absent, OldUnenroll
    <3>2. {"signal.post", "signal.check"} \cap (Tables \cup Deletes) = {}
      BY DEF Tables, Deletes
    <3>3. QED
      BY <2>5, <2>6, <3>1, <3>2
  <2>8. call.did \subseteq OnTheWay(call.cmd)
    BY <1>2 DEF OnCourse
  <2>9. Told' /\ Agreed' /\ Stepping' /\ IsOver'
    BY <1>2, <2>3, <2>4, <2>5, <2>7, <2>8 DEF Told, Agreed, Stepping, IsOver
  <2>10. QED
    BY <1>2, <2>1, <2>2, <2>3, <2>9, FieldsOfCall DEF RInv, WellFormed
<1>7. CASE a.code = 200
  <2> DEFINE did == call.did \cup ({rq} \cap Effects)
             under == IF rq \in {"study.post", "host.post"} THEN core.build.schema ELSE call.under
  <2>1. /\ call' = [call EXCEPT !.at = "told", !.ans = a, !.did = did, !.under = under]
        /\ core' = After(rq, call.by)
    BY <1>1, <1>7, Zenon DEF Handles
  <2> HIDE DEF did, under
  <2>2. Fields \subseteq DOMAIN call'
    BY <1>2, <2>1 DEF WellFormed
  <2>3. /\ call'.at = "told" /\ call'.left = call.left /\ call'.ans = a /\ call'.cmd = call.cmd
        /\ call'.by = call.by /\ call'.did = did /\ call'.under = under
        /\ call'.alone = call.alone
    BY <1>2, <2>1 DEF WellFormed, Fields
  <2>4. Read' = o
    BY <2>3 DEF Read
  <2>5. /\ core' \in CoreStates
        /\ rq \in {"schema", "signal.check"} => core' = core
        /\ rq = "signal.post" /\ call.by = "role" => core'.signal = call.by
    BY <1>2, <2>1, AfterTyped
  <2>6. /\ o # "none"
        /\ rq \in Effects => o = "ok"
        /\ o = "ok" => /\ rq \in {"mem", "state", "validate"} => a.data = call.by
                       /\ rq = "schema" => core.build.schema = Ours
                       /\ rq = "signal.check" => core.signal = "probe"
    BY <1>1, <1>2, <1>7, SuccessesAreRead
  <2> HIDE DEF o
  <2>7. /\ call.did \subseteq OnTheWay(call.cmd)
        /\ o # "ok" => did = call.did
        /\ did \subseteq OnTheWay(call.cmd) \cup {rq}
    BY <1>2, <2>6 DEF did, OnCourse
  <2>8. ASSUME o = "ok" PROVE OnCourse(t)'
    <3>1. /\ Purpose(call.cmd, call.by) \subseteq did \cup StepsOf(t)
          /\ t # <<>> => did \subseteq OnTheWay(call.cmd)
          /\ call.cmd \in Graded => did = {}
      <4>1. /\ StepsOf(call.left) = {rq} \cup StepsOf(t)
            /\ t # <<>> => rq \notin Effects \ OnTheWay(call.cmd)
            /\ call.cmd \in Graded => rq \notin Effects
        BY <1>2, <1>3, RequestAhead
      <4>2. /\ Purpose(call.cmd, call.by) \subseteq call.did \cup StepsOf(call.left)
            /\ call.cmd \in Graded => call.did = {}
        BY <1>2 DEF OnCourse
      <4>3. Purpose(call.cmd, call.by) \subseteq Effects
        BY DEF Purpose, OnTheWay
      <4> HIDE DEF rq, t
      <4>4. QED
        BY <2>7, <4>1, <4>2, <4>3 DEF did
    <3>2. t = <<>> /\ call.cmd \in Reading => a.data = call.by
      BY <1>2, <1>3, <2>6, <2>8, RequestAhead
    <3>3. t # <<>> /\ t[1] \in Posts => core'.build.schema = Ours
      BY <1>5, <2>5, <2>6, <2>8
    <3>4. call.cmd = "declare_signal" /\ t = <<>> /\ call.alone => core'.signal = call.by
      <4>1. SUFFICES ASSUME call.cmd = "declare_signal", t = <<>> PROVE core'.signal = call.by
        OBVIOUS
      <4>2. \/ rq = "signal.post" /\ call.by = "role"
            \/ rq = "signal.check" /\ call.by = "probe"
        <5>1. \/ rq = "signal.post" /\ t = <<>> /\ call.by = "role"
              \/ rq = "signal.post" /\ t = <<"signal.check">> /\ call.by = "probe"
              \/ rq = "signal.check" /\ t = <<>> /\ call.by = "probe"
          BY <1>2, <1>3, <4>1, RequestAhead
        <5>2. t # <<"signal.check">>
          BY <4>1
        <5>3. QED
          BY <5>1, <5>2
      <4>3. QED
        BY <2>5, <2>6, <2>8, <4>2
    <3>5. QED
      BY <1>4, <2>3, <3>1, <3>2, <3>3, <3>4 DEF OnCourse
  <2>9. Agreed'
    <3>1. ASSUME did \cap Posts # {}, call.alone, rq \in Posts PROVE under = Ours
      <4>1. call.left[1] = rq
        BY <1>2, <1>3, TailOf DEF Rest
      <4>2. core.build.schema = Ours
        BY <1>2, <3>1, <4>1 DEF OnCourse
      <4>3. QED
        BY <3>1, <4>2 DEF under, Posts
    <3>2. ASSUME did \cap Posts # {}, call.alone, rq \notin Posts PROVE under = Ours
      BY <1>2, <3>2 DEF did, under, Posts, Agreed
    <3>3. QED
      BY <2>3, <3>1, <3>2 DEF Agreed
  <2>10. Told' /\ Stepping' /\ IsOver'
    BY <1>2, <2>3, <2>4, <2>6, <2>7, <2>8 DEF Told, Stepping, IsOver
  <2>11. QED
    BY <1>2, <2>2, <2>3, <2>5, <2>9, <2>10, FieldsOfCall DEF RInv, WellFormed
<1>8. QED
  BY <1>6, <1>7

\* Every step preserves the invariant.
LEMMA NextRInv == RInv /\ [Next]_vars => RInv'
<1> SUFFICES ASSUME RInv, [Next]_vars PROVE RInv'
  OBVIOUS
<1>1. WellFormed
  BY DEF RInv
<1>2. ASSUME call # <<>>, call.at = "step", call.left # <<>>, Head(call.left) \in Passed,
             call' = Onward(call), core' = core
      PROVE  RInv'
  BY <1>1, <1>2, OnwardSame, OnwardRInv
<1>3. ASSUME Passes \/ ArgsChecked \/ Gate PROVE RInv'
  <2>1. /\ call # <<>> /\ call.at = "step" /\ call.left # <<>> /\ core' = core
        /\ Head(call.left) \in Passed
    BY <1>3 DEF Passes, ArgsChecked, Gate, At, Passed, Local
  <2>2. call' = Onward(call) \/ Over("refused", 1)
    BY <1>3 DEF Passes, ArgsChecked, Gate
  <2>3. QED
    BY <1>2, <2>1, <2>2, FailsRInv
<1>4. ASSUME NEW b \in {"fresh", "stale", "failed"}, BuildEnds(b) PROVE RInv'
  <2>1. /\ call # <<>> /\ call.at = "step" /\ call.left # <<>> /\ core' = core
        /\ Head(call.left) \in Passed
    BY <1>4 DEF BuildEnds, At, Passed, Local
  <2>2. CASE b = "failed"
    BY <1>4, <2>1, <2>2, FailsRInv DEF BuildEnds
  <2>3. CASE b # "failed"
    <3>1. call' = [Onward(call) EXCEPT !.built = b]
      BY <1>4, <2>3 DEF BuildEnds
    <3>2. Fields \subseteq DOMAIN call'
      BY <1>1, <2>1, <3>1 DEF WellFormed, Onward
    <3>3. /\ call'.cmd = call.cmd /\ call'.by = call.by /\ call'.did = call.did
          /\ call'.ans = call.ans /\ call'.under = call.under /\ call'.alone = call.alone
          /\ call'.at = "step" /\ call'.left = Tail(call.left)
      BY <1>1, <2>1, <3>1 DEF WellFormed, Onward, Fields
    <3>4. Same
      BY <2>1, <3>2, <3>3, FieldsOfCall DEF Same
    <3>5. QED
      BY <2>1, <3>3, <3>4, OnwardRInv
  <2>4. QED
    BY <2>2, <2>3
<1>5. ASSUME SkipsResolve PROVE RInv'
  BY <1>2, <1>5 DEF SkipsResolve, At, Passed
<1>6. ASSUME UploadUnread \/ Unanswered PROVE RInv'
  BY <1>6, FailsRInv DEF UploadUnread, Unanswered, At, Requested
<1>7. CASE UNCHANGED vars
  BY <1>7 DEF vars, RInv, WellFormed, Stepping, Told, Agreed, IsOver, OnCourse, Read, Absent,
             OldUnenroll
<1>8. QED
  BY <1>3, <1>4, <1>5, <1>6, <1>7, BeginRInv, AnswersRInv, ReadsRInv, FinishesRInv, AnswerLostRInv,
     OthersRInv DEF Next, Steps

LEMMA AlwaysRInv == Spec => []RInv
  BY InitRInv, NextRInv, PTL DEF Spec

\* A table is told to be empty, or to have had no such row, only by a Core that said
\* so: for any builds of Core, whoever else declares and clears meanwhile.
THEOREM AbsencesAreReal == Spec => []AbsenceIsReal
<1>1. RInv => AbsenceIsReal
  BY DEF RInv, IsOver, AbsenceIsReal, Ended, Absent, OldUnenroll
<1>2. QED
  BY <1>1, AlwaysRInv, PTL

\* A read or a validation answered with success came from the board that was named.
THEOREM ReadsComeFromTheBoardNamed == Spec => []ReadsTheBoardNamed
<1>1. RInv => ReadsTheBoardNamed
  BY DEF RInv, IsOver, ReadsTheBoardNamed, Ended, Reading
<1>2. QED
  BY <1>1, AlwaysRInv, PTL

\* A signal declared with success leaves the board it was declared on, unless somebody
\* changed the bench meanwhile.
THEOREM SignalsLeaveTheirBoard == Spec => []SignalLeavesItsBoard
<1>1. RInv => SignalLeavesItsBoard
  BY DEF RInv, IsOver, SignalLeavesItsBoard, Ended
<1>2. QED
  BY <1>1, AlwaysRInv, PTL

\* No study is submitted to a Core of another schema, unless Core was replaced between
\* the check and the submit.
THEOREM StudiesNeedOneSchema == Spec => []StudyNeedsOneSchema
<1>1. RInv => StudyNeedsOneSchema
  BY DEF RInv, Agreed, StudyNeedsOneSchema, Posts
<1>2. QED
  BY <1>1, AlwaysRInv, PTL

\* The exit code of every command of either face tells what Core did.
THEOREM ExitsTellWhatCoreDid == Spec => []ExitTellsWhatCoreDid
<1>1. RInv => ExitTellsWhatCoreDid
  BY DEF RInv, IsOver, ExitTellsWhatCoreDid, Ended, Absent
<1>2. QED
  BY <1>1, AlwaysRInv, PTL

-----------------------------------------------------------------------------
(* The stack command *)

\* A set of numbers has a least one.
LEMMA LeastOf ==
  ASSUME NEW S \in SUBSET Nat, S # {}
  PROVE  \E x \in S : \A y \in S : x <= y
<1> DEFINE R == OpToRel(<, Nat)
<1>1. IsWellFoundedOn(R, Nat)
  BY NatLessThanWellFounded
<1>2. \A x, y \in Nat : <<y, x>> \in R <=> y < x
  BY DEF OpToRel
<1> HIDE DEF R
<1>3. PICK x \in S : \A y \in S : ~ (<<y, x>> \in R)
  BY <1>1, WFMin
<1>4. ASSUME NEW y \in S PROVE x <= y
  <2>1. x \in Nat /\ y \in Nat
    OBVIOUS
  <2>2. ~ (y < x)
    BY <1>2, <1>3, <2>1
  <2>3. QED
    BY <2>1, <2>2
<1>5. QED
  BY <1>4

-----------------------------------------------------------------------------
(* Histories, and what a rebase makes of them *)

AnyPatch  == [of : 0..N + 1, n : 1..2, v : Nat]
Histories == Seq(AnyPatch)

Applies(upTo, onto, c, positions) ==
  /\ upTo[0] = onto
  /\ \A i \in 1..Len(c) :
       upTo[i] = IF i \in positions /\ ~ Has(upTo[i - 1], c[i]) THEN Append(upTo[i - 1], c[i])
                 ELSE upTo[i - 1]

\* Apply is the last value of its recursion, by the least place where it would not be.
LEMMA ApplySteps ==
  ASSUME NEW onto, NEW c, NEW positions, Len(c) \in Nat
  PROVE  \E upTo : Applies(upTo, onto, c, positions) /\ Apply(onto, c, positions) = upTo[Len(c)]
<1> DEFINE L == Len(c)
           Then(f, i) == IF i \in positions /\ ~ Has(f[i - 1], c[i]) THEN Append(f[i - 1], c[i])
                         ELSE f[i - 1]
           Eq(f, n) == f = [i \in 0..n |->
                              IF i = 0 THEN onto
                              ELSE IF i \in positions /\ ~ Has(f[i - 1], c[i])
                                   THEN Append(f[i - 1], c[i])
                                   ELSE f[i - 1]]
           Bad == {n \in 0..L : ~ \E f : Eq(f, n)}
<1>1. Bad = {}
  <2> SUFFICES ASSUME Bad # {} PROVE FALSE
    OBVIOUS
  <2>1. PICK n \in Bad : \A m \in Bad : n <= m
    <3>1. Bad \in SUBSET Nat
      <4> HIDE DEF Eq
      <4>1. QED
        OBVIOUS
    <3> HIDE DEF Bad
    <3>2. QED
      BY <3>1, LeastOf
  <2>2. CASE n = 0
    <3> DEFINE f == [i \in 0..0 |-> onto]
    <3>1. Eq(f, 0)
      OBVIOUS
    <3>2. QED
      BY <2>1, <2>2, <3>1
  <2>3. CASE n # 0
    <3>1. n - 1 \in 0..L /\ n - 1 \notin Bad /\ n \in Nat /\ n - 1 \in Nat
      <4>1. n \in 0..L
        OBVIOUS
      <4> HIDE DEF Bad
      <4>2. QED
        BY <2>1, <2>3, <4>1
    <3>2. PICK f : Eq(f, n - 1)
      <4> HIDE DEF Eq
      <4>1. QED
        BY <3>1
    <3> DEFINE x == Then(f, n)
               g == [i \in 0..n |-> IF i = n THEN x ELSE f[i]]
    <3>3. \A i \in 0..n - 1 : f[i] = IF i = 0 THEN onto ELSE Then(f, i)
      BY <3>1, <3>2
    <3>4. DOMAIN g = 0..n /\ g = [i \in 0..n |-> g[i]]
      OBVIOUS
    <3>5. g[n] = x /\ \A i \in 0..n - 1 : g[i] = f[i]
      <4> HIDE DEF x
      <4>1. QED
        BY <3>1
    <3> HIDE DEF g
    <3>6. g[n] = Then(g, n)
      <4>1. n - 1 \in 0..n - 1
        BY <2>3, <3>1
      <4>2. g[n - 1] = f[n - 1]
        BY <3>5, <4>1
      <4>3. QED
        BY <3>5, <4>2, Zenon
    <3>7. ASSUME NEW i \in 0..n - 1 PROVE g[i] = IF i = 0 THEN onto ELSE Then(g, i)
      <4>1. i # 0 => i - 1 \in 0..n - 1
        BY <3>1
      <4>2. i # 0 => g[i - 1] = f[i - 1]
        BY <3>5, <4>1
      <4>3. g[i] = IF i = 0 THEN onto ELSE Then(f, i)
        <5> HIDE DEF Then
        <5>1. QED
          BY <3>3, <3>5
      <4>4. QED
        BY <4>2, <4>3, Zenon
    <3>8. \A i \in 0..n : i = n \/ i \in 0..n - 1
      BY <3>1
    <3>9. \A i \in 0..n : g[i] = IF i = 0 THEN onto ELSE Then(g, i)
      <4> HIDE DEF Then
      <4>1. QED
        BY <2>3, <3>6, <3>7, <3>8
    <3>10. Eq(g, n)
      BY <3>4, <3>9, Zenon
    <3>11. QED
      BY <2>1, <3>10
  <2>4. QED
    BY <2>2, <2>3
<1>2. \E f : Eq(f, L)
  <2>1. L \in 0..L
    OBVIOUS
  <2> HIDE DEF Eq
  <2>2. QED
    BY <1>1, <2>1
<1> DEFINE F == CHOOSE f : Eq(f, L)
<1>3. Eq(F, L)
  BY <1>2
<1>4. Apply(onto, c, positions) = F[L]
  BY DEF Apply
<1> HIDE DEF F
<1>5. \A i \in 0..L : F[i] = IF i = 0 THEN onto ELSE Then(F, i)
  BY <1>3
<1>6. Applies(F, onto, c, positions)
  <2>1. F[0] = onto
    BY <1>5
  <2>2. \A i \in 1..L : i \in 0..L /\ i # 0
    OBVIOUS
  <2>3. \A i \in 1..L : F[i] = Then(F, i)
    <3> HIDE DEF Then
    <3>1. QED
      BY <1>5, <2>2
  <2>4. QED
    BY <2>1, <2>3, Zenon DEF Applies
<1>7. QED
  BY <1>4, <1>6

LEMMA ApplyIsHistory ==
  ASSUME NEW onto \in Histories, NEW c \in Histories, NEW positions
  PROVE  Apply(onto, c, positions) \in Histories
<1>1. Len(c) \in Nat /\ \A i \in 1..Len(c) : c[i] \in AnyPatch
  BY LenProperties, ElementOfSeq DEF Histories
<1>2. PICK f : Applies(f, onto, c, positions) /\ Apply(onto, c, positions) = f[Len(c)]
  BY <1>1, ApplySteps
<1> DEFINE Bad == {i \in 0..Len(c) : f[i] \notin Histories}
<1>3. Bad = {}
  <2> SUFFICES ASSUME Bad # {} PROVE FALSE
    OBVIOUS
  <2>1. Bad \in SUBSET Nat
    BY <1>1
  <2>2. PICK i \in Bad : \A j \in Bad : i <= j
    <3> HIDE DEF Bad
    <3>1. QED
      BY <2>1, LeastOf
  <2>3. i \in 0..Len(c) /\ f[i] \notin Histories
    OBVIOUS
  <2>4. i # 0
    BY <1>2, <2>3 DEF Applies
  <2>5. i \in 1..Len(c) /\ i - 1 \in 0..Len(c) /\ ~ (i <= i - 1)
    BY <1>1, <2>3, <2>4
  <2>6. i - 1 \notin Bad
    <3> HIDE DEF Bad
    <3>1. QED
      BY <2>2, <2>5
  <2>7. f[i - 1] \in Histories
    BY <2>5, <2>6
  <2>8. f[i] = f[i - 1] \/ f[i] = Append(f[i - 1], c[i])
    BY <1>2, <2>5 DEF Applies
  <2>9. Append(f[i - 1], c[i]) \in Histories
    BY <1>1, <2>5, <2>7, AppendProperties DEF Histories
  <2>10. QED
    BY <2>3, <2>7, <2>8, <2>9
<1>4. Len(c) \in 0..Len(c)
  BY <1>1
<1>5. f[Len(c)] \in Histories
  BY <1>3, <1>4
<1>6. QED
  BY <1>2, <1>5

LEMMA PrefixOfItself ==
  ASSUME NEW c \in Histories PROVE IsPrefix(c, c)
<1>1. Len(c) \in Nat
  BY LenProperties DEF Histories
<1>2. QED
  BY <1>1 DEF IsPrefix

LEMMA PrefixOfLonger ==
  ASSUME NEW c \in Histories, NEW p \in AnyPatch
  PROVE  Append(c, p) \in Histories /\ IsPrefix(c, Append(c, p))
<1> DEFINE d == Append(c, p)
<1>1. /\ d \in Seq(AnyPatch) /\ Len(d) = Len(c) + 1 /\ Len(c) \in Nat
      /\ \A i \in 1..Len(c) : d[i] = c[i]
  BY AppendProperties, LenProperties DEF Histories
<1> HIDE DEF d
<1>2. SubSeq(c, 1, Len(c)) = SubSeq(d, 1, Len(c))
  BY <1>1 DEF Histories
<1>3. QED
  BY <1>1, <1>2 DEF IsPrefix, Histories, d

LEMMA NewerIsHistory ==
  ASSUME NEW c \in Histories, NEW i PROVE Newer(c, i) \in Histories
<1>1. Len(c) \in Nat /\ c \in [1..Len(c) -> AnyPatch]
  BY LenProperties, ElementOfSeq DEF Histories
<1>2. Newer(c, i) \in [1..Len(c) -> AnyPatch]
  <2>1. CASE i \in 1..Len(c)
    <3>1. [c[i] EXCEPT !.v = @ + 1] \in AnyPatch
      BY <1>1, <2>1 DEF AnyPatch
    <3>2. Newer(c, i) = [c EXCEPT ![i] = [c[i] EXCEPT !.v = @ + 1]]
      BY <1>1 DEF Newer
    <3>3. QED
      BY <1>1, <3>1, <3>2
  <2>2. CASE i \notin 1..Len(c)
    BY <1>1, <2>2 DEF Newer
  <2>3. QED
    BY <2>1, <2>2
<1>3. QED
  BY <1>1, <1>2 DEF Histories

-----------------------------------------------------------------------------
(* Where the refs, the stack and the backups are *)

HistoriesAreKept ==
  /\ refs \in [Branches -> Histories]
  /\ remote \in [Branches -> Histories]
  /\ main \in Histories
  /\ head \in 0..N

\* What restack knows while it runs; its stack is a sequence of branches.
Runs ==
  [orig : 0..N, stack : Seq(Branches), onto : BOOLEAN,
   before : [Branches -> Histories], landed : SUBSET Branches, tries : Nat]

StackIsNamed == phase # "idle" => run \in Runs /\ run.stack # <<>>

\* Once the landed branches are known, the rebase has a branch left to take.
SomeIsLive ==
  phase = "loop" /\ run.onto /\ run.landed # {} => LiveAt # {}

StackIsBackedUp ==
  phase # "idle" => \A b \in Branches : OnStack(b) => <<b, run.before[b]>> \in backups

StackInv == HistoriesAreKept /\ StackIsNamed /\ SomeIsLive /\ StackIsBackedUp

LEMMA InitStackInv == StackInit => StackInv
<1> SUFFICES ASSUME StackInit PROVE StackInv
  OBVIOUS
<1>1. N \in Nat /\ 0 \in 0..N + 1 /\ 1 \in 1..2
  BY RestackAssumption
<1>2. ASSUME NEW b \in Branches PROVE Initial(b) \in Histories
  <2>1. b \in Nat /\ \A i \in 1..b : Patch(i, 1) \in AnyPatch
    BY <1>1 DEF Branches, Patch, AnyPatch
  <2>2. Initial(b) \in [1..b -> AnyPatch]
    BY <2>1 DEF Initial
  <2>3. QED
    BY <2>1, <2>2, SeqDef DEF Histories
<1>3. <<>> \in Histories
  BY EmptySeq DEF Histories
<1>4. HistoriesAreKept
  BY <1>2, <1>3 DEF StackInit, HistoriesAreKept, Base
<1>5. phase = "idle"
  BY DEF StackInit
<1>6. QED
  BY <1>4, <1>5 DEF StackInv, StackIsNamed, SomeIsLive, StackIsBackedUp

\* While restack fails, every branch is where it was or where it began.
LEMMA RestoreKeepsHistories ==
  ASSUME StackInv, phase # "idle", NEW current \in 0..N, Restore(current, refs)
  PROVE  refs' \in [Branches -> Histories]
<1>1. \A b \in Branches : refs[b] \in Histories /\ run.before[b] \in Histories
  BY DEF StackInv, HistoriesAreKept, StackIsNamed, Runs
<1>2. \A b \in Branches : refs'[b] \in {refs[b], run.before[b]}
  BY DEF Restore
<1>3. refs' = [b \in Branches |-> refs'[b]]
  BY DEF Restore
<1>4. QED
  BY <1>1, <1>2, <1>3

LEMMA RebasedHistories ==
  ASSUME refs \in [Branches -> Histories], NEW top \in Branches, NEW onto \in Histories,
         NEW upstream
  PROVE  Rebased(top, onto, upstream) \in [Branches -> Histories]
<1> DEFINE c == refs[top]
           positions == Todo(c, upstream)
           R == Rebased(top, onto, upstream)
<1>1. c \in Histories
  OBVIOUS
<1>2. R = [b \in Branches |-> IF b = top THEN Apply(onto, c, positions)
                                    ELSE Moved(b, onto, c, positions)]
  BY DEF Rebased
<1> HIDE DEF c, positions, R
<1>3. ASSUME NEW b \in Branches PROVE R[b] \in Histories
  <2>1. Apply(onto, c, positions) \in Histories
    BY <1>1, ApplyIsHistory
  <2>2. Moved(b, onto, c, positions) \in Histories
    <3>1. Apply(onto, c, {i \in positions : i <= Len(refs[b])}) \in Histories
      BY <1>1, ApplyIsHistory
    <3>2. refs[b] \in Histories
      OBVIOUS
    <3>3. QED
      BY <3>1, <3>2 DEF Moved
  <2>3. QED
    BY <1>2, <2>1, <2>2
<1>4. QED
  BY <1>2, <1>3 DEF R

\* A rebase in a restack, that works or that conflicts.
LEMMA RebaseKeeps ==
  ASSUME StackInv, phase = "loop", NEW top \in Branches, NEW onto \in Histories,
         NEW upstream, Rebase(top, onto, upstream)
  PROVE  /\ refs' \in [Branches -> Histories]
         /\ head' \in 0..N
         /\ main' = main /\ remote' = remote /\ backups' = backups
         /\ \/ phase' = "idle"
            \/ /\ phase' = IF run.onto THEN "check" ELSE "loop"
               /\ run' = [run EXCEPT !.tries = @ + 1]
<1>1. top \in 0..N
  BY DEF Branches
<1>2. CASE /\ refs' = Rebased(top, onto, upstream)
           /\ head' = top
           /\ run' = [run EXCEPT !.tries = @ + 1]
           /\ phase' = IF run.onto THEN "check" ELSE "loop"
           /\ UNCHANGED <<backups, far>>
  <2>1. refs' \in [Branches -> Histories]
    BY <1>2, RebasedHistories DEF StackInv, HistoriesAreKept
  <2>2. QED
    BY <1>1, <1>2, <2>1 DEF far
<1>3. CASE head' = top /\ Restore(top, refs) /\ Fail("conflict")
  <2>1. refs' \in [Branches -> Histories]
    BY <1>1, <1>3, RestoreKeepsHistories
  <2>2. QED
    BY <1>1, <1>3, <2>1 DEF Fail, far
<1>4. QED
  BY <1>2, <1>3 DEF Rebase

-----------------------------------------------------------------------------
(* No step loses a tip *)

\* What a step may not do.
NoneLost ==
  \A b \in Branches :
    ~ IsPrefix(refs[b], refs'[b]) /\ (AtRest \/ OnStack(b))
      => <<b, Began(b)>> \in backups'

LEMMA SameRefsLoseNone ==
  ASSUME StackInv, UNCHANGED refs PROVE NoneLost
<1> SUFFICES ASSUME NEW b \in Branches PROVE IsPrefix(refs[b], refs'[b])
  BY DEF NoneLost
<1>1. refs[b] \in Histories
  BY DEF StackInv, HistoriesAreKept
<1>2. QED
  BY <1>1, PrefixOfItself

\* While restack runs, the backups are what every branch began with.
LEMMA RunLosesNone ==
  ASSUME StackInv, phase # "idle", backups \subseteq backups' PROVE NoneLost
<1> SUFFICES ASSUME NEW b \in Branches, OnStack(b) PROVE <<b, Began(b)>> \in backups'
  BY DEF NoneLost, AtRest
<1>1. Began(b) = run.before[b]
  BY DEF Began, AtRest
<1>2. <<b, run.before[b]>> \in backups
  BY DEF StackInv, StackIsBackedUp
<1>3. QED
  BY <1>1, <1>2

\* At rest only the refs have to be followed.
LEMMA AtRestKeeps ==
  ASSUME StackInv, phase' = "idle", HistoriesAreKept' PROVE StackInv'
  BY DEF StackInv, StackIsNamed, SomeIsLive, StackIsBackedUp

LEMMA CommitStep ==
  ASSUME StackInv, Commit PROVE StackInv' /\ NoneLost
<1> DEFINE p == Patch(head, 2)
<1>1. N \in Nat /\ head \in Branches /\ refs \in [Branches -> Histories] /\ phase = "idle"
  BY RestackAssumption DEF Commit, Idle, AtRest, StackInv, HistoriesAreKept, Branches
<1>2. p \in AnyPatch
  <2>1. head \in 0..N + 1 /\ 2 \in 1..2 /\ 0 \in Nat
    BY <1>1 DEF Branches
  <2>2. QED
    BY <2>1 DEF Patch, AnyPatch
<1>3. Append(refs[head], p) \in Histories /\ IsPrefix(refs[head], Append(refs[head], p))
  BY <1>1, <1>2, PrefixOfLonger
<1>4. refs' = [refs EXCEPT ![head] = Append(refs[head], p)] /\ UNCHANGED <<backups, head, far, phase>>
  BY DEF Commit, Idle
<1> HIDE DEF p
<1>5. HistoriesAreKept'
  BY <1>1, <1>3, <1>4 DEF StackInv, HistoriesAreKept, far
<1>6. NoneLost
  <2> SUFFICES ASSUME NEW b \in Branches PROVE IsPrefix(refs[b], refs'[b])
    BY DEF NoneLost
  <2>1. CASE b = head
    BY <1>1, <1>3, <1>4, <2>1
  <2>2. CASE b # head
    BY <1>1, <1>4, <2>2, PrefixOfItself
  <2>3. QED
    BY <2>1, <2>2
<1>7. QED
  BY <1>1, <1>4, <1>5, <1>6, AtRestKeeps

LEMMA SwitchStep ==
  ASSUME StackInv, Switch PROVE StackInv' /\ NoneLost
<1>1. UNCHANGED <<refs, far>> /\ phase = "idle" /\ phase' = "idle" /\ head' \in 0..N
  BY DEF Switch, Idle, AtRest
<1>2. HistoriesAreKept'
  BY <1>1 DEF StackInv, HistoriesAreKept, far
<1>3. QED
  BY <1>1, <1>2, AtRestKeeps, SameRefsLoseNone

\* A fold backs up every branch that the rebase can move.
LEMMA FoldStep ==
  ASSUME StackInv, Fold PROVE StackInv' /\ NoneLost
<1>1. refs \in [Branches -> Histories] /\ phase = "idle" /\ UNCHANGED <<head, far, phase>>
  BY DEF Fold, Idle, AtRest, StackInv, HistoriesAreKept
<1>2. \/ UNCHANGED refs
      \/ \E i \in Nat \cup 1..Len(refs[head]) \cup (Fork(refs[head], main) + 1..Len(refs[head])) :
           refs' = [b \in Branches |->
             IF InRange(b) /\ Len(refs[b]) >= i THEN Newer(refs[b], i) ELSE refs[b]]
  BY DEF Fold
<1>3. /\ refs' \in [Branches -> Histories]
      /\ \A b \in Branches : ~ InRange(b) => refs'[b] = refs[b]
  BY <1>1, <1>2, NewerIsHistory
<1>4. \A b \in Branches : InRange(b) => <<b, refs[b]>> \in backups'
  BY DEF Fold, Backup
<1>5. HistoriesAreKept'
  BY <1>1, <1>3 DEF StackInv, HistoriesAreKept, far
<1>6. NoneLost
  <2> SUFFICES ASSUME NEW b \in Branches, ~ IsPrefix(refs[b], refs'[b])
               PROVE  <<b, Began(b)>> \in backups'
    BY DEF NoneLost
  <2>1. InRange(b)
    BY <1>1, <1>3, PrefixOfItself
  <2>2. Began(b) = refs[b]
    BY <1>1 DEF Began, AtRest
  <2>3. QED
    BY <1>4, <2>1, <2>2
<1>7. QED
  BY <1>1, <1>5, <1>6, AtRestKeeps

LEMMA LandStep ==
  ASSUME StackInv, Land PROVE StackInv' /\ NoneLost
<1>1. UNCHANGED <<refs, head, remote>> /\ phase = "idle" /\ phase' = "idle"
  BY DEF Land, Idle, AtRest, local
<1>2. N \in Nat /\ 1 \in Branches /\ Patch(0, 1) \in AnyPatch
  <2>1. N \in Nat /\ 1 \in 1..N /\ 0 \in 0..N + 1 /\ 1 \in 1..2
    BY RestackAssumption
  <2>2. QED
    BY <2>1 DEF Branches, Patch, AnyPatch
<1>3. PICK other \in {<<>>, <<Patch(0, 1)>>} :
        main' = Apply(main \o other, remote[1], DOMAIN remote[1])
  BY DEF Land
<1>4. main \in Seq(AnyPatch) /\ remote[1] \in Histories
  BY <1>2 DEF StackInv, HistoriesAreKept, Histories
<1>5. other \in Seq(AnyPatch)
  <2> DEFINE p == Patch(0, 1)
  <2>1. p \in AnyPatch
    BY <1>2
  <2>2. other = <<>> \/ other = <<p>>
    BY <1>3
  <2> HIDE DEF p
  <2>3. <<p>> \in Seq(AnyPatch)
    BY <2>1
  <2>4. QED
    BY <2>2, <2>3, EmptySeq
<1>6. main \o other \in Histories
  BY <1>4, <1>5, ConcatProperties DEF Histories
<1>7. main' \in Histories
  BY <1>3, <1>4, <1>6, ApplyIsHistory
<1>8. HistoriesAreKept'
  BY <1>1, <1>7 DEF StackInv, HistoriesAreKept
<1>9. QED
  BY <1>1, <1>8, AtRestKeeps, SameRefsLoseNone

LEMMA OthersLandStep ==
  ASSUME StackInv, OthersLand PROVE StackInv' /\ NoneLost
<1> DEFINE p == Patch(0, 1)
<1>1. UNCHANGED <<refs, head, remote>> /\ phase = "idle" /\ phase' = "idle"
  BY DEF OthersLand, Idle, AtRest, local
<1>2. p \in AnyPatch
  <2>1. 0 \in 0..N + 1 /\ 1 \in 1..2
    BY RestackAssumption
  <2>2. QED
    BY <2>1 DEF Patch, AnyPatch
<1>3. main' = Append(main, p)
  BY DEF OthersLand
<1> HIDE DEF p
<1>4. main' \in Histories
  BY <1>2, <1>3, PrefixOfLonger DEF StackInv, HistoriesAreKept
<1>5. HistoriesAreKept'
  BY <1>1, <1>4 DEF StackInv, HistoriesAreKept
<1>6. QED
  BY <1>1, <1>5, AtRestKeeps, SameRefsLoseNone

LEMMA OthersPushStep ==
  ASSUME StackInv, OthersPush PROVE StackInv' /\ NoneLost
<1> DEFINE p == Patch(N + 1, 1)
<1>1. UNCHANGED <<refs, head, main>> /\ phase = "idle" /\ phase' = "idle"
  BY DEF OthersPush, AtRest, local
<1>2. p \in AnyPatch
  <2>1. N + 1 \in 0..N + 1 /\ 1 \in 1..2
    BY RestackAssumption
  <2>2. QED
    BY <2>1 DEF Patch, AnyPatch
<1>3. PICK b \in Branches : remote' = [remote EXCEPT ![b] = Append(remote[b], p)]
  BY DEF OthersPush
<1> HIDE DEF p
<1>4. remote \in [Branches -> Histories]
  BY DEF StackInv, HistoriesAreKept
<1>5. Append(remote[b], p) \in Histories
  BY <1>2, <1>4, PrefixOfLonger
<1>6. HistoriesAreKept'
  BY <1>1, <1>3, <1>4, <1>5 DEF StackInv, HistoriesAreKept
<1>7. QED
  BY <1>1, <1>6, AtRestKeeps, SameRefsLoseNone

LEMMA FetchStep ==
  ASSUME StackInv, Fetch PROVE StackInv' /\ NoneLost
<1>1. UNCHANGED <<refs, head, remote, main>> /\ phase' = "idle"
  BY DEF Fetch, Idle, AtRest, local
<1>2. HistoriesAreKept'
  BY <1>1 DEF StackInv, HistoriesAreKept
<1>3. QED
  BY <1>1, <1>2, AtRestKeeps, SameRefsLoseNone

\* The stack is a sequence of branches, and all of it is backed up at once.
LEMMA StartStep ==
  ASSUME StackInv, StartRestack PROVE StackInv' /\ NoneLost
<1>1. UNCHANGED <<refs, head, far>> /\ phase' = "loop"
  BY DEF StartRestack
<1>2. PICK bottom \in Branches, top \in Branches, onto \in BOOLEAN :
        \E stack \in StackBranches(bottom, top) :
          /\ stack # <<>>
          /\ Backup(ToSet(stack))
          /\ run' = [orig |-> head, stack |-> stack, onto |-> onto, before |-> refs,
                     landed |-> {}, tries |-> 0]
  BY DEF StartRestack
<1>3. PICK stack \in StackBranches(bottom, top) :
        /\ stack # <<>>
        /\ Backup(ToSet(stack))
        /\ run' = [orig |-> head, stack |-> stack, onto |-> onto, before |-> refs,
                   landed |-> {}, tries |-> 0]
  BY <1>2
<1> DEFINE M == Members(bottom, top)
           n == Cardinality(M)
<1>4. M \subseteq Branches /\ n \in Nat
  <2>1. IsFiniteSet(Branches)
    BY FS_Interval, RestackAssumption DEF Branches
  <2>2. M \subseteq Branches
    BY DEF Members
  <2>3. QED
    BY <2>1, <2>2, FS_Subset, FS_CardinalityType
<1>5. stack \in [1..n -> M]
  BY <1>3 DEF StackBranches
<1> HIDE DEF M, n
<1>6. stack \in Seq(Branches) /\ Len(stack) = n /\ n # 0
  <2>1. stack \in [1..n -> Branches]
    BY <1>4, <1>5
  <2>2. stack \in Seq(Branches)
    BY <1>4, <2>1, SeqDef
  <2>3. Len(stack) = n
    BY <1>4, <2>1, <2>2, LenProperties
  <2>4. QED
    BY <1>3, <2>2, <2>3, EmptySeq
<1>7. /\ run'.stack = stack /\ run'.before = refs /\ run'.landed = {}
  BY <1>3
<1>8. HistoriesAreKept'
  BY <1>1 DEF StackInv, HistoriesAreKept, far
<1>9. StackIsNamed'
  <2>1. head \in 0..N /\ refs \in [Branches -> Histories]
    BY DEF StackInv, HistoriesAreKept
  <2>2. run' \in Runs
    BY <1>3, <1>6, <2>1 DEF Runs
  <2>3. QED
    BY <1>3, <1>7, <2>2 DEF StackIsNamed
<1>10. SomeIsLive'
  BY <1>7 DEF SomeIsLive
<1>11. StackIsBackedUp'
  BY <1>3, <1>7 DEF StackIsBackedUp, OnStack, Backup, Branches
<1>12. QED
  BY <1>1, <1>8, <1>9, <1>10, <1>11, SameRefsLoseNone DEF StackInv

-----------------------------------------------------------------------------
(* The steps of restack *)

\* A set of the stack's places has a highest one.
LEMMA HighestOf ==
  ASSUME NEW n \in Nat, NEW S \in SUBSET (1..n), S # {}
  PROVE  \E x \in S : \A y \in S : y <= x
<1> DEFINE T == {n - x : x \in S}
<1>1. T \in SUBSET Nat /\ T # {}
  <2>1. \A x \in S : n - x \in Nat
    OBVIOUS
  <2>2. QED
    BY <2>1
<1>2. PICK t \in T : \A u \in T : t <= u
  <2> HIDE DEF T
  <2>1. QED
    BY <1>1, LeastOf
<1>3. PICK x \in S : t = n - x
  OBVIOUS
<1>4. ASSUME NEW y \in S PROVE y <= x
  <2>1. n - x <= n - y
    BY <1>2, <1>3
  <2>2. x \in Nat /\ y \in Nat
    <3>1. x \in 1..n /\ y \in 1..n
      BY <1>3, <1>4
    <3> HIDE DEF T
    <3>2. QED
      BY <3>1
  <2>3. QED
    BY <2>1, <2>2
<1>5. QED
  BY <1>4

\* What a step of restack that changes no run leaves of the invariant.
LEMMA RunKeeps ==
  ASSUME StackInv, phase # "idle", UNCHANGED <<run, backups>>, HistoriesAreKept',
         phase' # "loop"
  PROVE  StackInv'
<1>1. UNCHANGED <<run, backups>>
  OBVIOUS
<1>2. StackIsNamed'
  BY <1>1 DEF StackInv, StackIsNamed
<1>3. StackIsBackedUp'
  BY <1>1 DEF StackInv, StackIsBackedUp, OnStack, Branches
<1>4. QED
  BY <1>2, <1>3 DEF StackInv, SomeIsLive

LEMMA StackPlaces ==
  ASSUME StackInv, phase # "idle"
  PROVE  /\ Len(run.stack) \in Nat \ {0}
         /\ DOMAIN run.stack = 1..Len(run.stack)
         /\ \A i \in 1..Len(run.stack) : run.stack[i] \in Branches
         /\ Top \in Branches
<1>1. Len(run.stack) \in 1..Len(run.stack)
  BY DEF StackInv, StackIsNamed, Runs
<1>2. QED
  BY <1>1 DEF StackInv, StackIsNamed, Runs, Top

\* A rebase of any branch of the stack.
LEMMA RebaseStep ==
  ASSUME StackInv, phase = "loop", NEW top \in Branches, NEW onto \in Histories,
         NEW upstream, Rebase(top, onto, upstream)
  PROVE  StackInv' /\ NoneLost
<1>1. /\ refs' \in [Branches -> Histories]
      /\ head' \in 0..N
      /\ main' = main /\ remote' = remote /\ backups' = backups
      /\ \/ phase' = "idle"
         \/ /\ phase' = IF run.onto THEN "check" ELSE "loop"
            /\ run' = [run EXCEPT !.tries = @ + 1]
  BY RebaseKeeps
<1>2. HistoriesAreKept'
  BY <1>1 DEF StackInv, HistoriesAreKept, Branches
<1>3. NoneLost
  BY <1>1, RunLosesNone
<1>4. CASE phase' = "idle"
  BY <1>2, <1>3, <1>4, AtRestKeeps
<1>5. CASE /\ phase' = IF run.onto THEN "check" ELSE "loop"
           /\ run' = [run EXCEPT !.tries = @ + 1]
  <2>1. run'.stack = run.stack /\ run'.before = run.before /\ run'.landed = run.landed /\ run'.onto = run.onto
    BY <1>5
  <2>2. StackIsNamed'
    <3>1. run \in Runs /\ run.stack # <<>>
      BY DEF StackInv, StackIsNamed
    <3>2. run' \in Runs
      BY <1>5, <3>1 DEF Runs
    <3>3. QED
      BY <2>1, <3>1, <3>2 DEF StackIsNamed
  <2>3. StackIsBackedUp'
    BY <1>1, <2>1 DEF StackInv, StackIsBackedUp, OnStack, Branches
  <2>4. SomeIsLive'
    BY <1>5, <2>1 DEF SomeIsLive
  <2>5. QED
    BY <1>2, <1>3, <2>2, <2>3, <2>4 DEF StackInv
<1>6. QED
  BY <1>1, <1>4, <1>5

\* A restack that gives up puts the refs it knows of back.
LEMMA FailStep ==
  ASSUME StackInv, phase # "idle", NEW how, Restore(head, refs), Fail(how), UNCHANGED head
  PROVE  StackInv' /\ NoneLost
<1>1. head \in 0..N
  BY DEF StackInv, HistoriesAreKept
<1>2. refs' \in [Branches -> Histories]
  BY <1>1, RestoreKeepsHistories
<1>3. phase' = "idle" /\ UNCHANGED <<head, main, remote, backups>>
  BY DEF Fail, far
<1>4. HistoriesAreKept'
  BY <1>2, <1>3 DEF StackInv, HistoriesAreKept, Branches
<1>5. QED
  BY <1>3, <1>4, AtRestKeeps, RunLosesNone

LEMMA RebaseAboveStep ==
  ASSUME StackInv, RebaseAbove PROVE StackInv' /\ NoneLost
<1> DEFINE n == Len(run.stack)
           prev == run.stack[Lowest - 1]
           cur  == run.stack[Lowest]
<1>1. phase = "loop" /\ phase # "idle" /\ Broken # {}
  BY DEF RebaseAbove
<1>2. n \in Nat \ {0} /\ (\A i \in 1..n : run.stack[i] \in Branches) /\ Top \in Branches
  BY <1>1, StackPlaces
<1>3. Lowest \in Broken
  <2>1. Broken \in SUBSET Nat
    BY <1>2 DEF Broken, Breaks
  <2>2. \E i \in Broken : \A j \in Broken : i <= j
    BY <1>1, <2>1, LeastOf
  <2>3. QED
    BY <2>2 DEF Lowest
<1>4. Lowest - 1 \in 1..n
  <2>1. Lowest \in 2..n
    BY <1>3 DEF Broken, Breaks
  <2>2. QED
    BY <1>2, <2>1
<1>5. prev \in Branches
  BY <1>2, <1>4
<1>6. refs[prev] \in Histories
  BY <1>5 DEF StackInv, HistoriesAreKept
<1>7. \/ Restore(head, refs) /\ Fail("unbased") /\ UNCHANGED head
      \/ Rebase(Top, refs[prev], OldBase(prev, cur))
  BY DEF RebaseAbove
<1> HIDE DEF n, prev, cur
<1>8. CASE Restore(head, refs) /\ Fail("unbased") /\ UNCHANGED head
  BY <1>1, <1>8, FailStep
<1>9. CASE Rebase(Top, refs[prev], OldBase(prev, cur))
  BY <1>1, <1>2, <1>6, <1>9, RebaseStep
<1>10. QED
  BY <1>7, <1>8, <1>9

LEMMA LoopEndsStep ==
  ASSUME StackInv, LoopEnds PROVE StackInv' /\ NoneLost
<1>1. /\ phase # "idle" /\ phase' # "loop"
      /\ UNCHANGED <<refs, head, remote, main, run, backups>>
  BY DEF LoopEnds, local, far
<1>2. HistoriesAreKept'
  BY <1>1 DEF StackInv, HistoriesAreKept, Branches
<1>3. QED
  BY <1>1, <1>2, RunKeeps, SameRefsLoseNone

LEMMA RebaseOntoStep ==
  ASSUME StackInv, RebaseOnto PROVE StackInv' /\ NoneLost
<1> DEFINE landed == {b \in ToSet(run.stack) : Landed(b)}
<1>1. phase = "loop" /\ phase # "idle" /\ run.onto
  BY DEF RebaseOnto
<1>2. \/ Rebase(Top, main, main)
      \/ /\ run' = [run EXCEPT !.landed = landed]
         /\ phase' = IF ToSet(run.stack) \subseteq landed THEN "check" ELSE "loop"
         /\ UNCHANGED <<local, far>>
  BY DEF RebaseOnto
<1> HIDE DEF landed
<1>3. CASE Rebase(Top, main, main)
  <2>1. Top \in Branches /\ main \in Histories
    BY <1>1, StackPlaces DEF StackInv, HistoriesAreKept
  <2>2. QED
    BY <1>1, <1>3, <2>1, RebaseStep
<1>4. CASE /\ run' = [run EXCEPT !.landed = landed]
           /\ phase' = IF ToSet(run.stack) \subseteq landed THEN "check" ELSE "loop"
           /\ UNCHANGED <<local, far>>
  <2>1. UNCHANGED <<refs, head, remote, main, backups>>
    BY <1>4 DEF local, far
  <2>2. HistoriesAreKept'
    BY <2>1 DEF StackInv, HistoriesAreKept, Branches
  <2>3. run'.stack = run.stack /\ run'.before = run.before /\ run'.onto = run.onto
    BY <1>4
  <2>4. StackIsNamed'
    <3>1. run \in Runs /\ run.stack # <<>>
      BY <1>1 DEF StackInv, StackIsNamed
    <3>2. landed \subseteq Branches
      <4>1. \A i \in DOMAIN run.stack : run.stack[i] \in Branches
        BY <1>1, StackPlaces
      <4>2. QED
        BY <4>1 DEF landed, ToSet
    <3>3. run' \in Runs
      BY <1>4, <3>1, <3>2 DEF Runs
    <3>4. QED
      BY <2>3, <3>1, <3>3 DEF StackIsNamed
  <2>5. StackIsBackedUp'
    BY <1>1, <2>1, <2>3 DEF StackInv, StackIsBackedUp, OnStack, Branches
  <2>6. SomeIsLive'
    <3> SUFFICES ASSUME phase' = "loop" PROVE LiveAt' # {}
      BY DEF SomeIsLive
    <3>1. PICK b \in ToSet(run.stack) : b \notin landed
      BY <1>4
    <3>2. PICK i \in DOMAIN run.stack : run.stack[i] = b
      BY <3>1 DEF ToSet
    <3>3. b \notin run'.landed
      <4>1. "landed" \in DOMAIN run
        BY <1>1 DEF StackInv, StackIsNamed, Runs
      <4>2. QED
        BY <1>4, <3>1, <4>1
    <3>4. QED
      BY <2>3, <3>2, <3>3 DEF LiveAt
  <2>7. QED
    BY <2>1, <2>2, <2>4, <2>5, <2>6, SameRefsLoseNone DEF StackInv
<1>5. QED
  BY <1>2, <1>3, <1>4

LEMMA RebaseLiveStep ==
  ASSUME StackInv, RebaseLive PROVE StackInv' /\ NoneLost
<1>1. /\ phase = "loop" /\ phase # "idle" /\ run.onto /\ run.landed # {}
      /\ Rebase(run.stack[Highest], main, main)
  BY DEF RebaseLive
<1>2. /\ Len(run.stack) \in Nat /\ DOMAIN run.stack = 1..Len(run.stack)
      /\ \A i \in 1..Len(run.stack) : run.stack[i] \in Branches
  BY <1>1, StackPlaces
<1>3. Highest \in LiveAt
  <2>1. LiveAt # {}
    BY <1>1 DEF StackInv, SomeIsLive
  <2>2. LiveAt \in SUBSET (1..Len(run.stack))
    BY <1>2 DEF LiveAt
  <2>3. \E i \in LiveAt : \A j \in LiveAt : j <= i
    BY <1>2, <2>1, <2>2, HighestOf
  <2>4. QED
    BY <2>3 DEF Highest
<1>4. run.stack[Highest] \in Branches
  BY <1>2, <1>3 DEF LiveAt
<1>5. main \in Histories
  BY DEF StackInv, HistoriesAreKept
<1>6. QED
  BY <1>1, <1>4, <1>5, RebaseStep

LEMMA CheckStep ==
  ASSUME StackInv, Check PROVE StackInv' /\ NoneLost
<1>1. phase # "idle"
  BY DEF Check
<1>2. CASE Restore(head, refs) /\ Fail("stuck") /\ UNCHANGED head
  BY <1>1, <1>2, FailStep
<1>3. CASE head' = run.orig /\ phase' = "push" /\ UNCHANGED <<refs, backups, far, run>>
  <2>1. run.orig \in 0..N
    BY <1>1 DEF StackInv, StackIsNamed, Runs
  <2>2. HistoriesAreKept'
    BY <1>3, <2>1 DEF StackInv, HistoriesAreKept, Branches, far
  <2>3. QED
    BY <1>1, <1>3, <2>2, RunKeeps, SameRefsLoseNone
<1>4. QED
  BY <1>2, <1>3 DEF Check

LEMMA PushStep ==
  ASSUME StackInv, Push PROVE StackInv' /\ NoneLost
<1>1. /\ phase # "idle" /\ phase' = "idle"
      /\ UNCHANGED <<refs, head, main>>
      /\ remote' = [b \in Branches |-> IF b \in Live THEN refs[b] ELSE remote[b]]
  BY DEF Push, Send, local
<1>2. refs \in [Branches -> Histories] /\ remote \in [Branches -> Histories]
  BY DEF StackInv, HistoriesAreKept
<1>3. remote' \in [Branches -> Histories]
  BY <1>1, <1>2
<1>4. HistoriesAreKept'
  BY <1>1, <1>3 DEF StackInv, HistoriesAreKept
<1>5. QED
  BY <1>1, <1>4, AtRestKeeps, SameRefsLoseNone

LEMMA PushRefusedStep ==
  ASSUME StackInv, PushRefused PROVE StackInv' /\ NoneLost
<1>1. phase' = "idle" /\ UNCHANGED <<refs, head, main, remote>>
  BY DEF PushRefused, Send, local
<1>2. HistoriesAreKept'
  BY <1>1 DEF StackInv, HistoriesAreKept, Branches
<1>3. QED
  BY <1>1, <1>2, AtRestKeeps, SameRefsLoseNone

LEMMA StutterKeeps ==
  ASSUME StackInv, UNCHANGED stackVars PROVE StackInv' /\ NoneLost
<1>1. UNCHANGED <<refs, backups, head, main, remote, phase, run>>
  BY DEF stackVars, local, far
<1>2. StackInv'
  BY <1>1 DEF StackInv, HistoriesAreKept, StackIsNamed, Runs, SomeIsLive, LiveAt, StackIsBackedUp,
              OnStack, Branches
<1>3. QED
  BY <1>1, <1>2, SameRefsLoseNone

LEMMA NextKeeps ==
  ASSUME StackInv, [StackNext]_stackVars PROVE StackInv' /\ NoneLost
  BY CommitStep, SwitchStep, FoldStep, LandStep, OthersLandStep, OthersPushStep, FetchStep,
     StartStep, RebaseAboveStep, LoopEndsStep, RebaseOntoStep, RebaseLiveStep, CheckStep, PushStep,
     PushRefusedStep, StutterKeeps DEF StackNext

\* Where a branch was that a command rewrites is kept, but for one below the stack: fold
\* backs up every branch that its rebase can move, restack all of the stack before
\* anything moves, and nothing takes a backup away (fold and restack of stack.rs).
THEOREM BackupsKeepTips ==
  StackSpec => NoTipIsLost
<1>1. StackInit => StackInv
  BY InitStackInv
<1>2. StackInv /\ [StackNext]_stackVars => StackInv'
  BY NextKeeps
<1>3. StackInv /\ [StackNext]_stackVars => [NoneLost]_stackVars
  BY NextKeeps
<1>4. NoTipIsLost <=> [][NoneLost]_stackVars
  BY DEF NoTipIsLost, NoneLost
<1>5. QED
  BY <1>1, <1>2, <1>3, <1>4, PTL DEF StackSpec

-----------------------------------------------------------------------------
(* Prefixes, and what a rebase keeps of a history *)

LEMMA PlacesOf ==
  ASSUME NEW c \in Histories
  PROVE  /\ Len(c) \in Nat /\ DOMAIN c = 1..Len(c)
         /\ \A i \in 1..Len(c) : c[i] \in AnyPatch
  BY LenProperties, ElementOfSeq DEF Histories

LEMMA PrefixIs ==
  ASSUME NEW c \in Histories, NEW d \in Histories
  PROVE  IsPrefix(c, d) <=> Len(c) <= Len(d) /\ \A i \in 1..Len(c) : c[i] = d[i]
<1>1. Len(c) \in Nat /\ Len(d) \in Nat
  BY PlacesOf
<1>2. SubSeq(c, 1, Len(c)) = c
  BY SubSeqFull DEF Histories
<1>3. CASE Len(c) <= Len(d)
  <2> DEFINE e == SubSeq(d, 1, Len(c))
  <2>1. e \in Seq(AnyPatch) /\ Len(e) = Len(c) /\ \A i \in 1..Len(c) : e[i] = d[i]
    <3>1. /\ e \in Seq(AnyPatch)
          /\ Len(e) = (IF 1 <= Len(c) THEN Len(c) - 1 + 1 ELSE 0)
          /\ \A i \in 1..Len(c) - 1 + 1 : e[i] = d[1 + i - 1]
      <4>1. 1 \in 1..Len(d) + 1 /\ Len(c) \in 0..Len(d)
        BY <1>1, <1>3
      <4>2. QED
        BY <4>1, SubSeqProperties DEF Histories
    <3> HIDE DEF e
    <3>2. QED
      BY <1>1, <3>1
  <2> HIDE DEF e
  <2>2. c = e <=> \A i \in 1..Len(c) : c[i] = e[i]
    BY <2>1, SeqEqual DEF Histories
  <2>3. QED
    BY <1>2, <1>3, <2>1, <2>2 DEF IsPrefix, e
<1>4. CASE ~ (Len(c) <= Len(d))
  BY <1>4 DEF IsPrefix
<1>5. QED
  BY <1>3, <1>4

LEMMA PrefixOfPrefix ==
  ASSUME NEW c \in Histories, NEW d \in Histories, NEW e \in Histories,
         IsPrefix(c, d), IsPrefix(d, e)
  PROVE  IsPrefix(c, e)
<1>1. /\ Len(c) \in Nat /\ Len(d) \in Nat /\ Len(e) \in Nat
      /\ Len(c) <= Len(d) /\ \A i \in 1..Len(c) : c[i] = d[i]
      /\ Len(d) <= Len(e) /\ \A i \in 1..Len(d) : d[i] = e[i]
  BY PlacesOf, PrefixIs
<1>2. Len(c) <= Len(e) /\ \A i \in 1..Len(c) : c[i] = e[i]
  BY <1>1
<1>3. QED
  BY <1>2, PrefixIs

\* Of two prefixes of one history, one is a prefix of the other.
LEMMA PrefixesOfOne ==
  ASSUME NEW c \in Histories, NEW d \in Histories, NEW e \in Histories,
         IsPrefix(c, e), IsPrefix(d, e), Len(c) <= Len(d)
  PROVE  IsPrefix(c, d)
<1>1. /\ Len(c) \in Nat /\ Len(d) \in Nat
      /\ \A i \in 1..Len(c) : c[i] = e[i]
      /\ \A i \in 1..Len(d) : d[i] = e[i]
  BY PlacesOf, PrefixIs
<1>2. \A i \in 1..Len(c) : c[i] = d[i]
  BY <1>1
<1>3. QED
  BY <1>2, PrefixIs

\* The fork is where two histories stop being equal.
LEMMA ForkIs ==
  ASSUME NEW c \in Histories, NEW d \in Histories
  PROVE  /\ Fork(c, d) \in 0..Len(c) /\ Fork(c, d) <= Len(d)
         /\ \A i \in 1..Fork(c, d) : c[i] = d[i]
         /\ \A j \in Fork(c, d) + 1..Len(c) : ~ IsPrefix(SubSeq(c, 1, j), d)
<1> DEFINE Fits(k) == IsPrefix(SubSeq(c, 1, k), d)
           S == {k \in 0..Len(c) : Fits(k)}
           T == {k + 1 : k \in S}
<1>1. Len(c) \in Nat /\ Len(d) \in Nat /\ \A i \in 1..Len(c) : c[i] \in AnyPatch
  BY PlacesOf
<1>2. 0 \in S
  <2>1. SubSeq(c, 1, 0) = <<>>
    BY SubSeqEmpty
  <2>2. IsPrefix(<<>>, d)
    <3>1. <<>> \in Histories /\ Len(<<>>) = 0
      BY EmptySeq DEF Histories
    <3>2. QED
      BY <1>1, <3>1, PrefixIs
  <2>3. Fits(0)
    BY <2>1, <2>2
  <2> HIDE DEF Fits
  <2>4. QED
    BY <1>1, <2>3
<1>3. PICK k \in S : \A j \in S : j <= k
  <2>1. T \in SUBSET (1..Len(c) + 1) /\ T # {} /\ Len(c) + 1 \in Nat
    BY <1>1, <1>2
  <2> HIDE DEF S
  <2>2. PICK x \in T : \A y \in T : y <= x
    <3> HIDE DEF T
    <3>1. QED
      BY <2>1, HighestOf
  <2>3. PICK k \in S : x = k + 1
    BY <2>2
  <2>4. ASSUME NEW j \in S PROVE j <= k
    <3>1. j + 1 <= k + 1
      BY <2>2, <2>3
    <3>2. j \in Nat /\ k \in Nat
      <4>1. S \subseteq Nat
        BY <1>1 DEF S
      <4>2. QED
        BY <4>1, <2>3
    <3>3. QED
      BY <3>1, <3>2
  <2>5. QED
    BY <2>4
<1>4. /\ k \in 0..Len(c)
      /\ IsPrefix(SubSeq(c, 1, k), d)
      /\ \A j \in k + 1..Len(c) : ~ IsPrefix(SubSeq(c, 1, j), d)
  <2>1. k \in 0..Len(c) /\ IsPrefix(SubSeq(c, 1, k), d)
    OBVIOUS
  <2>2. ASSUME NEW j \in k + 1..Len(c), IsPrefix(SubSeq(c, 1, j), d) PROVE FALSE
    <3>1. j \in S /\ j > k
      BY <1>1, <2>1, <2>2
    <3> HIDE DEF S
    <3>2. QED
      BY <1>1, <1>3, <2>1, <3>1
  <2>3. QED
    BY <2>1, <2>2
<1>5. /\ Fork(c, d) \in 0..Len(c)
      /\ IsPrefix(SubSeq(c, 1, Fork(c, d)), d)
      /\ \A j \in Fork(c, d) + 1..Len(c) : ~ IsPrefix(SubSeq(c, 1, j), d)
  BY <1>4 DEF Fork
<1> DEFINE f == Fork(c, d)
<1> HIDE DEF f
<1>6. /\ SubSeq(c, 1, f) \in Histories
      /\ Len(SubSeq(c, 1, f)) = f
      /\ \A i \in 1..f : SubSeq(c, 1, f)[i] = c[i]
  <2>1. f \in 0..Len(c) /\ f \in Int /\ \A i \in 1..f : c[i] \in AnyPatch
    BY <1>1, <1>5 DEF f
  <2>2. /\ SubSeq(c, 1, f) \in Seq(AnyPatch)
        /\ Len(SubSeq(c, 1, f)) = (IF 1 <= f THEN f - 1 + 1 ELSE 0)
        /\ \A i \in 1..f - 1 + 1 : SubSeq(c, 1, f)[i] = c[1 + i - 1]
    BY <2>1, SubSeqProperties
  <2>3. QED
    BY <2>1, <2>2 DEF Histories
<1>7. f <= Len(d) /\ \A i \in 1..f : c[i] = d[i]
  <2> DEFINE s == SubSeq(c, 1, f)
  <2>1. IsPrefix(s, d)
    BY <1>5 DEF f
  <2> HIDE DEF s
  <2>2. Len(s) <= Len(d) /\ \A i \in 1..Len(s) : s[i] = d[i]
    BY <1>6, <2>1, PrefixIs DEF s
  <2>3. QED
    BY <1>6, <2>2 DEF s
<1>8. QED
  BY <1>5, <1>7 DEF f

LEMMA ForkOfPrefix ==
  ASSUME NEW c \in Histories, NEW d \in Histories, IsPrefix(d, c)
  PROVE  Fork(c, d) = Len(d)
<1>1. /\ Len(c) \in Nat /\ Len(d) \in Nat /\ Len(d) <= Len(c)
      /\ Fork(c, d) \in 0..Len(c) /\ Fork(c, d) <= Len(d)
  BY PlacesOf, PrefixIs, ForkIs
<1>2. SubSeq(c, 1, Len(d)) = d
  <2>1. SubSeq(d, 1, Len(d)) = d
    BY SubSeqFull DEF Histories
  <2>2. QED
    BY <2>1 DEF IsPrefix
<1>3. IsPrefix(SubSeq(c, 1, Len(d)), d)
  BY <1>2, PrefixOfItself
<1>4. ~ (Len(d) \in Fork(c, d) + 1..Len(c))
  BY <1>3, ForkIs
<1>5. QED
  BY <1>1, <1>4

-----------------------------------------------------------------------------
(* What a rebase puts into a history *)

\* No patch is in a history twice, in whatever versions.
Once(c) == \A i, j \in DOMAIN c : SamePatch(c[i], c[j]) => i = j

\* Each patch of c is in d, in some version.
Covers(c, d) == \A i \in DOMAIN c : Holds(d, c[i])

LEMMA CoversItself ==
  ASSUME NEW c PROVE Covers(c, c)
  BY DEF Covers, Holds, SamePatch

LEMMA CoversAll ==
  ASSUME NEW c, NEW d, NEW e, Covers(c, d), Covers(d, e) PROVE Covers(c, e)
  BY DEF Covers, Holds, SamePatch

LEMMA PrefixIsCovered ==
  ASSUME NEW c \in Histories, NEW d \in Histories, IsPrefix(c, d)
  PROVE  /\ \A i \in DOMAIN c : Has(d, c[i])
         /\ Covers(c, d)
<1>1. /\ DOMAIN c = 1..Len(c) /\ DOMAIN d = 1..Len(d) /\ Len(c) \in Nat /\ Len(d) \in Nat
      /\ Len(c) <= Len(d) /\ \A i \in 1..Len(c) : c[i] = d[i]
  BY PlacesOf, PrefixIs
<1>2. \A i \in 1..Len(c) : i \in 1..Len(d)
  BY <1>1
<1>3. QED
  BY <1>1, <1>2 DEF Has, Covers, Holds, SamePatch

\* What the recursion of Apply has made of the first i places of c.
Applied(r, onto, c, positions, i) ==
  /\ r \in Histories
  /\ IsPrefix(onto, r)
  /\ \A x \in DOMAIN r : Has(onto, r[x]) \/ \E j \in positions : j \in 1..i /\ r[x] = c[j]
  /\ \A j \in positions : j \in 1..i => Has(r, c[j])
  /\ Once(onto) /\ Once(c) /\ ~ Clash(onto, c, positions) => Once(r)

LEMMA AppliedNext ==
  ASSUME NEW onto \in Histories, NEW c \in Histories, NEW positions, NEW h,
         NEW i \in 1..Len(c), Applied(h, onto, c, positions, i - 1)
  PROVE  Applied(IF i \in positions /\ ~ Has(h, c[i]) THEN Append(h, c[i]) ELSE h,
                 onto, c, positions, i)
<1>1. /\ Len(c) \in Nat /\ c[i] \in AnyPatch /\ h \in Histories
      /\ DOMAIN c = 1..Len(c) /\ DOMAIN h = 1..Len(h) /\ Len(h) \in Nat
  BY PlacesOf DEF Applied
<1>2. i \in Nat /\ \A j : j \in 1..i <=> j = i \/ j \in 1..i - 1
  BY <1>1
<1>3. CASE ~ (i \in positions /\ ~ Has(h, c[i]))
  BY <1>2, <1>3 DEF Applied
<1>4. CASE i \in positions /\ ~ Has(h, c[i])
  <2> DEFINE d == Append(h, c[i])
  <2>1. /\ d \in Histories
        /\ IsPrefix(h, d)
        /\ DOMAIN d = 1..Len(h) + 1
        /\ \A x \in 1..Len(h) : d[x] = h[x]
        /\ d[Len(h) + 1] = c[i]
    <3>1. /\ d \in Seq(AnyPatch) /\ Len(d) = Len(h) + 1
          /\ \A x \in 1..Len(h) : d[x] = h[x]
          /\ d[Len(h) + 1] = c[i]
      BY <1>1, AppendProperties DEF Histories
    <3>2. IsPrefix(h, d)
      BY <1>1, PrefixOfLonger
    <3> HIDE DEF d
    <3>3. QED
      BY <3>1, <3>2, LenProperties DEF Histories
  <2> HIDE DEF d
  <2>2. \A x : x \in DOMAIN d <=> x \in DOMAIN h \/ x = Len(h) + 1
    BY <1>1, <2>1
  <2>3. IsPrefix(onto, d)
    BY <1>1, <2>1, PrefixOfPrefix DEF Applied
  <2>4. ASSUME NEW x \in DOMAIN d
        PROVE  Has(onto, d[x]) \/ \E j \in positions : j \in 1..i /\ d[x] = c[j]
    <3>1. CASE x \in DOMAIN h
      BY <1>1, <1>2, <2>1, <3>1 DEF Applied
    <3>2. CASE x = Len(h) + 1
      BY <1>2, <1>4, <2>1, <3>2
    <3>3. QED
      BY <2>2, <2>4, <3>1, <3>2
  <2>5. ASSUME NEW j \in positions, j \in 1..i PROVE Has(d, c[j])
    <3>1. CASE j = i
      BY <1>1, <2>1, <2>2, <3>1 DEF Has
    <3>2. CASE j \in 1..i - 1
      <4>1. PICK x \in DOMAIN h : h[x] = c[j]
        BY <2>5, <3>2 DEF Applied, Has
      <4>2. x \in DOMAIN d /\ d[x] = c[j]
        BY <1>1, <2>1, <2>2, <4>1
      <4>3. QED
        BY <4>2 DEF Has
    <3>3. QED
      BY <1>2, <2>5, <3>1, <3>2
  <2>6. ASSUME Once(onto), Once(c), ~ Clash(onto, c, positions) PROVE Once(d)
    <3>1. Once(h)
      BY <2>6 DEF Applied
    <3>2. ASSUME NEW x \in DOMAIN h, SamePatch(h[x], c[i]) PROVE FALSE
      <4>1. CASE Has(onto, h[x])
        <5>1. PICK y \in DOMAIN onto : onto[y] = h[x]
          BY <4>1 DEF Has
        <5>2. SamePatch(c[i], onto[y])
          BY <3>2, <5>1 DEF SamePatch
        <5>3. c[i] = onto[y]
          BY <1>4, <2>6, <5>2 DEF Clash
        <5>4. QED
          BY <1>4, <5>1, <5>3 DEF Has
      <4>2. CASE \E j \in positions : j \in 1..i - 1 /\ h[x] = c[j]
        <5>1. PICK j \in 1..i - 1 : h[x] = c[j]
          BY <4>2
        <5>2. j \in DOMAIN c /\ i \in DOMAIN c /\ j # i
          BY <1>1
        <5>3. QED
          BY <2>6, <3>2, <5>1, <5>2 DEF Once
      <4>3. QED
        BY <3>2, <4>1, <4>2 DEF Applied
    <3>3. ASSUME NEW x \in DOMAIN h, SamePatch(c[i], h[x]) PROVE FALSE
      BY <3>2, <3>3 DEF SamePatch
    <3>4. ASSUME NEW x \in DOMAIN d, NEW y \in DOMAIN d, SamePatch(d[x], d[y]) PROVE x = y
      <4>1. CASE x \in DOMAIN h /\ y \in DOMAIN h
        BY <1>1, <2>1, <3>1, <3>4, <4>1 DEF Once
      <4>2. CASE x \in DOMAIN h /\ y = Len(h) + 1
        BY <1>1, <2>1, <3>2, <3>4, <4>2
      <4>3. CASE x = Len(h) + 1 /\ y \in DOMAIN h
        BY <1>1, <2>1, <3>3, <3>4, <4>3
      <4>4. QED
        BY <2>2, <3>4, <4>1, <4>2, <4>3
    <3>5. QED
      BY <3>4 DEF Once
  <2>7. Applied(d, onto, c, positions, i)
    BY <2>1, <2>3, <2>4, <2>5, <2>6 DEF Applied
  <2>8. QED
    BY <1>4, <2>7 DEF d
<1>5. QED
  BY <1>3, <1>4

\* What Apply returns, and what it has made of a beginning of c.
LEMMA ApplyIs ==
  ASSUME NEW onto \in Histories, NEW c \in Histories, NEW positions
  PROVE  Applied(Apply(onto, c, positions), onto, c, positions, Len(c))
<1>1. Len(c) \in Nat
  BY PlacesOf
<1>2. PICK f : Applies(f, onto, c, positions) /\ Apply(onto, c, positions) = f[Len(c)]
  BY <1>1, ApplySteps
<1> DEFINE Bad == {i \in 0..Len(c) : ~ Applied(f[i], onto, c, positions, i)}
<1>3. Bad = {}
  <2> SUFFICES ASSUME Bad # {} PROVE FALSE
    OBVIOUS
  <2>1. PICK i \in Bad : \A j \in Bad : i <= j
    <3>1. Bad \in SUBSET Nat
      BY <1>1
    <3> HIDE DEF Bad
    <3>2. QED
      BY <3>1, LeastOf
  <2>2. i \in 0..Len(c) /\ ~ Applied(f[i], onto, c, positions, i)
    OBVIOUS
  <2>3. i # 0
    <3>1. Applied(onto, onto, c, positions, 0)
      <4>1. IsPrefix(onto, onto)
        BY PrefixOfItself
      <4>2. \A x \in DOMAIN onto : Has(onto, onto[x])
        BY DEF Has
      <4>3. \A j : j \notin 1..0
        OBVIOUS
      <4>4. QED
        BY <4>1, <4>2, <4>3 DEF Applied
    <3>2. QED
      BY <1>2, <2>2, <3>1 DEF Applies
  <2>4. i \in 1..Len(c) /\ i - 1 \in 0..Len(c) /\ ~ (i <= i - 1)
    BY <1>1, <2>2, <2>3
  <2>5. i - 1 \notin Bad
    <3> HIDE DEF Bad
    <3>1. QED
      BY <2>1, <2>4
  <2>6. Applied(f[i - 1], onto, c, positions, i - 1)
    BY <2>4, <2>5
  <2>7. f[i] = IF i \in positions /\ ~ Has(f[i - 1], c[i]) THEN Append(f[i - 1], c[i]) ELSE f[i - 1]
    BY <1>2, <2>4 DEF Applies
  <2>8. Applied(f[i], onto, c, positions, i)
    <3> DEFINE h == f[i - 1]
    <3>1. Applied(h, onto, c, positions, i - 1)
      BY <2>6
    <3>2. f[i] = IF i \in positions /\ ~ Has(h, c[i]) THEN Append(h, c[i]) ELSE h
      BY <2>7
    <3> HIDE DEF h
    <3>3. QED
      BY <2>4, <3>1, <3>2, AppliedNext
  <2>9. QED
    BY <2>2, <2>8
<1>4. Len(c) \in 0..Len(c)
  BY <1>1
<1>5. QED
  BY <1>2, <1>3, <1>4

\* Replaying the first k places gives a beginning of replaying all.
LEMMA ApplyInPart ==
  ASSUME NEW onto \in Histories, NEW c \in Histories, NEW positions, NEW k \in Nat, k <= Len(c)
  PROVE  IsPrefix(Apply(onto, c, {i \in positions : i <= k}), Apply(onto, c, positions))
<1> DEFINE part == {i \in positions : i <= k}
<1>1. Len(c) \in Nat /\ \A i \in 1..Len(c) : c[i] \in AnyPatch
  BY PlacesOf
<1>2. PICK f : Applies(f, onto, c, positions) /\ Apply(onto, c, positions) = f[Len(c)]
  BY <1>1, ApplySteps
<1>3. PICK g : Applies(g, onto, c, part) /\ Apply(onto, c, part) = g[Len(c)]
  <2> HIDE DEF part
  <2>1. QED
    BY <1>1, ApplySteps
<1>4. \A i \in 1..Len(c) : i \in part <=> i \in positions /\ i <= k
  OBVIOUS
<1> HIDE DEF part
<1> DEFINE Good(i) == /\ f[i] \in Histories
                      /\ i <= k => g[i] = f[i]
                      /\ i >= k => g[i] \in Histories /\ IsPrefix(g[i], f[i])
           Bad == {i \in 0..Len(c) : ~ Good(i)}
<1>5. Bad = {}
  <2> SUFFICES ASSUME Bad # {} PROVE FALSE
    OBVIOUS
  <2>1. PICK i \in Bad : \A j \in Bad : i <= j
    <3>1. Bad \in SUBSET Nat
      BY <1>1
    <3> HIDE DEF Bad
    <3>2. QED
      BY <3>1, LeastOf
  <2>2. i \in 0..Len(c) /\ ~ Good(i)
    OBVIOUS
  <2>3. i # 0
    <3>1. f[0] = onto /\ g[0] = onto
      BY <1>2, <1>3 DEF Applies
    <3>2. Good(0)
      BY <3>1, PrefixOfItself
    <3>3. QED
      BY <2>2, <3>2
  <2>4. i \in 1..Len(c) /\ i - 1 \in 0..Len(c) /\ ~ (i <= i - 1)
    BY <1>1, <2>2, <2>3
  <2>5. Good(i - 1)
    <3>1. i - 1 \notin Bad
      <4> HIDE DEF Bad
      <4>1. QED
        BY <2>1, <2>4
    <3> HIDE DEF Good
    <3>2. QED
      BY <2>4, <3>1
  <2>6. /\ f[i] = IF i \in positions /\ ~ Has(f[i - 1], c[i]) THEN Append(f[i - 1], c[i]) ELSE f[i - 1]
        /\ g[i] = IF i \in part /\ ~ Has(g[i - 1], c[i]) THEN Append(g[i - 1], c[i]) ELSE g[i - 1]
    BY <1>2, <1>3, <2>4 DEF Applies
  <2>7. f[i - 1] \in Histories /\ c[i] \in AnyPatch
    BY <1>1, <2>4, <2>5
  <2>8. f[i] \in Histories /\ IsPrefix(f[i - 1], f[i])
    <3>1. CASE f[i] = Append(f[i - 1], c[i])
      BY <2>7, <3>1, PrefixOfLonger
    <3>2. CASE f[i] = f[i - 1]
      BY <2>7, <3>2, PrefixOfItself
    <3>3. QED
      BY <2>6, <3>1, <3>2
  <2>9. CASE i <= k
    <3>1. i - 1 <= k /\ i \in part <=> i \in positions
      BY <1>4, <2>4, <2>9
    <3>2. g[i - 1] = f[i - 1]
      BY <1>1, <2>4, <2>5, <2>9
    <3>3. g[i] = f[i]
      BY <1>4, <2>4, <2>6, <2>9, <3>2
    <3>4. Good(i)
      BY <2>8, <3>3, PrefixOfItself
    <3>5. QED
      BY <2>2, <3>4
  <2>10. CASE ~ (i <= k)
    <3>1. i \in Nat /\ i - 1 >= k /\ i \notin part
      BY <1>1, <1>4, <2>4, <2>10
    <3>2. g[i - 1] \in Histories /\ IsPrefix(g[i - 1], f[i - 1]) /\ g[i] = g[i - 1]
      BY <2>5, <2>6, <3>1
    <3>3. IsPrefix(g[i], f[i])
      BY <2>7, <2>8, <3>2, PrefixOfPrefix
    <3>4. Good(i)
      BY <2>8, <2>10, <3>2, <3>3
    <3>5. QED
      BY <2>2, <3>4
  <2>11. QED
    BY <2>9, <2>10
<1>6. Good(Len(c))
  <2>1. Len(c) \in 0..Len(c)
    BY <1>1
  <2> HIDE DEF Good
  <2>2. QED
    BY <1>5, <2>1
<1>7. QED
  BY <1>2, <1>3, <1>6 DEF part

-----------------------------------------------------------------------------
(* What a rebase does to the branches *)

\* The places to replay among the first k.
Part(c, upstream, k) == {i \in Todo(c, upstream) : i <= k}

LEMMA TodoPlaces ==
  ASSUME NEW c \in Histories, NEW upstream \in Histories
  PROVE  /\ Todo(c, upstream) \subseteq 1..Len(c)
         /\ \A i \in 1..Len(c) : i \in Todo(c, upstream) \/ Has(upstream, c[i])
<1>1. /\ Len(c) \in Nat /\ Fork(c, upstream) \in 0..Len(c) /\ Fork(c, upstream) <= Len(upstream)
      /\ \A i \in 1..Fork(c, upstream) : c[i] = upstream[i]
      /\ DOMAIN upstream = 1..Len(upstream) /\ Len(upstream) \in Nat
  BY PlacesOf, ForkIs
<1>2. ASSUME NEW i \in 1..Len(c), i \notin Todo(c, upstream) PROVE Has(upstream, c[i])
  <2>1. CASE i \in 1..Fork(c, upstream)
    <3>1. i \in DOMAIN upstream /\ upstream[i] = c[i]
      BY <1>1, <2>1
    <3>2. QED
      BY <3>1 DEF Has
  <2>2. CASE i \in Fork(c, upstream) + 1..Len(c)
    BY <1>2, <2>2 DEF Todo
  <2>3. QED
    BY <1>1, <1>2, <2>1, <2>2
<1>3. Todo(c, upstream) \subseteq 1..Len(c)
  BY <1>1 DEF Todo
<1>4. QED
  BY <1>2, <1>3

\* A branch stays, or it becomes what its part of the rebased branch becomes.
LEMMA RebasedIs ==
  ASSUME refs \in [Branches -> Histories], NEW top \in Branches, NEW upstream \in Histories,
         NEW onto, NEW b \in Branches
  PROVE  LET R == Rebased(top, onto, upstream)
             c == refs[top]
             part == Part(c, upstream, Len(refs[b]))
         IN  /\ DOMAIN R = Branches
             /\ \/ b # top /\ R[b] = refs[b] /\ (~ IsPrefix(refs[b], c) \/ Len(refs[b]) \notin Todo(c, upstream))
                \/ /\ b = top \/ Len(refs[b]) \in Todo(c, upstream)
                   /\ IsPrefix(refs[b], c) /\ R[b] = Apply(onto, c, part)
<1> DEFINE R == Rebased(top, onto, upstream)
           c == refs[top]
           positions == Todo(c, upstream)
           part == Part(c, upstream, Len(refs[b]))
<1>1. R = [a \in Branches |-> IF a = top THEN Apply(onto, c, positions) ELSE Moved(a, onto, c, positions)]
  BY DEF Rebased
<1>2. CASE b = top
  <2>1. positions \subseteq 1..Len(c) /\ IsPrefix(c, c) /\ Len(c) \in Nat
    BY TodoPlaces, PrefixOfItself, PlacesOf
  <2>2. part = positions
    <3>1. \A i \in positions : i <= Len(refs[b])
      BY <1>2, <2>1
    <3>2. part = {i \in positions : i <= Len(refs[b])}
      BY DEF Part
    <3> HIDE DEF positions, part
    <3>3. QED
      BY <3>1, <3>2
  <2> HIDE DEF R, positions, part
  <2>3. R[b] = Apply(onto, c, part) /\ DOMAIN R = Branches
    BY <1>1, <1>2, <2>2
  <2>4. QED
    BY <1>2, <2>1, <2>3 DEF R, positions, part
<1>3. CASE b # top
  <2>1. R[b] = Moved(b, onto, c, positions) /\ DOMAIN R = Branches
    <3> HIDE DEF R, positions
    <3>1. QED
      BY <1>1, <1>3
  <2>2. Moved(b, onto, c, positions) =
          IF IsPrefix(refs[b], c) /\ Len(refs[b]) \in positions THEN Apply(onto, c, part) ELSE refs[b]
    BY DEF Moved, Part
  <2> HIDE DEF R, positions, part
  <2>3. QED
    BY <1>3, <2>1, <2>2 DEF R, positions, part
<1>4. QED
  BY <1>2, <1>3

LEMMA RebasedHolds ==
  ASSUME refs \in [Branches -> Histories], NEW top \in Branches,
         NEW onto \in Histories, NEW upstream \in Histories, NEW b \in Branches
  PROVE  LET r == Rebased(top, onto, upstream)[b]
         IN  /\ r \in Histories
             /\ \A x \in DOMAIN r : Has(onto, r[x]) \/ Has(refs[b], r[x])
             /\ \A x \in DOMAIN refs[b] : Has(r, refs[b][x]) \/ Has(upstream, refs[b][x])
             /\ r = refs[b] \/ IsPrefix(onto, r)
             /\ (\A a \in Branches : Once(refs[a])) /\ Once(onto)
                /\ ~ Clash(onto, refs[top], Todo(refs[top], upstream)) => Once(r)
<1> DEFINE r == Rebased(top, onto, upstream)[b]
           c == refs[top]
           positions == Todo(c, upstream)
           part == Part(c, upstream, Len(refs[b]))
<1>1. c \in Histories /\ refs[b] \in Histories
  OBVIOUS
<1>2. \/ r = refs[b]
      \/ IsPrefix(refs[b], c) /\ r = Apply(onto, c, part)
  BY RebasedIs
<1>3. positions \subseteq 1..Len(c) /\ \A i \in 1..Len(c) : i \in positions \/ Has(upstream, c[i])
  BY <1>1, TodoPlaces
<1>4. \A i : i \in part <=> i \in positions /\ i <= Len(refs[b])
  BY DEF Part
<1>5. ~ Clash(onto, c, positions) => ~ Clash(onto, c, part)
  BY <1>4 DEF Clash
<1> HIDE DEF r, positions, part, c
<1>6. CASE r = refs[b]
  <2>1. \A x \in DOMAIN refs[b] : Has(refs[b], refs[b][x])
    BY DEF Has
  <2>2. QED
    BY <1>1, <1>6, <2>1 DEF r, c, positions
<1>7. CASE IsPrefix(refs[b], c) /\ r = Apply(onto, c, part)
  <2>1. Applied(r, onto, c, part, Len(c))
    BY <1>1, <1>7, ApplyIs
  <2>2. /\ DOMAIN refs[b] = 1..Len(refs[b]) /\ Len(refs[b]) \in Nat /\ Len(c) \in Nat
        /\ Len(refs[b]) <= Len(c) /\ \A i \in 1..Len(refs[b]) : refs[b][i] = c[i]
    BY <1>1, <1>7, PlacesOf, PrefixIs
  <2>3. ASSUME NEW x \in DOMAIN r PROVE Has(onto, r[x]) \/ Has(refs[b], r[x])
    <3>1. CASE \E j \in part : j \in 1..Len(c) /\ r[x] = c[j]
      <4>1. PICK j \in part : j \in 1..Len(c) /\ r[x] = c[j]
        BY <3>1
      <4>2. j \in DOMAIN refs[b] /\ refs[b][j] = c[j]
        BY <1>4, <2>2, <4>1
      <4>3. QED
        BY <4>1, <4>2 DEF Has
    <3>2. QED
      BY <2>1, <3>1 DEF Applied
  <2>4. ASSUME NEW x \in DOMAIN refs[b] PROVE Has(r, refs[b][x]) \/ Has(upstream, refs[b][x])
    <3>1. x \in 1..Len(c) /\ x <= Len(refs[b]) /\ refs[b][x] = c[x]
      BY <2>2
    <3>2. CASE x \in positions
      BY <1>4, <2>1, <3>1, <3>2 DEF Applied
    <3>3. QED
      BY <1>3, <3>1, <3>2
  <2>5. (\A a \in Branches : Once(refs[a])) /\ Once(onto) /\ ~ Clash(onto, c, positions) => Once(r)
    BY <1>5, <2>1 DEF Applied, c
  <2>6. r \in Histories /\ IsPrefix(onto, r)
    BY <2>1 DEF Applied
  <2>7. QED
    BY <2>3, <2>4, <2>5, <2>6 DEF r, c, positions
<1>8. QED
  BY <1>2, <1>6, <1>7

-----------------------------------------------------------------------------
(* No patch is lost, doubled or orphaned *)

\* Where the branches were when the command that runs began.
Home == IF AtRest THEN refs ELSE run.before

\* Every patch of the history is in its branch, in some version.
OwnedBy(home, c) == \A i \in DOMAIN c : c[i].of \in Branches => Holds(home[c[i].of], c[i])

\* The branches `now` grew out of `home`, all patches of base and far have their branch,
\* and no kept commit has a patch that its branch has not.
Sound(home, now, base, there, kept) ==
  /\ \A b \in Branches :
       /\ Once(home[b]) /\ Once(now[b])
       /\ Covers(home[b], now[b])
       /\ OwnedBy(home, now[b]) /\ OwnedBy(home, there[b])
  /\ Once(base) /\ OwnedBy(home, base)
  /\ kept \in SUBSET (Branches \X Histories)
  /\ \A k \in kept : Covers(k[2], home[k[1]])

HistoriesAreSound == Sound(Home, refs, main, remote, backups)

LEMMA OwnedByMore ==
  ASSUME NEW home, NEW next, \A a \in Branches : Covers(home[a], next[a]),
         NEW d, \A x \in DOMAIN d : d[x].of \in Branches => \E c : OwnedBy(home, c) /\ Holds(c, d[x])
  PROVE  OwnedBy(next, d)
<1> SUFFICES ASSUME NEW x \in DOMAIN d, d[x].of \in Branches PROVE Holds(next[d[x].of], d[x])
  BY DEF OwnedBy
<1> DEFINE a == d[x].of
<1>1. PICK c : OwnedBy(home, c) /\ Holds(c, d[x])
  OBVIOUS
<1>2. PICK i \in DOMAIN c : SamePatch(c[i], d[x])
  BY <1>1 DEF Holds
<1>3. c[i].of = a
  BY <1>2 DEF SamePatch
<1>4. Holds(home[a], c[i])
  BY <1>1, <1>3 DEF OwnedBy
<1>5. Holds(home[a], d[x])
  BY <1>2, <1>4 DEF Holds, SamePatch
<1>6. Holds(next[a], d[x])
  <2>1. PICK j \in DOMAIN home[a] : SamePatch(home[a][j], d[x])
    BY <1>5 DEF Holds
  <2>2. Holds(next[a], home[a][j])
    BY <2>1 DEF Covers
  <2>3. QED
    BY <2>1, <2>2 DEF Holds, SamePatch
<1>7. QED
  BY <1>6

LEMMA HoldsOwn ==
  ASSUME NEW c PROVE \A i \in DOMAIN c : Holds(c, c[i])
  BY DEF Holds, SamePatch

LEMMA HasHolds ==
  ASSUME NEW c, NEW p, Has(c, p) PROVE Holds(c, p)
  BY DEF Has, Holds, SamePatch

\* A restack that ends leaves each branch where it is or puts it back.
LEMMA SoundSettles ==
  ASSUME NEW home, NEW now, NEW base, NEW there, NEW kept, Sound(home, now, base, there, kept),
         NEW next, \A b \in Branches : next[b] \in {home[b], now[b]},
         NEW sent, \A b \in Branches : sent[b] \in {there[b], now[b]}
  PROVE  Sound(next, next, base, sent, kept)
<1>1. ASSUME NEW b \in Branches PROVE Covers(home[b], next[b]) /\ Covers(next[b], now[b]) /\ Once(next[b])
  BY CoversItself DEF Sound
<1>2. ASSUME NEW d, OwnedBy(home, d) PROVE OwnedBy(next, d)
  BY <1>1, <1>2, OwnedByMore, HoldsOwn
<1>3. ASSUME NEW b \in Branches PROVE OwnedBy(next, next[b])
  <2>1. OwnedBy(home, now[b])
    BY DEF Sound
  <2>2. \A x \in DOMAIN next[b] : Holds(now[b], next[b][x])
    BY <1>1 DEF Covers
  <2>3. QED
    BY <1>1, <2>1, <2>2, OwnedByMore
<1>4. ASSUME NEW b \in Branches PROVE OwnedBy(next, sent[b])
  BY <1>2 DEF Sound
<1>5. ASSUME NEW k \in kept PROVE Covers(k[2], next[k[1]])
  <2>1. k[1] \in Branches /\ Covers(k[2], home[k[1]])
    BY DEF Sound
  <2>2. QED
    BY <1>1, <2>1, CoversAll
<1>6. Once(base) /\ OwnedBy(next, base) /\ kept \in SUBSET (Branches \X Histories)
  BY <1>2 DEF Sound
<1>7. QED
  BY <1>1, <1>3, <1>4, <1>5, <1>6, CoversItself DEF Sound

\* At rest the branches grow by patches of their own.
LEMMA SoundGrows ==
  ASSUME NEW home, NEW base, NEW there, NEW kept, Sound(home, home, base, there, kept),
         NEW next, \A b \in Branches : Once(next[b]) /\ Covers(home[b], next[b]),
         \A b \in Branches : \A x \in DOMAIN next[b] : next[b][x].of # b => Holds(home[b], next[b][x]),
         NEW more \in SUBSET (Branches \X Histories), \A k \in more : k[2] = home[k[1]]
  PROVE  Sound(next, next, base, there, kept \cup more)
<1>1. ASSUME NEW d, OwnedBy(home, d) PROVE OwnedBy(next, d)
  BY <1>1, OwnedByMore, HoldsOwn
<1>2. ASSUME NEW b \in Branches PROVE OwnedBy(next, next[b])
  <2> SUFFICES ASSUME NEW x \in DOMAIN next[b], next[b][x].of \in Branches
               PROVE  Holds(next[next[b][x].of], next[b][x])
    BY DEF OwnedBy
  <2>1. CASE next[b][x].of = b
    BY <2>1, HoldsOwn
  <2>2. CASE next[b][x].of # b
    <3> DEFINE p == next[b][x]
    <3>1. Holds(home[b], p) /\ OwnedBy(home, home[b])
      BY <2>2 DEF Sound
    <3>2. PICK i \in DOMAIN home[b] : SamePatch(home[b][i], p)
      BY <3>1 DEF Holds
    <3>3. home[b][i].of = p.of
      BY <3>2 DEF SamePatch
    <3>4. OwnedBy(next, home[b])
      BY <1>1, <3>1
    <3>5. Holds(next[p.of], home[b][i])
      BY <3>2, <3>3, <3>4 DEF OwnedBy
    <3>6. QED
      BY <3>2, <3>5 DEF Holds, SamePatch
  <2>3. QED
    BY <2>1, <2>2
<1>3. ASSUME NEW b \in Branches PROVE OwnedBy(next, there[b])
  BY <1>1 DEF Sound
<1>4. ASSUME NEW k \in kept \cup more PROVE Covers(k[2], next[k[1]])
  <2>1. CASE k \in kept
    <3>1. k[1] \in Branches /\ Covers(k[2], home[k[1]])
      BY <2>1 DEF Sound
    <3>2. QED
      BY <3>1, CoversAll
  <2>2. CASE k \in more
    <3>1. k[1] \in Branches /\ k[2] = home[k[1]]
      BY <2>2
    <3>2. QED
      BY <3>1
  <2>3. QED
    BY <2>1, <2>2
<1>5. Once(base) /\ OwnedBy(next, base) /\ kept \cup more \in SUBSET (Branches \X Histories)
  BY <1>1 DEF Sound
<1>6. QED
  BY <1>2, <1>3, <1>4, <1>5, CoversItself DEF Sound

LEMMA SoundRebased ==
  ASSUME refs \in [Branches -> Histories], NEW top \in Branches,
         NEW onto \in Histories, NEW upstream \in Histories,
         ~ Clash(onto, refs[top], Todo(refs[top], upstream)),
         NEW home, Sound(home, refs, main, remote, backups),
         Once(onto), OwnedBy(home, onto), Covers(upstream, onto)
  PROVE  Sound(home, Rebased(top, onto, upstream), main, remote, backups)
<1> DEFINE R == Rebased(top, onto, upstream)
<1>1. \A b \in Branches : Once(refs[b])
  BY DEF Sound
<1>2. ASSUME NEW b \in Branches
      PROVE  /\ R[b] \in Histories
             /\ \A x \in DOMAIN R[b] : Has(onto, R[b][x]) \/ Has(refs[b], R[b][x])
             /\ \A x \in DOMAIN refs[b] : Has(R[b], refs[b][x]) \/ Has(upstream, refs[b][x])
             /\ R[b] = refs[b] \/ IsPrefix(onto, R[b])
             /\ Once(R[b])
  BY <1>1, RebasedHolds
<1> HIDE DEF R
<1>3. ASSUME NEW b \in Branches PROVE Covers(refs[b], R[b])
  <2>1. CASE R[b] = refs[b]
    BY <2>1, CoversItself
  <2>2. CASE IsPrefix(onto, R[b])
    <3>1. Covers(onto, R[b])
      BY <1>2, <2>2, PrefixIsCovered
    <3>2. Covers(upstream, R[b])
      BY <3>1, CoversAll
    <3>3. ASSUME NEW x \in DOMAIN refs[b] PROVE Holds(R[b], refs[b][x])
      <4>1. CASE Has(R[b], refs[b][x])
        BY <4>1, HasHolds
      <4>2. CASE Has(upstream, refs[b][x])
        <5>1. PICK y \in DOMAIN upstream : upstream[y] = refs[b][x]
          BY <4>2 DEF Has
        <5>2. QED
          BY <3>2, <5>1 DEF Covers
      <4>3. QED
        BY <1>2, <4>1, <4>2
    <3>4. QED
      BY <3>3 DEF Covers
  <2>3. QED
    BY <1>2, <2>1, <2>2
<1>4. ASSUME NEW b \in Branches PROVE OwnedBy(home, R[b])
  <2>1. OwnedBy(home, refs[b])
    BY DEF Sound
  <2>2. \A x \in DOMAIN R[b] : Holds(onto, R[b][x]) \/ Holds(refs[b], R[b][x])
    BY <1>2, HasHolds
  <2>3. QED
    BY <2>1, <2>2, OwnedByMore, CoversItself
<1>5. \A b \in Branches : Covers(home[b], R[b])
  BY <1>3, CoversAll DEF Sound
<1>6. QED
  BY <1>2, <1>4, <1>5 DEF Sound, R

-----------------------------------------------------------------------------
(* What restack finds in its stack *)

LEMMA BackupsOfIs ==
  ASSUME backups \in SUBSET (Branches \X Histories), NEW b
  PROVE  \A c : c \in BackupsOf(b) <=> b \in Branches /\ c \in Histories /\ <<b, c>> \in backups
<1>1. ASSUME NEW c, c \in BackupsOf(b) PROVE b \in Branches /\ c \in Histories /\ <<b, c>> \in backups
  <2>1. PICK k \in backups : k[1] = b /\ c = k[2]
    BY <1>1 DEF BackupsOf
  <2>2. k = <<k[1], k[2]>> /\ k[1] \in Branches /\ k[2] \in Histories
    BY <2>1
  <2>3. QED
    BY <2>1, <2>2
<1>2. ASSUME NEW c, <<b, c>> \in backups PROVE c \in BackupsOf(b)
  <2> DEFINE k == <<b, c>>
  <2>1. k \in {m \in backups : m[1] = b} /\ c = k[2]
    BY <1>2
  <2>2. QED
    BY <2>1 DEF BackupsOf
<1>3. QED
  BY <1>1, <1>2

\* The longest of some beginnings of a history.
LEMMA LongestIs ==
  ASSUME NEW e \in Histories, NEW S \in SUBSET Histories, S # {}, \A c \in S : IsPrefix(c, e)
  PROVE  Longest(S) \in S /\ \A d \in S : Len(d) <= Len(Longest(S))
<1> DEFINE T == {Len(c) + 1 : c \in S}
<1>1. \A c \in S : Len(c) \in Nat /\ Len(c) <= Len(e)
  BY PlacesOf, PrefixIs
<1>2. Len(e) + 1 \in Nat /\ T \in SUBSET (1..Len(e) + 1) /\ T # {}
  <2>1. Len(e) \in Nat
    BY PlacesOf
  <2>2. QED
    BY <1>1, <2>1
<1>3. PICK x \in T : \A y \in T : y <= x
  <2> HIDE DEF T
  <2>1. QED
    BY <1>2, HighestOf
<1>4. PICK c \in S : x = Len(c) + 1
  BY <1>3
<1>5. \A d \in S : Len(d) <= Len(c)
  <2>1. \A d \in S : Len(d) + 1 <= Len(c) + 1
    BY <1>3, <1>4
  <2>2. QED
    BY <1>1, <1>4, <2>1
<1>6. QED
  BY <1>4, <1>5 DEF Longest

LEMMA OldBaseIs ==
  ASSUME StackInv, HistoriesAreSound, NEW prev \in Branches, NEW cur \in Branches,
         Bases(prev, cur) # {}
  PROVE  /\ OldBase(prev, cur) \in Histories
         /\ OldBase(prev, cur) \in BackupsOf(prev)
         /\ IsPrefix(OldBase(prev, cur), refs[cur])
         /\ \A c \in BackupsOf(prev) : IsPrefix(c, refs[cur]) => Len(c) <= Len(OldBase(prev, cur))
         /\ Covers(OldBase(prev, cur), refs[prev])
<1> DEFINE S == Bases(prev, cur)
<1>1. refs[cur] \in Histories /\ backups \in SUBSET (Branches \X Histories)
  BY DEF StackInv, HistoriesAreKept, HistoriesAreSound, Sound
<1>2. S \in SUBSET Histories /\ \A c \in S : IsPrefix(c, refs[cur])
  BY <1>1, BackupsOfIs DEF Bases
<1>3. \A c : c \in S <=> c \in BackupsOf(prev) /\ IsPrefix(c, refs[cur])
  BY DEF Bases
<1>4. OldBase(prev, cur) \in S /\ \A d \in S : Len(d) <= Len(OldBase(prev, cur))
  <2> HIDE DEF S
  <2>1. QED
    BY <1>1, <1>2, LongestIs DEF OldBase, S
<1>5. ASSUME NEW c \in BackupsOf(prev) PROVE Covers(c, refs[prev])
  <2>1. <<prev, c>> \in backups
    BY <1>1, <1>5, BackupsOfIs
  <2> DEFINE k == <<prev, c>>
  <2>2. Covers(k[2], Home[k[1]])
    BY <2>1 DEF HistoriesAreSound, Sound
  <2>3. Covers(c, Home[prev]) /\ Covers(Home[prev], refs[prev])
    BY <2>2 DEF HistoriesAreSound, Sound
  <2>4. QED
    BY <2>3, CoversAll
<1> HIDE DEF S
<1>6. QED
  BY <1>2, <1>3, <1>4, <1>5

LEMMA LowestIs ==
  ASSUME StackInv, phase # "idle", Broken # {}
  PROVE  /\ Lowest \in Broken /\ \A j \in Broken : Lowest <= j
         /\ Lowest \in 2..Len(run.stack) /\ Lowest - 1 \in 1..Len(run.stack)
         /\ run.stack[Lowest - 1] \in Branches /\ run.stack[Lowest] \in Branches
<1>1. Len(run.stack) \in Nat /\ \A i \in 1..Len(run.stack) : run.stack[i] \in Branches
  BY StackPlaces
<1>2. Broken \in SUBSET (2..Len(run.stack)) /\ Broken \in SUBSET Nat
  BY <1>1 DEF Broken, Breaks
<1>3. \E i \in Broken : \A j \in Broken : i <= j
  BY <1>2, LeastOf
<1>4. Lowest \in Broken /\ \A j \in Broken : Lowest <= j
  BY <1>3 DEF Lowest
<1>5. Lowest \in 2..Len(run.stack)
  BY <1>2, <1>4
<1>6. Lowest - 1 \in 1..Len(run.stack) /\ Lowest \in 1..Len(run.stack)
  BY <1>1, <1>5
<1>7. QED
  BY <1>1, <1>4, <1>5, <1>6

LEMMA HighestIs ==
  ASSUME StackInv, phase # "idle", LiveAt # {}
  PROVE  /\ Highest \in LiveAt /\ \A j \in LiveAt : j <= Highest
         /\ run.stack[Highest] \in Branches
<1>1. /\ Len(run.stack) \in Nat /\ DOMAIN run.stack = 1..Len(run.stack)
      /\ \A i \in 1..Len(run.stack) : run.stack[i] \in Branches
  BY StackPlaces
<1>2. LiveAt \in SUBSET (1..Len(run.stack))
  BY <1>1 DEF LiveAt
<1>3. \E i \in LiveAt : \A j \in LiveAt : j <= i
  BY <1>1, <1>2, HighestOf
<1>4. Highest \in LiveAt /\ \A j \in LiveAt : j <= Highest
  BY <1>3 DEF Highest
<1>5. QED
  BY <1>1, <1>2, <1>4

-----------------------------------------------------------------------------
(* HistoriesAreSound, step by step *)

\* A rebase of the stack onto main, or of what is above a rewritten branch onto it.
LEMMA RebaseIsSound ==
  ASSUME StackInv, HistoriesAreSound, phase = "loop", NEW top \in Branches,
         NEW onto \in Histories, NEW upstream \in Histories,
         Once(onto), OwnedBy(Home, onto), Covers(upstream, onto), Rebase(top, onto, upstream)
  PROVE  HistoriesAreSound'
<1>1. Home = run.before /\ refs \in [Branches -> Histories]
  BY DEF Home, AtRest, StackInv, HistoriesAreKept
<1>2. Sound(run.before, refs, main, remote, backups)
  BY <1>1 DEF HistoriesAreSound
<1>3. CASE /\ ~ Clash(onto, refs[top], Todo(refs[top], upstream))
           /\ refs' = Rebased(top, onto, upstream)
           /\ run' = [run EXCEPT !.tries = @ + 1]
           /\ phase' = IF run.onto THEN "check" ELSE "loop"
           /\ UNCHANGED <<backups, far>>
  <2>1. Home' = run.before
    BY <1>3 DEF Home, AtRest
  <2>2. Sound(run.before, refs', main, remote, backups)
    BY <1>1, <1>2, <1>3, SoundRebased
  <2>3. QED
    BY <1>3, <2>1, <2>2 DEF HistoriesAreSound, far
<1>4. CASE Restore(top, refs) /\ Fail("conflict")
  <2>1. \A b \in Branches : refs'[b] \in {run.before[b], refs[b]}
    BY <1>4 DEF Restore
  <2>2. Home' = refs' /\ UNCHANGED <<main, remote, backups>>
    BY <1>4 DEF Home, AtRest, Fail, far
  <2>3. Sound(refs', refs', main, remote, backups)
    BY <1>2, <2>1, SoundSettles
  <2>4. QED
    BY <2>2, <2>3 DEF HistoriesAreSound
<1>5. QED
  BY <1>3, <1>4 DEF Rebase

LEMMA FailIsSound ==
  ASSUME HistoriesAreSound, phase # "idle", NEW how, Restore(head, refs), Fail(how)
  PROVE  HistoriesAreSound'
<1>1. Sound(run.before, refs, main, remote, backups)
  BY DEF HistoriesAreSound, Home, AtRest
<1>2. \A b \in Branches : refs'[b] \in {run.before[b], refs[b]}
  BY DEF Restore
<1>3. Home' = refs' /\ UNCHANGED <<main, remote, backups>>
  BY DEF Home, AtRest, Fail, far
<1>4. Sound(refs', refs', main, remote, backups)
  BY <1>1, <1>2, SoundSettles
<1>5. QED
  BY <1>3, <1>4 DEF HistoriesAreSound

LEMMA EndIsSound ==
  ASSUME HistoriesAreSound, phase # "idle", phase' = "idle", UNCHANGED <<refs, main, backups>>,
         \A b \in Branches : remote'[b] \in {remote[b], refs[b]}
  PROVE  HistoriesAreSound'
<1>1. Sound(run.before, refs, main, remote, backups)
  BY DEF HistoriesAreSound, Home, AtRest
<1>2. Sound(refs, refs, main, remote', backups)
  BY <1>1, SoundSettles
<1>3. QED
  BY <1>2 DEF HistoriesAreSound, Home, AtRest

LEMMA SameIsSound ==
  ASSUME HistoriesAreSound, Home' = Home, UNCHANGED <<refs, main, remote, backups>>
  PROVE  HistoriesAreSound'
  BY DEF HistoriesAreSound, Sound, Branches

LEMMA RestackIsSound ==
  ASSUME StackInv, HistoriesAreSound,
         RebaseAbove \/ LoopEnds \/ RebaseOnto \/ RebaseLive \/ Check \/ Push \/ PushRefused
  PROVE  HistoriesAreSound'
<1>1. main \in Histories /\ refs \in [Branches -> Histories]
  BY DEF StackInv, HistoriesAreKept
<1>2. Once(main) /\ OwnedBy(Home, main) /\ Covers(main, main)
  BY CoversItself DEF HistoriesAreSound, Sound
<1>3. CASE RebaseAbove
  <2> DEFINE prev == run.stack[Lowest - 1]
             cur  == run.stack[Lowest]
  <2>1. phase = "loop" /\ phase # "idle" /\ Broken # {}
    BY <1>3 DEF RebaseAbove
  <2>2. prev \in Branches /\ cur \in Branches /\ Top \in Branches
    BY <2>1, LowestIs, StackPlaces
  <2>3. \/ Restore(head, refs) /\ Fail("unbased")
        \/ Bases(prev, cur) # {} /\ Rebase(Top, refs[prev], OldBase(prev, cur))
    BY <1>3 DEF RebaseAbove
  <2> HIDE DEF prev, cur
  <2>4. CASE Restore(head, refs) /\ Fail("unbased")
    BY <2>1, <2>4, FailIsSound
  <2>5. CASE Bases(prev, cur) # {} /\ Rebase(Top, refs[prev], OldBase(prev, cur))
    <3>1. OldBase(prev, cur) \in Histories /\ Covers(OldBase(prev, cur), refs[prev])
      BY <2>2, <2>5, OldBaseIs
    <3>2. Once(refs[prev]) /\ OwnedBy(Home, refs[prev]) /\ refs[prev] \in Histories
      BY <1>1, <2>2 DEF HistoriesAreSound, Sound
    <3>3. QED
      BY <2>1, <2>2, <2>5, <3>1, <3>2, RebaseIsSound
  <2>6. QED
    BY <2>3, <2>4, <2>5
<1>4. CASE LoopEnds
  <2>1. UNCHANGED <<refs, main, remote, backups>> /\ Home' = Home
    BY <1>4 DEF LoopEnds, local, far, Home, AtRest
  <2>2. QED
    BY <2>1, SameIsSound
<1>5. CASE RebaseOnto
  <2>1. phase = "loop" /\ phase # "idle" /\ Top \in Branches
    BY <1>5, StackPlaces DEF RebaseOnto
  <2>2. CASE Rebase(Top, main, main)
    BY <1>1, <1>2, <2>1, <2>2, RebaseIsSound
  <2>3. CASE \E landed : /\ run' = [run EXCEPT !.landed = landed]
                         /\ phase' # "idle" /\ UNCHANGED <<local, far>>
    <3>1. UNCHANGED <<refs, main, remote, backups>> /\ phase' # "idle" /\ run'.before = run.before
      BY <2>3 DEF local, far
    <3>2. Home' = Home
      BY <2>1, <3>1 DEF Home, AtRest
    <3>3. QED
      BY <3>1, <3>2, SameIsSound
  <2>4. QED
    BY <1>5, <2>2, <2>3 DEF RebaseOnto
<1>6. CASE RebaseLive
  <2>1. /\ phase = "loop" /\ phase # "idle" /\ LiveAt # {}
        /\ Rebase(run.stack[Highest], main, main)
    BY <1>6 DEF RebaseLive, StackInv, SomeIsLive
  <2>2. run.stack[Highest] \in Branches
    BY <2>1, HighestIs
  <2>3. QED
    BY <1>1, <1>2, <2>1, <2>2, RebaseIsSound
<1>7. CASE Check
  <2>1. phase # "idle"
    BY <1>7 DEF Check
  <2>2. CASE Restore(head, refs) /\ Fail("stuck")
    BY <2>1, <2>2, FailIsSound
  <2>3. CASE phase' = "push" /\ UNCHANGED <<refs, backups, far, run>>
    <3>1. UNCHANGED <<refs, main, remote, backups>> /\ Home' = Home
      BY <2>1, <2>3 DEF far, Home, AtRest
    <3>2. QED
      BY <3>1, SameIsSound
  <2>4. QED
    BY <1>7, <2>2, <2>3 DEF Check
<1>8. CASE Push
  <2>1. /\ phase # "idle" /\ phase' = "idle" /\ UNCHANGED <<refs, main, backups>>
        /\ \A b \in Branches : remote'[b] \in {remote[b], refs[b]}
    BY <1>8 DEF Push, Send, local
  <2>2. QED
    BY <2>1, EndIsSound
<1>9. CASE PushRefused
  <2>1. /\ phase # "idle" /\ phase' = "idle" /\ UNCHANGED <<refs, main, backups>>
        /\ \A b \in Branches : remote'[b] \in {remote[b], refs[b]}
    BY <1>9 DEF PushRefused, Send, local
  <2>2. QED
    BY <2>1, EndIsSound
<1>10. QED
  BY <1>3, <1>4, <1>5, <1>6, <1>7, <1>8, <1>9

LEMMA AppendIs ==
  ASSUME NEW h \in Histories, NEW p \in AnyPatch
  PROVE  LET d == Append(h, p)
         IN  /\ Covers(h, d)
             /\ \A x \in DOMAIN d : d[x] = p \/ Has(h, d[x])
             /\ Once(h) /\ ~ Holds(h, p) => Once(d)
<1> DEFINE d == Append(h, p)
<1>1. d \in Histories /\ IsPrefix(h, d)
  BY PrefixOfLonger
<1>2. /\ Len(h) \in Nat /\ DOMAIN h = 1..Len(h) /\ DOMAIN d = 1..Len(h) + 1
      /\ \A x \in 1..Len(h) : d[x] = h[x]
      /\ d[Len(h) + 1] = p
  <2>1. /\ d \in Seq(AnyPatch) /\ Len(d) = Len(h) + 1
        /\ \A x \in 1..Len(h) : d[x] = h[x]
        /\ d[Len(h) + 1] = p
    BY AppendProperties DEF Histories
  <2> HIDE DEF d
  <2>2. QED
    BY <2>1, LenProperties, PlacesOf DEF Histories
<1> HIDE DEF d
<1>3. \A x : x \in DOMAIN d <=> x \in DOMAIN h \/ x = Len(h) + 1
  BY <1>2
<1>4. Covers(h, d)
  BY <1>1, PrefixIsCovered
<1>5. \A x \in DOMAIN d : d[x] = p \/ Has(h, d[x])
  BY <1>2, <1>3 DEF Has
<1>6. ASSUME Once(h), ~ Holds(h, p), NEW x \in DOMAIN d, NEW y \in DOMAIN d, SamePatch(d[x], d[y])
      PROVE  x = y
  <2>1. CASE x \in DOMAIN h /\ y \in DOMAIN h
    BY <1>2, <1>6, <2>1 DEF Once
  <2>2. CASE x \in DOMAIN h /\ y = Len(h) + 1
    BY <1>2, <1>6, <2>2 DEF Holds
  <2>3. CASE x = Len(h) + 1 /\ y \in DOMAIN h
    BY <1>2, <1>6, <2>3 DEF Holds, SamePatch
  <2>4. QED
    BY <1>3, <1>6, <2>1, <2>2, <2>3
<1>7. Once(h) /\ ~ Holds(h, p) => Once(d)
  BY <1>6 DEF Once
<1>8. QED
  BY <1>4, <1>5, <1>7 DEF d

\* A review fix changes a version and nothing else.
LEMMA NewerIs ==
  ASSUME NEW c \in Histories, NEW i
  PROVE  DOMAIN Newer(c, i) = DOMAIN c /\ \A x \in DOMAIN c : SamePatch(Newer(c, i)[x], c[x])
<1>1. DOMAIN c = 1..Len(c) /\ Len(c) \in Nat /\ \A x \in DOMAIN c : c[x] \in AnyPatch
  BY PlacesOf
<1>2. Newer(c, i) = [c EXCEPT ![i] = [c[i] EXCEPT !.v = @ + 1]]
  BY DEF Newer
<1>3. DOMAIN Newer(c, i) = DOMAIN c /\ \A x \in DOMAIN c :
        Newer(c, i)[x] = IF x = i THEN [c[x] EXCEPT !.v = @ + 1] ELSE c[x]
  BY <1>2
<1>4. \A p \in AnyPatch : SamePatch([p EXCEPT !.v = @ + 1], p)
  BY DEF SamePatch, AnyPatch
<1>5. QED
  BY <1>1, <1>3, <1>4 DEF SamePatch

LEMMA InitIsSound == StackInit => HistoriesAreSound
<1> SUFFICES ASSUME StackInit PROVE HistoriesAreSound
  OBVIOUS
<1>1. N \in Nat /\ Home = refs /\ remote = refs /\ backups = {} /\ main = <<>>
      /\ refs = [b \in Branches |-> Initial(b)]
  BY RestackAssumption DEF StackInit, Home, AtRest, Base
<1>2. ASSUME NEW b \in Branches
      PROVE  DOMAIN refs[b] = 1..b /\ \A x \in 1..b : refs[b][x].of = x
  BY <1>1 DEF Initial, Patch
<1>3. ASSUME NEW b \in Branches PROVE Once(refs[b])
  BY <1>2 DEF Once, SamePatch
<1>4. ASSUME NEW b \in Branches PROVE OwnedBy(refs, refs[b])
  <2> SUFFICES ASSUME NEW x \in 1..b, x \in Branches PROVE Holds(refs[x], refs[b][x])
    BY <1>2 DEF OwnedBy
  <2>1. x \in 1..x /\ x \in DOMAIN refs[x]
    BY <1>2 DEF Branches
  <2>2. refs[x][x] = Patch(x, 1) /\ refs[b][x] = Patch(x, 1)
    BY <1>1, <2>1 DEF Initial
  <2>3. QED
    BY <2>1, <2>2 DEF Holds, SamePatch
<1>5. Once(main) /\ OwnedBy(refs, main)
  BY <1>1 DEF Once, OwnedBy
<1>6. QED
  BY <1>1, <1>3, <1>4, <1>5, CoversItself DEF HistoriesAreSound, Sound

LEMMA CommitIsSound ==
  ASSUME StackInv, HistoriesAreSound, Commit PROVE HistoriesAreSound'
<1> DEFINE p == Patch(head, 2)
<1>1. /\ head \in Branches /\ Home = refs /\ refs \in [Branches -> Histories]
      /\ ~ Holds(refs[head], p) /\ Home' = refs' /\ UNCHANGED <<main, remote, backups>>
      /\ refs' = [refs EXCEPT ![head] = Append(refs[head], p)]
  BY DEF Commit, Idle, AtRest, Home, StackInv, HistoriesAreKept, Branches, far
<1>2. p \in AnyPatch /\ p.of = head
  <2>1. head \in 0..N + 1 /\ 2 \in 1..2 /\ 0 \in Nat
    BY <1>1, RestackAssumption DEF Branches
  <2>2. QED
    BY <2>1 DEF Patch, AnyPatch
<1> HIDE DEF p
<1>3. Sound(refs, refs, main, remote, backups)
  BY <1>1 DEF HistoriesAreSound
<1>4. ASSUME NEW b \in Branches
      PROVE  /\ Once(refs'[b]) /\ Covers(refs[b], refs'[b])
             /\ \A x \in DOMAIN refs'[b] : refs'[b][x].of # b => Holds(refs[b], refs'[b][x])
  <2>1. Once(refs[b]) /\ refs[b] \in Histories
    BY <1>1, <1>3 DEF Sound
  <2>2. CASE b = head
    <3>1. refs'[b] = Append(refs[b], p)
      BY <1>1, <2>2
    <3>2. QED
      BY <1>1, <1>2, <2>1, <2>2, <3>1, AppendIs, HasHolds
  <2>3. CASE b # head
    <3>1. refs'[b] = refs[b]
      BY <1>1, <2>3
    <3>2. QED
      BY <2>1, <3>1, CoversItself, HoldsOwn
  <2>4. QED
    BY <2>2, <2>3
<1>5. Sound(refs', refs', main, remote, backups \cup {})
  BY <1>3, <1>4, SoundGrows
<1>6. backups \cup {} = backups
  OBVIOUS
<1>7. QED
  BY <1>1, <1>5, <1>6 DEF HistoriesAreSound

LEMMA FoldIsSound ==
  ASSUME StackInv, HistoriesAreSound, Fold PROVE HistoriesAreSound'
<1> DEFINE more == {<<b, refs[b]>> : b \in {a \in Branches : InRange(a)}}
<1>1. /\ Home = refs /\ refs \in [Branches -> Histories] /\ Home' = refs'
      /\ UNCHANGED <<main, remote>> /\ backups' = backups \cup more
  BY DEF Fold, Backup, Idle, AtRest, Home, StackInv, HistoriesAreKept, far
<1>2. PICK i : \A b \in Branches : refs'[b] \in {refs[b], Newer(refs[b], i)}
  BY <1>1 DEF Fold
<1>3. Sound(refs, refs, main, remote, backups)
  BY <1>1 DEF HistoriesAreSound
<1>4. ASSUME NEW b \in Branches
      PROVE  /\ Once(refs'[b]) /\ Covers(refs[b], refs'[b])
             /\ \A x \in DOMAIN refs'[b] : refs'[b][x].of # b => Holds(refs[b], refs'[b][x])
  <2>1. Once(refs[b]) /\ refs[b] \in Histories
    BY <1>1, <1>3 DEF Sound
  <2>2. DOMAIN refs'[b] = DOMAIN refs[b] /\ \A x \in DOMAIN refs[b] : SamePatch(refs'[b][x], refs[b][x])
    <3>1. CASE refs'[b] = refs[b]
      BY <3>1 DEF SamePatch
    <3>2. CASE refs'[b] = Newer(refs[b], i)
      BY <2>1, <3>2, NewerIs
    <3>3. QED
      BY <1>2, <3>1, <3>2
  <2>3. QED
    BY <2>1, <2>2 DEF Once, Covers, Holds, SamePatch
<1>5. more \in SUBSET (Branches \X Histories) /\ \A k \in more : k[2] = refs[k[1]]
  BY <1>1
<1> HIDE DEF more
<1>6. Sound(refs', refs', main, remote, backups \cup more)
  BY <1>3, <1>4, <1>5, SoundGrows
<1>7. QED
  BY <1>1, <1>6 DEF HistoriesAreSound

LEMMA StartIsSound ==
  ASSUME StackInv, HistoriesAreSound, StartRestack PROVE HistoriesAreSound'
<1> DEFINE more == {<<b, refs[b]>> : b \in ToSet(run'.stack)}
<1>1. /\ Home = refs /\ refs \in [Branches -> Histories] /\ Home' = refs
      /\ UNCHANGED <<refs, main, remote>> /\ backups' = backups \cup more
  BY DEF StartRestack, Backup, AtRest, Home, StackInv, HistoriesAreKept, far
<1>2. ToSet(run'.stack) \subseteq Branches
  <2>1. run'.stack \in Seq(Branches)
    BY StartStep DEF StackInv, StackIsNamed, Runs, StartRestack
  <2>2. QED
    BY <2>1, LenProperties, ElementOfSeq DEF ToSet
<1>3. Sound(refs, refs, main, remote, backups)
  BY <1>1 DEF HistoriesAreSound
<1>4. more \in SUBSET (Branches \X Histories) /\ \A k \in more : k[2] = refs[k[1]]
  BY <1>1, <1>2
<1>5. ASSUME NEW b \in Branches
      PROVE  /\ Once(refs[b]) /\ Covers(refs[b], refs[b])
             /\ \A x \in DOMAIN refs[b] : refs[b][x].of # b => Holds(refs[b], refs[b][x])
  BY <1>3, CoversItself, HoldsOwn DEF Sound
<1> HIDE DEF more
<1>6. Sound(refs, refs, main, remote, backups \cup more)
  BY <1>3, <1>4, <1>5, SoundGrows
<1>7. Home' = refs /\ refs' = refs /\ main' = main /\ remote' = remote /\ backups' = backups \cup more
  BY <1>1
<1>8. QED
  BY <1>6, <1>7 DEF HistoriesAreSound

\* What lands is of others, or it was at the remote.
LEMMA LandHolds ==
  ASSUME StackInv, Once(main), Land \/ OthersLand
  PROVE  /\ Once(main')
         /\ \A x \in DOMAIN main' :
              main'[x] = Patch(0, 1) \/ Has(main, main'[x]) \/ Has(remote[1], main'[x])
<1> DEFINE p == Patch(0, 1)
<1>1. main \in Histories /\ remote[1] \in Histories /\ 1 \in Branches
  BY RestackAssumption DEF StackInv, HistoriesAreKept, Branches
<1>2. p \in AnyPatch
  <2>1. 0 \in 0..N + 1 /\ 1 \in 1..2
    BY RestackAssumption
  <2>2. QED
    BY <2>1 DEF Patch, AnyPatch
<1>3. CASE OthersLand
  <2>1. main' = Append(main, p) /\ ~ Holds(main, p)
    BY <1>3 DEF OthersLand
  <2> HIDE DEF p
  <2>2. QED
    BY <1>1, <1>2, <2>1, AppendIs DEF p
<1>4. CASE Land
  <2>1. PICK other \in {<<>>, <<p>>} : main' = Apply(main \o other, remote[1], DOMAIN remote[1])
    BY <1>4 DEF Land
  <2>2. Once(main')
    BY <1>4 DEF Land, Once
  <2> HIDE DEF p
  <2> DEFINE m == main \o other
  <2>3. m \in Histories /\ \A x \in DOMAIN m : m[x] = p \/ Has(main, m[x])
    <3>1. other \in Seq(AnyPatch) /\ \A x \in 1..Len(other) : other[x] = p
      <4>1. CASE other = <<>>
        BY <4>1, EmptySeq
      <4>2. CASE other = <<p>>
        BY <1>2, <4>2
      <4>3. QED
        BY <2>1, <4>1, <4>2
    <3>2. /\ m \in Seq(AnyPatch) /\ Len(m) = Len(main) + Len(other)
          /\ \A x \in 1..Len(main) + Len(other) :
               m[x] = IF x <= Len(main) THEN main[x] ELSE other[x - Len(main)]
      <4>1. main \in Seq(AnyPatch)
        BY <1>1 DEF Histories
      <4>2. QED
        BY <3>1, <4>1, ConcatProperties
    <3> HIDE DEF m
    <3>3. Len(main) \in Nat /\ Len(other) \in Nat /\ DOMAIN main = 1..Len(main)
          /\ DOMAIN m = 1..Len(main) + Len(other)
      BY <1>1, <3>1, <3>2, LenProperties, PlacesOf DEF Histories
    <3>4. ASSUME NEW x \in DOMAIN m PROVE m[x] = p \/ Has(main, m[x])
      <4>1. CASE x <= Len(main)
        BY <3>2, <3>3, <4>1 DEF Has
      <4>2. CASE ~ (x <= Len(main))
        <5>1. x - Len(main) \in 1..Len(other)
          BY <3>3, <4>2
        <5>2. QED
          BY <3>1, <3>2, <3>3, <4>2, <5>1
      <4>3. QED
        BY <4>1, <4>2
    <3>5. QED
      BY <3>2, <3>4 DEF Histories
  <2> HIDE DEF m
  <2>4. Applied(main', m, remote[1], DOMAIN remote[1], Len(remote[1]))
    BY <1>1, <2>1, <2>3, ApplyIs DEF m
  <2>5. ASSUME NEW x \in DOMAIN main'
        PROVE  main'[x] = p \/ Has(main, main'[x]) \/ Has(remote[1], main'[x])
    <3>1. CASE Has(m, main'[x])
      BY <2>3, <3>1 DEF Has
    <3>2. CASE \E j \in DOMAIN remote[1] : main'[x] = remote[1][j]
      BY <3>2 DEF Has
    <3>3. QED
      BY <2>4, <3>1, <3>2 DEF Applied
  <2>6. QED
    BY <2>2, <2>5 DEF p
<1>5. QED
  BY <1>3, <1>4

LEMMA LandIsSound ==
  ASSUME StackInv, HistoriesAreSound, Land \/ OthersLand PROVE HistoriesAreSound'
<1> DEFINE p == Patch(0, 1)
<1>1. Home = refs /\ Home' = refs /\ UNCHANGED <<refs, remote, backups>> /\ 1 \in Branches
  BY RestackAssumption
     DEF Land, OthersLand, Idle, AtRest, Home, StackInv, HistoriesAreKept, local, Branches
<1>2. p.of \notin Branches
  BY RestackAssumption DEF Patch, Branches
<1>3. Sound(refs, refs, main, remote, backups)
  BY <1>1 DEF HistoriesAreSound
<1>4. Once(main) /\ OwnedBy(refs, main) /\ OwnedBy(refs, remote[1])
  BY <1>1, <1>3 DEF Sound
<1>5. /\ Once(main')
      /\ \A x \in DOMAIN main' : main'[x] = p \/ Has(main, main'[x]) \/ Has(remote[1], main'[x])
  BY <1>4, LandHolds
<1> HIDE DEF p
<1>6. OwnedBy(refs, main')
  <2>1. \A x \in DOMAIN main' : main'[x].of \in Branches => \E c : OwnedBy(refs, c) /\ Holds(c, main'[x])
    BY <1>2, <1>4, <1>5, HasHolds
  <2>2. QED
    BY <2>1, OwnedByMore, CoversItself
<1>7. Sound(refs, refs, main', remote, backups)
  BY <1>3, <1>5, <1>6 DEF Sound
<1>8. QED
  BY <1>1, <1>7 DEF HistoriesAreSound

LEMMA OthersPushIsSound ==
  ASSUME StackInv, HistoriesAreSound, OthersPush PROVE HistoriesAreSound'
<1> DEFINE p == Patch(N + 1, 1)
<1>1. /\ Home = refs /\ Home' = refs /\ UNCHANGED <<refs, main, backups>>
      /\ remote \in [Branches -> Histories]
  BY DEF OthersPush, AtRest, Home, StackInv, HistoriesAreKept, local
<1>2. p \in AnyPatch /\ p.of \notin Branches
  <2>1. N + 1 \in 0..N + 1 /\ 1 \in 1..2 /\ N + 1 \notin 1..N
    BY RestackAssumption
  <2>2. QED
    BY <2>1 DEF Patch, AnyPatch, Branches
<1>3. PICK a \in Branches : remote' = [remote EXCEPT ![a] = Append(remote[a], p)]
  BY DEF OthersPush
<1> HIDE DEF p
<1>4. Sound(refs, refs, main, remote, backups)
  BY <1>1 DEF HistoriesAreSound
<1>5. ASSUME NEW b \in Branches PROVE OwnedBy(refs, remote'[b])
  <2>1. OwnedBy(refs, remote[b]) /\ remote[b] \in Histories
    BY <1>1, <1>4 DEF Sound
  <2>2. \A x \in DOMAIN remote'[b] : remote'[b][x] = p \/ Has(remote[b], remote'[b][x])
    <3>1. CASE b = a
      <4>1. remote'[b] = Append(remote[b], p)
        BY <1>1, <1>3, <3>1
      <4>2. QED
        BY <1>2, <2>1, <4>1, AppendIs
    <3>2. CASE b # a
      <4>1. remote'[b] = remote[b]
        BY <1>1, <1>3, <3>2
      <4>2. QED
        BY <4>1 DEF Has
    <3>3. QED
      BY <3>1, <3>2
  <2>3. \A x \in DOMAIN remote'[b] : remote'[b][x].of \in Branches =>
           \E c : OwnedBy(refs, c) /\ Holds(c, remote'[b][x])
    BY <1>2, <2>1, <2>2, HasHolds
  <2>4. QED
    BY <2>3, OwnedByMore, CoversItself
<1>6. Sound(refs, refs, main, remote', backups)
  BY <1>4, <1>5 DEF Sound
<1>7. QED
  BY <1>1, <1>6 DEF HistoriesAreSound

LEMMA NextIsSound ==
  ASSUME StackInv, HistoriesAreSound, [StackNext]_stackVars PROVE HistoriesAreSound'
<1>1. CASE Switch \/ Fetch
  <2>1. Home' = Home /\ UNCHANGED <<refs, main, remote, backups>>
    BY <1>1 DEF Switch, Fetch, Idle, AtRest, Home, local, far
  <2>2. QED
    BY <2>1, SameIsSound
<1>2. CASE UNCHANGED stackVars
  <2>1. Home' = Home /\ UNCHANGED <<refs, main, remote, backups>>
    BY <1>2 DEF stackVars, local, far, Home, AtRest
  <2>2. QED
    BY <2>1, SameIsSound
<1>3. QED
  BY <1>1, <1>2, CommitIsSound, FoldIsSound, StartIsSound, LandIsSound, OthersPushIsSound,
     RestackIsSound DEF StackNext

-----------------------------------------------------------------------------
(* From the neighbours of the stack to all of it *)

LEMMA ChainOf ==
  ASSUME StackInv, phase # "idle", NEW at, \A b \in Branches : at[b] \in Histories,
         NEW i \in DOMAIN run.stack, NEW j \in DOMAIN run.stack, i <= j,
         \A k \in Breaks(at) : ~ (i < k /\ k <= j)
  PROVE  IsPrefix(at[run.stack[i]], at[run.stack[j]])
<1> DEFINE s == run.stack
           Bad == {m \in i..j : ~ IsPrefix(at[s[i]], at[s[m]])}
<1>1. Len(s) \in Nat /\ DOMAIN s = 1..Len(s) /\ \A m \in 1..Len(s) : at[s[m]] \in Histories
  BY StackPlaces
<1>2. Bad = {}
  <2> SUFFICES ASSUME Bad # {} PROVE FALSE
    OBVIOUS
  <2>1. PICK m \in Bad : \A k \in Bad : m <= k
    <3>1. Bad \in SUBSET Nat
      BY <1>1
    <3> HIDE DEF Bad
    <3>2. QED
      BY <3>1, LeastOf
  <2>2. m \in i..j /\ ~ IsPrefix(at[s[i]], at[s[m]])
    OBVIOUS
  <2>3. m # i
    BY <1>1, <2>2, PrefixOfItself
  <2>4. m - 1 \in i..j /\ ~ (m <= m - 1) /\ m \in 2..Len(s) /\ m - 1 \in 1..Len(s) /\ i < m /\ m <= j
    BY <1>1, <2>2, <2>3
  <2>5. m - 1 \notin Bad
    <3> HIDE DEF Bad
    <3>1. QED
      BY <2>1, <2>4
  <2>6. IsPrefix(at[s[i]], at[s[m - 1]])
    BY <2>4, <2>5
  <2>7. IsPrefix(at[s[m - 1]], at[s[m]])
    BY <2>4 DEF Breaks
  <2>8. IsPrefix(at[s[i]], at[s[m]])
    BY <1>1, <2>4, <2>6, <2>7, PrefixOfPrefix
  <2>9. QED
    BY <2>2, <2>8
<1>3. j \in i..j
  BY <1>1
<1>4. QED
  BY <1>2, <1>3

LEMMA LiveChain ==
  ASSUME StackInv, phase # "idle", Linear, NEW i \in LiveAt, NEW j \in LiveAt, i <= j
  PROVE  IsPrefix(refs[run.stack[i]], refs[run.stack[j]])
<1> DEFINE s == run.stack
           Bad == {m \in LiveAt : i <= m /\ ~ IsPrefix(refs[s[i]], refs[s[m]])}
<1>1. /\ Len(s) \in Nat /\ LiveAt \in SUBSET (1..Len(s))
      /\ \A m \in LiveAt : refs[s[m]] \in Histories
  BY StackPlaces DEF LiveAt, StackInv, HistoriesAreKept
<1>2. Bad = {}
  <2> SUFFICES ASSUME Bad # {} PROVE FALSE
    OBVIOUS
  <2>1. PICK m \in Bad : \A k \in Bad : m <= k
    <3>1. Bad \subseteq LiveAt
      OBVIOUS
    <3>2. Bad \in SUBSET Nat
      <4> HIDE DEF Bad
      <4>1. QED
        BY <1>1, <3>1
    <3> HIDE DEF Bad
    <3>3. QED
      BY <3>2, LeastOf
  <2>2. m \in LiveAt /\ i <= m /\ ~ IsPrefix(refs[s[i]], refs[s[m]])
    OBVIOUS
  <2>3. m # i
    BY <1>1, <2>2, PrefixOfItself
  <2> DEFINE P == {k \in LiveAt : k < m}
  <2>4. PICK k \in P : \A l \in P : l <= k
    <3>1. i < m
      BY <1>1, <2>2, <2>3
    <3>2. P # {} /\ P \in SUBSET (1..Len(s))
      BY <1>1, <3>1
    <3> HIDE DEF P
    <3>3. QED
      BY <1>1, <3>2, HighestOf
  <2>5. k \in LiveAt /\ k < m /\ i <= k
    <3>1. i \in P
      BY <1>1, <2>2, <2>3
    <3>2. i <= k
      <4> HIDE DEF P
      <4>1. QED
        BY <2>4, <3>1
    <3>3. QED
      BY <3>2
  <2>6. ASSUME NEW l \in LiveAt, l \in k + 1..m - 1 PROVE FALSE
    <3>1. l \in P /\ ~ (l <= k)
      BY <1>1, <2>2, <2>5, <2>6
    <3> HIDE DEF P
    <3>2. QED
      BY <2>4, <3>1
  <2>7. IsPrefix(refs[s[k]], refs[s[m]])
    BY <2>2, <2>5, <2>6 DEF Linear
  <2>8. k \notin Bad
    <3>1. ~ (m <= k)
      BY <1>1, <2>2, <2>5
    <3> HIDE DEF Bad, P
    <3>2. QED
      BY <2>1, <3>1
  <2>9. IsPrefix(refs[s[i]], refs[s[k]])
    BY <2>5, <2>8
  <2>10. QED
    BY <1>1, <2>2, <2>5, <2>7, <2>9, PrefixOfPrefix
<1>3. QED
  BY <1>2

\* Without landed branches, a stack that is nowhere broken is linear.
LEMMA UnbrokenIsLinear ==
  ASSUME StackInv, phase # "idle", run.landed = {}, Broken = {} PROVE Linear
<1>1. /\ Len(run.stack) \in Nat /\ DOMAIN run.stack = 1..Len(run.stack)
      /\ LiveAt = 1..Len(run.stack)
  BY StackPlaces DEF LiveAt
<1>2. ASSUME NEW i \in LiveAt, NEW j \in LiveAt, i < j, (i + 1..j - 1) \cap LiveAt = {}
      PROVE  IsPrefix(refs[run.stack[i]], refs[run.stack[j]])
  <2>1. j = i + 1
    <3>1. i \in Nat /\ j \in Nat /\ i + 1 \in LiveAt
      BY <1>1, <1>2
    <3>2. i + 1 \notin i + 1..j - 1
      BY <1>2, <3>1
    <3>3. QED
      BY <1>2, <3>1, <3>2
  <2>2. j \in 2..Len(run.stack) /\ j - 1 = i
    BY <1>1, <2>1
  <2>3. QED
    BY <2>2 DEF Broken, Breaks
<1>3. QED
  BY <1>2 DEF Linear

-----------------------------------------------------------------------------
(* What holds while restack runs *)

\* Nothing has moved before the first rebase.
NoneHasMoved == run.tries = 0 => refs = run.before

\* A rebase drops no patch from the branch that it is of, in the version it has.
OwnPatchesStay ==
  \A b \in Branches : OnStack(b) /\ (run.onto \/ OwnsItsPatches(b)) =>
    \A x \in DOMAIN run.before[b] : run.before[b][x].of = b => Has(refs[b], run.before[b][x])

\* One rebase mends a stack that is broken in one place.
OneIsEnough ==
  ~ run.onto /\ Layered /\ BrokenOnce /\ (run.tries > 0 \/ phase # "loop") => Broken = {}

\* The landed branches, and what the others still have of them, are in main.
LandedIsInMain ==
  /\ ~ run.onto => run.landed = {}
  /\ phase = "loop" => \A a \in run.landed : \A x \in DOMAIN refs[a] : Has(main, refs[a][x])
  /\ phase # "loop" /\ LiveAt # {} =>
       LET t == refs[run.stack[Highest]]
       IN  \A x \in DOMAIN t : t[x].of \in run.landed => Has(main, t[x])

Underway ==
  /\ outcome = "none"
  /\ NoneHasMoved
  /\ OwnPatchesStay
  /\ OneIsEnough
  /\ LandedIsInMain
  /\ phase = "push" => Linear

RunInv == phase # "idle" => Underway

-----------------------------------------------------------------------------
(* One rebase mends one break *)

\* Above the old base everything is replayed: no patch of it is in the history twice.
LEMMA TodoAbove ==
  ASSUME NEW c \in Histories, NEW o \in Histories, IsPrefix(o, c), Once(c)
  PROVE  Todo(c, o) = Len(o) + 1..Len(c)
<1>1. /\ Len(c) \in Nat /\ Len(o) \in Nat /\ DOMAIN o = 1..Len(o) /\ DOMAIN c = 1..Len(c)
      /\ Len(o) <= Len(c) /\ \A i \in 1..Len(o) : o[i] = c[i]
  BY PlacesOf, PrefixIs
<1>2. ASSUME NEW i \in Len(o) + 1..Len(c), Has(o, c[i]) PROVE FALSE
  <2>1. PICK j \in DOMAIN o : o[j] = c[i]
    BY <1>2 DEF Has
  <2>2. i \in DOMAIN c /\ j \in DOMAIN c /\ c[j] = c[i] /\ j # i
    BY <1>1, <2>1
  <2>3. QED
    BY <2>2 DEF Once, SamePatch
<1>3. Fork(c, o) = Len(o)
  BY ForkOfPrefix
<1>4. QED
  BY <1>2, <1>3 DEF Todo

LEMMA OneRebaseMends ==
  ASSUME StackInv, HistoriesAreSound, Underway, phase = "loop", ~ run.onto,
         Layered, BrokenOnce, Broken # {},
         NEW prev, prev = run.stack[Lowest - 1], NEW cur, cur = run.stack[Lowest],
         Bases(prev, cur) # {}
  PROVE  Breaks(Rebased(Top, refs[prev], OldBase(prev, cur))) = {}
<1> DEFINE s == run.stack
           n == Len(s)
           l == Lowest
           c == refs[Top]
           o == OldBase(prev, cur)
           R == Rebased(Top, refs[prev], o)
<1>1. /\ n \in Nat /\ DOMAIN s = 1..n /\ n # 0
      /\ \A i \in 1..n : s[i] \in Branches /\ refs[s[i]] \in Histories
      /\ Top \in Branches /\ Top = s[n] /\ c \in Histories
  BY StackPlaces DEF StackInv, HistoriesAreKept, Top
<1>2. /\ l \in Broken /\ (\A k \in Broken : l <= k) /\ l \in 2..n /\ l - 1 \in 1..n
      /\ prev \in Branches /\ cur \in Branches
  BY LowestIs
<1>3. refs = run.before
  <2>1. run.tries \in Nat /\ ~ (run.tries > 0)
    BY DEF Underway, OneIsEnough, StackInv, StackIsNamed, Runs
  <2>2. QED
    BY <2>1 DEF Underway, NoneHasMoved
<1>4. \A k \in Broken : k = l
  BY <1>2, <1>3 DEF BrokenOnce, Broken
<1>5. ASSUME NEW i \in 1..n PROVE refs[s[i]] \in BackupsOf(s[i])
  <2>1. OnStack(s[i])
    BY <1>1 DEF OnStack, ToSet
  <2>2. <<s[i], refs[s[i]]>> \in backups
    BY <1>1, <1>3, <2>1 DEF StackInv, StackIsBackedUp
  <2>3. QED
    BY <1>1, <2>2, BackupsOfIs DEF HistoriesAreSound, Sound
<1>6. /\ o \in Histories /\ o \in BackupsOf(prev) /\ IsPrefix(o, refs[cur])
  BY <1>2, OldBaseIs
<1> HIDE DEF o, R, l
<1>7. \A i, j \in 1..n : i < j => ~ IsPrefix(refs[s[j]], refs[s[i]])
  BY <1>1, <1>5 DEF Layered
<1>8. \A j \in 1..n : l - 1 < j => ~ IsPrefix(refs[s[j]], o)
  BY <1>1, <1>2, <1>5, <1>6 DEF Layered, l
<1>9. \A j \in 1..n : j < l - 1 => ~ IsPrefix(o, refs[s[j]])
  BY <1>1, <1>2, <1>5, <1>6 DEF Layered, l
<1>10. ASSUME NEW i \in 1..n, NEW j \in 1..n, i <= j, ~ (i < l /\ l <= j)
       PROVE  IsPrefix(refs[s[i]], refs[s[j]])
  <2>1. \A k \in Breaks(refs) : ~ (i < k /\ k <= j)
    BY <1>4, <1>10 DEF Broken
  <2>2. phase # "idle" /\ \A b \in Branches : refs[b] \in Histories
    BY DEF StackInv, HistoriesAreKept
  <2>3. i \in DOMAIN run.stack /\ j \in DOMAIN run.stack
    BY <1>1
  <2>4. QED
    BY <1>10, <2>1, <2>2, <2>3, ChainOf
<1>11. l \in 1..n /\ n \in 1..n /\ cur = s[l] /\ prev = s[l - 1] /\ refs[cur] \in Histories
       /\ refs[prev] \in Histories
  BY <1>1, <1>2 DEF l
<1>12. IsPrefix(refs[cur], c) /\ IsPrefix(o, c)
  <2>1. IsPrefix(refs[cur], c)
    BY <1>1, <1>2, <1>10, <1>11
  <2>2. QED
    BY <1>1, <1>6, <1>11, <2>1, PrefixOfPrefix
<1>13. Todo(c, o) = Len(o) + 1..Len(c)
  <2>1. Once(c)
    BY <1>1 DEF HistoriesAreSound, Sound
  <2>2. QED
    BY <1>1, <1>6, <1>12, <2>1, TodoAbove
<1>14. Len(o) \in Nat /\ Len(c) \in Nat /\ \A i \in 1..n : Len(refs[s[i]]) \in Nat
  BY <1>1, <1>6, PlacesOf
<1> HIDE DEF c
<1>15. ASSUME NEW i \in 1..n
       PROVE  \/ s[i] # Top /\ R[s[i]] = refs[s[i]] /\ (~ IsPrefix(refs[s[i]], c) \/ Len(refs[s[i]]) \notin Todo(c, o))
              \/ /\ s[i] = Top \/ Len(refs[s[i]]) \in Todo(c, o)
                 /\ IsPrefix(refs[s[i]], c)
                 /\ R[s[i]] = Apply(refs[prev], c, Part(c, o, Len(refs[s[i]])))
  BY <1>1, <1>6, RebasedIs DEF StackInv, HistoriesAreKept, R, c
\* What is above the break is replayed.
<1>16. ASSUME NEW j \in 1..n, l <= j
       PROVE  /\ IsPrefix(refs[s[j]], c)
              /\ R[s[j]] = Apply(refs[prev], c, Part(c, o, Len(refs[s[j]])))
  <2>1. IsPrefix(refs[s[j]], c)
    BY <1>1, <1>2, <1>10, <1>11, <1>16 DEF c
  <2>2. Len(refs[s[j]]) \in Todo(c, o)
    <3>1. ~ (Len(refs[s[j]]) <= Len(o))
      <4>1. SUFFICES ASSUME Len(refs[s[j]]) <= Len(o) PROVE FALSE
        OBVIOUS
      <4>2. IsPrefix(refs[s[j]], o)
        BY <1>1, <1>6, <1>12, <2>1, <4>1, PrefixesOfOne DEF c
      <4>3. l - 1 < j
        BY <1>2, <1>16 DEF l
      <4>4. QED
        BY <1>8, <4>2, <4>3
    <3>2. Len(refs[s[j]]) <= Len(c)
      BY <1>1, <2>1, PrefixIs DEF c
    <3>3. QED
      BY <1>13, <1>14, <3>1, <3>2
  <2>3. QED
    BY <1>15, <2>1, <2>2
\* What is below the break stays.
<1>17. ASSUME NEW j \in 1..n, j < l
       PROVE  R[s[j]] = refs[s[j]]
  <2> SUFFICES ASSUME IsPrefix(refs[s[j]], c), s[j] = Top \/ Len(refs[s[j]]) \in Todo(c, o)
               PROVE  FALSE
    BY <1>15
  <2>1. Len(refs[s[j]]) > Len(o)
    <3>1. CASE s[j] = Top
      <4>1. j < n
        BY <1>1, <1>2, <1>17 DEF l
      <4>2. IsPrefix(refs[s[n]], refs[s[j]])
        BY <1>1, <1>11, <3>1, PrefixOfItself
      <4>3. QED
        BY <1>7, <1>11, <4>1, <4>2
    <3>2. CASE Len(refs[s[j]]) \in Todo(c, o)
      BY <1>13, <1>14, <3>2
    <3>3. QED
      BY <3>1, <3>2
  <2>2. ~ IsPrefix(refs[cur], refs[s[j]])
    BY <1>7, <1>11, <1>17
  <2>3. Len(refs[s[j]]) <= Len(refs[cur])
    <3>1. SUFFICES ASSUME Len(refs[cur]) <= Len(refs[s[j]]) PROVE FALSE
      BY <1>11, <1>14
    <3>2. IsPrefix(refs[cur], refs[s[j]])
      BY <1>1, <1>11, <1>12, <3>1, PrefixesOfOne DEF c
    <3>3. QED
      BY <2>2, <3>2
  <2>4. IsPrefix(refs[s[j]], refs[cur])
    BY <1>1, <1>11, <1>12, <2>3, PrefixesOfOne DEF c
  <2>5. IsPrefix(o, refs[s[j]])
    <3>1. Len(o) <= Len(refs[s[j]])
      BY <1>14, <2>1
    <3>2. QED
      BY <1>1, <1>6, <1>12, <3>1, PrefixesOfOne DEF c
  <2>6. j = l - 1
    BY <1>1, <1>2, <1>9, <1>17, <2>5 DEF l
  <2>7. l \notin Broken
    BY <1>1, <1>11, <2>4, <2>6 DEF Broken, Breaks, l
  <2>8. QED
    BY <1>2, <2>7 DEF l
<1>18. ASSUME NEW k \in 2..n PROVE IsPrefix(R[s[k - 1]], R[s[k]])
  <2>1. k \in 1..n /\ k - 1 \in 1..n
    BY <1>1
  <2>2. CASE k < l
    <3>1. k - 1 < l /\ R[s[k - 1]] = refs[s[k - 1]] /\ R[s[k]] = refs[s[k]]
      BY <1>1, <1>2, <1>17, <2>1, <2>2 DEF l
    <3>2. IsPrefix(refs[s[k - 1]], refs[s[k]])
      BY <1>1, <1>2, <1>10, <2>1, <2>2 DEF l
    <3>3. QED
      BY <3>1, <3>2
  <2>3. CASE k = l
    <3>1. k - 1 < l
      BY <1>1, <2>3
    <3>2. R[s[k - 1]] = refs[prev]
      BY <1>11, <1>17, <2>1, <2>3, <3>1
    <3>3. R[s[k]] = Apply(refs[prev], c, Part(c, o, Len(refs[s[k]])))
      BY <1>1, <1>16, <2>1, <2>3
    <3>4. IsPrefix(refs[prev], Apply(refs[prev], c, Part(c, o, Len(refs[s[k]]))))
      BY <1>1, <1>11, ApplyIs DEF Applied, c
    <3>5. QED
      BY <3>2, <3>3, <3>4
  <2>4. CASE l < k
    <3> DEFINE a == Len(refs[s[k - 1]])
               b == Len(refs[s[k]])
    <3>1. l <= k - 1 /\ l <= k
      BY <1>1, <1>2, <2>4 DEF l
    <3>2. R[s[k - 1]] = Apply(refs[prev], c, Part(c, o, a)) /\ IsPrefix(refs[s[k - 1]], c)
      BY <1>16, <2>1, <3>1
    <3>3. R[s[k]] = Apply(refs[prev], c, Part(c, o, b))
      BY <1>16, <2>1, <3>1
    <3>4. a \in Nat /\ b \in Nat /\ a <= b /\ a <= Len(c)
      <4>1. IsPrefix(refs[s[k - 1]], refs[s[k]])
        BY <1>1, <1>2, <1>10, <2>1, <3>1 DEF l
      <4>2. a <= b /\ a <= Len(c)
        BY <1>1, <2>1, <3>2, <4>1, PrefixIs DEF c
      <4>3. QED
        BY <1>14, <2>1, <4>2
    <3> HIDE DEF a, b
    <3>5. Part(c, o, a) = {i \in Part(c, o, b) : i <= a}
      <4>1. \A i \in Todo(c, o) : i <= a => i <= b
        BY <1>13, <1>14, <3>4
      <4>2. QED
        BY <4>1 DEF Part
    <3> DEFINE P == Part(c, o, b)
    <3> HIDE DEF P
    <3>6. IsPrefix(Apply(refs[prev], c, {i \in P : i <= a}), Apply(refs[prev], c, P))
      BY <1>1, <1>11, <3>4, ApplyInPart DEF c
    <3>7. QED
      BY <3>2, <3>3, <3>5, <3>6 DEF P
  <2>5. QED
    BY <1>1, <1>2, <2>2, <2>3, <2>4 DEF l
<1>19. QED
  BY <1>18 DEF Breaks, R, o

-----------------------------------------------------------------------------
(* RunInv, step by step *)

\* What was named when restack began stays.
LEMMA SameRun ==
  ASSUME UNCHANGED backups, run'.stack = run.stack, run'.before = run.before
  PROVE  /\ Layered' <=> Layered
         /\ BrokenOnce' <=> BrokenOnce
         /\ \A b : OnStack(b)' <=> OnStack(b)
         /\ \A b : OwnsItsPatches(b)' <=> OwnsItsPatches(b)
<1>1. \A b : BackupsOf(b)' = BackupsOf(b)
  BY DEF BackupsOf
<1>2. Layered' <=> Layered
  BY <1>1 DEF Layered
<1>3. BrokenOnce' <=> BrokenOnce
  BY DEF BrokenOnce, Breaks
<1>4. \A b : OnStack(b)' <=> OnStack(b)
  BY DEF OnStack
<1>5. \A b : OwnsItsPatches(b)' <=> OwnsItsPatches(b)
  BY <1>1 DEF OwnsItsPatches
<1>6. QED
  BY <1>2, <1>3, <1>4, <1>5

LEMMA StartRuns ==
  ASSUME StackInv, StartRestack PROVE RunInv'
<1>1. /\ phase' = "loop" /\ outcome' = "none" /\ refs' = refs
      /\ run'.before = refs /\ run'.tries = 0 /\ run'.landed = {}
  BY DEF StartRestack
<1>2. NoneHasMoved' /\ LandedIsInMain'
  BY <1>1 DEF NoneHasMoved, LandedIsInMain
<1>3. OneIsEnough'
  BY <1>1 DEF OneIsEnough
<1>4. OwnPatchesStay'
  BY <1>1 DEF OwnPatchesStay, Has
<1>5. QED
  BY <1>1, <1>2, <1>3, <1>4 DEF RunInv, Underway

\* A patch that the rebase drops as one of upstream is there again with onto.
LEMMA RebaseKeepsOwn ==
  ASSUME refs \in [Branches -> Histories], OwnPatchesStay,
         NEW top \in Branches, NEW onto \in Histories, NEW upstream \in Histories,
         \A b \in Branches : OnStack(b) /\ (run.onto \/ OwnsItsPatches(b)) =>
           \A x \in DOMAIN run.before[b] :
             run.before[b][x].of = b /\ Has(refs[b], run.before[b][x]) /\ Has(upstream, run.before[b][x])
               => Has(onto, run.before[b][x]),
         refs' = Rebased(top, onto, upstream), UNCHANGED backups, run' = [run EXCEPT !.tries = @ + 1],
         run \in Runs
  PROVE  OwnPatchesStay'
<1>1. run'.stack = run.stack /\ run'.before = run.before /\ run'.onto = run.onto
  BY DEF Runs
<1>2. ASSUME NEW b \in Branches, OnStack(b), run.onto \/ OwnsItsPatches(b),
             NEW x \in DOMAIN run.before[b], run.before[b][x].of = b
      PROVE  Has(refs'[b], run.before[b][x])
  <2> DEFINE p == run.before[b][x]
             r == Rebased(top, onto, upstream)[b]
  <2>1. Has(refs[b], p)
    BY <1>2 DEF OwnPatchesStay
  <2>2. PICK y \in DOMAIN refs[b] : refs[b][y] = p
    BY <2>1 DEF Has
  <2>3. /\ Has(r, refs[b][y]) \/ Has(upstream, refs[b][y])
        /\ r = refs[b] \/ IsPrefix(onto, r)
        /\ r \in Histories
    BY RebasedHolds
  <2>4. Has(upstream, p) => Has(onto, p)
    BY <1>2, <2>1
  <2> HIDE DEF p, r
  <2>5. IsPrefix(onto, r) /\ Has(onto, p) => Has(r, p)
    <3> SUFFICES ASSUME IsPrefix(onto, r), Has(onto, p) PROVE Has(r, p)
      OBVIOUS
    <3>1. PICK z \in DOMAIN onto : onto[z] = p
      BY DEF Has
    <3>2. QED
      BY <2>3, <3>1, PrefixIsCovered
  <2>6. Has(r, p)
    BY <2>1, <2>2, <2>3, <2>4, <2>5
  <2>7. QED
    BY <2>6 DEF p, r
<1>3. QED
  BY <1>1, <1>2, SameRun DEF OwnPatchesStay

LEMMA RebaseAboveRuns ==
  ASSUME StackInv, HistoriesAreSound, RunInv, RebaseAbove PROVE RunInv'
<1> DEFINE prev == run.stack[Lowest - 1]
           cur  == run.stack[Lowest]
           o    == OldBase(prev, cur)
<1>1. /\ phase = "loop" /\ ~ run.onto /\ Broken # {} /\ phase # "idle" /\ Underway
      /\ \/ phase' = "idle"
         \/ /\ Bases(prev, cur) # {}
            /\ refs' = Rebased(Top, refs[prev], o)
            /\ run' = [run EXCEPT !.tries = @ + 1] /\ phase' = "loop"
            /\ UNCHANGED <<backups, far, outcome>>
  BY DEF RebaseAbove, Rebase, Fail, RunInv
<1>2. CASE phase' = "idle"
  BY <1>2 DEF RunInv
<1>3. CASE /\ Bases(prev, cur) # {}
           /\ refs' = Rebased(Top, refs[prev], o)
           /\ run' = [run EXCEPT !.tries = @ + 1] /\ phase' = "loop"
           /\ UNCHANGED <<backups, far, outcome>>
  <2>1. /\ run \in Runs /\ run.tries \in Nat
        /\ run'.stack = run.stack /\ run'.before = run.before /\ run'.onto = run.onto
        /\ run'.landed = run.landed /\ run'.tries = run.tries + 1
    BY <1>1, <1>3 DEF StackInv, StackIsNamed, Runs
  <2>2. /\ Len(run.stack) \in Nat /\ DOMAIN run.stack = 1..Len(run.stack) /\ Top \in Branches
        /\ \A i \in 1..Len(run.stack) : run.stack[i] \in Branches
        /\ Lowest \in Broken /\ (\A j \in Broken : Lowest <= j) /\ Lowest \in 2..Len(run.stack)
        /\ Lowest - 1 \in 1..Len(run.stack) /\ prev \in Branches /\ cur \in Branches
    BY <1>1, StackPlaces, LowestIs
  <2>3. o \in Histories /\ o \in BackupsOf(prev) /\ refs \in [Branches -> Histories]
    BY <1>3, <2>2, OldBaseIs DEF StackInv, HistoriesAreKept
  <2>4. ASSUME NEW b \in Branches, OnStack(b), OwnsItsPatches(b), NEW p, p.of = b,
               Has(refs[b], p), Has(o, p)
        PROVE  Has(refs[prev], p)
    <3>1. PICK j \in 1..Len(run.stack) : run.stack[j] = b
      BY <2>2, <2>4 DEF OnStack, ToSet
    <3>2. CASE Lowest <= j
      <4>1. Lowest - 1 < j
        BY <2>2, <3>2
      <4>2. OwnPatches(b, o) = {}
        BY <2>2, <2>3, <2>4, <3>1, <4>1 DEF OwnsItsPatches
      <4>3. PICK i \in DOMAIN o : o[i] = p
        BY <2>4 DEF Has
      <4>4. p \in OwnPatches(b, o)
        BY <2>4, <4>3 DEF OwnPatches
      <4>5. QED
        BY <4>2, <4>4
    <3>3. CASE ~ (Lowest <= j)
      <4>1. j <= Lowest - 1 /\ \A k \in Broken : ~ (j < k /\ k <= Lowest - 1)
        <5>1. Broken \subseteq Nat
          BY <2>2 DEF Broken, Breaks
        <5>2. QED
          BY <2>2, <3>3, <5>1
      <4>2. IsPrefix(refs[b], refs[prev])
        BY <1>1, <2>2, <2>3, <3>1, <4>1, ChainOf DEF Broken
      <4>3. PICK i \in DOMAIN refs[b] : refs[b][i] = p
        BY <2>4 DEF Has
      <4>4. QED
        BY <2>2, <2>3, <4>2, <4>3, PrefixIsCovered
    <3>4. QED
      BY <3>2, <3>3
  <2>5. OwnPatchesStay'
    <3>1. refs[prev] \in Histories /\ UNCHANGED backups
      BY <1>3, <2>2, <2>3
    <3>2. OwnPatchesStay
      BY <1>1 DEF Underway
    <3>3. \A b \in Branches : OnStack(b) /\ (run.onto \/ OwnsItsPatches(b)) =>
           \A x \in DOMAIN run.before[b] :
             run.before[b][x].of = b /\ Has(refs[b], run.before[b][x]) /\ Has(o, run.before[b][x])
               => Has(refs[prev], run.before[b][x])
      BY <1>1, <2>4
    <3> HIDE DEF o, prev
    <3>4. QED
      BY <1>3, <2>1, <2>2, <2>3, <3>1, <3>2, <3>3, RebaseKeepsOwn
  <2>6. OneIsEnough'
    <3> SUFFICES ASSUME Layered, BrokenOnce PROVE Broken' = {}
      BY <1>3, <2>1, SameRun DEF OneIsEnough
    <3>1. Breaks(Rebased(Top, refs[prev], o)) = {}
      BY <1>1, <1>3, OneRebaseMends
    <3> HIDE DEF o, prev
    <3>2. QED
      BY <1>3, <2>1, <3>1 DEF Broken, Breaks
  <2>7. NoneHasMoved'
    BY <2>1 DEF NoneHasMoved
  <2>8. LandedIsInMain'
    BY <1>1, <1>3, <2>1 DEF LandedIsInMain, Underway
  <2>9. QED
    BY <1>1, <1>3, <2>5, <2>6, <2>7, <2>8 DEF RunInv, Underway
<1>4. QED
  BY <1>1, <1>2, <1>3

LEMMA LoopEndsRuns ==
  ASSUME StackInv, RunInv, LoopEnds PROVE RunInv'
<1>1. /\ phase = "loop" /\ phase # "idle" /\ Underway /\ ~ run.onto /\ phase' = "check"
      /\ UNCHANGED <<refs, backups, main, run, outcome>> /\ (Broken = {} \/ ~ MayTry)
  BY DEF LoopEnds, RunInv, local, far
<1>2. ~ MayTry => run.tries > 0
  <2>1. run.tries \in Nat /\ Len(run.stack) \in Nat \ {0}
    BY <1>1, StackPlaces DEF StackInv, StackIsNamed, Runs
  <2>2. QED
    BY <2>1 DEF MayTry
<1>3. OneIsEnough'
  <2> SUFFICES ASSUME Layered, BrokenOnce PROVE Broken' = {}
    BY <1>1, SameRun DEF OneIsEnough
  <2>1. Broken = {}
    BY <1>1, <1>2 DEF Underway, OneIsEnough
  <2>2. QED
    BY <1>1, <2>1 DEF Broken, Breaks
<1>4. LandedIsInMain'
  BY <1>1 DEF LandedIsInMain, Underway
<1>5. OwnPatchesStay'
  BY <1>1, SameRun DEF Underway, OwnPatchesStay
<1>6. NoneHasMoved'
  BY <1>1 DEF Underway, NoneHasMoved
<1>7. QED
  BY <1>1, <1>3, <1>4, <1>5, <1>6 DEF RunInv, Underway

LEMMA CheckRuns ==
  ASSUME StackInv, RunInv, Check PROVE RunInv'
<1>1. CASE phase' = "idle"
  BY <1>1 DEF RunInv
<1>2. CASE phase' # "idle"
  <2>1. /\ phase = "check" /\ Linear /\ phase' = "push" /\ UNCHANGED <<refs, backups, main, run, outcome>>
        /\ Underway /\ phase # "idle"
    BY <1>2 DEF Check, Fail, RunInv, far
  <2>2. OneIsEnough'
    <3>1. Broken' = Broken
      BY <2>1 DEF Broken, Breaks
    <3>2. QED
      BY <2>1, <3>1, SameRun DEF OneIsEnough, Underway
  <2>3. LiveAt' = LiveAt
    BY <2>1 DEF LiveAt
  <2>4. LandedIsInMain'
    <3>1. Highest' = Highest
      BY <2>3 DEF Highest
    <3>2. QED
      BY <2>1, <2>3, <3>1 DEF LandedIsInMain, Underway
  <2>5. Linear'
    BY <2>1, <2>3 DEF Linear
  <2>6. OwnPatchesStay' /\ NoneHasMoved'
    BY <2>1, SameRun DEF Underway, OwnPatchesStay, NoneHasMoved
  <2>7. QED
    BY <2>1, <2>2, <2>4, <2>5, <2>6 DEF RunInv, Underway
<1>3. QED
  BY <1>1, <1>2

\* A rebase onto main drops nothing that main has not.
LEMMA OntoMainKeepsOwn ==
  ASSUME StackInv, Underway, phase = "loop", run.onto, NEW top \in Branches,
         refs' = Rebased(top, main, main), UNCHANGED backups, run' = [run EXCEPT !.tries = @ + 1]
  PROVE  OwnPatchesStay'
<1>1. /\ refs \in [Branches -> Histories] /\ main \in Histories /\ run \in Runs /\ OwnPatchesStay
      /\ UNCHANGED backups
  BY DEF StackInv, HistoriesAreKept, StackIsNamed, Underway
<1>2. QED
  BY <1>1, RebaseKeepsOwn

LEMMA RebaseOntoRuns ==
  ASSUME StackInv, RunInv, RebaseOnto PROVE RunInv'
<1> DEFINE landed == {b \in ToSet(run.stack) : Landed(b)}
<1>1. /\ phase = "loop" /\ phase # "idle" /\ run.onto /\ run.landed = {} /\ Underway
      /\ run \in Runs /\ run.tries \in Nat
  BY DEF RebaseOnto, RunInv, StackInv, StackIsNamed, Runs
<1>2. \/ Rebase(Top, main, main)
      \/ /\ run' = [run EXCEPT !.landed = landed]
         /\ phase' = IF ToSet(run.stack) \subseteq landed THEN "check" ELSE "loop"
         /\ UNCHANGED <<refs, backups, main, outcome>>
  BY DEF RebaseOnto, local, far
<1>3. CASE Rebase(Top, main, main)
  <2>1. CASE phase' = "idle"
    BY <2>1 DEF RunInv
  <2>2. CASE phase' # "idle"
    <3>1. /\ refs' = Rebased(Top, main, main) /\ run' = [run EXCEPT !.tries = @ + 1]
          /\ phase' = "check" /\ UNCHANGED <<backups, main, outcome>>
      BY <1>1, <1>3, <2>2 DEF Rebase, Fail, far
    <3>2. run'.onto /\ run'.landed = {} /\ run'.tries # 0
      BY <1>1, <3>1 DEF Runs
    <3>3. OwnPatchesStay'
      <4>1. Top \in Branches /\ UNCHANGED backups
        BY <1>1, <3>1, StackPlaces
      <4>2. QED
        BY <1>1, <3>1, <4>1, OntoMainKeepsOwn
    <3>4. NoneHasMoved' /\ OneIsEnough' /\ LandedIsInMain'
      BY <3>1, <3>2 DEF NoneHasMoved, OneIsEnough, LandedIsInMain
    <3>5. QED
      BY <1>1, <3>1, <3>3, <3>4 DEF RunInv, Underway
  <2>3. QED
    BY <2>1, <2>2
<1>4. CASE /\ run' = [run EXCEPT !.landed = landed]
           /\ phase' = IF ToSet(run.stack) \subseteq landed THEN "check" ELSE "loop"
           /\ UNCHANGED <<refs, backups, main, outcome>>
  <2>1. /\ run'.stack = run.stack /\ run'.before = run.before /\ run'.onto = run.onto
        /\ run'.tries = run.tries /\ run'.landed = landed
    BY <1>1, <1>4 DEF Runs
  <2>2. OwnPatchesStay' /\ NoneHasMoved' /\ OneIsEnough'
    BY <1>1, <1>4, <2>1, SameRun DEF Underway, OwnPatchesStay, NoneHasMoved, OneIsEnough
  <2>3. CASE phase' = "check"
    <3>1. ToSet(run.stack) \subseteq landed
      BY <1>4, <2>3
    <3>2. \A i \in DOMAIN run.stack : run.stack[i] \in ToSet(run.stack)
      BY DEF ToSet
    <3> HIDE DEF landed
    <3>3. LiveAt' = {}
      BY <2>1, <3>1, <3>2 DEF LiveAt
    <3>4. LandedIsInMain'
      BY <1>1, <2>1, <2>3, <3>3 DEF LandedIsInMain
    <3>5. QED
      BY <1>1, <1>4, <2>2, <2>3, <3>4 DEF RunInv, Underway
  <2>4. CASE phase' = "loop"
    <3>1. ASSUME NEW a \in landed, NEW x \in DOMAIN refs[a] PROVE Has(main, refs[a][x])
      <4>1. a \in Branches /\ Landed(a) /\ refs[a] \in Histories /\ main \in Histories
        <5>1. \A i \in DOMAIN run.stack : run.stack[i] \in Branches
          BY <1>1, StackPlaces
        <5>2. a \in Branches /\ Landed(a)
          BY <3>1, <5>1 DEF ToSet
        <5>3. QED
          BY <5>2 DEF StackInv, HistoriesAreKept
      <4> DEFINE f == Fork(refs[a], main)
      <4>2. /\ f \in 0..Len(refs[a]) /\ f <= Len(main) /\ \A i \in 1..f : refs[a][i] = main[i]
            /\ Len(refs[a]) \in Nat /\ DOMAIN refs[a] = 1..Len(refs[a])
            /\ Len(main) \in Nat /\ DOMAIN main = 1..Len(main)
        BY <4>1, ForkIs, PlacesOf
      <4>3. \A i \in f + 1..Len(refs[a]) : Has(main, refs[a][i])
        BY <4>1 DEF Landed
      <4> HIDE DEF f
      <4>4. CASE x \in 1..f
        <5>1. x \in DOMAIN main /\ main[x] = refs[a][x]
          BY <4>2, <4>4
        <5>2. QED
          BY <5>1 DEF Has
      <4>5. CASE x \notin 1..f
        <5>1. x \in f + 1..Len(refs[a])
          BY <3>1, <4>2, <4>5
        <5>2. QED
          BY <4>3, <5>1
      <4>6. QED
        BY <4>4, <4>5
    <3> HIDE DEF landed
    <3>2. \A a \in run'.landed : \A x \in DOMAIN refs'[a] : Has(main', refs'[a][x])
      BY <1>4, <2>1, <3>1
    <3>3. LandedIsInMain'
      BY <1>1, <2>1, <2>4, <3>2 DEF LandedIsInMain
    <3>4. QED
      BY <1>1, <1>4, <2>2, <2>4, <3>3 DEF RunInv, Underway
  <2>5. QED
    BY <1>4, <2>3, <2>4
<1>5. QED
  BY <1>2, <1>3, <1>4

\* What a live branch still has of a landed one would not apply on main, but for what main has.
LEMMA RebaseLiveRuns ==
  ASSUME StackInv, HistoriesAreSound, RunInv, RebaseLive PROVE RunInv'
<1> DEFINE top == run.stack[Highest]
<1>1. /\ phase = "loop" /\ phase # "idle" /\ run.onto /\ run.landed # {} /\ Underway
      /\ run \in Runs /\ run.tries \in Nat /\ run.landed \subseteq Branches
      /\ LiveAt # {} /\ Rebase(top, main, main)
      /\ main \in Histories /\ refs \in [Branches -> Histories]
  BY DEF RebaseLive, RunInv, StackInv, StackIsNamed, Runs, SomeIsLive, HistoriesAreKept
<1>2. top \in Branches
  BY <1>1, HighestIs
<1> HIDE DEF top
<1>3. CASE phase' = "idle"
  BY <1>3 DEF RunInv
<1>4. CASE phase' # "idle"
  <2>1. /\ refs' = Rebased(top, main, main) /\ run' = [run EXCEPT !.tries = @ + 1]
        /\ phase' = "check" /\ UNCHANGED <<backups, main, remote, outcome>>
    BY <1>1, <1>4 DEF Rebase, Fail, far
  <2>2. /\ run'.stack = run.stack /\ run'.onto /\ run'.landed = run.landed /\ run'.tries # 0
        /\ run'.before = run.before
    BY <1>1, <2>1 DEF Runs
  <2>3. OwnPatchesStay'
    <3>1. UNCHANGED backups
      BY <2>1
    <3>2. QED
      BY <1>1, <1>2, <2>1, <3>1, OntoMainKeepsOwn
  <2>4. NoneHasMoved' /\ OneIsEnough'
    BY <2>1, <2>2 DEF NoneHasMoved, OneIsEnough
  <2>5. LiveAt' = LiveAt /\ Highest' = Highest
    <3>1. LiveAt' = LiveAt
      BY <2>2 DEF LiveAt
    <3>2. QED
      BY <3>1 DEF Highest
  <2> DEFINE t == refs'[top]
  <2>6. Once(t) /\ t \in Histories /\ \A x \in DOMAIN t : Has(main, t[x]) \/ Has(refs[top], t[x])
    <3>1. HistoriesAreSound'
      BY RestackIsSound
    <3>2. Once(t)
      BY <1>2, <3>1 DEF HistoriesAreSound, Sound, Branches
    <3>3. QED
      BY <1>1, <1>2, <2>1, <3>2, RebasedHolds
  <2>7. IsPrefix(main, t)
    <3>1. t = Apply(main, refs[top], Part(refs[top], main, Len(refs[top])))
      BY <1>1, <1>2, <2>1, RebasedIs
    <3>2. QED
      BY <1>1, <1>2, <3>1, ApplyIs DEF Applied
  <2> HIDE DEF t
  <2>8. ASSUME NEW x \in DOMAIN t, t[x].of \in run.landed PROVE Has(main, t[x])
    <3> DEFINE p == t[x]
               a == p.of
    <3> SUFFICES ASSUME Has(refs[top], p) PROVE Has(main, p)
      BY <2>6
    <3>1. OwnedBy(run.before, refs[top]) /\ Covers(run.before[a], refs[a]) /\ a \in Branches
      BY <1>1, <1>2, <2>8 DEF HistoriesAreSound, Sound, Home, AtRest
    <3>2. Holds(run.before[a], p)
      BY <3>1 DEF OwnedBy, Has
    <3>3. Holds(refs[a], p)
      BY <3>1, <3>2 DEF Covers, Holds, SamePatch
    <3>4. PICK y \in DOMAIN refs[a] : SamePatch(refs[a][y], p)
      BY <3>3 DEF Holds
    <3>5. Has(main, refs[a][y])
      BY <1>1, <2>8, <3>4 DEF Underway, LandedIsInMain
    <3>6. PICK z \in DOMAIN main : main[z] = refs[a][y]
      BY <3>5 DEF Has
    <3>7. PICK w \in DOMAIN t : t[w] = main[z]
      BY <1>1, <2>6, <2>7, PrefixIsCovered DEF Has
    <3>8. SamePatch(t[w], t[x])
      BY <3>4, <3>6, <3>7
    <3>9. w = x
      BY <2>6, <3>8 DEF Once
    <3>10. QED
      BY <3>6, <3>7, <3>9 DEF Has
  <2>9. LandedIsInMain'
    <3>1. run'.stack[Highest'] = top /\ main' = main
      BY <2>1, <2>2, <2>5 DEF top
    <3>2. \A x \in DOMAIN refs'[run'.stack[Highest']] :
             refs'[run'.stack[Highest']][x].of \in run'.landed =>
               Has(main', refs'[run'.stack[Highest']][x])
      BY <2>2, <2>8, <3>1 DEF t
    <3>3. QED
      BY <2>1, <2>2, <3>2 DEF LandedIsInMain
  <2>10. QED
    BY <1>1, <2>1, <2>3, <2>4, <2>9 DEF RunInv, Underway
<1>5. QED
  BY <1>3, <1>4

LEMMA NextRuns ==
  ASSUME StackInv, HistoriesAreSound, RunInv, [StackNext]_stackVars PROVE RunInv'
<1>1. CASE UNCHANGED stackVars
  <2>1. UNCHANGED <<refs, backups, main, phase, run, outcome>>
    BY <1>1 DEF stackVars, local, far
  <2>2. CASE phase = "idle"
    BY <2>1, <2>2 DEF RunInv
  <2>3. CASE phase # "idle"
    <3>1. Underway
      BY <2>3 DEF RunInv
    <3>2. LiveAt' = LiveAt
      BY <2>1 DEF LiveAt
    <3>3. Highest' = Highest
      BY <3>2 DEF Highest
    <3>4. Linear' <=> Linear
      BY <2>1, <3>2 DEF Linear
    <3>5. LandedIsInMain'
      BY <2>1, <3>1, <3>2, <3>3 DEF Underway, LandedIsInMain, Has
    <3>6. OneIsEnough'
      <4>1. Broken' = Broken
        BY <2>1 DEF Broken, Breaks
      <4>2. QED
        BY <2>1, <3>1, <4>1, SameRun DEF Underway, OneIsEnough
    <3>7. OwnPatchesStay' /\ NoneHasMoved'
      BY <2>1, <3>1, SameRun DEF Underway, OwnPatchesStay, NoneHasMoved, Has
    <3>8. QED
      BY <2>1, <3>1, <3>4, <3>5, <3>6, <3>7 DEF RunInv, Underway
  <2>4. QED
    BY <2>2, <2>3
<1>2. CASE phase' = "idle"
  BY <1>2 DEF RunInv
<1>3. CASE Commit \/ Switch \/ Fold \/ Land \/ OthersLand \/ OthersPush \/ Fetch \/ Push \/ PushRefused
  <2>1. phase' = "idle"
    BY <1>3 DEF Commit, Switch, Fold, Land, OthersLand, OthersPush, Fetch, Idle, AtRest, Push,
                PushRefused, Send
  <2>2. QED
    BY <1>2, <2>1
<1>4. QED
  BY <1>1, <1>3, StartRuns, RebaseAboveRuns, LoopEndsRuns, RebaseOntoRuns, RebaseLiveRuns, CheckRuns
     DEF StackNext

-----------------------------------------------------------------------------
(* How restack ends *)

\* A step that ends restack with a failure.
FailsAs(how) ==
  /\ phase # "idle" /\ outcome' = how /\ UNCHANGED <<run, backups>>
  /\ \E current : Restore(current, refs)
  /\ \/ how = "stuck" /\ phase = "check" /\ ~ Linear
     \/ how \in {"conflict", "unbased"} /\ phase = "loop" /\ (run.onto \/ Broken # {})

EndsWell ==
  /\ phase = "push" /\ outcome' \in {"pushed", "refused", "restacked"}
  /\ UNCHANGED <<refs, main, backups, run>>

Stays == UNCHANGED <<refs, main, backups, run, outcome>>

LEMMA HowItEnds ==
  ASSUME StackInv, RunInv, [StackNext]_stackVars
  PROVE  outcome' = "none" \/ Stays \/ EndsWell \/ \E how \in Failures : FailsAs(how)
<1>1. phase # "idle" => outcome = "none"
  BY DEF RunInv, Underway
<1>2. CASE OthersPush \/ UNCHANGED stackVars
  BY <1>2 DEF OthersPush, Stays, stackVars, local, far
<1>3. CASE Commit \/ Switch \/ Fold \/ Land \/ OthersLand \/ Fetch \/ StartRestack
  BY <1>3 DEF Commit, Switch, Fold, Land, OthersLand, Fetch, StartRestack, Idle
<1>4. CASE Push \/ PushRefused
  <2>1. EndsWell
    BY <1>4 DEF Push, PushRefused, Send, local, EndsWell
  <2>2. QED
    BY <2>1
<1>5. CASE LoopEnds
  BY <1>1, <1>5 DEF LoopEnds
<1>6. ASSUME phase = "loop", run.onto \/ Broken # {}, NEW top, NEW onto, NEW upstream, Rebase(top, onto, upstream)
      PROVE  outcome' = "none" \/ FailsAs("conflict")
  BY <1>1, <1>6 DEF Rebase, Fail, FailsAs
<1>7. CASE RebaseAbove
  <2>1. CASE \E onto, upstream : Rebase(Top, onto, upstream)
    BY <1>6, <1>7, <2>1 DEF RebaseAbove, Failures
  <2>2. CASE Restore(head, refs) /\ Fail("unbased")
    <3>1. FailsAs("unbased")
      BY <1>7, <2>2 DEF RebaseAbove, Fail, FailsAs
    <3>2. QED
      BY <3>1 DEF Failures
  <2>3. QED
    BY <1>7, <2>1, <2>2 DEF RebaseAbove
<1>8. CASE RebaseOnto
  <2>1. CASE Rebase(Top, main, main)
    BY <1>6, <1>8, <2>1 DEF RebaseOnto, Failures
  <2>2. CASE UNCHANGED outcome
    BY <1>1, <1>8, <2>2 DEF RebaseOnto
  <2>3. QED
    BY <1>8, <2>1, <2>2 DEF RebaseOnto
<1>9. CASE RebaseLive
  BY <1>6, <1>9 DEF RebaseLive, Failures
<1>10. CASE Check
  <2>1. CASE Linear
    BY <1>1, <1>10, <2>1 DEF Check
  <2>2. CASE ~ Linear
    <3>1. FailsAs("stuck")
      BY <1>10, <2>2 DEF Check, Fail, FailsAs
    <3>2. QED
      BY <3>1 DEF Failures
  <2>3. QED
    BY <2>1, <2>2
<1>11. QED
  BY <1>2, <1>3, <1>4, <1>5, <1>7, <1>8, <1>9, <1>10 DEF StackNext

\* A stack that was broken in one place fails by its first rebase or not at all.
LEMMA OneBreakFails ==
  ASSUME StackInv, RunInv, NEW how, FailsAs(how), ~ run.onto, Layered, BrokenOnce
  PROVE  how # "stuck" /\ run.tries = 0
<1>1. Underway /\ run.tries \in Nat /\ run.landed = {}
  BY DEF FailsAs, RunInv, Underway, LandedIsInMain, StackInv, StackIsNamed, Runs
<1>2. CASE how = "stuck" /\ phase = "check" /\ ~ Linear
  <2>1. Broken = {}
    BY <1>1, <1>2 DEF Underway, OneIsEnough
  <2>2. QED
    BY <1>1, <1>2, <2>1, UnbrokenIsLinear
<1>3. CASE how \in {"conflict", "unbased"} /\ Broken # {}
  <2>1. ~ (run.tries > 0)
    BY <1>1, <1>3 DEF Underway, OneIsEnough
  <2>2. QED
    BY <1>1, <1>3, <2>1
<1>4. QED
  BY <1>2, <1>3 DEF FailsAs

LEMMA NextRestores ==
  ASSUME StackInv, RunInv, FailureRestoresTheRest, [StackNext]_stackVars
  PROVE  FailureRestoresTheRest'
<1>1. CASE outcome' = "none"
  BY <1>1 DEF FailureRestoresTheRest, Failures
<1>2. CASE EndsWell
  BY <1>2 DEF EndsWell, FailureRestoresTheRest, Failures
<1>3. CASE Stays
  <2>1. UNCHANGED <<refs, backups, run, outcome>>
    BY <1>3 DEF Stays
  <2>2. QED
    BY <2>1, SameRun DEF FailureRestoresTheRest, Branches
<1>4. CASE \E how \in Failures : FailsAs(how)
  <2>1. PICK how \in Failures : FailsAs(how)
    BY <1>4
  <2>2. PICK current : Restore(current, refs)
    BY <2>1 DEF FailsAs
  <2>3. UNCHANGED <<run, backups>> /\ Underway
    BY <2>1 DEF FailsAs, RunInv
  <2>4. ASSUME NEW b \in Branches,
               \/ OnStack(b) /\ b # run.orig
               \/ run.tries = 0
               \/ ~ run.onto /\ Layered /\ BrokenOnce
        PROVE  refs'[b] = run.before[b]
    <3>1. CASE OnStack(b) /\ b # run.orig
      BY <2>2, <3>1 DEF Restore
    <3>2. CASE run.tries = 0
      <4>1. refs = run.before
        BY <2>3, <3>2 DEF Underway, NoneHasMoved
      <4>2. QED
        BY <2>2, <4>1 DEF Restore
    <3>3. CASE ~ run.onto /\ Layered /\ BrokenOnce
      BY <2>1, <3>2, <3>3, OneBreakFails
    <3>4. QED
      BY <2>4, <3>1, <3>2, <3>3
  <2>5. /\ run' = run /\ UNCHANGED backups
        /\ Layered' <=> Layered
        /\ BrokenOnce' <=> BrokenOnce
        /\ \A b : OnStack(b)' <=> OnStack(b)
    BY <2>3, SameRun
  <2>6. QED
    BY <2>4, <2>5 DEF FailureRestoresTheRest, Branches
<1>5. QED
  BY <1>1, <1>2, <1>3, <1>4, HowItEnds

LEMMA NextMends ==
  ASSUME StackInv, RunInv, OneBreakIsMended, [StackNext]_stackVars
  PROVE  OneBreakIsMended'
<1>1. CASE outcome' # "stuck"
  BY <1>1 DEF OneBreakIsMended
<1>2. CASE Stays
  <2>1. UNCHANGED <<backups, run, outcome>>
    BY <1>2 DEF Stays
  <2>2. QED
    BY <2>1, SameRun DEF OneBreakIsMended
<1>3. CASE \E how \in Failures : FailsAs(how)
  <2>1. PICK how \in Failures : FailsAs(how)
    BY <1>3
  <2>2. UNCHANGED <<run, backups>> /\ outcome' = how
    BY <2>1 DEF FailsAs
  <2>3. QED
    BY <2>1, <2>2, SameRun, OneBreakFails DEF OneBreakIsMended
<1>4. QED
  BY <1>1, <1>2, <1>3, HowItEnds DEF EndsWell

-----------------------------------------------------------------------------
(* What a restack that succeeds has kept *)

LEMMA PushedSurvive ==
  ASSUME StackInv, HistoriesAreSound, RunInv, phase = "push", NEW b \in Live
  PROVE  /\ \A i \in DOMAIN run.before[b] : Holds(refs[b], run.before[b][i])
         /\ \A i, j \in DOMAIN refs[b] : SamePatch(refs[b][i], refs[b][j]) => i = j
         /\ \A a \in ToSet(run.stack) : OwnPatches(a, refs[b]) \subseteq OwnPatches(a, refs[a]) \cup ToSet(main)
         /\ run.onto \/ OwnsItsPatches(b) => OwnPatches(b, refs[b]) = OwnPatches(b, run.before[b])
<1>1. /\ phase # "idle" /\ Underway /\ Linear /\ refs \in [Branches -> Histories]
      /\ Sound(run.before, refs, main, remote, backups)
      /\ main \in Histories
  BY DEF RunInv, Underway, StackInv, HistoriesAreKept, HistoriesAreSound, Home, AtRest
<1>2. /\ DOMAIN run.stack = 1..Len(run.stack) /\ Len(run.stack) \in Nat
      /\ \A i \in 1..Len(run.stack) : run.stack[i] \in Branches
  BY <1>1, StackPlaces
<1>3. PICK j \in LiveAt : run.stack[j] = b
  BY DEF Live
<1>4. /\ j \in 1..Len(run.stack) /\ b \in Branches /\ OnStack(b)
  BY <1>2, <1>3 DEF LiveAt, OnStack, ToSet
<1>5. /\ Covers(run.before[b], refs[b]) /\ Once(refs[b]) /\ OwnedBy(run.before, refs[b])
      /\ refs[b] \in Histories
  BY <1>1, <1>4 DEF Sound
<1>6. ASSUME NEW a \in ToSet(run.stack), NEW p \in OwnPatches(a, refs[b])
      PROVE  p \in OwnPatches(a, refs[a]) \/ p \in ToSet(main)
  <2>1. PICK k \in 1..Len(run.stack) : run.stack[k] = a
    BY <1>2, <1>6 DEF ToSet
  <2>2. PICK x \in DOMAIN refs[b] : refs[b][x] = p /\ p.of = a
    BY <1>6 DEF OwnPatches
  <2>3. a \in Branches /\ refs[a] \in Histories
    BY <1>1, <1>2, <2>1
  <2>4. CASE a \in run.landed
    <3>1. Highest \in LiveAt /\ j <= Highest /\ LiveAt # {} /\ run.stack[Highest] \in Branches
      BY <1>1, <1>3, HighestIs
    <3> DEFINE t == refs[run.stack[Highest]]
    <3>2. IsPrefix(refs[b], t) /\ t \in Histories
      BY <1>1, <1>3, <3>1, LiveChain
    <3>3. PICK y \in DOMAIN t : t[y] = p
      <4> HIDE DEF t
      <4>1. QED
        BY <1>5, <2>2, <3>2, PrefixIsCovered DEF Has
    <3>4. Has(main, p)
      BY <1>1, <2>2, <2>4, <3>1, <3>3 DEF Underway, LandedIsInMain
    <3>5. QED
      BY <3>4 DEF Has, ToSet
  <2>5. CASE a \notin run.landed
    <3>1. k \in LiveAt
      BY <1>2, <2>1, <2>5 DEF LiveAt
    <3>2. CASE k <= j
      <4>1. IsPrefix(refs[a], refs[b])
        BY <1>1, <1>3, <2>1, <3>1, <3>2, LiveChain
      <4>2. Holds(run.before[a], p) /\ Covers(run.before[a], refs[a])
        BY <1>1, <1>5, <2>2, <2>3 DEF OwnedBy, Sound
      <4>3. PICK y \in DOMAIN refs[a] : SamePatch(refs[a][y], p)
        BY <4>2 DEF Covers, Holds, SamePatch
      <4>4. PICK z \in DOMAIN refs[b] : refs[b][z] = refs[a][y]
        BY <1>5, <2>3, <4>1, PrefixIsCovered DEF Has
      <4>5. z = x
        BY <1>5, <2>2, <4>3, <4>4 DEF Once
      <4>6. refs[a][y] = p
        BY <2>2, <4>4, <4>5
      <4>7. QED
        BY <2>2, <4>6 DEF OwnPatches
    <3>3. CASE ~ (k <= j)
      <4>1. j <= k
        BY <1>4, <2>1, <3>3
      <4>2. IsPrefix(refs[b], refs[a])
        BY <1>1, <1>3, <2>1, <3>1, <4>1, LiveChain
      <4>3. PICK y \in DOMAIN refs[a] : refs[a][y] = p
        BY <1>5, <2>2, <2>3, <4>2, PrefixIsCovered DEF Has
      <4>4. QED
        BY <2>2, <4>3 DEF OwnPatches
    <3>4. QED
      BY <3>2, <3>3
  <2>6. QED
    BY <2>4, <2>5
<1>7. ASSUME run.onto \/ OwnsItsPatches(b)
      PROVE  OwnPatches(b, refs[b]) = OwnPatches(b, run.before[b])
  <2>1. \A x \in DOMAIN run.before[b] : run.before[b][x].of = b => Has(refs[b], run.before[b][x])
    BY <1>1, <1>4, <1>7 DEF Underway, OwnPatchesStay
  <2>2. ASSUME NEW p \in OwnPatches(b, run.before[b]) PROVE p \in OwnPatches(b, refs[b])
    <3>1. PICK x \in DOMAIN run.before[b] : run.before[b][x] = p /\ p.of = b
      BY <2>2 DEF OwnPatches
    <3>2. PICK y \in DOMAIN refs[b] : refs[b][y] = p
      BY <2>1, <3>1 DEF Has
    <3>3. QED
      BY <3>1, <3>2 DEF OwnPatches
  <2>3. ASSUME NEW p \in OwnPatches(b, refs[b]) PROVE p \in OwnPatches(b, run.before[b])
    <3>1. PICK x \in DOMAIN refs[b] : refs[b][x] = p /\ p.of = b
      BY <2>3 DEF OwnPatches
    <3>2. PICK y \in DOMAIN run.before[b] : SamePatch(run.before[b][y], p)
      BY <1>4, <1>5, <3>1 DEF OwnedBy, Holds
    <3>3. run.before[b][y].of = b
      BY <3>1, <3>2 DEF SamePatch
    <3>4. PICK z \in DOMAIN refs[b] : refs[b][z] = run.before[b][y]
      BY <2>1, <3>3 DEF Has
    <3>5. z = x
      BY <1>5, <3>1, <3>2, <3>4 DEF Once
    <3>6. QED
      BY <3>1, <3>3, <3>4, <3>5 DEF OwnPatches
  <2>4. QED
    BY <2>2, <2>3
<1>8. QED
  BY <1>5, <1>6, <1>7 DEF Covers, Once

LEMMA NextSurvives ==
  ASSUME StackInv, HistoriesAreSound, RunInv, PatchesSurvive, [StackNext]_stackVars
  PROVE  PatchesSurvive'
<1>1. CASE outcome' \notin {"pushed", "refused", "restacked"}
  BY <1>1 DEF PatchesSurvive, Succeeded
<1>2. ASSUME UNCHANGED <<refs, main, backups, run>>,
             \A b \in Live :
               /\ \A i \in DOMAIN run.before[b] : Holds(refs[b], run.before[b][i])
               /\ \A i, j \in DOMAIN refs[b] : SamePatch(refs[b][i], refs[b][j]) => i = j
               /\ \A a \in ToSet(run.stack) :
                    OwnPatches(a, refs[b]) \subseteq OwnPatches(a, refs[a]) \cup ToSet(main)
               /\ run.onto \/ OwnsItsPatches(b) => OwnPatches(b, refs[b]) = OwnPatches(b, run.before[b])
      PROVE  PatchesSurvive'
  <2>1. refs' = refs /\ main' = main /\ run' = run
    BY <1>2
  <2>2. Live' = Live
    BY <2>1 DEF Live, LiveAt
  <2>3. \A b : OwnsItsPatches(b)' <=> OwnsItsPatches(b)
    BY <1>2, SameRun
  <2>4. QED
    BY <1>2, <2>1, <2>2, <2>3 DEF PatchesSurvive
<1>3. CASE EndsWell
  <2>1. UNCHANGED <<refs, main, backups, run>> /\ phase = "push"
    BY <1>3 DEF EndsWell
  <2>2. QED
    BY <1>2, <2>1, PushedSurvive
<1>4. CASE Stays /\ outcome' \in {"pushed", "refused", "restacked"}
  <2>1. UNCHANGED <<refs, main, backups, run>> /\ Succeeded
    BY <1>4 DEF Stays, Succeeded
  <2>2. QED
    BY <1>2, <2>1 DEF PatchesSurvive
<1>5. QED
  BY <1>1, <1>3, <1>4, HowItEnds DEF FailsAs, Failures

-----------------------------------------------------------------------------
(* The stack command, together *)

\* The three invariants keep one another.
LEMMA NextKeepsRuns ==
  ASSUME StackInv /\ HistoriesAreSound /\ RunInv, [StackNext]_stackVars
  PROVE  (StackInv /\ HistoriesAreSound /\ RunInv)'
  BY NextKeeps, NextIsSound, NextRuns

LEMMA InitRuns == StackInit => StackInv /\ HistoriesAreSound /\ RunInv
<1>1. StackInit => RunInv
  BY DEF StackInit, RunInv
<1>2. QED
  BY <1>1, InitStackInv, InitIsSound

\* A restack that succeeds leaves each live branch with all its patches, once, at the
\* versions of the branches that they are of, and its own at the version they had: the
\* replays of a rebase and the patches that it drops as applied lose none (stack.rs).
THEOREM NoPatchIsLost ==
  StackSpec => []PatchesSurvive
<1> DEFINE Inv == (StackInv /\ HistoriesAreSound /\ RunInv) /\ PatchesSurvive
<1>1. StackInit => Inv
  BY InitRuns DEF StackInit, PatchesSurvive, Succeeded
<1>2. Inv /\ [StackNext]_stackVars => Inv'
  BY NextKeepsRuns, NextSurvives
<1>3. QED
  BY <1>1, <1>2, PTL DEF StackSpec

\* A restack that fails leaves the branches of its stack where they were, but for the
\* one it was called on, and all of them if its first rebase failed or if one rebase was
\* all it had to do (restore and the loop of stack.rs).
THEOREM FailuresRestoreTheRest ==
  StackSpec => []FailureRestoresTheRest
<1> DEFINE Inv == (StackInv /\ HistoriesAreSound /\ RunInv) /\ FailureRestoresTheRest
<1>1. StackInit => Inv
  BY InitRuns DEF StackInit, FailureRestoresTheRest, Failures
<1>2. Inv /\ [StackNext]_stackVars => Inv'
  BY NextKeepsRuns, NextRestores
<1>3. QED
  BY <1>1, <1>2, PTL DEF StackSpec

\* "still not on top" is never the end of a stack that was broken in one place and has
\* commits in each of its branches: the loop of stack.rs mends it by one rebase.
THEOREM OneBreakMends ==
  StackSpec => []OneBreakIsMended
<1> DEFINE Inv == (StackInv /\ HistoriesAreSound /\ RunInv) /\ OneBreakIsMended
<1>1. StackInit => Inv
  BY InitRuns DEF StackInit, OneBreakIsMended
<1>2. Inv /\ [StackNext]_stackVars => Inv'
  BY NextKeepsRuns, NextMends
<1>3. QED
  BY <1>1, <1>2, PTL DEF StackSpec

-----------------------------------------------------------------------------
(* Types: a history without doubles is short *)

Kept(c) == c \in Histories /\ Once(c) /\ \A x \in DOMAIN c : c[x].v <= MaxVersion

LEMMA IntervalFromOne ==
  ASSUME NEW n \in Nat, n > 0 PROVE IsFiniteSet(1..n) /\ Cardinality(1..n) = n
<1>1. 1 \in Int /\ n \in Int /\ ~ (1 > n) /\ n - 1 + 1 = n
  OBVIOUS
<1>2. IsFiniteSet(1..n) /\ Cardinality(1..n) = IF 1 > n THEN 0 ELSE n - 1 + 1
  BY <1>1, FS_Interval
<1>3. QED
  BY <1>1, <1>2

LEMMA KeptCommits ==
  ASSUME NEW c, Kept(c) PROVE Commits(c)
<1>1. /\ c \in Histories /\ Once(c) /\ DOMAIN c = 1..Len(c) /\ Len(c) \in Nat
      /\ \A x \in 1..Len(c) : c[x] \in AnyPatch /\ c[x].v <= MaxVersion
  BY PlacesOf DEF Kept
<1>2. N \in Nat /\ MaxVersion \in Nat
  BY RestackAssumption
<1>3. c \in Seq(Patches)
  <2>1. \A x \in 1..Len(c) : c[x] \in Patches
    BY <1>1, <1>2 DEF AnyPatch, Patches
  <2>2. c \in [1..Len(c) -> Patches]
    BY <1>1, <2>1 DEF Histories
  <2>3. QED
    BY <1>1, <2>2, SeqDef
<1>4. Len(c) <= 2 * (N + 2)
  <2> SUFFICES ASSUME ~ (Len(c) <= 2 * (N + 2)) PROVE FALSE
    OBVIOUS
  <2> DEFINE m == 2 * (N + 2)
             f == [x \in 1..Len(c) |-> 2 * c[x].of + c[x].n]
  <2>1. m \in Nat /\ m < Len(c)
    BY <1>1, <1>2
  <2>2. /\ IsFiniteSet(1..m) /\ Cardinality(1..m) = m
        /\ IsFiniteSet(1..Len(c)) /\ Cardinality(1..Len(c)) = Len(c)
    <3> HIDE DEF m
    <3>1. m > 0
      BY <1>2 DEF m
    <3>2. IsFiniteSet(1..m) /\ Cardinality(1..m) = m
      BY <2>1, <3>1, IntervalFromOne
    <3>3. Len(c) \in Nat /\ Len(c) > 0
      BY <1>1, <2>1, <3>1
    <3>4. IsFiniteSet(1..Len(c)) /\ Cardinality(1..Len(c)) = Len(c)
      BY <3>3, IntervalFromOne
    <3>5. QED
      BY <3>2, <3>4
  <2>3. \A x \in 1..Len(c) : c[x].of \in 0..N + 1 /\ c[x].n \in 1..2
    BY <1>1 DEF AnyPatch
  <2>4. f \in [1..Len(c) -> 1..m]
    <3>1. \A x \in 1..Len(c) : 2 * c[x].of + c[x].n \in 1..m
      BY <1>2, <2>3
    <3> HIDE DEF m
    <3>2. QED
      BY <3>1
  <2>5. PICK x \in 1..Len(c), y \in 1..Len(c) : x # y /\ f[x] = f[y]
    <3> HIDE DEF f, m
    <3>1. QED
      BY <2>1, <2>2, <2>4, FS_PigeonHole
  <2>6. 2 * c[x].of + c[x].n = 2 * c[y].of + c[y].n
    BY <2>5
  <2>7. c[x].of = c[y].of /\ c[x].n = c[y].n
    <3> DEFINE a == c[x].of
               b == c[y].of
               k == c[x].n
               l == c[y].n
    <3>1. a \in Nat /\ b \in Nat /\ k \in 1..2 /\ l \in 1..2 /\ 2 * a + k = 2 * b + l
      BY <1>2, <2>3, <2>6
    <3> HIDE DEF a, b, k, l
    <3>2. a = b /\ k = l
      BY <3>1
    <3>3. QED
      BY <3>2 DEF a, b, k, l
  <2>8. QED
    BY <1>1, <2>5, <2>7 DEF Once, SamePatch
<1>5. QED
  BY <1>3, <1>4 DEF Commits

LEMMA KeptMore ==
  ASSUME NEW c, Kept(c), NEW p \in AnyPatch, p.v = 0, ~ Holds(c, p)
  PROVE  Kept(Append(c, p))
<1> DEFINE d == Append(c, p)
<1>1. c \in Histories /\ Once(c) /\ MaxVersion \in Nat
  BY RestackAssumption DEF Kept
<1>2. d \in Histories /\ Once(d) /\ \A x \in DOMAIN d : d[x] = p \/ Has(c, d[x])
  BY <1>1, PrefixOfLonger, AppendIs
<1> HIDE DEF d
<1>3. \A x \in DOMAIN d : d[x].v <= MaxVersion
  BY <1>1, <1>2 DEF Kept, Has
<1>4. QED
  BY <1>2, <1>3 DEF Kept, d

\* Every commit that a step can read.
CommitsAreKept ==
  /\ \A b \in Branches : Kept(refs[b]) /\ Kept(remote[b]) /\ Kept(tracking[b])
  /\ DOMAIN tracking = Branches
  /\ Kept(main) /\ Kept(tree)
  /\ \A k \in backups : k[1] \in Branches /\ Kept(k[2])
  /\ phase # "idle" => \A b \in Branches : Kept(run.before[b])

\* --onto rebases once, without it the loop does as often as there are branches.
TriesAreBounded ==
  /\ phase \in Phases /\ outcome \in Outcomes
  /\ edits \in 0..MaxEdits /\ restacks \in 0..MaxRestacks
  /\ run.tries <= Len(run.stack)
  /\ phase = "loop" /\ run.onto => run.tries = 0

TypesInv == CommitsAreKept /\ TriesAreBounded

LEMMA TypesAreOK ==
  ASSUME StackInv, RunInv, TypesInv PROVE StackTypeOK
<1>1. DOMAIN refs = Branches /\ DOMAIN remote = Branches /\ head \in 0..N
  BY DEF StackInv, HistoriesAreKept
<1>2. phase # "idle" => outcome = "none"
  BY DEF RunInv, Underway
<1>3. QED
  BY <1>1, <1>2, KeptCommits DEF TypesInv, CommitsAreKept, TriesAreBounded, StackTypeOK

LEMMA KeptBase == Kept(<<>>)
<1>1. <<>> \in Histories
  BY EmptySeq DEF Histories
<1>2. QED
  BY <1>1 DEF Kept, Once

LEMMA InitTypes == StackInit => TypesInv
<1> SUFFICES ASSUME StackInit PROVE TypesInv
  OBVIOUS
<1>1. /\ N \in Nat /\ MaxVersion \in Nat /\ MaxEdits \in Nat /\ MaxRestacks \in Nat
      /\ StackInv /\ HistoriesAreSound
  BY RestackAssumption, InitRuns
<1>2. ASSUME NEW b \in Branches PROVE Kept(Initial(b))
  <2>1. Initial(b) \in Histories /\ Once(Initial(b))
    BY <1>1 DEF StackInv, HistoriesAreKept, HistoriesAreSound, Sound, StackInit
  <2>2. \A x \in DOMAIN Initial(b) : Initial(b)[x].v <= MaxVersion
    BY <1>1 DEF Initial, Patch
  <2>3. QED
    BY <2>1, <2>2 DEF Kept
<1>3. Kept(tree)
  BY <1>1, <1>2, KeptBase DEF StackInit, Base, Branches
<1>4. CommitsAreKept
  BY <1>2, <1>3, KeptBase DEF StackInit, CommitsAreKept, Base
<1>5. TriesAreBounded
  <2>1. run.tries = 0 /\ run.stack = <<>> /\ Len(run.stack) = 0
    BY EmptySeq DEF StackInit, NoRun
  <2>2. QED
    BY <1>1, <2>1 DEF StackInit, TriesAreBounded, Phases, Outcomes
<1>6. QED
  BY <1>4, <1>5 DEF TypesInv

-----------------------------------------------------------------------------
(* Types, step by step *)

\* At rest a step names new commits, and no run.
LEMMA RestKeepsTries ==
  ASSUME StackInv, TypesInv, Idle, edits' \in 0..MaxEdits, UNCHANGED restacks
  PROVE  TriesAreBounded'
<1>1. phase' = "idle" /\ outcome' = "none" /\ run'.tries = 0 /\ run'.stack = <<>>
  BY DEF Idle, AtRest, NoRun
<1>2. Len(run'.stack) = 0
  BY <1>1, EmptySeq
<1>3. QED
  BY <1>1, <1>2 DEF TypesInv, TriesAreBounded, Phases, Outcomes

LEMMA EditIsBounded ==
  ASSUME TypesInv, Edit PROVE edits' \in 0..MaxEdits /\ UNCHANGED restacks
  BY RestackAssumption DEF TypesInv, TriesAreBounded, Edit

LEMMA CommitTypes ==
  ASSUME StackInv, TypesInv, Commit PROVE TypesInv'
<1> DEFINE p == Patch(head, 2)
<1>1. /\ head \in Branches /\ refs \in [Branches -> Histories] /\ ~ Holds(refs[head], p)
      /\ refs' = [refs EXCEPT ![head] = Append(refs[head], p)] /\ tree' = refs'[head]
      /\ UNCHANGED <<main, remote, tracking, backups>> /\ phase' = "idle" /\ Idle /\ Edit
  BY DEF Commit, Idle, AtRest, StackInv, HistoriesAreKept, Branches, far
<1>2. p \in AnyPatch /\ p.v = 0
  <2>1. head \in 0..N + 1 /\ 2 \in 1..2 /\ 0 \in Nat
    BY <1>1, RestackAssumption DEF Branches
  <2>2. QED
    BY <2>1 DEF Patch, AnyPatch
<1> HIDE DEF p
<1>3. Kept(Append(refs[head], p))
  BY <1>1, <1>2, KeptMore DEF TypesInv, CommitsAreKept
<1>4. \A b \in Branches : Kept(refs'[b])
  BY <1>1, <1>3 DEF TypesInv, CommitsAreKept
<1>5. CommitsAreKept'
  BY <1>1, <1>4 DEF TypesInv, CommitsAreKept, Branches
<1>6. QED
  BY <1>1, <1>5, EditIsBounded, RestKeepsTries DEF TypesInv

LEMMA SwitchTypes ==
  ASSUME StackInv, TypesInv, Switch PROVE TypesInv'
<1>1. /\ UNCHANGED <<refs, main, remote, tracking, backups, edits, restacks>> /\ phase' = "idle" /\ Idle
      /\ \E b \in 0..N : tree' = Tip(b)
  BY DEF Switch, Idle, AtRest, far
<1>2. Kept(tree')
  BY <1>1, KeptBase, RestackAssumption DEF TypesInv, CommitsAreKept, Tip, Base, Branches
<1>3. CommitsAreKept'
  BY <1>1, <1>2 DEF TypesInv, CommitsAreKept, Branches
<1>4. TriesAreBounded'
  BY <1>1, RestKeepsTries DEF TypesInv, TriesAreBounded
<1>5. QED
  BY <1>3, <1>4 DEF TypesInv

LEMMA KeptNewer ==
  ASSUME NEW c, Kept(c), NEW i \in DOMAIN c, c[i].v < MaxVersion
  PROVE  Kept(Newer(c, i))
<1> DEFINE d == Newer(c, i)
<1>1. /\ c \in Histories /\ Once(c) /\ DOMAIN c = 1..Len(c) /\ MaxVersion \in Nat
      /\ \A x \in DOMAIN c : c[x] \in AnyPatch /\ c[x].v <= MaxVersion
  BY PlacesOf, RestackAssumption DEF Kept
<1>2. /\ d \in Histories /\ DOMAIN d = DOMAIN c
      /\ \A x \in DOMAIN c : SamePatch(d[x], c[x])
  BY <1>1, NewerIsHistory, NewerIs
<1>3. \A x \in DOMAIN c : d[x] = IF x = i THEN [c[i] EXCEPT !.v = @ + 1] ELSE c[x]
  BY <1>1 DEF Newer
<1>4. d[i].v <= MaxVersion
  <2>1. c[i].v \in Nat /\ d[i].v = c[i].v + 1
    BY <1>1, <1>3 DEF AnyPatch
  <2>2. QED
    BY <1>1, <2>1
<1> HIDE DEF d
<1>5. \A x \in DOMAIN d : d[x].v <= MaxVersion
  BY <1>1, <1>2, <1>3, <1>4
<1>6. Once(d)
  BY <1>1, <1>2 DEF Once, SamePatch
<1>7. QED
  BY <1>2, <1>5, <1>6 DEF Kept, d

LEMMA FoldTypes ==
  ASSUME StackInv, TypesInv, Fold PROVE TypesInv'
<1>1. /\ head \in Branches /\ refs \in [Branches -> Histories] /\ main \in Histories
      /\ tree' = refs'[head] /\ UNCHANGED <<main, remote, tracking>>
      /\ phase' = "idle" /\ Idle /\ Edit
      /\ backups' = backups \cup {<<b, refs[b]>> : b \in {a \in Branches : InRange(a)}}
  BY DEF Fold, Backup, Idle, AtRest, StackInv, HistoriesAreKept, Branches, far
<1>2. /\ refs[head] \in Histories /\ Len(refs[head]) \in Nat /\ DOMAIN refs[head] = 1..Len(refs[head])
      /\ Fork(refs[head], main) \in 0..Len(refs[head])
  BY <1>1, PlacesOf, ForkIs
<1>3. ASSUME NEW b \in Branches PROVE Kept(refs'[b])
  <2>1. Kept(refs[b]) /\ refs[b] \in Histories
    BY <1>1 DEF TypesInv, CommitsAreKept
  <2>2. CASE refs'[b] = refs[b]
    BY <2>1, <2>2
  <2>3. CASE refs'[b] # refs[b]
    <3>1. PICK i \in Fork(refs[head], main) + 1..Len(refs[head]) :
            /\ refs[head][i].v < MaxVersion
            /\ InRange(b) /\ Len(refs[b]) >= i /\ refs'[b] = Newer(refs[b], i)
      BY <2>3 DEF Fold
    <3>2. i \in 1..Len(refs[head]) /\ i \in DOMAIN refs[b] /\ i \in 1..Len(refs[b])
      <4>1. Len(refs[b]) \in Nat /\ DOMAIN refs[b] = 1..Len(refs[b])
        BY <2>1, PlacesOf
      <4>2. QED
        BY <1>2, <3>1, <4>1
    <3>3. refs[b][i] = refs[head][i]
      <4>1. CASE b = head
        BY <4>1
      <4>2. CASE IsPrefix(refs[b], refs[head])
        BY <1>2, <2>1, <3>2, <4>2, PrefixIs
      <4>3. QED
        BY <3>1, <4>1, <4>2 DEF InRange
    <3>4. QED
      BY <2>1, <3>1, <3>2, <3>3, KeptNewer
  <2>4. QED
    BY <2>2, <2>3
<1>4. \A k \in backups' : k[1] \in Branches /\ Kept(k[2])
  BY <1>1 DEF TypesInv, CommitsAreKept
<1>5. CommitsAreKept'
  BY <1>1, <1>3, <1>4 DEF TypesInv, CommitsAreKept, Branches
<1>6. QED
  BY <1>1, <1>5, EditIsBounded, RestKeepsTries DEF TypesInv

LEMMA LandTypes ==
  ASSUME StackInv, TypesInv, Land \/ OthersLand PROVE TypesInv'
<1>1. /\ UNCHANGED <<refs, backups, tree, remote, tracking>> /\ phase' = "idle" /\ Idle /\ Edit
      /\ 1 \in Branches /\ MaxVersion \in Nat
  BY RestackAssumption DEF Land, OthersLand, Idle, AtRest, local, Branches
<1>2. Kept(main) /\ Kept(remote[1])
  BY <1>1 DEF TypesInv, CommitsAreKept
<1>3. main' \in Histories
  BY LandStep, OthersLandStep DEF StackInv, HistoriesAreKept
<1>4. /\ Once(main')
      /\ \A x \in DOMAIN main' :
           main'[x] = Patch(0, 1) \/ Has(main, main'[x]) \/ Has(remote[1], main'[x])
  BY <1>2, LandHolds DEF Kept
<1>5. \A x \in DOMAIN main' : main'[x].v <= MaxVersion
  BY <1>1, <1>2, <1>4 DEF Kept, Has, Patch
<1>6. Kept(main')
  BY <1>3, <1>4, <1>5 DEF Kept
<1>7. CommitsAreKept'
  BY <1>1, <1>6 DEF TypesInv, CommitsAreKept, Branches
<1>8. QED
  BY <1>1, <1>7, EditIsBounded, RestKeepsTries DEF TypesInv

LEMMA OthersPushTypes ==
  ASSUME StackInv, RunInv, TypesInv, OthersPush PROVE TypesInv'
<1> DEFINE p == Patch(N + 1, 1)
<1>1. /\ UNCHANGED <<refs, backups, tree, main, tracking, phase, run, outcome>> /\ phase = "idle" /\ Edit
      /\ remote \in [Branches -> Histories]
  BY DEF OthersPush, AtRest, local, StackInv, HistoriesAreKept
<1>2. p \in AnyPatch /\ p.v = 0
  <2>1. N + 1 \in 0..N + 1 /\ 1 \in 1..2
    BY RestackAssumption
  <2>2. QED
    BY <2>1 DEF Patch, AnyPatch
<1>3. PICK a \in Branches : ~ Holds(remote[a], p) /\ remote' = [remote EXCEPT ![a] = Append(remote[a], p)]
  BY DEF OthersPush
<1> HIDE DEF p
<1>4. Kept(Append(remote[a], p))
  BY <1>2, <1>3, KeptMore DEF TypesInv, CommitsAreKept
<1>5. \A b \in Branches : Kept(remote'[b])
  BY <1>1, <1>3, <1>4 DEF TypesInv, CommitsAreKept
<1>6. CommitsAreKept'
  BY <1>1, <1>5 DEF TypesInv, CommitsAreKept, Branches
<1>7. TriesAreBounded'
  BY <1>1, EditIsBounded DEF TypesInv, TriesAreBounded
<1>8. QED
  BY <1>6, <1>7 DEF TypesInv

LEMMA FetchTypes ==
  ASSUME StackInv, TypesInv, Fetch PROVE TypesInv'
<1>1. /\ UNCHANGED <<refs, backups, tree, main, remote, edits, restacks>> /\ tracking' = remote
      /\ phase' = "idle" /\ Idle /\ remote \in [Branches -> Histories]
  BY DEF Fetch, Idle, AtRest, local, StackInv, HistoriesAreKept
<1>2. CommitsAreKept'
  BY <1>1 DEF TypesInv, CommitsAreKept, Branches
<1>3. TriesAreBounded'
  BY <1>1, RestKeepsTries DEF TypesInv, TriesAreBounded
<1>4. QED
  BY <1>2, <1>3 DEF TypesInv

LEMMA StartTypes ==
  ASSUME StackInv, TypesInv, StartRestack PROVE TypesInv'
<1>1. /\ UNCHANGED <<refs, tree, main, remote, tracking, edits>>
      /\ phase' = "loop" /\ outcome' = "none" /\ restacks < MaxRestacks /\ restacks' = restacks + 1
      /\ backups' = backups \cup {<<b, refs[b]>> : b \in ToSet(run'.stack)}
      /\ run'.before = refs /\ run'.tries = 0
  BY DEF StartRestack, Backup, far
<1>2. run'.stack \in Seq(Branches)
  BY <1>1, StartStep DEF StackInv, StackIsNamed, Runs
<1>3. ToSet(run'.stack) \subseteq Branches /\ Len(run'.stack) \in Nat
  BY <1>2, LenProperties, ElementOfSeq DEF ToSet
<1>4. \A k \in backups' : k[1] \in Branches /\ Kept(k[2])
  BY <1>1, <1>3 DEF TypesInv, CommitsAreKept
<1>5. CommitsAreKept'
  BY <1>1, <1>4 DEF TypesInv, CommitsAreKept, Branches
<1>6. TriesAreBounded'
  BY <1>1, <1>3, RestackAssumption DEF TypesInv, TriesAreBounded, Phases, Outcomes
<1>7. QED
  BY <1>5, <1>6 DEF TypesInv

LEMMA RestoreTypes ==
  ASSUME StackInv, TypesInv, phase # "idle", NEW current \in 0..N, NEW how \in Outcomes,
         Restore(current, refs), Fail(how)
  PROVE  TypesInv'
<1>1. /\ UNCHANGED <<main, remote, tracking, backups, run, edits, restacks>>
      /\ phase' = "idle" /\ outcome' = how
  BY DEF Fail, far
<1>2. \A b \in Branches : Kept(refs[b]) /\ Kept(run.before[b])
  BY DEF TypesInv, CommitsAreKept
<1>3. \A b \in Branches : Kept(refs'[b])
  <2>1. \A b \in Branches : refs'[b] \in {refs[b], run.before[b]}
    BY DEF Restore
  <2>2. QED
    BY <1>2, <2>1
<1>4. Kept(tree')
  <2>1. OnStack(run.orig) => run.orig \in Branches
    <3>1. \A i \in DOMAIN run.stack : run.stack[i] \in Branches
      BY StackPlaces
    <3>2. QED
      BY <3>1 DEF OnStack, ToSet
  <2>2. current # 0 => current \in Branches
    BY RestackAssumption DEF Branches
  <2>3. \/ OnStack(run.orig) /\ tree' = run.before[run.orig]
        \/ current = 0 /\ tree' = Base
        \/ current # 0 /\ tree' = refs[current]
    BY DEF Restore
  <2>4. QED
    BY <1>2, <2>1, <2>2, <2>3, KeptBase DEF Base
<1>5. CommitsAreKept'
  BY <1>1, <1>3, <1>4 DEF TypesInv, CommitsAreKept, Branches
<1>6. TriesAreBounded'
  BY <1>1 DEF TypesInv, TriesAreBounded, Phases
<1>7. QED
  BY <1>5, <1>6 DEF TypesInv

\* A rebase, of which the run has one left.
LEMMA RebaseTypes ==
  ASSUME StackInv, TypesInv, phase = "loop", MayTry, HistoriesAreSound',
         NEW top \in Branches, NEW onto, NEW upstream \in Histories, Kept(onto),
         Rebase(top, onto, upstream)
  PROVE  TypesInv'
<1>1. /\ refs \in [Branches -> Histories] /\ run \in Runs /\ run.tries \in Nat
      /\ Len(run.stack) \in Nat /\ onto \in Histories /\ top \in 0..N
      /\ run.tries < Len(run.stack)
  BY StackPlaces DEF StackInv, HistoriesAreKept, StackIsNamed, Runs, Kept, Branches, MayTry
<1>2. CASE Restore(top, refs) /\ Fail("conflict")
  <2>1. "conflict" \in Outcomes
    BY DEF Outcomes
  <2>2. QED
    BY <1>1, <1>2, <2>1, RestoreTypes
<1>3. CASE /\ refs' = Rebased(top, onto, upstream)
           /\ tree' = refs'[top]
           /\ run' = [run EXCEPT !.tries = @ + 1]
           /\ phase' = IF run.onto THEN "check" ELSE "loop"
           /\ UNCHANGED <<backups, far, outcome, edits, restacks>>
  <2>1. /\ run'.tries = run.tries + 1 /\ run'.stack = run.stack /\ run'.onto = run.onto
        /\ run'.before = run.before /\ phase' \in {"loop", "check"}
        /\ UNCHANGED <<main, remote, tracking, backups, outcome, edits, restacks>>
    BY <1>1, <1>3 DEF Runs, far
  <2>2. ASSUME NEW b \in Branches PROVE Kept(refs'[b])
    <3>1. Kept(refs[b])
      BY DEF TypesInv, CommitsAreKept
    <3>2. /\ refs'[b] \in Histories
          /\ \A x \in DOMAIN refs'[b] : Has(onto, refs'[b][x]) \/ Has(refs[b], refs'[b][x])
      BY <1>1, <1>3, RebasedHolds
    <3>3. Once(refs'[b])
      BY DEF HistoriesAreSound, Sound, Branches
    <3>4. \A x \in DOMAIN refs'[b] : refs'[b][x].v <= MaxVersion
      BY <3>1, <3>2 DEF Kept, Has
    <3>5. QED
      BY <3>2, <3>3, <3>4 DEF Kept
  <2>3. CommitsAreKept'
    <3>1. Kept(tree')
      BY <1>3, <2>2
    <3>2. QED
      BY <2>1, <2>2, <3>1 DEF TypesInv, CommitsAreKept, Branches
  <2>4. TriesAreBounded'
    <3>1. run'.tries <= Len(run'.stack)
      BY <1>1, <2>1
    <3>2. ~ (phase' = "loop" /\ run'.onto)
      BY <1>3, <2>1
    <3>3. QED
      BY <2>1, <3>1, <3>2 DEF TypesInv, TriesAreBounded, Phases
  <2>5. QED
    BY <2>3, <2>4 DEF TypesInv
<1>4. QED
  BY <1>2, <1>3 DEF Rebase

LEMMA RebaseAboveTypes ==
  ASSUME StackInv, HistoriesAreSound, TypesInv, RebaseAbove PROVE TypesInv'
<1> DEFINE prev == run.stack[Lowest - 1]
           cur  == run.stack[Lowest]
<1>1. phase = "loop" /\ phase # "idle" /\ Broken # {} /\ MayTry /\ head \in 0..N
  BY DEF RebaseAbove, StackInv, HistoriesAreKept
<1>2. prev \in Branches /\ cur \in Branches /\ Top \in Branches
  BY <1>1, LowestIs, StackPlaces
<1>3. \/ Restore(head, refs) /\ Fail("unbased")
      \/ Bases(prev, cur) # {} /\ Rebase(Top, refs[prev], OldBase(prev, cur))
  BY DEF RebaseAbove
<1> HIDE DEF prev, cur
<1>4. CASE Restore(head, refs) /\ Fail("unbased")
  <2>1. "unbased" \in Outcomes
    BY DEF Outcomes
  <2>2. QED
    BY <1>1, <1>4, <2>1, RestoreTypes
<1>5. CASE Bases(prev, cur) # {} /\ Rebase(Top, refs[prev], OldBase(prev, cur))
  <2>1. OldBase(prev, cur) \in Histories
    BY <1>2, <1>5, OldBaseIs
  <2>2. Kept(refs[prev]) /\ HistoriesAreSound'
    BY <1>2, RestackIsSound DEF TypesInv, CommitsAreKept
  <2>3. QED
    BY <1>1, <1>2, <1>5, <2>1, <2>2, RebaseTypes
<1>6. QED
  BY <1>3, <1>4, <1>5

\* --onto rebases once, and a stack has a branch.
LEMMA OntoMayTry ==
  ASSUME StackInv, TypesInv, phase = "loop", run.onto PROVE MayTry
<1>1. Len(run.stack) \in Nat \ {0}
  BY StackPlaces
<1>2. run.tries = 0
  BY DEF TypesInv, TriesAreBounded
<1>3. QED
  BY <1>1, <1>2 DEF MayTry

LEMMA RebaseOntoTypes ==
  ASSUME StackInv, HistoriesAreSound, TypesInv, RebaseOnto PROVE TypesInv'
<1>1. /\ phase = "loop" /\ phase # "idle" /\ run.onto /\ Top \in Branches /\ run \in Runs
      /\ Kept(main) /\ main \in Histories
  BY StackPlaces DEF RebaseOnto, StackInv, StackIsNamed, TypesInv, CommitsAreKept, Kept
<1>2. CASE Rebase(Top, main, main)
  <2>1. MayTry /\ HistoriesAreSound'
    BY <1>1, OntoMayTry, RestackIsSound
  <2>2. QED
    BY <1>1, <1>2, <2>1, RebaseTypes
<1>3. CASE \E landed : /\ run' = [run EXCEPT !.landed = landed]
                       /\ phase' \in {"loop", "check"}
                       /\ UNCHANGED <<local, far, outcome, edits, restacks>>
  <2>1. /\ run'.tries = run.tries /\ run'.stack = run.stack /\ run'.before = run.before
        /\ UNCHANGED <<refs, backups, tree, main, remote, tracking, outcome, edits, restacks>>
        /\ phase' # "idle"
    BY <1>1, <1>3 DEF Runs, local, far
  <2>2. CommitsAreKept'
    BY <1>1, <2>1 DEF TypesInv, CommitsAreKept, Branches
  <2>3. TriesAreBounded'
    BY <1>1, <1>3, <2>1 DEF TypesInv, TriesAreBounded, Phases
  <2>4. QED
    BY <2>2, <2>3 DEF TypesInv
<1>4. QED
  BY <1>2, <1>3 DEF RebaseOnto

LEMMA RebaseLiveTypes ==
  ASSUME StackInv, HistoriesAreSound, TypesInv, RebaseLive PROVE TypesInv'
<1>1. /\ phase = "loop" /\ phase # "idle" /\ run.onto /\ LiveAt # {}
      /\ Kept(main) /\ main \in Histories /\ Rebase(run.stack[Highest], main, main)
  BY DEF RebaseLive, StackInv, SomeIsLive, TypesInv, CommitsAreKept, Kept
<1>2. run.stack[Highest] \in Branches /\ MayTry /\ HistoriesAreSound'
  BY <1>1, HighestIs, OntoMayTry, RestackIsSound
<1>3. QED
  BY <1>1, <1>2, RebaseTypes

LEMMA LoopEndsTypes ==
  ASSUME StackInv, TypesInv, LoopEnds PROVE TypesInv'
<1>1. /\ UNCHANGED <<refs, backups, tree, main, remote, tracking, run, outcome, edits, restacks>>
      /\ phase # "idle" /\ phase' = "check"
  BY DEF LoopEnds, local, far
<1>2. CommitsAreKept'
  BY <1>1 DEF TypesInv, CommitsAreKept, Branches
<1>3. TriesAreBounded'
  BY <1>1 DEF TypesInv, TriesAreBounded, Phases
<1>4. QED
  BY <1>2, <1>3 DEF TypesInv

LEMMA CheckTypes ==
  ASSUME StackInv, TypesInv, Check PROVE TypesInv'
<1>1. phase # "idle" /\ phase = "check" /\ head \in 0..N /\ run \in Runs
  BY DEF Check, StackInv, HistoriesAreKept, StackIsNamed
<1>2. CASE Restore(head, refs) /\ Fail("stuck")
  <2>1. "stuck" \in Outcomes
    BY DEF Outcomes
  <2>2. QED
    BY <1>1, <1>2, <2>1, RestoreTypes
<1>3. CASE /\ tree' = Tip(run.orig) /\ phase' = "push"
           /\ UNCHANGED <<refs, backups, far, run, outcome, edits, restacks>>
  <2>1. UNCHANGED <<refs, backups, main, remote, tracking, run, outcome, edits, restacks>>
    BY <1>3 DEF far
  <2>2. Kept(tree')
    <3>1. run.orig \in 0..N /\ (run.orig # 0 => run.orig \in Branches)
      BY <1>1, RestackAssumption DEF Runs, Branches
    <3>2. QED
      BY <1>3, <3>1, KeptBase DEF Tip, Base, TypesInv, CommitsAreKept
  <2>3. CommitsAreKept'
    BY <1>1, <2>1, <2>2 DEF TypesInv, CommitsAreKept, Branches
  <2>4. TriesAreBounded'
    BY <1>3, <2>1 DEF TypesInv, TriesAreBounded, Phases
  <2>5. QED
    BY <2>3, <2>4 DEF TypesInv
<1>4. QED
  BY <1>2, <1>3 DEF Check

LEMMA PushTypes ==
  ASSUME StackInv, TypesInv, Push \/ PushRefused PROVE TypesInv'
<1>1. /\ UNCHANGED <<refs, backups, tree, main, run, edits, restacks>>
      /\ phase' = "idle" /\ outcome' \in Outcomes
  BY DEF Push, PushRefused, Send, local, Outcomes
<1>2. /\ DOMAIN tracking' = Branches
      /\ \A b \in Branches : remote'[b] \in {remote[b], refs[b]} /\ tracking'[b] \in {tracking[b], refs[b]}
  BY DEF Push, PushRefused, TypesInv, CommitsAreKept
<1>3. \A b \in Branches : Kept(remote'[b]) /\ Kept(tracking'[b])
  BY <1>2 DEF TypesInv, CommitsAreKept
<1>4. CommitsAreKept'
  BY <1>1, <1>2, <1>3 DEF TypesInv, CommitsAreKept, Branches
<1>5. TriesAreBounded'
  BY <1>1 DEF TypesInv, TriesAreBounded, Phases
<1>6. QED
  BY <1>4, <1>5 DEF TypesInv

LEMMA NextTypes ==
  ASSUME StackInv, HistoriesAreSound, RunInv, TypesInv, [StackNext]_stackVars PROVE TypesInv'
<1>1. CASE UNCHANGED stackVars
  <2>1. UNCHANGED <<refs, backups, tree, main, remote, tracking, phase, run, outcome, edits, restacks>>
    BY <1>1 DEF stackVars, local, far
  <2>2. QED
    BY <2>1 DEF TypesInv, CommitsAreKept, TriesAreBounded, Branches
<1>2. QED
  BY <1>1, CommitTypes, SwitchTypes, FoldTypes, LandTypes, OthersPushTypes, FetchTypes, StartTypes,
     RebaseAboveTypes, LoopEndsTypes, RebaseOntoTypes, RebaseLiveTypes, CheckTypes, PushTypes
     DEF StackNext

\* Every commit of restack's state is a history of at most two patches of every branch,
\* none of them folded more often than the bound, and the loop of src/stack.rs:655-672
\* makes no more turns than the stack has branches.
THEOREM StackTypes ==
  StackSpec => []StackTypeOK
<1> DEFINE Inv == (StackInv /\ HistoriesAreSound /\ RunInv) /\ TypesInv
<1>1. StackInit => Inv
  BY InitRuns, InitTypes
<1>2. Inv /\ [StackNext]_stackVars => Inv'
  BY NextKeepsRuns, NextTypes
<1>3. Inv => StackTypeOK
  BY TypesAreOK
<1>4. QED
  BY <1>1, <1>2, <1>3, PTL DEF StackSpec
==============================================================================
