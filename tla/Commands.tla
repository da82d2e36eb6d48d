------------------------------ MODULE Commands -------------------------------
(***************************************************************************)
(* The two front ends, the MCP server's tools (src/tools.rs) and the       *)
(* command line's subcommands (src/cli.rs), over CoreClient: one call, from  *)
(* its arguments to what it reports, while Core is used, restarted and     *)
(* replaced by others between its requests.                                *)
(*                                                                         *)
(* A handler is a script: what it looks up and checks on this machine, then *)
(* the requests it makes of Core, in the code's order.  It stops at the    *)
(* first step that fails.  Each face has its own scripts, as it has its    *)
(* own code.                                                               *)
(***************************************************************************)
EXTENDS CoreClient, SequencesExt

VARIABLE
  call  \* the call, once there is one
        \*   cmd, face, by, good : which command, from where, with which arguments
        \*   left  : the rest of its script
        \*   at    : "step", "told" (an answer to read) or "over"
        \*   built : the build's outcome
        \*   ans   : Core's answer        did : what Core changed for it
        \*   under : the schema of the Core that took a study
        \*   lost  : a request went unanswered
        \*   alone : nobody else changed Core while it ran
        \*   out, exit : the outcome, and what is reported

vars == <<core, call>>

-----------------------------------------------------------------------------
(* Scripts.  Local steps: project, bench (the [dev_bench] table), target, plan
   (a build plan without a chip), args, file, version (required against found), build,
   gate, signed.  bench.flash and bench.reset are requests for the bench's own chip. *)

\* Both faces call the functions of bootload.rs, instrument.rs and host_study.rs.
Bootload == <<"project", "plan", "file", "bootload">>

BuildAndBootload == <<"project", "plan", "build", "signed", "bootload">>

DeclareInstrument == <<"args", "instr.put">>

RunHostStudy == <<"args", "schema", "host.post">>

McpBuild ==
  [build |-> <<"project", "target", "resolve", "build">>]

McpFirmware ==
  [flash           |-> <<"project", "target", "resolve", "flash">>,
   build_and_flash |-> <<"project", "target", "resolve", "build", "gate", "flash">>]

McpBootload ==
  [bootload               |-> Bootload,
   build_and_bootload     |-> <<"project", "args", "plan", "build", "signed", "bootload">>,
   declare_bootload_ports |-> <<"args", "ports.put">>,
   show_bootload_ports    |-> <<"ports.get">>,
   clear_bootload_ports   |-> <<"ports.delete">>]

McpInstruments ==
  [declare_instrument  |-> DeclareInstrument,
   list_instruments    |-> <<"instr.list">>,
   remove_instrument   |-> <<"instr.delete">>,
   instrument_exchange |-> <<"instr.exchange">>,
   run_host_study      |-> RunHostStudy,
   answer_prompt       |-> <<"args", "prompt.post">>]

McpDevBench ==
  [build_dev_bench           |-> <<"bench", "build">>,
   flash_dev_bench           |-> <<"bench", "bench.flash">>,
   build_and_flash_dev_bench |-> <<"bench", "build", "gate", "bench.flash">>,
   reset_dev_bench           |-> <<"bench", "bench.reset">>]

McpBoards ==
  [dev_bench_hello |-> <<"hello">>,
   reset           |-> <<"project", "target", "resolve", "reset">>,
   enroll_probe    |-> <<"enroll">>,
   validate        |-> <<"args", "validate">>]

McpSignals ==
  [alerts            |-> <<"alerts">>,
   list_serial_ports |-> <<"serialports">>,
   declare_signal    |-> <<"args", "signal.post", "signal.check">>,
   signal_exchange   |-> <<"signal.exchange">>]

McpReads ==
  [mem_read       |-> <<"args", "mem">>,
   core_state     |-> <<"args", "state">>,
   list_signals   |-> <<"signal.list">>,
   remove_signal  |-> <<"signal.delete">>,
   set_role_board |-> <<"role.put">>,
   unenroll_probe |-> <<"args", "delete">>,
   dev_bench_link |-> <<"args", "link">>,
   serial_log     |-> <<"project", "args", "serial">>]

McpWatch ==
  [study_status |-> <<"study.get">>,
   study_watch  |-> <<"follow">>]

McpStreams ==
  [study_stream_data  |-> <<"stream.get">>,
   list_study_streams |-> <<"study.get">>,
   study_stream_load  |-> <<"load.get">>]

CliBuild ==
  [build |-> <<"project", "target", "resolve", "build">>,
   flash |-> <<"project", "target", "resolve", "flash">>]

CliFirmware ==
  [build_and_flash |-> <<"project", "target", "resolve", "build", "gate", "flash">>,
   reset           |-> <<"project", "target", "resolve", "reset">>]

CliBootload ==
  [bootload               |-> Bootload,
   build_and_bootload     |-> BuildAndBootload,
   declare_bootload_ports |-> <<"args", "ports.put">>,
   show_bootload_ports    |-> <<"ports.get">>,
   clear_bootload_ports   |-> <<"ports.delete">>]

CliInstruments ==
  [declare_instrument  |-> DeclareInstrument,
   list_instruments    |-> <<"instr.list">>,
   remove_instrument   |-> <<"instr.delete">>,
   run_host_study      |-> RunHostStudy,
   answer_prompt       |-> <<"args", "prompt.post">>,
   instrument_exchange |-> <<"instr.exchange">>]

CliDevBench ==
  [build_dev_bench           |-> <<"bench", "build">>,
   flash_dev_bench           |-> <<"bench", "bench.flash">>,
   build_and_flash_dev_bench |-> <<"bench", "build", "gate", "bench.flash">>,
   reset_dev_bench           |-> <<"bench", "bench.reset">>]

CliBoards ==
  [dev_bench_hello |-> <<"hello">>,
   enroll_probe    |-> <<"enroll">>,
   set_role_board  |-> <<"role.put">>,
   unenroll_probe  |-> <<"args", "delete">>]

CliBench ==
  [validate          |-> <<"args", "validate">>,
   alerts            |-> <<"alerts">>,
   list_serial_ports |-> <<"serialports">>]

CliSignals ==
  [declare_signal  |-> <<"args", "signal.post", "signal.check">>,
   list_signals    |-> <<"signal.list">>,
   signal_exchange |-> <<"signal.exchange">>]

CliReads ==
  [mem_read       |-> <<"args", "mem">>,
   core_state     |-> <<"args", "state">>,
   remove_signal  |-> <<"signal.delete">>,
   dev_bench_link |-> <<"args", "link">>,
   serial_log     |-> <<"project", "args", "serial">>]

CliWatch ==
  [study_status |-> <<"study.get">>,
   study_watch  |-> <<"follow">>]

CliStreams ==
  [study_stream_data  |-> <<"stream.get">>,
   list_study_streams |-> <<"study.get">>,
   study_stream_load  |-> <<"load.get">>]

\* run_study by what it reflashes first, each a command of its own here.
BenchFirst == {"run_study_bench", "run_study_both"}
DutFirst   == {"run_study_dut", "run_study_both"}

FlashBench == <<"bench", "build", "gate", "bench.flash", "bench.reset">>

AskBench == <<"hello", "version">>

FlashDut == <<"project", "version", "target", "resolve", "build", "gate", "flash", "reset">>

PostStudy == <<"schema", "study.post">>

\* The bench is flashed and then asked, the DUT checked and then flashed; a study that
\* requires any version of the bench does not ask.  The row is Ledger's.
RunStudy(cmd, asks) ==
  <<"args">> \o (IF cmd \in BenchFirst THEN FlashBench ELSE <<>>)
             \o (IF asks THEN AskBench ELSE <<>>)
             \o (IF cmd \in DutFirst THEN FlashDut ELSE <<>>) \o PostStudy

Studies(asks) ==
  [cmd \in {"run_study"} \cup BenchFirst \cup DutFirst |-> RunStudy(cmd, asks)]

\* status, and serial_log with a declared signal, ask at once.
Direct == [status |-> <<"status">>, serial_log_signal |-> <<"serial">>]

\* The tables of the commands of a face.
Scripts(face) ==
  {Direct, Studies(TRUE), Studies(FALSE)} \cup
  IF face = "mcp"
  THEN {McpBuild, McpFirmware, McpBootload, McpInstruments, McpDevBench, McpBoards,
        McpSignals, McpReads, McpWatch, McpStreams}
  ELSE {CliBuild, CliFirmware, CliBootload, CliInstruments, CliDevBench, CliBoards,
        CliBench, CliSignals, CliReads, CliWatch, CliStreams}

\* Commands that name a board by its role or by its probe.
NamesBoard == {"validate", "mem_read", "core_state", "unenroll_probe", "enroll_probe",
               "declare_signal"}

\* unenroll picks its route by the argument; only a board origin is read back.
Script(steps, by) ==
  LET kept == IF by = "role" /\ Last(steps) = "signal.check" THEN Front(steps) ELSE steps
  IN [i \in DOMAIN kept |->
        IF kept[i] = "delete" THEN (IF by = "role" THEN "role.delete" ELSE "serial.delete")
        ELSE kept[i]]

Local == {"project", "bench", "target", "plan", "args", "file", "version", "build",
          "gate", "signed"}

\* Requests that leave Core, or a board, other than they found it.
Effects == {"flash", "reset", "bench.flash", "bench.reset", "bootload", "ports.put",
            "ports.delete", "instr.put", "instr.delete", "host.post", "study.post",
            "prompt.post", "enroll", "role.put", "role.delete", "serial.delete",
            "signal.post", "signal.delete", "link"}

-----------------------------------------------------------------------------
(* What is reported *)

\* ok_json, or err_json and err_text: an is_error result counts as 1.
McpExit(cmd, data) == IF cmd = "instrument_exchange" /\ data = "unanswered" THEN 1 ELSE 0

\* exchange_problem: no byte at all, a reply cut off, and one without its until.
ExchangeExit(data) ==
  CASE data = "silent" -> 4 [] data = "cut" -> 5 [] data = "unseen" -> 3 [] OTHER -> 0

\* finish: 0 on success, 1 on a failure; signal-exchange has codes of its own.
CliExit(cmd, data) ==
  CASE cmd = "instrument_exchange" -> IF data = "unanswered" THEN 1 ELSE 0
    [] cmd = "signal_exchange" -> ExchangeExit(data)
    [] cmd = "study_watch" -> IF data \in {"interrupted", "timed_out"} THEN 1 ELSE 0
    [] OTHER -> 0

Exit(data) ==
  IF call.face = "mcp" THEN McpExit(call.cmd, data) ELSE CliExit(call.cmd, data)

Over(out, exit) == call' = [call EXCEPT !.at = "over", !.out = out, !.exit = exit]

-----------------------------------------------------------------------------
\* Bound: no command reads both the table of the ports and that of the bench, so these
\* two start alike.
Init ==
  /\ core \in CoreStates
  /\ core.ports = core.bench
  /\ call = <<>>

Issued(cmd, face, by, good, script) ==
  [cmd |-> cmd, face |-> face, by |-> by, good |-> good, left |-> script,
   at |-> "step", built |-> "no", ans |-> Done("none"), did |-> {}, under |-> Ours,
   lost |-> FALSE, alone |-> TRUE, out |-> "none yet", exit |-> 0]

\* A tool call arrives, or the command line is run.
Begin ==
  /\ call = <<>>
  /\ \E face \in {"mcp", "cli"} : \E table \in Scripts(face) : \E cmd \in DOMAIN table :
     \E by \in IF cmd \in NamesBoard THEN Whom ELSE {"role"} :
     \E good \in IF Contains(table[cmd], "args") THEN BOOLEAN ELSE {TRUE} :
        call' = Issued(cmd, face, by, good, Script(table[cmd], by))
  /\ UNCHANGED core

Onward(c) == [c EXCEPT !.left = Tail(@), !.at = "step"]

At(steps) == call # <<>> /\ call.at = "step" /\ call.left # <<>> /\ Head(call.left) \in steps

\* A lookup or a check on this machine passes, or ends the call before it asks Core.
Passes ==
  /\ At({"project", "bench", "target", "plan", "file", "version"})
  /\ call' = Onward(call) \/ Over("refused", 1)
  /\ UNCHANGED core

ArgsChecked ==
  /\ At({"args"})
  /\ IF call.good THEN call' = Onward(call) ELSE Over("refused", 1)
  /\ UNCHANGED core

\* run_build: see BuildLock.  A failed build ends the call; a stale artifact is a
\* warning of build, and refused by what flashes or bootloads.
BuildEnds(b) ==
  /\ At({"build"})
  /\ IF b = "failed" THEN Over("refused", 1)
     ELSE call' = [Onward(call) EXCEPT !.built = b]
  /\ UNCHANGED core

\* ready_to_flash, and the signed image's own mtime
Gate ==
  /\ At({"gate", "signed"})
  /\ IF call.built = "fresh" THEN call' = Onward(call) ELSE Over("refused", 1)
  /\ UNCHANGED core

\* A static project has its chip in the config; the file to upload may not be readable.
SkipsResolve == At({"resolve"}) /\ call' = Onward(call) /\ UNCHANGED core

UploadUnread == At({"flash", "bench.flash", "bootload"}) /\ Over("refused", 1) /\ UNCHANGED core

Requested == call # <<>> /\ call.at = "step" /\ call.left # <<>> /\ Head(call.left) \notin Local

\* Core handles the request at the head of the script.
Handles(a) ==
  LET rq == Head(call.left)
  IN IF a.code = 200
     THEN /\ core' = After(rq, call.by)
          /\ call' = [call EXCEPT !.at = "told", !.ans = a,
                        !.did = @ \cup ({rq} \cap Effects),
                        !.under = IF rq \in {"study.post", "host.post"}
                                  THEN core.build.schema ELSE @]
     ELSE call' = [call EXCEPT !.at = "told", !.ans = a] /\ UNCHANGED core

Answers ==
  /\ Requested
  /\ \E a \in Replies(Head(call.left), call.by) : Handles(a)

\* No answer within the request's timeout, or no connection: Core may have handled
\* it all the same.
Unanswered ==
  /\ Requested
  /\ Over("unreachable", 1)
  /\ UNCHANGED core

AnswerLost ==
  /\ call # <<>> /\ call.at = "told"
  /\ call' = [call EXCEPT !.at = "over", !.out = "unreachable", !.exit = 1, !.lost = TRUE]
  /\ UNCHANGED core

\* The client method reads the answer.
Reads ==
  /\ call # <<>> /\ call.at = "told"
  /\ LET o == Outcome(Head(call.left), call.by, call.ans)
     IN CASE o = "ok"   -> call' = Onward(call)
          [] o = "none" -> Over("none", 0)
          [] OTHER      -> Over(o, 1)
  /\ UNCHANGED core

Finishes ==
  /\ call # <<>> /\ call.at = "step" /\ call.left = <<>>
  /\ Over("ok", Exit(call.ans.data))
  /\ UNCHANGED core

Steps ==
  \/ Passes \/ ArgsChecked \/ Gate \/ Reads \/ Finishes
  \/ \E b \in {"fresh", "stale", "failed"} : BuildEnds(b)

\* Somebody else: Core is replaced by another build, the lease and the study move,
\* rows come and go.  Its tables are files; a study in flight ends with the process.
Others ==
  /\ call # <<>> /\ call.at \in {"step", "told"}
  /\ call' = [call EXCEPT !.alone = FALSE]
  /\ \/ \E b \in Builds \ {core.build} :
          core' = [core EXCEPT !.build = b, !.study = IF @ = "running" THEN "over" ELSE @]
     \/ core' = [core EXCEPT !.leased = ~ @]
     \/ core' = [core EXCEPT !.study = IF @ = "running" THEN "over" ELSE "running"]
     \/ \E s \in {"none", "role", "probe"} : core' = [core EXCEPT !.signal = s]

Next ==
  \/ Begin \/ Steps \/ SkipsResolve \/ UploadUnread \/ Answers \/ Unanswered \/ AnswerLost
  \/ Others

Spec == Init /\ [][Next]_vars

-----------------------------------------------------------------------------
(* Properties *)

Ended == call # <<>> /\ call.at = "over"

Facts == {"done", "absent", "noroute", "leased", "running", "unknown", "unenrolled", "norole",
          "mismatch", "unattached", "handshake", "answered", "fault"}

TypeOK ==
  /\ core \in CoreStates
  /\ call # <<>> =>
       /\ call.at \in {"step", "told", "over"}
       /\ call.did \subseteq Effects
       /\ call.ans.fact \in Facts
       /\ call.exit \in {0, 1, 3, 4, 5}

\* bootload_ports, clear_bootload_ports and remove_instrument tell an empty table from
\* a Core without the route: None or false is told only when Core had no such row,
\* whatever build of Core answers and whoever else declares and clears.
AbsenceIsReal ==
  Ended /\ call.out = "none"
        /\ call.cmd \in {"show_bootload_ports", "clear_bootload_ports", "remove_instrument"}
    => call.ans.fact = "absent"

\* Whoever reads a refusal learns its cause: a held lease is never told as a study in
\* flight or a busy dev bench, nor either of those as a lease, nor an unplugged probe
\* as another board, nor a Core that cannot tell as any of them.
RefusalNamesItsCause ==
  Ended =>
    CASE call.out = "held"          -> call.ans.fact = "leased"
      [] call.out \in {"conflict", "busy"} -> call.ans.fact = "running"
      [] call.out = "handshake"     -> call.ans.fact = "handshake"
      [] call.out = "mismatch"      -> call.ans.fact = "mismatch"
      [] call.out = "notattached"   -> call.ans.fact = "unattached"
      [] call.out = "unclassified"  -> call.ans.fact \in {"mismatch", "unattached"}
      [] call.out = "unknown"       -> call.ans.fact = "unknown"
      [] call.out = "old"           -> call.ans.fact = "noroute"
      [] OTHER -> TRUE

\* A read answered with success came from the board that was named, although a Core
\* that predates naming a board by its probe reads the DUT instead.
ReadsTheBoardNamed ==
  Ended /\ call.out = "ok" /\ call.cmd \in {"mem_read", "core_state", "validate"}
    => call.ans.data = call.by

\* A signal declared with success leaves the board it was declared on, as long as
\* nobody else changed the bench while it was declared and read back.
SignalLeavesItsBoard ==
  Ended /\ call.cmd = "declare_signal" /\ call.exit = 0 /\ call.alone
    => core.signal = call.by

\* No study is submitted to a Core of another host type schema, unless Core was
\* replaced between the check and the submit.
StudyNeedsOneSchema ==
  call # <<>> /\ call.did \cap {"study.post", "host.post"} # {} /\ call.alone
    => call.under = Ours

\* What a command changes before its last request: a signal is read back once stored,
\* and run_study flashes and resets before it submits.
OnTheWay(cmd) ==
  {rq \in Effects :
    \/ rq = "signal.post" /\ cmd = "declare_signal"
    \/ rq \in {"bench.flash", "bench.reset"} /\ cmd \in BenchFirst
    \/ rq \in {"flash", "reset"} /\ cmd \in DutFirst}

\* What a command is for: all that Core is to have changed.
Purpose(cmd, by) ==
  OnTheWay(cmd) \cup {rq \in Effects :
    \/ rq = "flash" /\ cmd \in {"flash", "build_and_flash"}
    \/ rq = "bench.flash" /\ cmd \in {"flash_dev_bench", "build_and_flash_dev_bench"}
    \/ rq = "reset" /\ cmd = "reset"
    \/ rq = "bench.reset" /\ cmd = "reset_dev_bench"
    \/ rq = "bootload" /\ cmd \in {"bootload", "build_and_bootload"}
    \/ rq = "ports.put" /\ cmd = "declare_bootload_ports"
    \/ rq = "ports.delete" /\ cmd = "clear_bootload_ports"
    \/ rq = "instr.put" /\ cmd = "declare_instrument"
    \/ rq = "instr.delete" /\ cmd = "remove_instrument"
    \/ rq = "signal.delete" /\ cmd = "remove_signal"
    \/ rq = "host.post" /\ cmd = "run_host_study"
    \/ rq = "study.post" /\ cmd \in {"run_study"} \cup BenchFirst \cup DutFirst
    \/ rq = "prompt.post" /\ cmd = "answer_prompt"
    \/ rq = "enroll" /\ cmd = "enroll_probe"
    \/ rq = "role.put" /\ cmd = "set_role_board"
    \/ rq = (IF by = "role" THEN "role.delete" ELSE "serial.delete") /\ cmd = "unenroll_probe"
    \/ rq = "link" /\ cmd = "dev_bench_link"}

\* A Core without the route answered for a board to be unenrolled by its probe.
OldUnenroll == call.cmd = "unenroll_probe" /\ call.by = "probe" /\ call.ans.fact = "noroute"

\* Exit 0, or a result that is no error, means Core did all that the command is for, or
\* said that what was to be removed was not there (but for OldUnenroll, which the method
\* cannot tell from that).  Any other means Core did at most what comes on the way, and
\* the one request whose answer was lost: a run_study that fails at its check of the
\* bench or at its submit has flashed, and no other command changed anything.
ExitTellsWhatCoreDid ==
  Ended =>
    IF call.exit = 0
    THEN \/ Purpose(call.cmd, call.by) \subseteq call.did
         \/ call.out = "none" /\ (call.ans.fact = "absent" \/ OldUnenroll)
    ELSE call.did \subseteq
           OnTheWay(call.cmd) \cup (IF call.lost THEN {Head(call.left)} ELSE {})

\* A board to be unenrolled is told not to be enrolled only by a Core that said so.
UnenrollTellsTheTruth ==
  Ended /\ call.cmd = "unenroll_probe" /\ call.out = "none" => call.ans.fact = "absent"
==============================================================================
