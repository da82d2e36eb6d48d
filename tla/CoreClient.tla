----------------------------- MODULE CoreClient ------------------------------
(***************************************************************************)
(* embarch-core as its clients see it, and what CoreClient (client.rs)     *)
(* makes of each answer.                                                   *)
(*                                                                         *)
(* Core is outside this repository: its tables, its routes and the answers *)
(* below are those the client's code tells apart.  Core may be older than  *)
(* this client, so a route may be missing, a field of a request ignored    *)
(* and a field of an answer absent.                                        *)
(*                                                                         *)
(* An answer is a status code, the class of its body, the one datum the    *)
(* client reads in it, and (for the properties only) why Core gave it.     *)
(***************************************************************************)
EXTENDS Naturals, Sequences

CONSTANTS
  Ours,   \* HOST_TYPE_SCHEMA_VERSION of this build
  Builds  \* the builds of Core there are: [knows : features, schema : version]

VARIABLE core

\* The DUT's board holds a role; the bench board is named by its probe alone.
Whom == {"role", "probe"}

CoreStates ==
  [build    : Builds,
   ports    : BOOLEAN,                              \* bootload ports declared
   bench    : BOOLEAN,                              \* an instrument declared
   signal   : {"none", "norole", "role", "probe"},  \* a signal, and what it leaves
   enrolled : SUBSET Whom,                          \* boards enrolled
   leased   : BOOLEAN,                              \* somebody else holds the lease
   study    : {"none", "running", "over"}]

Knows(f) == f \in core.build.knows

-----------------------------------------------------------------------------
(* Core's side *)

Reply(code, body, data, fact) == [code |-> code, body |-> body, data |-> data, fact |-> fact]

Done(data)  == Reply(200, "json", data, "done")
Said(code, fact) == Reply(code, "words", "none", fact)
Missing     == Said(404, "absent")
NoRoute     == Reply(404, "empty", "none", "noroute")
LeaseHeld   == Reply(409, "lease", "none", "leased")

\* The feature a route came with, for the routes the client knows to be younger
\* than a Core it may meet.
FeatureOf(rq) ==
  CASE rq \in {"ports.put", "ports.get", "ports.delete", "bootload"} -> "bootload"
    [] rq \in {"instr.put", "instr.list", "instr.delete", "instr.exchange"} -> "instruments"
    [] rq = "serial.delete" -> "probes"
    [] rq = "host.post"     -> "hoststudies"
    [] rq = "prompt.post"   -> "prompts"
    [] OTHER -> "any"

HasRoute(rq) == FeatureOf(rq) = "any" \/ Knows(FeatureOf(rq))

\* Requests that touch the bench: refused without the live lease's token.
Benchwork == {"flash", "reset", "bench.flash", "bench.reset", "bootload", "instr.exchange",
              "signal.exchange", "validate", "mem", "state", "study.post", "host.post", "hello"}

\* The board a read goes to: a Core that predates probe_serial reads the DUT.
BoardRead(by) == IF by = "probe" /\ Knows("probes") THEN "probe" ELSE "role"

\* A mismatch of the topology, with its kind if this Core tells it.
Mismatch(code, kind, fact) ==
  IF Knows("kinds") THEN Reply(code, "kind", kind, fact) ELSE Reply(code, "nokind", "none", fact)

Row(there) == IF there THEN {Done("none")} ELSE {Missing}

Own(rq, by) ==
  CASE rq \in {"ports.get", "ports.delete"} -> Row(core.ports)
    [] rq = "instr.delete"  -> Row(core.bench)
    [] rq = "role.delete"   -> Row("role" \in core.enrolled)
    [] rq = "serial.delete" -> Row("probe" \in core.enrolled)
    [] rq = "signal.delete" -> Row(core.signal # "none")
    [] rq = "instr.exchange" ->
         IF ~ core.bench THEN {Missing}
         ELSE IF core.study = "running" THEN {Said(409, "running")}
         ELSE {Done("answered"), Done("unanswered")}
    [] rq = "signal.exchange" ->
         IF core.signal = "none" THEN {Missing}
         ELSE {Done(q) : q \in {"complete", "unseen", "silent", "cut"}}
    [] rq = "signal.post" ->
         IF by = "probe" /\ Knows("boards") /\ "probe" \notin core.enrolled
         THEN {Said(404, "unenrolled")} ELSE {Done("none")}
    [] rq \in {"signal.list", "signal.check"} -> {Done(core.signal)}
    [] rq \in {"mem", "state"} ->
         IF BoardRead(by) \in core.enrolled
         THEN {Done(BoardRead(by))} ELSE {Said(404, "unenrolled")}
    [] rq = "validate" ->
         IF by = "probe" /\ ~ Knows("probes") THEN {Said(422, "norole")}
         ELSE IF by \notin core.enrolled THEN {Said(404, "unenrolled")}
         ELSE {Done(by), Mismatch(409, "mismatch", "mismatch"),
               Mismatch(503, "notattached", "unattached")}
    [] rq \in {"status", "schema"} -> {Done(core.build.schema)}
    [] rq = "study.post" ->
         IF core.study = "running" THEN {Reply(409, "study", "none", "running")}
         ELSE {Done("none")}
    [] rq = "host.post" ->
         IF core.study = "running" THEN {Said(409, "running")} ELSE {Done("none")}
    [] rq = "hello" ->
         IF core.study = "running" THEN {Said(409, "running")}
         ELSE {Done("none"), Said(502, "handshake")}
    [] rq = "study.get" ->
         IF core.study = "none" THEN {Said(404, "unknown")} ELSE {Done("none")}
    [] rq = "prompt.post" ->
         IF core.study = "none" THEN {Reply(404, "id", "none", "unknown")}
         ELSE IF core.study = "running" THEN {Done("none"), Said(409, "answered")}
         ELSE {Said(409, "answered")}
    [] rq \in {"stream.get", "load.get"} ->
         IF core.study = "over" THEN {Done("none"), Missing} ELSE {Missing}
    [] rq = "follow" ->
         IF core.study = "none" THEN {Said(404, "unknown")}
         ELSE {Done(e) : e \in {"completed", "failed", "interrupted", "timed_out"}}
    [] OTHER -> {Done("none")}

Replies(rq, by) ==
  IF ~ HasRoute(rq) THEN {NoRoute}
  ELSE IF rq \in Benchwork /\ core.leased THEN {LeaseHeld}
  ELSE Own(rq, by) \cup {Said(500, "fault")}

\* What Core's tables hold once it answered a with success.
After(rq, by) ==
  CASE rq = "ports.put"     -> [core EXCEPT !.ports = TRUE]
    [] rq = "ports.delete"  -> [core EXCEPT !.ports = FALSE]
    [] rq = "instr.put"     -> [core EXCEPT !.bench = TRUE]
    [] rq = "instr.delete"  -> [core EXCEPT !.bench = FALSE]
    [] rq = "enroll"        -> [core EXCEPT !.enrolled = @ \cup {by}]
    [] rq = "role.delete"   -> [core EXCEPT !.enrolled = @ \ {"role"}]
    [] rq = "serial.delete" -> [core EXCEPT !.enrolled = @ \ {"probe"}]
    [] rq = "signal.post"   -> [core EXCEPT !.signal =
                                  IF by = "probe" /\ ~ Knows("boards") THEN "norole" ELSE by]
    [] rq = "signal.delete" -> [core EXCEPT !.signal = "none"]
    [] rq \in {"study.post", "host.post"} -> [core EXCEPT !.study = "running"]
    [] OTHER -> core

-----------------------------------------------------------------------------
(* The client's side: an answer that is not a success *)

\* bootload_route_missing and instrument_route_missing: a 404 of Core's own always
\* says why, so one without a body is a route this Core does not have.
RouteMissing(a) == a.code = 404 /\ a.body = "empty"

\* lease_refusal: the prefix of its body alone tells this 409 from the others.
LeaseRefusal(a) == a.code = 409 /\ a.body = "lease"

\* send and send_no_content
SendFailed(a) == "error"

\* declare_bootload_ports, bootload, declare_instrument, instruments, instrument_exchange
RoutedFailed(a) == IF RouteMissing(a) THEN "old" ELSE "error"

\* Not the code: any 404 is an empty table.
AbsentOnAny404(a) == IF a.code = 404 THEN "none" ELSE "error"

\* bootload_ports, clear_bootload_ports and remove_instrument answer None or false
AbsentOrOld(a) ==
  CASE RouteMissing(a) -> "old"
    [] a.code = 404 /\ ~ RouteMissing(a) -> "none"
    [] OTHER -> "error"

\* delete_enrollment and remove_signal
DeleteFailed(a) == IF a.code = 404 THEN "none" ELSE "error"

\* From<TopologyMismatchBody>: without a kind it is neither of the two.
MismatchKind(a) ==
  CASE a.body = "nokind" -> "unclassified"
    [] a.body = "kind" -> a.data
    [] OTHER -> "error"

\* validate_board
ValidateFailed(a) ==
  CASE LeaseRefusal(a) -> "held"
    [] ~ LeaseRefusal(a) /\ a.code \in {409, 503} -> MismatchKind(a)
    [] a.code = 404 -> "unenrolled"
    [] OTHER -> "error"

\* post_study
StudyFailed(a) ==
  CASE LeaseRefusal(a) -> "held"
    [] a.code = 409 /\ a.body = "study" -> "conflict"
    [] OTHER -> "error"

\* post_host_study
HostStudyFailed(a) ==
  CASE LeaseRefusal(a) -> "held"
    [] a.code \in {404, 405} -> "old"
    [] OTHER -> "error"

\* get_study_status, and the follow's opening poll
StatusFailed(a) == IF a.code = 404 THEN "unknown" ELSE "error"

\* Not the code: a prompt somebody has answered already is as good as answered.
AnsweredIsFine(a) == IF a.code = 409 THEN "none" ELSE "error"

\* answer_prompt: Core's own 404 names the study
PromptFailed(a) ==
  CASE a.code = 404 /\ a.body = "id" -> "unknown"
    [] a.code \in {404, 405} /\ a.body # "id" -> "old"
    [] OTHER -> "error"

\* get_study_csv keeps Core's words on a 404; get_study_load any body
CaptureFailed(a) == "error"

\* Not the code: the dev bench is asked about before the lease.
BusyBeforeLease(a) ==
  CASE a.code = 409 -> "busy"
    [] a.code = 502 -> "handshake"
    [] OTHER -> "error"

\* dev_bench_hello
HelloFailed(a) ==
  CASE LeaseRefusal(a) -> "held"
    [] a.code = 409 /\ ~ LeaseRefusal(a) -> "busy"
    [] a.code = 502 -> "handshake"
    [] OTHER -> "error"

\* What each family of methods makes of a refusal
Tables   == {"ports.get", "ports.delete", "instr.delete"}

Declared == {"ports.put", "instr.put", "instr.list"}

Boards   == {"reset", "bench.reset", "enroll", "role.put"}

Listed   == {"alerts", "resolve", "serial"}

Link     == {"link", "serialports"}

Refused(rq, a) ==
  CASE rq \in Tables -> AbsentOrOld(a)
    [] rq \in Declared \cup {"bootload", "instr.exchange"} -> RoutedFailed(a)
    [] rq \in {"role.delete", "serial.delete", "signal.delete"} -> DeleteFailed(a)
    [] rq \in Boards \cup Listed \cup Link -> SendFailed(a)
    [] OTHER -> "error"

Failed(rq, a) ==
  CASE rq = "validate"    -> ValidateFailed(a)
    [] rq = "study.post"  -> StudyFailed(a)
    [] rq = "host.post"   -> HostStudyFailed(a)
    [] rq \in {"study.get", "follow"} -> StatusFailed(a)
    [] rq = "prompt.post" -> PromptFailed(a)
    [] rq \in {"stream.get", "load.get"} -> CaptureFailed(a)
    [] rq = "hello"       -> HelloFailed(a)
    [] OTHER -> Refused(rq, a)

-----------------------------------------------------------------------------
(* The client's side: an answer that is a success, and may still be refused *)

\* Not the code: whatever board answered is taken for the one asked about.
AnyBoardWillDo(by, a) == "ok"

\* Board::check_answered, for a board named by its probe
CheckAnswered(by, a) == IF by = "probe" /\ a.data # "probe" THEN "wrongboard" ELSE "ok"

\* Not the code: 204 is proof enough.
StoredSomehow(a) == "ok"

\* declare_signal reads back the row of a signal that leaves a bench board.
StoredWithBoard(a) == IF a.data = "probe" THEN "ok" ELSE "noboard"

\* Not the code: any version will do.
SchemaServed(a) == "ok"

\* post_study and post_host_study before they submit
SchemaAgrees(a) == IF a.data = Ours THEN "ok" ELSE "schema"

Accepted(rq, by, a) ==
  CASE rq \in {"mem", "state"} -> CheckAnswered(by, a)
    [] rq = "signal.check"     -> StoredWithBoard(a)
    [] rq = "schema"           -> SchemaAgrees(a)
    [] OTHER -> "ok"

\* What the client method returns for the answer a.
Outcome(rq, by, a) == IF a.code = 200 THEN Accepted(rq, by, a) ELSE Failed(rq, a)
==============================================================================
