------------------------------ MODULE RunStudy ------------------------------
(***************************************************************************)
(* run_study of src/reflash.rs with the handlers that call it: check,      *)
(* build, flash, reset, submit, and the ledger row after it.  Several      *)
(* calls of several sessions share the two boards, and engineers edit the  *)
(* trees that are built.                                                   *)
(*                                                                         *)
(* A version stands for the tree it is derived from, the artifact that is  *)
(* built from it and the image on a board.  One build excludes another of  *)
(* the same directory (BuildLock) and is one step here; the artifact it    *)
(* wrote is flashed later, with no lock held.                              *)
(***************************************************************************)
EXTENDS Naturals, FiniteSets

CONSTANTS
  Calls,
  Versions,
  AnyVersion,  \* REQUIREMENT_ANY
  NoVersion,   \* "none": nothing derived, built or reported
  Requests     \* the requests a call may make

Boards == {"bench", "dut"}

Request == [reflash : SUBSET Boards, project : BOOLEAN, allow : BOOLEAN,
            bench : Versions \cup {AnyVersion}, firmware : Versions \cup {AnyVersion}]

ASSUME RequestAssumption ==
  /\ AnyVersion \notin Versions /\ NoVersion \notin Versions /\ AnyVersion # NoVersion
  /\ Requests \subseteq Request

VARIABLES
  tree,     \* [board -> the version its project's working tree stands at]
  artifact, \* [board -> what lies at artifact_path]
  board,    \* [board -> the image in flash, and whether it runs]
  pc,       \* [call -> the step it is at]
  req,      \* [call -> its request]
  seen,     \* [call -> outcome.dev_bench_version]
  version,  \* [call -> the DUT version it derived]
  flashes,  \* [call -> the boards it flashed]
  moved,    \* [call -> what others moved after it relied on it: a board, its row's facts]
  row       \* [call -> the ledger row: hash of the image, commit of the tree]

world == <<tree, artifact, board>>
notes == <<seen, version, flashes, row>>
vars  == <<world, pc, req, notes, moved>>

Images == Versions \cup {NoVersion}
NoRow  == [hash |-> NoVersion, commit |-> NoVersion]

Steps == {"asked", "bench_build", "bench_flash", "bench_reset", "hello", "derive",
          "dut_build", "dut_flash", "dut_reset", "post", "record", "done",
          "failed", "mismatch"}

TypeOK ==
  /\ tree \in [Boards -> Versions]
  /\ artifact \in [Boards -> Images]
  /\ board \in [Boards -> [image : Images, runs : BOOLEAN]]
  /\ pc \in [Calls -> Steps]
  /\ req \in [Calls -> Requests]
  /\ seen \in [Calls -> Images]
  /\ version \in [Calls -> Images]
  /\ flashes \in [Calls -> SUBSET Boards]
  /\ moved \in [Calls -> SUBSET {"bench", "dut", "row"}]
  /\ row \in [Calls -> [hash : Images, commit : Images]]

Init ==
  /\ tree \in [Boards -> Versions]
  /\ artifact = [b \in Boards |-> NoVersion]
  /\ board \in [Boards -> [image : Versions, runs : {TRUE}]]
  /\ pc = [c \in Calls |-> "asked"]
  /\ req \in [Calls -> Requests]
  /\ seen = [c \in Calls |-> NoVersion]
  /\ version = [c \in Calls |-> NoVersion]
  /\ flashes = [c \in Calls |-> {}]
  /\ moved = [c \in Calls |-> {}]
  /\ row = [c \in Calls |-> NoRow]

\* requirement_satisfied of embarch-study-designer
Satisfied(required, actual) == required = AnyVersion \/ required = actual

-----------------------------------------------------------------------------
(* What moves under a call after it relied on it *)

AfterDerive == {"dut_build", "dut_flash", "dut_reset", "post", "record"}
AfterFlash  == {"dut_reset", "post", "record"}

\* The bench is read back, so what moves it is a flash after that.  The DUT is not: its
\* version is that of the tree before the build, its image the artifact after it.
Hit(d, event, b) ==
  IF b = "bench"
  THEN IF event = "flash" /\ pc[d] \in {"bench_reset", "hello", "derive"} \cup AfterDerive
       THEN {"bench"} ELSE {}
  ELSE CASE event = "edit"  -> {w \in {"dut"} : pc[d] = "dut_build"}
                               \cup {w \in {"row"} : pc[d] \in AfterDerive}
         [] event = "build" -> {w \in {"dut"} : pc[d] = "dut_flash"}
                               \cup {w \in {"row"} : pc[d] \in AfterDerive}
         [] event = "flash" -> {w \in {"dut"} : pc[d] \in AfterFlash}

MoveFor(others, event, b) ==
  moved' = [d \in Calls |-> IF d \in others THEN moved[d] \cup Hit(d, event, b) ELSE moved[d]]

\* An engineer edits a tree, or checks another revision out.
Edit(b) ==
  /\ \E v \in Versions \ {tree[b]} : tree' = [tree EXCEPT ![b] = v]
  /\ MoveFor(Calls, "edit", b)
  /\ UNCHANGED <<artifact, board, pc, req, notes>>

-----------------------------------------------------------------------------
(* One call *)

Goto(c, step) == pc' = [pc EXCEPT ![c] = step]

\* Where the call goes after the dev bench, and after its check.
AfterAsked(c) == IF "bench" \in req[c].reflash THEN "bench_build" ELSE "hello"
AfterHello(c) == IF "dut" \in req[c].reflash THEN "derive" ELSE "post"

\* The request parses, the study is resealed, and a DUT to reflash has its project.
Begin(c) ==
  /\ pc[c] = "asked"
  /\ "dut" \in req[c].reflash => req[c].project
  /\ Goto(c, AfterAsked(c))
  /\ UNCHANGED <<world, req, notes, moved>>

\* A bad request, a missing [dev_bench] or project, a version command that is refused,
\* fails or prints nothing, a selection that does not resolve, a Core that cannot be
\* reached or refuses, a call that is cancelled.
Fail(c) ==
  /\ pc[c] \notin {"record", "done", "failed", "mismatch"}
  /\ Goto(c, "failed")
  /\ UNCHANGED <<world, req, notes, moved>>

BuildStep(b) == IF b = "bench" THEN "bench_build" ELSE "dut_build"
FlashStep(b) == IF b = "bench" THEN "bench_flash" ELSE "dut_flash"
ResetStep(b) == IF b = "bench" THEN "bench_reset" ELSE "dut_reset"

\* A flash halts the core: each is followed by a reset, the bench's by its check.
AfterFlashOf(b) == ResetStep(b)

\* Not the code: a bench that was just flashed is not read back.
TrustFlash(c, b) == IF b = "bench" THEN AfterHello(c) ELSE "post"

AfterReset(c, b) == IF b = "bench" THEN "hello" ELSE "post"

\* run_build, and ready_to_flash.
Build(c, b) ==
  /\ pc[c] = BuildStep(b)
  /\ artifact' = [artifact EXCEPT ![b] = tree[b]]
  /\ MoveFor(Calls \ {c}, "build", b)
  /\ Goto(c, FlashStep(b))
  /\ UNCHANGED <<tree, board, req, notes>>

\* A failed build may have removed the artifact.
BuildFails(c, b) ==
  /\ pc[c] = BuildStep(b)
  /\ artifact' = [artifact EXCEPT ![b] = NoVersion]
  /\ MoveFor(Calls \ {c}, "build", b)
  /\ Goto(c, "failed")
  /\ UNCHANGED <<tree, board, req, notes>>

\* Core flashes what lies at the artifact's path, and leaves the board halted.
Flash(c, b) ==
  /\ pc[c] = FlashStep(b)
  /\ artifact[b] # NoVersion
  /\ board' = [board EXCEPT ![b] = [image |-> artifact[b], runs |-> FALSE]]
  /\ flashes' = [flashes EXCEPT ![c] = @ \cup {b}]
  /\ MoveFor(Calls \ {c}, "flash", b)
  /\ Goto(c, AfterFlashOf(b))
  /\ UNCHANGED <<tree, artifact, req, seen, version, row>>

\* A flash that fails midway leaves no image.
FlashFails(c, b) ==
  /\ pc[c] = FlashStep(b)
  /\ board' = [board EXCEPT ![b] = [image |-> NoVersion, runs |-> FALSE]]
  /\ flashes' = [flashes EXCEPT ![c] = @ \cup {b}]
  /\ MoveFor(Calls \ {c}, "flash", b)
  /\ Goto(c, "failed")
  /\ UNCHANGED <<tree, artifact, req, seen, version, row>>

Reset(c, b) ==
  /\ pc[c] = ResetStep(b)
  /\ board' = [board EXCEPT ![b] = [image |-> board[b].image, runs |-> TRUE]]
  /\ Goto(c, AfterReset(c, b))
  /\ UNCHANGED <<tree, artifact, req, notes, moved>>

\* "any" is not worth opening the bench's serial link for.
SkipHello(c) ==
  /\ pc[c] = "hello" /\ req[c].bench = AnyVersion
  /\ Goto(c, AfterHello(c))
  /\ UNCHANGED <<world, req, notes, moved>>

\* GET /dev-bench/hello: a halted bench, or one without an image, never replies.
Hello(c) ==
  /\ pc[c] = "hello" /\ req[c].bench # AnyVersion
  /\ board["bench"].runs /\ board["bench"].image # NoVersion
  /\ seen' = [seen EXCEPT ![c] = board["bench"].image]
  /\ moved' = [moved EXCEPT ![c] = @ \ {"bench"}]
  /\ Goto(c, IF Satisfied(req[c].bench, seen'[c]) \/ req[c].allow
             THEN AfterHello(c) ELSE "mismatch")
  /\ UNCHANGED <<world, req, version, flashes, row>>

\* Not the code: the mismatch is not looked at.
DeriveUnchecked(c) ==
  /\ pc[c] = "derive"
  /\ version' = [version EXCEPT ![c] = tree["dut"]]
  /\ Goto(c, "dut_build")
  /\ UNCHANGED <<world, req, seen, flashes, row, moved>>

\* derive_version, and the check against what the study requires.
Derive(c) ==
  /\ pc[c] = "derive"
  /\ version' = [version EXCEPT ![c] = tree["dut"]]
  /\ Goto(c, IF Satisfied(req[c].firmware, version'[c]) \/ req[c].allow
             THEN "dut_build" ELSE "mismatch")
  /\ UNCHANGED <<world, req, seen, flashes, row, moved>>

\* Core's own gate may refuse a study (Fail); that it accepts no other is not assumed.
Post(c) ==
  /\ pc[c] = "post"
  /\ Goto(c, "record")
  /\ UNCHANGED <<world, req, notes, moved>>

\* Not the code: the first image that was flashed, whichever board it is for.
FirstImage(c) ==
  IF "bench" \in flashes[c] THEN artifact["bench"]
  ELSE IF "dut" \in flashes[c] THEN artifact["dut"] ELSE NoVersion

\* dut_image: what is hashed is the artifact that was flashed to the DUT, if one was.
DutImage(c) == IF "dut" \in flashes[c] THEN artifact["dut"] ELSE NoVersion

\* record_submission, for the project that is named or the open desk's: the artifact
\* is hashed and HEAD is read now.
Record(c) ==
  /\ pc[c] = "record"
  /\ row' = [row EXCEPT ![c] = [hash |-> DutImage(c), commit |-> tree["dut"]]]
  /\ Goto(c, "done")
  /\ UNCHANGED <<world, req, seen, version, flashes, moved>>

\* No project, an unreadable ledger, an artifact that is gone; or the call dies.
RecordSkipped(c) ==
  /\ pc[c] = "record"
  /\ Goto(c, "done")
  /\ UNCHANGED <<world, req, notes, moved>>

Ended(c) == pc[c] \in {"done", "failed", "mismatch"}

Done == (\A c \in Calls : Ended(c)) /\ UNCHANGED vars

Step(c) ==
  \/ Begin(c) \/ Fail(c) \/ SkipHello(c) \/ Hello(c) \/ Derive(c)
  \/ Post(c) \/ Record(c) \/ RecordSkipped(c)
  \/ \E b \in Boards : Build(c, b) \/ BuildFails(c, b) \/ Flash(c, b)
                       \/ FlashFails(c, b) \/ Reset(c, b)

Next ==
  \/ \E c \in Calls : Step(c)
  \/ \E b \in Boards : Edit(b)
  \/ Done

Spec == Init /\ [][Next]_vars

-----------------------------------------------------------------------------
(* Properties *)

Accepted(c) == pc[c] = "record"

RunsAsRequired(c) ==
  /\ \A b \in flashes[c] \ moved[c] : board[b].runs
  /\ req[c].bench # AnyVersion /\ ~ req[c].allow /\ "bench" \notin moved[c] =>
       board["bench"].runs /\ Satisfied(req[c].bench, board["bench"].image)
  /\ "dut" \in req[c].reflash /\ "dut" \notin moved[c] =>
       board["dut"].image = version[c] /\ (req[c].allow \/ Satisfied(req[c].firmware, version[c]))

\* A study is submitted to boards that run, if the call flashed them; the DUT holds the
\* version that is recorded as flashed, and without the override both boards are what
\* the study requires; unless somebody flashed the board since, or moved the DUT's
\* tree or artifact between the derivation and the flash.
RunsWhatItRequires == \A c \in Calls : Accepted(c) => RunsAsRequired(c)

\* The DUT is never overwritten for a study that the versions will refuse.
DutIsTouchedLast ==
  \A c \in Calls : "dut" \in flashes[c] =>
    /\ "dut" \in req[c].reflash
    /\ req[c].allow \/
         /\ req[c].bench = AnyVersion \/ (seen[c] # NoVersion /\ Satisfied(req[c].bench, seen[c]))
         /\ Satisfied(req[c].firmware, version[c])

\* The ledger's row names the image that was flashed and the commit it was built from,
\* unless the tree moved under the call.
RowNamesTheImage ==
  \A c \in Calls :
    row[c] # NoRow /\ "dut" \in flashes[c] /\ "row" \notin moved[c] =>
      row[c] = [hash |-> version[c], commit |-> version[c]]

\* "if the tree isn't at the revision the study wants, the call fails naming both
\* revisions and leaves the tree, and the board, alone".
MismatchLeavesBoards ==
  \A c \in Calls : pc[c] = "mismatch" => flashes[c] = {}
=============================================================================
