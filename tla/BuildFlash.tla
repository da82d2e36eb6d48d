----------------------------- MODULE BuildFlash ------------------------------
(***************************************************************************)
(* BuildLock with the artifact: the build command writes it, the runner    *)
(* judges its freshness by modification time before it drops the locks,    *)
(* and build_and_flash (src/tools.rs) reads it again, after they are       *)
(* dropped, to flash it.  build_and_bootload (src/bootload.rs) judges the  *)
(* signed image itself, after they are dropped, and by the time at which   *)
(* it asked for the build.  One file stands for the artifact and for the   *)
(* signed image: the build command writes both, or neither.                *)
(***************************************************************************)
EXTENDS BuildLock

CONSTANTS
  Bootloads,   \* the calls that are build_and_bootload
  NoArtifact,  \* "no file at artifact_path"
  Grace,       \* FRESHNESS_CLOCK_GRACE, in ticks
  Jitter,      \* how far an mtime may lag the clock, in ticks
  MaxTime      \* bound: the clock stops here

ASSUME ClockAssumption ==
  /\ Bootloads \subseteq Calls
  /\ Grace \in Nat /\ Jitter \in Nat /\ MaxTime \in Nat
  /\ Jitter <= Grace

VARIABLES
  artifact,  \* [Keys -> the file at artifact_path: its writer and its mtime]
  start,     \* [Calls -> build_start]
  existed,   \* [Calls -> artifact_existed_before]
  fresh,     \* [Calls -> artifact_fresh of the outcome]
  judged,    \* [Calls -> whose artifact that verdict was about]
  flashed,   \* pairs <<call, writer of the artifact it put on the board>>
  now        \* the clock

judgeVars == <<start, existed, fresh, judged>>
flashVars == <<artifact, judgeVars, flashed, now>>
allVars   == <<vars, artifact, start, existed, fresh, judged, flashed, now>>

Writers == Calls \cup {NoCall}
Files   == [by : Writers, at : Nat]

FlashTypeOK ==
  /\ TypeOK
  /\ artifact \in [Keys -> Files \cup {NoArtifact}]
  /\ start \in [Calls -> Nat]
  /\ existed \in [Calls -> BOOLEAN]
  /\ fresh \in [Calls -> BOOLEAN]
  /\ judged \in [Calls -> Writers]
  /\ flashed \subseteq Calls \X Writers
  /\ now \in Nat

\* A leftover artifact (by NoCall) is older than the grace when the history begins.
FlashInit ==
  /\ Init
  /\ artifact \in [Keys -> {NoArtifact, [by |-> NoCall, at |-> 0]}]
  /\ start = [c \in Calls |-> 0]
  /\ existed = [c \in Calls |-> FALSE]
  /\ fresh = [c \in Calls |-> FALSE]
  /\ judged = [c \in Calls |-> NoCall]
  /\ flashed = {}
  /\ now = Grace + 1

ArtifactOf(c) == artifact[KeyOf[c]]

\* Not the code: no grace for a lagging mtime.
FreshWithoutGrace(file, existedBefore, buildStart) ==
  file # NoArtifact /\ (existedBefore => file.at >= buildStart)

\* Not the code: a check for existence alone.
FreshIfPresent(file, existedBefore, buildStart) ==
  file # NoArtifact

\* artifact_path.exists() && artifact_is_fresh(path, existed_before, build_start)
ArtifactIsFresh(file, existedBefore, buildStart) ==
  file # NoArtifact /\ (existedBefore => file.at + Grace >= buildStart)

\* build_and_bootload takes its build_start before it waits for the locks, and takes
\* the image for one that was there before, so that its age always counts.
RequestBuild(c) ==
  /\ Request(c)
  /\ IF c \in Bootloads
     THEN /\ start' = [start EXCEPT ![c] = now]
          /\ existed' = [existed EXCEPT ![c] = TRUE]
     ELSE UNCHANGED <<start, existed>>
  /\ UNCHANGED <<artifact, fresh, judged, flashed, now>>

\* What is recorded right before the command is spawned.
SpawnBuild(c) ==
  /\ Spawn(c)
  /\ c \notin Bootloads
  /\ start' = [start EXCEPT ![c] = now]
  /\ existed' = [existed EXCEPT ![c] = ArtifactOf(c) # NoArtifact]
  /\ UNCHANGED <<artifact, fresh, judged, flashed, now>>

\* build_and_bootload makes no use of what is recorded then, nor of the verdict on it.
BootloadBuilds(c) ==
  /\ c \in Bootloads
  /\ Spawn(c) \/ Drain(c)
  /\ UNCHANGED flashVars

\* The verdict, reached while both locks are still held.
JudgeBuild(c) ==
  /\ Drain(c)
  /\ c \notin Bootloads
  /\ fresh' = [fresh EXCEPT ![c] =
       exit[c] = "ok" /\ ArtifactIsFresh(ArtifactOf(c), existed[c], start[c])]
  /\ judged' = [judged EXCEPT ![c] =
       IF ArtifactOf(c) = NoArtifact THEN NoCall ELSE ArtifactOf(c).by]
  /\ UNCHANGED <<artifact, start, existed, flashed, now>>

\* The command writes the artifact; the file system's clock may lag by Jitter.
ChildWrites(c) ==
  /\ tree[c] \in {"running", "lingering"}
  /\ \E lag \in 0..Jitter :
        artifact' = [artifact EXCEPT ![KeyOf[c]] = [by |-> c, at |-> now - lag]]
  /\ UNCHANGED <<vars, judgeVars, flashed, now>>

\* A pristine build empties the directory first.
ChildRemoves(c) ==
  /\ tree[c] = "running"
  /\ artifact' = [artifact EXCEPT ![KeyOf[c]] = NoArtifact]
  /\ UNCHANGED <<vars, judgeVars, flashed, now>>

\* The flash itself, once ready_to_flash allows it.
FlashAnyBuild(c) ==
  /\ pc[c] = "done" /\ verdict[c] = "succeeded"
  /\ ArtifactOf(c) # NoArtifact
  /\ flashed' = flashed \cup {<<c, ArtifactOf(c).by>>}
  /\ UNCHANGED <<vars, artifact, judgeVars, now>>

\* build_and_flash after ready_to_flash: Core reads artifact_path, or the client
\* reads it to upload it, with no lock held.  A file that is gone fails the flash.
FlashArtifact(c) ==
  /\ fresh[c] /\ ~ \E w \in Writers : <<c, w>> \in flashed
  /\ FlashAnyBuild(c)

\* The upload itself; alone, not the code: the image of any build that succeeded.
BootloadUnjudged(c) ==
  /\ c \in Bootloads
  /\ ~ \E w \in Writers : <<c, w>> \in flashed
  /\ FlashAnyBuild(c)

\* build_and_bootload after the build: the signed image is there and fresh, and Core
\* or the client reads it.
BootloadImage(c) ==
  /\ ArtifactIsFresh(ArtifactOf(c), existed[c], start[c])
  /\ BootloadUnjudged(c)

Tick ==
  /\ now < MaxTime
  /\ now' = now + 1
  /\ UNCHANGED <<vars, artifact, judgeVars, flashed>>

Elsewhere(c) ==
  /\ \/ TakeMutex(c) \/ LockFileFails(c) \/ TryLock(c) \/ StartFails(c)
     \/ WaitReturns(c) \/ TimeOut(c) \/ DropFile(c) \/ DropMutex(c)
     \/ ChildExits(c) \/ LingererExits(c) \/ Cancel(c)
  /\ UNCHANGED flashVars

FlashNext ==
  \/ \E c \in Calls :
        \/ RequestBuild(c) \/ SpawnBuild(c) \/ BootloadBuilds(c) \/ JudgeBuild(c)
        \/ ChildWrites(c) \/ ChildRemoves(c)
        \/ FlashArtifact(c) \/ BootloadImage(c) \/ Elsewhere(c)
  \/ \E p \in Procs : Kill(p) /\ UNCHANGED flashVars
  \/ Tick
  \/ Quiet /\ UNCHANGED flashVars

FlashSpec == FlashInit /\ [][FlashNext]_allVars

-----------------------------------------------------------------------------
(* Properties *)

\* An artifact that lay there before the history began never reaches the board: a
\* build that left it untouched is refused, whatever failed, timed-out, pristine and
\* abandoned builds of the directory came before it or run beside it, and however
\* long a build_and_bootload waited for the locks.
LeftoverNeverFlashed ==
  \A c \in Calls : <<c, NoCall>> \notin flashed

\* A build that exited 0 and whose artifact is its own is never refused as stale,
\* although the file's mtime may lag the clock that stamped build_start.
OwnWriteIsFresh ==
  \A c \in Calls : verdict[c] = "succeeded" /\ judged[c] = c => fresh[c]

\* "Refuses to flash a stale or failed build", says build_and_flash: what a call
\* puts on the board was not made by a build that has already failed.
FlashesNoFailedBuild ==
  [][\A c, d \in Calls :
       <<c, d>> \in flashed' \ flashed => exit[d] \notin {"bad", "timeout"}]_allVars
==============================================================================
