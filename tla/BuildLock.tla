------------------------------ MODULE BuildLock ------------------------------
(***************************************************************************)
(* The build runner of crates/embarch-firmware-build/src/build.rs: several *)
(* operating-system processes (MCP servers, CLI calls, the desktop UI) run *)
(* build calls.  A call takes a per-process asynchronous mutex, then polls *)
(* an advisory lock on the key's file, spawns the build command in its own *)
(* process group, waits for it or times out, drains its pipes, and drops   *)
(* the file lock and then the mutex.  BuildFlash adds the artifact.        *)
(*                                                                         *)
(* A process can be killed and a call's future can be dropped at any of    *)
(* its await points; neither of them touches the build command that was    *)
(* spawned, which lives on in its own process group.                       *)
(***************************************************************************)
EXTENDS Naturals, FiniteSets

CONSTANTS
  Calls,       \* run_build / run_build_streaming calls
  Procs,       \* operating-system processes that make them
  Keys,        \* lock keys, one output directory each
  Home,        \* [Calls -> Procs]: the process a call runs in
  KeyOf,       \* [Calls -> Keys]: the lock_key of its plan
  NoCall,      \* "nobody"
  MaxAborts    \* bound: kills and cancellations per behaviour

ASSUME BuildAssumption ==
  /\ Home \in [Calls -> Procs]
  /\ KeyOf \in [Calls -> Keys]
  /\ NoCall \notin Calls
  /\ MaxAborts \in Nat

VARIABLES
  pc,        \* where each call is
  mutex,     \* the calls that hold their process's mutex for their key
  flock,     \* [Keys -> the call whose open file holds the advisory lock]
  tree,      \* [Calls -> the state of the process tree the call spawned]
  exit,      \* [Calls -> how the build command ended]
  verdict,   \* [Calls -> what the call reports]
  aborts     \* kills and cancellations so far

vars == <<pc, mutex, flock, tree, exit, verdict, aborts>>

\* "idle" before the call, "mutex" awaiting lock_owned, "file" polling try_lock,
\* "start" both locks held and nothing spawned, "build" awaiting child.wait,
\* "drain" awaiting the two drain tasks, "unlock" dropping the file,
\* "unmutex" dropping the guard, "done" returned, "dead" its process was killed.
Phases   == {"idle", "mutex", "file", "start", "build", "drain", "unlock", "unmutex", "done", "dead"}
Locked   == {"start", "build", "drain", "unlock"}
Guarded  == Locked \cup {"file", "unmutex"}
Ended    == {"done", "dead"}

\* "running": the command itself runs.  "lingering": it has exited, and a process
\* it left behind still holds its pipes.  "gone": nothing of it is left.
Trees    == {"none", "running", "lingering", "gone"}
Exits    == {"none", "ok", "bad", "timeout"}
Verdicts == {"none", "error", "cancelled", "failed", "succeeded"}

TypeOK ==
  /\ pc \in [Calls -> Phases]
  /\ mutex \subseteq Calls
  /\ flock \in [Keys -> Calls \cup {NoCall}]
  /\ tree \in [Calls -> Trees]
  /\ exit \in [Calls -> Exits]
  /\ verdict \in [Calls -> Verdicts]
  /\ aborts \in 0..MaxAborts

Init ==
  /\ pc = [c \in Calls |-> "idle"]
  /\ mutex = {}
  /\ flock = [k \in Keys |-> NoCall]
  /\ tree = [c \in Calls |-> "none"]
  /\ exit = [c \in Calls |-> "none"]
  /\ verdict = [c \in Calls |-> "none"]
  /\ aborts = 0

Goto(c, phase) == pc' = [pc EXCEPT ![c] = phase]
Report(c, what) == verdict' = [verdict EXCEPT ![c] = what]
SameMutex(c, d) == Home[c] = Home[d] /\ KeyOf[c] = KeyOf[d]

-----------------------------------------------------------------------------
(* Taking the two locks *)

\* run_build is called and awaits the key's mutex.
Request(c) ==
  /\ pc[c] = "idle"
  /\ Goto(c, "mutex")
  /\ UNCHANGED <<mutex, flock, tree, exit, verdict, aborts>>

\* lock_for(key).lock_owned() resolves.
TakeMutex(c) ==
  /\ pc[c] = "mutex"
  /\ ~ \E d \in mutex : SameMutex(c, d)
  /\ mutex' = mutex \cup {c}
  /\ Goto(c, "file")
  /\ UNCHANGED <<flock, tree, exit, verdict, aborts>>

\* Not the code: an error path that unlocks the file whoever holds it.
FailureUnlocksFile(c) ==
  /\ pc[c] = "file"
  /\ Report(c, "error")
  /\ flock' = [flock EXCEPT ![KeyOf[c]] = NoCall]
  /\ Goto(c, "unmutex")
  /\ UNCHANGED <<mutex, tree, exit, aborts>>

\* The lock directory, the open or try_lock itself fails: acquire returns Err.
LockFileFails(c) ==
  /\ pc[c] = "file"
  /\ Report(c, "error")
  /\ Goto(c, "unmutex")
  /\ UNCHANGED <<mutex, flock, tree, exit, aborts>>

\* The step itself; alone, not the code: a lock that is taken unasked.
TryLockUnchecked(c) ==
  /\ pc[c] = "file"
  /\ flock' = [flock EXCEPT ![KeyOf[c]] = c]
  /\ Goto(c, "start")
  /\ UNCHANGED <<mutex, tree, exit, verdict, aborts>>

\* try_lock returns Ok.  WouldBlock only writes the wait note and sleeps LOCK_POLL.
TryLock(c) ==
  /\ flock[KeyOf[c]] = NoCall
  /\ TryLockUnchecked(c)

-----------------------------------------------------------------------------
(* The build under the locks: run_build_locked *)

\* The working directory is missing, the command is empty, or spawn fails.
StartFails(c) ==
  /\ pc[c] = "start"
  /\ Report(c, "error")
  /\ Goto(c, "unlock")
  /\ UNCHANGED <<mutex, flock, tree, exit, aborts>>

Spawn(c) ==
  /\ pc[c] = "start"
  /\ tree' = [tree EXCEPT ![c] = "running"]
  /\ Goto(c, "build")
  /\ UNCHANGED <<mutex, flock, exit, verdict, aborts>>

\* child.wait() resolves before the timeout.
WaitReturns(c) ==
  /\ pc[c] = "build"
  /\ exit[c] # "none"
  /\ Goto(c, "drain")
  /\ UNCHANGED <<mutex, flock, tree, exit, verdict, aborts>>

\* timeout_secs pass: the process group is killed.  A process that left the group
\* (or, without a job object, any descendant) survives and keeps the pipes.
TimeOut(c) ==
  /\ pc[c] = "build"
  /\ exit' = [exit EXCEPT ![c] = "timeout"]
  /\ \E rest \in {"gone", "lingering"} :
        /\ tree[c] = "gone" => rest = "gone"
        /\ tree' = [tree EXCEPT ![c] = rest]
  /\ Goto(c, "drain")
  /\ UNCHANGED <<mutex, flock, verdict, aborts>>

\* The outcome is build_succeeded() or not.
Finish(c) ==
  /\ Report(c, IF exit[c] = "ok" THEN "succeeded" ELSE "failed")
  /\ Goto(c, "unlock")
  /\ UNCHANGED <<mutex, flock, tree, exit, aborts>>

\* Not the code: the drain tasks are not awaited.
DrainWithoutWaiting(c) ==
  /\ pc[c] = "drain"
  /\ Finish(c)

\* Both drain tasks reach end of file, so nothing of the tree holds a pipe any
\* more; the verdict is computed and target.json is written, both before the locks go.
Drain(c) ==
  /\ pc[c] = "drain"
  /\ tree[c] = "gone"
  /\ Finish(c)

-----------------------------------------------------------------------------
(* Dropping the locks: `_file` before `_guard`, the reverse of their binding *)

\* Not the code: the guards dropped in the order they were bound.
DropGuardBeforeFile(c) ==
  /\ pc[c] = "unlock"
  /\ \/ c \in mutex /\ mutex' = mutex \ {c} /\ UNCHANGED <<pc, flock>>
     \/ /\ c \notin mutex /\ UNCHANGED mutex
        /\ flock' = [flock EXCEPT ![KeyOf[c]] = NoCall]
        /\ Goto(c, "unmutex")
  /\ UNCHANGED <<tree, exit, verdict, aborts>>

DropFile(c) ==
  /\ pc[c] = "unlock"
  /\ flock' = [flock EXCEPT ![KeyOf[c]] = NoCall]
  /\ Goto(c, "unmutex")
  /\ UNCHANGED <<mutex, tree, exit, verdict, aborts>>

DropMutex(c) ==
  /\ pc[c] = "unmutex"
  /\ mutex' = mutex \ {c}
  /\ Goto(c, "done")
  /\ UNCHANGED <<flock, tree, exit, verdict, aborts>>

-----------------------------------------------------------------------------
(* The build command, alive whether or not its caller still is *)

\* It exits, with or without success, alone or leaving descendants on its pipes.
ChildExits(c) ==
  /\ tree[c] = "running"
  /\ \E code \in {"ok", "bad"}, rest \in {"gone", "lingering"} :
        /\ exit' = [exit EXCEPT ![c] = code]
        /\ tree' = [tree EXCEPT ![c] = rest]
  /\ UNCHANGED <<pc, mutex, flock, verdict, aborts>>

LingererExits(c) ==
  /\ tree[c] = "lingering"
  /\ tree' = [tree EXCEPT ![c] = "gone"]
  /\ UNCHANGED <<pc, mutex, flock, exit, verdict, aborts>>

-----------------------------------------------------------------------------
(* Dropped futures and killed processes *)

Abort == aborts < MaxAborts /\ aborts' = aborts + 1

\* The call's future is dropped at an await point: its guards are dropped, the
\* child is neither killed (no kill_on_drop) nor waited for.
Cancel(c) ==
  /\ Abort
  /\ \/ pc[c] = "mutex" /\ Goto(c, "done")
     \/ pc[c] = "file" /\ Goto(c, "unmutex")
     \/ pc[c] \in {"build", "drain"} /\ Goto(c, "unlock")
  /\ Report(c, "cancelled")
  /\ UNCHANGED <<mutex, flock, tree, exit>>

Victims(p) == {c \in Calls : Home[c] = p /\ pc[c] \notin {"idle"} \cup Ended}

\* Not the code: a lock file that outlives its process, as one without flock would.
KillKeepsLock(p) ==
  /\ Abort
  /\ Victims(p) # {}
  /\ pc' = [c \in Calls |-> IF c \in Victims(p) THEN "dead" ELSE pc[c]]
  /\ mutex' = mutex \ Victims(p)
  /\ UNCHANGED <<flock, tree, exit, verdict>>

\* The process dies: its mutexes vanish with it, the operating system releases
\* its file locks, and its build commands run on in their own process groups.
Kill(p) ==
  /\ Abort
  /\ Victims(p) # {}
  /\ pc' = [c \in Calls |-> IF c \in Victims(p) THEN "dead" ELSE pc[c]]
  /\ mutex' = mutex \ Victims(p)
  /\ flock' = [k \in Keys |-> IF flock[k] \in Victims(p) THEN NoCall ELSE flock[k]]
  /\ UNCHANGED <<tree, exit, verdict>>

\* Every call has ended and nothing it spawned is left: the system may rest.
Quiet == (\A c \in Calls : pc[c] \in Ended /\ tree[c] \in {"none", "gone"}) /\ UNCHANGED vars

CallStep(c) ==
  \/ TakeMutex(c) \/ TryLock(c)
  \/ StartFails(c) \/ Spawn(c) \/ WaitReturns(c) \/ TimeOut(c)
  \/ Drain(c) \/ DropFile(c) \/ DropMutex(c)

Next ==
  \/ \E c \in Calls :
        \/ Request(c) \/ CallStep(c) \/ LockFileFails(c) \/ Cancel(c)
        \/ ChildExits(c) \/ LingererExits(c)
  \/ \E p \in Procs : Kill(p)
  \/ Quiet

\* The runtime keeps polling a call that can move, and an armed timeout fires, so
\* a build command that never exits is left too.  Descendants that hold the pipes
\* are assumed to end some day: the code puts no bound of its own on the drain.
\* Nothing is assumed of failures, cancellations, kills or the command's exit.
Fairness ==
  \A c \in Calls : WF_vars(CallStep(c)) /\ WF_vars(LingererExits(c))

Spec == Init /\ [][Next]_vars
FairSpec == Spec /\ Fairness

-----------------------------------------------------------------------------
(* Properties *)

Abandoned(c) == pc[c] = "dead" \/ verdict[c] = "cancelled"
Alive(c) == tree[c] \in {"running", "lingering"}

\* At most one call is inside run_build_locked for a key, over all processes,
\* whatever calls were cancelled and whatever processes were killed before.
OneBuilderPerKey ==
  \A c, d \in Calls :
    pc[c] \in Locked /\ pc[d] \in Locked /\ KeyOf[c] = KeyOf[d] => c = d

\* A call blocked on the lock file is blocked by another process, which is what
\* the note it prints says: calls of one process queue on the mutex instead, so the
\* file must be free before the mutex is handed on.
BlockedByAnotherProcess ==
  \A c \in Calls :
    pc[c] = "file" /\ flock[KeyOf[c]] # NoCall => Home[flock[KeyOf[c]]] # Home[c]

\* While its caller still waits for it, a build tree writes under the key's lock,
\* descendants that outlive the command included.
TreeUnderLock ==
  \A c \in Calls : Alive(c) /\ ~Abandoned(c) => flock[KeyOf[c]] = c

\* Every call that asked for a build gets an answer or dies with its process: no
\* holder, dead, cancelled, failed or timed out, blocks the calls behind it.
EveryCallEnds ==
  \A c \in Calls : pc[c] = "mutex" ~> pc[c] \in Ended

\* The promise of BuildLocks: an exclusive slot per key that each call enters at
\* most once.
Inside == {c \in Calls : pc[c] \in Locked}
Over == {c \in Calls : pc[c] \in Ended \cup {"unmutex"}}
Slot == INSTANCE BuildSlot WITH inside <- Inside, over <- Over

\* The two locks, their two drops, cancellation and process death implement the
\* exclusive slot: every step is an entry into a free slot, an end, or a stutter.
ImplementsSlot == Slot!SlotSpec

\* No two live build trees share an output directory, what the BuildLocks
\* documentation and the cross-process test's header promise of overlapping calls.
OneTreePerKey ==
  \A c, d \in Calls : Alive(c) /\ Alive(d) /\ KeyOf[c] = KeyOf[d] => c = d
==============================================================================
