--------------------------- MODULE BuildFlashProofs ---------------------------
(***************************************************************************)
(* Proofs about BuildLock and BuildFlash, for any sets of calls, processes *)
(* and keys, any number of kills and cancellations, any grace and any lag  *)
(* of the file system's clock that the grace covers.                       *)
(*                                                                         *)
(* The invariant IInv says who holds what in terms of where each call is:  *)
(* the mutex exactly between taking and dropping it, the lock file exactly *)
(* between try_lock and its drop, and that a live tree whose caller still  *)
(* waits has its caller in "build" or "drain".                             *)
(*                                                                         *)
(* FInv dates the artifact against the builds: a leftover is as old as the *)
(* history, a build's own write is no older than its start by more than the *)
(* lag, and no build starts before the grace has passed since the leftover. *)
(***************************************************************************)
EXTENDS BuildFlash, TLAPS

USE BuildAssumption

-----------------------------------------------------------------------------
(* The two-level lock *)

MutexByPhase == \A c \in Calls : c \in mutex <=> pc[c] \in Guarded

MutexExclusive ==
  \A c, d \in Calls : c \in mutex /\ d \in mutex /\ SameMutex(c, d) => c = d

FileByPhase == \A c \in Calls : flock[KeyOf[c]] = c <=> pc[c] \in Locked

\* The lock file is only ever held by a call of its own key.
FileOfKey == \A k \in Keys : flock[k] \in Calls => KeyOf[flock[k]] = k

TreeByPhase ==
  \A c \in Calls : Alive(c) /\ ~Abandoned(c) => pc[c] \in {"build", "drain"}

\* Nothing is spawned, and nothing reported, before the locks are held.
Untouched ==
  \A c \in Calls : pc[c] \in {"idle", "mutex", "file", "start"} => tree[c] = "none"

IInv ==
  /\ TypeOK
  /\ MutexByPhase
  /\ MutexExclusive
  /\ FileByPhase
  /\ FileOfKey
  /\ TreeByPhase
  /\ Untouched

-----------------------------------------------------------------------------

\* Initially nobody holds anything.
LEMMA InitIInv == Init => IInv
  BY DEF Init, IInv, TypeOK, MutexByPhase, MutexExclusive, FileByPhase, FileOfKey,
         TreeByPhase, Untouched, Alive, Abandoned, Guarded, Locked, Phases, Trees,
         Exits, Verdicts

\* Every step of a call, of its build command, of a cancellation or of a kill
\* preserves the invariant.
LEMMA NextIInv == IInv /\ [Next]_vars => IInv'
<1> SUFFICES ASSUME IInv, [Next]_vars PROVE IInv'
  OBVIOUS
<1> USE DEF IInv, TypeOK, MutexByPhase, MutexExclusive, FileByPhase, FileOfKey,
            TreeByPhase, Untouched, Alive, Abandoned, Guarded, Locked, Ended, Phases,
            Trees, Exits, Verdicts, Goto, Report, SameMutex
<1>1. ASSUME NEW c \in Calls, Request(c) PROVE IInv'
  BY <1>1 DEF Request
<1>2. ASSUME NEW c \in Calls, TakeMutex(c) PROVE IInv'
  BY <1>2 DEF TakeMutex
<1>3. ASSUME NEW c \in Calls, LockFileFails(c) PROVE IInv'
  BY <1>3 DEF LockFileFails
<1>4. ASSUME NEW c \in Calls, TryLock(c) PROVE IInv'
  BY <1>4 DEF TryLock, TryLockUnchecked
<1>5. ASSUME NEW c \in Calls, StartFails(c) PROVE IInv'
  BY <1>5 DEF StartFails
<1>6. ASSUME NEW c \in Calls, Spawn(c) PROVE IInv'
  BY <1>6 DEF Spawn
<1>7. ASSUME NEW c \in Calls, WaitReturns(c) PROVE IInv'
  BY <1>7 DEF WaitReturns
<1>8. ASSUME NEW c \in Calls, TimeOut(c) PROVE IInv'
  BY <1>8 DEF TimeOut
<1>9. ASSUME NEW c \in Calls, Drain(c) PROVE IInv'
  BY <1>9 DEF Drain, Finish
<1>10. ASSUME NEW c \in Calls, DropFile(c) PROVE IInv'
  BY <1>10 DEF DropFile
<1>11. ASSUME NEW c \in Calls, DropMutex(c) PROVE IInv'
  BY <1>11 DEF DropMutex
<1>12. ASSUME NEW c \in Calls, ChildExits(c) PROVE IInv'
  BY <1>12 DEF ChildExits
<1>13. ASSUME NEW c \in Calls, LingererExits(c) PROVE IInv'
  BY <1>13 DEF LingererExits
<1>14. ASSUME NEW c \in Calls, Cancel(c) PROVE IInv'
  BY <1>14 DEF Cancel, Abort
<1>15. ASSUME NEW p \in Procs, Kill(p) PROVE IInv'
  BY <1>15 DEF Kill, Victims, Abort
<1>16. CASE UNCHANGED vars
  BY <1>16 DEF vars
<1>17. QED
  BY <1>1, <1>2, <1>3, <1>4, <1>5, <1>6, <1>7, <1>8, <1>9, <1>10, <1>11, <1>12, <1>13,
     <1>14, <1>15, <1>16 DEF Next, CallStep, Quiet

\* IInv is an invariant of the build runner.
LEMMA Invariance == Spec => []IInv
  BY InitIInv, NextIInv, PTL DEF Spec

\* The variables of the build runner keep their types.
THEOREM TypeCorrect == Spec => []TypeOK
  BY Invariance, PTL DEF IInv

\* Per key, one call at most is inside run_build_locked, over all processes.
THEOREM MutualExclusion == Spec => []OneBuilderPerKey
<1>1. IInv => OneBuilderPerKey
  BY DEF IInv, FileByPhase, OneBuilderPerKey
<1>2. QED
  BY <1>1, Invariance, PTL

\* The wait note is right: the holder of a busy lock file is in another process.
\* A holder in the same process would hold the same mutex as the call that waits.
THEOREM WaitNoteIsRight == Spec => []BlockedByAnotherProcess
<1>1. IInv => BlockedByAnotherProcess
  <2> SUFFICES ASSUME IInv, NEW c \in Calls, pc[c] = "file", flock[KeyOf[c]] # NoCall
               PROVE  Home[flock[KeyOf[c]]] # Home[c]
    BY DEF BlockedByAnotherProcess
  <2> DEFINE d == flock[KeyOf[c]]
  <2>1. d \in Calls /\ KeyOf[d] = KeyOf[c]
    BY DEF IInv, TypeOK, FileOfKey
  <2>2. pc[d] \in Locked
    BY <2>1 DEF IInv, FileByPhase
  <2>3. c # d
    BY <2>2 DEF Locked
  <2>4. c \in mutex /\ d \in mutex
    BY <2>1, <2>2 DEF IInv, MutexByPhase, Guarded
  <2>5. ~SameMutex(c, d)
    BY <2>1, <2>3, <2>4 DEF IInv, MutexExclusive
  <2>6. QED
    BY <2>1, <2>5 DEF SameMutex
<1>2. QED
  BY <1>1, Invariance, PTL

\* As long as its caller waits for it, a build tree works under the key's lock.
THEOREM TreeHasLock == Spec => []TreeUnderLock
<1>1. IInv => TreeUnderLock
  BY DEF IInv, FileByPhase, TreeByPhase, TreeUnderLock, Locked
<1>2. QED
  BY <1>1, Invariance, PTL

-----------------------------------------------------------------------------
(* Refinement of BuildSlot *)

\* A step of the build runner is a step of the exclusive slot or leaves it alone.
LEMMA SlotStep == IInv /\ [Next]_vars => [Slot!SlotNext]_(Slot!slotVars)
<1> SUFFICES ASSUME IInv, [Next]_vars
             PROVE  Slot!SlotNext \/ (Inside' = Inside /\ Over' = Over)
  BY DEF Slot!slotVars
<1> USE DEF Inside, Over, Locked, Ended
<1>0. pc \in [Calls -> Phases]
  BY DEF IInv, TypeOK
<1>1. ASSUME NEW c \in Calls, TryLock(c) PROVE Slot!Enter(c)
  <2>1. c \notin Inside \cup Over
    BY <1>1 DEF TryLock, TryLockUnchecked
  <2>2. ASSUME NEW d \in Inside PROVE KeyOf[d] # KeyOf[c]
    BY <1>1, <2>2 DEF TryLock, IInv, FileByPhase
  <2>3. Inside' = Inside \cup {c} /\ Over' = Over
    BY <1>0, <1>1 DEF TryLock, TryLockUnchecked, Goto
  <2>4. QED
    BY <2>1, <2>2, <2>3 DEF Slot!Enter
<1>2. ASSUME NEW c \in Calls,
             LockFileFails(c) \/ DropFile(c) \/ (Cancel(c) /\ pc[c] \in {"mutex", "file"})
      PROVE  Slot!End({c})
  <2>1. pc[c] \notin Ended \cup {"unmutex"}
    BY <1>2 DEF LockFileFails, DropFile
  <2>2. Inside' = Inside \ {c} /\ Over' = Over \cup {c}
    BY <1>0, <1>2 DEF LockFileFails, DropFile, Cancel, Goto
  <2>3. QED
    BY <2>1, <2>2 DEF Slot!End
<1>3. ASSUME NEW p \in Procs, Kill(p) PROVE Slot!End(Victims(p) \ Over)
  <2>1. Inside' = Inside \ Victims(p) /\ Over' = Over \cup Victims(p)
    BY <1>0, <1>3 DEF Kill, Victims
  <2>2. QED
    BY <2>1 DEF Slot!End, Victims
<1>4. ASSUME NEW c \in Calls,
             \/ Request(c) \/ TakeMutex(c) \/ StartFails(c) \/ Spawn(c) \/ WaitReturns(c)
             \/ TimeOut(c) \/ Drain(c) \/ DropMutex(c) \/ ChildExits(c) \/ LingererExits(c)
             \/ (Cancel(c) /\ pc[c] \in {"build", "drain"})
      PROVE  Inside' = Inside /\ Over' = Over
  BY <1>0, <1>4 DEF Request, TakeMutex, StartFails, Spawn, WaitReturns, TimeOut, Drain,
                    Finish, DropMutex, ChildExits, LingererExits, Cancel, Goto
<1>5. ASSUME NEW c \in Calls, Cancel(c)
      PROVE  pc[c] \in {"mutex", "file", "build", "drain"}
  BY <1>5 DEF Cancel
<1>6. CASE UNCHANGED vars
  BY <1>6 DEF vars
<1>7. ASSUME NEW c \in Calls, Cancel(c)
      PROVE  Slot!End({c}) \/ (Inside' = Inside /\ Over' = Over)
  BY <1>2, <1>4, <1>5, <1>7
<1>8. ASSUME NEW c \in Calls, CallStep(c)
      PROVE  Slot!Enter(c) \/ Slot!End({c}) \/ (Inside' = Inside /\ Over' = Over)
  BY <1>1, <1>2, <1>4, <1>8 DEF CallStep
<1>9. ASSUME NEW c \in Calls,
             Request(c) \/ LockFileFails(c) \/ ChildExits(c) \/ LingererExits(c)
      PROVE  Slot!End({c}) \/ (Inside' = Inside /\ Over' = Over)
  BY <1>2, <1>4, <1>9
<1>10. \A p \in Procs : Victims(p) \ Over \in SUBSET Calls
  BY DEF Victims
<1>11. CASE \E c \in Calls : CallStep(c)
  BY <1>8, <1>11 DEF Slot!SlotNext
<1>12. CASE \E c \in Calls :
              Request(c) \/ LockFileFails(c) \/ ChildExits(c) \/ LingererExits(c) \/ Cancel(c)
  BY <1>7, <1>9, <1>12 DEF Slot!SlotNext
<1>13. CASE \E p \in Procs : Kill(p)
  <2>1. PICK p \in Procs : Kill(p)
    BY <1>13
  <2>2. Slot!End(Victims(p) \ Over)
    BY <1>3, <2>1
  <2>3. \E S \in SUBSET Calls : Slot!End(S)
    BY <1>10, <2>2 DEF Slot!End
  <2>4. QED
    BY <2>3 DEF Slot!SlotNext
<1>14. QED
  BY <1>6, <1>11, <1>12, <1>13 DEF Next, Quiet

\* The two-level lock implements one exclusive slot per key.
THEOREM SlotRefinement == Spec => ImplementsSlot
<1>1. Init => Slot!SlotInit
  BY DEF Init, Slot!SlotInit, Inside, Over, Locked, Ended
<1>2. QED
  BY <1>1, SlotStep, Invariance, PTL DEF Spec, ImplementsSlot, Slot!SlotSpec

-----------------------------------------------------------------------------
(* The artifact *)

USE ClockAssumption

Present(k) == artifact[k] # NoArtifact

\* What the build command wrote or left, by whom and when.
LeftoverIsOld == \A k \in Keys : Present(k) /\ artifact[k].by = NoCall => artifact[k].at = 0

WritesAreDated ==
  \A k \in Keys, c \in Calls :
    Present(k) /\ artifact[k].by = c =>
      tree[c] # "none" /\ (c \notin Bootloads => artifact[k].at + Jitter >= start[c])

\* Where a call has spawned its command, and when it began.
Spawned == \A c \in Calls : pc[c] \in {"build", "drain"} => tree[c] # "none"

Begun(c) == tree[c] # "none" \/ (c \in Bootloads /\ pc[c] # "idle")

StartsAreDated ==
  /\ now >= Grace + 1
  /\ \A c \in Calls : start[c] <= now /\ (Begun(c) => start[c] >= Grace + 1)

BootloadsDate ==
  \A c \in Bootloads : judged[c] = NoCall /\ ~ fresh[c] /\ (pc[c] # "idle" => existed[c])

\* A file that is not the leftover never becomes it again.
Renewed(c) == Present(KeyOf[c]) => artifact[KeyOf[c]].by # NoCall

NewIsNew ==
  \A c \in Calls :
    /\ c \notin Bootloads /\ tree[c] # "none" /\ ~ existed[c] => Renewed(c)
    /\ fresh[c] => Renewed(c)

FInv ==
  /\ IInv
  /\ FlashTypeOK
  /\ LeftoverIsOld
  /\ WritesAreDated
  /\ Spawned
  /\ StartsAreDated
  /\ BootloadsDate
  /\ NewIsNew
  /\ LeftoverNeverFlashed
  /\ OwnWriteIsFresh

-----------------------------------------------------------------------------

\* The history begins with a leftover that is older than the grace, or with none.
LEMMA FlashInitFInv == FlashInit => FInv
<1> SUFFICES ASSUME FlashInit PROVE FInv
  OBVIOUS
<1>1. IInv
  BY InitIInv DEF FlashInit
<1>2. FlashTypeOK
  BY <1>1 DEF FlashInit, FlashTypeOK, IInv, Files, Writers
<1>3. LeftoverIsOld /\ WritesAreDated /\ NewIsNew
  <2>1. \A k \in Keys : Present(k) => artifact[k] = [by |-> NoCall, at |-> 0]
    BY DEF FlashInit, Present
  <2>2. \A c \in Calls : tree[c] = "none" /\ fresh[c] = FALSE
    BY DEF FlashInit, Init
  <2>3. QED
    BY <2>1, <2>2 DEF LeftoverIsOld, WritesAreDated, NewIsNew, FlashInit, Present
<1>4. Spawned /\ StartsAreDated /\ BootloadsDate
  BY DEF FlashInit, Init, Spawned, StartsAreDated, Begun, BootloadsDate
<1>5. LeftoverNeverFlashed /\ OwnWriteIsFresh
  BY DEF FlashInit, Init, LeftoverNeverFlashed, OwnWriteIsFresh
<1>6. QED
  BY <1>1, <1>2, <1>3, <1>4, <1>5 DEF FInv

\* Every step is a step of the build runner, or leaves its variables alone.
LEMMA FlashStepIsBuildStep == [FlashNext]_allVars => [Next]_vars
  BY DEF FlashNext, RequestBuild, SpawnBuild, BootloadBuilds, JudgeBuild, ChildWrites,
         ChildRemoves, FlashArtifact, BootloadImage, BootloadUnjudged, FlashAnyBuild,
         Elsewhere, Tick, Next, CallStep, allVars, vars

\* What a step of the build runner changes that neither requests, spawns nor drains.
Calm ==
  \A c \in Calls :
    /\ tree'[c] = "none" <=> tree[c] = "none"
    /\ pc'[c] = "idle" <=> pc[c] = "idle"
    /\ pc'[c] \in {"build", "drain"} => pc[c] \in {"build", "drain"}
    /\ verdict'[c] = "succeeded" => verdict[c] = "succeeded"

LEMMA ElsewhereIsCalm ==
  ASSUME TypeOK, Spawned, NEW c \in Calls, Elsewhere(c)
  PROVE  Calm
<1> USE DEF TypeOK, Phases, Trees, Verdicts, Calm, Goto, Report
<1>1. CASE TakeMutex(c) \/ LockFileFails(c) \/ TryLock(c) \/ StartFails(c)
  BY <1>1 DEF TakeMutex, LockFileFails, TryLock, TryLockUnchecked, StartFails
<1>2. CASE WaitReturns(c) \/ TimeOut(c)
  BY <1>2 DEF WaitReturns, TimeOut, Spawned
<1>3. CASE DropFile(c) \/ DropMutex(c) \/ ChildExits(c) \/ LingererExits(c)
  BY <1>3 DEF DropFile, DropMutex, ChildExits, LingererExits
<1>4. CASE Cancel(c)
  BY <1>4 DEF Cancel
<1>5. QED
  BY <1>1, <1>2, <1>3, <1>4 DEF Elsewhere

LEMMA KillIsCalm ==
  ASSUME TypeOK, NEW p \in Procs, Kill(p)
  PROVE  Calm
  BY DEF Kill, Victims, Calm, TypeOK

\* A calm step that leaves the artifact and the judgements alone preserves FInv.
LEMMA CalmFInv ==
  ASSUME FInv, IInv', Calm, UNCHANGED flashVars
  PROVE  FInv'
<1> USE DEF flashVars, judgeVars, FInv
<1>1. FlashTypeOK'
  BY DEF FlashTypeOK, IInv
<1>2. LeftoverIsOld' /\ WritesAreDated' /\ NewIsNew'
  BY DEF Calm, LeftoverIsOld, WritesAreDated, NewIsNew, Present, Renewed
<1>3. Spawned' /\ StartsAreDated' /\ BootloadsDate'
  BY DEF Calm, Spawned, StartsAreDated, Begun, BootloadsDate
<1>4. LeftoverNeverFlashed' /\ OwnWriteIsFresh'
  BY DEF Calm, LeftoverNeverFlashed, OwnWriteIsFresh
<1>5. QED
  BY <1>1, <1>2, <1>3, <1>4

\* A request, which starts a build_and_bootload's clock.
LEMMA RequestFInv ==
  ASSUME FInv, IInv', NEW c \in Calls, RequestBuild(c)
  PROVE  FInv'
<1> USE DEF FInv, RequestBuild, Request, Goto
<1>1. FlashTypeOK'
  BY DEF FlashTypeOK, IInv
<1>2. pc[c] = "idle" /\ \A d \in Calls : d # c => pc'[d] = pc[d]
  BY DEF IInv, TypeOK
<1>3. \A d \in Calls : d # c \/ c \notin Bootloads => start'[d] = start[d] /\ existed'[d] = existed[d]
  BY DEF FlashTypeOK
<1>4. c \in Bootloads => start'[c] = now /\ existed'[c]
  BY DEF FlashTypeOK
<1>5. tree[c] = "none"
  BY <1>2 DEF IInv, Untouched
<1>6. LeftoverIsOld' /\ NewIsNew'
  BY <1>3, <1>4 DEF LeftoverIsOld, NewIsNew, Present, Renewed
<1>7. WritesAreDated'
  BY <1>3, <1>5 DEF WritesAreDated, Present
<1>8. Spawned'
  BY <1>2 DEF Spawned, IInv, TypeOK, Phases
<1>9. StartsAreDated'
  BY <1>2, <1>3, <1>4, <1>5 DEF StartsAreDated, Begun, FlashTypeOK
<1>10. BootloadsDate'
  BY <1>2, <1>3, <1>4 DEF BootloadsDate
<1>11. LeftoverNeverFlashed' /\ OwnWriteIsFresh'
  BY DEF LeftoverNeverFlashed, OwnWriteIsFresh
<1>12. QED
  BY <1>1, <1>6, <1>7, <1>8, <1>9, <1>10, <1>11

\* A spawn, which starts the clock of every other build.
LEMMA SpawnFInv ==
  ASSUME FInv, IInv', NEW c \in Calls, SpawnBuild(c)
  PROVE  FInv'
<1> USE DEF FInv, SpawnBuild, Spawn, Goto
<1>1. FlashTypeOK'
  BY DEF FlashTypeOK, IInv
<1>2. pc[c] = "start" /\ tree[c] = "none" /\ tree'[c] = "running"
  BY DEF IInv, TypeOK, Untouched
<1>3. \A d \in Calls : d # c => /\ pc'[d] = pc[d] /\ tree'[d] = tree[d]
                                /\ start'[d] = start[d] /\ existed'[d] = existed[d]
  BY DEF IInv, TypeOK, FlashTypeOK
<1>4. start'[c] = now /\ (existed'[c] <=> Present(KeyOf[c]))
  BY DEF FlashTypeOK, ArtifactOf, Present
<1>5. LeftoverIsOld'
  BY DEF LeftoverIsOld, Present
<1>6. WritesAreDated'
  <2>1. \A k \in Keys : Present(k) => artifact[k].by # c
    BY <1>2 DEF WritesAreDated
  <2>2. QED
    BY <2>1, <1>3 DEF WritesAreDated, Present
<1>7. NewIsNew'
  BY <1>2, <1>3, <1>4 DEF NewIsNew, Renewed, Present
<1>8. Spawned'
  BY <1>2, <1>3 DEF Spawned
<1>9. StartsAreDated'
  BY <1>3, <1>4 DEF StartsAreDated, Begun, FlashTypeOK
<1>10. BootloadsDate'
  BY <1>3 DEF BootloadsDate
<1>11. LeftoverNeverFlashed' /\ OwnWriteIsFresh'
  BY DEF LeftoverNeverFlashed, OwnWriteIsFresh
<1>12. QED
  BY <1>1, <1>5, <1>6, <1>7, <1>8, <1>9, <1>10, <1>11

\* A build_and_bootload spawns or drains, and judges nothing.
LEMMA BootloadBuildsFInv ==
  ASSUME FInv, IInv', NEW c \in Calls, BootloadBuilds(c)
  PROVE  FInv'
<1> USE DEF FInv, flashVars, judgeVars, BootloadBuilds, Spawn, Drain, Finish, Goto, Report
<1>1. FlashTypeOK'
  BY DEF FlashTypeOK, IInv
<1>2. /\ c \in Bootloads /\ pc[c] # "idle" /\ pc'[c] # "idle"
      /\ tree'[c] # "none"
      /\ \A d \in Calls : d # c => tree'[d] = tree[d] /\ pc'[d] = pc[d] /\ verdict'[d] = verdict[d]
  BY DEF IInv, TypeOK
<1>3. LeftoverIsOld' /\ WritesAreDated' /\ NewIsNew'
  BY <1>2 DEF LeftoverIsOld, WritesAreDated, NewIsNew, Present, Renewed
<1>4. Spawned' /\ StartsAreDated' /\ BootloadsDate'
  BY <1>2 DEF Spawned, StartsAreDated, Begun, BootloadsDate
<1>5. LeftoverNeverFlashed' /\ OwnWriteIsFresh'
  BY <1>2 DEF LeftoverNeverFlashed, OwnWriteIsFresh, BootloadsDate
<1>6. QED
  BY <1>1, <1>3, <1>4, <1>5

\* The verdict, on the leftover, on the call's own write or on another's.
LEMMA JudgeFInv ==
  ASSUME FInv, IInv', NEW c \in Calls, JudgeBuild(c)
  PROVE  FInv'
<1> USE DEF FInv, JudgeBuild, Drain, Finish, Goto, Report
<1> DEFINE k == KeyOf[c]
<1>1. FlashTypeOK'
  <2>1. Present(k) => artifact[k].by \in Writers
    BY DEF FlashTypeOK, Present, Files
  <2>2. judged' \in [Calls -> Writers]
    BY <2>1 DEF FlashTypeOK, ArtifactOf, Present, Writers
  <2>3. QED
    BY <2>2 DEF FlashTypeOK, IInv, ArtifactIsFresh
<1>2. /\ pc[c] = "drain" /\ pc'[c] = "unlock" /\ tree[c] = "gone"
      /\ \A d \in Calls : d # c => pc'[d] = pc[d] /\ verdict'[d] = verdict[d]
  BY DEF IInv, TypeOK
<1>3. \A d \in Calls : d # c => fresh'[d] = fresh[d] /\ judged'[d] = judged[d]
  BY DEF FlashTypeOK
<1>4. fresh'[c] <=> exit[c] = "ok" /\ ArtifactIsFresh(artifact[k], existed[c], start[c])
  BY DEF FlashTypeOK, ArtifactOf, ArtifactIsFresh
<1>5. Present(k) => artifact[k].at \in Nat
  BY DEF FlashTypeOK, Present, Files
<1>6. start[c] >= Grace + 1 /\ start[c] \in Nat
  BY <1>2 DEF StartsAreDated, Begun, FlashTypeOK
<1>7. fresh'[c] => Renewed(c)
  <2>1. CASE existed[c]
    BY <1>4, <1>5, <1>6, <2>1 DEF ArtifactIsFresh, LeftoverIsOld, Renewed, Present
  <2>2. CASE ~ existed[c]
    BY <1>2, <2>2 DEF NewIsNew
  <2>3. QED
    BY <2>1, <2>2
<1>8. LeftoverIsOld' /\ WritesAreDated'
  BY DEF LeftoverIsOld, WritesAreDated, Present
<1>9. NewIsNew'
  BY <1>3, <1>7 DEF NewIsNew, Renewed, Present
<1>10. Spawned' /\ StartsAreDated' /\ BootloadsDate'
  BY <1>2, <1>3 DEF Spawned, StartsAreDated, Begun, BootloadsDate
<1>11. OwnWriteIsFresh'
  <2>1. ASSUME verdict'[c] = "succeeded", judged'[c] = c PROVE fresh'[c]
    <3>1. exit[c] = "ok"
      BY <2>1 DEF IInv, TypeOK
    <3>2. Present(k) /\ artifact[k].by = c
      BY <2>1 DEF FlashTypeOK, ArtifactOf, Present
    <3>3. artifact[k].at + Jitter >= start[c]
      BY <3>2 DEF WritesAreDated
    <3>4. QED
      BY <1>4, <1>5, <1>6, <3>1, <3>2, <3>3 DEF ArtifactIsFresh, Present
  <2>2. QED
    BY <2>1, <1>2, <1>3 DEF OwnWriteIsFresh
<1>12. LeftoverNeverFlashed'
  BY DEF LeftoverNeverFlashed
<1>13. QED
  BY <1>1, <1>8, <1>9, <1>10, <1>11, <1>12

\* The build command writes, not before its start by more than the lag, or removes.
LEMMA ChildFInv ==
  ASSUME FInv, IInv', NEW c \in Calls, ChildWrites(c) \/ ChildRemoves(c)
  PROVE  FInv'
<1> USE DEF FInv
<1> DEFINE k == KeyOf[c]
<1>1. UNCHANGED <<vars, judgeVars, flashed, now>>
  BY DEF ChildWrites, ChildRemoves
<1>2. Spawned' /\ StartsAreDated' /\ BootloadsDate' /\ LeftoverNeverFlashed' /\ OwnWriteIsFresh'
  BY <1>1 DEF vars, judgeVars, Spawned, StartsAreDated, Begun, BootloadsDate,
              LeftoverNeverFlashed, OwnWriteIsFresh
<1>3. \A j \in Keys : j # k => artifact'[j] = artifact[j]
  BY DEF ChildWrites, ChildRemoves, FlashTypeOK
<1>4. CASE ChildWrites(c)
  <2>1. PICK lag \in 0..Jitter : artifact' = [artifact EXCEPT ![k] = [by |-> c, at |-> now - lag]]
    BY <1>4 DEF ChildWrites
  <2>2. tree[c] # "none" /\ now - lag \in Nat /\ start[c] \in Nat /\ now \in Nat
    BY <1>4 DEF ChildWrites, StartsAreDated, FlashTypeOK
  <2>3. (now - lag) + Jitter >= start[c]
    BY <2>2 DEF StartsAreDated
  <2>4. artifact'[k] = [by |-> c, at |-> now - lag]
    BY <2>1 DEF FlashTypeOK
  <2>5. FlashTypeOK'
    BY <1>1, <2>1, <2>2 DEF FlashTypeOK, IInv, vars, judgeVars, Files, Writers
  <2>6. LeftoverIsOld' /\ NewIsNew'
    BY <1>1, <1>3, <2>4 DEF LeftoverIsOld, NewIsNew, Present, Renewed, vars, judgeVars
  <2>7. WritesAreDated'
    BY <1>1, <1>3, <2>2, <2>3, <2>4 DEF WritesAreDated, Present, vars, judgeVars
  <2>8. QED
    BY <1>2, <2>5, <2>6, <2>7
<1>5. CASE ChildRemoves(c)
  <2>1. artifact'[k] = NoArtifact
    BY <1>5 DEF ChildRemoves, FlashTypeOK
  <2>2. FlashTypeOK'
    BY <1>1, <1>5 DEF ChildRemoves, FlashTypeOK, IInv, vars, judgeVars
  <2>3. LeftoverIsOld' /\ NewIsNew' /\ WritesAreDated'
    BY <1>1, <1>3, <2>1 DEF LeftoverIsOld, NewIsNew, WritesAreDated, Present, Renewed, vars, judgeVars
  <2>4. QED
    BY <1>2, <2>2, <2>3
<1>6. QED
  BY <1>4, <1>5

\* What reaches a board, after the locks are gone, is not the leftover.
LEMMA FlashFInv ==
  ASSUME FInv, IInv', NEW c \in Calls, FlashArtifact(c) \/ BootloadImage(c)
  PROVE  FInv'
<1> USE DEF FInv
<1>1. FlashAnyBuild(c)
  BY DEF FlashArtifact, BootloadImage, BootloadUnjudged
<1>2. UNCHANGED <<vars, artifact, judgeVars, now>>
  BY <1>1 DEF FlashAnyBuild
<1>3. Renewed(c)
  <2>1. CASE FlashArtifact(c)
    BY <2>1 DEF FlashArtifact, NewIsNew
  <2>2. CASE BootloadImage(c)
    <3>1. c \in Bootloads /\ pc[c] # "idle" /\ existed[c]
      BY <1>1, <2>2 DEF BootloadImage, BootloadUnjudged, FlashAnyBuild, BootloadsDate
    <3>2. start[c] >= Grace + 1 /\ start[c] \in Nat
      BY <3>1 DEF StartsAreDated, Begun, FlashTypeOK
    <3>3. Present(KeyOf[c]) => artifact[KeyOf[c]].at \in Nat
      BY DEF Present, FlashTypeOK, Files
    <3>4. QED
      BY <2>2, <3>1, <3>2, <3>3
         DEF BootloadImage, ArtifactIsFresh, ArtifactOf, LeftoverIsOld, Renewed, Present
  <2>3. QED
    BY <2>1, <2>2
<1>4. artifact[KeyOf[c]].by # NoCall /\ artifact[KeyOf[c]].by \in Writers
  BY <1>1, <1>3 DEF FlashAnyBuild, ArtifactOf, Renewed, Present, FlashTypeOK, Files
<1>5. LeftoverNeverFlashed'
  BY <1>1, <1>4 DEF LeftoverNeverFlashed, FlashAnyBuild, ArtifactOf
<1>6. FlashTypeOK'
  BY <1>1, <1>2, <1>4 DEF FlashTypeOK, FlashAnyBuild, ArtifactOf, IInv, vars, judgeVars, Writers
<1>7. QED
  BY <1>2, <1>5, <1>6 DEF vars, judgeVars, LeftoverIsOld, WritesAreDated, NewIsNew, Present,
       Renewed, Spawned, StartsAreDated, Begun, BootloadsDate, OwnWriteIsFresh

\* Time only moves on.
LEMMA TickFInv == ASSUME FInv, IInv', Tick PROVE FInv'
<1> USE DEF FInv
<1>1. UNCHANGED <<vars, artifact, judgeVars, flashed>> /\ now' = now + 1 /\ now \in Nat
  BY DEF Tick, FlashTypeOK
<1>2. FlashTypeOK'
  BY <1>1 DEF FlashTypeOK, IInv, vars, judgeVars
<1>3. StartsAreDated'
  BY <1>1 DEF StartsAreDated, Begun, FlashTypeOK, vars, judgeVars
<1>4. QED
  BY <1>1, <1>2, <1>3 DEF vars, judgeVars, LeftoverIsOld, WritesAreDated, NewIsNew, Present,
       Renewed, Spawned, BootloadsDate, OwnWriteIsFresh, LeftoverNeverFlashed

\* Every step preserves FInv.
LEMMA FlashNextFInv == FInv /\ [FlashNext]_allVars => FInv'
<1> SUFFICES ASSUME FInv, [FlashNext]_allVars PROVE FInv'
  OBVIOUS
<1>1. IInv'
  BY NextIInv, FlashStepIsBuildStep DEF FInv
<1>2. TypeOK /\ Spawned
  BY DEF FInv, IInv
<1>3. ASSUME NEW c \in Calls,
             RequestBuild(c) \/ SpawnBuild(c) \/ BootloadBuilds(c) \/ JudgeBuild(c)
      PROVE  FInv'
  BY <1>1, <1>3, RequestFInv, SpawnFInv, BootloadBuildsFInv, JudgeFInv
<1>4. ASSUME NEW c \in Calls,
             ChildWrites(c) \/ ChildRemoves(c) \/ FlashArtifact(c) \/ BootloadImage(c)
      PROVE  FInv'
  BY <1>1, <1>4, ChildFInv, FlashFInv
<1>5. ASSUME NEW c \in Calls, Elsewhere(c) PROVE FInv'
  <2>1. UNCHANGED flashVars
    BY <1>5 DEF Elsewhere
  <2>2. QED
    BY <1>1, <1>2, <1>5, <2>1, ElsewhereIsCalm, CalmFInv
<1>6. ASSUME NEW p \in Procs, Kill(p), UNCHANGED flashVars PROVE FInv'
  BY <1>1, <1>2, <1>6, KillIsCalm, CalmFInv
<1>7. ASSUME UNCHANGED <<vars, flashVars>> PROVE FInv'
  <2>1. Calm
    BY <1>7 DEF vars, Calm
  <2>2. QED
    BY <1>1, <1>7, <2>1, CalmFInv
<1>8. CASE Tick
  BY <1>1, <1>8, TickFInv
<1>9. UNCHANGED allVars => UNCHANGED <<vars, flashVars>>
  BY DEF allVars, flashVars, judgeVars
<1>10. Quiet => UNCHANGED vars
  BY DEF Quiet
<1>11. QED
  BY <1>3, <1>4, <1>5, <1>6, <1>7, <1>8, <1>9, <1>10 DEF FlashNext

LEMMA FlashInvariance == FlashSpec => []FInv
  BY FlashInitFInv, FlashNextFInv, PTL DEF FlashSpec

\* The variables of the build runner and of the artifact keep their types.
THEOREM FlashTypeCorrect == FlashSpec => []FlashTypeOK
  BY FlashInvariance, PTL DEF FInv

\* A leftover of before the history reaches no board: neither build_and_flash nor
\* build_and_bootload takes it for the output of its build.
THEOREM LeftoversAreRefused == FlashSpec => []LeftoverNeverFlashed
  BY FlashInvariance, PTL DEF FInv

\* A build that succeeded and whose artifact is its own is judged fresh, for every
\* lag of the file system's clock that the grace covers.
THEOREM OwnWritesAreFresh == FlashSpec => []OwnWriteIsFresh
  BY FlashInvariance, PTL DEF FInv

\* With the artifact and the flashes added, the runner's own promise still holds.
THEOREM FlashKeepsExclusion == FlashSpec => []OneBuilderPerKey
<1>1. FInv => OneBuilderPerKey
  BY DEF FInv, IInv, FileByPhase, OneBuilderPerKey
<1>2. QED
  BY <1>1, FlashInvariance, PTL
===============================================================================
