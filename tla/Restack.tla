------------------------------ MODULE Restack --------------------------------
(***************************************************************************)
(* `stack fold` and `stack restack` of src/stack.rs: a stack of local      *)
(* branches 1..N, each on top of the one below, whose commits a fold       *)
(* rewrites, and restack, which rebases what is above the rewritten branch *)
(* onto it and pushes all of them or none.  Any rebase may conflict, and   *)
(* restack then promises to put every branch back.                         *)
(*                                                                         *)
(* A commit is its history, the sequence of patches that lead to it, so    *)
(* that "is an ancestor" is "is a prefix" and a replayed commit is another *)
(* commit.  A patch has an author branch, a number and a version: folding  *)
(* review fixes into a commit makes a later version of its patch.  Git is  *)
(* modelled by what these commands make of histories and refs.             *)
(***************************************************************************)
EXTENDS Naturals, Sequences, FiniteSets, SequencesExt

CONSTANTS
  N,          \* branches of the stack; 0 is a branch below and outside of it
  MaxVersion, \* bound: folds of one patch
  MaxEdits,   \* bound: folds, commits, landings and pushes by others
  MaxRestacks \* bound: calls of restack

ASSUME RestackAssumption == N \in Nat \ {0} /\ {MaxVersion, MaxEdits, MaxRestacks} \subseteq Nat

VARIABLES
  refs,      \* refs/heads: [1..N -> commit]
  main,      \* the commit of origin/main
  backups,   \* refs/backup: pairs <<branch, commit>>
  head,      \* the branch HEAD is on
  tree,      \* the commit that the index and the working tree hold
  remote,    \* [1..N -> commit] at the remote
  tracking,  \* [1..N -> commit]: refs/remotes/origin, as last fetched or pushed
  phase,     \* where restack is
  run,       \* its arguments and what it read first
  outcome,   \* how it ended
  edits,
  restacks

local     == <<refs, backups, head, tree>>
far       == <<main, remote, tracking>>
stackVars == <<local, far, phase, run, outcome, edits, restacks>>

Branches == 1..N
Patches  == [of : 0..N + 1, n : 1..2, v : 0..MaxVersion]
Base     == <<>>
Patch(b, n) == [of |-> b, n |-> n, v |-> 0]

\* Branch b as the history begins: the first patch of every branch up to it.
Initial(b) == [i \in 1..b |-> Patch(i, 1)]

NoRun    == [orig |-> 0, stack |-> <<>>, onto |-> FALSE, before |-> <<>>, landed |-> {}, tries |-> 0]
Phases   == {"idle", "loop", "check", "push"}
Outcomes == {"none", "conflict", "unbased", "stuck", "refused", "restacked", "pushed"}
Failures == {"conflict", "unbased", "stuck"}

Commits(c) == c \in Seq(Patches) /\ Len(c) <= 2 * (N + 2)

StackTypeOK ==
  /\ DOMAIN refs = Branches /\ \A b \in Branches : Commits(refs[b])
  /\ DOMAIN remote = Branches /\ \A b \in Branches : Commits(remote[b])
  /\ DOMAIN tracking = Branches /\ \A b \in Branches : Commits(tracking[b])
  /\ Commits(main) /\ Commits(tree)
  /\ \A k \in backups : k[1] \in Branches /\ Commits(k[2])
  /\ head \in 0..N
  /\ phase \in Phases
  /\ outcome \in Outcomes
  /\ run.tries <= Len(run.stack)
  /\ edits \in 0..MaxEdits
  /\ restacks \in 0..MaxRestacks
  /\ phase # "idle" => outcome = "none"

StackInit ==
  /\ refs = [b \in Branches |-> Initial(b)]
  /\ main = Base
  /\ backups = {}
  /\ head \in 0..N
  /\ tree = IF head = 0 THEN Base ELSE Initial(head)
  /\ remote = refs
  /\ tracking = refs
  /\ phase = "idle"
  /\ run = NoRun
  /\ outcome = "none"
  /\ edits = 0
  /\ restacks = 0

-----------------------------------------------------------------------------
(* Git *)

Tip(b)     == IF b = 0 THEN Base ELSE refs[b]
Clean      == tree = Tip(head)
Has(c, p)  == \E i \in DOMAIN c : c[i] = p
SamePatch(p, q) == p.of = q.of /\ p.n = q.n
Holds(c, p) == \E i \in DOMAIN c : SamePatch(c[i], p)
Longest(S) == CHOOSE c \in S : \A d \in S : Len(d) <= Len(c)

\* The length of the common history of two commits.
Fork(c, d) ==
  CHOOSE k \in 0..Len(c) :
    /\ IsPrefix(SubSeq(c, 1, k), d)
    /\ \A j \in k + 1..Len(c) : ~ IsPrefix(SubSeq(c, 1, j), d)

\* `rebase --onto onto upstream` of commit c: the positions of the commits that are
\* replayed, those without an equal patch on the other side of the fork.
Todo(c, upstream) == {i \in Fork(c, upstream) + 1..Len(c) : ~ Has(upstream, c[i])}

\* A patch that is there already becomes empty and is dropped.
Apply(onto, c, positions) ==
  LET upTo[i \in 0..Len(c)] ==
        IF i = 0 THEN onto
        ELSE IF i \in positions /\ ~ Has(upTo[i - 1], c[i]) THEN Append(upTo[i - 1], c[i])
             ELSE upTo[i - 1]
  IN  upTo[Len(c)]

\* Two versions of a patch cannot both apply.
Clash(onto, c, positions) ==
  \E i \in positions, j \in DOMAIN onto : SamePatch(c[i], onto[j]) /\ c[i] # onto[j]

\* Not the code: a rebase without --update-refs.
LeftBehind(b, onto, c, positions) == refs[b]

\* --update-refs: a branch whose tip is replayed moves to its copy.
Moved(b, onto, c, positions) ==
  IF IsPrefix(refs[b], c) /\ Len(refs[b]) \in positions
  THEN Apply(onto, c, {i \in positions : i <= Len(refs[b])})
  ELSE refs[b]

Rebased(top, onto, upstream) ==
  LET c == refs[top]
      positions == Todo(c, upstream)
  IN  [b \in Branches |-> IF b = top THEN Apply(onto, c, positions) ELSE Moved(b, onto, c, positions)]

BackupsOf(b) == {k[2] : k \in {m \in backups : m[1] = b}}

\* backup() puts them outside of refs/heads, where --update-refs does not reach.
Backup(S) == backups' = backups \cup {<<b, refs[b]>> : b \in S}

-----------------------------------------------------------------------------
(* The work on the branches between two restacks *)

Edit == edits < MaxEdits /\ edits' = edits + 1 /\ UNCHANGED restacks

AtRest == phase = "idle"

Idle == AtRest /\ run' = NoRun /\ outcome' = "none" /\ UNCHANGED phase

\* A commit on top of the branch that is checked out, with no backup.
Commit ==
  /\ Idle /\ Edit /\ Clean /\ head # 0
  /\ ~ Holds(refs[head], Patch(head, 2))
  /\ refs' = [refs EXCEPT ![head] = Append(@, Patch(head, 2))]
  /\ tree' = refs'[head]
  /\ UNCHANGED <<backups, head, far>>

Switch ==
  /\ Idle /\ Clean
  /\ \E b \in 0..N : head' = b /\ tree' = Tip(b)
  /\ UNCHANGED <<refs, backups, far, edits, restacks>>

Newer(c, i) == [c EXCEPT ![i].v = @ + 1]

\* The branches a fold can move: the one that is checked out, and those whose tip is
\* a commit between the base and HEAD.
InRange(b) == b = head \/ (IsPrefix(refs[b], refs[head]) /\ Len(refs[b]) > Fork(refs[b], main))

\* Not the code: a backup of the branch that is checked out only.
FoldBackingUpHead ==
  /\ Idle /\ Edit /\ Clean /\ head # 0
  /\ Backup({head})
  /\ \E i \in Fork(refs[head], main) + 1..Len(refs[head]) :
        /\ refs[head][i].v < MaxVersion
        /\ refs' = [b \in Branches |->
             IF InRange(b) /\ Len(refs[b]) >= i THEN Newer(refs[b], i) ELSE refs[b]]
  /\ tree' = refs'[head]
  /\ UNCHANGED <<head, far>>

\* plan and fold: review fixes become a new version of a patch between the base and
\* HEAD.  A rebase that conflicts is aborted and leaves the backups.
Fold ==
  /\ Idle /\ Edit /\ Clean /\ head # 0
  /\ Backup({b \in Branches : InRange(b)})
  /\ \/ \E i \in Fork(refs[head], main) + 1..Len(refs[head]) :
           /\ refs[head][i].v < MaxVersion
           /\ refs' = [b \in Branches |->
                IF InRange(b) /\ Len(refs[b]) >= i THEN Newer(refs[b], i) ELSE refs[b]]
     \/ UNCHANGED refs
  /\ tree' = refs'[head]
  /\ UNCHANGED <<head, far>>

\* The bottom branch lands by rebase merge, perhaps above another commit of main.
Land ==
  /\ Idle /\ Edit
  /\ \E other \in {<<>>, <<Patch(0, 1)>>} :
        main' = Apply(main \o other, remote[1], DOMAIN remote[1])
  /\ ~ \E i, j \in DOMAIN main' : i # j /\ SamePatch(main'[i], main'[j])
  /\ UNCHANGED <<local, remote, tracking>>

\* Work of others lands.
OthersLand ==
  /\ Idle /\ Edit
  /\ ~ Holds(main, Patch(0, 1))
  /\ main' = Append(main, Patch(0, 1))
  /\ UNCHANGED <<local, remote, tracking>>

\* Somebody else pushes to a branch of the stack, and perhaps this checkout fetches.
OthersPush ==
  /\ AtRest /\ Edit
  /\ \E b \in Branches :
        /\ ~ Holds(remote[b], Patch(N + 1, 1))
        /\ remote' = [remote EXCEPT ![b] = Append(@, Patch(N + 1, 1))]
  /\ UNCHANGED <<local, main, tracking, phase, run, outcome>>

Fetch ==
  /\ Idle
  /\ tracking # remote
  /\ tracking' = remote
  /\ UNCHANGED <<local, main, remote, edits, restacks>>

-----------------------------------------------------------------------------
(* restack: which branches *)

Candidates(b) == {refs[b]} \cup BackupsOf(b)

\* The branch's tip, or the newest backup of it, that top still contains.
Effective(b, top) == {c \in Candidates(b) : IsPrefix(c, refs[top])}

Members(bottom, top) ==
  {b \in Branches :
    /\ Effective(b, top) # {}
    /\ b # bottom =>
         ~ \E c \in Candidates(bottom) : IsPrefix(Longest(Effective(b, top)), c)}

Below(top, a, b) ==
  LET la == Len(Longest(Effective(a, top)))
      lb == Len(Longest(Effective(b, top)))
  IN  la < lb \/ (la = lb /\ a < b)

StackBranches(bottom, top) ==
  {s \in [1..Cardinality(Members(bottom, top)) -> Members(bottom, top)] :
    \A i, j \in DOMAIN s : i < j => Below(top, s[i], s[j])}

\* Every branch of the stack is backed up before anything moves.
StartRestack ==
  /\ AtRest /\ Clean
  /\ \E bottom, top \in Branches, onto \in BOOLEAN : \E stack \in StackBranches(bottom, top) :
       /\ \E c \in Candidates(bottom) : IsPrefix(c, refs[top])
       /\ stack # <<>> /\ stack[1] = bottom /\ stack[Len(stack)] = top
       /\ Backup(ToSet(stack))
       /\ run' = [orig |-> head, stack |-> stack, onto |-> onto, before |-> refs,
                  landed |-> {}, tries |-> 0]
  /\ phase' = "loop" /\ outcome' = "none"
  /\ restacks < MaxRestacks /\ restacks' = restacks + 1
  /\ UNCHANGED <<refs, head, tree, far, edits>>

-----------------------------------------------------------------------------
(* restack: failing *)

OnStack(b) == b \in ToSet(run.stack)

\* Not the code: the branches from the top down, so the reset comes last.
RestoreTopDown(current, from) ==
  LET hard == OnStack(run.orig) IN
  /\ refs' = [b \in Branches |->
       IF ~ OnStack(b) THEN from[b]
       ELSE IF hard /\ b = current THEN run.before[run.orig]
       ELSE IF b # run.orig THEN run.before[b]
       ELSE from[b]]
  /\ tree' = IF hard THEN run.before[run.orig] ELSE IF current = 0 THEN Base ELSE from[current]

\* restore() goes through the branches from the bottom up: `reset --hard` for the one
\* restack was called on, which moves whatever HEAD is on, and `update-ref` for others.
Restore(current, from) ==
  LET hard == OnStack(run.orig) IN
  /\ refs' = [b \in Branches |->
       IF ~ OnStack(b) THEN from[b]
       ELSE IF b # run.orig THEN run.before[b]
       ELSE IF current = run.orig THEN run.before[b] ELSE from[b]]
  /\ tree' = IF hard THEN run.before[run.orig] ELSE IF current = 0 THEN Base ELSE from[current]

Fail(how) == phase' = "idle" /\ outcome' = how /\ UNCHANGED <<backups, far, run, edits, restacks>>

Top == run.stack[Len(run.stack)]

-----------------------------------------------------------------------------
(* restack: rebasing *)

\* The rebase checks out its branch first, and so does aborting it: HEAD ends there.
Rebase(top, onto, upstream) ==
  \/ /\ ~ Clash(onto, refs[top], Todo(refs[top], upstream))
     /\ refs' = Rebased(top, onto, upstream)
     /\ head' = top
     /\ tree' = refs'[top]
     /\ run' = [run EXCEPT !.tries = @ + 1]
     /\ phase' = IF run.onto THEN "check" ELSE "loop"
     /\ UNCHANGED <<backups, far, outcome, edits, restacks>>
  \/ /\ Todo(refs[top], upstream) # {}
     /\ head' = top
     /\ Restore(top, refs)
     /\ Fail("conflict")

\* The places of the stack at which a branch is not on top of the one below it.
Breaks(at) == {i \in 2..Len(run.stack) :
                ~ IsPrefix(at[run.stack[i - 1]], at[run.stack[i]])}
Broken == Breaks(refs)
Lowest == CHOOSE i \in Broken : \A j \in Broken : i <= j

\* What the branch was based on: the newest backup of the one below that it contains.
Bases(prev, cur) == {c \in BackupsOf(prev) : IsPrefix(c, refs[cur])}

\* Not the code: the parent, as if every branch had one commit.
ParentOfTip(prev, cur) == Front(refs[cur])

OldBase(prev, cur) == Longest(Bases(prev, cur))

MayTry == run.tries < Len(run.stack)

\* One turn of the loop, bounded by the number of branches.
RebaseAbove ==
  /\ phase = "loop" /\ ~ run.onto /\ MayTry /\ Broken # {}
  /\ LET prev == run.stack[Lowest - 1]
         cur  == run.stack[Lowest]
     IN  IF Bases(prev, cur) = {}
         THEN Restore(head, refs) /\ Fail("unbased") /\ UNCHANGED head
         ELSE Rebase(Top, refs[prev], OldBase(prev, cur))

LoopEnds ==
  /\ phase = "loop" /\ ~ run.onto
  /\ Broken = {} \/ ~ MayTry
  /\ phase' = "check"
  /\ UNCHANGED <<local, far, run, outcome, edits, restacks>>

\* git cherry: every patch of the branch is in main.
Landed(b) == \A i \in Fork(refs[b], main) + 1..Len(refs[b]) : Has(main, refs[b][i])

\* --onto: the branches that landed are left out, the rest is rebased in one go.
RebaseOnto ==
  /\ phase = "loop" /\ run.onto /\ run.landed = {}
  /\ LET landed == {b \in ToSet(run.stack) : Landed(b)}
     IN  IF landed # {}
         THEN /\ run' = [run EXCEPT !.landed = landed]
              /\ phase' = IF ToSet(run.stack) \subseteq landed THEN "check" ELSE "loop"
              /\ UNCHANGED <<local, far, outcome, edits, restacks>>
         ELSE Rebase(Top, main, main)

LiveAt  == {i \in DOMAIN run.stack : run.stack[i] \notin run.landed}
Live    == {run.stack[i] : i \in LiveAt}
Highest == CHOOSE i \in LiveAt : \A j \in LiveAt : j <= i

RebaseLive ==
  /\ phase = "loop" /\ run.onto /\ run.landed # {}
  /\ Rebase(run.stack[Highest], main, main)

\* Every live branch is on top of the live one below it.
Linear ==
  \A i, j \in LiveAt :
    i < j /\ (i + 1..j - 1) \cap LiveAt = {} => IsPrefix(refs[run.stack[i]], refs[run.stack[j]])

\* The last check; then HEAD goes back to where it was.
Check ==
  /\ phase = "check"
  /\ IF Linear
     THEN /\ head' = run.orig /\ tree' = Tip(run.orig)
          /\ phase' = "push"
          /\ UNCHANGED <<refs, backups, far, run, outcome, edits, restacks>>
     ELSE Restore(head, refs) /\ Fail("stuck") /\ UNCHANGED head

-----------------------------------------------------------------------------
(* restack: pushing *)

Send(how) ==
  /\ phase' = "idle" /\ outcome' = how
  /\ UNCHANGED <<local, main, run, edits, restacks>>

\* Every lease names what this checkout last saw of its branch; all are sent or none.
Push ==
  /\ phase = "push"
  /\ \A b \in Live : remote[b] = tracking[b]
  /\ remote' = [b \in Branches |-> IF b \in Live THEN refs[b] ELSE remote[b]]
  /\ tracking' = [b \in Branches |-> IF b \in Live THEN refs[b] ELSE tracking[b]]
  /\ Send("pushed")

\* A lease does not hold or the remote is out of reach; or --no-push.
PushRefused ==
  /\ phase = "push"
  /\ UNCHANGED <<remote, tracking>>
  /\ \E how \in {"refused", "restacked"} : Send(how)

StackNext ==
  \/ Commit \/ Switch \/ Fold \/ Land \/ OthersLand \/ OthersPush \/ Fetch
  \/ StartRestack \/ RebaseAbove \/ LoopEnds \/ RebaseOnto \/ RebaseLive
  \/ Check \/ Push \/ PushRefused

StackSpec == StackInit /\ [][StackNext]_stackVars

-----------------------------------------------------------------------------
(* Properties *)

Succeeded == outcome \in {"restacked", "refused", "pushed"}

\* Where a branch was when the command that runs began.
Began(b) == IF AtRest THEN refs[b] ELSE run.before[b]

\* A command that rewrites a branch keeps where it was under a backup: fold for every
\* branch that the rebase takes along, restack for every branch of the stack.
NoTipIsLost ==
  [][\A b \in Branches :
       ~ IsPrefix(refs[b], refs'[b]) /\ (AtRest \/ OnStack(b)) => <<b, Began(b)>> \in backups']_stackVars

OwnPatches(b, c) == {c[i] : i \in {j \in DOMAIN c : c[j].of = b}}

\* No branch below b in the stack has ever held a patch of b.
OwnsItsPatches(b) ==
  \A i, j \in DOMAIN run.stack :
    i < j /\ run.stack[j] = b => \A c \in BackupsOf(run.stack[i]) : OwnPatches(b, c) = {}

\* After a restack that succeeded, each live branch has every patch that it had, once,
\* and those of the stack's branches at the version which these have, or which landed.
\* Its own are those it had, at their version: no review fix is undone, no commit
\* dropped or brought back, unless a branch below it had taken them over.
PatchesSurvive ==
  Succeeded => \A b \in Live :
    /\ \A i \in DOMAIN run.before[b] : Holds(refs[b], run.before[b][i])
    /\ \A i, j \in DOMAIN refs[b] : SamePatch(refs[b][i], refs[b][j]) => i = j
    /\ \A a \in ToSet(run.stack) : OwnPatches(a, refs[b]) \subseteq OwnPatches(a, refs[a]) \cup ToSet(main)
    /\ run.onto \/ OwnsItsPatches(b) => OwnPatches(b, refs[b]) = OwnPatches(b, run.before[b])

\* No branch of the stack was ever where one below it has been: it had commits of its own.
Layered ==
  \A i, j \in DOMAIN run.stack :
    i < j => \A c \in BackupsOf(run.stack[i]), d \in BackupsOf(run.stack[j]) : ~ IsPrefix(d, c)

BrokenOnce == \A i, j \in Breaks(run.before) : i = j

\* A restack that fails leaves every branch of its stack where it was, but for the one
\* it was called on.  One that fails before its first rebase is done leaves all branches
\* alone, and without --onto so does one of a stack that was broken in one place.
FailureRestoresTheRest ==
  outcome \in Failures => \A b \in Branches :
    \/ OnStack(b) /\ b # run.orig
    \/ run.tries = 0
    \/ ~ run.onto /\ Layered /\ BrokenOnce
    => refs[b] = run.before[b]

\* Without --onto, the loop mends a stack in which one branch was rewritten: "still not on top" is
\* said only of a stack that was broken in more places than one, or of a branch with no
\* commits of its own.
OneBreakIsMended ==
  outcome = "stuck" /\ ~ run.onto /\ Layered => ~ BrokenOnce

\* "Every branch is back at its backup/ ref": after any failure, of the stack's branches.
EveryBranchIsBack ==
  outcome \in Failures => \A b \in Branches : OnStack(b) => refs[b] = run.before[b]

\* The same promise, of the branches that --update-refs takes along from below the stack.
BranchesBelowAreBack ==
  outcome \in Failures => \A b \in Branches : ~ OnStack(b) => refs[b] = run.before[b]

\* The same promise, of a restack without --onto.
BranchesBelowAreLeft ==
  outcome \in Failures /\ ~ run.onto => \A b \in Branches : ~ OnStack(b) => refs[b] = run.before[b]
==============================================================================
