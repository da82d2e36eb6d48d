# embarch-api in TLA+

`embarch-api` is the layer between an MCP client or a person at a terminal and
`embarch-core`, the server that owns the debug probe, the serial ports and the
bench. It builds firmware, hands artifacts to Core, follows studies that Core
runs, and keeps a few files of its own. This directory models the parts of it
in which several actors, failures and time meet: TLC checks the modules on
small instances, and TLAPS proves what matters most of them for every size.

The specification of a module is always a translation of the code in `src/`;
`PROJECT.json` names, for every definition, the lines it translates. Core is not
in the repository: where a module needs it, its side is modelled from what the
client relies on and marked external in that map.

## 1. Inventory

The crate `embarch-api` (`src/src/`) has two front ends, the MCP tools of
`tools.rs` and the subcommands of `cli.rs`/`main.rs`, over shared modules and over
two library crates: `embarch-firmware-build` (configuration, target resolution,
the build runner) and `embarch-core-client` (HTTP to Core, the event stream). An
MCP server is one process that runs many tool calls concurrently; every CLI
call, and the desktop UI, is a process of its own. They share files (the build
lock, build directories, the ledger, git repositories) and Core.

| Part | State it keeps | Operations | Hard behaviour | What makes it correct |
|---|---|---|---|---|
| **Build runner** (`build.rs`) | per key: an async mutex in the process, an advisory lock on a file; per call: the child's process group, drain tasks, the artifact's freshness | `run_build`, `run_build_streaming` | several processes and calls of one key; timeouts; descendants that keep the pipes; dropped futures and killed processes | one build per key; no waiter blocked by the dead; a tree writes only under its lock; freshness judged right |
| **Build and flash** (`tools.rs`, `cli.rs`, `bootload.rs`) | none of its own; it reads the artifact again after the locks are gone | `build_and_flash`, `build_and_bootload` | the artifact changes between verdict and flash | never flash what no build just made |
| **Bench lease client** (`client.rs`, `lease.rs`) | `HeldLease` (token, ttl, renewed) per process, the environment's token | `lease_take`, `lease_renew`, `lease_release`, `set_lease_token`, `lease_keepalive` | answers that cross; lost requests; expiry; restarts of Core | a live holder's lease does not lapse; it sends the token it was granted |
| **Study follower** (`study_events.rs`, `sse.rs`) | the subscription, the last prompt reported, the deadline | `follow_study` over `StudyEventStream` | events before, during and after the subscription; a bounded channel that drops; cut streams; a failed first poll | the follow ends, reports the record, and tells every prompt |
| **SSE decoder** (`sse.rs`) | a buffer of bytes | `push`, `next_frame` | chunk boundaries anywhere, CRLF split over two chunks | frames do not depend on the cutting |
| **run_study** (`reflash.rs`) | none; a sequence of builds, flashes, resets, checks | `run_study` | the tree edited meanwhile, another session flashing meanwhile, a failure after any step | a recorded version is that of the image that ran |
| **Ledger** (`ledger.rs`) | `rows.jsonl` (append-only), `bench.json`, `tests.toml` | `add`, `record_submission`, `settle`, `pending_view`, `show` | several processes append and settle; Core unreachable; torn lines | a test listed as done has a latest run that passed |
| **Bench exchange** (`bench_exchange.rs`) | listeners with their lines, steps | `run` | two concurrent futures; failing reads and steps | no capture outlives the call unnoticed but one whose own start or stop failed; no line is lost or doubled |
| **Stack** (`stack.rs`) | branches, backup refs, a rebase in progress | `backup`, `fold`, `restack`, `restore` | a conflict half-way; branches moved by `--update-refs` | a failure leaves every branch where it was |
| **Patches** (`patches.rs`) | a patch series, an import state file, a branch | `export`, `fold_fixes`, `import`, `regroup` | an error between two of many git and file steps | the series and the branch stand for the same tree |
| **Core client: address and routes** (`client.rs`) | an address resolved once, one client | some forty routes, `flash`, `post_study` | a Core that is older, replaced or restarted between requests; one status code for several causes | each method tells what Core did, and why it refused |
| **MCP server and command line** (`tools.rs`, `cli.rs`, `main.rs`) | none | some fifty tools and as many subcommands, with code of their own | several requests of which one fails or is lost | exit code and result tell what Core did |
| **Target resolution** (`resolve.rs`, `zephyr.rs`, `config.rs`) | none; it reads the config and the repository on every call | `Config::validate`, `scan`, `resolve`, `list_targets` | the repository grows between two calls | a plan is the one build that was asked for; no two builds share a directory |
| **Version command guard** (`version.rs`) | none | `reject_tree_mutating_command` | a pure function of the arguments | no tree-mutating command passes |
| **Studies, capacity, desks** (`study.rs`, `capacity.rs`, `host_study.rs`, `open_desk.rs`, `instrument.rs`) | none | validation and rendering | sequential | - |
| **Logging, tokens, output** | none | I/O | - | - |

How they interact: `build_and_flash` and `run_study` call the build runner and
then Core through the client; every request of the client carries the session's
lease token; `run_study` hands its study to the follower and to the ledger; the
ledger asks Core for the record that the follower also reads.

## 2. Modules, runs, bounds and fairness

Each module's header says which files it stands for. The names of actions and
helpers follow the code's where TLA+ allows it; operators marked "Not the code"
are deliberately wrong variants that a property must catch.

| Module | Extends | Model-checked with | Proofs |
|---|---|---|---|
| `BuildLock` | `INSTANCE BuildSlot` | `MCBuildLock` | `BuildFlashProofs` |
| `BuildFlash` | `BuildLock` | `MCBuildFlash` | `BuildFlashProofs` |
| `BenchLease` | | `MCBenchLease` | `BenchLeaseProofs` |
| `FollowStudy` | | itself | `FollowStudyProofs` |
| `Ledger` | | `MCLedger` | `LedgerProofs` |
| `Restack` | | itself | `CommandsProofs` |
| `BenchExchange` | | `MCBenchExchange` | `BenchExchangeProofs` |
| `RunStudy` | | `MCRunStudy` | `RunStudyProofs` |
| `Targets` | | `MCTargets` | `TargetsProofs` |
| `Commands` | `CoreClient` | `MCCommands` | `CommandsProofs` |

Two runs are expected to find a violation: `ledger_torn` and `restack_restore`. Thirteen
more configurations, not listed as runs, show where a doc's promise is not kept, each by
a counterexample of TLC: `MCBuildLockOrphan.cfg`, `MCBuildFlashRace.cfg`,
`MCBenchLeaseStale.cfg`, `MCFollowStudyHang.cfg`, `MCFollowStudyUnanswered.cfg`,
`MCRunStudyMismatch.cfg`, `MCBenchExchangeCeiling.cfg`, `MCBenchExchangeOrphan.cfg`,
`MCBenchExchangeMixed.cfg`, `MCCommandsUnenroll.cfg`, `MCTargetsClash.cfg`,
`MCRestackBelow.cfg` and `MCRestackTwice.cfg`. The findings of `PROJECT.json` quote the
promises.

Every module has a type invariant. It is proved where the module has proofs
of the whole state, and is not among the properties of the runs.

### BuildLock, BuildSlot, BuildFlash: the build runner

`BuildLock.tla` models `BuildLocks::run_build` and what it calls. A call passes
through the phases `idle, mutex, file, start, build, drain, unlock, unmutex, done`,
one per await point or lock drop of the code.

| Variable | In the code |
|---|---|
| `mutex` | holders of the `Arc<Mutex<()>>` of `lock_for(key)`, one per process and key |
| `flock[k]` | the open file of the key's lock file, while it holds the advisory lock |
| `tree[c]` | the process group that `spawn` made: running, only descendants left on the pipes, or gone |
| `exit[c]` | `ExitStatus`, or the timeout |
| `verdict[c]` | the returned `BuildOutcome` or error |

`Cancel` drops the call's future at an await point, `Kill` ends a process; both
drop locks and neither touches the command, which has a process group of its own.
`BuildSlot.tla` is the abstract promise, one build per key at a time, and
`BuildLock!ImplementsSlot` is the refinement: inside are the calls between taking and
dropping the lock file. `BuildFlash.tla` extends the runner with the artifact, its
mtime and a clock: `ArtifactIsFresh` is `artifact_is_fresh`, `FlashArtifact` is
`build_and_flash` reading the file after the locks are gone. A call in `Bootloads` is a
`build_and_bootload`: it stamps its start before it waits for the locks, counts the
image as one that lay there before, and judges it after the build.

* Run `buildlock` (three calls of one key in two processes, two aborts): mutual
  exclusion, the drop order that keeps the wait note truthful, trees that write
  under their lock, refinement of the slot, and that every call ends. Three calls
  in two processes are the smallest set with a rival in the same process and one
  in another; two aborts let a killed holder be followed by a cancelled waiter.
* `MCBuildLockOrphan.cfg`: a killed or cancelled caller frees its locks while its
  command still runs, and the next build of the key runs beside it.
* Run `buildflash` (a `build_and_flash` and a `build_and_bootload` in two processes, one
  abort, clock to 5, grace and lag of one tick): an old leftover is never flashed or
  bootloaded, however long a call waited for the locks; a build's own write is never
  refused. "Old" matters: a leftover written within the grace before a build starts
  does count as fresh, by design of the grace. Clock 5 lets a build start after the
  grace has passed, wait, write late and still be judged.
* `MCBuildFlashRace.cfg`: the artifact is read after the locks are dropped, so what
  reaches the board may come from another build that has already failed.

Fairness (`EveryCallEnds` only): the runtime polls a call that can move, an armed
timeout fires, and descendants that keep the pipes end some day. The last one is
an assumption about the world: the code waits for the pipes without a bound, even
after a timeout. Nothing is assumed of failures, cancellations or kills. A call
with no timeout is not covered: `TimeOut` stands for the call's deadline.

### BenchLease: the lease client

`held[s]` is `HeldLease` of a process, `env[s]` its `EMBARCH_LEASE_TOKEN`, `req[th]`
the request a tool call or the keepalive has in flight; the token travels with the
request from the time it was sent, Core acts on it later, and the answer is applied
later again, to whatever `HeldLease` has become. Ages count seconds. Core is
modelled as one lease with a TTL, tokens that are never reused, and expiry at some
time at or after the TTL.

* Run `lease` (a server with keepalive and one tool call, a command-line process,
  TTL 5, two grants, one fault): `KeepaliveHolds` with one lost renewal,
  `HolderSendsToken` with one tool call at a time, `RenewsNeverCease`. A TTL of 5
  has `ttl / 3 = 1`, the tightest case in which a retry still fits.
* `MCBenchLeaseStale.cfg` (TTLs 3 and 9): two renewals whose answers are applied in the
  other order leave the longer TTL in `HeldLease`, and the lease lapses.

With two tool calls at once, the answer of a release that is applied after that
of a take erases the new token; the run `lease` keeps to one tool call beside the
keepalive. TTLs below 4 cannot be kept by a renewal that
may come a second late: that is a limit of the code, not checked. Fairness: time
passes, Core drops an expired lease some day, answers are produced and applied. Time
needs strong fairness because a request that is sent and answered within a second
disables `Tick` in between.

### FollowStudy: following a study

One `follow_study` call against Core's record (`study`), the broadcast channel of
this subscriber (`queue`, bounded, `dropped`), and the stream's fate. The order is
the code's: subscribe, poll once, go live, fall back to polling. `blind` records
that the opening poll failed, `lagged` that Core said events were dropped: in these two
cases the properties promise less, because the code does.

* Run `follow` (capacity 2, two steps, two prompts, two faults, with and without
  deadline and `stop_on_prompt`): what is reported is the record and, once the subscription
  has been answered or has failed, the follow ends, a waiting prompt is told, and a deadline
  ends the follow, in the opening poll, live and polling. Two prompts and capacity 2
  make the channel overflow with one of them in it.
* `MCFollowStudyHang.cfg`: with a failed opening poll, a study that had ended before is
  never noticed, since nothing is published any more and keep-alive comments keep
  the stream alive.

* `MCFollowStudyUnanswered.cfg`: the subscription is the one request without a timeout, and
  the deadline is not applied to it. A Core that never answers it holds the follow past any
  deadline.

Fairness: the client's task runs, requests that have a timeout are answered or fail, and a
deadline passes. Of the subscription (`Subscribe`) nothing is assumed: the code waits for its
answer without a bound, so the liveness properties begin where it has come (`Subscribed`).
The study need not end,
prompts need not be answered, streams need not break; Core's keep-alive is a step
that changes nothing (`KeepAlive`).

### Ledger: rows.jsonl

Several calls, of one server or of several processes, submit studies, add rows by
hand and settle. `file` is `rows.jsonl` as a sequence of objects and newlines, since
`append_row` writes the two separately; `todo[c]` is what `settle` computed from the
rows it read, and later appends do not change it. `record` is Core's, `head` and
`reachable` the project's git history. `Done` is the pending view's reason `None`.

* Run `ledger` (two interchangeable calls, two studies of one test, and one event:
  a commit or amendment, a row by hand, a failure or a kill): a settled row tells the record's
  verdict at the submitted commit; `settle` closes all that had ended when it
  began, except what Core did not answer for; with calls one at a time, a
  test counts as done only if its latest ended run passed. `SequentialCallsTellTheLast`
  is stated for calls that do not overlap: when they do, the row of an older study can
  be written last, and the test is then listed by that one.
* Run `ledger_torn`: two overlapping appends leave two objects on one line, and the
  file cannot be read any more.

`Callers` are symmetric: no property or action tells them apart. There is no
liveness here, and calls may all be idle for ever (`CHECK_DEADLOCK FALSE`: studies
are bounded).

### Restack: the stack command

A commit is its history, a sequence of patches; folding review fixes makes a new
version of a patch. `refs`, `backups`, `head`, `tree`, `remote`, `tracking` are git's;
`run` holds what `restack` read first. `Rebase` is `git rebase --update-refs` as the
code calls it: it checks out the top branch, drops patches that are already there,
moves the branches between, and may conflict whenever it replays anything. It must
conflict when two versions of a patch meet. `Restore` is `restore` run with HEAD where
the rebase left it. Every branch begins with a patch of its own, so no two branches
point at one commit to begin with. The specification is `StackSpec`, with `StackInit` and
`StackNext`: `CommandsProofs` extends this module beside `Commands`.

* Run `restack` (three branches, two edits before one restack). After a restack that
  succeeds each live branch has all its patches, once, and its own as they were
  (`PatchesSurvive`); the exception is a patch that a branch below it has held, which is then
  that branch's to fold (`OwnsItsPatches`). A failure restores all of the stack but the branch
  it was called on, and every branch if no rebase was done or, without `--onto`, if the stack
  was broken in one place (`FailureRestoresTheRest`). One break is mended, if the branches of the stack
  have commits of their own (`Layered`; without that a branch stands where the one below
  once was, and which of the two it was based on cannot be told). Every branch of the stack that is
  rewritten has a backup. With three edits the same holds. Main moves by what
  lands of the stack (`Land`) and by the work of others (`OthersLand`).
* Run `restack_restore`: the branch restack was called on is not restored when a
  rebase has moved HEAD.
* `MCRestackBelow.cfg`: `restack --onto` takes a branch below the bottom of the stack along
  when it has not landed; no backup names where it was, and a failure leaves it moved.
* `MCRestackTwice.cfg`: without `--onto` the same happens to a stack that was broken in two places.
  Of four branches, a fold on 2 rewrites 1 and 2, a fold on 3 rewrites 3, and 2..4 is restacked.
  Once the first turn has moved 4 alone, the range of the second holds the commits
  of 1, which moves; the third turn conflicts, and 1 stays where it is now.
  The run of three branches does not show it.

There is no fairness: a person runs each command, and stopping is no deadlock.

### BenchExchange: two futures over several captures

`run` of `bench_exchange.rs`: `pc` is its sequential part (check, start, undo, run), `step`
the steps future and `poll` the poller, which the code joins in one task. A console
receives halves of lines (`capture[s].halves`), so a read may end within a line; `listener`
is the code's `Listener`. `Absorb` is `drain` on one reply: the lines it completes, the
tail kept for the next, the receive times that `push_line` pops. Time is one
clock: an offset between Core's clock and the client's drops out of the anchor, and
durations are not modelled (a sleep or a request ends at any time). `Before` is the order
of the sorted timeline and `Kept` what the cap leaves of it; the timeline is the kept rows in
that order. `PollSeq` is the code's 1,000,000, from which the poller numbers its rows: the
steps' rows are numbered from 0 and, as the code takes for granted, never get there.

* Run `exchange` (one step, on a console that is not listened to and so answers by a row of
  its own, beside two listened consoles, of which one says up to three halves of lines and
  one nothing; a reply of at most two halves, line 2 blank, one line
  kept of each console, clock to 1, one failing request, each reply with or without receive
  times): an exchange that returns leaves no capture running without a note, and one that is
  refused none but a capture whose own start or stop failed; every line is told once; a line
  has its own time while Core sends times, and never one earlier than its own; a reply
  follows its write, the timeline keeps each console's order, and the exchange ends. Two halves
  of a reply with three received make a line straddle two reads, and the stop flush
  a tail; one failure reaches each of start, read, stop and step. A request that fails
  may have taken effect or not: a start, a stop and a write may be done by Core and their answer
  lost. One step is enough for what the two futures do to each other: a line is said before, during
  or after it, and the poller may end, fail or stop a capture at any time of it. Several steps, also
  on listened consoles, are covered by the proofs, for all but `ExchangeEnds`. `unsure` remembers the captures of which a start, or the stop that undoes it, failed, and
  `untimed` those of which Core left out times.
* `MCBenchExchangeCeiling.cfg`: a Core without receive times.
* `MCBenchExchangeOrphan.cfg`: a start that Core carried out although its answer was lost is not
  among the captures the failure path stops, and runs on until its own time limit.
* `MCBenchExchangeMixed.cfg`: if some replies hold no times, a line takes the time of the next
  line that has one and is placed by it as if it were exact.

Fairness (`ExchangeEnds`): requests are answered (`Deliver`) and the runtime polls
the sequential part and both futures. Consoles need not speak, and nothing need fail.

### RunStudy: run_study

Calls of several sessions on the two boards of one bench. A version stands for the
tree it is derived from, the artifact built from it and the image on a board. `pc[c]` is
the step of `run_study`; engineers edit the trees (`Edit`) between any two steps, other calls
build and flash. `moved[c]` records what others moved after the call relied on it:
no code can keep its promise then, and the properties leave just that out. A build is
one step, which `BuildLock` justifies; the artifact is read afterwards, with no lock.

* Run `runstudy` (two interchangeable calls, two versions, seven requests: every
  reflash target, the override, a missing project): what is submitted runs on what
  the study requires; the DUT is touched last; the row names the image. Two calls are
  the smallest set in which another flashes between a flash and a submit.
* `MCRunStudyMismatch.cfg`: a mismatch after the bench was flashed.

There is no fairness; a call may be cancelled at any step.

### Targets: which build a call gets

`config.rs`, `zephyr.rs` and `resolve.rs` as operators, over a repository in which `board.yml`
files land (`Land`) and apps move (`MoveApps`) between the calls (`Call`). A name is a sequence of
words and separators, so that joining names loses here what it loses in the code.

* Run `targets` (boards of one and of two SoCs, clusters, variants, revisions, apps in
  both directories, one of them named like another with a snippet, static and west
  configs including ones that must be refused, two remembered builds): no two builds
  share a directory if no name holds a separator, a selection is honoured or
  refused, growth is a non-event for a pinned call, `list_targets` tells what a bare
  build writes to. Two remembered builds are what a clash needs. The selection
  properties are evaluated for every config and selection in every repository state,
  against definitions that do not use the code's merge. The property about directories
  has three preconditions, which a repository or a config may break and nothing checks:
  no separator in a name (`Joinable`, see the next configuration), no revision called `none`,
  which a directory's name uses for a missing one, and no two projects of one config
  with the same `build_dir_root` or `build_dir` (`RootsAreOwn`). The last is because a lock's key
  holds the project's name: two such projects have two locks for one directory.
* `MCTargetsClash.cfg`: the app `fw` with the snippet `ble` and the app `fw-ble` without one
  build in one directory.

### CoreClient and Commands: the two front ends

`CoreClient` is what each client method makes of an answer: its status code, the class of
its body and the one datum it reads. Core's tables and handlers are external; a build
of Core may lack routes, ignore a field of a request and speak another schema.
`Commands` runs one tool or subcommand: a handler is a script of local checks and requests,
which stops at the first step that fails. Each front end has its own scripts since it
has its own code; those that call one shared function share a definition. `run_study` is
four commands, by what it reflashes, and each with and without the check of the bench
(`RunStudy`): the bench is built, flashed, reset and asked, the DUT's version derived, the DUT
built, flashed and reset, and the study submitted, and any of these may be the last.

`ExitTellsWhatCoreDid` compares what a command changed on Core (`did`) with what it is for
(`Purpose`, every request that changes something, removals included) and what it changes on
its way there (`OnTheWay`: a signal that is stored and then read back, the flashes and resets
of `run_study`). Exit 0 means that all of it was done, or that Core said there was nothing to
remove. Any other exit means that nothing was changed but what is on the way and the one
request whose answer was lost: a `run_study` that exits 1 may have flashed one board or
both, which is the code's order and no failure of the property.

* Run `commands` (every tool and subcommand that asks Core something; Core as built
  with this client, an older one, and one of another schema): absence is told only of
  what was looked up, a refusal names its cause, a read is of the board that was
  named, a signal leaves its board, a study needs one schema, and the exit code tells
  what Core did. Between the requests others replace Core, take the lease, start a
  study or redeclare the signal. `Ours`, an older build and one of another schema are the
  three kinds of Core that the client's code tells apart. One call is enough: the calls of a process share
  nothing here but Core, and `Others` stands for all of them. The ports' table and
  the instruments' start alike, a bound that no script can tell.
* `MCCommandsUnenroll.cfg`: a Core that has no route for it answers 404 when a board is to be unenrolled
  by its probe, and the command tells that nothing was enrolled there. `ExitTellsWhatCoreDid`
  leaves this one case out (`OldUnenroll`), as `AbsenceIsReal` does.

A call may stop at any step, so there is no fairness, and the run has no end
to reach (`CHECK_DEADLOCK FALSE`).

## 3. What is proved

`BuildFlashProofs.tla` proves of the build runner, for any sets of calls, processes and keys and any
number of aborts: type correctness (`TypeCorrect`), mutual exclusion
(`MutualExclusion`), the truth of the wait note (`WaitNoteIsRight`), trees under
their lock (`TreeHasLock`) and the refinement of the slot (`SlotRefinement`). The only
assumption is `BuildAssumption`, which types the constants.

None of these is inductive by itself. `IInv` adds who holds what by phase
(`MutexByPhase`, `FileByPhase`), that the mutex is exclusive, that a lock file is only
held by calls of its key, where a live tree's caller is (`TreeByPhase`), and that
nothing is spawned before the locks are held. For example, the wait note is right
because a holder of the file is in a phase in which it also holds its process's
mutex, and so does the waiter: two of one process would be the same call.

It then proves of the runner with its artifacts, for any calls, processes, keys and
bootloads: types
(`FlashTypeCorrect`), that a leftover is never flashed (`LeftoversAreRefused`), that a
build's own write is fresh (`OwnWritesAreFresh`), and that the runner's mutual exclusion
carries over to the extended specification (`FlashKeepsExclusion`). It assumes
`BuildAssumption` and `ClockAssumption`: the lag of the file system's clock is within the
grace. `FInv` contains the runner's invariant and dates everything: a leftover is as old as
the history (`LeftoverIsOld`), a write is not older than its build's start by more than
the lag (`WritesAreDated`), every build starts later than the grace after the leftover
(`StartsAreDated`), and a build that found no artifact, or judged one fresh, never has the
leftover back (`NewIsNew`).

`LedgerProofs.tla` proves, for any callers, tests and bounds: type
correctness (`TypeCorrect`), that settled rows tell Core's record
(`SettledRowsAreTrue`) and that a settle closes what it found ended (`SettleCloses`).
The assumptions are `LedgerAssumption`, which types the constants, and
`RowAssumption`: the two markers of the file that are no rows are no rows. A row
outlives the record it was drafted from, so the invariant has to relate them at a
distance. `IInv` says that the rows a settle has drafted (`DraftsTell`), like those of
the file (`RowsTell`), tell a record that has ended, that what it still has to ask for
was read from submitted rows (`TodoSubmitted`), and that only `run_study` writes those,
for studies that Core has (`SubmittedByRun`, `Posted`). It is inductive because an ended
record no longer changes and the file only grows. `SettleCloses` adds what a settle
still owes (`DueIsKept`): each study it found ended is closed in the file, drafted, or
still to be asked for.

`LatestRunDecides` proves `SequentialCallsTellTheLast`. It speaks of the newest study of a
test and of the last line of the test's rows, which are the same study only if lines are
written in the order in which studies ran. While calls come one at a time (`Calm`), that
is so: no study is posted before the last one has ended (`PostedInOrder`), a submitted row
is newer than every row before it (`NewestIsLast`, `SubmittedInOrder`), closing rows come in
the order of their studies (`SettledInOrder`), whatever is still open is newer than what is
closed (`OpenComeLater`), and a settle takes the oldest open row next and skips none but the
study that still runs (`OldestIsNext`, `NoneIsSkipped`). `InTurn` is inductive together with
`IInv`. That a set of lines has a last one (`HasLast`) follows from the library's theorem that
numbers are well-founded, applied to the set of upper bounds.

`FollowStudyProofs.tla` proves, for any channel capacity, bounds, deadlines and
`stop_on_prompt`: type correctness, which bounds the queue (`TypeCorrect`), and that
an ending that is reported is the record's (`RecordIsReported`). The report is made from
an answer or an event that Core sent earlier, so `IInv` adds that a terminal answer on its
way (`SnapTells`) and a status event in the queue (`QueueTells`) tell the record as it
still is; both hold because a record that has ended changes no more. The only assumption is
`FollowAssumption`.

`RunStudyProofs.tla` proves, for any calls, versions and requests: types
(`TypeCorrect`), `SubmissionsRunWhatTheyRequire`, `DutIsSafe` and `RowsAreTrue`. The assumption is
`RequestAssumption`. The invariant follows each call: what its checks found (`Checked`), and,
unless somebody moved it, that the derived version is in the tree, then in the
artifact, then on the board (`DutStands`), with the like for the bench (`BenchStands`) and
for what the row is read from (`RowStands`).

`BenchExchangeProofs.tla` proves, for any consoles, steps, replies and faults, that an
exchange that returns leaves a capture running only if its note says so, and one that is refused
only a capture whose own start, or the stop that undoes it, failed (`ExchangeStopsCaptures`). A
start that failed may have taken effect here, as any request. `EInv` says
what each phase has started or undone or is unsure of (`Started`), that a listener that is done has its
capture off or a note (`DoneIsStopped`), and that all listeners behind the last drain
are done (`StoppedBehind`).

It also proves the four properties of what the exchange tells, whichever replies Core sends times
with: each line once (`LinesToldOnce`), replies after the writes they answer
(`RepliesFollowWrites`), times that are those of the lines while Core sends all, and never
earlier ones (`TimesAreOfTheLines`), and a timeline that keeps the order of each console's lines
that one clock placed, under the cap (`TimelineInOrder`). None is inductive: they are about rows, and a row is made
from a reply that Core cut anywhere, with what was kept of the reply before. `XInv` says what
a console has said (`Said`: numbers, times and counts of writes that grow), and, of a listener that
has read so many halves, that it keeps the open line's beginning and time (`TailIsKept`),
has told just the lines those halves complete (`ToldIsRead`), each at its time, or a later line's where
Core left times out (`RowsAreTimed`), and
numbered in their order (`RowsInOrder`). To these come the times of writes (`WritesComeFirst`), the order
of the poller's replies (`RepliesInOrder`) and the numbers that rows get (`StepsAreCounted`).
The assumption is `ExchangeAssumption`: the listened signals are a sequence without
repetition, a reply holds at least one half, and two rows for each step stay below `PollSeq`. What a
reply of any length completes is a recursive function of its halves (`OnlyAt`), and what the
proofs say of it is by induction: of the lengths at which it fails there would be a least
one (`LeastOf`, from the library's theorem that the numbers are well-founded).

`CommandsProofs.tla` proves, for any builds of Core and any changes that others make to it,
all properties of the commands. That a refusal names its cause (`RefusalsNameTheirCause`)
needs only that an answer on its way names its cause through the reading of its own
method (`ReadingNames`); the proof uses nothing of the scripts, so it holds of any sequence
of requests. The others (`AbsencesAreReal`, `ReadsComeFromTheBoardNamed`,
`SignalsLeaveTheirBoard`, `StudiesNeedOneSchema`, `ExitsTellWhatCoreDid`) relate what a command tells to
what Core did some requests ago. `ExitsTellWhatCoreDid` covers every command and every removal,
`run_study` with its flashes among them: at each step what is done and what is still ahead
are together all the command is for, and what is done is on its way (`SubmittingLeads` shows
it of the scripts of `run_study`). `RInv` carries what Core did along with the answer
that is on its way and the position in the script, so these proofs do go through the
scripts: which requests one has made when it has come to a step.

The same module has the theorem about the stack command, `BackupsKeepTips`: for any number of
branches, versions, folds and restacks, fold keeps where each branch was that it rewrites, and
restack each branch of its stack, under a backup. At rest, only `Fold` rewrites a tip, and it backs up every branch that its
rebase can take along. While restack runs, the property is about where each branch was
when it began, several rebases ago, so `StackInv` carries that along: every branch of
its stack has a backup of `run.before` (`StackIsBackedUp`), and no step takes one away. The rest
of the invariant says that all of this is defined: the histories stay sequences of
patches whatever a rebase replays or drops (`HistoriesAreKept`, `ApplyIsHistory`), the stack
stays a sequence of branches (`StackIsNamed`), and `restack --onto` has a branch to rebase
when it rebases (`SomeIsLive`). `RestackAssumption` types the constants.

The three invariants of a restack (`NoPatchIsLost`, `FailuresRestoreTheRest`, `OneBreakMends`) are
proved in the same module, for any number of branches, versions, edits and restacks. None of
them is inductive: what a rebase replays depends on where it forks from its base, and that
base is a backup some fold or restack left long ago. Two more invariants carry that along.

* `HistoriesAreSound` relates the branches, where they were when the command began, `main`, the
  remote and the backups. No branch holds a patch twice, nor does `main` (`Once`). A patch of a branch of
  the stack that is in another branch, in `main` or at the remote is in its own branch too,
  in some version (`OwnedBy`): folds and rebases change versions, and take no patch from where it
  belongs. And whatever a backup of a branch holds, the branch holds still, in some version
  (`Covers`). So a base that the loop takes from the backups of the branch below holds nothing that
  this branch does not, and leaving out what the base has already loses no patch.
* `RunInv` is about the run: nothing has moved before its first rebase (`NoneHasMoved`), a branch
  keeps its own patches at their version through each rebase (`OwnPatchesStay`), what a live
  branch holds of landed ones is in `main` (`LandedIsInMain`), and a stack that was broken once is
  mended by the first rebase (`OneIsEnough`). The last rests on `OneRebaseMends`: below the break every branch
  contains the base and is moved by its copy, so the parts above stay in order. What is
  pushed is linear, and linear of neighbours is linear of all (`LiveChain`, `ChainOf`).

The lemmas under them say what git's commands do here: how long two histories are the same
(`ForkIs`, `ForkOfPrefix`), what a replay keeps, drops and repeats (`ApplyIs`, `ApplyInPart`), and that a
branch inside the range ends at its part of the replay (`RebasedIs`, `RebasedHolds`).

The proofs changed what is claimed. That a failed restack without `--onto` leaves every branch below
the stack alone, and that a branch's own patches survive whatever was folded where, held in the run
and would not go through for any N; TLC then found both false of four branches or of two
restacks. The properties now name the stacks of which they hold (`BrokenOnce`, `Layered`,
`OwnsItsPatches`), and `MCRestackTwice.cfg` keeps the counterexample. Both invariants were
checked by TLC, as invariants, on three branches with two edits and one restack and with one edit on
four branches and two restacks.

`StackTypes` follows: a history without repetition is no longer than there are patches
(`KeptCommits`, by the pigeonhole principle), and the loop makes no more turns than the stack has branches.

`BenchLeaseProofs.tla` proves, for any sessions, TTLs, grants and faults, that a holder
sends the token it was granted (`HolderKeepsItsToken`), from `LeaseAssumption` and
under the hypothesis that a session makes one tool call at a time, beside its keepalive
(`OneCallEach`): with two, the property is false, as said above. `LInv` follows
the answers on their way: the holder has the token or is about to be told it
(`HasOrIsTold`), what it is told is the live lease's (`GrantIsLive`), and whoever is
about to be told of a release holds nothing (`ReleasedHoldsNone`). `UnbornAreStill` and
`KeepersRenew` say that a process not yet started asks for nothing, and that the keepalive
only renews, so it never takes or drops a token.

The same module proves that a keepalive renews in time (`KeepaliveOutrunsExpiry`), for any
TTLs and any bound on lost renewals, if the shortest TTL leaves the margin `KeepsMargin`:
`MaxFaults + 1` times the longest wait between two renewals and an answer's latency, and
two latencies more. The wait is a third of the TTL and a second. For the code's default TTL of 90
seconds and its default timeout of a request, 10 seconds, the margin is there if no
renewal is lost; with one lost, it is there only if requests are answered or fail within
six seconds. The run's instance, TTL 5, has the smallest margin there is. `KInv` ages the lease: it is never older than the last answer, the
renewal that is under way and those that were lost account for (`Slack`).

`TargetsProofs.tla` proves all four properties of target resolution for any names, configs and
repositories. `GrowthChangesNoPinnedBuild`, `CallsGetWhatTheyName` and `ListingTellsDirectories` speak
of every config and selection in every repository, so the state plays a small part;
the lemmas say what each operator of the resolution keeps. `TargetsAssumption` types
the constants. `DirectoriesTellBuilds` (`NoSharedBuildDir`) is about plans made in different
states of the repository. Its invariant `PlansAreBuilt` says that each plan that was handed out
is of a project of the config and has the directory and key its parts give. The argument is then
about names: parts without the separator that joins them can be read off the joined name
again (`FirstSplits`, `LastSplits`, `JoinedOnce`), also where a part is optional or a word like
`none` stands for it (`NameTells`). `NamesAssumption` says that names are sequences of words and that
the separators, `default` and `none` are words. Joining is a recursive function, and what it
gives is shown by the least length at which it would not.

Only model-checked is what holds under fairness, which the proof system does not reach:
`EveryCallEnds`, `RenewsNeverCease`, `ExchangeEnds`, `FollowEndsUnlessBlinded`, `PromptIsTold`
and `DeadlineEndsFollow`.

An induction over data is done here over the numbers, by a least counterexample; the
library's induction theorems take an operator as a parameter, which the installed provers
cannot instantiate, and a module with `RECURSIVE` operators has no proofs at all. The modules
use recursive functions for that reason.

## 4. What is not modelled, and why

* The patches command: one person's sequence of git and file operations on one clone.
  Whether the series and the branch stand for the same tree depends on git's
  three-way merges, which a model of commits as sets of patches cannot tell apart.
* The SSE decoder, the guard of version commands, study files and capacity: pure
  functions of one input without shared state. Their outcome appears in the models
  as a choice (`ArgsChecked`, `Fail`).
* The client's address, resolved once per process, and the choice between sending a path
  and sending bytes. A Core that moves between machines is not found again by a
  running process; no doc says it should be.
* The syntax of arguments and configuration, the rendering of results, logging,
  token discovery, the build script.
* In modelled parts: the truncation of build logs, `bench.json` and what is attached
  in the ledger's view, the text filters and snapshots of the exchange, the attribution
  of hunks in `stack plan`.

Core is modelled only as far as its clients rely on it.

## 5. Running the checks

In this directory: `tlc -workers 2 -config MCBuildLock.cfg MCBuildLock`, and likewise
for the other configurations, each with the module whose name it begins with;
`MCFollowStudy*.cfg` belong to `FollowStudy` and `MCRestack*.cfg` to `Restack`. The proofs:
`tlapm BuildFlashProofs.tla`, and likewise the other `*Proofs.tla`.
