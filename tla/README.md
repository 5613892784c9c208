# dovo: a TLA+ verification project

`dovo` runs blueprints: sequences of steps (commands, scripts, agents) and loop
blocks, usually in a git worktree of their own, with a durable execution state
in SQLite, so that a paused run can be resumed by another process. This
directory holds TLA+ models of the parts of it where processes, signals,
crashes and users interleave, TLC runs that check them on small instances, and
TLAPS proofs for every instance. Paths below are relative to `src/src/dovo/`.

## Inventory

| Component | State | Operations | What is hard | What must hold |
|---|---|---|---|---|
| Run engine (`engine/engine.py`, `session.py`, `workspace.py`) | the run's row: status, pid, worktree id | `run`, `resume`, `drive_run`, open, auto-apply, close, finish | crash or signal between any two of them; two processes with one row; errors that are only warnings | a final status means what it says; a paused run can be resumed; work is not lost |
| Run coordinator (`engine/coordinator.py`, `failure.py`, `step_coordinator.py`) | execution-state tree in memory, node in flight | next node, begin/settle attempt, failure gate, prompt, cancel, recover | tree changed before the save; save refused; interrupted attempts; cancellation at any point | steps in order and once; finished is final; nothing runs after a failure |
| Loops (`coordinator.py`, `loop_policy.py`) | iterations, their `until` verdicts, granted iterations | advance body step, complete, repeat, ceiling: grant, continue, abort | crash between the last body step and the verdict; resume in mid-iteration; off-by-one at the ceiling | judged once; repeated only after a failed verdict and within the budget |
| State store (`state_store.py`, `core/db/repositories/runs.py`) | row with revision and JSON; `run.json` | initialize, load, save, regenerate | crash between row and file; reads without the lock; a compare-and-swap of two statements | no lost update; the file never wins over the row |
| Resume loader (`engine/loader.py`) | none | `load_for_resume` | checks that are stale when the run starts | refuses what cannot go on |
| Reconciliation (`core/history/services/reconcile.py`) | none | `reconcile_stale_runs` | recycled pids, resumed runs, unreadable start times | settles dead runs, spares live drivers |
| Workspace lock (`common/lock.py`) | flock, two registries, mutex, signal handler | acquire, release, handler, atexit | signal at any point; nested sections; several lock files | mutual exclusion; no lock kept for ever |
| Step executor, child processes (`engine/executors`, `common/process.py`) | attempt, process group, registry, reader threads, log, output file | prepare, spawn, register, wait, time out, terminate, join, classify, judge, retry | timeout racing the exit; helpers that outlive the command; signal between two of them | a killed group is dead; outputs are of the last attempt; a step with a timeout ends |
| Agent providers (`core/agents`, `executors/agent_step.py`) | worktree, branch head, baseline | classify a reply; baseline, run, capture, gate, discard; apply a diff | agents that commit; git calls that fail; edits of an attempt that did not answer | what the gate rejects is gone, and nothing else |
| Worktrees (`core/worktree`, `engine/workspace.py`) | directories, registrations, branches, rows | create, apply, delete, list, cleanup, prune, reconcile | partial builds, capacity, unlocked reconciliation, reuse of ids | records agree; leftovers go; live work stays |
| Artifacts (`core/artifacts`) | bundle, manifest, rows with expiry | publish, download, prune | they interleave; only prune takes the lock | the row tells the truth; a download is whole |
| Catalog (`core/catalog`) | files and index of each tier, packaged templates | get, list, create, save, delete, seed | two locks, an index read outside them, name shadowing | lookup gives the most specific file; no command touches what it did not name |
| Definitions and snapshot (`core/catalog`, `engine/writer.py`) | session copy and manifest | load, merge `uses:`, capture, rebuild | edits while capturing; chains, cycles, dangling references | a run executes what was captured |
| Inputs, conditions, patch limits (`core/inputs`, `executors/conditions.py`, `core/patch`) | none | parse, resolve, interpolate; evaluate; parse and check | loops that rerun a step; missing operands; content that looks like a header | accepted inputs are given; missing never passes; passed is within the limits |
| Configuration (`core/config`, `common/filesystem`) | `config.json` of the tiers, a cache per process | load, set, unset, generate, repair | a shared temporary name; a cache keyed by time and size | never half a file; the most specific tier wins |
| Bootstrap, identity, doctor (`core/bootstrap`, `core/project`, `core/doctor`, `cli/context.py`) | `.dovo` and its files | init, lazy init, doctor | death between any two writes; init repeated | init completes; the identity stays; broken is reported |
| Development loop (`bin/dovo-loop.py`) | `plan.md`, `review.json`, the tree | plan, implement, review, archive, push | files of an earlier call or round | what is pushed was approved |
| History, status, logs, diff, costs; database schema; UI | - | queries, formatting, DDL | sequential | not modelled, see below |

They meet in four places: the **row** of the `runs` table (the coordinator
commits with a compare-and-swap, `_finish_run` and the reconciliation write it
too), the **workspace lock** (most writers take it; `load`, publication and the
configuration do not), the **worktree directory** (created by open, removed by
close or by `dovo worktree`), and the **files of `.dovo`**, replaced through one
temporary name each. Control flows by plain calls: `Engine` -> `drive_run` ->
`RunSession` -> `RunCoordinator` -> `StepCoordinator` -> `StepExecution`.
Exceptions flow back along the same path, which is where the surprises are:
`RunSession.run` catches `BaseException`, closes as FAILED, and re-raises.

The hazards of this code, each at its line and with the properties that would
catch it, are listed in `PROJECT.json`.

## Modules

| Module | Models | Checked by |
|---|---|---|
| `StateModels` | `NodeState`, the leaf and what a commit does to it (`state_models.py`) | through the next two |
| `RunEngine` | one run over plain steps: row, processes, coordinator, worktree, reconciliation | `MCRunEngine`, `RunEngineProofs`, `SoloRunProofs` |
| `RunLife` | abstract: what a run promises its user | refined by `RunEngine` |
| `LoopExecution` | one loop block, the coordinator's loop methods and `LoopPolicy` | `MCLoopExecution`, `LoopExecutionProofs` |
| `RepeatUntil` | abstract: what a loop block promises | refined by `LoopExecution` |
| `WorkspaceLock` | `common/lock.py` | `MCWorkspaceLock`, `WorkspaceLockProofs` |
| `Worktrees` | `core/worktree`, its rows, the runs and commands that use worktrees | `MCWorktrees`, `WorktreesProofs` |
| `StepProcess` | the attempts of a step that runs a process | `MCSteps`, `StepsProofs` |
| `AgentProviders`, `AgentSteps` | classification of replies; the attempts of an agent step, with the gate | `MCSteps`, `StepsProofs` |
| `ReviewRounds` | `bin/dovo-loop.py` | `MCSteps`, `StepsProofs` |
| `GatedEdits` | what the last two promise together: nothing an agent edits goes on ungated | `MCSteps`, `StepsProofs` |
| `RunProjection` | row and `run.json`, statement by statement | `MCSteps`, `StepsProofs` |
| `Artifacts` | publish, prune and download of one artifact | `MCSteps`, `StepsProofs` |
| `Catalog` | tiers, indices, locks and the catalog commands | `MCBlueprints`, `BlueprintsProofs` |
| `Definitions`, `DefinitionSnapshot` | what documents mean; what a run captures and rebuilds | `MCBlueprints` |
| `CommandInputs`, `Conditions` | two readers of text, token by token and operand by operand | `MCBlueprints`, `BlueprintsProofs` |
| `PatchGate` | a reader of text, line by line | `MCBlueprints` |
| `ConfigStore` | `core/config` and the atomic write | `MCWorkspace`, `WorkspaceProofs` |
| `WorkspaceSetup` | bootstrap, identity, seeding, doctor | `MCWorkspace`, `WorkspaceProofs` |
| the eight `*Proofs` modules | theorems and TLAPS proofs | - |

`MCSteps`, `MCBlueprints` and `MCWorkspace` extend several modules that share a
subject and no state (`DefinitionSnapshot` and `PatchGate`, which nothing is
proved about, are instantiated). Their variable `scene` says which one moves; the others
stay where they begin, so a run explores the sum of the modules and not the
product.

### RunEngine

`row` is the row of the run (`RunRecord`): status, `owner` (its pid), `rev` and
`tree` (the execution state), `worktreeId`, `kept`. Each process has a `pc`, the
coordinator's `mem` (`_run.state` and its revision), `inflight`
(`_in_flight`) and `ending` (its `RunOutcome`). `ran` is history.

* One lock section of the code is one action, since every writer of the row
  holds the lock; what the code reads outside it (`_start`, the load of the
  tree) is an action of its own. A step's program runs between `StartAttempt`
  and `AttemptPasses`, `AttemptIgnored` or `AttemptFails`.
* `Commit` is `RunCoordinator._commit`: the tree in memory always changes, the
  row only at the right revision, with status and worktree id in one commit.
* `FailureGate` is `_resolve_failed_leaf`, reached by a fresh failure, by a
  resumed PAUSED leaf, and by an attempt `_recover_interrupted` closed.
* `Unwind`, `CloseUnwinding` and `Die` are the exceptions and crashes: inside
  `RunSession.run` an exception closes the session as FAILED and the process
  ends without `_finish_run`; outside it the process just ends.
* `CancelRun` and `LeavePrompt` are the two `except KeyboardInterrupt` of the
  coordinator. `LockOwnsSignals` says whether the lock's handler is installed
  and turns SIGINT into SystemExit: it is in the main thread of every CLI
  command after the first lock section (TRUE); FALSE is an embedding that
  restored Python's own handler, which is what the coordinator is written for.
* Errors the code only warns about leave the row as it is: `_mark_running`
  (ResumeRun), `_finish_run` (Finish), diff capture and worktree removal (fault
  `"git"` of `CloseWorktree`).

Faults are switched by `Faults`: `crash` (SIGKILL or power loss), `interrupt`
(SIGINT/SIGTERM), `raise` (an exception from a commit or apply, such as a lock
timeout), `load` (corrupt or missing state), `setup` (open fails), `db` (a
database error), `git` (diff capture or worktree removal fails), `recycle`
(the operating system reuses the pid), `remove` (someone removes the worktree).

### LoopExecution

The loop node is the only node: its state, granted iterations and the sequence
of iterations with their body leaves and verdicts. The commit discipline is
that of `RunEngine`; `CommitLeaf` differs because a refused commit in the body
first fails the loop in another commit (`FailLoop`). `until` conditions are data:
`CompleteIteration` takes either verdict. The ceiling prompt does not pause the
run, as in the code. `judged` and `ran` are history.

### WorkspaceLock

Each process has its registries (`depth`, `fds`), the `sections` its `with`
blocks count, and a `pc` inside `acquire` and `release`; the operating system's
`flock` is per lock file. `Signal` is the handler at any point outside the
registry mutex: it closes what is registered, clears the registries and raises
SystemExit, so the blocks then unwind through `release` with nothing to
release. Inside the mutex the handler waits for its own thread
(`SignalInMutex`). Nested blocks are counted, not ordered: releasing any of a
process's open sections next is a superset of the order Python gives.
Production code makes a fresh `WorkspaceLock` for each `with`, so `is_locked`
is true at every release.

### Worktrees

`dirs`, `refs` and `branches` are what git and the file system have, `row` what
the database says, `work` what a worktree holds (uncommitted edits, commits),
`applied` what reached the main workspace. A command begins, takes the lock where
the code does, and ends in `todo`, a sequence of primitive steps (drop a
directory, mark a row, delete a branch, prune registrations); each may fail, and
a process may die before any. Runs use blueprint keys, plain or below a
namespace; `dovo worktree create` uses fresh temporary ids. Reconciliation of
rows (`Check`, `Lose`) runs outside the lock, as `list` and `delete` call it.
`RunEngine` has only the existence of its run's worktree; `Worktrees` has
everybody's.

### StepProcess, AgentSteps

`StepProcess` has the main thread (`pc`), the reader, the leader of the process
group and one helper it may leave there, `registered`, the log, the output file
with the attempts that wrote it, and `then`, where the thread goes on after a
termination. `Strike` is SIGINT or SIGTERM at any point. Both pipes are alike;
one is modelled. `strays` are helpers of earlier attempts, which may still write.

`AgentSteps` sees the tree and the branch head as sets of changes; `baseline` is
what `resolve_pre_agent_baseline` returned, `diff` what was captured against it.
Any git call may fail. The adapters' replies come from `AgentProviders`, one
operator per provider. The late edits of a Cursor thread that survived its
cancellation are `lingering`.

### RunProjection, Artifacts

`RunProjection` splits what `RunEngine` takes as one action: SELECT, UPDATE,
opening, writing and renaming the temporary file are steps, and `load` reads row
and file one after the other without the lock. `Mark` is `update_status`, which
ignores the revision. `alone` says whether anybody else moved since a load began.

`Artifacts` has two files and a manifest, each with the version that wrote it.
Publisher, pruner and reader are one process each; only the pruner locks, so no
lock appears. `blurred` remembers that publisher and pruner met, or that one
of them broke off: the promises are about the rest, and Findings say what goes
wrong there.

### Catalog, Definitions, DefinitionSnapshot

Every catalog command scans and rewrites the index of the tiers it looks at,
under the tier's lock, and reads the index after it gave the lock back. A file is
the name of who wrote it; an editor writes and removes files under no lock.
`steady` are the files nobody touched since a command began, which is what a
sequential promise can speak about. A path is a type, a namespace and a name;
what is protected from a delete is the namespace `dovo` and a name typed with
`dovo/`, so a file of `dovo/sub` goes when its sha is named, as in the code.

A document is a function from the fields its author wrote to values; a field
that is absent takes its default. `DefinitionSnapshot` loads, walks the
references, writes copies and manifest, and rebuilds the blueprint from them,
with edits of the catalog in between.

### CommandInputs, Conditions, PatchGate

Each reads its text from left to right with the code's own state and compares
the result with a declarative definition: which token sets an input, what a
placeholder reads, whether all operands are present, which files the diff
touches. Texts are those the code tells apart, e.g. an integer with a sign, a
path outside the worktree, a removed line that begins with `-- `.

### ConfigStore, WorkspaceSetup

A configuration document is a function from dot paths to kinds of value.
`atomic_write_json` is open, write and rename of a shared temporary name; `fd`
is what an open descriptor names after a rename. A cache entry holds time and
size; the clock ticks rarely, so two writes may have the same time. Three
predicates say what a document must be to be accepted: `PassesSchema` (the JSON
schema, all that init asks), `LoadsAsFile` (schema and model, with the name made
a text: what set, unset, validate and a load of the file ask) and `MergedLoads`
(the model alone, what the merge of the tiers asks). They differ for a version
that is written 1.0 or is another number, and for a name that is null.

`WorkspaceSetup` writes the pieces of `.dovo` in the code's order. A command may
fail at, or die before, each of them, and the next one finds what is there. The
doctor visits its checks in order, or the one of the category it is asked for,
and skips those that its configuration quiets. A `config.json` is told by how
far it gets: no JSON, refused by the schema (`invalid`, or `partial` when it
only lacks keys, which `--repair` adds), by the model (`loose`) or by the merge
of the tiers (`nameless`), or `whole`.

### ReviewRounds

`tree` is a version of the working tree, `review` the content of `review.json`
and the version it speaks of. A session may change the tree or leave it, write
the review or not.

## Runs

Every run ends in three and a half minutes or less. Runs that stop (every run ends, all
processes exit, a text is read, the commands are used up) have `CHECK_DEADLOCK
FALSE`.

| Run | Instance | Question |
|---|---|---|
| `solo` | 2 processes, one at a time; steps prompt/abort; retry budget 2; all options | final statuses, work, refinement of `RunLife`, reconciliation (no start times) spares whoever drives |
| `two_drivers` | 2 processes at once, every fault | order, finality, no attempt twice |
| `keyboard` | KeyboardInterrupt reaches the coordinator; fairness | resumable after an interrupt; settles |
| `loop` | 2 body steps, 1 iteration + 1 granted by the user, crash, interrupt and database error; fairness | final verdicts, progress, refinement of `RepeatUntil` |
| `loop_rivals` | 1 body step, 3 iterations, continue at the ceiling, both processes, crash and database error | judged once and in order, no attempt twice |
| `lock` | 2 processes, 2 lock files, 3 sections each; fairness | mutual exclusion, every lock freed |
| `worktrees` | 2 processes, a namespaced key, a temporary id, capacity 1, 3 commands, 2 faults; fairness | the inductive invariant, capacity, agreement of records, active worktrees spared, leftovers removed |
| `steps` | 2 attempts with a line of output; 2 agent attempts with 3 edits; 2 drivers with 3 commits; 2 versions of an artifact over 3 days; 2 review rounds in 3 calls; fairness of the step | dead groups, fresh outputs, gated edits, projection, artifacts; a step ends, commits follow |
| `blueprints` | 2 users, 3 paths of one key (no namespace, `dovo`, `dovo/sub`), 3 tiers, 1 edit; 13 blueprints over 7 stores; all command lines of up to 3 of 10 tokens, then 3 steps that finish; 1152 conditions over 4 results; all diffs of up to 2 changes | lookup, commands, snapshot, inputs, conditions, limits |
| `workspace` | 2 processes with one that writes, 5 documents, 3 commands, or 2 and an edit, or 1 and 2 edits, so also two upper tiers at once (`MaxTogether`); 2 init, run or doctor commands with a fault and an edit, 7 kinds of `config.json`, every `--category` | configuration, init, identity, doctor |
| `prompt_interrupted`, `live_worktree` | minimal | expected violations, see Findings |

Bounds. Two steps are enough for every relation between an earlier and a later
step, and the last step; the first may prompt, the second aborts, continues or
prompts. Two processes give every race for one row: a third one can only be
another loser of the same compare-and-swap, and the proofs do not depend on it.
`MaxAttempt` (1-3) stops the user from asking for retries for ever. `MaxCeiling`
stops grants; `GrantCount` is 1 instead of 3, so that a grant fits into the
bound. `MaxSections` bounds the sections a process enters: three are two nested
ones and a third lock taken by cleanup code after a signal, and opposite lock
orders need two. Attempt numbers and revisions are then bounded by themselves.
In `worktrees` three commands are enough for create, use and removal with a
rival in between; pruning is not counted. Capacity 1 makes two creations compete
for the last place, and two faults are a failing step and a crash in its
aftermath. Two attempts, versions, rounds or edits give every relation between
an earlier and a later one; the third commit and day let something become stale
twice. Steps with `on_failure: continue` are given no assertions in `steps`: the two
meet only in the result, and the other three escalations have them. Three tokens are an option, its value and another that overrides it.
Two changes let one hide the other in a diff, and exceed a limit of one file.
In `workspace` the two processes that initialize are symmetric: nothing in the
model, nor in its properties, tells them apart.

Fairness. A live process goes on (`WF` of `Progress`: steps end, because a
program ends or times out, and the lock is granted, because of `LockFreed`);
answers to prompts, new commands and faults are never forced. `keyboard` also
assumes that some command which reconciles (`run`, `history`, `status`) is
entered now and then. In `lock` the steps of acquire and release, the end of a
section, and the exit of a process that unwinds are fair: polling ends by its
own timeout, so no strong fairness is needed. In `worktrees` a process that
polls for the lock gets it if it is free again and again (`SF` of `Take`: it is
free only between others' sections), sections end, a run closes, and somebody
prunes now and then; `LeftoversGo` is about what pruning achieves. In `steps` the
main thread and the reader are fair and the child's processes are not: they may
run for ever, which is what the timeout is for.

Every property of a passing run has a mutant: a small wrong version of one
definition (marked `\* mutant` where it stands) under which TLC finds the
property violated.

## Findings

Two are runs of their own:

* `prompt_interrupted`: `docs/guides/failure-handling-and-resume.md:112` says an
  interrupted prompt preserves the worktree and can be resumed. With the lock's
  signal handler installed, Ctrl-C raises SystemExit, the session closes as
  FAILED and removes the worktree; the row stays PAUSED and cannot be resumed.
* `live_worktree`: the documentation calls the worktree of a run isolated. It is
  named after the blueprint; a second run of it fails to add a worktree and
  discards the first run's as its own partial build.

The others are in `PROJECT.json` with their lines. TLC shows these when the
configuration of a run is changed as follows:

| Property | Change | What TLC finds |
|---|---|---|
| `ResumedIsSpared` | `solo`, that property, with `Faults <- OnlyInterrupt` and `StartTimeKnown = TRUE` | a resumed run keeps the `started_at` of its first process and is taken for a recycled pid |
| `FailedStopsRun` | `solo` with `Exclusive = FALSE` | a second process that resumed the PAUSED run goes on after the first user's abort |
| `SignalEndsProcess` | `lock`, that property | a signal inside the registry mutex waits for its own thread |
| `LoadIsNotRefused` | `steps`, that invariant | `load` without the lock reads an old row and a new file, and refuses |
| `PruneSparesLive` | `steps`, that invariant | a bundle published again is removed by the prune that listed the old one |
| `PushIsReviewed` | `steps`, that invariant | the verdict of an earlier call approves a tree nobody reviewed |
| `ConfigIsWhole` | `workspace` with `Setters = {"p", "q"}` | two writers share `config.json.tmp`, and half a file is renamed |
| `RunBelongsToWorkspace` | `workspace` with `Rivals = TRUE` | two first commands create two identities |

The rest were met while translating the code: the model has the behaviour and
the properties are stated around it, with a comment that says so. Some, in
short: namespaced worktrees are counted and pruned by their namespace; a reused
worktree id keeps a CLEANED row; branches of runs escape the prune pattern;
`artifacts:` of a step with `uses:` is dropped; edits of an agent attempt that
timed out are not gated; a signal between `Popen` and `register` leaves the
child; `dovo init --repair` refuses the file the doctor sends it to repair, and
says that it has repaired one with null for a name, which no run then loads;
the doctor finds nothing wrong with that one; a catalog file of a namespace
below `dovo/` is not protected from a delete by sha, although
`inventory.py:354` speaks of the namespace `dovo/`.

## Proofs

Eight modules prove theorems for every value of the constants: any number of
processes, steps, iterations, locks, worktrees, attempts, commits and faults.
`PROJECT.json` lists the theorems; what follows is how they hang together. The
inductive invariants (those named `...IInv`, and `OwnerDrives` and `PausedIsKept`
beside `SoloIInv`) were first checked by TLC on the instance of the run that checks
what they imply: naming them under `INVARIANTS` of its `.cfg` repeats that.

**`RunEngineProofs`**, processes that overlap freely. `StepsInOrder` speaks of
the row only and is not inductive: a commit writes the coordinator's tree, so one
must know that the tree it holds is the row's whenever the compare-and-swap
accepts it (`NoForeignTree`), that it works on the first unfinished node of it
(`LeafInHand`), and that nobody else is involved while the runner initialises the
state, which resets the revision to 0 (`NothingBeforeInit`). `IInv` is their
conjunction with the types. From it: `StepsStayInOrder`; `FinishedIsFinal`, since
a commit changes only the leaf in hand, which had not ended; `AttemptsRunOnce`,
with `AttemptsAreOwned` (a number used in the row's tree was reached by its
attempt counter). It is the compare-and-swap and not the lock that protects the tree.

**`SoloRunProofs`**, one driver at a time. `Alone` (at most one process is past
the load) gives `SoloIInv`: no save is refused, the row's status fits what the
driver does, and what it reports is what the row says. On it rest `StatusMeansIt`,
`OwnerIsDriver`, `WorkIsNotLost`, `PausedCanResume`; `DriversAreSpared`, with
`OwnerDrives` where start times cannot be read and else with `FirstDrives` (the
process that started the run is the row's owner while it lives, and its pid is
its own); and `EngineIsARun`, which
maps every step of the engine to a step of `RunLife` or to a stutter, with what
`SoloIInv`, `OwnerDrives` and `Uncancelled` say of the state it starts in.

**`LoopExecutionProofs`**. The same commit discipline, for a sequence of
iterations: who may commit at the row's revision holds the row's loop; every loop
anybody holds is well formed (in order, complete but for the last iteration,
within the ceiling); verdicts given and attempts executed are those stored. From
it: judged in order and once, judged is final, body steps run once, and
`LoopRepeatsUntil`, the refinement of `RepeatUntil`.

**`WorkspaceLockProofs`**. The invariant adds to `RegistryIsTrue` that a process
whose sections no signal cut short counts them as its registry does
(`SectionsCounted`) and what acquire and release know between their mutex sections
(`LockInHand`): the flock is held from the poll until after the registries forgot
it. Mutual exclusion follows: inside means a positive depth, hence a registered
descriptor, hence the flock, of which a file has one.

**`WorktreesProofs`**. A command is a sequence of primitive steps that is made
when it decides and executed afterwards, so the invariant is about what a process
still has to do: whoever works in a section has the lock (`SectionFits`); an id
that is being created is nowhere yet (`CreationIsNew`); every sequence is made of
known steps with their arguments (`StepsAreKnown`); without a failure, a
directory that is going goes just before its row is marked (`InOrder`), and what
nobody works on agrees (`Agrees`); MERGED means applied (`MergedIsApplied`). From
it: `RecordsAlwaysAgree`, `CapacityHolds` and `PruneSparesActive`. That a
sequence built by flattening over the known worktrees contains nothing else is
shown by induction over the bound of the flattening, written with sets.

**`StepsProofs`**, what happens while a step runs, in five parts.

* `StepProcess`. Between two statements of `run_isolated_process` the invariant
  says whose group the main thread has in hand (`GroupInHand`): who is waited for
  or terminated was started, a group is registered until it is dead, and a
  termination goes on where it came from; `OutputsOfAttempt` says that the output
  file is of the attempt that has begun or of a helper left behind.
* `RunProjection`. Whatever a process or a file holds of the row, the row has had
  (`Had`): its revision is not ahead, and at the same revision the document is the
  same. With it, a save that holds the lock from the SELECT to the rename
  (`SavesUnderLock`) writes to the revision it compared, so `NoCommitIsLost`
  although the two are separate statements; and a load that nobody overtakes
  (`AloneWrites`) finds no newer file, so `ProjectionNeverAhead`.
* `Artifacts`. A publication and a pruning that overlap both know it
  (`MeetingsNoticed`); one that is alone has made of the directory what its place
  in the code says (`PubInHand`, `PruneInHand`); until either touches the disk, row
  and bundle tell the same (`TruthUntouched`). A download has read a manifest, and
  of each file it has verified or copied either that bundle's content is there or
  none (`OneBundleRead`): it cannot mix two bundles unless another took the
  place. `ArtifactsStayWhole`, for any files, lifetimes and days.
* `AgentSteps`. Until the agent works nobody edits, and it works against the
  worktree as it was without the ignored files (`BaselineInHand`); so the diff
  that reaches the gate is all it has done (`DiffInHand`), and discarding gives the
  baseline back.
* `ReviewRounds`. A call that began without a `review.json` and was not approved
  yet finds an approval only of the tree as it is (`FreshVerdict`), since every
  round that changes the tree ends in a review or does not read one.
  `NoEditUngated` states what the last two promise together.

**`WorkspaceProofs`**, the files of `.dovo`, in two parts.

* `ConfigStore`. A cache entry carries the time a file had before it was read, so
  it may be of a later file. What makes it harmless is a count: every config.json
  that appears is counted under its time, an entry's time has been counted, and if
  that was the only file with this time, the entry is what the file says whenever
  the file has it (`EntriesAreCounted`): `CachesStayFresh`, for any number of
  writers. A writer who is alone has the temporary file to itself from open to
  rename (`TmpIsOnesOwn`), and writes what validates (`WritersAreSetters`):
  `ConfigStaysWhole`. A load has, for every tier it has read and that has not
  changed since, its settings or those of a tier read later (`MergedSoFar`); a
  merge that validates has known paths only, none of which is a section of
  another, so it drops no setting of a lower tier but to replace it:
  `MostSpecificWins`. TLC checked `IInv` on the instance of `workspace`, and with
  two writers.
* `WorkspaceSetup`. `Fits` relates one command to the disk. `PiecesInPlace` says
  for each piece of `.dovo` from which statement of init on it is there (the sets
  `DirsAhead` to `SeedsAhead`), and that nobody but the user takes one away, be it
  another init, one that dies, or a first run: `InitsComplete`, with any number of
  processes, and of deaths before. It promises a configuration that loads of
  `--overwrite` only; one that was repaired passes the schema, and one that was
  there without either option is left as it is. `BrokenStaysInSight` says of a doctor who has
  met no loadable configuration so far that it has read no quieting from the
  file, and, if its `--category` is that of the configuration or none, that the
  check of it is still ahead or its finding in the report: `DoctorReportsBroken`.
  Asked for another category it says nothing of a broken file. `SoleIInv` adds that one command initializes at a time
  (`OneInitializes`), whose reads then still hold when it writes (`StillHolds`):
  `IdentityStays`.

**`BlueprintsProofs`**, what a blueprint becomes before it runs, in three parts.

* `Catalog`. A command knows what it still has to do (`CommandsInOrder`), and a
  lock is held by the command that has it to its end and by the one that indexes a
  tier (`LocksInHand`). The argument about a lookup goes through its steps: a
  steady file is in its tier (`SteadyAreThere`), so whoever scans the tier while
  the lookup runs has it in the scan (`ScansAreFresh`), so the index of a tier that
  the lookup has indexed has it, whoever wrote that index last (`IndexIsFresh`), so
  the lookup has seen it (`SteadyAreSeen`), and it takes the most specific of what
  it has seen. A creation that found its path free under the lock holds the
  lock until it writes (`CreationsAreFree`). `CatalogOrder` and
  `CommandsAreCareful`; that nobody waits in a circle follows from who may wait
  with a lock in hand, and for which.
* `Conditions`. Only what was validated is evaluated (`ConditionIInv`), and a
  missing operand compares false with everything: `ConditionsDecide`.
* `CommandInputs`. A value is as it was typed from the token that set it until an
  override replaces it (`KeptAsTyped`), every token adds one error or warning at
  most (`ComplaintsCounted`), and of the executions of a step the one that no
  later one follows is unique: `InputsStayFaithful`.

Assumptions and hypotheses. The named assumptions of the modules say what the
constants are, and TLC evaluates them in the runs. Some theorems hold only under
a hypothesis, each for a behaviour the code has:

| Theorem | Hypothesis | Why it is needed |
|---|---|---|
| all of `SoloRunProofs` | `Exclusive` | two processes may drive one paused run, see `FailedStopsRun` under Findings |
| all but `WorkIsNotLost` there | no fault `"db"` | after a save that the database refused, the driver knows more than the row |
| `WorkIsNotLost` | no `"remove"`, no `"git"` | a user may remove the worktree; a diff that cannot be captured is only a warning |
| `PausedCanResume` | no `"raise"`, `"remove"`; no interrupt that the lock's handler takes | an exception at the prompt closes the session of a PAUSED run as FAILED: finding `prompt_interrupted` |
| `OwnerIsDriver`, `EngineIsARun`, the second half of `DriversAreSpared` | `~StartTimeKnown` | with start times, reconciliation fails a run that was resumed: `ResumedIsSpared` under Findings |
| `EngineIsARun` | the lock's handler owns SIGINT, or no interrupts | `_cancel` may relabel a step that has passed, which `RunLife` does not do |
| `ConfigStaysWhole` | `OneSetter` | two writers share `config.json.tmp`: `ConfigIsWhole` under Findings |
| `IdentityStays` | `~Rivals` | two first commands create two identities: `RunBelongsToWorkspace` under Findings |
| `AttemptsRunOnce` | every `Budget` is 1 | numbers the executor's own retries use before a save that is refused are not in the row, and are used again |

Few are assumed finite: the processes of `RunEngine`, the identifiers of `Worktrees`,
whose capacity is a cardinality, and the templates, which a loop of the code
visits one by one. `InputAssumption` says that of any inputs
one is declared last.

What stays model-checked. Liveness (`RunningSettles`, `DriverSettles`,
`LockFreed`, `LeftoversGo`, `ProcessSettles`) and ENABLED are out of the prover's
reach. So is what a recursive definition computes for every input: the library's
induction theorems take an operator, which the installed provers cannot
instantiate. Where a claim about numbers or sequences can be written as a set
(the numbers for which it holds), the induction is proved that way, as in
`LoopExecutionProofs` and `WorktreesProofs`. Two properties are of the kind that
cannot: `PassedIsWithinLimits` compares what the parser folded over a whole diff
with what the diff says, and `SnapshotIsFaithful` follows chains of `uses:` with
recursive functions over the documents. TLC checks them over all diffs and stores
of the bounds above. The two expected violations are shown by TLC as well.

## Not modelled

Programs, agents, git and SQLite are external: a choice of outcomes, or one
atomic step. File contents are versions or sets of changes; what git does to
them is a verdict. Field-by-field schema validation of blueprints, prompts and
wire formats of agents, interpolation syntax, rendering, logs, events and token
accounting are sequential and formatting. History, status, diff and cost
commands are queries; the reconciliation they start is modelled. Migrations are
straight-line DDL. Windows differs in system calls only (locking, termination
of trees), and its branches are left out.

## Plan

1. Done: every component of the inventory that keeps state, with a run.
2. Done: the theorems about runs, loops, locks, worktrees, child processes, the
   projection of the state and the configuration; both refinements.
3. Done: the theorems about artifacts, agent steps, review rounds, the catalog,
   conditions, inputs and the setup of a workspace.
4. What is left stays with TLC: liveness, `PatchGate` and `DefinitionSnapshot`, for
   the reasons given under Proofs. When the code changes, the lines in
   `PROJECT.json` lead to the definitions to look at first.
