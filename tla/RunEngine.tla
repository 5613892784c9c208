------------------------------ MODULE RunEngine ------------------------------
(***************************************************************************)
(* One run of a blueprint: the row of the runs table, the processes that   *)
(* drive it (`dovo run` and later `dovo resume`), its worktree and the     *)
(* state machine of RunCoordinator over a sequence of plain steps.         *)
(*                                                                         *)
(* Everything the code does under one WorkspaceLock section is one action, *)
(* because every writer of the row takes that lock; what the code reads or *)
(* does outside the lock is an action of its own, so another process or a  *)
(* signal can come in between.  A step that is the user's program is one   *)
(* action too (its end): between its start and its end pc is "exec".       *)
(***************************************************************************)
EXTENDS StateModels, FiniteSets

CONSTANTS
    Procs,            \* the operating-system processes that may drive the run
    Runner,           \* the one that executes `dovo run`; the others execute `dovo resume`
    NoProc,           \* the row's pid before it is inserted
    Interactive,      \* the processes with a failure prompter and a terminal
    NumSteps,         \* number of steps of the blueprint
    Policy,           \* terminal failure policy of each step (effective_terminal_policy)
    Budget,           \* executor-local retry budget of each step (on_failure.max_retries)
    MaxAttempt,       \* bound: the user does not ask for an attempt beyond this number
    Options,          \* the run configurations the user may ask for
    Faults,           \* the failures that may strike
    LockOwnsSignals,  \* WorkspaceLock's SIGINT/SIGTERM handler is installed
    StartTimeKnown,   \* reconciliation can read a process's start time (/proc or psutil)
    Exclusive         \* operators never resume a run another live process still drives

Steps == 1..NumSteps
FaultKinds == {"crash", "interrupt", "raise", "load", "setup", "db", "git", "recycle", "remove"}
RunOptions == [worktree : BOOLEAN, keep : BOOLEAN, apply : BOOLEAN]

ASSUME ProcsAssumption ==
    /\ IsFiniteSet(Procs) /\ Runner \in Procs /\ NoProc \notin Procs
    /\ Interactive \subseteq Procs
ASSUME StepsAssumption ==
    /\ NumSteps \in Nat
    /\ Policy \in [Steps -> {"abort", "continue", "prompt_user"}]
    /\ Budget \in [Steps -> Nat \ {0}]
    /\ MaxAttempt \in Nat
ASSUME SettingsAssumption ==
    /\ Options \subseteq RunOptions
    /\ Faults \subseteq FaultKinds
    /\ LockOwnsSignals \in BOOLEAN /\ StartTimeKnown \in BOOLEAN /\ Exclusive \in BOOLEAN

VARIABLES
    row,       \* the run's row: status, owner (pid), rev, tree, worktreeId, kept
    pc,        \* where each process is in Engine.run / Engine.resume
    mem,       \* each coordinator's in-memory tree and its revision
    inflight,  \* RunCoordinator._in_flight: the step, 0 for None
    ending,    \* each process's RunOutcome and RunSession._apply_failed
    wtDir,     \* the run's worktree directory exists
    diff,      \* steps whose work is in the session's persisted diff.patch
    applied,   \* the worktree's changes were applied to the main repository
    ran,       \* history: attempt numbers that were executed, per step
    opts,      \* the run configuration recorded on the row
    recycled   \* the OS gave the dead owner's pid to an unrelated process

world == <<wtDir, diff, applied, ran, opts, recycled>>
vars == <<row, pc, mem, inflight, ending, world>>

----------------------------------------------------------------------------
(* The execution-state tree.                                               *)

Tree == [Steps -> Leaf]

(* The plan of a new run: every leaf PENDING, without attempts.            *)
Plan == [s \in Steps |-> Planned]

AnyLiveNode(tree, s) == ~Ended(tree[s])     \* mutant of Upcoming

(* _next_node: s is the first node of the tree not in a terminal state.    *)
Upcoming(tree, s) ==
    /\ ~Ended(tree[s])
    /\ \A r \in 1..(s - 1) : Ended(tree[r])

----------------------------------------------------------------------------
(* Where a process can be.  "init": the row is inserted, its state is not.  *)
(* "open".."finish" follow drive_run; "unwind" is RunSession.run's          *)
(* `except BaseException` path, which closes and re-raises.                 *)

Gone == {"done", "dead"}
InCoordinator == {"load", "recover", "drive", "exec", "prompt"}
InSession == InCoordinator \cup {"apply"}
Driving == InSession \cup {"init", "open", "close", "unwind", "finish"}
PCs == Driving \cup Gone \cup {"idle"}

Alive(p) == p \in Procs /\ pc[p] \in Driving
LiveDriver == \E p \in Procs : Alive(p)
Fault(kind) == kind \in Faults

Goto(p, label) == pc' = [pc EXCEPT ![p] = label]

NoEnding == [outcome |-> "FAILED", applyFailed |-> FALSE, kept |-> FALSE, opened |-> FALSE]
Ending == [outcome : Outcomes, applyFailed : BOOLEAN, kept : BOOLEAN, opened : BOOLEAN]

NoRow == [status |-> "ABSENT", owner |-> NoProc, rev |-> 0, tree |-> Plan,
          worktreeId |-> FALSE, kept |-> FALSE]

(* The coordinator leaves its loop with an outcome; the session then        *)
(* auto-applies a COMPLETED one and closes.                                 *)
Conclude(p, outcome) ==
    /\ ending' = [ending EXCEPT ![p] = [NoEnding EXCEPT !.outcome = outcome, !.opened = TRUE]]
    /\ Goto(p, IF outcome = "COMPLETED" THEN "apply" ELSE "close")

(* RunsRepository.save_execution_state matches the row only at the revision *)
(* the coordinator holds.                                                   *)
SavedAtAnyRevision(p) == TRUE               \* mutant: no compare-and-swap
Saved(p) == mem[p].rev = row.rev

Unchanged == "unchanged"     \* save() is called without run_status

(* RunCoordinator._commit under the workspace lock: compare-and-swap the    *)
(* in-memory tree at revision + 1, with the status and the worktree id in   *)
(* the same commit.  The tree was changed in memory before, so a refused    *)
(* save leaves the coordinator with a tree the row does not have.           *)
Commit(p, tree, status) ==
    /\ row' = IF Saved(p)
              THEN [row EXCEPT !.tree = tree,
                               !.rev = mem[p].rev + 1,
                               !.status = IF status = Unchanged THEN @ ELSE status,
                               !.worktreeId = @ \/ opts.worktree]
              ELSE row
    /\ mem' = [mem EXCEPT ![p] = [tree |-> tree,
                                  rev |-> IF Saved(p) THEN @.rev + 1 ELSE @.rev]]

(* Commit and go on at label, or report FAILED when the save is refused.    *)
CommitThen(p, tree, status, label) ==
    /\ Commit(p, tree, status)
    /\ IF Saved(p) THEN Goto(p, label) /\ UNCHANGED ending
                   ELSE Conclude(p, "FAILED")

(* Commit a leaf the run fails with: the result of the save does not matter.*)
CommitFailed(p, tree, status) ==
    /\ Commit(p, tree, status)
    /\ Conclude(p, "FAILED")

----------------------------------------------------------------------------
(* Starting and resuming.                                                   *)

(* Engine._start_run inserts the row ...                                    *)
InsertRow(p) ==
    /\ p = Runner /\ pc[p] = "idle" /\ row.status = "ABSENT"
    /\ \/ row' = [NoRow EXCEPT !.status = "RUNNING", !.owner = p] /\ Goto(p, "init")
       \/ Fault("db") /\ UNCHANGED row /\ Goto(p, "done")
    /\ UNCHANGED <<mem, inflight, ending, world>>

(* ... and, in the same lock section but another transaction, the initial   *)
(* tree; a failure of the second marks the row FAILED if it still can.      *)
InitState(p) ==
    /\ pc[p] = "init"
    /\ row' = [row EXCEPT !.tree = Plan, !.rev = 0]
    /\ Goto(p, "open")
    /\ UNCHANGED <<mem, inflight, ending, world>>

StartFails(p) ==
    /\ Fault("db")
    /\ pc[p] = "init"
    /\ row' = [row EXCEPT !.status = "FAILED"] \/ UNCHANGED row
    /\ Goto(p, "done")
    /\ UNCHANGED <<mem, inflight, ending, world>>

(* EngineLoader.load_for_resume: what it refuses changes nothing.           *)
Resumable ==
    /\ row.status = "PAUSED"
    /\ \E s \in Steps : ~Ended(row.tree[s])
    /\ \A s \in Steps : row.tree[s].state = "PAUSED" => row.tree[s].result # "none"
    /\ opts.worktree => row.worktreeId /\ wtDir

(* Engine.resume: validation and _mark_running under one lock; neither the  *)
(* tree nor its revision changes.  A database error in _mark_running is     *)
(* only a warning, and the run goes on with its row still PAUSED.           *)
ResumeRun(p) ==
    /\ p # Runner /\ pc[p] = "idle"
    /\ Resumable
    /\ Exclusive => ~LiveDriver
    /\ \/ row' = [row EXCEPT !.status = "RUNNING", !.owner = p]
       \/ Fault("db") /\ UNCHANGED row
    /\ recycled' = FALSE
    /\ Goto(p, "open")
    /\ UNCHANGED <<mem, inflight, ending, wtDir, diff, applied, ran, opts>>

(* drive_run up to RunSession.open: a new run creates its worktree, one     *)
(* whose row names a worktree takes that one.                               *)
OpenSession(p) ==
    /\ pc[p] = "open"
    /\ opts.worktree /\ row.worktreeId => wtDir
    /\ wtDir' = opts.worktree
    /\ Goto(p, "load")
    /\ UNCHANGED <<row, mem, inflight, ending, diff, applied, ran, opts, recycled>>

(* A configuration error, a worktree that cannot be created, or a retained  *)
(* one that is gone: a FAILED outcome without a session to close.           *)
OpenFails(p) ==
    /\ pc[p] = "open"
    /\ Fault("setup") \/ (opts.worktree /\ row.worktreeId /\ ~wtDir)
    /\ ending' = [ending EXCEPT ![p] = NoEnding]
    /\ Goto(p, "finish")
    /\ UNCHANGED <<row, mem, inflight, world>>

----------------------------------------------------------------------------
(* The coordinator.                                                         *)

(* RunCoordinator._start reads row and tree without the lock.               *)
LoadState(p) ==
    /\ pc[p] = "load"
    /\ mem' = [mem EXCEPT ![p] = [tree |-> row.tree, rev |-> row.rev]]
    /\ inflight' = [inflight EXCEPT ![p] = 0]
    /\ Goto(p, IF \E s \in Steps : Interrupted(row.tree[s]) THEN "recover" ELSE "drive")
    /\ UNCHANGED <<row, ending, world>>

(* Corrupt state, a missing snapshot or a projection ahead of the row.      *)
LoadFails(p) ==
    /\ Fault("load")
    /\ pc[p] = "load"
    /\ Conclude(p, "FAILED")
    /\ UNCHANGED <<row, mem, inflight, world>>

RecoverInterrupted(p) ==
    /\ pc[p] = "recover"
    /\ CommitThen(p, [s \in Steps |-> RecoveredLeaf(mem[p].tree[s])], Unchanged, "drive")
    /\ UNCHANGED <<inflight, world>>

(* _begin_attempt of a PENDING leaf: committed before the attempt runs.     *)
BeginAttempt(p, s) ==
    /\ pc[p] = "drive"
    /\ Upcoming(mem[p].tree, s) /\ mem[p].tree[s].state = "PENDING"
    /\ inflight' = [inflight EXCEPT ![p] = s]
    /\ CommitThen(p, [mem[p].tree EXCEPT ![s] = Opened(@, 1)], Unchanged, "drive")
    /\ UNCHANGED world

(* run_attempt starts the program of a RUNNING leaf.                        *)
StartAttempt(p, s) ==
    /\ pc[p] = "drive"
    /\ Upcoming(mem[p].tree, s) /\ mem[p].tree[s].state = "RUNNING"
    /\ inflight' = [inflight EXCEPT ![p] = s]
    /\ ran' = [ran EXCEPT ![s] = @ \cup {mem[p].tree[s].attempt}]
    /\ Goto(p, "exec")
    /\ UNCHANGED <<row, mem, ending, wtDir, diff, applied, opts, recycled>>

(* The numbers StepExecution._run_attempts used, up to the one it returns.  *)
Used(s, first, last) == ran' = [ran EXCEPT ![s] = @ \cup first..last]
UsedUp(p, s) == Used(s, mem[p].tree[s].attempt, mem[p].tree[s].attempt + Budget[s] - 1)

(* _settle_attempt of a success: the executor retried until attempt n.      *)
AttemptPasses(p, s, n) ==
    /\ pc[p] = "exec" /\ inflight[p] = s
    /\ n - mem[p].tree[s].attempt \in 0..(Budget[s] - 1)
    /\ Used(s, mem[p].tree[s].attempt, n)
    /\ CommitThen(p, [mem[p].tree EXCEPT ![s] = Settled(@, "COMPLETED", n, "completed")],
                  Unchanged, "drive")
    /\ UNCHANGED <<inflight, wtDir, diff, applied, opts, recycled>>

(* _finalize_failure of a step whose failures do not count: the executor    *)
(* itself returns the result as ignored.                                    *)
LastAttempt(p, s) == mem[p].tree[s].attempt + Budget[s] - 1

AttemptIgnored(p, s) ==
    /\ pc[p] = "exec" /\ inflight[p] = s
    /\ Policy[s] = "continue"
    /\ UsedUp(p, s)
    /\ CommitThen(p, [mem[p].tree EXCEPT ![s] = Settled(@, "IGNORED", LastAttempt(p, s), "ignored")],
                  Unchanged, "drive")
    /\ UNCHANGED <<inflight, wtDir, diff, applied, opts, recycled>>

(* _resolve_failed_leaf: leaf s of the in-memory tree failed in attempt n.  *)
(* "continue" is met here only for an attempt recovered as interrupted.  A  *)
(* prompt is preceded by a commit of the leaf and the run as paused; a run  *)
(* without a prompter aborts.                                               *)
WithLeaf(p, s, state, n, result) ==
    [mem[p].tree EXCEPT ![s] = Settled(@, state, n, result)]

FailureGate(p, s, n) ==
    \/ /\ Policy[s] = "continue"
       /\ CommitThen(p, WithLeaf(p, s, "IGNORED", n, "ignored"), Unchanged, "drive")
    \/ /\ Policy[s] = "prompt_user" /\ p \in Interactive
       /\ CommitThen(p, WithLeaf(p, s, "PAUSED", n, "failed"), "PAUSED", "prompt")
    \/ /\ Policy[s] = "abort" \/ (Policy[s] = "prompt_user" /\ p \notin Interactive)
       /\ CommitFailed(p, WithLeaf(p, s, "FAILED", n, "failed"), Unchanged)

(* _settle_attempt of a failure goes through the gate.                      *)
AttemptFails(p, s) ==
    /\ pc[p] = "exec" /\ inflight[p] = s
    /\ Policy[s] # "continue"
    /\ UsedUp(p, s)
    /\ FailureGate(p, s, LastAttempt(p, s))
    /\ UNCHANGED <<inflight, wtDir, diff, applied, opts, recycled>>

(* _advance_slot of a PAUSED leaf re-enters the gate with its last result   *)
(* and does not run the step again.                                         *)
ReenterGate(p, s) ==
    /\ pc[p] = "drive"
    /\ Upcoming(mem[p].tree, s) /\ mem[p].tree[s].state = "PAUSED"
    /\ inflight' = [inflight EXCEPT ![p] = s]
    /\ FailureGate(p, s, mem[p].tree[s].attempt)
    /\ UNCHANGED world

(* _apply_action of the user's answer; each one commits the run as running. *)
NextAttempt(leaf) == leaf.attempt + 1

PromptRetry(p, s) ==
    /\ pc[p] = "prompt" /\ inflight[p] = s
    /\ NextAttempt(mem[p].tree[s]) <= MaxAttempt
    /\ CommitThen(p, [mem[p].tree EXCEPT ![s] = Opened(@, NextAttempt(@))], "RUNNING", "drive")
    /\ UNCHANGED <<inflight, world>>

PromptContinue(p, s) ==
    /\ pc[p] = "prompt" /\ inflight[p] = s
    /\ CommitThen(p, [mem[p].tree EXCEPT ![s] = Settled(@, "IGNORED", @.attempt, "ignored")],
                  "RUNNING", "drive")
    /\ UNCHANGED <<inflight, world>>

PromptAbort(p, s) ==
    /\ pc[p] = "prompt" /\ inflight[p] = s
    /\ CommitFailed(p, [mem[p].tree EXCEPT ![s] = Settled(@, "FAILED", @.attempt, "failed")],
                    "RUNNING")
    /\ UNCHANGED <<inflight, world>>

(* _next_node finds nothing left.                                           *)
NothingLeft(p) ==
    /\ pc[p] = "drive"
    /\ \A s \in Steps : Ended(mem[p].tree[s])
    /\ Conclude(p, "COMPLETED")
    /\ UNCHANGED <<row, mem, inflight, world>>

----------------------------------------------------------------------------
(* Closing.                                                                 *)

(* handle_auto_apply of a COMPLETED outcome: skipped, done, or refused      *)
(* (conflict, dirty repository, empty diff), which makes the outcome FAILED *)
(* and the worktree kept.                                                   *)
WantsApply == opts.apply /\ opts.worktree

AutoApply(p) ==
    /\ pc[p] = "apply"
    /\ \/ ~WantsApply /\ UNCHANGED <<ending, applied>>
       \/ WantsApply /\ wtDir /\ applied' = TRUE /\ UNCHANGED ending
       \/ /\ WantsApply
          /\ ending' = [ending EXCEPT ![p].outcome = "FAILED", ![p].applyFailed = TRUE]
          /\ UNCHANGED applied
    /\ Goto(p, "close")
    /\ UNCHANGED <<row, mem, inflight, wtDir, diff, ran, opts, recycled>>

(* finalize_cleanup: does this outcome leave the worktree in place?         *)
StepsRan == {s \in Steps : ran[s] # {}}

KeepsOnRequest(e) == e.applyFailed \/ (opts.worktree /\ opts.keep)        \* mutant

KeepsWorktree(e) ==
    \/ e.outcome = "PAUSED"
    \/ e.applyFailed
    \/ opts.worktree /\ opts.keep

(* RunSession._close: the diff is captured before the worktree is removed;  *)
(* git failing at either is only a warning.                                 *)
RemoveThenCapture(e) ==                     \* mutant of CloseWorktree
    /\ wtDir' = (wtDir /\ KeepsWorktree(e))
    /\ diff' = IF wtDir' THEN StepsRan ELSE diff

CloseWorktree(e) ==
    /\ \/ diff' = IF wtDir THEN StepsRan ELSE diff
       \/ Fault("git") /\ UNCHANGED diff
    /\ \/ wtDir' = (wtDir /\ KeepsWorktree(e))
       \/ Fault("git") /\ UNCHANGED wtDir

Close(p) ==
    /\ pc[p] = "close"
    /\ CloseWorktree(ending[p])
    /\ ending' = [ending EXCEPT ![p].kept = KeepsWorktree(ending[p])]
    /\ Goto(p, "finish")
    /\ UNCHANGED <<row, mem, inflight, applied, ran, opts, recycled>>

(* The same for an exception on its way out: the session closes as FAILED,  *)
(* the process ends and Engine._finish_run never runs.                      *)
CloseUnwinding(p) ==
    /\ pc[p] = "unwind"
    /\ CloseWorktree(NoEnding)
    /\ Goto(p, "dead")
    /\ UNCHANGED <<row, mem, inflight, ending, applied, ran, opts, recycled>>

(* Engine._finish_run: reload the state under the lock and save it at       *)
(* revision + 1 with the outcome; when it cannot be read the outcome goes   *)
(* straight onto the row; a database error is only a warning.               *)
Finalized(p) ==
    [row EXCEPT !.status = ending[p].outcome,
                !.worktreeId = @ \/ (ending[p].opened /\ opts.worktree),
                !.kept = ending[p].kept]

Finish(p) ==
    /\ pc[p] = "finish"
    /\ \/ row' = [Finalized(p) EXCEPT !.rev = @ + 1]
       \/ Fault("load") /\ row' = Finalized(p)
       \/ Fault("db") /\ UNCHANGED row
    /\ Goto(p, "done")
    /\ UNCHANGED <<mem, inflight, ending, world>>

----------------------------------------------------------------------------
(* Signals, exceptions, crashes and other commands.                         *)

(* A process dies outside RunSession.run's try: SIGKILL or a power loss     *)
(* anywhere; a signal or a lock timeout while opening, closing or           *)
(* finishing.  Its row stays as it is.                                      *)
Die(p) ==
    /\ \/ Fault("crash") /\ pc[p] \in Driving
       \/ Fault("interrupt") /\ pc[p] \in Driving \ InSession
       \/ Fault("raise") /\ pc[p] \in {"open", "finish"}
    /\ Goto(p, "dead")
    /\ UNCHANGED <<row, mem, inflight, ending, world>>

(* An exception passes through RunSession.run: the SystemExit of the lock's *)
(* signal handler, KeyboardInterrupt where the coordinator does not catch   *)
(* it, or a lock timeout or database error in a commit or in the apply.     *)
Unwind(p) ==
    /\ \/ Fault("interrupt") /\ pc[p] \in IF LockOwnsSignals THEN InSession ELSE {"load", "apply"}
       \/ Fault("raise") /\ pc[p] \in InSession \ {"load"}
    /\ Goto(p, "unwind")
    /\ UNCHANGED <<row, mem, inflight, ending, world>>

(* _cancel: KeyboardInterrupt reaches RunCoordinator.execute.  The node in  *)
(* flight becomes CANCELLED whatever its state was.                         *)
CancelRun(p) ==
    /\ Fault("interrupt") /\ ~LockOwnsSignals
    /\ pc[p] \in {"recover", "drive", "exec"}
    /\ IF inflight[p] \in Steps
       THEN Commit(p, [mem[p].tree EXCEPT ![inflight[p]].state = "CANCELLED"], Unchanged)
       ELSE UNCHANGED <<row, mem>>
    /\ Conclude(p, "CANCELLED")
    /\ UNCHANGED <<inflight, world>>

(* KeyboardInterrupt at the prompt: the run stays paused.                   *)
LeavePrompt(p) ==
    /\ Fault("interrupt") /\ ~LockOwnsSignals
    /\ pc[p] = "prompt"
    /\ Conclude(p, "PAUSED")
    /\ UNCHANGED <<row, mem, inflight, world>>

(* is_run_stale: the owner is gone, or its pid is now a process that        *)
(* started later than the run did.  A resuming process always did.          *)
FirstAlive == Alive(Runner)                                                \* mutant: of OwnerAlive
OwnerAlive == Alive(row.owner)
StartedLater == recycled \/ row.owner # Runner

StaleWhateverStatus == row.status # "ABSENT" /\ ~OwnerAlive /\ ~recycled  \* mutant
StaleOnlyIfDead == row.status = "RUNNING" /\ ~OwnerAlive /\ ~recycled      \* mutant

Stale ==
    /\ row.status = "RUNNING"
    /\ \/ ~OwnerAlive /\ ~recycled
       \/ StartTimeKnown /\ StartedLater

(* reconcile_stale_runs, called by `run`, `history list` and `status`.      *)
Reconcile ==
    /\ Stale
    /\ row' = [row EXCEPT !.status = "FAILED"]
    /\ UNCHANGED <<pc, mem, inflight, ending, world>>

PidRecycled ==
    /\ Fault("recycle")
    /\ row.status = "RUNNING" /\ ~OwnerAlive /\ ~recycled
    /\ recycled' = TRUE
    /\ UNCHANGED <<row, pc, mem, inflight, ending, wtDir, diff, applied, ran, opts>>

(* `dovo worktree` commands or the user remove the worktree.                *)
RemoveWorktree ==
    /\ Fault("remove")
    /\ wtDir /\ wtDir' = FALSE
    /\ UNCHANGED <<row, pc, mem, inflight, ending, diff, applied, ran, opts, recycled>>

----------------------------------------------------------------------------
Init ==
    /\ row = NoRow
    /\ pc = [p \in Procs |-> "idle"]
    /\ mem = [p \in Procs |-> [tree |-> Plan, rev |-> 0]]
    /\ inflight = [p \in Procs |-> 0]
    /\ ending = [p \in Procs |-> NoEnding]
    /\ wtDir = FALSE
    /\ diff = {}
    /\ applied = FALSE
    /\ ran = [s \in Steps |-> {}]
    /\ opts \in Options
    /\ recycled = FALSE

(* What a live process does by itself, without its user.                    *)
Progress(p) ==
    \/ InitState(p) \/ StartFails(p) \/ OpenSession(p) \/ OpenFails(p)
    \/ LoadState(p) \/ LoadFails(p) \/ RecoverInterrupted(p)
    \/ \E s \in Steps :
         \/ BeginAttempt(p, s) \/ StartAttempt(p, s)
         \/ \E n \in mem[p].tree[s].attempt..LastAttempt(p, s) : AttemptPasses(p, s, n)
         \/ AttemptIgnored(p, s) \/ AttemptFails(p, s) \/ ReenterGate(p, s)
    \/ NothingLeft(p) \/ AutoApply(p) \/ Close(p) \/ CloseUnwinding(p) \/ Finish(p)

User(p) ==
    \/ InsertRow(p) \/ ResumeRun(p)
    \/ \E s \in Steps : PromptRetry(p, s) \/ PromptContinue(p, s) \/ PromptAbort(p, s)

Disturbance(p) == Die(p) \/ Unwind(p) \/ CancelRun(p) \/ LeavePrompt(p)

Next ==
    \/ \E p \in Procs : Progress(p) \/ User(p) \/ Disturbance(p)
    \/ Reconcile \/ PidRecycled \/ RemoveWorktree

Spec == Init /\ [][Next]_vars

(* A live process goes on: steps end, the lock is granted, and some dovo    *)
(* command that reconciles is run now and then.  Nobody has to answer a     *)
(* prompt or resume a run.                                                  *)
FairSpec == Spec /\ (\A p \in Procs : WF_vars(Progress(p))) /\ WF_vars(Reconcile)

----------------------------------------------------------------------------
(* Correctness.                                                             *)

(* The types of all variables.                                              *)
Row == [status : RunStatus \cup {"ABSENT"}, owner : Procs \cup {NoProc}, rev : Nat,
        tree : Tree, worktreeId : BOOLEAN, kept : BOOLEAN]

TypeOK ==
    /\ row \in Row
    /\ pc \in [Procs -> PCs]
    /\ mem \in [Procs -> [tree : Tree, rev : Nat]]
    /\ inflight \in [Procs -> Steps \cup {0}]
    /\ ending \in [Procs -> Ending]
    /\ wtDir \in BOOLEAN /\ applied \in BOOLEAN /\ recycled \in BOOLEAN
    /\ diff \subseteq Steps
    /\ ran \in [Steps -> SUBSET Nat]
    /\ opts \in RunOptions

(* A coordinator that may still commit never holds a revision the row has   *)
(* not reached, and at the row's own revision it holds the row's tree: what *)
(* the compare-and-swap of save_execution_state stands on, however many     *)
(* processes drive the run.                                                 *)
MayCommit(p) == pc[p] \in {"recover", "drive", "exec", "prompt"}

NoForeignTree ==
    \A p \in Procs : MayCommit(p) =>
        /\ mem[p].rev <= row.rev
        /\ mem[p].rev = row.rev => mem[p].tree = row.tree

(* Steps run in order: everything before a leaf that was touched has ended, *)
(* and at most one leaf is live, even when two processes drive the run.     *)
StepsInOrder ==
    \A r, s \in Steps :
        r < s /\ row.tree[s].state # "PENDING" => Ended(row.tree[r])

(* The node a coordinator works on is the next one, and in a state that     *)
(* fits what it is doing; one it worked on before has been touched.         *)
LeafInHand ==
    \A p \in Procs :
        /\ pc[p] = "exec" =>
              /\ inflight[p] \in Steps /\ Upcoming(mem[p].tree, inflight[p])
              /\ mem[p].tree[inflight[p]].state = "RUNNING"
        /\ pc[p] = "prompt" =>
              /\ inflight[p] \in Steps /\ Upcoming(mem[p].tree, inflight[p])
              /\ mem[p].tree[inflight[p]].state = "PAUSED"
        /\ MayCommit(p) /\ inflight[p] \in Steps => mem[p].tree[inflight[p]].state # "PENDING"

(* Until `dovo run` has stored the initial state nobody else is involved.   *)
NothingBeforeInit ==
    /\ \A p \in Procs : pc[p] = "init" => p = Runner
    /\ pc[Runner] \in {"idle", "init"} =>
          /\ row.tree = Plan
          /\ row.status \in {"ABSENT", "RUNNING", "FAILED"}
          /\ \A p \in Procs \ {Runner} : pc[p] = "idle"

(* The inductive invariant of the engine.                                   *)
IInv == TypeOK /\ NoForeignTree /\ LeafInHand /\ NothingBeforeInit /\ StepsInOrder

(* A step that ended keeps its state: only a cancellation may relabel it.   *)
(* A second driver, or the loser of a race, never reopens it.               *)
FinishedStaysFinished ==
    [][\A s \in Steps :
          Ended(row.tree[s]) => \/ row'.tree[s] = row.tree[s]
                                \/ row'.tree[s].state = "CANCELLED"]_vars

(* No attempt of a step is executed twice under the same number: a resumed  *)
(* run does not rerun the failed command unless the user asks for another   *)
(* attempt, and two drivers never start the same attempt.                   *)
AttemptRunsOnce ==
    [][\A p \in Procs, s \in Steps :
          /\ pc[p] = "drive" /\ pc'[p] = "exec" /\ inflight'[p] = s
          => mem[p].tree[s].attempt \notin ran[s]]_vars

(* What that rests on where the executor does not retry by itself: numbers  *)
(* that were executed are in the row, a leaf a coordinator is about to run  *)
(* has a number nobody executed, and no two coordinators hold the same one. *)
Numbered(leaf) ==
    /\ leaf.state = "PENDING" => leaf.attempt = 0
    /\ leaf.state = "RUNNING" => leaf.attempt > 0 /\ leaf.result = "none"

Holds(p, s) == pc[p] = "drive" /\ mem[p].tree[s].state = "RUNNING"

AttemptsAreOwned ==
    /\ \A s \in Steps :
          /\ Numbered(row.tree[s])
          /\ \A n \in ran[s] : n <= row.tree[s].attempt
    /\ \A p \in Procs, s \in Steps :
          /\ MayCommit(p) => /\ Numbered(mem[p].tree[s])
                             /\ mem[p].tree[s].attempt <= row.tree[s].attempt
          /\ pc[p] = "exec" /\ inflight[p] = s => mem[p].tree[s].attempt \in ran[s]
          /\ Holds(p, s) => /\ mem[p].tree[s].attempt \notin ran[s]
                            /\ \A q \in Procs \ {p} :
                                  Holds(q, s) => mem[q].tree[s].attempt # mem[p].tree[s].attempt

(* A run is recorded as completed only when every step passed, was executed *)
(* and, if asked for, its changes reached the main repository.              *)
CompletedMeansDone ==
    row.status = "COMPLETED" =>
        /\ \A s \in Steps : row.tree[s].state \in Passing /\ ran[s] # {}
        /\ WantsApply => applied

(* Nothing runs after a step the run failed or was cancelled with.          *)
FailedStopsRun ==
    \A r, s \in Steps :
        r < s /\ row.tree[r].state \in {"FAILED", "CANCELLED"} => row.tree[s].state = "PENDING"

(* The status a run ends with means what it says: COMPLETED that every step *)
(* is done, FAILED that nothing runs after it.                              *)
EndingMeansIt == CompletedMeansDone /\ FailedStopsRun

(* A paused run nobody drives can be resumed: it has a leaf to resume, with *)
(* a recorded failure, and its worktree is still there.                     *)
PausedIsResumable == row.status = "PAUSED" /\ ~LiveDriver => Resumable

(* What the steps did is never lost as long as git works: it is in the      *)
(* worktree, in the persisted diff, or in the main repository.              *)
WorkRecoverable ==
    opts.worktree => \A s \in StepsRan : wtDir \/ s \in diff \/ applied

(* One driver at a time: nobody else drives, no commit is refused, and the  *)
(* worktree is there from the moment the session is open until it closes.   *)
Alone == \A p, q \in Procs : Alive(p) /\ Alive(q) => p = q
NeverRefused == \A p \in Procs : MayCommit(p) => Saved(p)

InWorktree(p) == pc[p] \in InSession \cup {"close", "unwind"}
WorktreeHeld == \A p \in Procs : opts.worktree /\ InWorktree(p) => wtDir

(* What the row says fits what its driver does, and what the driver is      *)
(* about to report fits what the row says.                                  *)
HasStopped(tree) == \E s \in Steps : tree[s].state \in {"FAILED", "CANCELLED"}
AllPassed(tree) == \A s \in Steps : tree[s].state \in Passing

Working(p) ==
    /\ pc[p] # "recover"
    /\ pc[p] \in {"open", "load", "drive", "exec", "apply"} =>
          row.status # "PAUSED" /\ ~HasStopped(row.tree)
    /\ pc[p] \in {"open", "load"} => \A s \in Steps : row.tree[s].state # "RUNNING"
    /\ pc[p] = "prompt" => row.status = "PAUSED"
    /\ pc[p] = "apply" => AllPassed(row.tree) /\ ending[p].outcome = "COMPLETED"
    /\ MayCommit(p) /\ inflight[p] \in Steps =>
          \A s \in Steps : inflight[p] < s => row.tree[s].state = "PENDING"

Reporting(p) ==
    pc[p] \in {"close", "finish"} =>
        /\ ending[p].outcome = "PAUSED" <=> row.status = "PAUSED"
        /\ ending[p].outcome = "COMPLETED" => AllPassed(row.tree) /\ (WantsApply => applied)

StatusFits ==
    /\ \A p \in Procs : Working(p) /\ Reporting(p)
    /\ row.status = "PAUSED" =>
          ~HasStopped(row.tree) /\ \E s \in Steps : row.tree[s].state = "PAUSED"
    /\ row.status = "COMPLETED" => ~LiveDriver
    /\ \A s \in Steps :
          /\ row.tree[s].state \in Passing \cup {"PAUSED"} => ran[s] # {}
          /\ row.tree[s].state = "PAUSED" => row.tree[s].result # "none"

(* The inductive invariant of a run that has one driver at a time and whose *)
(* database works.                                                          *)
SoloIInv == IInv /\ Alone /\ NeverRefused /\ StatusFits /\ EndingMeansIt

(* Nothing closes a paused run's session as failed or takes its worktree.   *)
PausedIsKept ==
    /\ row.status = "PAUSED" =>
          /\ opts.worktree => row.worktreeId /\ wtDir
          /\ \A p \in Procs : pc[p] # "unwind"
    /\ WorktreeHeld

(* Whoever drives the run owns its row, which no reconciliation has failed. *)
OwnerDrives == \A p \in Procs : Alive(p) => row.owner = p /\ row.status \in {"RUNNING", "PAUSED"}

(* A live process that first drove the run is known by its row.             *)
FirstDrives ==
    /\ Alive(Runner) => row.owner = Runner /\ ~recycled
    /\ row.status = "ABSENT" => ~recycled

(* Reconciliation takes a run from none of its live drivers, the first or   *)
(* one that resumed it, whoever died or was interrupted before and whatever *)
(* became of their pids.  What is left is the driver that resumed a run     *)
(* where start times can be read.                                           *)
DriverIsSpared ==
    [][row.status = "RUNNING" /\ row'.status = "FAILED" /\ UNCHANGED pc =>
         \A p \in Procs : Alive(p) => StartTimeKnown /\ p # Runner]_vars

(* What is_run_stale says of itself, which a resumed run refutes where      *)
(* start times can be read: it keeps the started_at of its first process,   *)
(* and its own process is taken for a recycled pid.                         *)
ResumedIsSpared ==
    [][row.status = "RUNNING" /\ row'.status = "FAILED" /\ UNCHANGED pc => ~LiveDriver]_vars

(* A row does not stay RUNNING for ever: its process settles it or a        *)
(* reconciliation does.                                                     *)
RunningSettles == (row.status = "RUNNING") ~> (row.status # "RUNNING")

(* The run as its user sees it.                                             *)
Life == INSTANCE RunLife WITH
    Length <- NumSteps,
    status <- row.status,
    passed <- Cardinality({s \in Steps : row.tree[s].state \in Passing}),
    stopped <- \E s \in Steps : row.tree[s].state \in {"FAILED", "CANCELLED"}

(* With one driver at a time the engine implements RunLife: steps pass in   *)
(* order and once, a finished run never starts again or changes its mind,   *)
(* a paused run has something left to do, and COMPLETED means all passed.   *)
ImplementsRunLife == Life!RSpec
=============================================================================
