---------------------------- MODULE SoloRunProofs ----------------------------
(***************************************************************************)
(* What holds of a run that has one driver at a time, the way operators are *)
(* asked to use `dovo resume`: no commit is refused, what the steps did is  *)
(* never lost, the status a run ends with means what it says, a paused run  *)
(* can be resumed, and the engine implements RunLife.  Each theorem names   *)
(* the faults that it excludes.                                             *)
(***************************************************************************)
EXTENDS RunEngineProofs, FiniteSetTheorems

----------------------------------------------------------------------------
(* One driver at a time.                                                    *)

LEMMA DrivingLabels ==
    /\ Driving = {"init", "open", "load", "recover", "drive", "exec", "prompt", "apply",
                  "close", "unwind", "finish"}
    /\ InSession = {"load", "recover", "drive", "exec", "prompt", "apply"}
BY DEF Driving, InSession, InCoordinator

(* Whoever acts drives, except for the one who inserts the row or resumes.  *)
LEMMA ActorDrives ==
    ASSUME NEW p \in Procs, Progress(p) \/ User(p) \/ Disturbance(p)
    PROVE  pc[p] \in Driving \/ InsertRow(p) \/ ResumeRun(p)
<1>1. CASE Progress(p)
  BY <1>1, DrivingLabels
     DEF Progress, InitState, StartFails, OpenSession, OpenFails, LoadState, LoadFails,
         RecoverInterrupted, BeginAttempt, StartAttempt, AttemptPasses, AttemptIgnored, AttemptFails,
         ReenterGate, NothingLeft, AutoApply, Close, CloseUnwinding, Finish
<1>2. CASE User(p)
  BY <1>2, DrivingLabels DEF User, PromptRetry, PromptContinue, PromptAbort
<1>3. CASE Disturbance(p)
  BY <1>3, DrivingLabels DEF Disturbance, Die, Unwind, CancelRun, LeavePrompt
<1> QED BY <1>1, <1>2, <1>3

(* Nobody else drives, before the step and after it.                        *)
LEMMA OnlyActor ==
    ASSUME Exclusive, IInv, Alone, NEW p \in Procs, Progress(p) \/ User(p) \/ Disturbance(p)
    PROVE  \A q \in Procs \ {p} : pc[q] \notin Driving /\ pc'[q] = pc[q]
<1>0. TypeOK /\ NothingBeforeInit
  BY DEF IInv
<1>1. \A q \in Procs \ {p} : pc'[q] = pc[q]
  <2>1. Moved(p) \/ InsertRow(p)
    BY <1>0, ProgressMoves, OtherMoves
  <2> QED BY <1>0, <2>1 DEF Moved, InsertRow, Goto, TypeOK
<1>2. CASE pc[p] \in Driving
  BY <1>1, <1>2 DEF Alone, Alive
<1>3. CASE InsertRow(p)
  BY <1>0, <1>1, <1>3, DrivingLabels DEF InsertRow, NothingBeforeInit
<1>4. CASE ResumeRun(p)
  BY <1>1, <1>4 DEF ResumeRun, LiveDriver, Alive
<1> QED BY <1>2, <1>3, <1>4, ActorDrives

LEMMA OutsideMoves ==
    ASSUME Reconcile \/ PidRecycled \/ RemoveWorktree \/ UNCHANGED vars
    PROVE  UNCHANGED <<pc, mem, inflight, ending, diff, applied, ran, opts>>
BY DEF Reconcile, PidRecycled, RemoveWorktree, vars, world

LEMMA AloneStep == Exclusive /\ IInv /\ Alone /\ [Next]_vars => Alone'
<1> SUFFICES ASSUME Exclusive, IInv, Alone, [Next]_vars PROVE Alone'
  OBVIOUS
<1>1. ASSUME NEW p \in Procs, Progress(p) \/ User(p) \/ Disturbance(p) PROVE Alone'
  BY <1>1, OnlyActor DEF Alone, Alive
<1>2. CASE Reconcile \/ PidRecycled \/ RemoveWorktree \/ UNCHANGED vars
  BY <1>2, OutsideMoves DEF Alone, Alive
<1> QED BY <1>1, <1>2 DEF Next

LEMMA AloneInit == Init => Alone
BY DrivingLabels DEF Init, Alone, Alive

(* With one driver at a time at most one process drives the run.            *)
THEOREM OneDriver ==
    ASSUME Exclusive
    PROVE  Spec => []Alone
<1>1. IInv /\ Alone /\ [Next]_vars => Alone'
  BY AloneStep
<1> QED BY <1>1, AloneInit, EngineInvariant, PTL DEF Spec

----------------------------------------------------------------------------
(* What the steps did is not lost.                                          *)

(* A step leaves the worktree and what is known of it alone, opens it, uses *)
(* it, applies it or closes it.                                             *)
Untouched == UNCHANGED <<wtDir, diff, applied, ran, opts>>
Opening(p) == wtDir' = opts.worktree /\ UNCHANGED <<diff, applied, ran, opts>>
Using(p) == InWorktree(p) /\ UNCHANGED <<wtDir, diff, applied, opts>>
Applying(p) == applied' = TRUE /\ UNCHANGED <<wtDir, diff, ran, opts>>
Closing(p) ==
    /\ InWorktree(p) /\ ~InWorktree(p)'
    /\ ~Fault("git") => diff' = IF wtDir THEN StepsRan ELSE diff
    /\ UNCHANGED <<applied, ran, opts>>

LEMMA CloseKind ==
    ASSUME TypeOK, NEW p \in Procs, Close(p) \/ CloseUnwinding(p)
    PROVE  Closing(p)
<1>1. InWorktree(p) /\ \E e : CloseWorktree(e)
  BY DEF InWorktree, Close, CloseUnwinding
<1>2. pc'[p] \in {"finish", "dead"}
  BY DEF Close, CloseUnwinding, Goto, TypeOK
<1>3. ~Fault("git") => diff' = IF wtDir THEN StepsRan ELSE diff
  BY <1>1 DEF CloseWorktree
<1> QED BY <1>1, <1>2, <1>3, DrivingLabels DEF Closing, InWorktree, Close, CloseUnwinding

(* Every step of a process, but OpenSession, keeps the others' worktree.    *)
LEMMA ProgressUse ==
    ASSUME TypeOK, NEW p \in Procs, Progress(p)
    PROVE  /\ Untouched \/ Using(p) \/ Opening(p) \/ Applying(p) \/ Closing(p)
           /\ InWorktree(p)' => InWorktree(p) \/ Opening(p)
<1>0. pc \in [Procs -> PCs]
  BY DEF TypeOK
<1>1. CASE InitState(p) \/ StartFails(p) \/ OpenFails(p) \/ Finish(p)
  BY <1>0, <1>1, DrivingLabels
     DEF InitState, StartFails, OpenFails, Finish, Untouched, InWorktree, Goto, world
<1>2. CASE OpenSession(p)
  BY <1>2 DEF OpenSession, Opening
<1>3. CASE LoadState(p) \/ LoadFails(p) \/ RecoverInterrupted(p) \/ NothingLeft(p)
  BY <1>3, DrivingLabels
     DEF LoadState, LoadFails, RecoverInterrupted, NothingLeft, Untouched, InWorktree, world
<1>4. ASSUME NEW s \in Steps,
             \/ BeginAttempt(p, s) \/ StartAttempt(p, s) \/ AttemptIgnored(p, s)
             \/ AttemptFails(p, s) \/ ReenterGate(p, s) \/ \E n : AttemptPasses(p, s, n)
      PROVE  Using(p)
  BY <1>4, DrivingLabels DEF BeginAttempt, StartAttempt, AttemptIgnored, AttemptFails,
       ReenterGate, AttemptPasses, Using, InWorktree, world
<1>5. CASE AutoApply(p)
  BY <1>5, DrivingLabels DEF AutoApply, Applying, Untouched, InWorktree
<1>6. CASE Close(p) \/ CloseUnwinding(p)
  BY <1>6, CloseKind DEF Closing
<1>7. Using(p) \/ Closing(p) => InWorktree(p)
  BY DEF Using, Closing
<1> QED BY <1>1, <1>2, <1>3, <1>4, <1>5, <1>6, <1>7 DEF Progress

LEMMA OtherUse ==
    ASSUME TypeOK, NEW p \in Procs, User(p) \/ Disturbance(p)
    PROVE  Untouched /\ (InWorktree(p)' => InWorktree(p))
<1>0. pc \in [Procs -> PCs]
  BY DEF TypeOK
<1>1. CASE InsertRow(p) \/ ResumeRun(p)
  BY <1>0, <1>1, DrivingLabels DEF InsertRow, ResumeRun, Untouched, InWorktree, Goto, world
<1>2. ASSUME NEW s \in Steps, PromptRetry(p, s) \/ PromptContinue(p, s) \/ PromptAbort(p, s)
      PROVE  Untouched /\ InWorktree(p)
  BY <1>2, DrivingLabels DEF PromptRetry, PromptContinue, PromptAbort, Untouched, InWorktree, world
<1>3. CASE Die(p)
  BY <1>0, <1>3, DrivingLabels DEF Die, Untouched, InWorktree, Goto, world
<1>4. CASE Unwind(p) \/ CancelRun(p) \/ LeavePrompt(p)
  BY <1>4, DrivingLabels DEF Unwind, CancelRun, LeavePrompt, Untouched, InWorktree, world
<1> QED BY <1>1, <1>2, <1>3, <1>4 DEF User, Disturbance

(* As long as nobody removes it, the driver's worktree is there.            *)
LEMMA WorktreeHeldStep ==
    ASSUME Exclusive, ~Fault("remove"), IInv, Alone, WorktreeHeld, [Next]_vars
    PROVE  WorktreeHeld'
<1>0. TypeOK
  BY DEF IInv
<1>1. ASSUME NEW p \in Procs, Progress(p) \/ User(p) \/ Disturbance(p) PROVE WorktreeHeld'
  <2>1. \A q \in Procs \ {p} : ~InWorktree(q)'
    BY <1>1, OnlyActor, DrivingLabels DEF InWorktree
  <2>2. /\ Untouched \/ Using(p) \/ Opening(p) \/ Applying(p) \/ Closing(p)
        /\ InWorktree(p)' => InWorktree(p) \/ Opening(p)
    BY <1>0, <1>1, ProgressUse, OtherUse
  <2>3. opts' = opts
    BY <2>2 DEF Untouched, Using, Opening, Applying, Closing
  <2>4. ASSUME opts.worktree, InWorktree(p)' PROVE wtDir'
    <3>1. CASE Opening(p)
      BY <2>4, <3>1 DEF Opening
    <3>2. CASE InWorktree(p) /\ wtDir' = wtDir
      BY <2>4, <3>2 DEF WorktreeHeld
    <3> QED BY <2>2, <2>4, <3>1, <3>2 DEF Untouched, Using, Applying, Closing
  <2> QED BY <2>1, <2>3, <2>4 DEF WorktreeHeld
<1>2. CASE Reconcile \/ PidRecycled \/ RemoveWorktree \/ UNCHANGED vars
  <2>1. wtDir' = wtDir
    BY <1>2 DEF Reconcile, PidRecycled, RemoveWorktree, vars, world
  <2> QED BY <1>2, <2>1, OutsideMoves DEF WorktreeHeld, InWorktree
<1> QED BY <1>1, <1>2 DEF Next

LEMMA WorkRecoverableStep ==
    ASSUME Exclusive, ~Fault("remove"), ~Fault("git"), IInv, WorktreeHeld, WorkRecoverable,
           [Next]_vars
    PROVE  WorkRecoverable'
<1>0. TypeOK
  BY DEF IInv
<1>1. ASSUME NEW p \in Procs, Progress(p) \/ User(p) \/ Disturbance(p) PROVE WorkRecoverable'
  <2>1. Untouched \/ Using(p) \/ Opening(p) \/ Applying(p) \/ Closing(p)
    BY <1>0, <1>1, ProgressUse, OtherUse
  <2>2. CASE Untouched \/ Applying(p)
    BY <2>2 DEF Untouched, Applying, WorkRecoverable, StepsRan
  <2>3. CASE Opening(p)
    BY <2>3 DEF Opening, WorkRecoverable
  <2>4. CASE Using(p)
    BY <2>4 DEF Using, WorkRecoverable, WorktreeHeld
  <2>5. CASE Closing(p)
    BY <2>5 DEF Closing, WorkRecoverable, WorktreeHeld, StepsRan
  <2> QED BY <2>1, <2>2, <2>3, <2>4, <2>5
<1>2. CASE Reconcile \/ PidRecycled \/ RemoveWorktree \/ UNCHANGED vars
  <2>1. wtDir' = wtDir
    BY <1>2 DEF Reconcile, PidRecycled, RemoveWorktree, vars, world
  <2> QED BY <1>2, <2>1, OutsideMoves DEF WorkRecoverable, StepsRan
<1> QED BY <1>1, <1>2 DEF Next

LEMMA WorkInit == Init => WorktreeHeld /\ WorkRecoverable
BY DrivingLabels DEF Init, WorktreeHeld, InWorktree, WorkRecoverable, StepsRan

(* What the steps did is in the worktree, in the persisted diff or in the   *)
(* main repository, whatever ends the driver, as long as git works and the  *)
(* user does not remove the worktree.                                       *)
THEOREM WorkIsNotLost ==
    ASSUME Exclusive, ~Fault("remove"), ~Fault("git")
    PROVE  Spec => []WorkRecoverable
<1>1. IInv /\ Alone /\ WorktreeHeld /\ [Next]_vars => WorktreeHeld'
  BY WorktreeHeldStep
<1>2. IInv /\ WorktreeHeld /\ WorkRecoverable /\ [Next]_vars => WorkRecoverable'
  BY WorkRecoverableStep
<1> QED BY <1>1, <1>2, WorkInit, OneDriver, EngineInvariant, PTL DEF Spec

----------------------------------------------------------------------------
(* The commits of a driver that is alone.                                   *)

LEMMA SoloFacts ==
    ASSUME SoloIInv
    PROVE  /\ TypeOK /\ row \in Row /\ row.tree \in Tree /\ row.rev \in Nat
           /\ pc \in [Procs -> PCs] /\ ending \in [Procs -> Ending]
           /\ inflight \in [Procs -> Steps \cup {0}]
           /\ ran \in [Steps -> SUBSET Nat]
           /\ InOrder(row.tree)
           /\ \A p \in Procs : MayCommit(p) => /\ Saved(p) /\ mem[p].tree = row.tree
                                               /\ mem[p].rev = row.rev
BY InOrderIsStepsInOrder DEF SoloIInv, IInv, TypeOK, Row, NoForeignTree, NeverRefused, Saved

LEMMA SoloCommit ==
    ASSUME SoloIInv, NEW p \in Procs, MayCommit(p), NEW tree \in Tree,
           NEW status \in SavedStatus, Commit(p, tree, status)
    PROVE  /\ row'.tree = tree /\ row'.rev = row.rev + 1 /\ row'.owner = row.owner
           /\ row'.status = IF status = Unchanged THEN row.status ELSE status
           /\ row'.worktreeId = (row.worktreeId \/ opts.worktree)
           /\ mem'[p].rev = row.rev + 1
<1>1. Saved(p) /\ row \in Row /\ mem[p].rev = row.rev
  BY SoloFacts
<1>2. row' = [row EXCEPT !.tree = tree, !.rev = mem[p].rev + 1,
                         !.status = IF status = Unchanged THEN @ ELSE status,
                         !.worktreeId = @ \/ opts.worktree]
  BY <1>1 DEF Commit
<1>3. /\ row'.tree = tree /\ row'.rev = mem[p].rev + 1 /\ row'.owner = row.owner
      /\ row'.status = IF status = Unchanged THEN row.status ELSE status
      /\ row'.worktreeId = (row.worktreeId \/ opts.worktree)
  BY <1>1, <1>2 DEF Row
<1>4. mem'[p].rev = mem[p].rev + 1
  BY <1>1, SoloFacts DEF Commit, TypeOK
<1> QED BY <1>1, <1>3, <1>4

(* The run goes on, or has just failed: the row is not paused.              *)
Going == row'.status # "PAUSED" /\ row'.status \in {row.status, "RUNNING"}

(* A driver gives the next leaf another state: an open attempt, a passed    *)
(* step, a question to the user, or the failure of the run.                 *)
Works(p, s, leaf) ==
    /\ pc[p] \in {"drive", "exec", "prompt"} /\ Upcoming(row.tree, s)
    /\ row'.tree = [row.tree EXCEPT ![s] = leaf] /\ row'.rev = row.rev + 1
    /\ row'.owner = row.owner /\ mem'[p].rev = row'.rev
    /\ inflight'[p] = s
    /\ UNCHANGED <<wtDir, diff, applied, opts>>
    /\ \A r \in Steps : ran[r] \subseteq ran'[r]
    /\ leaf.state # "RUNNING" => ran'[s] # {}
    /\ \/ leaf.state \in {"RUNNING"} \cup Passing /\ Going /\ Goto(p, "drive")
       \/ /\ leaf.state = "PAUSED" /\ leaf.result = "failed"
          /\ row'.status = "PAUSED" /\ row'.worktreeId = (row.worktreeId \/ opts.worktree)
          /\ pc[p] # "prompt" /\ Goto(p, "prompt")
       \/ /\ leaf.state = "FAILED" /\ Going
          /\ Goto(p, "close") /\ ending'[p].outcome = "FAILED"

(* The status a driver commits with its user's answer, or without one.      *)
GoingStatus(p) == IF pc[p] = "prompt" THEN "RUNNING" ELSE Unchanged

LEMMA GoingCommit ==
    ASSUME SoloIInv, NEW p \in Procs, pc[p] \in {"drive", "exec", "prompt"}, NEW tree \in Tree,
           Commit(p, tree, GoingStatus(p))
    PROVE  /\ row'.tree = tree /\ row'.rev = row.rev + 1 /\ row'.owner = row.owner
           /\ mem'[p].rev = row'.rev /\ Going
<1>1. MayCommit(p) /\ GoingStatus(p) \in SavedStatus
  BY DEF MayCommit, GoingStatus, SavedStatus
<1>2. pc[p] # "prompt" => row.status # "PAUSED"
  BY DEF SoloIInv, StatusFits, Working
<1>3. row.status \in RunStatus \cup {"ABSENT"}
  BY SoloFacts DEF Row
<1> QED BY <1>1, <1>2, <1>3, SoloCommit DEF Going, GoingStatus, Unchanged, RunStatus

(* What a commit of the next leaf leaves as it was.                         *)
Beside(p, s) ==
    /\ inflight'[p] = s
    /\ UNCHANGED <<wtDir, diff, applied, opts>>
    /\ \A r \in Steps : ran[r] \subseteq ran'[r]

LEMMA GoesOn ==
    ASSUME SoloIInv, NEW p \in Procs, pc[p] \in {"drive", "exec", "prompt"},
           NEW s \in Steps, NEW leaf \in Leaf, Upcoming(row.tree, s), Beside(p, s),
           leaf.state \in {"RUNNING"} \cup Passing, leaf.state # "RUNNING" => ran'[s] # {},
           CommitThen(p, [mem[p].tree EXCEPT ![s] = leaf], GoingStatus(p), "drive")
    PROVE  Works(p, s, leaf)
<1>1. MayCommit(p)
  BY DEF MayCommit
<1>2. /\ Commit(p, [row.tree EXCEPT ![s] = leaf], GoingStatus(p)) /\ Goto(p, "drive")
      /\ [row.tree EXCEPT ![s] = leaf] \in Tree
  BY <1>1, SoloFacts DEF CommitThen, Tree
<1>3. /\ row'.tree = [row.tree EXCEPT ![s] = leaf] /\ row'.rev = row.rev + 1
      /\ row'.owner = row.owner /\ mem'[p].rev = row'.rev /\ Going
  BY <1>2, GoingCommit
<1> QED BY <1>2, <1>3 DEF Works, Beside

LEMMA GivesUp ==
    ASSUME SoloIInv, NEW p \in Procs, pc[p] \in {"drive", "exec", "prompt"},
           NEW s \in Steps, NEW leaf \in Leaf, Upcoming(row.tree, s), Beside(p, s),
           leaf.state = "FAILED", ran'[s] # {},
           CommitFailed(p, [mem[p].tree EXCEPT ![s] = leaf], GoingStatus(p))
    PROVE  Works(p, s, leaf)
<1>1. MayCommit(p)
  BY DEF MayCommit
<1>2. /\ Commit(p, [row.tree EXCEPT ![s] = leaf], GoingStatus(p)) /\ Conclude(p, "FAILED")
      /\ [row.tree EXCEPT ![s] = leaf] \in Tree
  BY <1>1, SoloFacts DEF CommitFailed, Tree
<1>3. /\ row'.tree = [row.tree EXCEPT ![s] = leaf] /\ row'.rev = row.rev + 1
      /\ row'.owner = row.owner /\ mem'[p].rev = row'.rev /\ Going
  BY <1>2, GoingCommit
<1>4. Goto(p, "close") /\ ending'[p].outcome = "FAILED"
  BY <1>2, SoloFacts DEF Conclude, NoEnding
<1> QED BY <1>3, <1>4 DEF Works, Beside

LEMMA Asks ==
    ASSUME SoloIInv, NEW p \in Procs, pc[p] \in {"drive", "exec"},
           NEW s \in Steps, NEW leaf \in Leaf, Upcoming(row.tree, s), Beside(p, s),
           leaf.state = "PAUSED", leaf.result = "failed", ran'[s] # {},
           CommitThen(p, [mem[p].tree EXCEPT ![s] = leaf], "PAUSED", "prompt")
    PROVE  Works(p, s, leaf)
<1>1. MayCommit(p) /\ "PAUSED" \in SavedStatus /\ "PAUSED" # Unchanged
  BY DEF MayCommit, SavedStatus, Unchanged
<1>2. /\ Commit(p, [row.tree EXCEPT ![s] = leaf], "PAUSED") /\ Goto(p, "prompt")
      /\ [row.tree EXCEPT ![s] = leaf] \in Tree
  BY <1>1, SoloFacts DEF CommitThen, Tree
<1>3. /\ row'.tree = [row.tree EXCEPT ![s] = leaf] /\ row'.rev = row.rev + 1
      /\ row'.owner = row.owner /\ mem'[p].rev = row.rev + 1 /\ row'.status = "PAUSED"
      /\ row'.worktreeId = (row.worktreeId \/ opts.worktree)
  BY <1>1, <1>2, SoloCommit
<1> QED BY <1>2, <1>3 DEF Works, Beside

(* The failure gate, after an attempt or when a paused leaf is met again.   *)
LEMMA GateWorks ==
    ASSUME SoloIInv, NEW p \in Procs, pc[p] \in {"drive", "exec"},
           NEW s \in Steps, NEW n \in Nat, Upcoming(row.tree, s), Beside(p, s), ran'[s] # {},
           FailureGate(p, s, n)
    PROVE  \E leaf \in Leaf : Works(p, s, leaf)
<1>0. mem[p].tree[s] \in Leaf /\ mem[p].tree[s] = row.tree[s] /\ GoingStatus(p) = Unchanged
  BY SoloFacts, NextNumbers DEF MayCommit, GoingStatus
<1>1. \A state \in NodeStates, result \in {"ignored", "failed"} :
        LET leaf == Settled(mem[p].tree[s], state, n, result)
        IN  leaf \in Leaf /\ leaf.state = state /\ leaf.result = result
  BY <1>0 DEF Settled, Leaf
<1>2. \A state, result : WithLeaf(p, s, state, n, result)
                         = [mem[p].tree EXCEPT ![s] = Settled(mem[p].tree[s], state, n, result)]
  BY <1>0, SoloFacts, NextNumbers DEF WithLeaf, Tree
<1>3. CASE CommitThen(p, WithLeaf(p, s, "IGNORED", n, "ignored"), Unchanged, "drive")
  <2> DEFINE leaf == Settled(mem[p].tree[s], "IGNORED", n, "ignored")
  <2>1. leaf \in Leaf /\ leaf.state = "IGNORED"
    BY <1>1 DEF NodeStates
  <2>2. CommitThen(p, [mem[p].tree EXCEPT ![s] = leaf], GoingStatus(p), "drive")
    BY <1>0, <1>2, <1>3
  <2> HIDE DEF leaf
  <2> QED BY <2>1, <2>2, GoesOn DEF Passing
<1>4. CASE CommitThen(p, WithLeaf(p, s, "PAUSED", n, "failed"), "PAUSED", "prompt")
  <2> DEFINE leaf == Settled(mem[p].tree[s], "PAUSED", n, "failed")
  <2>1. leaf \in Leaf /\ leaf.state = "PAUSED" /\ leaf.result = "failed"
    BY <1>1 DEF NodeStates
  <2>2. CommitThen(p, [mem[p].tree EXCEPT ![s] = leaf], "PAUSED", "prompt")
    BY <1>2, <1>4
  <2> HIDE DEF leaf
  <2> QED BY <2>1, <2>2, Asks
<1>5. CASE CommitFailed(p, WithLeaf(p, s, "FAILED", n, "failed"), Unchanged)
  <2> DEFINE leaf == Settled(mem[p].tree[s], "FAILED", n, "failed")
  <2>1. leaf \in Leaf /\ leaf.state = "FAILED"
    BY <1>1 DEF NodeStates
  <2>2. CommitFailed(p, [mem[p].tree EXCEPT ![s] = leaf], GoingStatus(p))
    BY <1>0, <1>2, <1>5
  <2> HIDE DEF leaf
  <2> QED BY <2>1, <2>2, GivesUp
<1> QED BY <1>3, <1>4, <1>5 DEF FailureGate

(* A leaf in hand, and what an attempt leaves of the history.               *)
LEMMA InHand ==
    ASSUME SoloIInv, NEW p \in Procs, NEW s \in Steps, inflight[p] = s, pc[p] \in {"exec", "prompt"}
    PROVE  /\ Upcoming(row.tree, s) /\ mem[p].tree = row.tree
           /\ pc[p] = "prompt" => row.tree[s].state = "PAUSED" /\ ran[s] # {}
<1>1. MayCommit(p) /\ 0 \notin Steps
  BY DEF MayCommit, Steps
<1>2. mem[p].tree = row.tree
  BY <1>1, SoloFacts
<1>3. Upcoming(row.tree, s) /\ (pc[p] = "prompt" => row.tree[s].state = "PAUSED")
  BY <1>1, <1>2 DEF SoloIInv, IInv, LeafInHand
<1>4. row.tree[s].state = "PAUSED" => ran[s] # {}
  BY DEF SoloIInv, StatusFits
<1> QED BY <1>2, <1>3, <1>4

LEMMA UsedGrows ==
    ASSUME SoloIInv, NEW s \in Steps, NEW first \in Nat, NEW last \in Nat, first <= last,
           Used(s, first, last)
    PROVE  (\A r \in Steps : ran[r] \subseteq ran'[r]) /\ ran'[s] # {}
<1>1. ran \in [Steps -> SUBSET Nat] /\ first \in first..last
  BY SoloFacts
<1> QED BY <1>1 DEF Used

LEMMA UsedUpGrows ==
    ASSUME SoloIInv, NEW p \in Procs, NEW s \in Steps, UsedUp(p, s)
    PROVE  (\A r \in Steps : ran[r] \subseteq ran'[r]) /\ ran'[s] # {}
<1>1. mem[p].tree[s].attempt \in Nat /\ mem[p].tree[s].attempt + Budget[s] - 1 \in Nat
  BY SoloFacts, NextNumbers
<1>2. Budget[s] \in Nat /\ Budget[s] >= 1
  BY StepsAssumption
<1>3. mem[p].tree[s].attempt <= mem[p].tree[s].attempt + Budget[s] - 1
  BY <1>1, <1>2
<1> QED BY <1>1, <1>3, UsedGrows DEF UsedUp

LEMMA AttemptWorks ==
    ASSUME SoloIInv, NEW p \in Procs, NEW s \in Steps,
           \/ AttemptIgnored(p, s) \/ AttemptFails(p, s) \/ \E n \in Nat : AttemptPasses(p, s, n)
    PROVE  \E leaf \in Leaf : Works(p, s, leaf)
<1>0. /\ pc[p] = "exec" /\ inflight[p] = s /\ UNCHANGED <<inflight, wtDir, diff, applied, opts>>
      /\ GoingStatus(p) = Unchanged
  BY DEF AttemptIgnored, AttemptFails, AttemptPasses, GoingStatus
<1>1. Upcoming(row.tree, s) /\ mem[p].tree = row.tree
  BY <1>0, InHand
<1>2. /\ mem[p].tree \in Tree /\ mem[p].tree[s] \in Leaf /\ mem[p].tree[s].attempt \in Nat
      /\ LastAttempt(p, s) \in Nat
  BY SoloFacts, NextNumbers
<1>3. \A n \in Nat, state \in Passing, result \in {"completed", "ignored"} :
        LET leaf == Settled(mem[p].tree[s], state, n, result)
        IN  leaf \in Leaf /\ leaf.state = state
  BY <1>2 DEF Settled, Leaf, Passing, NodeStates
<1>4. CASE AttemptIgnored(p, s)
  <2> DEFINE leaf == Settled(mem[p].tree[s], "IGNORED", LastAttempt(p, s), "ignored")
  <2>1. leaf \in Leaf /\ leaf.state \in Passing
    BY <1>2, <1>3 DEF Passing
  <2>2. CommitThen(p, [mem[p].tree EXCEPT ![s] = leaf], GoingStatus(p), "drive")
    BY <1>0, <1>2, <1>4 DEF AttemptIgnored, Tree
  <2>3. Beside(p, s) /\ ran'[s] # {}
    BY <1>0, <1>4, UsedUpGrows DEF AttemptIgnored, Beside
  <2> HIDE DEF leaf
  <2> QED BY <1>0, <1>1, <2>1, <2>2, <2>3, GoesOn
<1>5. CASE AttemptFails(p, s)
  <2>1. Beside(p, s) /\ ran'[s] # {}
    BY <1>0, <1>5, UsedUpGrows DEF AttemptFails, Beside
  <2> QED BY <1>0, <1>1, <1>2, <1>5, <2>1, GateWorks DEF AttemptFails
<1>6. ASSUME NEW n \in Nat, AttemptPasses(p, s, n) PROVE \E leaf \in Leaf : Works(p, s, leaf)
  <2> DEFINE leaf == Settled(mem[p].tree[s], "COMPLETED", n, "completed")
  <2>1. leaf \in Leaf /\ leaf.state \in Passing
    BY <1>3 DEF Passing
  <2>2. CommitThen(p, [mem[p].tree EXCEPT ![s] = leaf], GoingStatus(p), "drive")
    BY <1>0, <1>2, <1>6 DEF AttemptPasses, Tree
  <2>3. mem[p].tree[s].attempt <= n
    <3>1. n - mem[p].tree[s].attempt \in 0..(Budget[s] - 1)
      BY <1>6 DEF AttemptPasses
    <3>2. Budget[s] \in Nat
      BY StepsAssumption
    <3> QED BY <1>2, <3>1, <3>2
  <2>4. Beside(p, s) /\ ran'[s] # {}
    BY <1>0, <1>2, <1>6, <2>3, UsedGrows DEF AttemptPasses, Beside
  <2> HIDE DEF leaf
  <2> QED BY <1>0, <1>1, <2>1, <2>2, <2>4, GoesOn
<1> QED BY <1>4, <1>5, <1>6

LEMMA DriveWorks ==
    ASSUME SoloIInv, NEW p \in Procs, NEW s \in Steps, BeginAttempt(p, s) \/ ReenterGate(p, s)
    PROVE  \E leaf \in Leaf : Works(p, s, leaf)
<1>0. /\ pc[p] = "drive" /\ MayCommit(p) /\ UNCHANGED <<wtDir, diff, applied, opts, ran>>
      /\ inflight' = [inflight EXCEPT ![p] = s] /\ GoingStatus(p) = Unchanged
  BY DEF BeginAttempt, ReenterGate, GoingStatus, MayCommit, world
<1>1. mem[p].tree = row.tree /\ Upcoming(row.tree, s)
  BY <1>0, SoloFacts DEF BeginAttempt, ReenterGate
<1>2. mem[p].tree \in Tree /\ mem[p].tree[s] \in Leaf /\ mem[p].tree[s].attempt \in Nat
  BY SoloFacts, NextNumbers
<1>3. Beside(p, s)
  BY <1>0, SoloFacts DEF Beside
<1>4. CASE BeginAttempt(p, s)
  <2> DEFINE leaf == Opened(mem[p].tree[s], 1)
  <2>1. leaf \in Leaf /\ leaf.state = "RUNNING"
    BY <1>2, OpenedLeaf
  <2>2. CommitThen(p, [mem[p].tree EXCEPT ![s] = leaf], GoingStatus(p), "drive")
    BY <1>0, <1>2, <1>4 DEF BeginAttempt, Tree
  <2> HIDE DEF leaf
  <2> QED BY <1>0, <1>1, <1>3, <2>1, <2>2, GoesOn
<1>5. CASE ReenterGate(p, s)
  <2>1. row.tree[s].state = "PAUSED"
    BY <1>1, <1>5 DEF ReenterGate
  <2>2. ran'[s] # {}
    BY <1>0, <2>1 DEF SoloIInv, StatusFits
  <2> QED BY <1>0, <1>1, <1>2, <1>3, <1>5, <2>2, GateWorks DEF ReenterGate
<1> QED BY <1>4, <1>5

LEMMA AnswerWorks ==
    ASSUME SoloIInv, NEW p \in Procs, NEW s \in Steps,
           PromptRetry(p, s) \/ PromptContinue(p, s) \/ PromptAbort(p, s)
    PROVE  \E leaf \in Leaf : Works(p, s, leaf)
<1>0. /\ pc[p] = "prompt" /\ inflight[p] = s /\ UNCHANGED <<inflight, wtDir, diff, applied, opts, ran>>
      /\ GoingStatus(p) = "RUNNING"
  BY DEF PromptRetry, PromptContinue, PromptAbort, GoingStatus, world
<1>1. Upcoming(row.tree, s) /\ mem[p].tree = row.tree /\ ran'[s] # {} /\ Beside(p, s)
  BY <1>0, InHand DEF Beside
<1>2. /\ mem[p].tree \in Tree /\ mem[p].tree[s] \in Leaf /\ mem[p].tree[s].attempt \in Nat
      /\ NextAttempt(mem[p].tree[s]) \in Nat
  BY SoloFacts, NextNumbers
<1>3. CASE PromptRetry(p, s)
  <2> DEFINE leaf == Opened(mem[p].tree[s], NextAttempt(mem[p].tree[s]))
  <2>1. leaf \in Leaf /\ leaf.state = "RUNNING"
    BY <1>2, OpenedLeaf
  <2>2. CommitThen(p, [mem[p].tree EXCEPT ![s] = leaf], GoingStatus(p), "drive")
    BY <1>0, <1>2, <1>3 DEF PromptRetry, Tree
  <2> HIDE DEF leaf
  <2> QED BY <1>0, <1>1, <2>1, <2>2, GoesOn
<1>4. CASE PromptContinue(p, s)
  <2> DEFINE leaf == Settled(mem[p].tree[s], "IGNORED", mem[p].tree[s].attempt, "ignored")
  <2>1. leaf \in Leaf /\ leaf.state \in Passing
    BY <1>2 DEF Settled, Leaf, Passing, NodeStates
  <2>2. CommitThen(p, [mem[p].tree EXCEPT ![s] = leaf], GoingStatus(p), "drive")
    BY <1>0, <1>2, <1>4 DEF PromptContinue, Tree
  <2> HIDE DEF leaf
  <2> QED BY <1>0, <1>1, <2>1, <2>2, GoesOn
<1>5. CASE PromptAbort(p, s)
  <2> DEFINE leaf == Settled(mem[p].tree[s], "FAILED", mem[p].tree[s].attempt, "failed")
  <2>1. leaf \in Leaf /\ leaf.state = "FAILED"
    BY <1>2 DEF Settled, Leaf, NodeStates
  <2>2. CommitFailed(p, [mem[p].tree EXCEPT ![s] = leaf], GoingStatus(p))
    BY <1>0, <1>2, <1>5 DEF PromptAbort, Tree
  <2> HIDE DEF leaf
  <2> QED BY <1>0, <1>1, <2>1, <2>2, GivesUp
<1> QED BY <1>3, <1>4, <1>5

----------------------------------------------------------------------------
(* A driver that is alone: its commits are accepted and what the row says   *)
(* fits what the driver does and reports.                                   *)

(* What a leaf that ended or paused leaves behind it.                       *)
LeafKnown(s) ==
    /\ row.tree[s].state \in Passing \cup {"PAUSED"} => ran[s] # {}
    /\ row.tree[s].state = "PAUSED" => row.tree[s].result # "none"

(* The parts of the invariant that are about one process.                   *)
DriverFits(p) ==
    /\ MayCommit(p) => Saved(p)
    /\ Working(p) /\ Reporting(p)
    /\ Alive(p) => row.status # "COMPLETED"

(* ... and the ones about the row.                                          *)
RowFits ==
    /\ row.status = "PAUSED" =>
          ~HasStopped(row.tree) /\ \E s \in Steps : row.tree[s].state = "PAUSED"
    /\ \A s \in Steps : LeafKnown(s)
    /\ EndingMeansIt

Fits == (\A p \in Procs : DriverFits(p)) /\ RowFits

LEMMA FitsParts == NeverRefused /\ StatusFits /\ EndingMeansIt <=> Fits
BY DEF NeverRefused, StatusFits, Fits, DriverFits, RowFits, LeafKnown, LiveDriver, Alive

LEMMA IdleFits ==
    ASSUME NEW p \in Procs, pc[p] \notin Driving
    PROVE  DriverFits(p)
BY DrivingLabels DEF DriverFits, MayCommit, Working, Reporting, Alive

(* A step that leaves the row alone, and the process it is a step of.       *)
LEMMA RowKept ==
    ASSUME Fits, row' = row, opts' = opts, applied => applied',
           \A s \in Steps : ran[s] \subseteq ran'[s]
    PROVE  RowFits'
<1>1. \A s \in Steps : LeafKnown(s)'
  BY DEF Fits, RowFits, LeafKnown
<1>2. CompletedMeansDone'
  <2>1. \A s \in Steps : ran[s] # {} => ran'[s] # {}
    OBVIOUS
  <2> QED BY <2>1 DEF Fits, RowFits, EndingMeansIt, CompletedMeansDone, WantsApply
<1> QED BY <1>1, <1>2 DEF Fits, RowFits, EndingMeansIt, FailedStopsRun

(* With one driver the next leaf is the last one touched.                   *)
LEMMA Untried ==
    ASSUME SoloIInv, NEW s \in Steps, ~Ended(row.tree[s])
    PROVE  \A r \in Steps : s < r => row.tree[r].state = "PENDING"
BY SoloFacts DEF InOrder

LEMMA SoloFits == SoloIInv => Fits /\ IInv /\ Alone
BY FitsParts DEF SoloIInv

(* Nobody but p moves or drives.                                            *)
Elsewhere(p) == \A q \in Procs \ {p} : pc[q] \notin Driving /\ pc'[q] = pc[q]

LEMMA OthersFit ==
    ASSUME NEW p \in Procs, Elsewhere(p), DriverFits(p)'
    PROVE  \A q \in Procs : DriverFits(q)'
<1> SUFFICES ASSUME NEW q \in Procs \ {p} PROVE DriverFits(q)'
  OBVIOUS
<1>1. pc'[q] \notin Driving
  BY DEF Elsewhere
<1> QED BY <1>1, DrivingLabels DEF DriverFits, MayCommit, Working, Reporting, Alive

LEMMA WorksFits ==
    ASSUME SoloIInv, NEW p \in Procs, Elsewhere(p), NEW s \in Steps, NEW leaf \in Leaf,
           Works(p, s, leaf)
    PROVE  Fits'
<1>0. /\ DriverFits(p) /\ RowFits /\ pc[p] \in Driving /\ pc[p] # "apply"
      /\ row.tree \in Tree /\ pc \in [Procs -> PCs] /\ s \in Int
  BY SoloFits, SoloFacts, DrivingLabels DEF Fits, Works, Steps
<1>1. /\ row'.tree = [row.tree EXCEPT ![s] = leaf] /\ inflight'[p] = s /\ mem'[p].rev = row'.rev
      /\ row'.tree[s] = leaf /\ \A r \in Steps \ {s} : row'.tree[r] = row.tree[r]
  BY <1>0 DEF Works, Tree
<1>2. ~HasStopped(row.tree)
  BY <1>0 DEF Works, DriverFits, Working, RowFits
<1>3. \A r \in Steps : s < r => row.tree[r].state = "PENDING" /\ row'.tree[r].state = "PENDING"
  <2>1. \A r \in Steps : s < r => row.tree[r].state = "PENDING"
    BY Untried DEF Works, Upcoming
  <2>2. \A r \in Steps : s < r => r # s
    BY <1>0 DEF Steps
  <2> QED BY <1>1, <2>1, <2>2
<1>4. leaf.state \notin {"FAILED", "CANCELLED"} => ~HasStopped(row'.tree)
  BY <1>1, <1>2 DEF HasStopped
<1>5. row.status # "COMPLETED" /\ row'.status # "COMPLETED"
  <2>1. row.status # "COMPLETED"
    BY <1>0 DEF DriverFits, Alive
  <2> QED BY <2>1 DEF Works, Going
<1>6. /\ pc'[p] \in {"drive", "prompt", "close"}
      /\ pc'[p] = "drive" => leaf.state \in {"RUNNING"} \cup Passing /\ row'.status # "PAUSED"
      /\ pc'[p] = "prompt" => leaf.state = "PAUSED" /\ row'.status = "PAUSED"
      /\ pc'[p] = "close" => ending'[p].outcome = "FAILED" /\ row'.status # "PAUSED"
  BY <1>0 DEF Works, Going, Goto
<1>7. DriverFits(p)'
  <2>1. MayCommit(p)' => Saved(p)'
    BY <1>1 DEF Saved
  <2>2. Working(p)'
    BY <1>1, <1>3, <1>4, <1>6 DEF Working, Passing
  <2>3. Reporting(p)'
    BY <1>6 DEF Reporting
  <2> QED BY <1>5, <2>1, <2>2, <2>3 DEF DriverFits
<1>8. RowFits'
  <2>1. row'.status = "PAUSED" => leaf.state = "PAUSED"
    BY DEF Works, Going
  <2>2. \A r \in Steps : LeafKnown(r)'
    <3> SUFFICES ASSUME NEW r \in Steps PROVE LeafKnown(r)'
      OBVIOUS
    <3>1. ran[r] # {} => ran'[r] # {}
      BY DEF Works
    <3>2. CASE r = s
      BY <1>1, <3>2 DEF LeafKnown, Works, Passing
    <3>3. CASE r # s
      BY <1>0, <1>1, <3>1, <3>3 DEF LeafKnown, RowFits
    <3> QED BY <3>2, <3>3
  <2>3. FailedStopsRun'
    BY <1>0, <1>1, <1>2, <1>3 DEF FailedStopsRun, HasStopped
  <2>4. CompletedMeansDone'
    BY <1>5 DEF CompletedMeansDone
  <2>5. row'.status = "PAUSED" =>
          ~HasStopped(row'.tree) /\ \E r \in Steps : row'.tree[r].state = "PAUSED"
    BY <1>1, <1>4, <2>1
  <2> QED BY <2>2, <2>3, <2>4, <2>5 DEF RowFits, EndingMeansIt
<1> QED BY <1>7, <1>8, OthersFit DEF Fits

(* The steps that leave the row alone.                                      *)
LEMMA OpenFits ==
    ASSUME SoloIInv, NEW p \in Procs, Elsewhere(p), OpenSession(p) \/ OpenFails(p) \/ LoadFails(p)
    PROVE  Fits'
<1>0. /\ Fits /\ DriverFits(p) /\ row' = row /\ UNCHANGED <<opts, applied, ran>>
      /\ pc \in [Procs -> PCs] /\ ending \in [Procs -> Ending] /\ pc[p] \in {"open", "load"}
  BY SoloFits, SoloFacts DEF Fits, OpenSession, OpenFails, LoadFails, world
<1>1. RowFits'
  BY <1>0, RowKept
<1>2. /\ row.status # "PAUSED" /\ row.status # "COMPLETED" /\ ~HasStopped(row.tree)
      /\ \A s \in Steps : row.tree[s].state # "RUNNING"
  BY <1>0, DrivingLabels DEF DriverFits, Working, Alive
<1>3. \/ pc'[p] = "load"
      \/ pc'[p] \in {"close", "finish"} /\ ending'[p].outcome = "FAILED"
  <2>1. OpenSession(p) => pc'[p] = "load"
    BY <1>0 DEF OpenSession, Goto
  <2>2. OpenFails(p) => pc'[p] = "finish" /\ ending'[p].outcome = "FAILED"
    BY <1>0 DEF OpenFails, Goto, NoEnding
  <2>3. LoadFails(p) => pc'[p] = "close" /\ ending'[p].outcome = "FAILED"
    BY <1>0 DEF LoadFails, Conclude, Goto, NoEnding
  <2> QED BY <2>1, <2>2, <2>3
<1>4. DriverFits(p)'
  BY <1>0, <1>2, <1>3 DEF DriverFits, MayCommit, Working, Reporting
<1> QED BY <1>1, <1>4, OthersFit DEF Fits

LEMMA LoadFits ==
    ASSUME SoloIInv, NEW p \in Procs, Elsewhere(p), LoadState(p)
    PROVE  Fits'
<1>0. /\ Fits /\ DriverFits(p) /\ row' = row /\ UNCHANGED <<opts, applied, ran>>
      /\ TypeOK /\ pc[p] = "load"
  BY SoloFits, SoloFacts DEF Fits, LoadState, world
<1>1. RowFits'
  BY <1>0, RowKept
<1>2. /\ row.status # "PAUSED" /\ row.status # "COMPLETED" /\ ~HasStopped(row.tree)
      /\ \A s \in Steps : row.tree[s].state # "RUNNING"
  BY <1>0, DrivingLabels DEF DriverFits, Working, Alive
<1>3. pc'[p] = "drive" /\ mem'[p].rev = row.rev /\ inflight'[p] = 0 /\ 0 \notin Steps
  BY <1>0, <1>2 DEF LoadState, Goto, Interrupted, TypeOK, Steps
<1>4. DriverFits(p)'
  BY <1>0, <1>2, <1>3 DEF DriverFits, MayCommit, Saved, Working, Reporting
<1> QED BY <1>1, <1>4, OthersFit DEF Fits

LEMMA StartFits ==
    ASSUME SoloIInv, NEW p \in Procs, Elsewhere(p), NEW s \in Steps, StartAttempt(p, s)
    PROVE  Fits'
<1>0. /\ Fits /\ DriverFits(p) /\ UNCHANGED <<row, mem, opts, applied>>
      /\ TypeOK /\ pc[p] = "drive" /\ MayCommit(p)
  BY SoloFits, SoloFacts DEF Fits, StartAttempt, MayCommit
<1>1. \A r \in Steps : ran[r] \subseteq ran'[r]
  BY <1>0 DEF StartAttempt, TypeOK
<1>2. RowFits'
  BY <1>0, <1>1, RowKept
<1>3. /\ row.status # "PAUSED" /\ row.status # "COMPLETED" /\ ~HasStopped(row.tree)
      /\ mem[p].rev = row.rev /\ mem[p].tree = row.tree
  BY <1>0, SoloFacts, DrivingLabels DEF DriverFits, Working, Alive
<1>4. pc'[p] = "exec" /\ inflight'[p] = s
  BY <1>0 DEF StartAttempt, Goto, TypeOK
<1>5. \A r \in Steps : s < r => row.tree[r].state = "PENDING"
  BY <1>3, Untried DEF StartAttempt, Upcoming
<1>6. DriverFits(p)'
  BY <1>0, <1>3, <1>4, <1>5 DEF DriverFits, MayCommit, Saved, Working, Reporting
<1> QED BY <1>2, <1>6, OthersFit DEF Fits

LEMMA EndFits ==
    ASSUME SoloIInv, NEW p \in Procs, Elsewhere(p), NothingLeft(p) \/ AutoApply(p) \/ LeavePrompt(p)
    PROVE  Fits'
<1>0. /\ Fits /\ DriverFits(p) /\ UNCHANGED <<row, mem, inflight, opts, ran>>
      /\ pc \in [Procs -> PCs] /\ ending \in [Procs -> Ending] /\ pc[p] \in {"drive", "apply", "prompt"}
      /\ row.tree \in Tree
  BY SoloFits, SoloFacts DEF Fits, NothingLeft, AutoApply, LeavePrompt, world
<1>1. RowFits'
  BY <1>0, RowKept DEF NothingLeft, AutoApply, LeavePrompt, world
<1>2. row.status # "COMPLETED"
  BY <1>0, DrivingLabels DEF DriverFits, Alive
<1>3. ASSUME NothingLeft(p) PROVE DriverFits(p)'
  <2>1. /\ row.status # "PAUSED" /\ ~HasStopped(row.tree)
        /\ \A s \in Steps : Ended(row.tree[s])
    BY <1>0, <1>3, SoloFacts DEF NothingLeft, MayCommit, DriverFits, Working
  <2>2. AllPassed(row.tree)
    BY <2>1 DEF HasStopped, AllPassed, Ended, Terminal, Passing
  <2>3. pc'[p] = "apply" /\ ending'[p].outcome = "COMPLETED"
    BY <1>0, <1>3 DEF NothingLeft, Conclude, Goto, NoEnding
  <2> QED BY <1>0, <1>2, <2>1, <2>2, <2>3 DEF DriverFits, MayCommit, Working, Reporting
<1>4. ASSUME AutoApply(p) PROVE DriverFits(p)'
  <2>1. /\ row.status # "PAUSED" /\ AllPassed(row.tree) /\ ending[p].outcome = "COMPLETED"
        /\ pc'[p] = "close"
    BY <1>0, <1>4 DEF AutoApply, DriverFits, Working, Goto
  <2>2. \/ ending' = ending /\ (WantsApply => applied')
        \/ ending'[p].outcome = "FAILED"
    BY <1>0, <1>4 DEF AutoApply, Ending
  <2>3. WantsApply' = WantsApply
    BY <1>0 DEF WantsApply
  <2>4. Reporting(p)'
    BY <1>0, <2>1, <2>2, <2>3 DEF Reporting
  <2> QED BY <1>0, <1>2, <2>1, <2>4 DEF DriverFits, MayCommit, Working
<1>5. ASSUME LeavePrompt(p) PROVE DriverFits(p)'
  <2>1. row.status = "PAUSED" /\ pc'[p] = "close" /\ ending'[p].outcome = "PAUSED"
    BY <1>0, <1>5 DEF LeavePrompt, DriverFits, Working, Conclude, Goto, NoEnding
  <2> QED BY <1>0, <2>1 DEF DriverFits, MayCommit, Working, Reporting
<1>6. DriverFits(p)'
  BY <1>3, <1>4, <1>5
<1> QED BY <1>1, <1>6, OthersFit DEF Fits

LEMMA CloseFits ==
    ASSUME SoloIInv, NEW p \in Procs, Elsewhere(p),
           Close(p) \/ CloseUnwinding(p) \/ Die(p) \/ Unwind(p)
    PROVE  Fits'
<1>0. /\ Fits /\ DriverFits(p) /\ UNCHANGED <<row, mem, inflight, applied, opts, ran>>
      /\ pc \in [Procs -> PCs] /\ ending \in [Procs -> Ending] /\ pc[p] \in Driving
  BY SoloFits, SoloFacts, DrivingLabels DEF Fits, Close, CloseUnwinding, Die, Unwind, world
<1>1. RowFits'
  BY <1>0, RowKept
<1>2. row.status # "COMPLETED"
  BY <1>0 DEF DriverFits, Alive
<1>3. ASSUME Close(p) PROVE DriverFits(p)'
  <2>1. pc'[p] = "finish" /\ pc[p] = "close" /\ ending'[p].outcome = ending[p].outcome
    BY <1>0, <1>3 DEF Close, Goto, Ending
  <2>2. WantsApply' = WantsApply
    BY <1>0 DEF WantsApply
  <2>3. Reporting(p)'
    BY <1>0, <2>1, <2>2 DEF DriverFits, Reporting
  <2> QED BY <1>0, <1>2, <2>1, <2>3 DEF DriverFits, MayCommit, Working
<1>4. ASSUME CloseUnwinding(p) \/ Die(p) \/ Unwind(p) PROVE DriverFits(p)'
  <2>1. pc'[p] \in {"unwind", "dead"}
    BY <1>0, <1>4 DEF CloseUnwinding, Die, Unwind, Goto
  <2> QED BY <1>0, <1>2, <2>1 DEF DriverFits, MayCommit, Working, Reporting
<1>5. DriverFits(p)'
  BY <1>3, <1>4
<1> QED BY <1>1, <1>5, OthersFit DEF Fits

(* The steps that start, resume, cancel and finish the run.                 *)
LEMMA PlanFits ==
    ASSUME IInv, pc[Runner] \in {"idle", "init"}
    PROVE  /\ row.status \in {"ABSENT", "RUNNING", "FAILED"} /\ row.tree = Plan
           /\ \A s \in Steps : Plan[s].state = "PENDING"
BY DEF IInv, NothingBeforeInit, Plan, Planned

LEMMA BeginFits ==
    ASSUME ~Fault("db"), SoloIInv, NEW p \in Procs, Elsewhere(p), InsertRow(p) \/ InitState(p)
    PROVE  Fits'
<1>0. IInv /\ TypeOK /\ p = Runner /\ pc[p] \in {"idle", "init"}
  BY SoloFits, SoloFacts DEF InsertRow, InitState, IInv, NothingBeforeInit
<1>1. /\ row.status \in {"ABSENT", "RUNNING", "FAILED"} /\ row.tree = Plan
      /\ \A s \in Steps : Plan[s].state = "PENDING"
  BY <1>0, PlanFits
<1>2. /\ row'.status \in {"ABSENT", "RUNNING", "FAILED"} /\ row'.tree = Plan
      /\ pc'[p] \in {"init", "open"}
  BY <1>0, <1>1, SoloFacts DEF InsertRow, InitState, Goto, NoRow, Row, TypeOK
<1>3. ~HasStopped(row'.tree) /\ \A s \in Steps : row'.tree[s].state = "PENDING"
  BY <1>1, <1>2 DEF HasStopped
<1>4. DriverFits(p)'
  BY <1>2, <1>3 DEF DriverFits, MayCommit, Working, Reporting
<1>5. RowFits'
  BY <1>2, <1>3
     DEF RowFits, LeafKnown, EndingMeansIt, CompletedMeansDone, FailedStopsRun, Passing
<1> QED BY <1>4, <1>5, OthersFit DEF Fits

LEMMA ResumeFits ==
    ASSUME ~Fault("db"), SoloIInv, NEW p \in Procs, Elsewhere(p), ResumeRun(p)
    PROVE  Fits'
<1>0. RowFits /\ TypeOK /\ row.status = "PAUSED" /\ row.tree \in Tree
  BY SoloFits, SoloFacts DEF ResumeRun, Resumable, Fits
<1>1. ~HasStopped(row.tree) /\ \E s \in Steps : row.tree[s].state = "PAUSED"
  BY <1>0 DEF RowFits
<1>2. \A s \in Steps : row.tree[s].state # "RUNNING"
  <2> SUFFICES ASSUME NEW s \in Steps, row.tree[s].state = "RUNNING" PROVE FALSE
    OBVIOUS
  <2>1. PICK r \in Steps : row.tree[r].state = "PAUSED"
    BY <1>1
  <2>2. ~Ended(row.tree[s]) /\ ~Ended(row.tree[r]) /\ r # s
    BY <2>1 DEF Ended, Terminal
  <2>3. s < r \/ r < s
    BY <2>2 DEF Steps
  <2> QED BY <2>1, <2>2, <2>3, Untried
<1>3. row'.status = "RUNNING" /\ row'.tree = row.tree /\ pc'[p] = "open"
  BY <1>0, SoloFacts DEF ResumeRun, Goto, TypeOK, Row
<1>4. DriverFits(p)'
  BY <1>1, <1>2, <1>3 DEF DriverFits, MayCommit, Working, Reporting, HasStopped
<1>5. RowFits'
  BY <1>0, <1>3
     DEF RowFits, LeafKnown, EndingMeansIt, CompletedMeansDone, FailedStopsRun, ResumeRun
<1> QED BY <1>4, <1>5, OthersFit DEF Fits

(* A cancellation relabels the leaf in hand, the last one that was touched. *)
LEMMA CancelFits ==
    ASSUME SoloIInv, NEW p \in Procs, Elsewhere(p), CancelRun(p)
    PROVE  Fits'
<1>0. /\ DriverFits(p) /\ RowFits /\ TypeOK /\ row.tree \in Tree
      /\ UNCHANGED <<opts, applied, ran>> /\ pc[p] \in {"drive", "exec"} /\ MayCommit(p)
  BY SoloFits, SoloFacts DEF Fits, CancelRun, world, DriverFits, Working, MayCommit
<1>1. row.status # "PAUSED" /\ row.status # "COMPLETED" /\ ~HasStopped(row.tree)
  BY <1>0, DrivingLabels DEF DriverFits, Working, Alive
<1>2. pc'[p] = "close" /\ ending'[p].outcome = "CANCELLED"
  BY <1>0, SoloFacts DEF CancelRun, Conclude, Goto, NoEnding
<1>3. CASE inflight[p] \notin Steps
  <2>1. row' = row
    BY <1>3 DEF CancelRun
  <2>2. DriverFits(p)'
    BY <1>1, <1>2, <2>1 DEF DriverFits, MayCommit, Working, Reporting
  <2> QED BY <1>0, <2>1, <2>2, RowKept, SoloFits, OthersFit DEF Fits
<1>4. CASE inflight[p] \in Steps
  <2> DEFINE s == inflight[p]
             leaf == [row.tree[s] EXCEPT !.state = "CANCELLED"]
  <2>1. /\ leaf \in Leaf /\ leaf.state = "CANCELLED" /\ s \in Steps
        /\ Commit(p, [row.tree EXCEPT ![s] = leaf], Unchanged)
        /\ Unchanged \in SavedStatus /\ [row.tree EXCEPT ![s] = leaf] \in Tree
    <3>1. mem[p].tree = row.tree
      BY <1>0, SoloFacts
    <3>2. row.tree[s] \in Leaf
      BY <1>0, <1>4 DEF Tree
    <3>3. Commit(p, [row.tree EXCEPT ![s].state = "CANCELLED"], Unchanged)
      BY <1>4, <3>1 DEF CancelRun
    <3>4. [row.tree EXCEPT ![s].state = "CANCELLED"] = [row.tree EXCEPT ![s] = leaf]
      BY <1>0, <1>4, <3>2 DEF Tree
    <3> QED BY <1>0, <1>4, <3>2, <3>3, <3>4 DEF Leaf, NodeStates, SavedStatus, Tree
  <2> HIDE DEF leaf
  <2>2. row'.tree = [row.tree EXCEPT ![s] = leaf] /\ row'.status = row.status
    BY <1>0, <2>1, SoloCommit
  <2>3. row'.tree[s].state = "CANCELLED" /\ \A r \in Steps \ {s} : row'.tree[r] = row.tree[r]
    BY <1>0, <2>1, <2>2 DEF Tree
  <2>4. \A r \in Steps : s < r => row.tree[r].state = "PENDING" /\ r # s
    BY <1>0, <2>1 DEF DriverFits, Working, Steps
  <2>5. DriverFits(p)'
    BY <1>1, <1>2, <2>2 DEF DriverFits, MayCommit, Working, Reporting
  <2>6. FailedStopsRun'
    BY <1>1, <2>3, <2>4 DEF FailedStopsRun, HasStopped
  <2>7. \A r \in Steps : LeafKnown(r)'
    BY <1>0, <2>3 DEF RowFits, LeafKnown, Passing
  <2>8. RowFits'
    BY <1>1, <2>2, <2>6, <2>7 DEF RowFits, EndingMeansIt, CompletedMeansDone
  <2> QED BY <2>5, <2>8, OthersFit DEF Fits
<1> QED BY <1>3, <1>4

LEMMA FinishFits ==
    ASSUME ~Fault("db"), SoloIInv, NEW p \in Procs, Elsewhere(p), Finish(p)
    PROVE  Fits'
<1>0. /\ DriverFits(p) /\ RowFits /\ TypeOK /\ pc[p] = "finish" /\ UNCHANGED <<opts, applied, ran>>
  BY SoloFits, SoloFacts DEF Fits, Finish, world
<1>1. pc'[p] = "done"
  BY <1>0 DEF Finish, Goto, TypeOK
<1>2. row'.tree = row.tree /\ row'.status = ending[p].outcome
  BY <1>0, SoloFacts DEF Finish, Finalized, Row
<1>3. /\ row'.status = "PAUSED" => row.status = "PAUSED"
      /\ row'.status = "COMPLETED" => AllPassed(row.tree) /\ (WantsApply => applied)
  BY <1>0, <1>2 DEF DriverFits, Reporting
<1>4. DriverFits(p)'
  BY <1>1, DrivingLabels DEF DriverFits, MayCommit, Working, Reporting, Alive
<1>5. \A s \in Steps : LeafKnown(s)'
  BY <1>0, <1>2 DEF RowFits, LeafKnown
<1>6. CompletedMeansDone'
  BY <1>0, <1>2, <1>3 DEF CompletedMeansDone, AllPassed, RowFits, LeafKnown, WantsApply
<1>7. FailedStopsRun'
  BY <1>0, <1>2 DEF RowFits, EndingMeansIt, FailedStopsRun
<1>8. RowFits'
  BY <1>0, <1>2, <1>3, <1>5, <1>6, <1>7 DEF RowFits, EndingMeansIt
<1> QED BY <1>4, <1>8, OthersFit DEF Fits

(* Steps of nobody.                                                         *)
LEMMA OutsideFits ==
    ASSUME SoloIInv, Reconcile \/ PidRecycled \/ RemoveWorktree \/ UNCHANGED vars
    PROVE  Fits'
<1>0. Fits /\ TypeOK /\ UNCHANGED <<pc, mem, inflight, ending, applied, ran, opts>>
  BY SoloFits, SoloFacts, OutsideMoves
<1>1. CASE row' = row
  <2>1. ASSUME NEW p \in Procs PROVE DriverFits(p)'
    <3>1. DriverFits(p)
      BY <1>0 DEF Fits
    <3> QED BY <1>0, <1>1, <3>1
            DEF DriverFits, MayCommit, Saved, Working, Reporting, WantsApply, Alive
  <2> QED BY <1>0, <1>1, <2>1, RowKept DEF Fits
<1>2. CASE Reconcile
  <2>1. /\ row.status = "RUNNING" /\ row'.status = "FAILED"
        /\ row'.tree = row.tree /\ row'.rev = row.rev
    BY <1>2, SoloFacts DEF Reconcile, Stale, Row
  <2>2. ASSUME NEW p \in Procs PROVE DriverFits(p)'
    <3>1. DriverFits(p)
      BY <1>0 DEF Fits
    <3>2. (MayCommit(p) => Saved(p))' /\ Working(p)'
      BY <1>0, <2>1, <3>1 DEF DriverFits, MayCommit, Saved, Working
    <3>3. Reporting(p)'
      BY <1>0, <2>1, <3>1 DEF DriverFits, Reporting, WantsApply
    <3> QED BY <2>1, <3>2, <3>3 DEF DriverFits
  <2>3. RowFits'
    BY <1>0, <2>1
       DEF Fits, RowFits, LeafKnown, EndingMeansIt, CompletedMeansDone, FailedStopsRun
  <2> QED BY <2>2, <2>3 DEF Fits
<1> QED BY <1>1, <1>2 DEF PidRecycled, RemoveWorktree, vars

(* Each step of the only driver is one of those.                            *)
LEMMA CommitSteps ==
    ASSUME SoloIInv, NEW p \in Procs, NEW s \in Steps,
           \/ BeginAttempt(p, s) \/ ReenterGate(p, s)
           \/ AttemptIgnored(p, s) \/ AttemptFails(p, s)
           \/ \E n \in mem[p].tree[s].attempt..LastAttempt(p, s) : AttemptPasses(p, s, n)
           \/ PromptRetry(p, s) \/ PromptContinue(p, s) \/ PromptAbort(p, s)
    PROVE  \E leaf \in Leaf : Works(p, s, leaf)
<1>1. mem[p].tree[s].attempt \in Nat /\ LastAttempt(p, s) \in Nat
  BY SoloFacts, NextNumbers
<1>2. mem[p].tree[s].attempt..LastAttempt(p, s) \subseteq Nat
  BY <1>1
<1>3. (\E n \in mem[p].tree[s].attempt..LastAttempt(p, s) : AttemptPasses(p, s, n))
      => \E n \in Nat : AttemptPasses(p, s, n)
  BY <1>2
<1> QED BY <1>3, DriveWorks, AttemptWorks, AnswerWorks

LEMMA ActorFits ==
    ASSUME ~Fault("db"), SoloIInv, NEW p \in Procs, Elsewhere(p),
           Progress(p) \/ User(p) \/ Disturbance(p)
    PROVE  Fits'
<1>1. CASE \E s \in Steps :
             \/ BeginAttempt(p, s) \/ ReenterGate(p, s)
             \/ AttemptIgnored(p, s) \/ AttemptFails(p, s)
             \/ \E n \in mem[p].tree[s].attempt..LastAttempt(p, s) : AttemptPasses(p, s, n)
             \/ PromptRetry(p, s) \/ PromptContinue(p, s) \/ PromptAbort(p, s)
  BY <1>1, CommitSteps, WorksFits
<1>2. CASE \E s \in Steps : StartAttempt(p, s)
  BY <1>2, StartFits
<1>3. ~RecoverInterrupted(p) /\ ~StartFails(p)
  BY SoloFits DEF StartFails, RecoverInterrupted, Fits, DriverFits, Working
<1>4. CASE InsertRow(p) \/ InitState(p) \/ ResumeRun(p)
  BY <1>4, BeginFits, ResumeFits
<1>5. CASE OpenSession(p) \/ OpenFails(p) \/ LoadFails(p) \/ LoadState(p)
  BY <1>5, OpenFits, LoadFits
<1>6. CASE NothingLeft(p) \/ AutoApply(p) \/ LeavePrompt(p) \/ CancelRun(p)
  BY <1>6, EndFits, CancelFits
<1>7. CASE Close(p) \/ CloseUnwinding(p) \/ Die(p) \/ Unwind(p) \/ Finish(p)
  BY <1>7, CloseFits, FinishFits
<1> QED BY <1>1, <1>2, <1>3, <1>4, <1>5, <1>6, <1>7 DEF Progress, User, Disturbance

LEMMA SoloStep ==
    ASSUME Exclusive, ~Fault("db"), SoloIInv, [Next]_vars
    PROVE  SoloIInv'
<1>0. IInv /\ Alone
  BY SoloFits
<1>1. ASSUME NEW p \in Procs, Progress(p) \/ User(p) \/ Disturbance(p) PROVE Fits'
  <2>1. Elsewhere(p)
    BY <1>0, <1>1, OnlyActor DEF Elsewhere
  <2> QED BY <1>1, <2>1, ActorFits
<1>2. ASSUME Reconcile \/ PidRecycled \/ RemoveWorktree \/ UNCHANGED vars PROVE Fits'
  BY <1>2, OutsideFits
<1>3. Fits'
  BY <1>1, <1>2 DEF Next
<1>4. (NeverRefused /\ StatusFits /\ EndingMeansIt)'
  BY <1>3 DEF NeverRefused, StatusFits, Fits, DriverFits, RowFits, LeafKnown, LiveDriver, Alive
<1> QED BY <1>0, <1>4, IInvStep, AloneStep DEF SoloIInv

LEMMA SoloInit == Init => SoloIInv
<1> SUFFICES ASSUME Init PROVE Fits
  BY FitsParts, IInvInit, AloneInit DEF SoloIInv
<1>1. \A p \in Procs : DriverFits(p)
  BY IdleFits, DrivingLabels DEF Init
<1>2. \A s \in Steps : Plan[s].state = "PENDING"
  BY DEF Plan, Planned
<1>3. RowFits
  BY <1>2 DEF Init, NoRow, RowFits, LeafKnown, EndingMeansIt, CompletedMeansDone, FailedStopsRun,
             Passing
<1> QED BY <1>1, <1>3 DEF Fits

(* With one driver at a time and a database that works no commit is ever    *)
(* refused and the row says what its driver does, whatever fails: a crash,  *)
(* a signal, an exception, git, the worktree, or what a load reads.         *)
THEOREM SoloInvariant ==
    ASSUME Exclusive, ~Fault("db")
    PROVE  Spec => []SoloIInv
<1>1. SoloIInv /\ [Next]_vars => SoloIInv'
  BY SoloStep
<1> QED BY <1>1, SoloInit, PTL DEF Spec

(* A run recorded as COMPLETED has executed and passed all its steps and    *)
(* applied its changes if it was asked to, and nothing ran after a step the *)
(* run failed with or was cancelled in.                                     *)
THEOREM StatusMeansIt ==
    ASSUME Exclusive, ~Fault("db")
    PROVE  Spec => []EndingMeansIt
<1>1. SoloIInv => EndingMeansIt
  BY DEF SoloIInv
<1> QED BY <1>1, SoloInvariant, PTL

----------------------------------------------------------------------------
(* A paused run can be resumed.                                             *)

(* A step after which the run is paused: it was before, and is only shown   *)
(* to the user, or a leaf in hand has just failed.                          *)
LEMMA PausedStep ==
    ASSUME ~Fault("db"), ~Fault("raise"), ~(LockOwnsSignals /\ Fault("interrupt")),
           SoloIInv, PausedIsKept, NEW p \in Procs, Elsewhere(p),
           Progress(p) \/ User(p) \/ Disturbance(p), row'.status = "PAUSED"
    PROVE  /\ opts' = opts /\ pc'[p] # "unwind"
           /\ \/ row.status = "PAUSED" /\ (row.worktreeId => row'.worktreeId) /\ (wtDir => wtDir')
              \/ row'.worktreeId = (row.worktreeId \/ opts.worktree) /\ InWorktree(p) /\ wtDir' = wtDir
<1>0. DriverFits(p) /\ TypeOK /\ IInv /\ RowFits
  BY SoloFits, SoloFacts DEF Fits
<1>1. CASE \E s \in Steps :
             \/ BeginAttempt(p, s) \/ ReenterGate(p, s)
             \/ AttemptIgnored(p, s) \/ AttemptFails(p, s)
             \/ \E n \in mem[p].tree[s].attempt..LastAttempt(p, s) : AttemptPasses(p, s, n)
             \/ PromptRetry(p, s) \/ PromptContinue(p, s) \/ PromptAbort(p, s)
  <2>1. PICK s \in Steps, leaf \in Leaf : Works(p, s, leaf)
    BY <1>1, CommitSteps
  <2>2. pc'[p] = "prompt"
    BY <1>0, <2>1, SoloFacts DEF Works, Going, Goto
  <2> QED BY <2>1, <2>2, DrivingLabels DEF Works, Going, InWorktree
<1>2. row.status = "PAUSED" => pc[p] \in {"idle", "prompt", "close", "finish"}
  <2> SUFFICES ASSUME row.status = "PAUSED" PROVE pc[p] \in {"idle", "prompt", "close", "finish"}
    OBVIOUS
  <2>1. pc[p] # "init"
    BY <1>0, PlanFits DEF IInv, NothingBeforeInit
  <2>2. pc[p] \notin {"open", "load", "recover", "drive", "exec", "apply"} /\ pc[p] \in PCs
    BY <1>0, SoloFacts DEF DriverFits, Working
  <2>3. row.status = "PAUSED" => pc[p] # "unwind"
    BY DEF PausedIsKept
  <2>4. pc[p] \in Driving \/ pc[p] = "idle"
    BY <1>0, ActorDrives DEF InsertRow, ResumeRun
  <2> QED BY <2>1, <2>2, <2>3, <2>4, DrivingLabels
<1>3. CASE \E s \in Steps : StartAttempt(p, s)
  BY <1>2, <1>3 DEF StartAttempt
<1>4. ~RecoverInterrupted(p) /\ ~StartFails(p)
  BY <1>0 DEF StartFails, RecoverInterrupted, DriverFits, Working
<1>5. ~InsertRow(p) /\ ~InitState(p) /\ ~ResumeRun(p)
  <2>1. ~InsertRow(p)
    BY SoloFacts DEF InsertRow, NoRow
  <2>2. ~ResumeRun(p)
    BY SoloFacts DEF ResumeRun, Row
  <2>3. ~InitState(p)
    <3>1. InitState(p) => row'.status = row.status
      BY SoloFacts DEF InitState, Row
    <3> QED BY <1>2, <3>1 DEF InitState
  <2> QED BY <2>1, <2>2, <2>3
<1>6. ~OpenSession(p) /\ ~OpenFails(p) /\ ~LoadFails(p) /\ ~LoadState(p) /\ ~AutoApply(p)
      /\ ~NothingLeft(p) /\ ~CloseUnwinding(p) /\ ~Unwind(p)
  BY <1>2 DEF OpenSession, OpenFails, LoadFails, LoadState, AutoApply, NothingLeft, CloseUnwinding,
              Unwind
<1>7. ~CancelRun(p)
  <2> SUFFICES ASSUME CancelRun(p) PROVE FALSE
    OBVIOUS
  <2>1. pc[p] \in {"drive", "exec"} /\ row.status # "PAUSED"
    BY <1>0 DEF CancelRun, DriverFits, Working
  <2>2. inflight[p] \in Steps /\ Commit(p, [mem[p].tree EXCEPT ![inflight[p]].state = "CANCELLED"], Unchanged)
    BY <2>1 DEF CancelRun
  <2>3. row'.status = row.status
    BY <2>2, SoloFacts DEF Commit, Row
  <2> QED BY <2>1, <2>3
<1>8. CASE LeavePrompt(p)
  <2>1. row' = row /\ UNCHANGED <<wtDir, opts>> /\ pc'[p] = "close"
    BY <1>8, SoloFacts DEF LeavePrompt, Conclude, Goto, world
  <2> QED BY <2>1
<1>9. CASE Die(p)
  <2>1. row' = row /\ UNCHANGED <<wtDir, opts>> /\ pc'[p] = "dead"
    BY <1>9, SoloFacts DEF Die, Goto, world
  <2> QED BY <2>1
<1>10. CASE Close(p)
  <2>1. row' = row /\ opts' = opts /\ pc'[p] = "finish" /\ pc[p] = "close"
    BY <1>10, SoloFacts DEF Close, Goto
  <2>2. KeepsWorktree(ending[p])
    BY <1>0, <2>1 DEF KeepsWorktree, DriverFits, Reporting
  <2>3. wtDir => wtDir'
    BY <1>10, <2>2 DEF Close, CloseWorktree
  <2> QED BY <2>1, <2>3
<1>11. CASE Finish(p)
  <2>1. UNCHANGED <<wtDir, opts>> /\ pc'[p] = "done" /\ pc[p] = "finish"
    BY <1>11, SoloFacts DEF Finish, Goto, world
  <2>2. row'.status = ending[p].outcome /\ (row.worktreeId => row'.worktreeId)
    BY <1>11, SoloFacts DEF Finish, Finalized, Row
  <2> QED BY <1>0, <2>1, <2>2 DEF DriverFits, Reporting
<1> QED BY <1>1, <1>3, <1>4, <1>5, <1>6, <1>7, <1>8, <1>9, <1>10, <1>11 DEF Progress, User, Disturbance

LEMMA PausedIsKeptStep ==
    ASSUME Exclusive, ~Fault("db"), ~Fault("raise"), ~Fault("remove"),
           ~(LockOwnsSignals /\ Fault("interrupt")),
           SoloIInv, PausedIsKept, [Next]_vars
    PROVE  PausedIsKept'
<1>0. IInv /\ Alone /\ WorktreeHeld
  BY SoloFits DEF PausedIsKept
<1>1. WorktreeHeld'
  BY <1>0, WorktreeHeldStep
<1>2. ASSUME NEW p \in Procs, Progress(p) \/ User(p) \/ Disturbance(p), row'.status = "PAUSED"
      PROVE  (opts'.worktree => row'.worktreeId /\ wtDir') /\ \A q \in Procs : pc'[q] # "unwind"
  <2>1. Elsewhere(p)
    BY <1>0, <1>2, OnlyActor DEF Elsewhere
  <2>2. /\ opts' = opts /\ pc'[p] # "unwind"
        /\ \/ row.status = "PAUSED" /\ (row.worktreeId => row'.worktreeId) /\ (wtDir => wtDir')
           \/ row'.worktreeId = (row.worktreeId \/ opts.worktree) /\ InWorktree(p) /\ wtDir' = wtDir
    BY <1>2, <2>1, PausedStep
  <2>3. ASSUME opts'.worktree PROVE row'.worktreeId /\ wtDir'
    <3>1. opts.worktree
      BY <2>2, <2>3
    <3>2. CASE row.status = "PAUSED" /\ (row.worktreeId => row'.worktreeId) /\ (wtDir => wtDir')
      BY <3>1, <3>2 DEF PausedIsKept
    <3>3. CASE row'.worktreeId = (row.worktreeId \/ opts.worktree) /\ InWorktree(p) /\ wtDir' = wtDir
      <4>1. wtDir'
        BY <1>0, <3>1, <3>3 DEF WorktreeHeld
      <4>2. row'.worktreeId
        BY <3>1, <3>3
      <4> QED BY <4>1, <4>2
    <3> QED BY <2>2, <3>2, <3>3
  <2> QED BY <2>1, <2>2, <2>3, DrivingLabels DEF Elsewhere
<1>3. ASSUME Reconcile \/ PidRecycled \/ RemoveWorktree \/ UNCHANGED vars, row'.status = "PAUSED"
      PROVE  (opts'.worktree => row'.worktreeId /\ wtDir') /\ \A q \in Procs : pc'[q] # "unwind"
  <2>1. ~Reconcile
    BY <1>3, SoloFacts DEF Reconcile, Row
  <2>2. row' = row /\ wtDir' = wtDir
    BY <1>3, <2>1 DEF PidRecycled, RemoveWorktree, vars, world
  <2> QED BY <1>3, <2>2, OutsideMoves DEF PausedIsKept
<1> QED BY <1>1, <1>2, <1>3 DEF Next, PausedIsKept

(* A paused run keeps its worktree, and a paused run nobody drives has all  *)
(* that `dovo resume` asks for, if nothing but the program's own handling   *)
(* of KeyboardInterrupt ends a driver that asks its user, and the user does *)
(* not remove the worktree: the signal handler of the lock, or an exception *)
(* in a commit, would close the session of a paused run as a failed one.    *)
THEOREM PausedCanResume ==
    ASSUME Exclusive, ~Fault("db"), ~Fault("raise"), ~Fault("remove"),
           ~(LockOwnsSignals /\ Fault("interrupt"))
    PROVE  Spec => [](PausedIsKept /\ PausedIsResumable)
<1>1. Init => PausedIsKept
  BY WorkInit DEF Init, NoRow, PausedIsKept
<1>2. SoloIInv /\ PausedIsKept /\ [Next]_vars => PausedIsKept'
  BY PausedIsKeptStep
<1>3. SoloIInv /\ PausedIsKept => PausedIsResumable
  <2> SUFFICES ASSUME SoloIInv, PausedIsKept, row.status = "PAUSED" PROVE Resumable
    BY DEF PausedIsResumable
  <2>1. RowFits
    BY SoloFits DEF Fits
  <2>2. \E s \in Steps : ~Ended(row.tree[s])
    BY <2>1 DEF RowFits, Ended, Terminal
  <2> QED BY <2>1, <2>2 DEF Resumable, RowFits, LeafKnown, PausedIsKept
<1> QED BY <1>1, <1>2, <1>3, SoloInvariant, PTL DEF Spec

----------------------------------------------------------------------------
(* Whoever drives the run owns its row.                                     *)

(* What a step of the only driver does to the row.                          *)
LEMMA RowStepKind ==
    ASSUME ~Fault("db"), SoloIInv, NEW p \in Procs, Progress(p) \/ User(p) \/ Disturbance(p)
    PROVE  \/ \E s \in Steps, leaf \in Leaf : Works(p, s, leaf)
           \/ InsertRow(p) \/ InitState(p) \/ ResumeRun(p) \/ CancelRun(p) \/ Finish(p)
           \/ row' = row /\ pc[p] \in Driving
<1>0. DriverFits(p)
  BY SoloFits DEF Fits
<1>1. CASE \E s \in Steps :
             \/ BeginAttempt(p, s) \/ ReenterGate(p, s)
             \/ AttemptIgnored(p, s) \/ AttemptFails(p, s)
             \/ \E n \in mem[p].tree[s].attempt..LastAttempt(p, s) : AttemptPasses(p, s, n)
             \/ PromptRetry(p, s) \/ PromptContinue(p, s) \/ PromptAbort(p, s)
  BY <1>1, CommitSteps
<1>2. CASE \E s \in Steps : StartAttempt(p, s)
  BY <1>2, DrivingLabels DEF StartAttempt
<1>3. ~RecoverInterrupted(p) /\ ~StartFails(p)
  BY <1>0 DEF StartFails, RecoverInterrupted, DriverFits, Working
<1>4. CASE OpenSession(p) \/ OpenFails(p) \/ LoadFails(p) \/ LoadState(p) \/ NothingLeft(p)
  BY <1>4, DrivingLabels DEF OpenSession, OpenFails, LoadFails, LoadState, NothingLeft
<1>5. CASE AutoApply(p) \/ LeavePrompt(p) \/ Close(p) \/ CloseUnwinding(p) \/ Die(p) \/ Unwind(p)
  BY <1>5, DrivingLabels DEF AutoApply, LeavePrompt, Close, CloseUnwinding, Die, Unwind
<1> QED BY <1>1, <1>2, <1>3, <1>4, <1>5 DEF Progress, User, Disturbance

LEMMA OwnerDrivesStep ==
    ASSUME Exclusive, ~Fault("db"), ~StartTimeKnown, SoloIInv, OwnerDrives, [Next]_vars
    PROVE  OwnerDrives'
<1>0. IInv /\ Alone /\ TypeOK
  BY SoloFits, SoloFacts
<1>1. ASSUME NEW p \in Procs, Progress(p) \/ User(p) \/ Disturbance(p) PROVE OwnerDrives'
  <2>1. Elsewhere(p) /\ \A q \in Procs \ {p} : ~Alive(q)'
    BY <1>0, <1>1, OnlyActor DEF Elsewhere, Alive
  <2> SUFFICES ASSUME Alive(p)' PROVE row'.owner = p /\ row'.status \in {"RUNNING", "PAUSED"}
    BY <2>1 DEF OwnerDrives
  <2>2. pc[p] \in Driving => row.owner = p /\ row.status \in {"RUNNING", "PAUSED"}
    BY DEF OwnerDrives, Alive
  <2>3. CASE \E s \in Steps, leaf \in Leaf : Works(p, s, leaf)
    BY <2>2, <2>3, DrivingLabels DEF Works, Going
  <2>4. CASE InsertRow(p)
    BY <2>4 DEF InsertRow, NoRow
  <2>5. CASE ResumeRun(p)
    BY <2>5, SoloFacts DEF ResumeRun, Row
  <2>6. CASE InitState(p)
    <3>1. row'.owner = row.owner /\ row'.status = row.status
      BY <2>6, SoloFacts DEF InitState, Row
    <3> QED BY <2>2, <2>6, <3>1, DrivingLabels DEF InitState
  <2>7. CASE CancelRun(p)
    <3>1. row'.owner = row.owner /\ row'.status = row.status
      BY <2>7, SoloFacts DEF CancelRun, Commit, Row
    <3> QED BY <2>2, <2>7, <3>1, DrivingLabels DEF CancelRun
  <2>8. ~Finish(p)
    BY <1>0, DrivingLabels DEF Finish, Goto, TypeOK, Alive
  <2> QED BY <1>1, <2>2, <2>3, <2>4, <2>5, <2>6, <2>7, <2>8, RowStepKind
<1>2. CASE PidRecycled \/ RemoveWorktree \/ UNCHANGED vars
  BY <1>2, OutsideMoves DEF PidRecycled, RemoveWorktree, vars, OwnerDrives, Alive
<1>3. CASE Reconcile
  <2>1. ~OwnerAlive
    BY <1>3 DEF Reconcile, Stale
  <2>2. \A p \in Procs : ~Alive(p)
    BY <2>1 DEF OwnerDrives, OwnerAlive
  <2> QED BY <1>3, <2>2 DEF Reconcile, OwnerDrives, Alive
<1> QED BY <1>1, <1>2, <1>3 DEF Next

LEMMA OwnerDrivesInit == Init => OwnerDrives
BY DrivingLabels DEF Init, OwnerDrives, Alive

(* Where the start time of a process cannot be read, the row belongs to the *)
(* one process that drives the run, and no reconciliation fails it.         *)
THEOREM OwnerIsDriver ==
    ASSUME Exclusive, ~Fault("db"), ~StartTimeKnown
    PROVE  Spec => []OwnerDrives
<1>1. SoloIInv /\ OwnerDrives /\ [Next]_vars => OwnerDrives'
  BY OwnerDrivesStep
<1> QED BY <1>1, OwnerDrivesInit, SoloInvariant, PTL DEF Spec

----------------------------------------------------------------------------
(* Reconciliation spares the drivers.                                       *)

(* Only a resume and the OS say anything of the pid of the row's owner.     *)
LEMMA PidKept ==
    ASSUME NEW p \in Procs, Progress(p) \/ User(p) \/ Disturbance(p), ~ResumeRun(p)
    PROVE  recycled' = recycled
<1>1. CASE Progress(p)
  <2>1. CASE InitState(p) \/ StartFails(p) \/ OpenSession(p) \/ OpenFails(p) \/ LoadState(p)
             \/ LoadFails(p) \/ RecoverInterrupted(p)
    BY <2>1 DEF InitState, StartFails, OpenSession, OpenFails, LoadState, LoadFails,
       RecoverInterrupted, world
  <2>2. CASE NothingLeft(p) \/ AutoApply(p) \/ Close(p) \/ CloseUnwinding(p) \/ Finish(p)
    BY <2>2 DEF NothingLeft, AutoApply, Close, CloseUnwinding, Finish, world
  <2>3. ASSUME NEW s \in Steps,
               \/ BeginAttempt(p, s) \/ StartAttempt(p, s) \/ \E n : AttemptPasses(p, s, n)
               \/ AttemptIgnored(p, s) \/ AttemptFails(p, s) \/ ReenterGate(p, s)
        PROVE  recycled' = recycled
    BY <2>3 DEF BeginAttempt, StartAttempt, AttemptPasses, AttemptIgnored, AttemptFails,
       ReenterGate, world
  <2> QED BY <1>1, <2>1, <2>2, <2>3 DEF Progress
<1>2. CASE User(p)
  BY <1>2 DEF User, InsertRow, PromptRetry, PromptContinue, PromptAbort, world
<1>3. CASE Disturbance(p)
  BY <1>3 DEF Disturbance, Die, Unwind, CancelRun, LeavePrompt, world
<1> QED BY <1>1, <1>2, <1>3

LEMMA FirstDrivesStep ==
    ASSUME Exclusive, ~Fault("db"), SoloIInv, FirstDrives, [Next]_vars
    PROVE  FirstDrives'
<1>0. IInv /\ Alone /\ TypeOK
  BY SoloFits, SoloFacts
<1>1. ASSUME NEW p \in Procs, Progress(p) \/ User(p) \/ Disturbance(p)
      PROVE  FirstDrives'
  <2>1. CASE ResumeRun(p)
    <3>1. ~Alive(Runner)'
      BY <1>0, <2>1 DEF ResumeRun, LiveDriver, Alive, Goto, TypeOK
    <3> QED BY <2>1, <3>1 DEF ResumeRun, FirstDrives
  <2>2. CASE InsertRow(p)
    <3>1. row'.owner = Runner /\ recycled' = FALSE
      BY <1>0, <2>2 DEF InsertRow, NoRow, world, FirstDrives, TypeOK
    <3> QED BY <3>1 DEF FirstDrives
  <2>3. CASE pc[p] \in Driving /\ ~ResumeRun(p) /\ ~InsertRow(p)
    <3>1. row'.owner = row.owner /\ (row'.status = "ABSENT" => row.status = "ABSENT")
      <4>1. CASE \E s \in Steps, leaf \in Leaf : Works(p, s, leaf)
        BY <4>1 DEF Works, Going
      <4>2. CASE InitState(p)
        BY <4>2, SoloFacts DEF InitState, Row
      <4>3. CASE CancelRun(p)
        BY <4>3, SoloFacts DEF CancelRun, Commit, Row
      <4>4. CASE Finish(p)
        <5>1. Finalized(p).owner = row.owner /\ Finalized(p).status = ending[p].outcome
              /\ Finalized(p).rev = row.rev
          BY SoloFacts DEF Finalized, Row
        <5>2. ending[p].outcome # "ABSENT"
          BY SoloFacts DEF Ending, Outcomes, RunStatus
        <5>3. row'.owner = Finalized(p).owner /\ row'.status = Finalized(p).status
          BY <4>4, SoloFacts DEF Finish, Finalized, Row
        <5> QED BY <5>1, <5>2, <5>3
      <4> QED BY <1>1, <2>3, <4>1, <4>2, <4>3, <4>4, RowStepKind
    <3>2. recycled' = recycled
      BY <1>1, <2>3, PidKept
    <3>3. Alive(Runner)' => Alive(Runner)
      BY <1>0, <1>1, <2>3, OnlyActor DEF Alive
    <3> QED BY <3>1, <3>2, <3>3 DEF FirstDrives
  <2> QED BY <1>1, <2>1, <2>2, <2>3, ActorDrives
<1>2. CASE PidRecycled
  <2>1. ~Alive(Runner) /\ row.status = "RUNNING" /\ UNCHANGED <<row, pc>>
    BY <1>2 DEF PidRecycled, OwnerAlive, FirstDrives
  <2> QED BY <2>1 DEF FirstDrives, Alive
<1>3. CASE RemoveWorktree \/ Reconcile \/ UNCHANGED vars
  <2>1. row'.owner = row.owner /\ recycled' = recycled /\ UNCHANGED pc
        /\ (row'.status = "ABSENT" => row.status = "ABSENT")
    BY <1>0, <1>3, SoloFacts DEF RemoveWorktree, Reconcile, vars, world, Row
  <2> QED BY <2>1 DEF FirstDrives, Alive
<1> QED BY <1>1, <1>2, <1>3 DEF Next

LEMMA FirstDrivesInit == Init => FirstDrives
BY DrivingLabels, ProcsAssumption DEF Init, FirstDrives, Alive

(* A reconciliation fails no run under the process that started it, even    *)
(* where start times can be read; where they cannot it spares every driver, *)
(* the ones that resumed the run too.                                       *)
THEOREM DriversAreSpared ==
    ASSUME Exclusive, ~Fault("db")
    PROVE  Spec => DriverIsSpared
<1>1. SoloIInv /\ FirstDrives /\ [Next]_vars => FirstDrives'
  BY FirstDrivesStep
<1>2. ASSUME SoloIInv, Next, row.status = "RUNNING", row'.status = "FAILED", UNCHANGED pc
      PROVE  Stale
  <2>1. ~\E p \in Procs : Progress(p) \/ User(p) \/ Disturbance(p)
    BY <1>2, SoloFacts, FailsByMoving
  <2> QED BY <1>2, <2>1 DEF Next, PidRecycled, RemoveWorktree, Reconcile
<1>3. SoloIInv /\ FirstDrives /\ [Next]_vars =>
        [row.status = "RUNNING" /\ row'.status = "FAILED" /\ UNCHANGED pc => ~Alive(Runner)]_vars
  BY <1>2 DEF Stale, FirstDrives, OwnerAlive, StartedLater
<1>4. CASE StartTimeKnown
  <2>1. [row.status = "RUNNING" /\ row'.status = "FAILED" /\ UNCHANGED pc => ~Alive(Runner)]_vars
        => [row.status = "RUNNING" /\ row'.status = "FAILED" /\ UNCHANGED pc =>
              \A p \in Procs : Alive(p) => StartTimeKnown /\ p # Runner]_vars
    BY <1>4
  <2> QED BY <1>1, <1>3, <2>1, FirstDrivesInit, SoloInvariant, PTL DEF Spec, DriverIsSpared
<1>5. CASE ~StartTimeKnown
  <2>1. SoloIInv /\ OwnerDrives /\ [Next]_vars =>
          [row.status = "RUNNING" /\ row'.status = "FAILED" /\ UNCHANGED pc =>
             \A p \in Procs : Alive(p) => StartTimeKnown /\ p # Runner]_vars
    BY <1>2, <1>5 DEF Stale, OwnerDrives, OwnerAlive
  <2>2. Spec => []OwnerDrives
    BY <1>5, OwnerIsDriver
  <2> QED BY <2>1, <2>2, SoloInvariant, PTL DEF Spec, DriverIsSpared
<1> QED BY <1>4, <1>5

----------------------------------------------------------------------------
(* The engine implements RunLife.                                           *)

PassedIn(tree) == {s \in Steps : tree[s].state \in Passing}

LEMMA StepsAreFinite == IsFiniteSet(Steps) /\ Cardinality(Steps) = NumSteps
<1>1. NumSteps \in Nat
  BY StepsAssumption
<1>2. IsFiniteSet(1..NumSteps) /\ Cardinality(1..NumSteps) = IF 1 > NumSteps THEN 0 ELSE NumSteps - 1 + 1
  BY <1>1, FS_Interval
<1> QED BY <1>1, <1>2 DEF Steps

(* As long as a step has not passed there is one to do, and when all have,  *)
(* there is none.                                                           *)
LEMMA PassedCount ==
    ASSUME NEW tree
    PROVE  /\ IsFiniteSet(PassedIn(tree)) /\ Cardinality(PassedIn(tree)) \in Nat
           /\ \A s \in Steps : tree[s].state \notin Passing => Cardinality(PassedIn(tree)) < NumSteps
           /\ AllPassed(tree) => Cardinality(PassedIn(tree)) = NumSteps
<1>1. PassedIn(tree) \in SUBSET Steps
  BY DEF PassedIn
<1>2. /\ IsFiniteSet(PassedIn(tree)) /\ Cardinality(PassedIn(tree)) <= Cardinality(Steps)
      /\ Cardinality(Steps) = Cardinality(PassedIn(tree)) => Steps = PassedIn(tree)
  BY <1>1, StepsAreFinite, FS_Subset
<1>3. Cardinality(PassedIn(tree)) \in Nat
  BY <1>2, FS_CardinalityType
<1>4. \A s \in Steps : tree[s].state \notin Passing => Steps # PassedIn(tree)
  BY DEF PassedIn
<1>5. NumSteps \in Nat
  BY StepsAssumption
<1>6. AllPassed(tree) => PassedIn(tree) = Steps
  BY DEF AllPassed, PassedIn
<1> QED BY <1>2, <1>3, <1>4, <1>5, <1>6, StepsAreFinite

(* What the next leaf does to what the user sees.                           *)
LEMMA NextLeafCount ==
    ASSUME NEW tree \in Tree, NEW s \in Steps, NEW leaf \in Leaf, Upcoming(tree, s),
           ~HasStopped(tree)
    PROVE  /\ Cardinality(PassedIn(tree)) < NumSteps
           /\ leaf.state \in Passing =>
                 Cardinality(PassedIn([tree EXCEPT ![s] = leaf])) = Cardinality(PassedIn(tree)) + 1
           /\ leaf.state \notin Passing => PassedIn([tree EXCEPT ![s] = leaf]) = PassedIn(tree)
           /\ HasStopped([tree EXCEPT ![s] = leaf]) <=> leaf.state \in {"FAILED", "CANCELLED"}
<1> DEFINE new == [tree EXCEPT ![s] = leaf]
<1>1. tree[s].state \notin Passing
  BY DEF Upcoming, Ended, Terminal, Passing
<1>2. new[s] = leaf /\ \A r \in Steps \ {s} : new[r] = tree[r]
  BY DEF Tree
<1> HIDE DEF new
<1>3. leaf.state \in Passing => PassedIn(new) = PassedIn(tree) \cup {s} /\ s \notin PassedIn(tree)
  BY <1>1, <1>2 DEF PassedIn
<1>4. leaf.state \notin Passing => PassedIn(new) = PassedIn(tree)
  BY <1>1, <1>2 DEF PassedIn
<1>5. Cardinality(PassedIn(tree) \cup {s})
      = IF s \in PassedIn(tree) THEN Cardinality(PassedIn(tree)) ELSE Cardinality(PassedIn(tree)) + 1
  BY PassedCount, FS_AddElement
<1>6. HasStopped(new) <=> leaf.state \in {"FAILED", "CANCELLED"}
  BY <1>2 DEF HasStopped
<1> QED BY <1>1, <1>3, <1>4, <1>5, <1>6, PassedCount DEF new

(* The status that is about to be recorded is not CANCELLED.                *)
Uncancelled ==
    \A p \in Procs : pc[p] \in {"close", "finish"} => ending[p].outcome # "CANCELLED"

LEMMA UncancelledStep ==
    ASSUME Exclusive, ~Fault("db"), LockOwnsSignals \/ ~Fault("interrupt"),
           SoloIInv, Uncancelled, [Next]_vars
    PROVE  Uncancelled'
<1>0. IInv /\ Alone /\ TypeOK
  BY SoloFits, SoloFacts
<1>1. ASSUME NEW p \in Procs, Progress(p) \/ User(p) \/ Disturbance(p),
             pc'[p] \in {"close", "finish"}
      PROVE  ending'[p].outcome # "CANCELLED"
  <2>0. DriverFits(p)
    BY SoloFits DEF Fits
  <2>1. CASE \E s \in Steps, leaf \in Leaf : Works(p, s, leaf)
    BY <1>0, <1>1, <2>1 DEF Works, Goto, TypeOK
  <2>2. CASE InsertRow(p) \/ ResumeRun(p) \/ InitState(p) \/ OpenSession(p) \/ LoadState(p)
             \/ Finish(p) \/ CloseUnwinding(p) \/ Die(p) \/ Unwind(p)
    BY <1>0, <1>1, <2>2 DEF InsertRow, ResumeRun, InitState, OpenSession, LoadState, Finish,
       CloseUnwinding, Die, Unwind, Goto, TypeOK
  <2>3. CASE OpenFails(p) \/ LoadFails(p) \/ NothingLeft(p) \/ LeavePrompt(p)
    <3>1. OpenFails(p) => ending'[p].outcome = "FAILED"
      BY <1>0 DEF OpenFails, NoEnding, TypeOK
    <3>2. \A outcome : Conclude(p, outcome) => ending'[p].outcome = outcome
      BY <1>0 DEF Conclude, NoEnding, TypeOK
    <3> QED BY <2>3, <3>1, <3>2 DEF LoadFails, NothingLeft, LeavePrompt
  <2>4. CASE AutoApply(p)
    <3>1. ending[p].outcome = "COMPLETED"
      BY <2>0, <2>4 DEF AutoApply, DriverFits, Working
    <3>2. ending' = ending \/ ending'[p].outcome = "FAILED"
      BY <1>0, <2>4 DEF AutoApply, TypeOK, Ending
    <3> QED BY <3>1, <3>2
  <2>5. CASE Close(p)
    <3>1. ending'[p].outcome = ending[p].outcome /\ pc[p] = "close"
      BY <1>0, <2>5 DEF Close, TypeOK, Ending
    <3> QED BY <3>1 DEF Uncancelled
  <2>6. ~CancelRun(p) /\ ~RecoverInterrupted(p) /\ ~StartFails(p)
    BY <2>0 DEF CancelRun, RecoverInterrupted, StartFails, DriverFits, Working
  <2>7. ASSUME NEW s \in Steps, StartAttempt(p, s) PROVE FALSE
    BY <1>0, <1>1, <2>7 DEF StartAttempt, Goto, TypeOK
  <2> QED BY <1>1, <2>1, <2>2, <2>3, <2>4, <2>5, <2>6, <2>7, CommitSteps
          DEF Progress, User, Disturbance
<1>2. CASE Reconcile \/ PidRecycled \/ RemoveWorktree \/ UNCHANGED vars
  BY <1>2, OutsideMoves DEF Uncancelled
<1>3. ASSUME NEW p \in Procs, Progress(p) \/ User(p) \/ Disturbance(p) PROVE Uncancelled'
  <2>1. Elsewhere(p)
    BY <1>0, <1>3, OnlyActor DEF Elsewhere
  <2> QED BY <1>1, <1>3, <2>1, DrivingLabels DEF Uncancelled, Elsewhere
<1> QED BY <1>2, <1>3 DEF Next

(* What the user sees of one step of the engine.                            *)
Passed == Cardinality(PassedIn(row.tree))
Stopped == HasStopped(row.tree)

LEMMA LifeWorks ==
    ASSUME SoloIInv, OwnerDrives, NEW p \in Procs, NEW s \in Steps, NEW leaf \in Leaf,
           Works(p, s, leaf)
    PROVE  [Life!RNext]_(Life!rvars)
<1>0. /\ row.status \in {"RUNNING", "PAUSED"} /\ ~HasStopped(row.tree) /\ row.tree \in Tree
      /\ Upcoming(row.tree, s) /\ row'.tree = [row.tree EXCEPT ![s] = leaf]
  <2>1. row.status \in {"RUNNING", "PAUSED"}
    BY DrivingLabels DEF OwnerDrives, Alive, Works
  <2>2. DriverFits(p) /\ RowFits
    BY SoloFits DEF Fits
  <2> QED BY <2>1, <2>2, SoloFacts DEF Works, DriverFits, Working, RowFits
<1>1. /\ Passed < NumSteps /\ ~Stopped
      /\ leaf.state \in Passing => Passed' = Passed + 1
      /\ leaf.state \notin Passing => Passed' = Passed
      /\ Stopped' <=> leaf.state \in {"FAILED", "CANCELLED"}
  BY <1>0, NextLeafCount DEF Passed, Stopped
<1>2. \/ leaf.state = "RUNNING" /\ row'.status \in {row.status, "RUNNING"}
      \/ leaf.state \in Passing /\ row'.status \in {row.status, "RUNNING"}
      \/ leaf.state = "PAUSED" /\ row'.status = "PAUSED"
      \/ leaf.state = "FAILED" /\ row'.status \in {row.status, "RUNNING"}
  BY DEF Works, Going
<1>3. Stopped' \in BOOLEAN /\ Stopped \in BOOLEAN
  BY DEF Stopped, HasStopped
<1> QED BY <1>0, <1>1, <1>2, <1>3
        DEF Passed, Stopped, PassedIn, HasStopped, Passing, Life!RNext, Life!rvars, Life!Pass,
            Life!Stop, Life!Pause, Life!GoOn, Life!Open

LEMMA LifeFinish ==
    ASSUME ~Fault("db"), SoloIInv, OwnerDrives, Uncancelled, NEW p \in Procs, Finish(p)
    PROVE  [Life!RNext]_(Life!rvars)
<1>0. DriverFits(p) /\ RowFits /\ pc[p] = "finish" /\ ending[p] \in Ending
  BY SoloFits, SoloFacts DEF Fits, Finish
<1>1. row'.tree = row.tree /\ row'.status = ending[p].outcome
  BY SoloFacts DEF Finish, Finalized, Row
<1>2. row.status \in {"RUNNING", "PAUSED"}
  BY <1>0, DrivingLabels DEF OwnerDrives, Alive
<1>3. row'.status \in {"PAUSED", "COMPLETED", "FAILED"}
  BY <1>0, <1>1 DEF Uncancelled, Ending, Outcomes, RunStatus
<1>4. row'.status = "PAUSED" => row.status = "PAUSED"
  BY <1>0, <1>1 DEF DriverFits, Reporting
<1>5. row'.status = "COMPLETED" => Passed = NumSteps /\ ~Stopped
  <2>1. row'.status = "COMPLETED" => AllPassed(row.tree)
    BY <1>0, <1>1 DEF DriverFits, Reporting
  <2>2. AllPassed(row.tree) => ~Stopped
    BY DEF AllPassed, Stopped, HasStopped, Passing
  <2> QED BY <2>1, <2>2, PassedCount DEF Passed
<1> QED BY <1>1, <1>2, <1>3, <1>4, <1>5
        DEF Passed, Stopped, PassedIn, HasStopped, Life!RNext, Life!rvars, Life!Complete, Life!Fail,
            Life!Open

LEMMA LifeResume ==
    ASSUME ~Fault("db"), SoloIInv, NEW p \in Procs, ResumeRun(p)
    PROVE  [Life!RNext]_(Life!rvars)
<1>0. RowFits /\ row.status = "PAUSED"
  BY SoloFits DEF Fits, ResumeRun, Resumable
<1>1. row'.status = "RUNNING" /\ row'.tree = row.tree
  BY SoloFacts DEF ResumeRun, Row
<1>2. ~Stopped /\ \E s \in Steps : row.tree[s].state \notin Passing
  BY <1>0 DEF RowFits, Stopped, Passing
<1>3. Passed < NumSteps
  BY <1>2, PassedCount DEF Passed
<1> QED BY <1>0, <1>1, <1>2, <1>3
        DEF Passed, Stopped, PassedIn, HasStopped, Life!RNext, Life!rvars, Life!GoOn

LEMMA LifeBegin ==
    ASSUME ~Fault("db"), SoloIInv, NEW p \in Procs, InsertRow(p) \/ InitState(p)
    PROVE  [Life!RNext]_(Life!rvars)
<1>0. IInv /\ TypeOK /\ p = Runner /\ pc[p] \in {"idle", "init"}
  BY SoloFits, SoloFacts DEF InsertRow, InitState, IInv, NothingBeforeInit
<1>1. row.tree = Plan
  BY <1>0, PlanFits
<1>2. CASE InsertRow(p)
  <2>1. row.status = "ABSENT" /\ row'.status = "RUNNING" /\ row'.tree = Plan
    BY <1>2 DEF InsertRow, NoRow
  <2> QED BY <1>1, <2>1 DEF Life!RNext, Life!Start
<1>3. CASE InitState(p)
  <2>1. row.status = row'.status /\ row'.tree = Plan
    BY <1>3, SoloFacts DEF InitState, Row
  <2> QED BY <1>1, <2>1 DEF Life!rvars
<1> QED BY <1>2, <1>3

LEMMA LifeStep ==
    ASSUME Exclusive, ~Fault("db"), ~StartTimeKnown, LockOwnsSignals \/ ~Fault("interrupt"),
           SoloIInv, OwnerDrives, Uncancelled, [Next]_vars
    PROVE  [Life!RNext]_(Life!rvars)
<1>1. ASSUME NEW p \in Procs, Progress(p) \/ User(p) \/ Disturbance(p)
      PROVE  [Life!RNext]_(Life!rvars)
  <2>1. ~CancelRun(p)
    BY DEF CancelRun
  <2>2. row' = row => [Life!RNext]_(Life!rvars)
    BY DEF Life!rvars
  <2> QED BY <1>1, <2>1, <2>2, RowStepKind, LifeWorks, LifeFinish, LifeResume, LifeBegin
<1>2. CASE Reconcile
  <2>1. row.status = "RUNNING" /\ row'.status = "FAILED" /\ row'.tree = row.tree
    BY <1>2, SoloFacts DEF Reconcile, Stale, Row
  <2> QED BY <2>1 DEF Life!RNext, Life!Fail, Life!Open
<1>3. CASE PidRecycled \/ RemoveWorktree \/ UNCHANGED vars
  BY <1>3 DEF PidRecycled, RemoveWorktree, vars, Life!rvars
<1> QED BY <1>1, <1>2, <1>3 DEF Next

LEMMA LifeInit == Init => Life!RInit
<1> SUFFICES ASSUME Init PROVE Life!RInit
  OBVIOUS
<1>1. row.tree = Plan /\ row.status = "ABSENT" /\ \A s \in Steps : Plan[s].state = "PENDING"
  BY DEF Init, NoRow, Plan, Planned
<1>2. {s \in Steps : row.tree[s].state \in Passing} = {}
  BY <1>1 DEF Passing
<1>3. ~\E s \in Steps : row.tree[s].state \in {"FAILED", "CANCELLED"}
  BY <1>1
<1>4. Cardinality({}) = 0
  BY FS_EmptySet
<1> QED BY <1>1, <1>2, <1>3, <1>4 DEF Life!RInit

(* With one driver at a time the engine is a run as its user sees it: steps *)
(* pass in order and once, a finished run never starts again or changes its *)
(* mind, a paused run has something left to do, and COMPLETED means that    *)
(* all passed.  KeyboardInterrupt is excluded because _cancel may relabel a *)
(* step that has passed; a reconciliation that reads start times, because   *)
(* it fails a run that was resumed.                                         *)
THEOREM EngineIsARun ==
    ASSUME Exclusive, ~Fault("db"), ~StartTimeKnown, LockOwnsSignals \/ ~Fault("interrupt")
    PROVE  Spec => ImplementsRunLife
<1>1. Init => Uncancelled
  BY DEF Init, Uncancelled
<1>2. SoloIInv /\ Uncancelled /\ [Next]_vars => Uncancelled'
  BY UncancelledStep
<1>3. SoloIInv /\ OwnerDrives /\ Uncancelled /\ [Next]_vars => [Life!RNext]_(Life!rvars)
  BY LifeStep
<1> QED BY <1>1, <1>2, <1>3, LifeInit, SoloInvariant, OwnerIsDriver, PTL
        DEF Spec, ImplementsRunLife, Life!RSpec
=============================================================================
