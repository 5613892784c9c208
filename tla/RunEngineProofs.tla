--------------------------- MODULE RunEngineProofs ---------------------------
(***************************************************************************)
(* What holds of RunEngine for every number of processes and steps, every   *)
(* policy, retry budget and combination of faults: the compare-and-swap of *)
(* the execution state keeps the recorded history of a run linear.          *)
(***************************************************************************)
EXTENDS RunEngine, TLAPS

MemState == [tree : Tree, rev : Nat]
SavedStatus == {Unchanged, "RUNNING", "PAUSED"}

----------------------------------------------------------------------------
(* Trees.                                                                   *)

LEMMA PlanIsTree == Plan \in Tree
BY DEF Plan, Planned, Tree, Leaf, NodeStates

LEMMA OpenedLeaf ==
    ASSUME NEW leaf \in Leaf, NEW n \in Nat
    PROVE  /\ Opened(leaf, n) \in Leaf
           /\ Opened(leaf, n).state = "RUNNING"
BY DEF Opened, Leaf, NodeStates

LEMMA SettledLeaf ==
    ASSUME NEW leaf \in Leaf, NEW n \in Nat, NEW state \in NodeStates,
           NEW result \in {"none", "completed", "ignored", "failed"}
    PROVE  /\ Settled(leaf, state, n, result) \in Leaf
           /\ Settled(leaf, state, n, result).state = state
BY DEF Settled, Leaf

LEMMA RecoveredLeafType ==
    ASSUME NEW leaf \in Leaf
    PROVE  /\ RecoveredLeaf(leaf) \in Leaf
           /\ Ended(leaf) => RecoveredLeaf(leaf) = leaf
           /\ Ended(RecoveredLeaf(leaf)) <=> Ended(leaf)
           /\ RecoveredLeaf(leaf).state = "PENDING" <=> leaf.state = "PENDING"
BY DEF RecoveredLeaf, Settled, Interrupted, Ended, Terminal, Leaf, NodeStates

LEMMA NextNumbers ==
    ASSUME TypeOK, NEW p \in Procs, NEW s \in Steps
    PROVE  /\ mem[p].tree \in Tree /\ mem[p].rev \in Nat
           /\ mem[p].tree[s] \in Leaf
           /\ mem[p].tree[s].attempt \in Nat
           /\ NextAttempt(mem[p].tree[s]) \in Nat
           /\ LastAttempt(p, s) \in Nat
           /\ mem[p].tree[s].attempt + Budget[s] - 1 \in Nat
<1>1. mem[p].tree \in Tree /\ mem[p].rev \in Nat
  BY DEF TypeOK
<1>2. mem[p].tree[s] \in Leaf
  BY <1>1 DEF Tree
<1>3. mem[p].tree[s].attempt \in Nat
  BY <1>2 DEF Leaf
<1>4. Budget[s] \in Nat /\ Budget[s] >= 1
  BY StepsAssumption
<1> QED BY <1>1, <1>2, <1>3, <1>4 DEF NextAttempt, LastAttempt

LEMMA CommitType ==
    ASSUME TypeOK, NEW p \in Procs, NEW tree \in Tree, NEW status \in SavedStatus,
           Commit(p, tree, status)
    PROVE  row' \in Row /\ mem' \in [Procs -> MemState]
<1>1. opts.worktree \in BOOLEAN
  BY DEF TypeOK, RunOptions
<1>2. mem[p] \in MemState /\ row \in Row /\ mem[p].rev \in Nat
  BY DEF TypeOK, MemState
<1>3. row' \in Row
  <2> DEFINE st == IF status = Unchanged THEN row.status ELSE status
             wt == row.worktreeId \/ opts.worktree
  <2>1. CASE Saved(p)
    <3>1. row' = [row EXCEPT !.tree = tree, !.rev = mem[p].rev + 1, !.status = st, !.worktreeId = wt]
      BY <2>1 DEF Commit
    <3>2. st \in RunStatus \cup {"ABSENT"}
      BY <1>2 DEF SavedStatus, Row, RunStatus
    <3>3. wt \in BOOLEAN
      OBVIOUS
    <3>4. mem[p].rev + 1 \in Nat
      BY <1>2
    <3> HIDE DEF st, wt
    <3> QED BY <1>2, <3>1, <3>2, <3>3, <3>4 DEF Row
  <2>2. CASE ~Saved(p)
    BY <2>2, <1>2 DEF Commit
  <2> QED BY <2>1, <2>2
<1>4. mem' \in [Procs -> MemState]
  BY <1>2 DEF Commit, TypeOK, MemState
<1> QED BY <1>3, <1>4

LEMMA ConcludeType ==
    ASSUME TypeOK, NEW p \in Procs, NEW outcome \in Outcomes, Conclude(p, outcome)
    PROVE  ending' \in [Procs -> Ending] /\ pc' \in [Procs -> PCs]
BY DEF TypeOK, Conclude, Goto, NoEnding, Ending, PCs, Driving, InSession, InCoordinator,
       Outcomes, RunStatus

LEMMA CommitThenType ==
    ASSUME TypeOK, NEW p \in Procs, NEW tree \in Tree, NEW status \in SavedStatus,
           NEW label \in PCs, CommitThen(p, tree, status, label)
    PROVE  /\ row' \in Row /\ mem' \in [Procs -> MemState]
           /\ ending' \in [Procs -> Ending] /\ pc' \in [Procs -> PCs]
<1>1. row' \in Row /\ mem' \in [Procs -> MemState]
  BY CommitType DEF CommitThen
<1>2. ending' \in [Procs -> Ending] /\ pc' \in [Procs -> PCs]
  <2>1. CASE Saved(p)
    BY <2>1 DEF CommitThen, Goto, TypeOK
  <2>2. CASE ~Saved(p)
    BY <2>2, ConcludeType DEF CommitThen, Outcomes, RunStatus
  <2> QED BY <2>1, <2>2
<1> QED BY <1>1, <1>2

LEMMA ConcludeLabel ==
    /\ PCs = {"idle", "init", "open", "load", "recover", "drive", "exec", "prompt", "apply",
              "close", "unwind", "finish", "done", "dead"}
    /\ Outcomes = {"PAUSED", "COMPLETED", "FAILED", "CANCELLED"}
    /\ NoEnding \in Ending
BY DEF PCs, Driving, InSession, InCoordinator, Gone, Outcomes, RunStatus, NoEnding, Ending

(* The tree a failure gate commits.                                         *)
LEMMA WithLeafType ==
    ASSUME TypeOK, NEW p \in Procs, NEW s \in Steps, NEW n \in Nat, NEW state \in NodeStates,
           NEW result \in {"none", "completed", "ignored", "failed"}
    PROVE  WithLeaf(p, s, state, n, result) \in Tree
BY NextNumbers, SettledLeaf DEF WithLeaf, Tree

LEMMA GateType ==
    ASSUME TypeOK, NEW p \in Procs, NEW s \in Steps, NEW n \in Nat, FailureGate(p, s, n)
    PROVE  /\ row' \in Row /\ mem' \in [Procs -> MemState]
           /\ ending' \in [Procs -> Ending] /\ pc' \in [Procs -> PCs]
<1>0. {"IGNORED", "PAUSED", "FAILED"} \subseteq NodeStates /\ {Unchanged, "PAUSED"} \subseteq SavedStatus
  BY DEF NodeStates, SavedStatus
<1>1. CASE CommitThen(p, WithLeaf(p, s, "IGNORED", n, "ignored"), Unchanged, "drive")
  BY <1>0, <1>1, WithLeafType, CommitThenType, ConcludeLabel
<1>2. CASE CommitThen(p, WithLeaf(p, s, "PAUSED", n, "failed"), "PAUSED", "prompt")
  BY <1>0, <1>2, WithLeafType, CommitThenType, ConcludeLabel
<1>3. CASE CommitFailed(p, WithLeaf(p, s, "FAILED", n, "failed"), Unchanged)
  <2>1. WithLeaf(p, s, "FAILED", n, "failed") \in Tree
    BY <1>0, WithLeafType
  <2> QED BY <1>0, <1>3, <2>1, CommitType, ConcludeType, ConcludeLabel DEF CommitFailed
<1> QED BY <1>1, <1>2, <1>3 DEF FailureGate

(* Recovering commits a tree.                                               *)
LEMMA RecoveredTree ==
    ASSUME TypeOK, NEW p \in Procs
    PROVE  [s \in Steps |-> RecoveredLeaf(mem[p].tree[s])] \in Tree
BY NextNumbers, RecoveredLeafType DEF Tree

LEMMA OpenedTree ==
    ASSUME TypeOK, NEW p \in Procs, NEW s \in Steps, NEW n \in Nat
    PROVE  [mem[p].tree EXCEPT ![s] = Opened(@, n)] \in Tree
BY NextNumbers, OpenedLeaf DEF Tree

LEMMA UsedType ==
    ASSUME TypeOK, NEW s \in Steps, NEW first \in Nat, NEW last \in Nat, Used(s, first, last)
    PROVE  ran' \in [Steps -> SUBSET Nat]
BY DEF Used, TypeOK

LEMMA WorldType ==
    ASSUME TypeOK, UNCHANGED world
    PROVE  /\ wtDir' \in BOOLEAN /\ applied' \in BOOLEAN /\ recycled' \in BOOLEAN
           /\ diff' \subseteq Steps /\ ran' \in [Steps -> SUBSET Nat] /\ opts' \in RunOptions
BY DEF TypeOK, world

(* What each kind of step preserves of TypeOK.                              *)
LEMMA GotoType ==
    ASSUME TypeOK, NEW p \in Procs, NEW label \in PCs, Goto(p, label)
    PROVE  pc' \in [Procs -> PCs]
BY DEF TypeOK, Goto

LEMMA TypeProgress ==
    ASSUME TypeOK, NEW p \in Procs, Progress(p)
    PROVE  TypeOK'
<1> USE ConcludeLabel, PlanIsTree
<1>1. CASE InitState(p)
  BY <1>1, GotoType, WorldType DEF InitState, TypeOK, Row
<1>2. CASE StartFails(p)
  BY <1>2, GotoType, WorldType DEF StartFails, TypeOK, Row, RunStatus
<1>3. CASE OpenSession(p)
  <2>1. wtDir' \in BOOLEAN
    BY <1>3 DEF OpenSession, TypeOK, RunOptions
  <2> QED BY <1>3, <2>1, GotoType DEF OpenSession, TypeOK
<1>4. CASE OpenFails(p)
  BY <1>4, GotoType, WorldType DEF OpenFails, TypeOK
<1>5. CASE LoadState(p)
  <2>1. mem' \in [Procs -> MemState]
    BY <1>5 DEF LoadState, TypeOK, MemState, Row
  <2>2. pc' \in [Procs -> PCs]
    BY <1>5, GotoType DEF LoadState
  <2> QED BY <1>5, <2>1, <2>2, WorldType DEF LoadState, TypeOK, MemState
<1>6. CASE LoadFails(p)
  BY <1>6, ConcludeType, WorldType DEF LoadFails, TypeOK
<1>7. CASE RecoverInterrupted(p)
  <2>1. Unchanged \in SavedStatus
    BY DEF SavedStatus
  <2>2. /\ row' \in Row /\ mem' \in [Procs -> MemState]
        /\ ending' \in [Procs -> Ending] /\ pc' \in [Procs -> PCs]
    BY <1>7, <2>1, RecoveredTree, CommitThenType DEF RecoverInterrupted
  <2> QED BY <1>7, <2>2, WorldType DEF RecoverInterrupted, TypeOK, MemState
<1>8. ASSUME NEW s \in Steps,
             \/ BeginAttempt(p, s) \/ StartAttempt(p, s)
             \/ \E n \in mem[p].tree[s].attempt..LastAttempt(p, s) : AttemptPasses(p, s, n)
             \/ AttemptIgnored(p, s) \/ AttemptFails(p, s) \/ ReenterGate(p, s)
      PROVE  TypeOK'
  <2>0. Unchanged \in SavedStatus
    BY DEF SavedStatus
  <2>1. CASE BeginAttempt(p, s)
    <3>1. /\ row' \in Row /\ mem' \in [Procs -> MemState]
          /\ ending' \in [Procs -> Ending] /\ pc' \in [Procs -> PCs]
      BY <2>0, <2>1, OpenedTree, CommitThenType DEF BeginAttempt
    <3>2. inflight' \in [Procs -> Steps \cup {0}]
      BY <2>1 DEF BeginAttempt, TypeOK
    <3> QED BY <2>1, <3>1, <3>2, WorldType DEF BeginAttempt, TypeOK, MemState
  <2>2. CASE StartAttempt(p, s)
    <3>1. ran' \in [Steps -> SUBSET Nat]
      BY <2>2, NextNumbers DEF StartAttempt, TypeOK
    <3>2. inflight' \in [Procs -> Steps \cup {0}] /\ pc' \in [Procs -> PCs]
      BY <2>2, GotoType DEF StartAttempt, TypeOK
    <3> QED BY <2>2, <3>1, <3>2 DEF StartAttempt, TypeOK
  <2>3. ASSUME NEW n \in mem[p].tree[s].attempt..LastAttempt(p, s), AttemptPasses(p, s, n)
        PROVE  TypeOK'
    <3>0. n \in Nat /\ mem[p].tree[s].attempt \in Nat
      BY NextNumbers
    <3>1. ran' \in [Steps -> SUBSET Nat]
      BY <2>3, <3>0, UsedType DEF AttemptPasses
    <3>2. [mem[p].tree EXCEPT ![s] = Settled(@, "COMPLETED", n, "completed")] \in Tree
      BY <3>0, WithLeafType DEF WithLeaf, NodeStates
    <3>3. /\ row' \in Row /\ mem' \in [Procs -> MemState]
          /\ ending' \in [Procs -> Ending] /\ pc' \in [Procs -> PCs]
      BY <2>0, <2>3, <3>2, CommitThenType DEF AttemptPasses
    <3> QED BY <2>3, <3>1, <3>3 DEF AttemptPasses, TypeOK, MemState
  <2>4. CASE AttemptIgnored(p, s)
    <3>1. ran' \in [Steps -> SUBSET Nat]
      BY <2>4, NextNumbers, UsedType DEF AttemptIgnored, UsedUp
    <3>2. [mem[p].tree EXCEPT ![s] = Settled(@, "IGNORED", LastAttempt(p, s), "ignored")] \in Tree
      BY NextNumbers, WithLeafType DEF WithLeaf, NodeStates
    <3>3. /\ row' \in Row /\ mem' \in [Procs -> MemState]
          /\ ending' \in [Procs -> Ending] /\ pc' \in [Procs -> PCs]
      BY <2>0, <2>4, <3>2, CommitThenType DEF AttemptIgnored
    <3> QED BY <2>4, <3>1, <3>3 DEF AttemptIgnored, TypeOK, MemState
  <2>5. CASE AttemptFails(p, s)
    <3>1. ran' \in [Steps -> SUBSET Nat]
      BY <2>5, NextNumbers, UsedType DEF AttemptFails, UsedUp
    <3>2. /\ row' \in Row /\ mem' \in [Procs -> MemState]
          /\ ending' \in [Procs -> Ending] /\ pc' \in [Procs -> PCs]
      BY <2>5, NextNumbers, GateType DEF AttemptFails
    <3> QED BY <2>5, <3>1, <3>2 DEF AttemptFails, TypeOK, MemState
  <2>6. CASE ReenterGate(p, s)
    <3>1. /\ row' \in Row /\ mem' \in [Procs -> MemState]
          /\ ending' \in [Procs -> Ending] /\ pc' \in [Procs -> PCs]
      BY <2>6, NextNumbers, GateType DEF ReenterGate
    <3>2. inflight' \in [Procs -> Steps \cup {0}]
      BY <2>6 DEF ReenterGate, TypeOK
    <3> QED BY <2>6, <3>1, <3>2, WorldType DEF ReenterGate, TypeOK, MemState
  <2> QED BY <1>8, <2>1, <2>2, <2>3, <2>4, <2>5, <2>6
<1>9. CASE NothingLeft(p)
  BY <1>9, ConcludeType, WorldType DEF NothingLeft, TypeOK
<1>10. CASE AutoApply(p)
  <2>1. ending' \in [Procs -> Ending] /\ applied' \in BOOLEAN
    <3>1. CASE UNCHANGED ending
      BY <1>10, <3>1 DEF AutoApply, TypeOK
    <3>2. CASE /\ ending' = [ending EXCEPT ![p].outcome = "FAILED", ![p].applyFailed = TRUE]
               /\ UNCHANGED applied
      <4>1. [ending[p] EXCEPT !.outcome = "FAILED", !.applyFailed = TRUE] \in Ending
        BY DEF TypeOK, Ending
      <4> QED BY <3>2, <4>1 DEF TypeOK
    <3> QED BY <1>10, <3>1, <3>2 DEF AutoApply
  <2> QED BY <1>10, <2>1, GotoType DEF AutoApply, TypeOK
<1>11. CASE Close(p)
  <2>1. KeepsWorktree(ending[p]) \in BOOLEAN
    BY DEF KeepsWorktree
  <2>2. ending' \in [Procs -> Ending]
    BY <1>11, <2>1 DEF Close, TypeOK, Ending
  <2>3. diff' \subseteq Steps /\ wtDir' \in BOOLEAN
    BY <1>11 DEF Close, CloseWorktree, StepsRan, TypeOK
  <2> QED BY <1>11, <2>2, <2>3, GotoType DEF Close, TypeOK
<1>12. CASE CloseUnwinding(p)
  <2>1. diff' \subseteq Steps /\ wtDir' \in BOOLEAN
    BY <1>12 DEF CloseUnwinding, CloseWorktree, StepsRan, TypeOK
  <2> QED BY <1>12, <2>1, GotoType DEF CloseUnwinding, TypeOK
<1>13. CASE Finish(p)
  <2>1. Finalized(p) \in Row
    <3>1. (row.worktreeId \/ (ending[p].opened /\ opts.worktree)) \in BOOLEAN
      OBVIOUS
    <3>2. ending[p] \in Ending /\ row \in Row
      BY DEF TypeOK
    <3> QED BY <3>1, <3>2 DEF Finalized, Row, Ending, Outcomes
  <2>2. row' \in Row
    BY <1>13, <2>1 DEF Finish, TypeOK, Row
  <2> QED BY <1>13, <2>2, GotoType, WorldType DEF Finish, TypeOK
<1> QED BY <1>1, <1>2, <1>3, <1>4, <1>5, <1>6, <1>7, <1>8, <1>9, <1>10, <1>11, <1>12, <1>13
        DEF Progress

LEMMA TypeUser ==
    ASSUME TypeOK, NEW p \in Procs, User(p)
    PROVE  TypeOK'
<1> USE ConcludeLabel
<1>1. CASE InsertRow(p)
  <2>1. [NoRow EXCEPT !.status = "RUNNING", !.owner = p] \in Row
    BY PlanIsTree DEF NoRow, Row, RunStatus
  <2> QED BY <1>1, <2>1, GotoType, WorldType DEF InsertRow, TypeOK
<1>2. CASE ResumeRun(p)
  <2>1. [row EXCEPT !.status = "RUNNING", !.owner = p] \in Row
    BY DEF TypeOK, Row, RunStatus
  <2> QED BY <1>2, <2>1, GotoType DEF ResumeRun, TypeOK
<1>3. ASSUME NEW s \in Steps, PromptRetry(p, s) \/ PromptContinue(p, s) \/ PromptAbort(p, s)
      PROVE  TypeOK'
  <2>0. "RUNNING" \in SavedStatus
    BY DEF SavedStatus
  <2>1. CASE PromptRetry(p, s)
    <3>1. [mem[p].tree EXCEPT ![s] = Opened(@, NextAttempt(@))] \in Tree
      BY NextNumbers, OpenedTree
    <3>2. /\ row' \in Row /\ mem' \in [Procs -> MemState]
          /\ ending' \in [Procs -> Ending] /\ pc' \in [Procs -> PCs]
      BY <2>0, <2>1, <3>1, CommitThenType DEF PromptRetry
    <3> QED BY <2>1, <3>2, WorldType DEF PromptRetry, TypeOK, MemState
  <2>2. CASE PromptContinue(p, s)
    <3>1. [mem[p].tree EXCEPT ![s] = Settled(@, "IGNORED", @.attempt, "ignored")] \in Tree
      BY NextNumbers, WithLeafType DEF WithLeaf, NodeStates
    <3>2. /\ row' \in Row /\ mem' \in [Procs -> MemState]
          /\ ending' \in [Procs -> Ending] /\ pc' \in [Procs -> PCs]
      BY <2>0, <2>2, <3>1, CommitThenType DEF PromptContinue
    <3> QED BY <2>2, <3>2, WorldType DEF PromptContinue, TypeOK, MemState
  <2>3. CASE PromptAbort(p, s)
    <3>1. [mem[p].tree EXCEPT ![s] = Settled(@, "FAILED", @.attempt, "failed")] \in Tree
      BY NextNumbers, WithLeafType DEF WithLeaf, NodeStates
    <3>2. /\ row' \in Row /\ mem' \in [Procs -> MemState]
          /\ ending' \in [Procs -> Ending] /\ pc' \in [Procs -> PCs]
      BY <2>0, <2>3, <3>1, CommitType, ConcludeType DEF PromptAbort, CommitFailed
    <3> QED BY <2>3, <3>2, WorldType DEF PromptAbort, TypeOK, MemState
  <2> QED BY <1>3, <2>1, <2>2, <2>3
<1> QED BY <1>1, <1>2, <1>3 DEF User

LEMMA TypeDisturbance ==
    ASSUME TypeOK, NEW p \in Procs, Disturbance(p)
    PROVE  TypeOK'
<1> USE ConcludeLabel
<1>1. CASE Die(p)
  BY <1>1, GotoType, WorldType DEF Die, TypeOK
<1>2. CASE Unwind(p)
  BY <1>2, GotoType, WorldType DEF Unwind, TypeOK
<1>3. CASE CancelRun(p)
  <2>1. row' \in Row /\ mem' \in [Procs -> MemState]
    <3>1. CASE inflight[p] \in Steps
      <4>1. [mem[p].tree EXCEPT ![inflight[p]].state = "CANCELLED"] \in Tree
        BY <3>1, NextNumbers DEF Tree, Leaf, NodeStates
      <4> QED BY <1>3, <3>1, <4>1, CommitType DEF CancelRun, SavedStatus
    <3>2. CASE inflight[p] \notin Steps
      BY <1>3, <3>2 DEF CancelRun, TypeOK, MemState
    <3> QED BY <3>1, <3>2
  <2> QED BY <1>3, <2>1, ConcludeType, WorldType DEF CancelRun, TypeOK, MemState
<1>4. CASE LeavePrompt(p)
  BY <1>4, ConcludeType, WorldType DEF LeavePrompt, TypeOK
<1> QED BY <1>1, <1>2, <1>3, <1>4 DEF Disturbance

LEMMA TypeInit == Init => TypeOK
<1> SUFFICES ASSUME Init PROVE TypeOK
  OBVIOUS
<1>1. row \in Row
  BY PlanIsTree DEF Init, Row, NoRow
<1>2. mem \in [Procs -> MemState] /\ inflight \in [Procs -> Steps \cup {0}]
  BY PlanIsTree DEF Init, MemState
<1>3. pc \in [Procs -> PCs] /\ ending \in [Procs -> Ending]
  BY ConcludeLabel DEF Init
<1>4. wtDir \in BOOLEAN /\ applied \in BOOLEAN /\ recycled \in BOOLEAN
  BY DEF Init
<1>5. diff \subseteq Steps /\ ran \in [Steps -> SUBSET Nat] /\ opts \in RunOptions
  BY SettingsAssumption DEF Init
<1> QED BY <1>1, <1>2, <1>3, <1>4, <1>5 DEF TypeOK, MemState

LEMMA TypeStep == TypeOK /\ [Next]_vars => TypeOK'
<1> SUFFICES ASSUME TypeOK, [Next]_vars PROVE TypeOK'
  OBVIOUS
<1>1. ASSUME NEW p \in Procs, Progress(p) \/ User(p) \/ Disturbance(p) PROVE TypeOK'
  BY <1>1, TypeProgress, TypeUser, TypeDisturbance
<1>2. CASE Reconcile
  BY <1>2, WorldType DEF Reconcile, TypeOK, Row, RunStatus
<1>3. CASE PidRecycled
  BY <1>3 DEF PidRecycled, TypeOK
<1>4. CASE RemoveWorktree
  BY <1>4 DEF RemoveWorktree, TypeOK
<1>5. CASE UNCHANGED vars
  BY <1>5, WorldType DEF vars, TypeOK
<1> QED BY <1>1, <1>2, <1>3, <1>4, <1>5 DEF Next

(* Every reachable state has the types the code gives its records.          *)
THEOREM TypeCorrect == Spec => []TypeOK
BY TypeInit, TypeStep, PTL DEF Spec

----------------------------------------------------------------------------
(* Every step is of one of five kinds, seen from the row's tree: it leaves  *)
(* the tree and the coordinators alone, it belongs to the start of the run, *)
(* a coordinator loads the row, a coordinator starts the leaf in hand, or a *)
(* coordinator commits a tree that differs from its own as history allows.  *)

InOrder(tree) ==
    \A r, s \in Steps : r < s /\ tree[s].state # "PENDING" => Ended(tree[r])

History(old, new) ==
    /\ \A s \in Steps : Ended(old[s]) => new[s] = old[s] \/ new[s].state = "CANCELLED"
    /\ InOrder(old) => InOrder(new)

Quiet ==
    /\ row'.tree = row.tree /\ row'.rev \in Nat /\ row'.rev >= row.rev
    /\ UNCHANGED <<mem, inflight>>
    /\ \A q \in Procs : MayCommit(q)' => pc'[q] = pc[q]

Early ==
    /\ pc[Runner] \in {"idle", "init"}
    /\ row'.tree = Plan /\ row'.rev = 0
    /\ \A q \in Procs : ~MayCommit(q)'

Loading(p) ==
    /\ row' = row
    /\ mem' = [mem EXCEPT ![p] = [tree |-> row.tree, rev |-> row.rev]]
    /\ inflight' = [inflight EXCEPT ![p] = 0]
    /\ \E label \in {"recover", "drive"} : Goto(p, label)

Committing(p, tree) ==
    /\ MayCommit(p)
    /\ tree \in Tree /\ History(mem[p].tree, tree)
    /\ \E status \in SavedStatus : Commit(p, tree, status)
    /\ \A q \in Procs \ {p} : pc'[q] = pc[q] /\ inflight'[q] = inflight[q]
    /\ pc'[p] \in {"drive", "prompt", "close"}
    /\ pc'[p] # "close" => Saved(p)
    /\ pc'[p] = "drive" /\ inflight'[p] \in Steps => tree[inflight'[p]].state # "PENDING"
    /\ pc'[p] = "prompt" => /\ inflight'[p] \in Steps
                            /\ Upcoming(tree, inflight'[p])
                            /\ tree[inflight'[p]].state = "PAUSED"

(* Changing the next node, or relabelling a touched one as cancelled, is    *)
(* what history allows.                                                     *)
LEMMA NextNodeHistory ==
    ASSUME NEW tree \in Tree, NEW s \in Steps, NEW leaf \in Leaf,
           Upcoming(tree, s) \/ (tree[s].state # "PENDING" /\ leaf.state = "CANCELLED")
    PROVE  /\ [tree EXCEPT ![s] = leaf] \in Tree
           /\ History(tree, [tree EXCEPT ![s] = leaf])
<1> DEFINE new == [tree EXCEPT ![s] = leaf]
<1>1. new \in Tree /\ new[s] = leaf /\ \A r \in Steps \ {s} : new[r] = tree[r]
  BY DEF Tree
<1>2. \A r \in Steps : Ended(tree[r]) => new[r] = tree[r] \/ new[r].state = "CANCELLED"
  BY <1>1 DEF Upcoming
<1>3. ASSUME InOrder(tree), NEW r \in Steps, NEW q \in Steps, r < q, new[q].state # "PENDING"
      PROVE  Ended(new[r])
  <2>1. Ended(tree[r])
    <3>1. CASE q = s /\ Upcoming(tree, s)
      <4>1. r \in 1..(s - 1)
        BY <1>3, <3>1, StepsAssumption DEF Steps
      <4> QED BY <3>1, <4>1 DEF Upcoming
    <3>2. CASE q = s /\ tree[s].state # "PENDING"
      BY <1>3, <3>2 DEF InOrder
    <3>3. CASE q # s
      BY <1>1, <1>3, <3>3 DEF InOrder
    <3> QED BY <3>1, <3>2, <3>3
  <2>2. r = s => leaf.state = "CANCELLED"
    BY <2>1 DEF Upcoming
  <2> QED BY <1>1, <2>1, <2>2 DEF Ended, Terminal
<1> HIDE DEF new
<1>4. InOrder(tree) => InOrder(new)
  BY <1>3 DEF InOrder
<1> QED BY <1>1, <1>2, <1>4 DEF History, new

LEMMA RecoverHistory ==
    ASSUME NEW tree \in Tree
    PROVE  History(tree, [s \in Steps |-> RecoveredLeaf(tree[s])])
<1>1. \A s \in Steps : tree[s] \in Leaf
  BY DEF Tree
<1> QED BY <1>1, RecoveredLeafType DEF History, InOrder

(* A commit that goes on at label, of a tree whose node s was the next one. *)
LEMMA CommitThenKind ==
    ASSUME TypeOK, NEW p \in Procs, MayCommit(p), NEW s \in Steps, NEW leaf \in Leaf,
           Upcoming(mem[p].tree, s) \/ (mem[p].tree[s].state # "PENDING" /\ leaf.state = "CANCELLED"),
           NEW status \in SavedStatus, NEW label \in {"drive", "prompt", "close"},
           inflight' = [inflight EXCEPT ![p] = s] \/ (UNCHANGED inflight /\ inflight[p] = s),
           leaf.state # "PENDING",
           label = "prompt" => leaf.state = "PAUSED" /\ Upcoming(mem[p].tree, s),
           \/ CommitThen(p, [mem[p].tree EXCEPT ![s] = leaf], status, label)
           \/ /\ Commit(p, [mem[p].tree EXCEPT ![s] = leaf], status)
              /\ \E outcome \in {"FAILED", "CANCELLED"} : Conclude(p, outcome)
    PROVE  Committing(p, [mem[p].tree EXCEPT ![s] = leaf])
<1> DEFINE tree == [mem[p].tree EXCEPT ![s] = leaf]
<1>1. mem[p].tree \in Tree
  BY NextNumbers DEF TypeOK
<1>2. tree \in Tree /\ History(mem[p].tree, tree)
  BY <1>1, NextNodeHistory
<1>3. tree[s] = leaf
  BY <1>1 DEF Tree
<1>4. /\ inflight'[p] = s
      /\ \A q \in Procs \ {p} : inflight'[q] = inflight[q]
  BY DEF TypeOK
<1>5. \E st \in SavedStatus : Commit(p, tree, st)
  BY DEF CommitThen
<1>6. /\ \A q \in Procs \ {p} : pc'[q] = pc[q]
      /\ pc'[p] \in {label, "close"}
      /\ pc'[p] # "close" => Saved(p) /\ pc'[p] = label
  BY DEF CommitThen, Conclude, Goto, TypeOK
<1>7. label = "prompt" => Upcoming(tree, s)
  <2> SUFFICES ASSUME label = "prompt" PROVE Upcoming(tree, s)
    OBVIOUS
  <2>1. Upcoming(mem[p].tree, s) /\ leaf.state = "PAUSED"
    OBVIOUS
  <2>2. \A r \in 1..(s - 1) : r \in Steps /\ r # s
    BY StepsAssumption DEF Steps
  <2>3. \A r \in 1..(s - 1) : tree[r] = mem[p].tree[r]
    BY <1>1, <2>2 DEF Tree
  <2> QED BY <1>3, <2>1, <2>3 DEF Upcoming, Ended, Terminal
<1> HIDE DEF tree
<1>8. Committing(p, tree)
  BY <1>2, <1>3, <1>4, <1>5, <1>6, <1>7 DEF Committing
<1> QED BY <1>8 DEF tree

LEMMA UpcomingLeaf ==
    ASSUME TypeOK, NEW p \in Procs, NEW s \in Steps
    PROVE  /\ mem[p].tree[s] \in Leaf
           /\ \A n \in Nat : Opened(mem[p].tree[s], n) \in Leaf
           /\ \A n \in Nat, state \in NodeStates, result \in {"completed", "ignored", "failed"} :
                 /\ Settled(mem[p].tree[s], state, n, result) \in Leaf
                 /\ Settled(mem[p].tree[s], state, n, result).state = state
<1>1. mem[p].tree[s] \in Leaf
  BY NextNumbers
<1>2. \A n \in Nat : Opened(mem[p].tree[s], n) \in Leaf
  BY <1>1, OpenedLeaf
<1>3. ASSUME NEW n \in Nat, NEW state \in NodeStates,
             NEW result \in {"completed", "ignored", "failed"}
      PROVE  /\ Settled(mem[p].tree[s], state, n, result) \in Leaf
             /\ Settled(mem[p].tree[s], state, n, result).state = state
  BY <1>1, SettledLeaf
<1> QED BY <1>1, <1>2, <1>3

LEMMA GateKind ==
    ASSUME TypeOK, NEW p \in Procs, MayCommit(p), NEW s \in Steps, NEW n \in Nat,
           Upcoming(mem[p].tree, s), FailureGate(p, s, n),
           inflight' = [inflight EXCEPT ![p] = s] \/ (UNCHANGED inflight /\ inflight[p] = s)
    PROVE  \E tree \in Tree : Committing(p, tree)
<1>0. /\ {"IGNORED", "PAUSED", "FAILED"} \subseteq NodeStates
      /\ {Unchanged, "PAUSED"} \subseteq SavedStatus
  BY DEF NodeStates, SavedStatus
<1>1. CASE CommitThen(p, WithLeaf(p, s, "IGNORED", n, "ignored"), Unchanged, "drive")
  <2> DEFINE leaf == Settled(mem[p].tree[s], "IGNORED", n, "ignored")
  <2>1. leaf \in Leaf /\ leaf.state = "IGNORED"
    BY <1>0, UpcomingLeaf
  <2>2. WithLeaf(p, s, "IGNORED", n, "ignored") = [mem[p].tree EXCEPT ![s] = leaf]
    BY DEF WithLeaf
  <2> HIDE DEF leaf
  <2>3. Committing(p, [mem[p].tree EXCEPT ![s] = leaf])
    BY <1>0, <1>1, <2>1, <2>2, CommitThenKind
  <2> QED BY <2>3 DEF Committing
<1>2. CASE CommitThen(p, WithLeaf(p, s, "PAUSED", n, "failed"), "PAUSED", "prompt")
  <2> DEFINE leaf == Settled(mem[p].tree[s], "PAUSED", n, "failed")
  <2>1. leaf \in Leaf /\ leaf.state = "PAUSED"
    BY <1>0, UpcomingLeaf
  <2>2. WithLeaf(p, s, "PAUSED", n, "failed") = [mem[p].tree EXCEPT ![s] = leaf]
    BY DEF WithLeaf
  <2> HIDE DEF leaf
  <2>3. Committing(p, [mem[p].tree EXCEPT ![s] = leaf])
    BY <1>0, <1>2, <2>1, <2>2, CommitThenKind
  <2> QED BY <2>3 DEF Committing
<1>3. CASE CommitFailed(p, WithLeaf(p, s, "FAILED", n, "failed"), Unchanged)
  <2> DEFINE leaf == Settled(mem[p].tree[s], "FAILED", n, "failed")
  <2>1. leaf \in Leaf /\ leaf.state = "FAILED"
    BY <1>0, UpcomingLeaf
  <2>2. WithLeaf(p, s, "FAILED", n, "failed") = [mem[p].tree EXCEPT ![s] = leaf]
    BY DEF WithLeaf
  <2> HIDE DEF leaf
  <2>3. Committing(p, [mem[p].tree EXCEPT ![s] = leaf])
    BY <1>0, <1>3, <2>1, <2>2, CommitThenKind DEF CommitFailed
  <2> QED BY <2>3 DEF Committing
<1> QED BY <1>1, <1>2, <1>3 DEF FailureGate

(* A step that commits nothing, and moves p where it will not commit.       *)
LEMMA QuietGoto ==
    ASSUME TypeOK, NEW p \in Procs, NEW label \in PCs,
           label \notin {"recover", "drive", "exec", "prompt"}, Goto(p, label),
           row'.tree = row.tree, row'.rev = row.rev, UNCHANGED <<mem, inflight>>
    PROVE  Quiet
BY DEF Quiet, MayCommit, Goto, TypeOK, Row

LEMMA QuietConclude ==
    ASSUME TypeOK, NEW p \in Procs, NEW outcome \in Outcomes, Conclude(p, outcome),
           UNCHANGED <<row, mem, inflight>>
    PROVE  Quiet
<1>1. \E label \in {"apply", "close"} : Goto(p, label)
  BY DEF Conclude
<1> QED BY <1>1, QuietGoto, ConcludeLabel

LEMMA ProgressKind ==
    ASSUME IInv, NEW p \in Procs, Progress(p)
    PROVE  \/ Quiet \/ Early \/ Loading(p)
           \/ \E s \in Steps : StartAttempt(p, s)
           \/ \E tree \in Tree : Committing(p, tree)
<1>0. TypeOK /\ LeafInHand /\ NothingBeforeInit
  BY DEF IInv
<1>00. Unchanged \in SavedStatus
  BY DEF SavedStatus
<1>1. CASE InitState(p)
  <2>1. p = Runner /\ \A q \in Procs \ {p} : pc[q] = "idle"
    BY <1>0, <1>1 DEF InitState, NothingBeforeInit
  <2>2. row'.tree = Plan /\ row'.rev = 0
    BY <1>0, <1>1 DEF InitState, TypeOK, Row
  <2>3. \A q \in Procs : pc'[q] \in {"open", "idle"}
    BY <1>0, <1>1, <2>1 DEF InitState, Goto, TypeOK
  <2>4. Early
    BY <1>1, <2>1, <2>2, <2>3 DEF InitState, Early, MayCommit
  <2> QED BY <2>4
<1>2. CASE StartFails(p)
  BY <1>0, <1>2, QuietGoto, ConcludeLabel DEF StartFails, TypeOK, Row
<1>3. CASE OpenSession(p)
  <2>1. Quiet
    BY <1>0, <1>3 DEF OpenSession, Quiet, MayCommit, Goto, TypeOK, Row
  <2> QED BY <2>1
<1>4. CASE OpenFails(p)
  BY <1>0, <1>4, QuietGoto, ConcludeLabel DEF OpenFails
<1>5. CASE LoadState(p)
  <2>1. Loading(p)
    BY <1>5 DEF LoadState, Loading
  <2> QED BY <2>1
<1>6. CASE LoadFails(p)
  BY <1>0, <1>6, QuietConclude, ConcludeLabel DEF LoadFails
<1>7. CASE RecoverInterrupted(p)
  <2> DEFINE tree == [s \in Steps |-> RecoveredLeaf(mem[p].tree[s])]
  <2>1. mem[p].tree \in Tree /\ tree \in Tree /\ History(mem[p].tree, tree)
    BY <1>0, RecoveredTree, RecoverHistory DEF TypeOK
  <2>2. MayCommit(p) /\ Commit(p, tree, Unchanged) /\ UNCHANGED inflight
    BY <1>7 DEF RecoverInterrupted, CommitThen, MayCommit
  <2>3. /\ \A q \in Procs \ {p} : pc'[q] = pc[q]
        /\ pc'[p] \in {"drive", "close"} /\ (pc'[p] = "drive" => Saved(p))
    BY <1>0, <1>7 DEF RecoverInterrupted, CommitThen, Conclude, Goto, TypeOK
  <2>4. \A s \in Steps : tree[s].state = "PENDING" <=> mem[p].tree[s].state = "PENDING"
    BY <2>1, RecoveredLeafType DEF Tree
  <2>5. inflight[p] \in Steps => tree[inflight[p]].state # "PENDING"
    BY <1>0, <2>2, <2>4 DEF LeafInHand
  <2> HIDE DEF tree
  <2>6. Committing(p, tree)
    BY <1>00, <2>1, <2>2, <2>3, <2>5 DEF Committing
  <2> QED BY <2>1, <2>6
<1>8. ASSUME NEW s \in Steps,
             \/ BeginAttempt(p, s) \/ StartAttempt(p, s)
             \/ \E n \in mem[p].tree[s].attempt..LastAttempt(p, s) : AttemptPasses(p, s, n)
             \/ AttemptIgnored(p, s) \/ AttemptFails(p, s) \/ ReenterGate(p, s)
      PROVE  StartAttempt(p, s) \/ \E tree \in Tree : Committing(p, tree)
  <2>0. pc[p] = "exec" /\ inflight[p] = s => Upcoming(mem[p].tree, s)
    BY <1>0 DEF LeafInHand
  <2>1. CASE BeginAttempt(p, s)
    <3> DEFINE leaf == Opened(mem[p].tree[s], 1)
    <3>1. leaf \in Leaf /\ leaf.state = "RUNNING"
      BY <1>0, UpcomingLeaf, OpenedLeaf
    <3>2. CommitThen(p, [mem[p].tree EXCEPT ![s] = leaf], Unchanged, "drive")
      BY <2>1 DEF BeginAttempt
    <3> HIDE DEF leaf
    <3>3. Committing(p, [mem[p].tree EXCEPT ![s] = leaf])
      BY <1>0, <1>00, <2>1, <3>1, <3>2, CommitThenKind DEF BeginAttempt, MayCommit
    <3> QED BY <3>3 DEF Committing
  <2>3. ASSUME NEW n \in mem[p].tree[s].attempt..LastAttempt(p, s), AttemptPasses(p, s, n)
        PROVE  \E tree \in Tree : Committing(p, tree)
    <3> DEFINE leaf == Settled(mem[p].tree[s], "COMPLETED", n, "completed")
    <3>1. leaf \in Leaf /\ leaf.state = "COMPLETED"
      BY <1>0, NextNumbers, UpcomingLeaf DEF NodeStates
    <3>2. CommitThen(p, [mem[p].tree EXCEPT ![s] = leaf], Unchanged, "drive")
      BY <2>3 DEF AttemptPasses
    <3> HIDE DEF leaf
    <3>3. Committing(p, [mem[p].tree EXCEPT ![s] = leaf])
      BY <1>0, <1>00, <2>0, <2>3, <3>1, <3>2, CommitThenKind DEF AttemptPasses, MayCommit
    <3> QED BY <3>3 DEF Committing
  <2>4. CASE AttemptIgnored(p, s)
    <3> DEFINE leaf == Settled(mem[p].tree[s], "IGNORED", LastAttempt(p, s), "ignored")
    <3>1. leaf \in Leaf /\ leaf.state = "IGNORED"
      BY <1>0, NextNumbers, UpcomingLeaf DEF NodeStates
    <3>2. CommitThen(p, [mem[p].tree EXCEPT ![s] = leaf], Unchanged, "drive")
      BY <2>4 DEF AttemptIgnored
    <3> HIDE DEF leaf
    <3>3. Committing(p, [mem[p].tree EXCEPT ![s] = leaf])
      BY <1>0, <1>00, <2>0, <2>4, <3>1, <3>2, CommitThenKind DEF AttemptIgnored, MayCommit
    <3> QED BY <3>3 DEF Committing
  <2>5. CASE AttemptFails(p, s)
    BY <1>0, <2>0, <2>5, NextNumbers, GateKind DEF AttemptFails, MayCommit
  <2>6. CASE ReenterGate(p, s)
    BY <1>0, <2>6, NextNumbers, GateKind DEF ReenterGate, MayCommit
  <2> QED BY <1>8, <2>1, <2>3, <2>4, <2>5, <2>6
<1>9. CASE NothingLeft(p)
  BY <1>0, <1>9, QuietConclude, ConcludeLabel DEF NothingLeft
<1>10. CASE AutoApply(p)
  BY <1>0, <1>10, QuietGoto, ConcludeLabel DEF AutoApply
<1>11. CASE Close(p)
  BY <1>0, <1>11, QuietGoto, ConcludeLabel DEF Close
<1>12. CASE CloseUnwinding(p)
  BY <1>0, <1>12, QuietGoto, ConcludeLabel DEF CloseUnwinding
<1>13. CASE Finish(p)
  <2>1. row'.tree = row.tree /\ row'.rev \in {row.rev, row.rev + 1}
    BY <1>0, <1>13 DEF Finish, Finalized, TypeOK, Row
  <2> QED BY <1>0, <1>13, <2>1 DEF Finish, Quiet, MayCommit, Goto, TypeOK, Row
<1> QED BY <1>1, <1>2, <1>3, <1>4, <1>5, <1>6, <1>7, <1>8, <1>9, <1>10, <1>11, <1>12, <1>13
        DEF Progress

LEMMA UserKind ==
    ASSUME IInv, NEW p \in Procs, User(p)
    PROVE  Quiet \/ Early \/ \E tree \in Tree : Committing(p, tree)
<1>0. TypeOK /\ LeafInHand /\ NothingBeforeInit
  BY DEF IInv
<1>1. CASE InsertRow(p)
  <2>1. CASE UNCHANGED row
    BY <1>0, <1>1, <2>1, QuietGoto, ConcludeLabel DEF InsertRow
  <2>2. CASE row' = [NoRow EXCEPT !.status = "RUNNING", !.owner = p] /\ Goto(p, "init")
    <3>1. p = Runner /\ \A q \in Procs \ {p} : pc[q] = "idle"
      BY <1>0, <1>1 DEF InsertRow, NothingBeforeInit
    <3>2. row'.tree = Plan /\ row'.rev = 0
      BY <2>2 DEF NoRow
    <3>3. \A q \in Procs : pc'[q] \in {"init", "idle"}
      BY <1>0, <2>2, <3>1 DEF Goto, TypeOK
    <3>4. Early
      BY <1>1, <3>1, <3>2, <3>3 DEF InsertRow, Early, MayCommit
    <3> QED BY <3>4
  <2> QED BY <1>1, <2>1, <2>2 DEF InsertRow
<1>2. CASE ResumeRun(p)
  <2>1. row'.tree = row.tree /\ row'.rev = row.rev
    BY <1>0, <1>2 DEF ResumeRun, TypeOK, Row
  <2> QED BY <1>0, <1>2, <2>1, QuietGoto, ConcludeLabel DEF ResumeRun
<1>3. ASSUME NEW s \in Steps, PromptRetry(p, s) \/ PromptContinue(p, s) \/ PromptAbort(p, s)
      PROVE  \E tree \in Tree : Committing(p, tree)
  <2>0. /\ "RUNNING" \in SavedStatus
        /\ MayCommit(p) /\ UNCHANGED inflight /\ inflight[p] = s
        /\ Upcoming(mem[p].tree, s)
    BY <1>0, <1>3 DEF SavedStatus, PromptRetry, PromptContinue, PromptAbort, MayCommit, LeafInHand
  <2>1. CASE PromptRetry(p, s)
    <3> DEFINE leaf == Opened(mem[p].tree[s], NextAttempt(mem[p].tree[s]))
    <3>1. leaf \in Leaf /\ leaf.state = "RUNNING"
      BY <1>0, NextNumbers, OpenedLeaf
    <3>2. CommitThen(p, [mem[p].tree EXCEPT ![s] = leaf], "RUNNING", "drive")
      BY <2>1 DEF PromptRetry
    <3> HIDE DEF leaf
    <3>3. Committing(p, [mem[p].tree EXCEPT ![s] = leaf])
      BY <1>0, <2>0, <3>1, <3>2, CommitThenKind
    <3> QED BY <3>3 DEF Committing
  <2>2. CASE PromptContinue(p, s)
    <3> DEFINE leaf == Settled(mem[p].tree[s], "IGNORED", mem[p].tree[s].attempt, "ignored")
    <3>1. leaf \in Leaf /\ leaf.state = "IGNORED"
      BY <1>0, NextNumbers, UpcomingLeaf DEF NodeStates
    <3>2. CommitThen(p, [mem[p].tree EXCEPT ![s] = leaf], "RUNNING", "drive")
      BY <2>2 DEF PromptContinue
    <3> HIDE DEF leaf
    <3>3. Committing(p, [mem[p].tree EXCEPT ![s] = leaf])
      BY <1>0, <2>0, <3>1, <3>2, CommitThenKind
    <3> QED BY <3>3 DEF Committing
  <2>3. CASE PromptAbort(p, s)
    <3> DEFINE leaf == Settled(mem[p].tree[s], "FAILED", mem[p].tree[s].attempt, "failed")
    <3>1. leaf \in Leaf /\ leaf.state = "FAILED"
      BY <1>0, NextNumbers, UpcomingLeaf DEF NodeStates
    <3>2. CommitFailed(p, [mem[p].tree EXCEPT ![s] = leaf], "RUNNING")
      BY <2>3 DEF PromptAbort
    <3> HIDE DEF leaf
    <3>3. Committing(p, [mem[p].tree EXCEPT ![s] = leaf])
      BY <1>0, <2>0, <3>1, <3>2, CommitThenKind DEF CommitFailed
    <3> QED BY <3>3 DEF Committing
  <2> QED BY <1>3, <2>1, <2>2, <2>3
<1> QED BY <1>1, <1>2, <1>3 DEF User

LEMMA DisturbanceKind ==
    ASSUME IInv, NEW p \in Procs, Disturbance(p)
    PROVE  Quiet \/ \E tree \in Tree : Committing(p, tree)
<1>0. TypeOK /\ LeafInHand
  BY DEF IInv
<1>1. CASE Die(p)
  BY <1>0, <1>1, QuietGoto, ConcludeLabel DEF Die
<1>2. CASE Unwind(p)
  BY <1>0, <1>2, QuietGoto, ConcludeLabel DEF Unwind
<1>3. CASE CancelRun(p)
  <2>1. CASE inflight[p] \in Steps
    <3> DEFINE leaf == [mem[p].tree[inflight[p]] EXCEPT !.state = "CANCELLED"]
    <3>1. leaf \in Leaf /\ leaf.state = "CANCELLED"
      BY <1>0, <2>1, NextNumbers DEF Leaf, NodeStates
    <3>2. Commit(p, [mem[p].tree EXCEPT ![inflight[p]] = leaf], Unchanged)
      BY <1>3, <2>1 DEF CancelRun
    <3>3. MayCommit(p) /\ mem[p].tree[inflight[p]].state # "PENDING" /\ Unchanged \in SavedStatus
      BY <1>0, <1>3, <2>1 DEF CancelRun, MayCommit, LeafInHand, SavedStatus
    <3>4. Conclude(p, "CANCELLED") /\ UNCHANGED inflight
      BY <1>3 DEF CancelRun
    <3> HIDE DEF leaf
    <3>5. Committing(p, [mem[p].tree EXCEPT ![inflight[p]] = leaf])
      BY <1>0, <2>1, <3>1, <3>2, <3>3, <3>4, CommitThenKind
    <3> QED BY <3>5 DEF Committing
  <2>2. CASE inflight[p] \notin Steps
    BY <1>0, <1>3, <2>2, QuietConclude, ConcludeLabel DEF CancelRun
  <2> QED BY <2>1, <2>2
<1>4. CASE LeavePrompt(p)
  BY <1>0, <1>4, QuietConclude, ConcludeLabel DEF LeavePrompt
<1> QED BY <1>1, <1>2, <1>3, <1>4 DEF Disturbance

LEMMA StepKind ==
    ASSUME IInv, [Next]_vars
    PROVE  \/ Quiet \/ Early
           \/ \E p \in Procs : \/ Loading(p)
                               \/ \E s \in Steps : StartAttempt(p, s)
                               \/ \E tree \in Tree : Committing(p, tree)
<1>0. TypeOK
  BY DEF IInv
<1>1. ASSUME NEW p \in Procs, Progress(p) \/ User(p) \/ Disturbance(p)
      PROVE  \/ Quiet \/ Early \/ Loading(p)
             \/ \E s \in Steps : StartAttempt(p, s)
             \/ \E tree \in Tree : Committing(p, tree)
  BY <1>1, ProgressKind, UserKind, DisturbanceKind
<1>2. CASE Reconcile
  BY <1>0, <1>2 DEF Reconcile, Quiet, TypeOK, Row
<1>3. CASE PidRecycled \/ RemoveWorktree \/ UNCHANGED vars
  BY <1>0, <1>3 DEF PidRecycled, RemoveWorktree, vars, Quiet, TypeOK, Row
<1> QED BY <1>1, <1>2, <1>3 DEF Next

----------------------------------------------------------------------------
(* The effect of a commit on the row's tree.                                *)

LEMMA CommitEffect ==
    ASSUME IInv, NEW p \in Procs, NEW tree \in Tree, Committing(p, tree)
    PROVE  /\ mem[p].rev <= row.rev /\ row.rev \in Nat /\ mem[p].rev \in Nat
           /\ Saved(p) => /\ mem[p].tree = row.tree
                          /\ row'.tree = tree /\ row'.rev = row.rev + 1
                          /\ mem' = [mem EXCEPT ![p] = [tree |-> tree, rev |-> row.rev + 1]]
           /\ ~Saved(p) => row' = row /\ ~MayCommit(p)'
           /\ \A q \in Procs \ {p} : mem'[q] = mem[q] /\ pc'[q] = pc[q] /\ inflight'[q] = inflight[q]
<1>1. /\ mem[p].rev <= row.rev /\ row.rev \in Nat /\ mem[p].rev \in Nat
      /\ mem[p].rev = row.rev => mem[p].tree = row.tree
  BY DEF IInv, NoForeignTree, Committing, TypeOK, Row
<1>2. PICK status \in SavedStatus : Commit(p, tree, status)
  BY DEF Committing
<1>3. CASE Saved(p)
  <2>1. row'.tree = tree /\ row'.rev = row.rev + 1
    BY <1>2, <1>3 DEF Commit, Saved, IInv, TypeOK, Row
  <2>2. mem' = [mem EXCEPT ![p] = [tree |-> tree, rev |-> row.rev + 1]]
    BY <1>2, <1>3 DEF Commit, Saved, IInv, TypeOK
  <2> QED BY <1>1, <1>3, <2>1, <2>2 DEF Saved, Committing, IInv, TypeOK
<1>4. CASE ~Saved(p)
  BY <1>1, <1>2, <1>4 DEF Commit, Committing, MayCommit, IInv, TypeOK
<1> QED BY <1>1, <1>3, <1>4

LEMMA ForeignTreeStep == IInv /\ [Next]_vars => NoForeignTree'
<1> SUFFICES ASSUME IInv, [Next]_vars, NEW q \in Procs, MayCommit(q)'
             PROVE  /\ mem'[q].rev <= row'.rev
                    /\ mem'[q].rev = row'.rev => mem'[q].tree = row'.tree
  BY DEF NoForeignTree
<1>0. /\ TypeOK /\ row.rev \in Nat /\ mem[q].rev \in Nat
      /\ MayCommit(q) => /\ mem[q].rev <= row.rev
                         /\ mem[q].rev = row.rev => mem[q].tree = row.tree
  BY DEF IInv, NoForeignTree, TypeOK, Row
<1>1. CASE Quiet
  BY <1>0, <1>1 DEF Quiet, MayCommit
<1>2. CASE Early
  BY <1>2 DEF Early
<1>3. ASSUME NEW p \in Procs, Loading(p)
      PROVE  /\ mem'[q].rev <= row'.rev
             /\ mem'[q].rev = row'.rev => mem'[q].tree = row'.tree
  BY <1>0, <1>3 DEF Loading, Goto, MayCommit, TypeOK
<1>4. ASSUME NEW p \in Procs, NEW s \in Steps, StartAttempt(p, s)
      PROVE  /\ mem'[q].rev <= row'.rev
             /\ mem'[q].rev = row'.rev => mem'[q].tree = row'.tree
  BY <1>0, <1>4 DEF StartAttempt, Goto, MayCommit, TypeOK
<1>5. ASSUME NEW p \in Procs, NEW tree \in Tree, Committing(p, tree)
      PROVE  /\ mem'[q].rev <= row'.rev
             /\ mem'[q].rev = row'.rev => mem'[q].tree = row'.tree
  <2>1. CASE q = p
    BY <1>0, <1>5, <2>1, CommitEffect DEF TypeOK
  <2>2. CASE q # p
    <3>1. mem'[q] = mem[q] /\ MayCommit(q)
      BY <1>5, <2>2, CommitEffect DEF MayCommit
    <3> QED BY <1>0, <1>5, <3>1, CommitEffect
  <2> QED BY <2>1, <2>2
<1> QED BY <1>1, <1>2, <1>3, <1>4, <1>5, StepKind

LEMMA LeafInHandStep == IInv /\ [Next]_vars => LeafInHand'
<1> SUFFICES ASSUME IInv, [Next]_vars, NEW q \in Procs
             PROVE  /\ pc'[q] = "exec" =>
                          /\ inflight'[q] \in Steps /\ Upcoming(mem'[q].tree, inflight'[q])
                          /\ mem'[q].tree[inflight'[q]].state = "RUNNING"
                    /\ pc'[q] = "prompt" =>
                          /\ inflight'[q] \in Steps /\ Upcoming(mem'[q].tree, inflight'[q])
                          /\ mem'[q].tree[inflight'[q]].state = "PAUSED"
                    /\ MayCommit(q)' /\ inflight'[q] \in Steps
                          => mem'[q].tree[inflight'[q]].state # "PENDING"
  BY DEF LeafInHand
<1> DEFINE InHand ==
              /\ pc'[q] = "exec" =>
                    /\ inflight'[q] \in Steps /\ Upcoming(mem'[q].tree, inflight'[q])
                    /\ mem'[q].tree[inflight'[q]].state = "RUNNING"
              /\ pc'[q] = "prompt" =>
                    /\ inflight'[q] \in Steps /\ Upcoming(mem'[q].tree, inflight'[q])
                    /\ mem'[q].tree[inflight'[q]].state = "PAUSED"
              /\ MayCommit(q)' /\ inflight'[q] \in Steps
                    => mem'[q].tree[inflight'[q]].state # "PENDING"
<1>0. TypeOK /\ LeafInHand
  BY DEF IInv
<1>01. ASSUME MayCommit(q)' => pc'[q] = pc[q] /\ inflight'[q] = inflight[q] /\ mem'[q] = mem[q]
       PROVE  InHand
  BY <1>0, <1>01 DEF LeafInHand, MayCommit
<1>1. CASE Quiet
  BY <1>1, <1>01 DEF Quiet
<1>2. CASE Early
  BY <1>2 DEF Early, MayCommit
<1>3. ASSUME NEW p \in Procs, Loading(p) PROVE InHand
  <2>1. CASE q = p
    <3>1. inflight'[q] = 0 /\ pc'[q] \in {"recover", "drive"}
      BY <1>0, <1>3, <2>1 DEF Loading, Goto, TypeOK
    <3> QED BY <3>1 DEF Steps
  <2>2. CASE q # p
    BY <1>0, <1>3, <1>01, <2>2 DEF Loading, Goto, TypeOK
  <2> QED BY <2>1, <2>2
<1>4. ASSUME NEW p \in Procs, NEW s \in Steps, StartAttempt(p, s) PROVE InHand
  <2>1. CASE q = p
    <3>1. inflight'[q] = s /\ pc'[q] = "exec" /\ mem' = mem
      BY <1>0, <1>4, <2>1 DEF StartAttempt, Goto, TypeOK
    <3> QED BY <1>4, <2>1, <3>1 DEF StartAttempt
  <2>2. CASE q # p
    BY <1>0, <1>4, <1>01, <2>2 DEF StartAttempt, Goto, TypeOK
  <2> QED BY <2>1, <2>2
<1>5. ASSUME NEW p \in Procs, NEW tree \in Tree, Committing(p, tree) PROVE InHand
  <2>1. CASE q = p
    <3>1. pc'[p] \in {"drive", "prompt", "close"} /\ (pc'[p] # "close" => mem'[p].tree = tree)
      BY <1>0, <1>5, CommitEffect DEF Committing, TypeOK
    <3> QED BY <1>5, <2>1, <3>1 DEF Committing, MayCommit
  <2>2. CASE q # p
    BY <1>5, <1>01, <2>2, CommitEffect
  <2> QED BY <2>1, <2>2
<1> QED BY <1>1, <1>2, <1>3, <1>4, <1>5, StepKind

(* Apart from InsertRow, a process that acts leaves "idle" and "init" for    *)
(* good, and the others stay where they are.                                *)
Moved(p) ==
    /\ pc'[p] \notin {"idle", "init"}
    /\ \A q \in Procs \ {p} : pc'[q] = pc[q]

LEMMA GotoMoves ==
    ASSUME TypeOK, NEW p \in Procs, NEW label, label \notin {"idle", "init"}, Goto(p, label)
    PROVE  Moved(p)
BY DEF Moved, Goto, TypeOK

LEMMA ConcludeMoves ==
    ASSUME TypeOK, NEW p \in Procs, NEW outcome, Conclude(p, outcome)
    PROVE  Moved(p)
BY DEF Moved, Conclude, Goto, TypeOK

LEMMA CommitMoves ==
    ASSUME TypeOK, NEW p \in Procs, NEW tree, NEW status, NEW label,
           label \notin {"idle", "init"},
           CommitThen(p, tree, status, label) \/ CommitFailed(p, tree, status)
    PROVE  Moved(p)
<1>1. Goto(p, label) \/ Conclude(p, "FAILED")
  BY DEF CommitThen, CommitFailed
<1> QED BY <1>1, GotoMoves, ConcludeMoves

LEMMA GateMoves ==
    ASSUME TypeOK, NEW p \in Procs, NEW s, NEW n, FailureGate(p, s, n)
    PROVE  Moved(p)
<1>1. CASE CommitThen(p, WithLeaf(p, s, "IGNORED", n, "ignored"), Unchanged, "drive")
  BY <1>1, CommitMoves
<1>2. CASE CommitThen(p, WithLeaf(p, s, "PAUSED", n, "failed"), "PAUSED", "prompt")
  BY <1>2, CommitMoves
<1>3. CASE CommitFailed(p, WithLeaf(p, s, "FAILED", n, "failed"), Unchanged)
  BY <1>3, CommitMoves
<1> QED BY <1>1, <1>2, <1>3 DEF FailureGate

LEMMA ProgressMoves ==
    ASSUME TypeOK, NEW p \in Procs, Progress(p)
    PROVE  Moved(p)
<1>1. CASE InitState(p) \/ StartFails(p) \/ OpenSession(p) \/ OpenFails(p)
  BY <1>1, GotoMoves DEF InitState, StartFails, OpenSession, OpenFails
<1>2. CASE LoadState(p)
  BY <1>2, GotoMoves DEF LoadState
<1>3. CASE LoadFails(p) \/ NothingLeft(p)
  BY <1>3, ConcludeMoves DEF LoadFails, NothingLeft
<1>4. CASE RecoverInterrupted(p)
  BY <1>4, CommitMoves DEF RecoverInterrupted
<1>5. ASSUME NEW s \in Steps, BeginAttempt(p, s) PROVE Moved(p)
  BY <1>5, CommitMoves DEF BeginAttempt
<1>6. ASSUME NEW s \in Steps, StartAttempt(p, s) PROVE Moved(p)
  BY <1>6, GotoMoves DEF StartAttempt
<1>7. ASSUME NEW s \in Steps, NEW n, AttemptPasses(p, s, n) PROVE Moved(p)
  BY <1>7, CommitMoves DEF AttemptPasses
<1>8. ASSUME NEW s \in Steps, AttemptIgnored(p, s) PROVE Moved(p)
  BY <1>8, CommitMoves DEF AttemptIgnored
<1>9. ASSUME NEW s \in Steps, AttemptFails(p, s) \/ ReenterGate(p, s) PROVE Moved(p)
  BY <1>9, GateMoves DEF AttemptFails, ReenterGate
<1>10. CASE AutoApply(p) \/ Close(p) \/ CloseUnwinding(p) \/ Finish(p)
  BY <1>10, GotoMoves DEF AutoApply, Close, CloseUnwinding, Finish
<1> QED BY <1>1, <1>2, <1>3, <1>4, <1>5, <1>6, <1>7, <1>8, <1>9, <1>10 DEF Progress

LEMMA OtherMoves ==
    ASSUME TypeOK, NEW p \in Procs, User(p) \/ Disturbance(p)
    PROVE  Moved(p) \/ InsertRow(p)
<1>1. CASE ResumeRun(p) \/ Die(p) \/ Unwind(p)
  BY <1>1, GotoMoves DEF ResumeRun, Die, Unwind
<1>2. CASE CancelRun(p) \/ LeavePrompt(p)
  BY <1>2, ConcludeMoves DEF CancelRun, LeavePrompt
<1>3. ASSUME NEW s \in Steps, PromptRetry(p, s) PROVE Moved(p)
  BY <1>3, CommitMoves DEF PromptRetry
<1>4. ASSUME NEW s \in Steps, PromptContinue(p, s) PROVE Moved(p)
  BY <1>4, CommitMoves DEF PromptContinue
<1>5. ASSUME NEW s \in Steps, PromptAbort(p, s) PROVE Moved(p)
  BY <1>5, CommitMoves DEF PromptAbort
<1> QED BY <1>1, <1>2, <1>3, <1>4, <1>5 DEF User, Disturbance

LEMMA NothingBeforeInitStep == IInv /\ [Next]_vars => NothingBeforeInit'
<1> SUFFICES ASSUME IInv, [Next]_vars PROVE NothingBeforeInit'
  OBVIOUS
<1>0. TypeOK /\ NothingBeforeInit /\ Runner \in Procs
  BY ProcsAssumption DEF IInv
<1>1. ASSUME NEW p \in Procs, Moved(p), p = Runner \/ pc[Runner] \notin {"idle", "init"}
      PROVE  NothingBeforeInit'
  BY <1>0, <1>1 DEF NothingBeforeInit, Moved
<1>2. ASSUME NEW p \in Procs, p # Runner, pc[Runner] \in {"idle", "init"},
             Progress(p) \/ User(p) \/ Disturbance(p)
      PROVE  FALSE
  <2>1. pc[p] = "idle" /\ row.status # "PAUSED"
    BY <1>0, <1>2 DEF NothingBeforeInit
  <2>2. ~Progress(p)
    BY <2>1 DEF Progress, InitState, StartFails, OpenSession, OpenFails, LoadState, LoadFails,
       RecoverInterrupted, BeginAttempt, StartAttempt, AttemptPasses, AttemptIgnored, AttemptFails,
       ReenterGate, NothingLeft, AutoApply, Close, CloseUnwinding, Finish
  <2>3. ~User(p)
    BY <1>2, <2>1 DEF User, InsertRow, ResumeRun, Resumable, PromptRetry, PromptContinue, PromptAbort
  <2>4. ~Disturbance(p)
    BY <2>1 DEF Disturbance, Die, Unwind, CancelRun, LeavePrompt, Driving, InSession, InCoordinator
  <2> QED BY <1>2, <2>2, <2>3, <2>4
<1>3. ASSUME NEW p \in Procs, InsertRow(p) PROVE NothingBeforeInit'
  <2>1. p = Runner /\ \A q \in Procs \ {p} : pc[q] = "idle" /\ pc'[q] = "idle"
    BY <1>0, <1>3 DEF InsertRow, NothingBeforeInit, Goto, TypeOK
  <2>2. CASE UNCHANGED row /\ Goto(p, "done")
    BY <1>0, <1>1, <2>1, <2>2, GotoMoves
  <2>3. CASE row' = [NoRow EXCEPT !.status = "RUNNING", !.owner = p] /\ Goto(p, "init")
    BY <2>1, <2>3 DEF NothingBeforeInit, NoRow
  <2> QED BY <1>3, <2>2, <2>3 DEF InsertRow
<1>4. ASSUME NEW p \in Procs, Progress(p) \/ User(p) \/ Disturbance(p)
      PROVE  NothingBeforeInit'
  BY <1>0, <1>1, <1>2, <1>3, <1>4, ProgressMoves, OtherMoves
<1>5. CASE Reconcile
  BY <1>0, <1>5 DEF Reconcile, NothingBeforeInit, TypeOK, Row
<1>6. CASE PidRecycled \/ RemoveWorktree \/ UNCHANGED vars
  BY <1>0, <1>6 DEF PidRecycled, RemoveWorktree, vars, NothingBeforeInit
<1> QED BY <1>4, <1>5, <1>6 DEF Next

LEMMA InOrderIsStepsInOrder == StepsInOrder <=> InOrder(row.tree)
BY DEF StepsInOrder, InOrder

LEMMA PlanInOrder == InOrder(Plan)
BY DEF InOrder, Plan, Planned

LEMMA StepsInOrderStep == IInv /\ [Next]_vars => StepsInOrder'
<1> SUFFICES ASSUME IInv, [Next]_vars PROVE InOrder(row'.tree)
  BY DEF StepsInOrder, InOrder
<1>0. InOrder(row.tree)
  BY InOrderIsStepsInOrder DEF IInv
<1>1. CASE Quiet
  BY <1>0, <1>1 DEF Quiet
<1>2. CASE Early
  BY <1>2, PlanInOrder DEF Early
<1>3. ASSUME NEW p \in Procs, Loading(p) \/ \E s \in Steps : StartAttempt(p, s)
      PROVE  InOrder(row'.tree)
  BY <1>0, <1>3 DEF Loading, StartAttempt
<1>4. ASSUME NEW p \in Procs, NEW tree \in Tree, Committing(p, tree) PROVE InOrder(row'.tree)
  <2>1. History(mem[p].tree, tree)
    BY <1>4 DEF Committing
  <2> QED BY <1>0, <1>4, <2>1, CommitEffect DEF History
<1> QED BY <1>1, <1>2, <1>3, <1>4, StepKind

LEMMA IInvInit == Init => IInv
<1> SUFFICES ASSUME Init PROVE IInv
  OBVIOUS
<1>1. NoForeignTree /\ LeafInHand /\ NothingBeforeInit
  BY ProcsAssumption DEF Init, NoForeignTree, LeafInHand, NothingBeforeInit, MayCommit, NoRow
<1>2. StepsInOrder
  BY PlanInOrder, InOrderIsStepsInOrder DEF Init, NoRow
<1> QED BY <1>1, <1>2, TypeInit DEF IInv

LEMMA IInvStep == IInv /\ [Next]_vars => IInv'
BY TypeStep, ForeignTreeStep, LeafInHandStep, NothingBeforeInitStep, StepsInOrderStep DEF IInv

(* The inductive invariant, and with it what the compare-and-swap is for:   *)
(* a coordinator that may still commit never builds on a stale tree.        *)
THEOREM EngineInvariant == Spec => []IInv
BY IInvInit, IInvStep, PTL DEF Spec

(* However many processes drive a run, its recorded steps are in order.     *)
THEOREM StepsStayInOrder == Spec => []StepsInOrder
<1>1. IInv => StepsInOrder
  BY DEF IInv
<1> QED BY EngineInvariant, <1>1, PTL

LEMMA FinishedStep ==
    ASSUME IInv, [Next]_vars, NEW s \in Steps, Ended(row.tree[s])
    PROVE  row'.tree[s] = row.tree[s] \/ row'.tree[s].state = "CANCELLED"
<1>0. NothingBeforeInit
  BY DEF IInv
<1>1. CASE Quiet
  BY <1>1 DEF Quiet
<1>2. CASE Early
  BY <1>0, <1>2 DEF Early, NothingBeforeInit
<1>3. ASSUME NEW p \in Procs, Loading(p) \/ \E r \in Steps : StartAttempt(p, r)
      PROVE  row'.tree[s] = row.tree[s]
  BY <1>3 DEF Loading, StartAttempt
<1>4. ASSUME NEW p \in Procs, NEW tree \in Tree, Committing(p, tree)
      PROVE  row'.tree[s] = row.tree[s] \/ row'.tree[s].state = "CANCELLED"
  <2>1. History(mem[p].tree, tree)
    BY <1>4 DEF Committing
  <2> QED BY <1>4, <2>1, CommitEffect DEF History
<1> QED BY <1>1, <1>2, <1>3, <1>4, StepKind

(* A step that ended is never run again or given another result, by any of  *)
(* the processes that drive the run: only a cancellation may relabel it.    *)
THEOREM FinishedIsFinal == Spec => FinishedStaysFinished
<1>1. IInv /\ [Next]_vars =>
        [\A s \in Steps :
            Ended(row.tree[s]) => \/ row'.tree[s] = row.tree[s]
                                  \/ row'.tree[s].state = "CANCELLED"]_vars
  BY FinishedStep
<1> QED BY EngineInvariant, <1>1, PTL DEF Spec, FinishedStaysFinished

----------------------------------------------------------------------------
(* Reconciliation.                                                          *)

(* A driver fails its row only while it moves on itself.                    *)
LEMMA CommitStatus ==
    ASSUME TypeOK, NEW p \in Procs, NEW tree, NEW status \in SavedStatus, Commit(p, tree, status)
    PROVE  row'.status \in {row.status, "RUNNING", "PAUSED"}
BY DEF TypeOK, Row, Commit, SavedStatus

LEMMA GateStatus ==
    ASSUME TypeOK, NEW p \in Procs, NEW s, NEW n, FailureGate(p, s, n)
    PROVE  row'.status \in {row.status, "RUNNING", "PAUSED"}
BY CommitStatus DEF FailureGate, CommitThen, CommitFailed, SavedStatus

LEMMA FailsByMoving ==
    ASSUME TypeOK, NEW p \in Procs, Progress(p) \/ User(p) \/ Disturbance(p), UNCHANGED pc
    PROVE  row'.status \in {row.status, "RUNNING", "PAUSED"}
<1>0. row \in Row /\ pc \in [Procs -> PCs] /\ {Unchanged, "RUNNING"} \subseteq SavedStatus
  BY DEF TypeOK, SavedStatus
<1>1. CASE Progress(p)
  <2>1. CASE InitState(p) \/ StartFails(p) \/ Finish(p)
    BY <1>0, <2>1 DEF InitState, StartFails, Finish, Goto
  <2>2. CASE OpenSession(p) \/ OpenFails(p) \/ LoadState(p) \/ LoadFails(p) \/ NothingLeft(p)
             \/ AutoApply(p) \/ Close(p) \/ CloseUnwinding(p)
    BY <2>2 DEF OpenSession, OpenFails, LoadState, LoadFails, NothingLeft, AutoApply, Close,
       CloseUnwinding
  <2>3. CASE RecoverInterrupted(p)
    BY <1>0, <2>3, CommitStatus DEF RecoverInterrupted, CommitThen
  <2>4. ASSUME NEW s \in Steps,
               \/ BeginAttempt(p, s) \/ StartAttempt(p, s) \/ \E n : AttemptPasses(p, s, n)
               \/ AttemptIgnored(p, s) \/ AttemptFails(p, s) \/ ReenterGate(p, s)
        PROVE  row'.status \in {row.status, "RUNNING", "PAUSED"}
    <3>1. CASE BeginAttempt(p, s) \/ AttemptIgnored(p, s) \/ \E n : AttemptPasses(p, s, n)
      BY <1>0, <3>1, CommitStatus DEF BeginAttempt, AttemptIgnored, AttemptPasses, CommitThen
    <3>2. CASE AttemptFails(p, s) \/ ReenterGate(p, s)
      BY <3>2, GateStatus DEF AttemptFails, ReenterGate
    <3>3. CASE StartAttempt(p, s)
      BY <3>3 DEF StartAttempt
    <3> QED BY <2>4, <3>1, <3>2, <3>3
  <2> QED BY <1>1, <2>1, <2>2, <2>3, <2>4 DEF Progress
<1>2. CASE User(p)
  <2>1. CASE InsertRow(p) \/ ResumeRun(p)
    BY <1>0, <2>1 DEF InsertRow, ResumeRun, NoRow, Row
  <2>2. ASSUME NEW s \in Steps, PromptRetry(p, s) \/ PromptContinue(p, s) \/ PromptAbort(p, s)
        PROVE  row'.status \in {row.status, "RUNNING", "PAUSED"}
    BY <1>0, <2>2, CommitStatus DEF PromptRetry, PromptContinue, PromptAbort, CommitThen, CommitFailed
  <2> QED BY <1>2, <2>1, <2>2 DEF User
<1>3. CASE Disturbance(p)
  BY <1>0, <1>3, CommitStatus DEF Disturbance, Die, Unwind, CancelRun, LeavePrompt
<1> QED BY <1>1, <1>2, <1>3

----------------------------------------------------------------------------
(* Attempts and their numbers, where the executor does not retry by itself. *)

(* A leaf keeps its number while it is settled or relabelled; another       *)
(* attempt has the next one.                                                *)
Advance(old, new) ==
    \/ new.attempt = old.attempt /\ (new = old \/ new.state \notin {"PENDING", "RUNNING"})
    \/ new.attempt = old.attempt + 1 /\ new.state = "RUNNING" /\ new.result = "none"

Advancing(p) ==
    \A s \in Steps :
        /\ Advance(mem[p].tree[s], mem'[p].tree[s])
        /\ pc'[p] = "drive" /\ mem'[p].tree[s].state = "RUNNING" /\ mem'[p].tree[s] = mem[p].tree[s]
           => pc[p] = "drive"

LEMMA AttemptFacts ==
    ASSUME IInv, AttemptsAreOwned, NEW p \in Procs
    PROVE  /\ TypeOK /\ row \in Row /\ row.tree \in Tree /\ mem[p].tree \in Tree
           /\ pc \in [Procs -> PCs] /\ ran \in [Steps -> SUBSET Nat]
           /\ \A s \in Steps : /\ row.tree[s] \in Leaf /\ row.tree[s].attempt \in Nat
                               /\ mem[p].tree[s] \in Leaf /\ mem[p].tree[s].attempt \in Nat
           /\ MayCommit(p) /\ Saved(p) => InOrder(mem[p].tree)
<1>1. /\ TypeOK /\ row \in Row /\ row.tree \in Tree /\ mem[p].tree \in Tree
      /\ pc \in [Procs -> PCs] /\ ran \in [Steps -> SUBSET Nat]
  BY DEF IInv, TypeOK, Row
<1>2. \A s \in Steps : row.tree[s] \in Leaf /\ mem[p].tree[s] \in Leaf
  BY <1>1 DEF Tree
<1>3. MayCommit(p) /\ Saved(p) => InOrder(mem[p].tree)
  <2>1. StepsInOrder => InOrder(row.tree)
    BY DEF StepsInOrder, InOrder
  <2> QED BY <2>1 DEF IInv, NoForeignTree, Saved
<1> QED BY <1>1, <1>2, <1>3 DEF Leaf

LEMMA LeafAdvances ==
    ASSUME IInv, AttemptsAreOwned, NEW p \in Procs, MayCommit(p), NEW s \in Steps, NEW leaf \in Leaf,
           Advance(mem[p].tree[s], leaf), mem'[p].tree = [mem[p].tree EXCEPT ![s] = leaf],
           leaf.state = "RUNNING" => leaf.attempt # mem[p].tree[s].attempt,
           pc'[p] = "drive" => Saved(p) /\ Upcoming(mem[p].tree, s)
    PROVE  Advancing(p)
<1>1. mem'[p].tree[s] = leaf /\ \A r \in Steps \ {s} : mem'[p].tree[r] = mem[p].tree[r]
  BY AttemptFacts DEF Tree
<1>2. \A r \in Steps : Advance(mem[p].tree[r], mem'[p].tree[r])
  BY <1>1 DEF Advance
<1>3. ASSUME NEW r \in Steps, pc'[p] = "drive", mem'[p].tree[r].state = "RUNNING",
             mem'[p].tree[r] = mem[p].tree[r]
      PROVE  FALSE
  <2>1. r # s
    BY <1>1, <1>3
  <2>2. ~Ended(mem[p].tree[s]) /\ ~Ended(mem[p].tree[r]) /\ mem[p].tree[r].state # "PENDING"
    BY <1>3 DEF Upcoming, Ended, Terminal
  <2>3. r < s => r \in 1..(s - 1)
    BY StepsAssumption DEF Steps
  <2>4. ~(r < s)
    BY <1>3, <2>2, <2>3 DEF Upcoming
  <2>5. s < r
    BY <2>1, <2>4, StepsAssumption DEF Steps
  <2> QED BY <1>3, <2>2, <2>5, AttemptFacts DEF InOrder
<1> QED BY <1>2, <1>3 DEF Advancing

LEMMA CommitTree ==
    ASSUME TypeOK, NEW p \in Procs, NEW tree, NEW status
    PROVE  /\ Commit(p, tree, status) => mem'[p].tree = tree
           /\ CommitThen(p, tree, status, "drive") =>
                 mem'[p].tree = tree /\ (pc'[p] = "drive" => Saved(p))
           /\ CommitThen(p, tree, status, "prompt") => mem'[p].tree = tree /\ pc'[p] # "drive"
           /\ CommitFailed(p, tree, status) => mem'[p].tree = tree /\ pc'[p] # "drive"
<1>1. Commit(p, tree, status) => mem'[p].tree = tree
  BY DEF Commit, TypeOK
<1>2. \A outcome : Conclude(p, outcome) => pc'[p] \in {"apply", "close"}
  BY DEF Conclude, Goto, TypeOK
<1>3. \A label : Goto(p, label) => pc'[p] = label
  BY DEF Goto, TypeOK
<1> QED BY <1>1, <1>2, <1>3 DEF CommitThen, CommitFailed

(* A settled leaf has the number of its attempt.                            *)
LEMMA SettledAdvances ==
    ASSUME IInv, AttemptsAreOwned, NEW p \in Procs, MayCommit(p), NEW s \in Steps,
           NEW state \in {"COMPLETED", "IGNORED", "FAILED", "PAUSED"},
           NEW result \in {"completed", "ignored", "failed"},
           mem'[p].tree = WithLeaf(p, s, state, mem[p].tree[s].attempt, result),
           pc'[p] = "drive" => Saved(p) /\ Upcoming(mem[p].tree, s)
    PROVE  Advancing(p)
<1> DEFINE leaf == Settled(mem[p].tree[s], state, mem[p].tree[s].attempt, result)
<1>1. leaf \in Leaf /\ leaf.state = state /\ leaf.attempt = mem[p].tree[s].attempt
  BY AttemptFacts DEF Settled, Leaf, NodeStates
<1>2. mem'[p].tree = [mem[p].tree EXCEPT ![s] = leaf]
  BY DEF WithLeaf
<1> HIDE DEF leaf
<1>3. Advance(mem[p].tree[s], leaf)
  BY <1>1 DEF Advance
<1> QED BY <1>1, <1>2, <1>3, LeafAdvances

LEMMA GateAdvances ==
    ASSUME IInv, AttemptsAreOwned, NEW p \in Procs, MayCommit(p), NEW s \in Steps,
           Upcoming(mem[p].tree, s), FailureGate(p, s, mem[p].tree[s].attempt)
    PROVE  Advancing(p)
<1>0. TypeOK
  BY DEF IInv
<1>1. \/ /\ mem'[p].tree = WithLeaf(p, s, "IGNORED", mem[p].tree[s].attempt, "ignored")
         /\ pc'[p] = "drive" => Saved(p)
      \/ /\ mem'[p].tree = WithLeaf(p, s, "PAUSED", mem[p].tree[s].attempt, "failed")
         /\ pc'[p] # "drive"
      \/ /\ mem'[p].tree = WithLeaf(p, s, "FAILED", mem[p].tree[s].attempt, "failed")
         /\ pc'[p] # "drive"
  BY <1>0, CommitTree DEF FailureGate
<1> QED BY <1>1, SettledAdvances

LEMMA OpenedAdvances ==
    ASSUME IInv, AttemptsAreOwned, NEW p \in Procs, MayCommit(p), NEW s \in Steps,
           NEW n \in Nat, n = mem[p].tree[s].attempt + 1,
           mem'[p].tree = [mem[p].tree EXCEPT ![s] = Opened(@, n)],
           pc'[p] = "drive" => Saved(p) /\ Upcoming(mem[p].tree, s)
    PROVE  Advancing(p)
<1> DEFINE leaf == Opened(mem[p].tree[s], n)
<1>1. leaf \in Leaf /\ leaf.state = "RUNNING" /\ leaf.attempt = n /\ leaf.result = "none"
  BY AttemptFacts DEF Opened, Leaf, NodeStates
<1>2. mem'[p].tree = [mem[p].tree EXCEPT ![s] = leaf]
  OBVIOUS
<1> HIDE DEF leaf
<1>3. Advance(mem[p].tree[s], leaf) /\ leaf.attempt # mem[p].tree[s].attempt
  BY <1>1, AttemptFacts DEF Advance
<1> QED BY <1>1, <1>2, <1>3, LeafAdvances

(* With a budget of one the number an attempt reports is the leaf's own,    *)
(* which was marked as executed when it started.                            *)
LEMMA OneNumber ==
    ASSUME IInv, AttemptsAreOwned, \A s \in Steps : Budget[s] = 1,
           NEW p \in Procs, NEW s \in Steps
    PROVE  /\ LastAttempt(p, s) = mem[p].tree[s].attempt
           /\ \A n : AttemptPasses(p, s, n) =>
                 n - mem[p].tree[s].attempt = 0
           /\ pc[p] = "exec" /\ inflight[p] = s =>
                 /\ Upcoming(mem[p].tree, s)
                 /\ Used(s, mem[p].tree[s].attempt, mem[p].tree[s].attempt) => ran' = ran
<1>1. mem[p].tree[s].attempt \in Nat /\ Budget[s] = 1 /\ ran \in [Steps -> SUBSET Nat]
  BY AttemptFacts
<1>2. LastAttempt(p, s) = mem[p].tree[s].attempt
  BY <1>1 DEF LastAttempt
<1>3. \A n : AttemptPasses(p, s, n) => n - mem[p].tree[s].attempt = 0
  BY <1>1 DEF AttemptPasses
<1>4. ASSUME pc[p] = "exec", inflight[p] = s
      PROVE  /\ Upcoming(mem[p].tree, s)
             /\ Used(s, mem[p].tree[s].attempt, mem[p].tree[s].attempt) => ran' = ran
  <2>1. mem[p].tree[s].attempt \in ran[s]
    BY <1>4 DEF AttemptsAreOwned
  <2>2. \A n \in Nat : n..n = {n}
    OBVIOUS
  <2>3. ran[s] \cup mem[p].tree[s].attempt..mem[p].tree[s].attempt = ran[s]
    BY <1>1, <2>1, <2>2
  <2>4. Used(s, mem[p].tree[s].attempt, mem[p].tree[s].attempt) => ran' = ran
    BY <1>1, <2>3 DEF Used
  <2> QED BY <1>4, <2>4 DEF IInv, LeafInHand
<1> QED BY <1>2, <1>3, <1>4

(* The steps of an attempt that ends.                                       *)
LEMMA AttemptAdvances ==
    ASSUME IInv, AttemptsAreOwned, \A s \in Steps : Budget[s] = 1, NEW p \in Procs, NEW s \in Steps,
           \/ \E n \in mem[p].tree[s].attempt..LastAttempt(p, s) : AttemptPasses(p, s, n)
           \/ AttemptIgnored(p, s) \/ AttemptFails(p, s)
    PROVE  Advancing(p) /\ ran' = ran
<1>0. /\ TypeOK /\ pc[p] = "exec" /\ MayCommit(p) /\ inflight[p] = s
      /\ mem[p].tree[s].attempt \in Nat
  BY AttemptFacts DEF AttemptPasses, AttemptIgnored, AttemptFails, MayCommit
<1>1. /\ Upcoming(mem[p].tree, s) /\ LastAttempt(p, s) = mem[p].tree[s].attempt
      /\ Used(s, mem[p].tree[s].attempt, mem[p].tree[s].attempt) => ran' = ran
  BY <1>0, OneNumber
<1>2. UsedUp(p, s) => ran' = ran
  BY <1>1 DEF UsedUp, LastAttempt
<1>3. ASSUME NEW n \in mem[p].tree[s].attempt..LastAttempt(p, s), AttemptPasses(p, s, n)
      PROVE  Advancing(p) /\ ran' = ran
  <2>1. n = mem[p].tree[s].attempt
    BY <1>0, <1>1, <1>3
  <2>2. ran' = ran
    BY <1>1, <1>3, <2>1 DEF AttemptPasses
  <2>3. CommitThen(p, WithLeaf(p, s, "COMPLETED", mem[p].tree[s].attempt, "completed"), Unchanged, "drive")
    BY <1>3, <2>1 DEF AttemptPasses, WithLeaf
  <2>4. /\ mem'[p].tree = WithLeaf(p, s, "COMPLETED", mem[p].tree[s].attempt, "completed")
        /\ pc'[p] = "drive" => Saved(p)
    BY <1>0, <2>3, CommitTree
  <2> QED BY <1>0, <1>1, <2>2, <2>4, SettledAdvances
<1>4. CASE AttemptIgnored(p, s)
  <2>1. CommitThen(p, WithLeaf(p, s, "IGNORED", mem[p].tree[s].attempt, "ignored"), Unchanged, "drive")
    BY <1>1, <1>4 DEF AttemptIgnored, WithLeaf
  <2>2. /\ mem'[p].tree = WithLeaf(p, s, "IGNORED", mem[p].tree[s].attempt, "ignored")
        /\ pc'[p] = "drive" => Saved(p)
    BY <1>0, <2>1, CommitTree
  <2> QED BY <1>0, <1>1, <1>2, <1>4, <2>2, SettledAdvances DEF AttemptIgnored
<1>5. CASE AttemptFails(p, s)
  BY <1>0, <1>1, <1>2, <1>5, GateAdvances DEF AttemptFails
<1> QED BY <1>3, <1>4, <1>5

LEMMA AnswerAdvances ==
    ASSUME IInv, AttemptsAreOwned, NEW p \in Procs, NEW s \in Steps,
           PromptRetry(p, s) \/ PromptContinue(p, s) \/ PromptAbort(p, s)
    PROVE  Advancing(p) /\ ran' = ran
<1>0. /\ TypeOK /\ pc[p] = "prompt" /\ MayCommit(p) /\ inflight[p] = s /\ ran' = ran
      /\ mem[p].tree[s].attempt \in Nat
  BY AttemptFacts DEF PromptRetry, PromptContinue, PromptAbort, MayCommit, world
<1>1. Upcoming(mem[p].tree, s)
  BY <1>0 DEF IInv, LeafInHand
<1>2. CASE PromptRetry(p, s)
  <2>1. CommitThen(p, [mem[p].tree EXCEPT ![s] = Opened(@, mem[p].tree[s].attempt + 1)], "RUNNING", "drive")
    BY <1>2, AttemptFacts DEF PromptRetry, NextAttempt, Tree
  <2>2. /\ mem'[p].tree = [mem[p].tree EXCEPT ![s] = Opened(@, mem[p].tree[s].attempt + 1)]
        /\ pc'[p] = "drive" => Saved(p)
    BY <1>0, <2>1, CommitTree
  <2>3. mem[p].tree[s].attempt + 1 \in Nat
    BY <1>0
  <2> QED BY <1>0, <1>1, <2>2, <2>3, OpenedAdvances
<1>3. CASE PromptContinue(p, s)
  <2>1. CommitThen(p, WithLeaf(p, s, "IGNORED", mem[p].tree[s].attempt, "ignored"), "RUNNING", "drive")
    BY <1>3, AttemptFacts DEF PromptContinue, WithLeaf, Tree
  <2>2. /\ mem'[p].tree = WithLeaf(p, s, "IGNORED", mem[p].tree[s].attempt, "ignored")
        /\ pc'[p] = "drive" => Saved(p)
    BY <1>0, <2>1, CommitTree
  <2> QED BY <1>0, <1>1, <2>2, SettledAdvances
<1>4. CASE PromptAbort(p, s)
  <2>1. CommitFailed(p, WithLeaf(p, s, "FAILED", mem[p].tree[s].attempt, "failed"), "RUNNING")
    BY <1>4, AttemptFacts DEF PromptAbort, WithLeaf, Tree
  <2>2. /\ mem'[p].tree = WithLeaf(p, s, "FAILED", mem[p].tree[s].attempt, "failed")
        /\ pc'[p] # "drive"
    BY <1>0, <2>1, CommitTree
  <2> QED BY <1>0, <1>1, <2>2, SettledAdvances
<1> QED BY <1>2, <1>3, <1>4

LEMMA OtherCommitsAdvance ==
    ASSUME IInv, AttemptsAreOwned, NEW p \in Procs,
           \/ RecoverInterrupted(p) \/ CancelRun(p)
           \/ \E s \in Steps : BeginAttempt(p, s) \/ ReenterGate(p, s)
    PROVE  Advancing(p) /\ ran' = ran
<1>0. TypeOK /\ MayCommit(p) /\ ran' = ran
  BY AttemptFacts
     DEF RecoverInterrupted, CancelRun, BeginAttempt, ReenterGate, MayCommit, world
<1>1. CASE RecoverInterrupted(p)
  <2>1. mem'[p].tree = [s \in Steps |-> RecoveredLeaf(mem[p].tree[s])]
    BY <1>0, <1>1, CommitTree DEF RecoverInterrupted
  <2>2. ASSUME NEW s \in Steps
        PROVE  /\ Advance(mem[p].tree[s], RecoveredLeaf(mem[p].tree[s]))
               /\ RecoveredLeaf(mem[p].tree[s]).state # "RUNNING"
    <3>1. mem[p].tree[s] \in Leaf /\ Numbered(mem[p].tree[s])
      BY <1>0, AttemptFacts DEF AttemptsAreOwned
    <3> QED BY <3>1 DEF RecoveredLeaf, Interrupted, Settled, Advance, Numbered, Leaf
  <2> QED BY <1>0, <2>1, <2>2 DEF Advancing
<1>2. CASE CancelRun(p)
  <2>1. pc'[p] = "close"
    BY <1>0, <1>2, AttemptFacts DEF CancelRun, Conclude, Goto
  <2>2. CASE inflight[p] \notin Steps
    BY <1>0, <1>2, <2>1, <2>2 DEF CancelRun, Advancing, Advance
  <2>3. CASE inflight[p] \in Steps
    <3> DEFINE leaf == [mem[p].tree[inflight[p]] EXCEPT !.state = "CANCELLED"]
    <3>1. leaf \in Leaf /\ Advance(mem[p].tree[inflight[p]], leaf) /\ leaf.state = "CANCELLED"
      BY <2>3, AttemptFacts DEF Leaf, NodeStates, Advance
    <3>2. mem'[p].tree = [mem[p].tree EXCEPT ![inflight[p]] = leaf]
      BY <1>0, <1>2, <2>3, CommitTree DEF CancelRun
    <3> HIDE DEF leaf
    <3> QED BY <1>0, <2>1, <2>3, <3>1, <3>2, LeafAdvances
  <2> QED BY <2>2, <2>3
<1>3. ASSUME NEW s \in Steps, BeginAttempt(p, s) PROVE Advancing(p)
  <2>1. mem[p].tree[s].attempt = 0 /\ Upcoming(mem[p].tree, s)
    BY <1>0, <1>3 DEF BeginAttempt, AttemptsAreOwned, Numbered
  <2>2. /\ mem'[p].tree = [mem[p].tree EXCEPT ![s] = Opened(@, 1)]
        /\ pc'[p] = "drive" => Saved(p)
    BY <1>0, <1>3, CommitTree DEF BeginAttempt
  <2>3. 1 = mem[p].tree[s].attempt + 1
    BY <2>1
  <2> QED BY <1>0, <2>1, <2>2, <2>3, OpenedAdvances
<1>4. ASSUME NEW s \in Steps, ReenterGate(p, s) PROVE Advancing(p)
  BY <1>0, <1>4, GateAdvances DEF ReenterGate
<1> QED BY <1>0, <1>1, <1>2, <1>3, <1>4

CommitStep(p) ==
    \/ RecoverInterrupted(p)
    \/ CancelRun(p) /\ inflight[p] \in Steps
    \/ \E s \in Steps :
          \/ BeginAttempt(p, s) \/ ReenterGate(p, s)
          \/ \E n \in mem[p].tree[s].attempt..LastAttempt(p, s) : AttemptPasses(p, s, n)
          \/ AttemptIgnored(p, s) \/ AttemptFails(p, s)
          \/ PromptRetry(p, s) \/ PromptContinue(p, s) \/ PromptAbort(p, s)

LEMMA CommitIsNoLoad ==
    ASSUME IInv, NEW p \in Procs, CommitStep(p)
    PROVE  ~Loading(p)
<1>0. TypeOK
  BY DEF IInv
<1>1. /\ \A tree, status, label : CommitThen(p, tree, status, label) =>
            Commit(p, tree, status) /\ (Saved(p) \/ pc'[p] = "close")
      /\ \A outcome \in {"FAILED", "CANCELLED"} : Conclude(p, outcome) => pc'[p] = "close"
  BY <1>0 DEF CommitThen, Conclude, Goto, TypeOK
<1>2. \E tree, status : Commit(p, tree, status) /\ (Saved(p) \/ pc'[p] = "close")
  BY <1>1 DEF CommitStep, RecoverInterrupted, CancelRun, BeginAttempt, ReenterGate, AttemptPasses,
              AttemptIgnored, AttemptFails, PromptRetry, PromptContinue, PromptAbort, FailureGate,
              CommitFailed
<1>3. Saved(p) => mem'[p].rev = row.rev + 1
  BY <1>0, <1>2 DEF Commit, Saved, TypeOK
<1>4. Loading(p) => mem'[p].rev = row.rev /\ pc'[p] # "close" /\ row.rev \in Nat
  BY <1>0 DEF Loading, Goto, TypeOK, Row
<1> QED BY <1>2, <1>3, <1>4

LEMMA ActorAttempts ==
    ASSUME IInv, AttemptsAreOwned, \A s \in Steps : Budget[s] = 1, NEW p \in Procs,
           Progress(p) \/ User(p) \/ Disturbance(p)
    PROVE  \/ \E s \in Steps : StartAttempt(p, s)
           \/ LoadState(p)
           \/ ran' = ran /\ (Quiet \/ Early)
           \/ ran' = ran /\ Advancing(p) /\ \E tree \in Tree : Committing(p, tree)
<1>1. \/ Quiet \/ Early \/ Loading(p)
      \/ \E s \in Steps : StartAttempt(p, s)
      \/ \E tree \in Tree : Committing(p, tree)
  BY ProgressKind, UserKind, DisturbanceKind
<1>2. CASE CommitStep(p)
  <2>1. Advancing(p) /\ ran' = ran
    BY <1>2, AttemptAdvances, AnswerAdvances, OtherCommitsAdvance DEF CommitStep
  <2> QED BY <1>1, <1>2, <2>1, CommitIsNoLoad
<1>3. CASE InitState(p) \/ StartFails(p) \/ OpenSession(p) \/ OpenFails(p) \/ LoadFails(p)
           \/ NothingLeft(p) \/ AutoApply(p) \/ Close(p) \/ CloseUnwinding(p) \/ Finish(p)
           \/ InsertRow(p) \/ ResumeRun(p) \/ Die(p) \/ Unwind(p) \/ LeavePrompt(p)
           \/ (CancelRun(p) /\ inflight[p] \notin Steps)
  <2>1. ran' = ran /\ mem' = mem
    BY <1>3 DEF InitState, StartFails, OpenSession, OpenFails, LoadFails, NothingLeft, AutoApply,
       Close, CloseUnwinding, Finish, InsertRow, ResumeRun, Die, Unwind, LeavePrompt, CancelRun, world
  <2>2. pc'[p] \notin {"recover", "drive", "exec"}
    BY <1>3, AttemptFacts DEF InitState, StartFails, OpenSession, OpenFails, LoadFails, NothingLeft,
       AutoApply, Close, CloseUnwinding, Finish, InsertRow, ResumeRun, Die, Unwind, LeavePrompt,
       CancelRun, Conclude, Goto
  <2>3. Advancing(p)
    BY <2>1, <2>2 DEF Advancing, Advance
  <2>4. ~Loading(p) /\ ~\E s \in Steps : StartAttempt(p, s)
    BY <2>2, AttemptFacts DEF Loading, StartAttempt, Goto
  <2> QED BY <1>1, <2>1, <2>3, <2>4
<1> QED BY <1>2, <1>3 DEF CommitStep, Progress, User, Disturbance

LEMMA AttemptsStart ==
    ASSUME IInv, AttemptsAreOwned, NEW p \in Procs, NEW s \in Steps, StartAttempt(p, s)
    PROVE  AttemptsAreOwned' /\ mem[p].tree[s].attempt \notin ran[s]
<1> DEFINE n == mem[p].tree[s].attempt
<1>0. /\ UNCHANGED <<row, mem>> /\ Holds(p, s) /\ MayCommit(p) /\ n \in Nat
      /\ ran \in [Steps -> SUBSET Nat] /\ pc \in [Procs -> PCs]
  BY AttemptFacts DEF StartAttempt, Holds, MayCommit
<1>1. n \notin ran[s] /\ n <= row.tree[s].attempt
  BY <1>0 DEF AttemptsAreOwned
<1>2. /\ ran'[s] = ran[s] \cup {n} /\ \A r \in Steps \ {s} : ran'[r] = ran[r]
      /\ pc'[p] = "exec" /\ \A q \in Procs \ {p} : pc'[q] = pc[q] /\ inflight'[q] = inflight[q]
      /\ inflight'[p] = s
  BY <1>0, AttemptFacts DEF StartAttempt, Goto, TypeOK
<1>3. \A r \in Steps : Numbered(row.tree[r])' /\ \A m \in ran'[r] : m <= row'.tree[r].attempt
  BY <1>0, <1>1, <1>2 DEF AttemptsAreOwned, Numbered
<1>4. ASSUME NEW q \in Procs, NEW r \in Steps
      PROVE  /\ MayCommit(q)' => /\ Numbered(mem[q].tree[r])'
                                 /\ mem'[q].tree[r].attempt <= row'.tree[r].attempt
             /\ pc'[q] = "exec" /\ inflight'[q] = r => mem'[q].tree[r].attempt \in ran'[r]
  BY <1>0, <1>2 DEF AttemptsAreOwned, Numbered, MayCommit
<1>5. ASSUME NEW q \in Procs, NEW r \in Steps, Holds(q, r)'
      PROVE  /\ mem'[q].tree[r].attempt \notin ran'[r]
             /\ \A o \in Procs \ {q} : Holds(o, r)' => mem'[o].tree[r].attempt # mem'[q].tree[r].attempt
  <2>1. q # p /\ \A o \in Procs : Holds(o, r)' => Holds(o, r)
    BY <1>0, <1>2, <1>5 DEF Holds
  <2>2. Holds(q, r)
    BY <1>5, <2>1
  <2>3. r = s => mem[q].tree[r].attempt # n
    BY <1>0, <2>1, <2>2 DEF AttemptsAreOwned
  <2> QED BY <1>0, <1>2, <2>1, <2>2, <2>3 DEF AttemptsAreOwned
<1> HIDE DEF n
<1>6. AttemptsAreOwned'
  BY <1>3, <1>4, <1>5 DEF AttemptsAreOwned
<1> QED BY <1>1, <1>6 DEF n

LEMMA AttemptsLoad ==
    ASSUME IInv, AttemptsAreOwned, NEW p \in Procs, LoadState(p)
    PROVE  AttemptsAreOwned'
<1>0. /\ UNCHANGED <<row, ran>> /\ mem'[p].tree = row.tree /\ pc'[p] \in {"recover", "drive"}
      /\ pc'[p] = "drive" => \A s \in Steps : ~Interrupted(row.tree[s])
      /\ \A q \in Procs \ {p} : mem'[q] = mem[q] /\ pc'[q] = pc[q] /\ inflight'[q] = inflight[q]
  BY AttemptFacts DEF LoadState, Goto, world, TypeOK
<1>1. \A s \in Steps : Numbered(row.tree[s]) /\ row.tree[s].attempt \in Nat
  BY AttemptFacts DEF AttemptsAreOwned
<1>2. \A s \in Steps : ~Holds(p, s)'
  BY <1>0, <1>1 DEF Holds, Numbered, Interrupted
<1>3. \A q \in Procs \ {p}, s \in Steps : Holds(q, s)' <=> Holds(q, s)
  BY <1>0 DEF Holds
<1>4. ASSUME NEW q \in Procs, NEW s \in Steps
      PROVE  /\ MayCommit(q)' => /\ Numbered(mem[q].tree[s])'
                                 /\ mem'[q].tree[s].attempt <= row'.tree[s].attempt
             /\ pc'[q] = "exec" /\ inflight'[q] = s => mem'[q].tree[s].attempt \in ran'[s]
             /\ Holds(q, s)' =>
                   /\ mem'[q].tree[s].attempt \notin ran'[s]
                   /\ \A o \in Procs \ {q} : Holds(o, s)' => mem'[o].tree[s].attempt # mem'[q].tree[s].attempt
  <2>1. CASE q = p
    BY <1>0, <1>1, <1>2, <2>1 DEF Numbered
  <2>2. CASE q # p
    BY <1>0, <1>2, <1>3, <2>2 DEF AttemptsAreOwned, Numbered, MayCommit
  <2> QED BY <2>1, <2>2
<1>5. \A s \in Steps : Numbered(row.tree[s])' /\ \A n \in ran'[s] : n <= row'.tree[s].attempt
  BY <1>0 DEF AttemptsAreOwned, Numbered
<1> QED BY <1>4, <1>5 DEF AttemptsAreOwned

LEMMA AttemptsQuiet ==
    ASSUME IInv, AttemptsAreOwned, ran' = ran, Quiet \/ Early
    PROVE  AttemptsAreOwned'
<1>1. row'.tree = row.tree
  BY DEF Quiet, Early, IInv, NothingBeforeInit
<1>2. ASSUME NEW q \in Procs
      PROVE  MayCommit(q)' => pc'[q] = pc[q] /\ mem'[q] = mem[q] /\ inflight'[q] = inflight[q]
  BY DEF Quiet, Early
<1>3. \A q \in Procs, s \in Steps : /\ Holds(q, s)' => Holds(q, s) /\ mem'[q] = mem[q]
                                    /\ pc'[q] = "exec" => MayCommit(q)'
                                    /\ MayCommit(q)' => MayCommit(q)
  BY <1>2 DEF Holds, MayCommit
<1>4. ASSUME NEW q \in Procs, NEW s \in Steps
      PROVE  /\ MayCommit(q)' => /\ Numbered(mem[q].tree[s])'
                                 /\ mem'[q].tree[s].attempt <= row'.tree[s].attempt
             /\ pc'[q] = "exec" /\ inflight'[q] = s => mem'[q].tree[s].attempt \in ran'[s]
  BY <1>1, <1>2, <1>3 DEF AttemptsAreOwned, Numbered
<1>5. ASSUME NEW q \in Procs, NEW s \in Steps, Holds(q, s)'
      PROVE  /\ mem'[q].tree[s].attempt \notin ran'[s]
             /\ \A o \in Procs \ {q} : Holds(o, s)' => mem'[o].tree[s].attempt # mem'[q].tree[s].attempt
  BY <1>3, <1>5 DEF AttemptsAreOwned
<1>6. \A s \in Steps : Numbered(row.tree[s])' /\ \A n \in ran'[s] : n <= row'.tree[s].attempt
  BY <1>1 DEF AttemptsAreOwned, Numbered
<1> QED BY <1>4, <1>5, <1>6 DEF AttemptsAreOwned

LEMMA AttemptsCommit ==
    ASSUME IInv, AttemptsAreOwned, ran' = ran, NEW p \in Procs, Advancing(p),
           NEW tree \in Tree, Committing(p, tree)
    PROVE  AttemptsAreOwned'
<1> DEFINE old == mem[p].tree
<1>0. /\ \A q \in Procs \ {p} : mem'[q] = mem[q] /\ pc'[q] = pc[q] /\ inflight'[q] = inflight[q]
      /\ MayCommit(p) /\ pc'[p] # "exec"
      /\ \A s \in Steps : old[s].attempt \in Nat /\ row.tree[s].attempt \in Nat
  BY CommitEffect, AttemptFacts DEF Committing
<1>1. CASE ~Saved(p)
  <2>1. row' = row /\ ~MayCommit(p)'
    BY <1>1, CommitEffect
  <2>2. ASSUME NEW q \in Procs, NEW s \in Steps
        PROVE  /\ MayCommit(q)' => /\ Numbered(mem[q].tree[s])'
                                   /\ mem'[q].tree[s].attempt <= row'.tree[s].attempt
               /\ pc'[q] = "exec" /\ inflight'[q] = s => mem'[q].tree[s].attempt \in ran'[s]
               /\ Holds(q, s)' => Holds(q, s) /\ mem'[q] = mem[q]
    BY <1>0, <2>1 DEF AttemptsAreOwned, Numbered, MayCommit, Holds
  <2>3. ASSUME NEW q \in Procs, NEW s \in Steps, Holds(q, s)'
        PROVE  /\ mem'[q].tree[s].attempt \notin ran'[s]
               /\ \A o \in Procs \ {q} : Holds(o, s)' => mem'[o].tree[s].attempt # mem'[q].tree[s].attempt
    BY <2>2, <2>3 DEF AttemptsAreOwned
  <2>4. \A s \in Steps : Numbered(row.tree[s])' /\ \A n \in ran'[s] : n <= row'.tree[s].attempt
    BY <2>1 DEF AttemptsAreOwned, Numbered
  <2> QED BY <2>2, <2>3, <2>4 DEF AttemptsAreOwned
<1>2. CASE Saved(p)
  <2>1. /\ old = row.tree /\ row'.tree = tree /\ mem'[p].tree = tree
    <3>1. /\ mem[p].tree = row.tree /\ row'.tree = tree
          /\ mem' = [mem EXCEPT ![p] = [tree |-> tree, rev |-> row.rev + 1]]
      BY <1>2, CommitEffect
    <3> QED BY <3>1, AttemptFacts DEF TypeOK
  <2>2. ASSUME NEW s \in Steps
        PROVE  /\ Numbered(tree[s]) /\ tree[s].attempt \in Nat
               /\ row.tree[s].attempt <= tree[s].attempt
               /\ tree[s].state = "RUNNING" /\ tree[s].attempt = row.tree[s].attempt =>
                     tree[s] = row.tree[s]
    <3>1. Advance(row.tree[s], tree[s]) /\ Numbered(row.tree[s]) /\ row.tree[s].attempt \in Nat
      BY <1>0, <2>1 DEF Advancing, AttemptsAreOwned
    <3> QED BY <3>1 DEF Advance, Numbered
  <2>3. \A s \in Steps : Numbered(row.tree[s])' /\ \A n \in ran'[s] : n <= row'.tree[s].attempt
    <3>1. ASSUME NEW s \in Steps, NEW n \in ran[s] PROVE n <= tree[s].attempt
      <4>1. n \in Nat /\ n <= row.tree[s].attempt
        BY <3>1, AttemptFacts DEF AttemptsAreOwned
      <4> QED BY <1>0, <2>2, <4>1
    <3> QED BY <2>1, <2>2, <3>1 DEF Numbered
  <2>4. ASSUME NEW q \in Procs, NEW s \in Steps
        PROVE  /\ MayCommit(q)' => /\ Numbered(mem[q].tree[s])'
                                   /\ mem'[q].tree[s].attempt <= row'.tree[s].attempt
               /\ pc'[q] = "exec" /\ inflight'[q] = s => mem'[q].tree[s].attempt \in ran'[s]
    <3>1. CASE q = p
      BY <1>0, <2>1, <2>2, <3>1 DEF Numbered
    <3>2. CASE q # p
      <4>1. mem[q].tree[s].attempt \in Nat
        BY AttemptFacts
      <4>2. mem'[q] = mem[q] /\ (MayCommit(q)' <=> MayCommit(q)) /\ pc'[q] = pc[q] /\ inflight'[q] = inflight[q]
        BY <1>0, <3>2 DEF MayCommit
      <4>3. MayCommit(q) => Numbered(mem[q].tree[s]) /\ mem[q].tree[s].attempt <= row.tree[s].attempt
        BY DEF AttemptsAreOwned
      <4>4. MayCommit(q) => mem[q].tree[s].attempt <= tree[s].attempt
        BY <1>0, <2>2, <4>1, <4>3
      <4>5. pc[q] = "exec" /\ inflight[q] = s => mem[q].tree[s].attempt \in ran[s]
        BY DEF AttemptsAreOwned
      <4> QED BY <2>1, <4>2, <4>3, <4>4, <4>5 DEF Numbered
    <3> QED BY <3>1, <3>2
  (* An attempt that p holds after the commit is the one it held, or one    *)
  (* with a number that the row did not have.                               *)
  <2>5. ASSUME NEW s \in Steps, Holds(p, s)'
        PROVE  (Holds(p, s) /\ tree[s] = old[s]) \/ tree[s].attempt = row.tree[s].attempt + 1
    <3>1. Advance(row.tree[s], tree[s]) /\ tree[s].state = "RUNNING" /\ pc'[p] = "drive"
      BY <2>1, <2>5 DEF Holds, Advancing
    <3>2. tree[s] = row.tree[s] => pc[p] = "drive"
      BY <2>1, <3>1 DEF Advancing
    <3> QED BY <2>1, <3>1, <3>2 DEF Advance, Holds
  <2>6. ASSUME NEW q \in Procs, NEW s \in Steps, Holds(q, s)'
        PROVE  /\ mem'[q].tree[s].attempt \notin ran'[s]
               /\ \A o \in Procs \ {q} : Holds(o, s)' => mem'[o].tree[s].attempt # mem'[q].tree[s].attempt
    <3>0. \A o \in Procs \ {p} : Holds(o, s)' =>
             /\ Holds(o, s) /\ mem'[o] = mem[o] /\ mem[o].tree[s].attempt \in Nat
             /\ mem[o].tree[s].attempt <= row.tree[s].attempt
      BY <1>0, AttemptFacts DEF Holds, AttemptsAreOwned, MayCommit
    <3>1. CASE q = p /\ tree[s].attempt = row.tree[s].attempt + 1
      <4>1. tree[s].attempt \notin ran[s]
        <5>1. \A n \in ran[s] : n \in Nat /\ n <= row.tree[s].attempt
          BY AttemptFacts DEF AttemptsAreOwned
        <5> QED BY <1>0, <3>1, <5>1
      <4>2. \A o \in Procs \ {p} : Holds(o, s)' => mem[o].tree[s].attempt # tree[s].attempt
        BY <1>0, <3>0, <3>1
      <4> QED BY <2>1, <3>0, <3>1, <4>1, <4>2
    <3>2. CASE q = p /\ Holds(p, s) /\ tree[s] = old[s]
      BY <2>1, <3>0, <3>2 DEF AttemptsAreOwned
    <3>3. CASE q # p
      <4>1. mem[q].tree[s].attempt \notin ran[s]
        BY <2>6, <3>0, <3>3 DEF AttemptsAreOwned
      <4>2. \A o \in Procs \ {q, p} : Holds(o, s)' => mem[o].tree[s].attempt # mem[q].tree[s].attempt
        BY <2>6, <3>0, <3>3 DEF AttemptsAreOwned
      <4>3. Holds(p, s)' => tree[s].attempt # mem[q].tree[s].attempt
        <5>1. Holds(p, s) /\ tree[s] = old[s] => tree[s].attempt # mem[q].tree[s].attempt
          BY <2>6, <3>0, <3>3 DEF AttemptsAreOwned
        <5>2. tree[s].attempt = row.tree[s].attempt + 1 => tree[s].attempt # mem[q].tree[s].attempt
          BY <1>0, <2>6, <3>0, <3>3
        <5> QED BY <2>5, <5>1, <5>2
      <4> QED BY <2>1, <2>6, <3>0, <3>3, <4>1, <4>2, <4>3
    <3> QED BY <2>5, <2>6, <3>1, <3>2, <3>3
  <2> QED BY <2>3, <2>4, <2>6 DEF AttemptsAreOwned
<1> QED BY <1>1, <1>2

LEMMA AttemptsStep ==
    ASSUME IInv, AttemptsAreOwned, \A s \in Steps : Budget[s] = 1, [Next]_vars
    PROVE  AttemptsAreOwned'
<1>1. ASSUME NEW p \in Procs, Progress(p) \/ User(p) \/ Disturbance(p) PROVE AttemptsAreOwned'
  BY <1>1, ActorAttempts, AttemptsStart, AttemptsLoad, AttemptsQuiet, AttemptsCommit
<1>2. CASE Reconcile \/ PidRecycled \/ RemoveWorktree \/ UNCHANGED vars
  <2>1. ran' = ran /\ Quiet
    <3>1. row'.tree = row.tree /\ row'.rev = row.rev /\ row.rev \in Nat
      BY <1>2 DEF Reconcile, PidRecycled, RemoveWorktree, vars, IInv, TypeOK, Row
    <3> QED BY <1>2, <3>1 DEF Reconcile, PidRecycled, RemoveWorktree, vars, world, Quiet
  <2> QED BY <2>1, AttemptsQuiet
<1> QED BY <1>1, <1>2 DEF Next

LEMMA AttemptsInit == Init => AttemptsAreOwned
BY DEF Init, NoRow, Plan, Planned, AttemptsAreOwned, Numbered, Holds, MayCommit

LEMMA OnlyAttemptsStart ==
    ASSUME IInv, AttemptsAreOwned, \A s \in Steps : Budget[s] = 1, [Next]_vars,
           NEW p \in Procs, NEW s \in Steps, pc[p] = "drive", pc'[p] = "exec", inflight'[p] = s
    PROVE  mem[p].tree[s].attempt \notin ran[s]
<1>1. \A q \in Procs : ~Loading(q) \/ q # p
  BY AttemptFacts DEF Loading, Goto
<1>2. \E r \in Steps : StartAttempt(p, r)
  <2>1. ~Quiet /\ ~Early
    BY DEF Quiet, Early, MayCommit
  <2>2. \A q \in Procs, tree \in Tree : ~Committing(q, tree)
    BY DEF Committing
  <2>3. \A q \in Procs \ {p} : ~Loading(q)
    BY AttemptFacts DEF Loading, Goto
  <2>4. \A q \in Procs \ {p}, r \in Steps : ~StartAttempt(q, r)
    BY AttemptFacts DEF StartAttempt, Goto
  <2> QED BY <1>1, <2>1, <2>2, <2>3, <2>4, StepKind
<1>3. StartAttempt(p, s)
  BY <1>2, AttemptFacts DEF StartAttempt, TypeOK
<1> QED BY <1>3, AttemptsStart

(* No attempt of a step is executed twice under the same number, by however *)
(* many processes and whatever fails, where a step has no retry budget of   *)
(* its own: numbers the executor used up before a refused save are not in   *)
(* the row.                                                                 *)
THEOREM AttemptsRunOnce ==
    ASSUME \A s \in Steps : Budget[s] = 1
    PROVE  Spec => [](AttemptsAreOwned) /\ AttemptRunsOnce
<1>1. IInv /\ AttemptsAreOwned /\ [Next]_vars => AttemptsAreOwned'
  BY AttemptsStep
<1>2. IInv /\ AttemptsAreOwned /\ [Next]_vars =>
        [\A p \in Procs, s \in Steps :
            /\ pc[p] = "drive" /\ pc'[p] = "exec" /\ inflight'[p] = s
            => mem[p].tree[s].attempt \notin ran[s]]_vars
  BY OnlyAttemptsStart
<1> QED BY <1>1, <1>2, AttemptsInit, EngineInvariant, PTL DEF Spec, AttemptRunsOnce
=============================================================================
