---------------------------- MODULE LoopExecution ----------------------------
(***************************************************************************)
(* A loop block of a run: RunCoordinator's loop methods and LoopPolicy over *)
(* the persisted loop node, driven by the process of `dovo run` and, after  *)
(* a pause, by those of `dovo resume`.  As in RunEngine every commit is a   *)
(* compare-and-swap at the coordinator's revision, and a driver may die     *)
(* between any two of them.  The loop is the run's only node here; the      *)
(* worktree, the executor's own retries and reconciliation are RunEngine's. *)
(***************************************************************************)
EXTENDS StateModels, Sequences, FiniteSets

CONSTANTS
    Procs,            \* the processes that may drive the run
    Interactive,      \* those with a prompter and a terminal
    BodySteps,        \* number of steps in the loop's `do`
    MaxIterations,    \* the loop's max_iterations
    OnMaxIterations,  \* the loop's on_max_iterations policy
    Policy,           \* terminal failure policy of each body step
    GrantCount,       \* _CEILING_GRANT_COUNT
    MaxCeiling,       \* bound: the user grants no iterations beyond this ceiling
    MaxAttempt,       \* bound: the user asks for no attempt beyond this number
    Faults            \* the failures that may strike

Body == 1..BodySteps
FailurePolicies == {"abort", "continue", "prompt_user"}

ASSUME DriversAssumption == Procs # {} /\ Interactive \subseteq Procs
ASSUME LoopAssumption ==
    /\ BodySteps \in Nat \ {0} /\ MaxIterations \in Nat \ {0}
    /\ OnMaxIterations \in FailurePolicies
    /\ Policy \in [Body -> FailurePolicies]
    /\ GrantCount \in Nat \ {0} /\ MaxCeiling \in Nat /\ MaxAttempt \in Nat
    /\ Faults \subseteq {"crash", "interrupt", "db"}

VARIABLES
    row,       \* the run's row: status, rev and the loop node
    pc,        \* where each driver is
    mem,       \* each coordinator's in-memory loop node and revision
    inflight,  \* _in_flight: Nothing, TheLoop or the body leaf <<iteration, step>>
    outcome,   \* each driver's RunOutcome status
    ran,       \* history: the attempts <<iteration, step, number>> executed
    judged     \* history: the iterations whose `until` was judged, how often

vars == <<row, pc, mem, inflight, outcome, ran, judged>>

----------------------------------------------------------------------------
(* The loop node.                                                           *)

(* new_iteration: PENDING, with a planned leaf for every body step.         *)
NewIteration == [state |-> "PENDING", until |-> "none", steps |-> [k \in Body |-> Planned]]
NewLoop == [state |-> "PENDING", granted |-> 0, iterations |-> <<NewIteration>>]

Ceiling(loop) == MaxIterations + loop.granted
Count(loop) == Len(loop.iterations)
Current(loop) == loop.iterations[Count(loop)]

Begun(loop) ==      \* _begin_iteration of the last iteration
    [loop EXCEPT !.state = "RUNNING", !.iterations[Count(loop)].state = "RUNNING"]
AnotherBegun(loop) ==
    Begun([loop EXCEPT !.iterations = Append(@, NewIteration)])
WithLeaf(loop, k, leaf) == [loop EXCEPT !.iterations[Count(loop)].steps[k] = leaf]
Judged(loop, verdict) ==
    [loop EXCEPT !.iterations[Count(loop)].until = verdict,
                 !.iterations[Count(loop)].state = "COMPLETED"]
Granted(loop) == [loop EXCEPT !.granted = @ + GrantCount]
Finished(loop) == [loop EXCEPT !.state = "COMPLETED"]
Failed(loop) ==
    [loop EXCEPT !.state = "FAILED",
                 !.iterations[Count(loop)].state = IF @ \in Terminal THEN @ ELSE "FAILED"]

RecoveredIteration(it) == [it EXCEPT !.steps = [k \in Body |-> RecoveredLeaf(it.steps[k])]]
Recovered(loop) ==
    [loop EXCEPT !.iterations = [i \in 1..Count(loop) |-> RecoveredIteration(@[i])]]

Leaves(loop) == {loop.iterations[i].steps[k] : i \in 1..Count(loop), k \in Body}

----------------------------------------------------------------------------
(* LoopPolicy.evaluate_iteration, on the last iteration.                    *)

(* advance_body_step with k.                                                *)
AnyLiveStep(loop, k) == ~Ended(Current(loop).steps[k])          \* mutant
NextBodyStep(loop, k) ==
    /\ ~Ended(Current(loop).steps[k])
    /\ \A j \in 1..(k - 1) : Ended(Current(loop).steps[j])

BodyDone(loop) == \A k \in Body : Ended(Current(loop).steps[k])

MustJudge(loop) == BodyDone(loop) /\ Current(loop).until = "none"
HasPassed(loop) == BodyDone(loop) /\ Current(loop).until = "passed"
BelowLast(loop) ==                                              \* mutant: off by one
    BodyDone(loop) /\ Current(loop).until = "failed" /\ Count(loop) + 1 < Ceiling(loop)
UpToCeiling(loop) ==                                            \* mutant: off by one
    BodyDone(loop) /\ Current(loop).until = "failed" /\ Count(loop) <= Ceiling(loop)
RepeatRegardless(loop) == BodyDone(loop) /\ Count(loop) < Ceiling(loop)  \* mutant
MayRepeat(loop) ==
    BodyDone(loop) /\ Current(loop).until = "failed" /\ Count(loop) < Ceiling(loop)
AtMaximum(loop) ==                          \* mutant: grants do not count
    BodyDone(loop) /\ Current(loop).until = "failed" /\ Count(loop) >= MaxIterations
AtCeiling(loop) ==
    BodyDone(loop) /\ Current(loop).until = "failed" /\ Count(loop) >= Ceiling(loop)
----------------------------------------------------------------------------
(* Drivers and commits, as in RunEngine.                                    *)

Gone == {"done", "dead"}
Waiting == {"prompt", "ceiling"}
Driving == {"load", "recover", "drive", "exec", "failing", "finish"} \cup Waiting
PCs == Driving \cup Gone \cup {"idle"}

Fault(kind) == kind \in Faults
Goto(p, label) == pc' = [pc EXCEPT ![p] = label]

Conclude(p, status) ==
    /\ outcome' = [outcome EXCEPT ![p] = status]
    /\ Goto(p, "finish")

SavedAtAnyRevision(p) == TRUE               \* mutant: no compare-and-swap
Saved(p) == mem[p].rev = row.rev

Unchanged == "unchanged"

(* _commit: the loop in memory was changed before, whatever the save does.  *)
Commit(p, loop, status) ==
    /\ row' = IF Saved(p)
              THEN [status |-> IF status = Unchanged THEN row.status ELSE status,
                    rev |-> mem[p].rev + 1, loop |-> loop]
              ELSE row
    /\ mem' = [mem EXCEPT ![p] = [loop |-> loop, rev |-> IF Saved(p) THEN @.rev + 1 ELSE @.rev]]

(* A commit of the loop's own: refused, it fails the run as it is.          *)
CommitLoop(p, loop) ==
    /\ Commit(p, loop, Unchanged)
    /\ IF Saved(p) THEN Goto(p, "drive") /\ UNCHANGED outcome ELSE Conclude(p, "FAILED")

(* A commit of a body leaf: refused, it fails the loop first.               *)
CommitLeaf(p, k, leaf, status, label) ==
    /\ Commit(p, WithLeaf(mem[p].loop, k, leaf), status)
    /\ Goto(p, IF Saved(p) THEN label ELSE "failing")
    /\ UNCHANGED outcome

(* _finish_loop: what the last commit says does not matter to a failed one. *)
FinishLoop(p) == CommitLoop(p, Finished(mem[p].loop))
FinishFailedLoop(p) ==
    /\ Commit(p, Failed(mem[p].loop), Unchanged)
    /\ Conclude(p, "FAILED")

Nothing == <<>>
TheLoop == <<0, 0>>
InLoop(p) == pc[p] = "drive" /\ mem[p].loop.state = "RUNNING"
HasInHand(p, label, k) == pc[p] = label /\ inflight[p] = <<Count(mem[p].loop), k>>
LeafOf(p, k) == Current(mem[p].loop).steps[k]
TakeInHand(p, node) == inflight' = [inflight EXCEPT ![p] = node]
Dispatched(p) ==    \* _drive takes a resumed loop in hand before anything else
    inflight' = [inflight EXCEPT ![p] = IF @ = Nothing THEN TheLoop ELSE @]

----------------------------------------------------------------------------
(* Starting.                                                                *)

(* Engine.resume: a PAUSED row with a node left to run; a database error in *)
(* _mark_running leaves it PAUSED, and the run goes on.                     *)
ResumeRun(p) ==
    /\ pc[p] = "idle"
    /\ row.status = "PAUSED" /\ row.loop.state \notin Terminal
    /\ \A leaf \in Leaves(row.loop) : leaf.state = "PAUSED" => leaf.result # "none"
    /\ row' = [row EXCEPT !.status = "RUNNING"] \/ (Fault("db") /\ UNCHANGED row)
    /\ Goto(p, "load")
    /\ UNCHANGED <<mem, inflight, outcome, ran, judged>>

(* RunCoordinator._start reads the row without the lock.                    *)
LoadFreshLoop(p) ==                         \* mutant: the plan instead of the row's loop
    /\ pc[p] = "load"
    /\ mem' = [mem EXCEPT ![p] = [loop |-> NewLoop, rev |-> row.rev]]
    /\ Goto(p, "drive")
    /\ UNCHANGED <<row, inflight, outcome, ran, judged>>

LoadState(p) ==
    /\ pc[p] = "load"
    /\ mem' = [mem EXCEPT ![p] = [loop |-> row.loop, rev |-> row.rev]]
    /\ Goto(p, IF \E leaf \in Leaves(row.loop) : Interrupted(leaf) THEN "recover" ELSE "drive")
    /\ UNCHANGED <<row, inflight, outcome, ran, judged>>

RecoverInterrupted(p) ==
    /\ pc[p] = "recover"
    /\ CommitLoop(p, Recovered(mem[p].loop))
    /\ UNCHANGED <<inflight, ran, judged>>

(* _advance_loop of a PENDING loop begins its planned first iteration.      *)
StartLoop(p) ==
    /\ pc[p] = "drive" /\ mem[p].loop.state = "PENDING"
    /\ TakeInHand(p, TheLoop)
    /\ CommitLoop(p, Begun(mem[p].loop))
    /\ UNCHANGED <<ran, judged>>

----------------------------------------------------------------------------
(* _advance_body_step through _advance_slot.                                *)

BeginAttempt(p, k) ==
    /\ InLoop(p) /\ NextBodyStep(mem[p].loop, k) /\ LeafOf(p, k).state = "PENDING"
    /\ TakeInHand(p, <<Count(mem[p].loop), k>>)
    /\ CommitLeaf(p, k, Opened(LeafOf(p, k), 1), Unchanged, "drive")
    /\ UNCHANGED <<ran, judged>>

StartAttempt(p, k) ==
    /\ InLoop(p) /\ NextBodyStep(mem[p].loop, k) /\ LeafOf(p, k).state = "RUNNING"
    /\ TakeInHand(p, <<Count(mem[p].loop), k>>)
    /\ ran' = ran \cup {<<Count(mem[p].loop), k, LeafOf(p, k).attempt>>}
    /\ Goto(p, "exec")
    /\ UNCHANGED <<row, mem, outcome, judged>>

AttemptPasses(p, k) ==
    /\ HasInHand(p, "exec", k)
    /\ CommitLeaf(p, k, Settled(LeafOf(p, k), "COMPLETED", LeafOf(p, k).attempt, "completed"),
                  Unchanged, "drive")
    /\ UNCHANGED <<inflight, ran, judged>>

(* _resolve_failed_leaf with the leaf's last result.                        *)
FailureGate(p, k) ==
    LET leaf == LeafOf(p, k)
        As(state, result) == Settled(leaf, state, leaf.attempt, result)
    IN  \/ /\ Policy[k] = "continue"
           /\ CommitLeaf(p, k, As("IGNORED", "ignored"), Unchanged, "drive")
        \/ /\ Policy[k] = "prompt_user" /\ p \in Interactive
           /\ CommitLeaf(p, k, As("PAUSED", "failed"), "PAUSED", "prompt")
        \/ /\ Policy[k] = "abort" \/ (Policy[k] = "prompt_user" /\ p \notin Interactive)
           /\ CommitLeaf(p, k, As("FAILED", "failed"), Unchanged, "failing")

AttemptFails(p, k) ==
    /\ HasInHand(p, "exec", k)
    /\ FailureGate(p, k)
    /\ UNCHANGED <<inflight, ran, judged>>

ReenterGate(p, k) ==
    /\ InLoop(p) /\ NextBodyStep(mem[p].loop, k) /\ LeafOf(p, k).state = "PAUSED"
    /\ TakeInHand(p, <<Count(mem[p].loop), k>>)
    /\ FailureGate(p, k)
    /\ UNCHANGED <<ran, judged>>

PromptRetry(p, k) ==
    /\ HasInHand(p, "prompt", k)
    /\ LeafOf(p, k).attempt < MaxAttempt
    /\ CommitLeaf(p, k, Opened(LeafOf(p, k), LeafOf(p, k).attempt + 1), "RUNNING", "drive")
    /\ UNCHANGED <<inflight, ran, judged>>

PromptContinue(p, k) ==
    /\ HasInHand(p, "prompt", k)
    /\ CommitLeaf(p, k, Settled(LeafOf(p, k), "IGNORED", LeafOf(p, k).attempt, "ignored"),
                  "RUNNING", "drive")
    /\ UNCHANGED <<inflight, ran, judged>>

PromptAbort(p, k) ==
    /\ HasInHand(p, "prompt", k)
    /\ CommitLeaf(p, k, Settled(LeafOf(p, k), "FAILED", LeafOf(p, k).attempt, "failed"),
                  "RUNNING", "failing")
    /\ UNCHANGED <<inflight, ran, judged>>

(* A body step that failed the run, or whose commit was refused, fails the  *)
(* loop in a commit of its own.                                             *)
FailLoop(p) ==
    /\ pc[p] = "failing"
    /\ FinishFailedLoop(p)
    /\ UNCHANGED <<inflight, ran, judged>>

----------------------------------------------------------------------------
(* Iterations and the ceiling.                                              *)

(* _complete_iteration: what `until` says of the results is data.           *)
CompleteIteration(p, verdict) ==
    /\ InLoop(p) /\ MustJudge(mem[p].loop)
    /\ CommitLoop(p, Judged(mem[p].loop, verdict))
    /\ judged' = IF Saved(p) THEN Append(judged, Count(mem[p].loop)) ELSE judged
    /\ Dispatched(p)
    /\ UNCHANGED ran

RepeatIteration(p) ==
    /\ InLoop(p) /\ MayRepeat(mem[p].loop)
    /\ CommitLoop(p, AnotherBegun(mem[p].loop))
    /\ Dispatched(p)
    /\ UNCHANGED <<ran, judged>>

LoopPassed(p) ==
    /\ InLoop(p) /\ HasPassed(mem[p].loop)
    /\ FinishLoop(p)
    /\ Dispatched(p)
    /\ UNCHANGED <<ran, judged>>

(* handle_ceiling: continue, abort, or _resolve_ceiling's prompt, which     *)
(* aborts without a terminal and does not pause the run.                    *)
CeilingContinues(p) ==
    /\ InLoop(p) /\ AtCeiling(mem[p].loop) /\ OnMaxIterations = "continue"
    /\ FinishLoop(p)
    /\ Dispatched(p)
    /\ UNCHANGED <<ran, judged>>

CeilingAborts(p) ==
    /\ InLoop(p) /\ AtCeiling(mem[p].loop)
    /\ \/ OnMaxIterations = "abort" /\ Dispatched(p)
       \/ OnMaxIterations = "prompt_user" /\ p \notin Interactive /\ TakeInHand(p, TheLoop)
    /\ FinishFailedLoop(p)
    /\ UNCHANGED <<ran, judged>>

CeilingPrompts(p) ==
    /\ InLoop(p) /\ AtCeiling(mem[p].loop)
    /\ OnMaxIterations = "prompt_user" /\ p \in Interactive
    /\ TakeInHand(p, TheLoop)
    /\ Goto(p, "ceiling")
    /\ UNCHANGED <<row, mem, outcome, ran, judged>>

GrantIterations(p) ==
    /\ pc[p] = "ceiling"
    /\ Ceiling(mem[p].loop) + GrantCount <= MaxCeiling
    /\ CommitLoop(p, Granted(mem[p].loop))
    /\ UNCHANGED <<inflight, ran, judged>>

ContinuePastCeiling(p) ==
    /\ pc[p] = "ceiling"
    /\ FinishLoop(p)
    /\ UNCHANGED <<inflight, ran, judged>>

AbortAtCeiling(p) ==
    /\ pc[p] = "ceiling"
    /\ FinishFailedLoop(p)
    /\ UNCHANGED <<inflight, ran, judged>>

----------------------------------------------------------------------------
(* Ending.                                                                  *)

(* _next_node finds nothing left, whatever the loop ended as.               *)
NothingLeft(p) ==
    /\ pc[p] = "drive" /\ mem[p].loop.state \in Terminal
    /\ Conclude(p, "COMPLETED")
    /\ UNCHANGED <<row, mem, inflight, ran, judged>>

Finish(p) ==
    /\ pc[p] = "finish"
    /\ \/ row' = [row EXCEPT !.status = outcome[p], !.rev = @ + 1]
       \/ Fault("db") /\ UNCHANGED row
    /\ Goto(p, "done")
    /\ UNCHANGED <<mem, inflight, outcome, ran, judged>>

(* A crash, the lock's signal handler or an exception in a commit.          *)
Die(p) ==
    /\ Fault("crash")
    /\ pc[p] \in Driving
    /\ Goto(p, "dead")
    /\ UNCHANGED <<row, mem, inflight, outcome, ran, judged>>

(* KeyboardInterrupt: _cancel marks the node in hand, the loop or a leaf    *)
(* (of an earlier iteration, right after a new one was begun) ...           *)
Cancelled(loop, node) ==
    IF node = TheLoop THEN [loop EXCEPT !.state = "CANCELLED"]
    ELSE [loop EXCEPT !.iterations[node[1]].steps[node[2]].state = "CANCELLED"]

CancelRun(p) ==
    /\ Fault("interrupt")
    /\ pc[p] \in {"recover", "drive", "exec", "failing", "ceiling"}
    /\ IF inflight[p] = Nothing THEN UNCHANGED <<row, mem>>
       ELSE Commit(p, Cancelled(mem[p].loop, inflight[p]), Unchanged)
    /\ Conclude(p, "CANCELLED")
    /\ UNCHANGED <<inflight, ran, judged>>

(* ... but at a failure prompt the run stays paused.                        *)
LeavePrompt(p) ==
    /\ Fault("interrupt")
    /\ pc[p] = "prompt"
    /\ Conclude(p, "PAUSED")
    /\ UNCHANGED <<row, mem, inflight, ran, judged>>

----------------------------------------------------------------------------
Init ==
    /\ row = [status |-> "RUNNING", rev |-> 0, loop |-> NewLoop]
    /\ \E runner \in Procs : pc = [p \in Procs |-> IF p = runner THEN "load" ELSE "idle"]
    /\ mem = [p \in Procs |-> [loop |-> NewLoop, rev |-> 0]]
    /\ inflight = [p \in Procs |-> Nothing]
    /\ outcome = [p \in Procs |-> "FAILED"]
    /\ ran = {}
    /\ judged = <<>>

(* What a live driver does without its user.                                *)
Progress(p) ==
    \/ LoadState(p) \/ RecoverInterrupted(p) \/ StartLoop(p)
    \/ \E k \in Body :
         \/ BeginAttempt(p, k) \/ StartAttempt(p, k) \/ AttemptPasses(p, k)
         \/ AttemptFails(p, k) \/ ReenterGate(p, k)
    \/ FailLoop(p)
    \/ \E verdict \in {"passed", "failed"} : CompleteIteration(p, verdict)
    \/ RepeatIteration(p) \/ LoopPassed(p)
    \/ CeilingContinues(p) \/ CeilingAborts(p) \/ CeilingPrompts(p)
    \/ NothingLeft(p) \/ Finish(p)

User(p) ==
    \/ ResumeRun(p)
    \/ \E k \in Body : PromptRetry(p, k) \/ PromptContinue(p, k) \/ PromptAbort(p, k)
    \/ GrantIterations(p) \/ ContinuePastCeiling(p) \/ AbortAtCeiling(p)

Disturbance(p) == Die(p) \/ CancelRun(p) \/ LeavePrompt(p)

Next == \E p \in Procs : Progress(p) \/ User(p) \/ Disturbance(p)

Spec == Init /\ [][Next]_vars

(* A live driver goes on: body steps end and the lock is granted.           *)
FairSpec == Spec /\ \A p \in Procs : WF_vars(Progress(p))

----------------------------------------------------------------------------
(* Correctness.                                                             *)

Iteration == [state : {"PENDING", "RUNNING", "COMPLETED", "FAILED"},
              until : {"none", "passed", "failed"}, steps : [Body -> Leaf]]
LoopStates == {"PENDING", "RUNNING", "COMPLETED", "FAILED", "CANCELLED"}
Loop == [state : LoopStates, granted : Nat, iterations : Seq(Iteration) \ {<<>>}]

(* The types of all variables; a loop has at least its first iteration.     *)
TypeOK ==
    /\ row \in [status : RunStatus, rev : Nat, loop : Loop]
    /\ pc \in [Procs -> PCs]
    /\ mem \in [Procs -> [loop : Loop, rev : Nat]]
    /\ inflight \in [Procs -> {Nothing, TheLoop} \cup (Nat \X Body)]
    /\ outcome \in [Procs -> Outcomes]
    /\ ran \subseteq Nat \X Body \X Nat
    /\ judged \in Seq(Nat)

(* Every iteration before the last one is over: all its steps have ended,   *)
(* it was judged, and it failed.  In the last one the steps run in order,   *)
(* and it is judged only when all of them have passed, those that finished  *)
(* before a pause included.                                                 *)
InOrder(loop) ==
    /\ \A i \in 1..(Count(loop) - 1) :
          /\ loop.iterations[i].until = "failed"
          /\ \A k \in Body : Ended(loop.iterations[i].steps[k])
    /\ \A j, k \in Body :
          j < k /\ Current(loop).steps[k].state # "PENDING" => Ended(Current(loop).steps[j])
    /\ Current(loop).until # "none" => BodyDone(loop)

IterationsInOrder == InOrder(row.loop)

(* `until` is judged once per iteration, in order, even when drivers die    *)
(* between the last body step and the verdict, or race for it.              *)
JudgedOnce == \A i \in 1..Len(judged) : judged[i] = i

(* Iterations follow each other in order, whole, and each is judged once.   *)
JudgedInOrder == TypeOK /\ IterationsInOrder /\ JudgedOnce

(* The loop a driver holds, stale or not, is one the row may have had: in   *)
(* order, within its budget, an open attempt without a result and a planned *)
(* leaf without an attempt.                                                 *)
SaneLeaf(leaf) ==
    /\ leaf.state = "RUNNING" => leaf.result = "none"
    /\ leaf.state = "PENDING" => leaf.attempt = 0

WellFormed(loop) ==
    /\ InOrder(loop)
    /\ Count(loop) <= Ceiling(loop)
    /\ \A i \in 1..Count(loop), k \in Body : SaneLeaf(loop.iterations[i].steps[k])

LoopsWellFormed == WellFormed(row.loop) /\ \A p \in Procs : WellFormed(mem[p].loop)

(* What the compare-and-swap stands on, as RunEngine's NoForeignTree.       *)
MayCommit(p) == pc[p] \in {"recover", "drive", "exec", "prompt", "failing", "ceiling"}

NoForeignLoop ==
    \A p \in Procs : MayCommit(p) =>
        /\ mem[p].rev <= row.rev
        /\ mem[p].rev = row.rev => mem[p].loop = row.loop

(* What a driver has in hand fits what it is doing: the next body step of a *)
(* running loop, the loop at its ceiling, or a node it worked on before.    *)
Stopped(loop) == loop.state \in {"FAILED", "CANCELLED"}

Touched(loop, node) ==
    node \notin {Nothing, TheLoop} =>
        /\ node[1] \in 1..Count(loop)
        /\ loop.iterations[node[1]].steps[node[2]].state # "PENDING"

BodyInHand(p, label, state) ==
    pc[p] = label =>
        /\ mem[p].loop.state = "RUNNING"
        /\ \E k \in Body : /\ inflight[p] = <<Count(mem[p].loop), k>>
                           /\ NextBodyStep(mem[p].loop, k)
                           /\ LeafOf(p, k).state = state

NodeInHand ==
    \A p \in Procs :
        /\ BodyInHand(p, "exec", "RUNNING") /\ BodyInHand(p, "prompt", "PAUSED")
        /\ pc[p] = "failing" => mem[p].loop.state = "RUNNING"
        /\ pc[p] = "ceiling" => mem[p].loop.state = "RUNNING" /\ AtCeiling(mem[p].loop)
        /\ Touched(mem[p].loop, inflight[p])
        /\ pc[p] \in {"idle", "load"} => inflight[p] = Nothing
        /\ MayCommit(p) /\ Stopped(mem[p].loop) => inflight[p] = Nothing

(* The verdicts given are those the row has.                                *)
Verdicts(loop) == IF Current(loop).until = "none" THEN Count(loop) - 1 ELSE Count(loop)
VerdictsStored == JudgedOnce /\ Len(judged) = Verdicts(row.loop)

(* The row has every attempt that was executed, and an attempt about to be  *)
(* executed is the row's, new, and nobody else's.                           *)
AttemptsStored ==
    \A t \in ran :
        /\ t[1] \in 1..Count(row.loop)
        /\ t[3] <= row.loop.iterations[t[1]].steps[t[2]].attempt

Opening(p, k) == pc[p] = "drive" /\ LeafOf(p, k).state = "RUNNING"
Numbered(p, k) == <<Count(mem[p].loop), k, LeafOf(p, k).attempt>>

OpeningIsNew ==
    \A p \in Procs, k \in Body : Opening(p, k) =>
        /\ Numbered(p, k) \notin ran
        /\ Count(mem[p].loop) <= Count(row.loop)
        /\ LeafOf(p, k).attempt <= row.loop.iterations[Count(mem[p].loop)].steps[k].attempt
        /\ \A q \in Procs \ {p} : Opening(q, k) => Numbered(q, k) # Numbered(p, k)

(* The inductive invariant of the loop.                                     *)
IInv ==
    /\ TypeOK /\ LoopsWellFormed /\ NoForeignLoop /\ NodeInHand
    /\ VerdictsStored /\ AttemptsStored /\ OpeningIsNew

(* What is stored of an iteration that was judged never changes again,      *)
(* except for the leaf a cancellation finds in the coordinator's hand.      *)
JudgedIsFinal ==
    [][\A i \in 1..Count(row.loop) : row.loop.iterations[i].until # "none" =>
          LET before == row.loop.iterations[i]
              after == row'.loop.iterations[i]
          IN  /\ after.until = before.until
              /\ \A k \in Body : \/ after.steps[k] = before.steps[k]
                                 \/ after.steps[k].state = "CANCELLED"]_vars

(* No attempt of a body step is executed twice under the same number: a     *)
(* resumed loop reruns neither finished steps nor earlier iterations.       *)
BodyRunsOnce ==
    [][\A p \in Procs, k \in Body :
          /\ pc[p] = "drive" /\ pc'[p] = "exec" /\ inflight'[p] = <<Count(mem[p].loop), k>>
          => <<Count(mem[p].loop), k, LeafOf(p, k).attempt>> \notin ran]_vars

(* A driver left alone comes to an end or to its user: the loop does not    *)
(* repeat for ever and never waits for a transition that no policy gives.   *)
DriverSettles ==
    \A p \in Procs : pc[p] \in {"load", "drive"} ~> pc[p] \in Waiting \cup Gone

(* The loop as its author wrote it.                                         *)
Promise == INSTANCE RepeatUntil WITH
    First <- MaxIterations,
    Grant <- GrantCount,
    number <- Count(row.loop),
    budget <- Ceiling(row.loop),
    verdict <- Current(row.loop).until,
    state <- CASE row.loop.state \in {"PENDING", "RUNNING"} -> "open"
               [] row.loop.state = "COMPLETED" -> "done"
               [] row.loop.state \in {"FAILED", "CANCELLED"} -> "stopped"

(* Whoever drives it and however often it is resumed, the persisted loop    *)
(* repeats only after a failed verdict and within its budget, which grows   *)
(* only at the ceiling, and it ends only passed, used up or stopped.        *)
ImplementsRepeatUntil == Promise!LSpec
=============================================================================
