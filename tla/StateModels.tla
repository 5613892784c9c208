----------------------------- MODULE StateModels -----------------------------
(***************************************************************************)
(* The leaf of the execution-state tree (engine/state_models.py): a step   *)
(* with its state and its attempts, of which the models keep the last one: *)
(* its number and the result it has, if any.                               *)
(***************************************************************************)
EXTENDS Naturals

NodeStates == {"PENDING", "RUNNING", "COMPLETED", "IGNORED", "FAILED", "PAUSED", "CANCELLED"}
TerminalOrPaused == {"COMPLETED", "IGNORED", "FAILED", "CANCELLED", "PAUSED"}  \* mutant
Terminal == {"COMPLETED", "IGNORED", "FAILED", "CANCELLED"}
Passing == {"COMPLETED", "IGNORED"}
Leaf == [state : NodeStates, attempt : Nat, result : {"none", "completed", "ignored", "failed"}]

(* A planned leaf: PENDING, without attempts.                              *)
Planned == [state |-> "PENDING", attempt |-> 0, result |-> "none"]

RunStatus == {"RUNNING", "PAUSED", "COMPLETED", "FAILED", "CANCELLED"}
Outcomes == RunStatus \ {"RUNNING"}

Ended(leaf) == leaf.state \in Terminal

(* A leaf whose attempt was open when its driver went away.                *)
Interrupted(leaf) == leaf.state = "RUNNING" /\ leaf.result = "none"

Opened(leaf, n) == [leaf EXCEPT !.state = "RUNNING", !.attempt = n, !.result = "none"]
SettledByResult(leaf, state, n, result) ==  \* mutant: the result's status as node state
    [leaf EXCEPT !.state = result, !.attempt = n, !.result = result]
Settled(leaf, state, n, result) ==
    [leaf EXCEPT !.state = state, !.attempt = n, !.result = result]

(* _recover_interrupted: an attempt without a result becomes a failed one   *)
(* and its leaf PAUSED, so the failure gate decides about it.               *)
LeftRunning(leaf) == leaf                   \* mutant of RecoveredLeaf

RecoveredLeaf(leaf) ==
    IF Interrupted(leaf) THEN Settled(leaf, "PAUSED", leaf.attempt, "failed") ELSE leaf
=============================================================================
