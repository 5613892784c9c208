----------------------------- MODULE MCRunEngine -----------------------------
(* Instances of RunEngine for TLC.                                          *)
EXTENDS RunEngine

CONSTANTS p1, p2, none

TwoProcs == {p1, p2}
AllInteractive == Procs
OnlyRunnerInteractive == {p1}

(* Two steps: the first may prompt, the second aborts on failure.           *)
PromptThenAbort == <<"prompt_user", "abort">>
PromptThenContinue == <<"prompt_user", "continue">>
PromptTwice == <<"prompt_user", "prompt_user">>
BudgetOne == <<1, 1>>
BudgetTwo == <<2, 1>>

AllOptions == RunOptions
InPlace == {[worktree |-> FALSE, keep |-> FALSE, apply |-> FALSE]}
Isolated == {[worktree |-> TRUE, keep |-> FALSE, apply |-> FALSE]}

NoFaults == {}
TwoOptions == {[worktree |-> FALSE, keep |-> FALSE, apply |-> FALSE],
               [worktree |-> TRUE, keep |-> FALSE, apply |-> TRUE]}
InterruptFaults == {"crash", "interrupt", "load", "setup", "recycle"}
OnlyInterrupt == {"interrupt"}
AllFaults == FaultKinds
HardFaults == {"crash", "interrupt", "raise", "load", "setup", "recycle"}
=============================================================================
