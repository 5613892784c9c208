-------------------------- MODULE MCLoopExecution --------------------------
(* Instances of LoopExecution for TLC.                                      *)
EXTENDS LoopExecution

CONSTANTS p1, p2

TwoProcs == {p1, p2}
OnlyFirst == {p1}
PromptOnly == <<"prompt_user">>
PromptThenContinue == <<"prompt_user", "continue">>
CrashOrDatabase == {"crash", "db"}
AllFaults == {"crash", "interrupt", "db"}
=============================================================================
