----------------------------- MODULE RepeatUntil -----------------------------
(***************************************************************************)
(* What a loop block promises, without body steps, processes or            *)
(* revisions: at most `budget` iterations run, each one is judged once by  *)
(* the loop's `until`, another one follows only a failed verdict, and more *)
(* of them are granted only when all have been used.                       *)
(***************************************************************************)
EXTENDS Naturals

CONSTANTS First,    \* max_iterations
          Grant     \* iterations granted by one answer at the ceiling

VARIABLES number,   \* iterations begun
          budget,   \* iterations allowed
          verdict,  \* of the last iteration: "none", "passed" or "failed"
          state     \* "open", "done" (the run goes on) or "stopped" (it does not)

lvars == <<number, budget, verdict, state>>

LInit == number = 1 /\ budget = First /\ verdict = "none" /\ state = "open"

Judge ==
    /\ state = "open" /\ verdict = "none"
    /\ verdict' \in {"passed", "failed"}
    /\ UNCHANGED <<number, budget, state>>

Repeat ==
    /\ state = "open" /\ verdict = "failed" /\ number < budget
    /\ number' = number + 1
    /\ verdict' = "none"
    /\ UNCHANGED <<budget, state>>

Extend ==
    /\ state = "open" /\ verdict = "failed" /\ number = budget
    /\ budget' = budget + Grant
    /\ UNCHANGED <<number, verdict, state>>

(* The loop is done when its condition holds or its budget is used up.      *)
End ==
    /\ state = "open"
    /\ verdict = "passed" \/ (verdict = "failed" /\ number = budget)
    /\ state' = "done"
    /\ UNCHANGED <<number, budget, verdict>>

(* A body step, the user or the ceiling ends the loop and the run with it;  *)
(* an interrupt may also find a loop that is just done.                     *)
Stop ==
    /\ state # "stopped"
    /\ state' = "stopped"
    /\ UNCHANGED <<number, budget, verdict>>

LNext == Judge \/ Repeat \/ Extend \/ End \/ Stop

LSpec == LInit /\ [][LNext]_lvars
=============================================================================
