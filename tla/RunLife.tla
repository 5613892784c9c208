------------------------------- MODULE RunLife -------------------------------
(***************************************************************************)
(* What a run promises its user, without processes, revisions, worktrees   *)
(* or attempts: a status, how many steps passed, and whether a step ended  *)
(* the run.  RunEngine implements it when every run has one driver.        *)
(***************************************************************************)
EXTENDS Naturals

CONSTANT Length     \* number of steps

VARIABLES status, passed, stopped

rvars == <<status, passed, stopped>>

Final == {"COMPLETED", "FAILED", "CANCELLED"}
Open == {"RUNNING", "PAUSED"}

RInit == status = "ABSENT" /\ passed = 0 /\ stopped = FALSE

Start == status = "ABSENT" /\ status' = "RUNNING" /\ UNCHANGED <<passed, stopped>>

(* The next step passes; answering a prompt also sets the run going again.  *)
Pass ==
    /\ status \in Open /\ ~stopped /\ passed < Length
    /\ passed' = passed + 1
    /\ status' \in {status, "RUNNING"}
    /\ UNCHANGED stopped

(* The next step ends the run; the status follows in a later step.          *)
Stop ==
    /\ status \in Open /\ ~stopped /\ passed < Length
    /\ stopped' = TRUE
    /\ status' \in {status, "RUNNING"}
    /\ UNCHANGED passed

Pause ==
    /\ status \in Open /\ ~stopped /\ passed < Length
    /\ status' = "PAUSED"
    /\ UNCHANGED <<passed, stopped>>

(* A retry or a resume.                                                     *)
GoOn ==
    /\ status = "PAUSED" /\ ~stopped /\ passed < Length
    /\ status' = "RUNNING"
    /\ UNCHANGED <<passed, stopped>>

Complete ==
    /\ status \in Open /\ ~stopped /\ passed = Length
    /\ status' = "COMPLETED"
    /\ UNCHANGED <<passed, stopped>>

(* A run may fail at any time, also after its last step (auto-apply).       *)
Fail ==
    /\ status \in Open
    /\ status' = "FAILED"
    /\ UNCHANGED <<passed, stopped>>

RNext == Start \/ Pass \/ Stop \/ Pause \/ GoOn \/ Complete \/ Fail

RSpec == RInit /\ [][RNext]_rvars
=============================================================================
