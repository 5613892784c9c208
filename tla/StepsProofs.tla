----------------------------- MODULE StepsProofs -----------------------------
(***************************************************************************)
(* The attempts of a step, what an agent may leave behind in them, the       *)
(* committed state of the run and its artifacts: for any number of attempts, *)
(* lines, edits, processes, commits, versions, days and faults.              *)
(***************************************************************************)
EXTENDS StepProcess, RunProjection, Artifacts, GatedEdits, TLAPS

(***************************************************************************)
(* The processes of a step.                                                 *)
(***************************************************************************)

LEMMA StepInit == Init => IInv
<1> SUFFICES ASSUME Init PROVE IInv OBVIOUS
<1> USE StepAssumption DEF Init
<1>1. CountsOK BY DEF CountsOK
<1>2. StatesOK BY DEF StatesOK, PCs
<1>3. GroupInHand /\ KilledStayDead BY DEF GroupInHand, KilledStayDead, Terminating, Dead
<1>4. AttemptAllowed BY DEF AttemptAllowed, Budget
<1>5. OutputsOfAttempt BY DEF OutputsOfAttempt
<1> QED BY <1>1, <1>2, <1>3, <1>4, <1>5 DEF IInv, TypeOK

(* The processes of the group and the thread that reads them change neither *)
(* where the main thread is nor what it knows.                              *)
LEMMA GroupStep ==
  ASSUME IInv, Reader \/ Processes
  PROVE  IInv'
<1> USE DEF IInv, TypeOK
<1>1. CASE ReadLine
  <2> USE <1>1 DEF ReadLine, group, flow
  <2>1. CountsOK' BY StepAssumption DEF CountsOK, unread
  <2>2. StatesOK'
    <3>1. /\ stubborn' \in BOOLEAN /\ registered' \in BOOLEAN
          /\ pipeError' \in BOOLEAN /\ timedOut' \in BOOLEAN
      BY DEF StatesOK
    <3> QED BY <3>1 DEF StatesOK, PCs
  <2>3. GroupInHand' BY DEF GroupInHand, Terminating
  <2>4. KilledStayDead' BY DEF GroupInHand, KilledStayDead, Terminating, Dead
  <2>5. AttemptAllowed' BY StepAssumption DEF AttemptAllowed, CountsOK, Budget
  <2>6. OutputsOfAttempt' BY DEF OutputsOfAttempt, Terminating
  <2> QED BY <2>1, <2>2, <2>3, <2>4, <2>5, <2>6 DEF IInv, TypeOK
<1>2. CASE ReaderEnds
  <2> USE <1>2 DEF ReaderEnds, group, flow
  <2>1. CountsOK' BY StepAssumption DEF CountsOK
  <2>2. StatesOK' BY DEF StatesOK, PCs
  <2>3. GroupInHand' BY DEF GroupInHand, Terminating
  <2>4. KilledStayDead' BY DEF GroupInHand, KilledStayDead, Terminating, Dead
  <2>5. AttemptAllowed' BY StepAssumption DEF AttemptAllowed, CountsOK, Budget
  <2>6. OutputsOfAttempt' BY DEF OutputsOfAttempt, Terminating
  <2> QED BY <2>1, <2>2, <2>3, <2>4, <2>5, <2>6 DEF IInv, TypeOK
<1>3. CASE PrintLine
  <2> USE <1>3 DEF PrintLine, group, flow
  <2>1. CountsOK' BY StepAssumption DEF CountsOK
  <2>2. StatesOK' BY DEF StatesOK, PCs
  <2>3. GroupInHand' BY DEF GroupInHand, Terminating
  <2>4. KilledStayDead' BY DEF GroupInHand, KilledStayDead, Terminating, Dead
  <2>5. AttemptAllowed' BY StepAssumption DEF AttemptAllowed, CountsOK, Budget
  <2>6. OutputsOfAttempt' BY DEF OutputsOfAttempt, Terminating
  <2> QED BY <2>1, <2>2, <2>3, <2>4, <2>5, <2>6 DEF IInv, TypeOK
<1>4. CASE Fork
  <2> USE <1>4 DEF Fork, pipes, flow
  <2>1. CountsOK' BY StepAssumption DEF CountsOK
  <2>2. StatesOK' BY DEF StatesOK, PCs
  <2>3. GroupInHand' BY DEF GroupInHand, Terminating
  <2>4. KilledStayDead' BY DEF GroupInHand, KilledStayDead, Terminating, Dead
  <2>5. AttemptAllowed' BY StepAssumption DEF AttemptAllowed, CountsOK, Budget
  <2>6. OutputsOfAttempt' BY DEF OutputsOfAttempt, Terminating
  <2> QED BY <2>1, <2>2, <2>3, <2>4, <2>5, <2>6 DEF IInv, TypeOK
<1>5. CASE LeaderExits
  <2> USE <1>5 DEF LeaderExits, pipes, flow
  <2>1. CountsOK' BY StepAssumption DEF CountsOK
  <2>2. StatesOK' BY DEF StatesOK, PCs
  <2>3. GroupInHand' BY DEF GroupInHand, Terminating
  <2>4. KilledStayDead' BY DEF GroupInHand, KilledStayDead, Terminating, Dead
  <2>5. AttemptAllowed' BY StepAssumption DEF AttemptAllowed, CountsOK, Budget
  <2>6. OutputsOfAttempt' BY DEF OutputsOfAttempt, Terminating
  <2> QED BY <2>1, <2>2, <2>3, <2>4, <2>5, <2>6 DEF IInv, TypeOK
<1>6. CASE HelperExits
  <2> USE <1>6 DEF HelperExits, pipes, flow
  <2>1. CountsOK' BY StepAssumption DEF CountsOK
  <2>2. StatesOK' BY DEF StatesOK, PCs
  <2>3. GroupInHand' BY DEF GroupInHand, Terminating
  <2>4. KilledStayDead' BY DEF GroupInHand, KilledStayDead, Terminating, Dead
  <2>5. AttemptAllowed' BY StepAssumption DEF AttemptAllowed, CountsOK, Budget
  <2>6. OutputsOfAttempt' BY DEF OutputsOfAttempt, Terminating
  <2> QED BY <2>1, <2>2, <2>3, <2>4, <2>5, <2>6 DEF IInv, TypeOK
<1>7. CASE \E n \in 1 .. MaxAttempts : WriteOutputs(n)
  <2> USE <1>7 DEF WriteOutputs, group, pipes, flow
  <2>1. CountsOK' BY StepAssumption DEF CountsOK
  <2>2. StatesOK' BY DEF StatesOK, PCs
  <2>3. GroupInHand' BY DEF GroupInHand, Terminating
  <2>4. KilledStayDead' BY DEF GroupInHand, KilledStayDead, Terminating, Dead
  <2>5. AttemptAllowed' BY StepAssumption DEF AttemptAllowed, CountsOK, Budget
  <2>6. OutputsOfAttempt' BY DEF OutputsOfAttempt, Terminating
  <2> QED BY <2>1, <2>2, <2>3, <2>4, <2>5, <2>6 DEF IInv, TypeOK
<1> QED BY <1>1, <1>2, <1>3, <1>4, <1>5, <1>6, <1>7 DEF Reader, Processes

(* The attempt: started, watched, terminated and judged.                    *)
LEMMA MainStep ==
  ASSUME IInv, Main
  PROVE  IInv'
<1> USE DEF IInv, TypeOK, Goto
<1>1. CASE Prepare
  <2> USE <1>1 DEF Prepare, group, pipes
  <2>1. CountsOK' BY StepAssumption DEF CountsOK
  <2>2. StatesOK' BY DEF StatesOK, PCs
  <2>3. GroupInHand' BY DEF GroupInHand, Terminating
  <2>4. KilledStayDead' BY DEF GroupInHand, KilledStayDead, Terminating, Dead
  <2>5. AttemptAllowed' BY StepAssumption DEF AttemptAllowed, CountsOK, Budget
  <2>6. OutputsOfAttempt' BY DEF OutputsOfAttempt, Terminating
  <2> QED BY <2>1, <2>2, <2>3, <2>4, <2>5, <2>6 DEF IInv, TypeOK
<1>2. CASE Spawn
  <2> USE <1>2 DEF Spawn, ResetOutputs
  <2>1. CountsOK' BY StepAssumption DEF CountsOK
  <2>2. StatesOK' BY DEF StatesOK, PCs
  <2>3. GroupInHand' BY DEF GroupInHand, Terminating
  <2>4. KilledStayDead' BY DEF GroupInHand, KilledStayDead, Terminating, Dead
  <2>5. AttemptAllowed' BY StepAssumption DEF AttemptAllowed, CountsOK, Budget
  <2>6. OutputsOfAttempt' BY DEF OutputsOfAttempt, Terminating
  <2> QED BY <2>1, <2>2, <2>3, <2>4, <2>5, <2>6 DEF IInv, TypeOK
<1>3. CASE Dispatch
  <2> USE <1>3 DEF Dispatch, ResetOutputs, pipes
  <2>1. CountsOK' BY StepAssumption DEF CountsOK
  <2>2. StatesOK'
    <3>1. /\ stubborn' \in BOOLEAN /\ registered' \in BOOLEAN
          /\ pipeError' \in BOOLEAN /\ timedOut' \in BOOLEAN
      BY DEF StatesOK
    <3> QED BY <3>1 DEF StatesOK, PCs
  <2>3. GroupInHand' BY DEF GroupInHand, Terminating
  <2>4. KilledStayDead' BY DEF GroupInHand, KilledStayDead, Terminating, Dead
  <2>5. AttemptAllowed' BY StepAssumption DEF AttemptAllowed, CountsOK, Budget
  <2>6. OutputsOfAttempt' BY DEF OutputsOfAttempt, Terminating
  <2> QED BY <2>1, <2>2, <2>3, <2>4, <2>5, <2>6 DEF IInv, TypeOK
<1>4. CASE Register
  <2> USE <1>4 DEF Register, group, pipes, flow
  <2>1. CountsOK' BY StepAssumption DEF CountsOK
  <2>2. StatesOK' BY DEF StatesOK, PCs
  <2>3. GroupInHand' BY DEF GroupInHand, Terminating
  <2>4. KilledStayDead' BY DEF GroupInHand, KilledStayDead, Terminating, Dead
  <2>5. AttemptAllowed' BY StepAssumption DEF AttemptAllowed, CountsOK, Budget
  <2>6. OutputsOfAttempt' BY DEF OutputsOfAttempt, Terminating
  <2> QED BY <2>1, <2>2, <2>3, <2>4, <2>5, <2>6 DEF IInv, TypeOK
<1>5. CASE StartReaders
  <2> USE <1>5 DEF StartReaders, group, flow
  <2>1. CountsOK' BY StepAssumption DEF CountsOK
  <2>2. StatesOK' BY DEF StatesOK, PCs
  <2>3. GroupInHand' BY DEF GroupInHand, Terminating
  <2>4. KilledStayDead' BY DEF GroupInHand, KilledStayDead, Terminating, Dead
  <2>5. AttemptAllowed' BY StepAssumption DEF AttemptAllowed, CountsOK, Budget
  <2>6. OutputsOfAttempt' BY DEF OutputsOfAttempt, Terminating
  <2> QED BY <2>1, <2>2, <2>3, <2>4, <2>5, <2>6 DEF IInv, TypeOK
<1>6. CASE Exited
  <2> USE <1>6 DEF Exited, pipes, flow
  <2>1. CountsOK' BY StepAssumption DEF CountsOK
  <2>2. StatesOK' BY DEF StatesOK, PCs
  <2>3. GroupInHand' BY DEF GroupInHand, Terminating
  <2>4. KilledStayDead' BY DEF GroupInHand, KilledStayDead, Terminating, Dead
  <2>5. AttemptAllowed' BY StepAssumption DEF AttemptAllowed, CountsOK, Budget
  <2>6. OutputsOfAttempt' BY DEF OutputsOfAttempt, Terminating
  <2> QED BY <2>1, <2>2, <2>3, <2>4, <2>5, <2>6 DEF IInv, TypeOK
<1>7. CASE TimesOut
  <2> USE <1>7 DEF TimesOut, Terminate, group, pipes
  <2>1. CountsOK' BY StepAssumption DEF CountsOK
  <2>2. StatesOK' BY DEF StatesOK, PCs
  <2>3. GroupInHand' BY DEF GroupInHand, Terminating
  <2>4. KilledStayDead' BY DEF GroupInHand, KilledStayDead, Terminating, Dead
  <2>5. AttemptAllowed' BY StepAssumption DEF AttemptAllowed, CountsOK, Budget
  <2>6. OutputsOfAttempt' BY DEF OutputsOfAttempt, Terminating
  <2> QED BY <2>1, <2>2, <2>3, <2>4, <2>5, <2>6 DEF IInv, TypeOK
<1>8. CASE TermGroup
  <2> USE <1>8 DEF TermGroup, pipes, flow
  <2>1. CountsOK' BY StepAssumption DEF CountsOK
  <2>2. StatesOK' BY DEF StatesOK, PCs
  <2>3. GroupInHand' BY DEF GroupInHand, Terminating
  <2>4. KilledStayDead' BY DEF GroupInHand, KilledStayDead, Terminating, Dead
  <2>5. AttemptAllowed' BY StepAssumption DEF AttemptAllowed, CountsOK, Budget
  <2>6. OutputsOfAttempt' BY DEF OutputsOfAttempt, Terminating
  <2> QED BY <2>1, <2>2, <2>3, <2>4, <2>5, <2>6 DEF IInv, TypeOK
<1>9. CASE KillGroup
  <2> USE <1>9 DEF KillGroup, GroupExited, GroupGone, pipes, flow
  <2>1. CountsOK' BY StepAssumption DEF CountsOK
  <2>2. StatesOK' BY DEF StatesOK, PCs, GroupInHand, Terminating
  <2>3. GroupInHand' BY DEF StatesOK, GroupInHand, Terminating
  <2>4. KilledStayDead' BY DEF StatesOK, GroupInHand, KilledStayDead, Terminating, Dead
  <2>5. AttemptAllowed'
    <3>1. then # "backoff" BY DEF StatesOK
    <3> QED BY <3>1 DEF AttemptAllowed, Budget
  <2>6. OutputsOfAttempt' BY DEF OutputsOfAttempt, Terminating
  <2> QED BY <2>1, <2>2, <2>3, <2>4, <2>5, <2>6 DEF IInv, TypeOK
<1>10. CASE Rewait
  <2> USE <1>10 DEF Rewait, group, pipes, flow
  <2>1. CountsOK' BY StepAssumption DEF CountsOK
  <2>2. StatesOK' BY DEF StatesOK, PCs
  <2>3. GroupInHand' BY DEF GroupInHand, Terminating
  <2>4. KilledStayDead' BY DEF GroupInHand, KilledStayDead, Terminating, Dead
  <2>5. AttemptAllowed' BY StepAssumption DEF AttemptAllowed, CountsOK, Budget
  <2>6. OutputsOfAttempt' BY DEF OutputsOfAttempt, Terminating
  <2> QED BY <2>1, <2>2, <2>3, <2>4, <2>5, <2>6 DEF IInv, TypeOK
<1>11. CASE Leave
  <2> USE <1>11 DEF Leave, Terminate, pipes
  <2>1. CountsOK' BY StepAssumption DEF CountsOK
  <2>2. StatesOK'
    <3>1. /\ stubborn' \in BOOLEAN /\ registered' \in BOOLEAN
          /\ pipeError' \in BOOLEAN /\ timedOut' \in BOOLEAN
      BY DEF StatesOK
    <3> QED BY <3>1 DEF StatesOK, PCs
  <2>3. GroupInHand' BY DEF GroupInHand, KilledStayDead, Terminating, Dead
  <2>4. KilledStayDead' BY DEF GroupInHand, KilledStayDead, Terminating, Dead
  <2>5. AttemptAllowed' BY StepAssumption DEF AttemptAllowed, CountsOK, Budget
  <2>6. OutputsOfAttempt' BY DEF OutputsOfAttempt, Terminating
  <2> QED BY <2>1, <2>2, <2>3, <2>4, <2>5, <2>6 DEF IInv, TypeOK
<1>12. CASE Join
  <2> USE <1>12 DEF Join, group, pipes, flow
  <2>1. CountsOK' BY StepAssumption DEF CountsOK
  <2>2. StatesOK' BY DEF StatesOK, PCs
  <2>3. GroupInHand' BY DEF GroupInHand, Terminating
  <2>4. KilledStayDead' BY DEF GroupInHand, KilledStayDead, Terminating, Dead
  <2>5. AttemptAllowed' BY StepAssumption DEF AttemptAllowed, CountsOK, Budget
  <2>6. OutputsOfAttempt' BY DEF OutputsOfAttempt, Terminating
  <2> QED BY <2>1, <2>2, <2>3, <2>4, <2>5, <2>6 DEF IInv, TypeOK
<1>13. CASE Classify
  <2> USE <1>13 DEF Classify, group, pipes
  <2>1. CountsOK' BY StepAssumption DEF CountsOK
  <2>2. StatesOK' BY DEF StatesOK, PCs
  <2>3. GroupInHand' BY DEF GroupInHand, Terminating
  <2>4. KilledStayDead' BY DEF GroupInHand, KilledStayDead, Terminating, Dead
  <2>5. AttemptAllowed' BY StepAssumption DEF AttemptAllowed, CountsOK, Budget
  <2>6. OutputsOfAttempt' BY DEF OutputsOfAttempt, Terminating
  <2> QED BY <2>1, <2>2, <2>3, <2>4, <2>5, <2>6 DEF IInv, TypeOK
<1>14. CASE Judge
  <2> USE <1>14 DEF Judge, group, pipes
  <2>1. CountsOK' BY StepAssumption DEF CountsOK
  <2>2. StatesOK' BY DEF StatesOK, PCs
  <2>3. GroupInHand' BY DEF GroupInHand, Terminating
  <2>4. KilledStayDead' BY DEF GroupInHand, KilledStayDead, Terminating, Dead
  <2>5. AttemptAllowed' BY StepAssumption DEF AttemptAllowed, CountsOK, Budget
  <2>6. OutputsOfAttempt' BY DEF OutputsOfAttempt, Terminating
  <2> QED BY <2>1, <2>2, <2>3, <2>4, <2>5, <2>6 DEF IInv, TypeOK
<1>15. CASE NextAttempt
  <2> USE <1>15 DEF NextAttempt, pipes
  <2>1. CountsOK' BY StepAssumption DEF CountsOK, AttemptAllowed, Budget
  <2>2. StatesOK' BY DEF StatesOK, PCs
  <2>3. GroupInHand' BY DEF GroupInHand, Terminating
  <2>4. KilledStayDead' BY DEF GroupInHand, KilledStayDead, Terminating, Dead
  <2>5. AttemptAllowed' BY StepAssumption DEF AttemptAllowed, CountsOK, Budget
  <2>6. OutputsOfAttempt' BY DEF OutputsOfAttempt, Terminating
  <2> QED BY <2>1, <2>2, <2>3, <2>4, <2>5, <2>6 DEF IInv, TypeOK
<1>16. CASE Finish
  <2> USE <1>16 DEF Finish, group, pipes
  <2>1. CountsOK' BY StepAssumption DEF CountsOK
  <2>2. StatesOK' BY DEF StatesOK, PCs
  <2>3. GroupInHand' BY DEF GroupInHand, Terminating
  <2>4. KilledStayDead' BY DEF GroupInHand, KilledStayDead, Terminating, Dead
  <2>5. AttemptAllowed' BY StepAssumption DEF AttemptAllowed, CountsOK, Budget
  <2>6. OutputsOfAttempt' BY DEF OutputsOfAttempt, Terminating
  <2> QED BY <2>1, <2>2, <2>3, <2>4, <2>5, <2>6 DEF IInv, TypeOK
<1>17. CASE Close
  <2> USE <1>17 DEF Close, Terminate, group, pipes
  <2>1. CountsOK' BY StepAssumption DEF CountsOK
  <2>2. StatesOK'
    <3>1. /\ stubborn' \in BOOLEAN /\ registered' \in BOOLEAN
          /\ pipeError' \in BOOLEAN /\ timedOut' \in BOOLEAN
      BY DEF StatesOK
    <3> QED BY <3>1 DEF StatesOK, PCs
  <2>3. GroupInHand' BY DEF GroupInHand, KilledStayDead, Terminating
  <2>4. KilledStayDead' BY DEF GroupInHand, KilledStayDead, Terminating, Dead
  <2>5. AttemptAllowed' BY StepAssumption DEF AttemptAllowed, CountsOK, Budget
  <2>6. OutputsOfAttempt' BY DEF OutputsOfAttempt, Terminating
  <2> QED BY <2>1, <2>2, <2>3, <2>4, <2>5, <2>6 DEF IInv, TypeOK
<1> QED
  BY <1>1, <1>2, <1>3, <1>4, <1>5, <1>6, <1>7, <1>8, <1>9, <1>10, <1>11, <1>12, <1>13, <1>14, <1>15, <1>16, <1>17
  DEF Main

(* A signal, wherever it strikes.                                           *)
LEMMA StrikeStep ==
  ASSUME IInv, Strike
  PROVE  IInv'
<1> USE DEF IInv, TypeOK, Strike, Terminate, Goto, group, pipes
<1>1. CountsOK' BY StepAssumption DEF CountsOK
<1>2. StatesOK' BY DEF StatesOK, PCs
<1>3. GroupInHand' BY DEF GroupInHand, Terminating
<1>4. KilledStayDead'
  <2>1. /\ struck' = pc /\ pc' \in {"term", "leave", "unwind"}
        /\ pc = "wait" => pc' = "term" /\ then' = "leave"
        /\ pc = "rewait" => pc' = "leave"
        /\ pc \in {"registered", "leave"} => pc' = "unwind"
        /\ pc' = "term" => pc = "wait"
        /\ pc # "nowhere"
    BY DEF StatesOK, PCs
  <2>2. UNCHANGED <<leader, helper, registered, timedOut>> OBVIOUS
  <2> QED BY <2>1, <2>2 DEF GroupInHand, KilledStayDead, Terminating, Dead
<1>5. AttemptAllowed' BY StepAssumption DEF AttemptAllowed, CountsOK, Budget
<1>6. OutputsOfAttempt' BY DEF OutputsOfAttempt, Terminating
<1> QED BY <1>1, <1>2, <1>3, <1>4, <1>5, <1>6 DEF IInv, TypeOK

(* The invariant of a step, whatever its processes do and wherever a signal *)
(* strikes the thread that waits for them.                                  *)
THEOREM StepInvariant == Spec => []IInv
<1>1. IInv /\ [Next]_vars => IInv'
  <2> SUFFICES ASSUME IInv, [Next]_vars PROVE IInv' OBVIOUS
  <2>1. CASE Next BY <2>1, GroupStep, MainStep, StrikeStep DEF Next
  <2>2. CASE UNCHANGED vars
    <3> USE <2>2 DEF vars, group, pipes, flow, IInv, TypeOK
    <3>1. CountsOK' BY StepAssumption DEF CountsOK
    <3>2. StatesOK' BY DEF StatesOK, PCs
    <3>3. GroupInHand' BY DEF GroupInHand, Terminating
    <3>4. KilledStayDead' BY DEF GroupInHand, KilledStayDead, Terminating, Dead
    <3>5. AttemptAllowed' BY StepAssumption DEF AttemptAllowed, CountsOK, Budget
    <3>6. OutputsOfAttempt' BY DEF OutputsOfAttempt, Terminating
    <3> QED BY <3>1, <3>2, <3>3, <3>4, <3>5, <3>6 DEF IInv, TypeOK
  <2> QED BY <2>1, <2>2
<1> QED BY <1>1, StepInit, PTL DEF Spec

(* terminate_process_tree: a timeout, or a signal that finds the group      *)
(* registered or waited for, leaves no process of it behind, also when the  *)
(* leader is gone before the processes it started and these ignore SIGTERM. *)
THEOREM KilledLeaveNobody == Spec => []KilledAreDead
<1>1. IInv => KilledAreDead
  BY DEF IInv, KilledAreDead, KilledIsDead, KilledStayDead, Terminating, Dead
<1> QED BY <1>1, StepInvariant, PTL

(* _reset_step_output_file: what a step returns was written by its last     *)
(* attempt, or by a process that an earlier attempt left behind.            *)
THEOREM OutputsOfLastAttempt == Spec => []OutputsAreFresh
<1>1. IInv => OutputsAreFresh
  BY DEF IInv, OutputsAreFresh, OutputsOfAttempt, Terminating
<1> QED BY <1>1, StepInvariant, PTL

(***************************************************************************)
(* The row of a run and its projection run.json.                            *)
(***************************************************************************)

----------------------------------------------------------------------------
(* The record of a process, field by field.                                 *)

Fields == {"pc", "goal", "mem", "row", "sets", "fd", "saved", "load"}

(* What Go does: the fields it names change, of one process.               *)
LEMMA GoIs ==
  ASSUME RowTypeOK, NEW p \in Drivers, NEW new, Go(p, new)
  PROVE  /\ \A q \in Drivers \ {p} : driver'[q] = driver[q]
         /\ driver' = [driver EXCEPT ![p] = driver'[p]]
         /\ DOMAIN driver'[p] = Fields
         /\ driver'[p].pc = IF "pc" \in DOMAIN new THEN new.pc ELSE driver[p].pc
         /\ driver'[p].goal = IF "goal" \in DOMAIN new THEN new.goal ELSE driver[p].goal
         /\ driver'[p].mem = IF "mem" \in DOMAIN new THEN new.mem ELSE driver[p].mem
         /\ driver'[p].row = IF "row" \in DOMAIN new THEN new.row ELSE driver[p].row
         /\ driver'[p].sets = IF "sets" \in DOMAIN new THEN new.sets ELSE driver[p].sets
         /\ driver'[p].fd = IF "fd" \in DOMAIN new THEN new.fd ELSE driver[p].fd
         /\ driver'[p].saved = IF "saved" \in DOMAIN new THEN new.saved ELSE driver[p].saved
         /\ driver'[p].load = IF "load" \in DOMAIN new THEN new.load ELSE driver[p].load
<1>1. driver \in [Drivers -> Locals] BY DEF RowTypeOK
<1>2. DOMAIN driver[p] = Fields
  <2>1. driver[p] \in Locals BY <1>1
  <2> QED BY <2>1 DEF Locals, Fields
<1>3. driver'[p] = [x \in Fields |-> IF x \in DOMAIN new THEN new[x] ELSE driver[p][x]]
  BY <1>1, <1>2 DEF Go
<1>4. DOMAIN driver'[p] = Fields BY <1>3
<1>5. \A x \in Fields : driver'[p][x] = IF x \in DOMAIN new THEN new[x] ELSE driver[p][x] BY <1>3
<1>6. \A q \in Drivers \ {p} : driver'[q] = driver[q] BY <1>1 DEF Go
<1>7. driver' = [driver EXCEPT ![p] = driver'[p]] BY <1>1 DEF Go
<1> HIDE DEF Go
<1> QED BY <1>4, <1>5, <1>6, <1>7 DEF Fields

(* Its record has its type when its fields have.                            *)
LEMMA GoTyped ==
  ASSUME RowTypeOK, NEW p \in Drivers, NEW new, Go(p, new), DOMAIN driver'[p] = Fields,
         driver'[p].pc \in SavePCs, driver'[p].goal \in {"none", "start", "resume", "commit", "finish"},
         driver'[p].mem \in Docs, driver'[p].row \in Rows, driver'[p].sets \in Statuses,
         driver'[p].fd \in {"none", "tmp", "json"}, driver'[p].saved \in BOOLEAN,
         driver'[p].load \in {"none", "ok", "refused"}
  PROVE  driver' \in [Drivers -> Locals]
<1>1. driver \in [Drivers -> Locals] BY DEF RowTypeOK
<1>2. driver'[p] \in Locals
  <2>1. driver'[p] = [x \in Fields |-> driver'[p][x]] BY <1>1, GoIs DEF Go
  <2> QED BY <2>1 DEF Locals, Fields
<1> QED BY <1>1, <1>2, GoIs

(* A process that is idle, and one that begins.                             *)
LEMMA GoneIs ==
         /\ DOMAIN Gone = Fields /\ Gone.pc = "idle" /\ Gone.goal = "none" /\ Gone.mem = FirstRow.doc
         /\ Gone.row = FirstRow /\ Gone.sets = "running" /\ Gone.fd = "none" /\ Gone.saved = FALSE
         /\ Gone.load = "none"
<1>1. FirstRow.doc = Doc(First, 0) BY DEF FirstRow
<1> QED BY <1>1 DEF Gone, Fields

LEMMA StartedIs ==
  ASSUME NEW a, NEW b, NEW g, g = [Gone EXCEPT !.pc = a, !.goal = b]
  PROVE  /\ DOMAIN g = Fields /\ g.pc = a /\ g.goal = b /\ g.mem = FirstRow.doc /\ g.row = FirstRow
         /\ g.sets = "running" /\ g.fd = "none" /\ g.saved = FALSE /\ g.load = "none"
BY GoneIs DEF Fields

LEMMA GoneGo ==
  ASSUME RowTypeOK, NEW p \in Drivers, Go(p, Gone)
  PROVE  /\ driver'[p].pc = "idle" /\ driver'[p].goal = "none" /\ driver'[p].mem = FirstRow.doc
         /\ driver'[p].row = FirstRow /\ driver'[p].sets = "running" /\ driver'[p].fd = "none"
         /\ driver'[p].saved = FALSE /\ driver'[p].load = "none"
<1> HIDE DEF Go
<1> QED BY GoIs, GoneIs DEF Fields

LEMMA StartedGo ==
  ASSUME RowTypeOK, NEW p \in Drivers, NEW a, NEW b, Go(p, [Gone EXCEPT !.pc = a, !.goal = b])
  PROVE  /\ driver'[p].pc = a /\ driver'[p].goal = b /\ driver'[p].mem = FirstRow.doc
         /\ driver'[p].row = FirstRow /\ driver'[p].sets = "running" /\ driver'[p].fd = "none"
         /\ driver'[p].saved = FALSE /\ driver'[p].load = "none"
<1>1. PICK g : g = [Gone EXCEPT !.pc = a, !.goal = b] OBVIOUS
<1>2. Go(p, g) BY <1>1
<1>3. /\ DOMAIN g = Fields /\ g.pc = a /\ g.goal = b /\ g.mem = FirstRow.doc /\ g.row = FirstRow
      /\ g.sets = "running" /\ g.fd = "none" /\ g.saved = FALSE /\ g.load = "none"
  BY <1>1, GoneIs DEF Fields
<1> HIDE DEF Go
<1> QED BY <1>2, <1>3, GoIs DEF Fields

(* The values of the row, and of a file, that the code starts from.          *)
LEMMA FirstTyped ==
         /\ First \in Drivers /\ FirstRow \in Rows /\ FirstRow.doc \in Docs /\ FirstRow.rev = 0
         /\ FirstRow.doc.rev = 0
         /\ Missing \in Contents /\ Missing.kind = "none" /\ Partial \in Contents /\ Partial.kind = "partial"
         /\ \A r \in Rows : Whole(r) \in Contents /\ Whole(r).kind = "whole"
                            /\ Whole(r).shows.rev = r.rev /\ Whole(r).shows.doc = r.doc
<1>1. First \in Drivers BY ProjectionAssumption DEF First
<1>2. 0 \in Revisions BY ProjectionAssumption DEF Revisions
<1>3. FirstRow.rev = 0 /\ FirstRow.doc = Doc(First, 0) /\ FirstRow.doc.rev = 0 BY DEF FirstRow, Doc
<1>4. Doc(First, 0) \in Docs BY <1>1, <1>2 DEF Doc, Docs
<1>5. FirstRow \in Rows BY <1>1, <1>2, <1>4 DEF FirstRow, Rows, Statuses
<1>6. ASSUME NEW r \in Rows
      PROVE  Whole(r) \in Contents /\ Whole(r).kind = "whole"
             /\ Whole(r).shows.rev = r.rev /\ Whole(r).shows.doc = r.doc
  BY DEF Whole, Projection, Contents, Rows
<1>7. Whole(FirstRow) \in Contents BY <1>5, <1>6
<1>8. /\ Missing \in Contents /\ Missing.kind = "none" /\ Partial \in Contents /\ Partial.kind = "partial"
  BY <1>7 DEF Missing, Partial, Contents
<1> QED BY <1>1, <1>3, <1>4, <1>5, <1>6, <1>8

----------------------------------------------------------------------------
(* What a process does to the others, and to what it and the files hold.    *)

Steps(p) ==
    /\ \A q \in Drivers \ {p} :
          /\ driver'[q].pc = driver[q].pc /\ driver'[q].goal = driver[q].goal
          /\ driver'[q].mem = driver[q].mem /\ driver'[q].row = driver[q].row
          /\ driver'[q].saved = driver[q].saved /\ driver'[q].load = driver[q].load
          /\ alone'[q] => alone[q] /\ driver'[q].fd = driver[q].fd /\ UNCHANGED <<row, session>>
    /\ \/ row'.rev = row.rev /\ row'.doc = row.doc
       \/ driver[p].pc = "update" /\ row'.rev = row.rev + 1 /\ row'.doc.rev = row'.rev
    /\ holder' = holder \/ (holder \in {p, Nobody} /\ holder' \in {p, Nobody})
    /\ driver'[p].row \in {driver[p].row, row, row', FirstRow}
    /\ driver'[p].mem \in {driver[p].mem, driver[p].row.doc, row'.doc, FirstRow.doc}
    /\ \A name \in {"json", "tmp"} :
          session'[name].kind = "whole" =>
             \/ session'[name] \in {session["json"], session["tmp"]}
             \/ session'[name] = Whole(driver[p].row)

(* A step keeps what the row has had.                                       *)
LEMMA HistoryStep ==
  ASSUME RowIInv, RowTypeOK', NEW p \in Drivers, Steps(p)
  PROVE  HistoryKept'
<1>0. /\ \A q \in Drivers : driver[q].row \in Rows /\ driver[q].mem \in Docs /\ driver'[q].row \in Rows
      /\ row \in Rows /\ row' \in Rows /\ row.rev \in Nat /\ row'.rev \in Nat
      /\ FirstRow.rev = 0 /\ FirstRow.doc.rev = 0
  <2>1. /\ row \in Rows /\ row' \in Rows /\ driver \in [Drivers -> Locals] /\ driver' \in [Drivers -> Locals]
    BY DEF RowIInv, RowTypeOK
  <2>2. \A l \in Locals : l.row \in Rows /\ l.mem \in Docs BY DEF Locals
  <2>3. \A r \in Rows : r.rev \in Nat BY ProjectionAssumption DEF Rows, Revisions
  <2> QED BY <2>1, <2>2, <2>3, FirstTyped
<1>1. HistoryKept BY DEF RowIInv
<1>2. \/ row'.rev = row.rev /\ row'.doc = row.doc
      \/ row'.rev = row.rev + 1 /\ row'.doc.rev = row'.rev
  BY DEF Steps
<1>4. Had(row)' BY <1>0, <1>1, <1>2 DEF Had, HistoryKept
<1>5. Had(FirstRow)'
  <2>1. Had(FirstRow) BY <1>1 DEF HistoryKept
  <2> QED BY <1>0, <1>2, <2>1 DEF Had
<1>6. ASSUME NEW r, r.rev \in Nat, Had(r)
      PROVE  r.doc.rev = r.rev /\ r.rev <= row'.rev /\ (r.rev = row'.rev => r.doc = row'.doc)
  BY <1>0, <1>2, <1>6 DEF Had
<1>7. ASSUME NEW q \in Drivers
      PROVE  Had(driver[q].row)' /\ Had([rev |-> driver[q].mem.rev, doc |-> driver[q].mem])'
  <2>1. /\ driver'[q].row \in {driver[q].row, row, row', FirstRow}
        /\ driver'[q].mem \in {driver[q].mem, driver[q].row.doc, row'.doc, FirstRow.doc}
    BY DEF Steps
  <2>2. Had(driver[q].row) /\ Had([rev |-> driver[q].mem.rev, doc |-> driver[q].mem])
    BY <1>1 DEF HistoryKept
  <2>3. driver[q].row.rev \in Nat /\ driver[q].mem.rev \in Nat
    <3>1. \A r \in Rows : r.rev \in Nat BY ProjectionAssumption DEF Rows, Revisions
    <3>2. \A d \in Docs : d.rev \in Nat BY ProjectionAssumption DEF Docs, Revisions
    <3> QED BY <1>0, <3>1, <3>2
  <2>4. Had(driver[q].row)'
    <3>1. CASE driver'[q].row = driver[q].row BY <1>6, <2>2, <2>3, <3>1 DEF Had
    <3>2. CASE driver'[q].row = row
      <4>1. Had(row) BY <1>1 DEF HistoryKept
      <4> QED BY <1>0, <1>6, <3>2, <4>1 DEF Had
    <3>3. CASE driver'[q].row = row' BY <1>4, <3>3 DEF Had
    <3>4. CASE driver'[q].row = FirstRow BY <1>5, <3>4 DEF Had
    <3> QED BY <2>1, <3>1, <3>2, <3>3, <3>4
  <2>5. ASSUME NEW d, \/ d = driver[q].mem \/ d = driver[q].row.doc \/ d = row'.doc \/ d = FirstRow.doc
        PROVE  d.rev <= row'.rev /\ (d.rev = row'.rev => d = row'.doc)
    <3>1. CASE d = driver[q].mem
      <4>1. d.rev <= row.rev /\ (d.rev = row.rev => d = row.doc) BY <2>2, <3>1 DEF Had
      <4> QED BY <1>0, <1>2, <2>3, <3>1, <4>1
    <3>2. CASE d = driver[q].row.doc
      <4>1. d.rev = driver[q].row.rev /\ d.rev <= row.rev /\ (d.rev = row.rev => d = row.doc)
        BY <2>2, <3>2 DEF Had
      <4> QED BY <1>0, <1>2, <2>3, <4>1
    <3>3. CASE d = row'.doc BY <1>0, <1>4, <3>3 DEF Had
    <3>4. CASE d = FirstRow.doc BY <1>0, <1>5, <3>4 DEF Had
    <3> QED BY <2>5, <3>1, <3>2, <3>3, <3>4
  <2>6. driver'[q].mem.rev <= row'.rev /\ (driver'[q].mem.rev = row'.rev => driver'[q].mem = row'.doc)
    BY <2>1, <2>5
  <2>7. Had([rev |-> driver[q].mem.rev, doc |-> driver[q].mem])' BY <2>6 DEF Had
  <2> QED BY <2>4, <2>7
<1>8. ASSUME NEW name \in {"json", "tmp"}, session'[name].kind = "whole" PROVE Had(session[name].shows)'
  <2>1. \/ session'[name] \in {session["json"], session["tmp"]}
        \/ session'[name] = Whole(driver[p].row)
    BY <1>8 DEF Steps
  <2>2. CASE session'[name] = Whole(driver[p].row)
    <3>1. /\ session'[name].shows.rev = driver[p].row.rev /\ session'[name].shows.doc = driver[p].row.doc
      BY <1>0, <2>2, FirstTyped
    <3>2. Had(driver[p].row) /\ driver[p].row.rev \in Nat
      <4>1. \A r \in Rows : r.rev \in Nat BY ProjectionAssumption DEF Rows, Revisions
      <4> QED BY <1>0, <1>1, <4>1 DEF HistoryKept
    <3> QED BY <1>6, <3>1, <3>2 DEF Had
  <2>3. CASE session'[name] \in {session["json"], session["tmp"]}
    <3>1. PICK old \in {"json", "tmp"} : session'[name] = session[old] BY <2>3
    <3>2. Had(session[old].shows) BY <1>1, <1>8, <3>1 DEF HistoryKept
    <3>3. session[old].shows.rev \in Nat
      <4>1. session[old] \in Contents BY DEF RowIInv, RowTypeOK
      <4> QED BY <4>1, ProjectionAssumption DEF Contents, Revisions
    <3> QED BY <1>6, <3>1, <3>2, <3>3 DEF Had
  <2> QED BY <2>1, <2>2, <2>3
<1> QED BY <1>4, <1>5, <1>7, <1>8 DEF HistoryKept

(* The others keep the lock they save under, and their loads are alone or   *)
(* not alone any more.                                                      *)
LEMMA OthersStep ==
  ASSUME RowIInv, NEW p \in Drivers, SavesUnderLock(p), Steps(p), NEW q \in Drivers \ {p}
  PROVE  SavesUnderLock(q)' /\ AloneWrites(q)'
<1>1. SavesUnderLock(q) /\ AloneWrites(q) /\ p # Nobody /\ q # Nobody BY ProjectionAssumption DEF RowIInv
<1>2. /\ driver'[q].pc = driver[q].pc /\ driver'[q].goal = driver[q].goal
      /\ driver'[q].mem = driver[q].mem /\ driver'[q].row = driver[q].row
      /\ driver'[q].saved = driver[q].saved /\ driver'[q].load = driver[q].load
      /\ alone'[q] => alone[q] /\ driver'[q].fd = driver[q].fd /\ UNCHANGED <<row, session>>
  BY DEF Steps
<1>3. holder = q => holder' = q BY <1>1 DEF Steps
<1>4. holder = q => row'.rev = row.rev
  <2>1. driver[p].pc = "update" => holder = p BY DEF SavesUnderLock, Saving
  <2> QED BY <2>1 DEF Steps
<1>5. SavesUnderLock(q)'
  BY <1>1, <1>2, <1>3, <1>4 DEF SavesUnderLock, Saving, Syncing
<1>6. AloneWrites(q)' BY <1>1, <1>2 DEF AloneWrites, Whole, Projection
<1> QED BY <1>5, <1>6

----------------------------------------------------------------------------
(* The actions.                                                             *)

Kept(p) == RowTypeOK' /\ Steps(p) /\ SavesUnderLock(p)' /\ AloneWrites(p)'

(* What the invariant says of one process.                                  *)
LEMMA Holds ==
  ASSUME RowIInv, NEW p \in Drivers
  PROVE  /\ driver[p].pc \in SavePCs /\ driver[p].goal \in {"none", "start", "resume", "commit", "finish"}
         /\ driver[p].mem \in Docs /\ driver[p].row \in Rows /\ driver[p].sets \in Statuses
         /\ driver[p].fd \in {"none", "tmp", "json"} /\ driver[p].saved \in BOOLEAN
         /\ driver[p].load \in {"none", "ok", "refused"}
         /\ row \in Rows /\ session["json"] \in Contents /\ session["tmp"] \in Contents
         /\ p # Nobody /\ RowTypeOK /\ HistoryKept /\ SavesUnderLock(p) /\ AloneWrites(p)
<1>1. driver[p] \in Locals BY DEF RowIInv, RowTypeOK
<1>2. row \in Rows /\ session["json"] \in Contents /\ session["tmp"] \in Contents BY DEF RowIInv, RowTypeOK
<1> QED BY <1>1, <1>2, ProjectionAssumption DEF Locals, RowIInv

(* The types, when a process has gone on.                                   *)
LEMMA GoTypes ==
  ASSUME RowIInv, NEW p \in Drivers, NEW new, Go(p, new),
         driver'[p].pc \in SavePCs, driver'[p].goal \in {"none", "start", "resume", "commit", "finish"},
         driver'[p].mem \in Docs, driver'[p].row \in Rows, driver'[p].sets \in Statuses,
         driver'[p].fd \in {"none", "tmp", "json"}, driver'[p].saved \in BOOLEAN,
         driver'[p].load \in {"none", "ok", "refused"},
         row' \in Rows, session' \in [{"json", "tmp"} -> Contents],
         holder' \in {holder, p, Nobody}, alone' \in [Drivers -> BOOLEAN], faults' \in 0..MaxFaults
  PROVE  RowTypeOK'
<1>1. RowTypeOK BY DEF RowIInv
<1>2. driver' \in [Drivers -> Locals]
  <2> HIDE DEF Go
  <2> QED BY <1>1, GoIs, GoTyped
<1>3. holder' \in Drivers \cup {Nobody} BY <1>1 DEF RowTypeOK
<1> QED BY <1>2, <1>3 DEF RowTypeOK

(* A process goes on and nothing else changes but, perhaps, the lock, and    *)
(* that others are no longer alone.                                         *)
LEMMA QuietStep ==
  ASSUME RowIInv, NEW p \in Drivers, NEW new, Go(p, new), UNCHANGED <<row, session>>,
         \A q \in Drivers \ {p} : alone'[q] => alone[q],
         holder' = holder \/ (holder \in {p, Nobody} /\ holder' \in {p, Nobody}),
         driver'[p].row \in {driver[p].row, row, FirstRow},
         driver'[p].mem \in {driver[p].mem, driver[p].row.doc, FirstRow.doc}
  PROVE  Steps(p)
<1>1. \A q \in Drivers \ {p} : driver'[q] = driver[q]
  <2>1. RowTypeOK BY DEF RowIInv
  <2> HIDE DEF Go
  <2> QED BY <2>1, GoIs
<1>2. row' = row /\ session' = session OBVIOUS
<1>3. \A name \in {"json", "tmp"} : session'[name] \in {session["json"], session["tmp"]} BY <1>2
<1>4. \A q \in Drivers \ {p} :
          /\ driver'[q].pc = driver[q].pc /\ driver'[q].goal = driver[q].goal
          /\ driver'[q].mem = driver[q].mem /\ driver'[q].row = driver[q].row
          /\ driver'[q].saved = driver[q].saved /\ driver'[q].load = driver[q].load
          /\ alone'[q] => alone[q] /\ driver'[q].fd = driver[q].fd /\ UNCHANGED <<row, session>>
  BY <1>1, <1>2
<1> QED BY <1>2, <1>3, <1>4 DEF Steps

LEMMA ResumeStep ==
  ASSUME RowIInv, NEW p \in Drivers, Resume(p)
  PROVE  Kept(p)
<1>0. /\ holder = Nobody /\ holder' = p /\ Go(p, [Gone EXCEPT !.pc = "get", !.goal = "resume"])
      /\ row' = row /\ session' = session /\ alone' = alone /\ faults' = faults
  BY DEF Resume, Lock, Free
<1> HIDE DEF Go
<1>1. /\ driver'[p].pc = "get" /\ driver'[p].goal = "resume" /\ driver'[p].mem = FirstRow.doc
      /\ driver'[p].row = FirstRow /\ driver'[p].sets = "running" /\ driver'[p].fd = "none"
      /\ driver'[p].saved = FALSE /\ driver'[p].load = "none"
  BY <1>0, Holds, StartedGo
<1>2. PICK new : Go(p, new) BY <1>0
<1>3. RowTypeOK'
  <2>1. /\ session' \in [{"json", "tmp"} -> Contents] /\ alone' \in [Drivers -> BOOLEAN]
        /\ faults' \in 0..MaxFaults /\ row' \in Rows
    BY <1>0, Holds DEF RowTypeOK
  <2> QED BY <1>0, <1>1, <1>2, <2>1, FirstTyped, GoTypes DEF SavePCs, Statuses
<1>4. Steps(p) BY <1>0, <1>1, <1>2, QuietStep
<1>5. SavesUnderLock(p)' BY <1>0, <1>1 DEF SavesUnderLock, Saving, Syncing
<1>6. AloneWrites(p)' BY <1>1 DEF AloneWrites
<1> QED BY <1>3, <1>4, <1>5, <1>6 DEF Kept

LEMMA CommitStep ==
  ASSUME RowIInv, NEW p \in Drivers, Commit(p)
  PROVE  Kept(p)
<1>0. /\ driver[p].pc = "work" /\ holder = Nobody /\ row.rev < MaxRevision /\ holder' = p
      /\ row' = row /\ session' = session /\ alone' = alone /\ faults' = faults
  BY DEF Commit, Lock, Free, At
<1>2. PICK s \in {row.status, "paused", "running"} : Go(p, [pc |-> "select", goal |-> "commit", sets |-> s])
  BY DEF Commit
<1> HIDE DEF Go
<1>1. /\ driver'[p].pc = "select" /\ driver'[p].goal = "commit" /\ driver'[p].mem = driver[p].mem
      /\ driver'[p].row = driver[p].row /\ driver'[p].sets = s /\ driver'[p].fd = driver[p].fd
      /\ driver'[p].saved = driver[p].saved /\ driver'[p].load = driver[p].load
  BY <1>2, Holds, GoIs
<1>3. RowTypeOK'
  <2>1. /\ session' \in [{"json", "tmp"} -> Contents] /\ alone' \in [Drivers -> BOOLEAN]
        /\ faults' \in 0..MaxFaults /\ row' \in Rows
    BY <1>0, Holds DEF RowTypeOK
  <2>2. s \in Statuses BY Holds DEF Rows, Statuses
  <2>3. "select" \in SavePCs BY DEF SavePCs
  <2> QED BY <1>0, <1>1, <1>2, <2>1, <2>2, <2>3, Holds, GoTypes
<1>4. Steps(p) BY <1>0, <1>1, <1>2, QuietStep
<1>5. SavesUnderLock(p)' BY <1>0, <1>1 DEF SavesUnderLock, Saving, Syncing
<1>6. AloneWrites(p)' BY <1>0, <1>1, Holds DEF AloneWrites, Whole, Projection
<1> QED BY <1>3, <1>4, <1>5, <1>6 DEF Kept

LEMMA FinishStep ==
  ASSUME RowIInv, NEW p \in Drivers, FinishRun(p)
  PROVE  Kept(p)
<1>0. /\ driver[p].pc \in {"work", "end"} /\ holder = Nobody /\ row.rev < MaxRevision /\ holder' = p
      /\ row' = row /\ session' = session /\ alone' = alone /\ faults' = faults
  BY DEF FinishRun, Lock, Free
<1>2. PICK s \in {"failed", "paused"} : Go(p, [pc |-> "get", goal |-> "finish", sets |-> s])
  BY DEF FinishRun
<1> HIDE DEF Go
<1>1. /\ driver'[p].pc = "get" /\ driver'[p].goal = "finish" /\ driver'[p].mem = driver[p].mem
      /\ driver'[p].row = driver[p].row /\ driver'[p].sets = s /\ driver'[p].fd = driver[p].fd
      /\ driver'[p].saved = driver[p].saved /\ driver'[p].load = driver[p].load
  BY <1>2, Holds, GoIs
<1>3. RowTypeOK'
  <2>1. /\ session' \in [{"json", "tmp"} -> Contents] /\ alone' \in [Drivers -> BOOLEAN]
        /\ faults' \in 0..MaxFaults /\ row' \in Rows
    BY <1>0, Holds DEF RowTypeOK
  <2>2. s \in Statuses BY DEF Statuses
  <2>3. "get" \in SavePCs BY DEF SavePCs
  <2> QED BY <1>0, <1>1, <1>2, <2>1, <2>2, <2>3, Holds, GoTypes
<1>4. Steps(p) BY <1>0, <1>1, <1>2, QuietStep
<1>5. SavesUnderLock(p)' BY <1>0, <1>1 DEF SavesUnderLock, Saving, Syncing
<1>6. AloneWrites(p)' BY <1>0, <1>1, Holds DEF AloneWrites, Whole, Projection
<1> QED BY <1>3, <1>4, <1>5, <1>6 DEF Kept

LEMMA ReconcileStep ==
  ASSUME RowIInv, NEW p \in Drivers, Reconcile(p)
  PROVE  Kept(p)
<1>0. /\ row' = [row EXCEPT !.status = "failed"] /\ alone' = [q \in Drivers |-> FALSE]
      /\ session' = session /\ holder' = holder /\ driver' = driver /\ faults' = faults
  BY DEF Reconcile, NobodyAlone
<1>1. row'.rev = row.rev /\ row'.doc = row.doc /\ row' \in Rows
  <2>1. row \in Rows BY Holds
  <2> QED BY <1>0, <2>1 DEF Rows, Statuses
<1>2. \A q \in Drivers : ~alone'[q] BY <1>0
<1>3. RowTypeOK'
  <2>1. alone' \in [Drivers -> BOOLEAN] BY <1>0
  <2> QED BY <1>0, <1>1, <2>1, Holds DEF RowTypeOK
<1>4. Steps(p) BY <1>0, <1>1, <1>2 DEF Steps
<1>5. SavesUnderLock(p)' BY <1>0, <1>1, Holds DEF SavesUnderLock, Saving, Syncing
<1>6. AloneWrites(p)' BY <1>2 DEF AloneWrites
<1> QED BY <1>3, <1>4, <1>5, <1>6 DEF Kept

LEMMA GetStep ==
  ASSUME RowIInv, NEW p \in Drivers, Get(p)
  PROVE  Kept(p)
<1>0. /\ driver[p].pc = "get" /\ alone' = [alone EXCEPT ![p] = TRUE]
      /\ row' = row /\ session' = session /\ holder' = holder /\ faults' = faults
  BY DEF Get, At
<1>2. Go(p, [pc |-> "read", row |-> row, saved |-> FALSE, load |-> "none"]) BY DEF Get
<1> HIDE DEF Go
<1>7. PICK new : new = [pc |-> "read", row |-> row, saved |-> FALSE, load |-> "none"] /\ Go(p, new) BY <1>2
<1>1. /\ driver'[p].pc = "read" /\ driver'[p].goal = driver[p].goal /\ driver'[p].mem = driver[p].mem
      /\ driver'[p].row = row /\ driver'[p].sets = driver[p].sets /\ driver'[p].fd = driver[p].fd
      /\ driver'[p].saved = FALSE /\ driver'[p].load = "none"
  BY <1>7, Holds, GoIs
<1>3. RowTypeOK'
  <2>1. /\ session' \in [{"json", "tmp"} -> Contents] /\ alone' \in [Drivers -> BOOLEAN]
        /\ faults' \in 0..MaxFaults /\ row' \in Rows
    BY <1>0, Holds DEF RowTypeOK
  <2>2. "read" \in SavePCs BY DEF SavePCs
  <2> QED BY <1>0, <1>1, <1>7, <2>1, <2>2, Holds, GoTypes
<1>4. Steps(p)
  <2>1. \A q \in Drivers \ {p} : alone'[q] => alone[q] BY <1>0, Holds DEF RowTypeOK
  <2> QED BY <1>0, <1>1, <1>7, <2>1, QuietStep
<1>5. SavesUnderLock(p)' BY <1>0, <1>1, Holds DEF SavesUnderLock, Saving, Syncing
<1>6. AloneWrites(p)' BY <1>0, <1>1 DEF AloneWrites
<1> QED BY <1>3, <1>4, <1>5, <1>6 DEF Kept

(* The end of a load that is not refused.                                   *)
LEMMA LoadedStep ==
  ASSUME RowIInv, NEW p \in Drivers, Loaded(p), UNCHANGED <<row, session, holder, alone, faults>>,
         driver[p].pc \in {"read", "synced"}, ~driver[p].saved,
         alone[p] => session["json"] = Whole(row)
  PROVE  Kept(p)
<1>0. /\ row' = row /\ session' = session /\ holder' = holder /\ alone' = alone /\ faults' = faults
  OBVIOUS
<1>8. driver[p].goal \in {"start", "resume", "finish"}
  BY Holds DEF SavesUnderLock, Saving, Syncing
<1>2. PICK to \in {"work", "mark", "select"} :
        /\ Go(p, [pc |-> to, mem |-> driver[p].row.doc, load |-> "ok", fd |-> "none"])
        /\ driver[p].goal = "start" => to = "work"
        /\ driver[p].goal = "resume" => to = "mark"
        /\ driver[p].goal = "finish" => to = "select"
  BY <1>8 DEF Loaded
<1> HIDE DEF Go
<1>7. PICK new : new = [pc |-> to, mem |-> driver[p].row.doc, load |-> "ok", fd |-> "none"] /\ Go(p, new)
  BY <1>2
<1>1. /\ driver'[p].pc = to /\ driver'[p].goal = driver[p].goal /\ driver'[p].mem = driver[p].row.doc
      /\ driver'[p].row = driver[p].row /\ driver'[p].sets = driver[p].sets /\ driver'[p].fd = "none"
      /\ driver'[p].saved = driver[p].saved /\ driver'[p].load = "ok"
  BY <1>7, Holds, GoIs
<1>3. RowTypeOK'
  <2>1. /\ session' \in [{"json", "tmp"} -> Contents] /\ alone' \in [Drivers -> BOOLEAN]
        /\ faults' \in 0..MaxFaults /\ row' \in Rows
    BY <1>0, Holds DEF RowTypeOK
  <2>2. to \in SavePCs BY DEF SavePCs
  <2>3. driver[p].row.doc \in Docs BY Holds DEF Rows
  <2> QED BY <1>0, <1>1, <1>7, <2>1, <2>2, <2>3, Holds, GoTypes
<1>4. Steps(p) BY <1>0, <1>1, <1>7, QuietStep
<1>5. SavesUnderLock(p)' BY <1>0, <1>1, <1>2, <1>8, Holds DEF SavesUnderLock, Saving, Syncing
<1>6. AloneWrites(p)' BY <1>0, <1>1, Holds DEF AloneWrites, Whole, Projection
<1> QED BY <1>3, <1>4, <1>5, <1>6 DEF Kept

LEMMA ReadStep ==
  ASSUME RowIInv, NEW p \in Drivers, Read(p)
  PROVE  Kept(p)
<1>0. /\ driver[p].pc = "read" /\ ~driver[p].saved
      /\ row' = row /\ session' = session /\ alone' = alone /\ faults' = faults
  BY Holds DEF Read, At, SavesUnderLock
<1>8. driver[p].goal \in {"start", "resume", "finish"}
  BY <1>0, Holds DEF SavesUnderLock, Saving, Syncing
<1>9. driver[p].goal # "start" => holder = p BY <1>0, Holds DEF SavesUnderLock
<1>1. CASE session.json.kind = "whole" /\ session.json.shows.rev > driver[p].row.rev
  <2>1. ~alone[p]
    <3>1. session["json"].shows.rev <= row.rev BY <1>1, Holds DEF HistoryKept, Had
    <3>2. alone[p] => driver[p].row = row BY <1>0, Holds DEF AloneWrites
    <3>3. row.rev \in Nat /\ session["json"].shows.rev \in Nat
      BY Holds, ProjectionAssumption DEF Rows, Contents, Revisions
    <3> QED BY <1>1, <3>1, <3>2, <3>3
  <2>2. PICK to \in {"end", "idle", "mark"} :
          /\ Go(p, [pc |-> to, load |-> "refused"])
          /\ driver[p].goal = "start" => to = "end" /\ holder' = holder
          /\ driver[p].goal = "resume" => to = "idle" /\ holder' = Nobody
          /\ driver[p].goal = "finish" => to = "mark" /\ holder' = holder
    BY <1>1, <1>8 DEF Read, Refused, Release
  <2> HIDE DEF Go
  <2>3. /\ driver'[p].pc = to /\ driver'[p].goal = driver[p].goal /\ driver'[p].mem = driver[p].mem
        /\ driver'[p].row = driver[p].row /\ driver'[p].sets = driver[p].sets
        /\ driver'[p].fd = driver[p].fd /\ driver'[p].saved = driver[p].saved
        /\ driver'[p].load = "refused"
    BY <2>2, Holds, GoIs
  <2>4. holder' = holder \/ (holder \in {p, Nobody} /\ holder' \in {p, Nobody}) BY <1>8, <1>9, <2>2
  <2>5. RowTypeOK'
    <3>1. /\ session' \in [{"json", "tmp"} -> Contents] /\ alone' \in [Drivers -> BOOLEAN]
          /\ faults' \in 0..MaxFaults /\ row' \in Rows
      BY <1>0, Holds DEF RowTypeOK
    <3>2. to \in SavePCs BY DEF SavePCs
    <3> QED BY <2>2, <2>3, <2>4, <3>1, <3>2, Holds, GoTypes
  <2>6. Steps(p) BY <1>0, <2>2, <2>3, <2>4, QuietStep
  <2>7. SavesUnderLock(p)'
    BY <1>0, <1>8, <1>9, <2>2, <2>3, Holds DEF SavesUnderLock, Saving, Syncing
  <2>8. AloneWrites(p)' BY <1>0, <2>1 DEF AloneWrites
  <2> QED BY <2>5, <2>6, <2>7, <2>8 DEF Kept
<1>2. CASE /\ ~(session.json.kind = "whole" /\ session.json.shows.rev > driver[p].row.rev)
           /\ Stale(p)
  <2>1. Go(p, [pc |-> "open"]) /\ holder' = holder BY <1>2 DEF Read
  <2> HIDE DEF Go
  <2>3. /\ driver'[p].pc = "open" /\ driver'[p].goal = driver[p].goal /\ driver'[p].mem = driver[p].mem
        /\ driver'[p].row = driver[p].row /\ driver'[p].sets = driver[p].sets
        /\ driver'[p].fd = driver[p].fd /\ driver'[p].saved = driver[p].saved
        /\ driver'[p].load = driver[p].load
    BY <2>1, Holds, GoIs
  <2>5. RowTypeOK'
    <3>1. /\ session' \in [{"json", "tmp"} -> Contents] /\ alone' \in [Drivers -> BOOLEAN]
          /\ faults' \in 0..MaxFaults /\ row' \in Rows
      BY <1>0, Holds DEF RowTypeOK
    <3>2. "open" \in SavePCs BY DEF SavePCs
    <3> QED BY <2>1, <2>3, <3>1, <3>2, Holds, GoTypes
  <2>6. Steps(p) BY <1>0, <2>1, <2>3, QuietStep
  <2>7. SavesUnderLock(p)'
    BY <1>0, <1>8, <1>9, <2>1, <2>3, Holds DEF SavesUnderLock, Saving, Syncing
  <2>8. AloneWrites(p)' BY <1>0, <2>3, Holds DEF AloneWrites, Whole, Projection
  <2> QED BY <2>5, <2>6, <2>7, <2>8 DEF Kept
<1>3. CASE /\ ~(session.json.kind = "whole" /\ session.json.shows.rev > driver[p].row.rev)
           /\ ~Stale(p)
  <2>1. Loaded(p) /\ holder' = holder BY <1>3 DEF Read
  <2>2. alone[p] => session["json"] = Whole(row) BY <1>0, <1>3, Holds DEF Stale, AloneWrites
  <2> QED BY <1>0, <2>1, <2>2, LoadedStep
<1> QED BY <1>1, <1>2, <1>3

LEMMA MarkStep ==
  ASSUME RowIInv, NEW p \in Drivers, Mark(p)
  PROVE  Kept(p)
<1>0. /\ driver[p].pc = "mark" /\ alone' = [q \in Drivers |-> FALSE]
      /\ session' = session /\ holder' = Nobody /\ faults' = faults
  BY DEF Mark, At, NobodyAlone, Release
<1>2. \A q \in Drivers : ~alone'[q] BY <1>0
<1>3. holder = p BY <1>0, Holds DEF SavesUnderLock
<1>4. PICK new :
        /\ Go(p, new)
        /\ \/ new = [pc |-> "get", goal |-> "start"] /\ row' = [row EXCEPT !.status = "running", !.pid = p]
           \/ new = Gone /\ row' = [row EXCEPT !.status = driver[p].sets]
  BY DEF Mark
<1>5. row'.rev = row.rev /\ row'.doc = row.doc /\ row' \in Rows
  <2>1. row \in Rows /\ driver[p].sets \in Statuses BY Holds
  <2> QED BY <1>4, <2>1 DEF Rows, Statuses
<1> HIDE DEF Go
<1>6. /\ driver'[p].mem \in {driver[p].mem, FirstRow.doc} /\ driver'[p].row \in {driver[p].row, FirstRow}
      /\ driver'[p].sets \in Statuses /\ driver'[p].fd \in {"none", "tmp", "json"}
      /\ driver'[p].saved \in BOOLEAN /\ driver'[p].load \in {"none", "ok", "refused"}
      /\ \/ driver'[p].pc = "get" /\ driver'[p].goal = "start"
         \/ driver'[p].pc = "idle" /\ driver'[p].goal = "none"
  <2>1. CASE new = [pc |-> "get", goal |-> "start"]
    <3>1. /\ driver'[p].pc = "get" /\ driver'[p].goal = "start" /\ driver'[p].mem = driver[p].mem
          /\ driver'[p].row = driver[p].row /\ driver'[p].sets = driver[p].sets
          /\ driver'[p].fd = driver[p].fd /\ driver'[p].saved = driver[p].saved
          /\ driver'[p].load = driver[p].load
      BY <1>4, <2>1, Holds, GoIs
    <3> QED BY <3>1, Holds
  <2>2. CASE new = Gone
    <3>1. Go(p, Gone) BY <1>4, <2>2
    <3> QED BY <3>1, Holds, GoneGo DEF Statuses
  <2> QED BY <1>4, <2>1, <2>2
<1>7. RowTypeOK'
  <2>1. session' \in [{"json", "tmp"} -> Contents] /\ alone' \in [Drivers -> BOOLEAN] /\ faults' \in 0..MaxFaults
    BY <1>0, Holds DEF RowTypeOK
  <2>2. driver'[p].pc \in SavePCs /\ driver'[p].mem \in Docs /\ driver'[p].row \in Rows
    BY <1>6, FirstTyped, Holds DEF SavePCs
  <2> QED BY <1>0, <1>4, <1>5, <1>6, <2>1, <2>2, GoTypes
<1>8. Steps(p)
  <2>1. \A q \in Drivers \ {p} : driver'[q] = driver[q] BY <1>4, Holds, GoIs
  <2> QED BY <1>0, <1>2, <1>3, <1>5, <1>6, <2>1 DEF Steps
<1>9. SavesUnderLock(p)' BY <1>6 DEF SavesUnderLock, Saving, Syncing
<1>10. AloneWrites(p)' BY <1>2 DEF AloneWrites
<1> QED BY <1>7, <1>8, <1>9, <1>10 DEF Kept

LEMMA SelectStep ==
  ASSUME RowIInv, NEW p \in Drivers, Select(p)
  PROVE  Kept(p)
<1>0. /\ driver[p].pc = "select" /\ row' = row /\ session' = session /\ alone' = alone /\ faults' = faults
      /\ holder = p /\ Saving(p) /\ row.rev < MaxRevision
  BY Holds DEF Select, At, SavesUnderLock, Saving
<1>4. PICK new :
        /\ Go(p, new)
        /\ \/ new = [pc |-> "update"] /\ holder' = holder /\ row.rev = driver[p].mem.rev
           \/ new = [pc |-> "end"] /\ holder' = Nobody
           \/ new = Gone /\ holder' = Nobody
  BY DEF Select, Release
<1> HIDE DEF Go
<1>6. /\ driver'[p].mem \in {driver[p].mem, FirstRow.doc} /\ driver'[p].row \in {driver[p].row, FirstRow}
      /\ driver'[p].sets \in Statuses /\ driver'[p].fd \in {"none", "tmp", "json"}
      /\ driver'[p].load \in {"none", driver[p].load} /\ driver'[p].saved \in {FALSE, driver[p].saved}
      /\ \/ /\ driver'[p].pc = "update" /\ driver'[p].goal = driver[p].goal /\ holder' = holder
            /\ driver'[p].mem.rev = row.rev
         \/ driver'[p].pc = "end" /\ driver'[p].goal = driver[p].goal /\ holder' = Nobody
         \/ driver'[p].pc = "idle" /\ driver'[p].goal = "none" /\ holder' = Nobody
  <2>1. CASE new \in {[pc |-> "update"], [pc |-> "end"]}
    <3>1. /\ driver'[p].pc = new.pc /\ driver'[p].goal = driver[p].goal /\ driver'[p].mem = driver[p].mem
          /\ driver'[p].row = driver[p].row /\ driver'[p].sets = driver[p].sets
          /\ driver'[p].fd = driver[p].fd /\ driver'[p].saved = driver[p].saved
          /\ driver'[p].load = driver[p].load
      BY <1>4, <2>1, Holds, GoIs
    <3>2. \/ new.pc = "update" /\ holder' = holder /\ row.rev = driver[p].mem.rev
          \/ new.pc = "end" /\ holder' = Nobody
      <4>1. "pc" \in DOMAIN [pc |-> "update"] /\ "goal" \in DOMAIN Gone BY GoneIs DEF Fields
      <4>2. new # Gone BY <2>1, <4>1, GoneIs
      <4> QED BY <1>4, <4>2
    <3> QED BY <3>1, <3>2, Holds
  <2>2. CASE new = Gone /\ holder' = Nobody
    <3>1. Go(p, Gone) BY <1>4, <2>2
    <3> QED BY <2>2, <3>1, Holds, GoneGo DEF Statuses
  <2> QED BY <1>4, <2>1, <2>2
<1>7. RowTypeOK'
  <2>1. /\ session' \in [{"json", "tmp"} -> Contents] /\ alone' \in [Drivers -> BOOLEAN]
        /\ faults' \in 0..MaxFaults /\ row' \in Rows
    BY <1>0, Holds DEF RowTypeOK
  <2>2. /\ driver'[p].pc \in SavePCs /\ driver'[p].mem \in Docs /\ driver'[p].row \in Rows
        /\ driver'[p].load \in {"none", "ok", "refused"} /\ driver'[p].saved \in BOOLEAN
        /\ driver'[p].goal \in {"none", "start", "resume", "commit", "finish"}
    BY <1>6, FirstTyped, Holds DEF SavePCs
  <2>3. holder' \in {holder, p, Nobody} BY <1>6
  <2> QED BY <1>4, <1>6, <2>1, <2>2, <2>3, GoTypes
<1>8. Steps(p)
  <2>1. holder' = holder \/ (holder \in {p, Nobody} /\ holder' \in {p, Nobody}) BY <1>0, <1>6
  <2>2. /\ driver'[p].row \in {driver[p].row, row, FirstRow}
        /\ driver'[p].mem \in {driver[p].mem, driver[p].row.doc, FirstRow.doc}
    BY <1>6
  <2> QED BY <1>0, <1>4, <2>1, <2>2, QuietStep
<1>9. SavesUnderLock(p)' BY <1>0, <1>6 DEF SavesUnderLock, Saving, Syncing
<1>10. AloneWrites(p)' BY <1>0, <1>6, Holds DEF AloneWrites, Whole, Projection
<1> QED BY <1>7, <1>8, <1>9, <1>10 DEF Kept

LEMMA UpdateStep ==
  ASSUME RowIInv, NEW p \in Drivers, Update(p)
  PROVE  Kept(p)
<1>0. /\ driver[p].pc = "update" /\ alone' = [q \in Drivers |-> FALSE]
      /\ session' = session /\ holder' = holder /\ faults' = faults
      /\ holder = p /\ Saving(p) /\ row.rev < MaxRevision /\ driver[p].mem.rev = row.rev
  BY Holds DEF Update, At, NobodyAlone, SavesUnderLock, Saving
<1>2. \A q \in Drivers : ~alone'[q] BY <1>0
<1>3. row \in Rows /\ row.rev \in Nat /\ driver[p].sets \in Statuses
  BY Holds, ProjectionAssumption DEF Rows, Revisions
<1>4. PICK d : d = Doc(p, row.rev + 1) OBVIOUS
<1>5. d \in Docs /\ d.rev = row.rev + 1 /\ row.rev + 1 \in Revisions
  <2>1. row.rev + 1 \in Revisions BY <1>0, <1>3, ProjectionAssumption DEF Revisions
  <2> QED BY <1>4, <2>1 DEF Doc, Docs
<1>6. row' = [row EXCEPT !.rev = row.rev + 1, !.doc = d, !.status = driver[p].sets]
  BY <1>0, <1>4 DEF Update, NextRevision
<1>7. row'.rev = row.rev + 1 /\ row'.doc = d /\ row' \in Rows
  <2>1. PICK r : r = row.rev + 1 /\ r \in Revisions BY <1>5
  <2>2. row' = [row EXCEPT !.rev = r, !.doc = d, !.status = driver[p].sets] BY <1>6, <2>1
  <2> HIDE DEF Revisions
  <2> QED BY <1>3, <1>5, <2>1, <2>2 DEF Rows
<1>8. PICK new : new = [pc |-> "open", row |-> row', mem |-> row'.doc, saved |-> TRUE] /\ Go(p, new)
  BY DEF Update
<1> HIDE DEF Go
<1>9. /\ driver'[p].pc = "open" /\ driver'[p].goal = driver[p].goal /\ driver'[p].mem = row'.doc
      /\ driver'[p].row = row' /\ driver'[p].sets = driver[p].sets /\ driver'[p].fd = driver[p].fd
      /\ driver'[p].saved = TRUE /\ driver'[p].load = driver[p].load
  BY <1>8, Holds, GoIs
<1>10. RowTypeOK'
  <2>1. session' \in [{"json", "tmp"} -> Contents] /\ alone' \in [Drivers -> BOOLEAN] /\ faults' \in 0..MaxFaults
    BY <1>0, Holds DEF RowTypeOK
  <2>2. "open" \in SavePCs /\ TRUE \in BOOLEAN BY DEF SavePCs
  <2>3. /\ row'.doc \in Docs /\ driver'[p].saved \in BOOLEAN /\ holder' \in {holder, p, Nobody}
    BY <1>0, <1>5, <1>7, <1>9
  <2> QED BY <1>7, <1>8, <1>9, <2>1, <2>2, <2>3, Holds, GoTypes
<1>11. Steps(p)
  <2>1. \A q \in Drivers \ {p} : driver'[q] = driver[q] BY <1>8, Holds, GoIs
  <2>2. row'.doc.rev = row'.rev BY <1>5, <1>7
  <2> QED BY <1>0, <1>2, <1>7, <1>9, <2>1, <2>2 DEF Steps
<1>12. SavesUnderLock(p)' BY <1>0, <1>9, Holds DEF SavesUnderLock, Saving, Syncing
<1>13. AloneWrites(p)' BY <1>2 DEF AloneWrites
<1> QED BY <1>10, <1>11, <1>12, <1>13 DEF Kept

LEMMA OpenStep ==
  ASSUME RowIInv, NEW p \in Drivers, Open(p)
  PROVE  Kept(p)
<1>0. /\ driver[p].pc = "open" /\ session' = [session EXCEPT !.tmp = Partial]
      /\ alone' = [q \in Drivers |-> alone[q] /\ q = p]
      /\ row' = row /\ holder' = holder /\ faults' = faults /\ Go(p, [pc |-> "fill", fd |-> "tmp"])
  BY DEF Open, At, Overtaking
<1> HIDE DEF Go
<1>1. /\ driver'[p].pc = "fill" /\ driver'[p].goal = driver[p].goal /\ driver'[p].mem = driver[p].mem
      /\ driver'[p].row = driver[p].row /\ driver'[p].sets = driver[p].sets /\ driver'[p].fd = "tmp"
      /\ driver'[p].saved = driver[p].saved /\ driver'[p].load = driver[p].load
  BY <1>0, Holds, GoIs
<1>2. /\ session' \in [{"json", "tmp"} -> Contents] /\ session'["json"] = session["json"]
      /\ session'["tmp"].kind = "partial"
  <2>1. session \in [{"json", "tmp"} -> Contents] BY Holds DEF RowTypeOK
  <2> QED BY <1>0, <2>1, FirstTyped
<1>3. RowTypeOK'
  <2>1. alone' \in [Drivers -> BOOLEAN] /\ faults' \in 0..MaxFaults /\ row' \in Rows
    <3>1. \A q \in Drivers : (alone[q] /\ q = p) \in BOOLEAN OBVIOUS
    <3> QED BY <1>0, <3>1, Holds DEF RowTypeOK
  <2>2. "fill" \in SavePCs BY DEF SavePCs
  <2> QED BY <1>0, <1>1, <1>2, <2>1, <2>2, Holds, GoTypes
<1>4. Steps(p)
  <2>1. \A q \in Drivers \ {p} : driver'[q] = driver[q] /\ ~alone'[q] BY <1>0, Holds, GoIs
  <2> QED BY <1>0, <1>1, <1>2, <2>1 DEF Steps
<1>5. SavesUnderLock(p)' BY <1>0, <1>1, Holds DEF SavesUnderLock, Saving, Syncing
<1>6. AloneWrites(p)'
  <2>1. alone'[p] => alone[p] BY <1>0
  <2> QED BY <1>0, <1>1, <1>2, <2>1, Holds DEF AloneWrites, Whole, Projection
<1> QED BY <1>3, <1>4, <1>5, <1>6 DEF Kept

LEMMA FillStep ==
  ASSUME RowIInv, NEW p \in Drivers, Fill(p)
  PROVE  Kept(p)
<1>0. /\ driver[p].pc = "fill" /\ Go(p, [pc |-> "replace", fd |-> "none"])
      /\ row' = row /\ holder' = holder /\ faults' = faults
  BY DEF Fill, At
<1>9. \/ driver[p].fd = "none" /\ session' = session /\ alone' = alone
      \/ /\ driver[p].fd # "none" /\ alone' = [q \in Drivers |-> alone[q] /\ q = p]
         /\ \E content \in {Whole(driver[p].row)} \cup {c \in {Partial} : session[driver[p].fd].kind = "whole"} :
              session' = [session EXCEPT ![driver[p].fd] = content]
  BY DEF Fill, Overtaking
<1> HIDE DEF Go
<1>1. /\ driver'[p].pc = "replace" /\ driver'[p].goal = driver[p].goal /\ driver'[p].mem = driver[p].mem
      /\ driver'[p].row = driver[p].row /\ driver'[p].sets = driver[p].sets /\ driver'[p].fd = "none"
      /\ driver'[p].saved = driver[p].saved /\ driver'[p].load = driver[p].load
  BY <1>0, Holds, GoIs
<1>2. /\ session' \in [{"json", "tmp"} -> Contents]
      /\ \A name \in {"json", "tmp"} :
           session'[name].kind = "whole" =>
              session'[name] = session[name] \/ session'[name] = Whole(driver[p].row)
      /\ alone[p] => session'["json"] = session["json"] /\ session'["tmp"] = Whole(row)
                     /\ driver[p].fd = "tmp"
  <2>1. session \in [{"json", "tmp"} -> Contents] BY Holds DEF RowTypeOK
  <2>2. alone[p] => driver[p].fd = "tmp" /\ session["tmp"].kind = "partial" /\ driver[p].row = row
    BY <1>0, Holds DEF AloneWrites
  <2>3. CASE driver[p].fd = "none" BY <1>9, <2>1, <2>2, <2>3
  <2>4. CASE driver[p].fd # "none"
    <3>1. PICK content \in {Whole(driver[p].row)} \cup {c \in {Partial} : session[driver[p].fd].kind = "whole"} :
              session' = [session EXCEPT ![driver[p].fd] = content]
      BY <1>9, <2>4
    <3>2. driver[p].fd \in {"json", "tmp"} BY <2>4, Holds
    <3>3. content \in Contents /\ Whole(driver[p].row) \in Contents BY Holds, FirstTyped
    <3>4. content # Whole(driver[p].row) => content.kind = "partial" /\ session[driver[p].fd].kind = "whole"
      BY FirstTyped
    <3>5. session'[driver[p].fd] = content /\ session' \in [{"json", "tmp"} -> Contents]
      BY <2>1, <3>1, <3>2, <3>3
    <3>6. \A name \in {"json", "tmp"} : name # driver[p].fd => session'[name] = session[name]
      BY <2>1, <3>1
    <3>7. \A name \in {"json", "tmp"} :
           session'[name].kind = "whole" =>
              session'[name] = session[name] \/ session'[name] = Whole(driver[p].row)
      BY <3>4, <3>5, <3>6
    <3>8. alone[p] => session'["json"] = session["json"] /\ session'["tmp"] = Whole(row)
      BY <2>2, <3>4, <3>5, <3>6
    <3> QED BY <2>2, <3>5, <3>7, <3>8
  <2> QED BY <2>3, <2>4
<1>3. RowTypeOK'
  <2>1. alone' \in [Drivers -> BOOLEAN] /\ faults' \in 0..MaxFaults /\ row' \in Rows
    <3>1. \A q \in Drivers : (alone[q] /\ q = p) \in BOOLEAN OBVIOUS
    <3> QED BY <1>0, <1>9, <3>1, Holds DEF RowTypeOK
  <2>2. "replace" \in SavePCs BY DEF SavePCs
  <2> QED BY <1>0, <1>1, <1>2, <2>1, <2>2, Holds, GoTypes
<1>4. Steps(p)
  <2>1. \A q \in Drivers \ {p} :
          driver'[q] = driver[q] /\ (alone'[q] => alone[q] /\ UNCHANGED <<row, session>>)
    <3>1. \A q \in Drivers \ {p} : driver'[q] = driver[q] BY <1>0, Holds, GoIs
    <3> QED BY <1>0, <1>9, <3>1
  <2>2. \A name \in {"json", "tmp"} :
          session'[name].kind = "whole" =>
             \/ session'[name] \in {session["json"], session["tmp"]}
             \/ session'[name] = Whole(driver[p].row)
    BY <1>2
  <2> QED BY <1>0, <1>1, <2>1, <2>2 DEF Steps
<1>5. SavesUnderLock(p)' BY <1>0, <1>1, Holds DEF SavesUnderLock, Saving, Syncing
<1>6. AloneWrites(p)'
  <2>1. alone'[p] => alone[p] BY <1>9
  <2> QED BY <1>0, <1>1, <1>2, <2>1, Holds DEF AloneWrites, Whole, Projection
<1> QED BY <1>3, <1>4, <1>5, <1>6 DEF Kept

(* The descriptors that a rename or a removal changes, whosever they are.    *)
LEMMA Moves ==
  ASSUME RowIInv, NEW p \in Drivers, NEW fds \in [Drivers -> {"none", "tmp", "json"}],
         driver' = [q \in Drivers |-> [[driver EXCEPT ![p].pc = "synced"][q] EXCEPT !.fd = fds[q]]]
  PROVE  /\ driver' \in [Drivers -> Locals] /\ driver'[p].pc = "synced"
         /\ \A q \in Drivers :
              /\ driver'[q].goal = driver[q].goal /\ driver'[q].mem = driver[q].mem
              /\ driver'[q].row = driver[q].row /\ driver'[q].sets = driver[q].sets
              /\ driver'[q].saved = driver[q].saved /\ driver'[q].load = driver[q].load
              /\ q # p => driver'[q].pc = driver[q].pc
<1>1. driver \in [Drivers -> Locals] BY Holds DEF RowTypeOK
<1>2. PICK after : after = [driver EXCEPT ![p].pc = "synced"] OBVIOUS
<1>3. /\ after \in [Drivers -> Locals] /\ after[p].pc = "synced"
      /\ \A q \in Drivers :
           /\ after[q].goal = driver[q].goal /\ after[q].mem = driver[q].mem
           /\ after[q].row = driver[q].row /\ after[q].sets = driver[q].sets
           /\ after[q].saved = driver[q].saved /\ after[q].load = driver[q].load
           /\ q # p => after[q].pc = driver[q].pc
  <2>1. driver[p] \in Locals /\ "synced" \in SavePCs BY <1>1 DEF SavePCs
  <2>2. after[p] = [driver[p] EXCEPT !.pc = "synced"] BY <1>1, <1>2
  <2>3. /\ after[p] \in Locals /\ after[p].pc = "synced"
        /\ after[p].goal = driver[p].goal /\ after[p].mem = driver[p].mem
        /\ after[p].row = driver[p].row /\ after[p].sets = driver[p].sets
        /\ after[p].saved = driver[p].saved /\ after[p].load = driver[p].load
    <3> HIDE DEF SavePCs, Docs, Rows, Statuses
    <3> QED BY <2>1, <2>2 DEF Locals
  <2>4. \A q \in Drivers \ {p} : after[q] = driver[q] BY <1>1, <1>2
  <2>5. after \in [Drivers -> Locals] BY <1>1, <1>2, <2>2, <2>3
  <2> QED BY <2>3, <2>4, <2>5
<1>4. driver' = [q \in Drivers |-> [after[q] EXCEPT !.fd = fds[q]]] BY <1>2
<1>5. ASSUME NEW q \in Drivers
      PROVE  /\ driver'[q] \in Locals /\ driver'[q].pc = after[q].pc
             /\ driver'[q].goal = after[q].goal /\ driver'[q].mem = after[q].mem
             /\ driver'[q].row = after[q].row /\ driver'[q].sets = after[q].sets
             /\ driver'[q].saved = after[q].saved /\ driver'[q].load = after[q].load
  <2>1. after[q] \in Locals /\ fds[q] \in {"none", "tmp", "json"} BY <1>3
  <2>2. driver'[q] = [after[q] EXCEPT !.fd = fds[q]] BY <1>4
  <2> QED BY <2>1, <2>2 DEF Locals
<1>6. driver' \in [Drivers -> Locals] BY <1>4, <1>5
<1>7. driver'[p].pc = "synced" BY <1>3, <1>5
<1>8. ASSUME NEW q \in Drivers
      PROVE  /\ driver'[q].goal = driver[q].goal /\ driver'[q].mem = driver[q].mem
             /\ driver'[q].row = driver[q].row /\ driver'[q].sets = driver[q].sets
             /\ driver'[q].saved = driver[q].saved /\ driver'[q].load = driver[q].load
             /\ q # p => driver'[q].pc = driver[q].pc
  BY <1>3, <1>5
<1> QED BY <1>6, <1>7, <1>8

LEMMA ReplaceStep ==
  ASSUME RowIInv, NEW p \in Drivers, Replace(p)
  PROVE  Kept(p)
<1>0. /\ driver[p].pc = "replace" /\ session' = [json |-> session.tmp, tmp |-> Missing]
      /\ driver' = [q \in Drivers |-> [[driver EXCEPT ![p].pc = "synced"][q] EXCEPT !.fd = Moved(@)]]
      /\ alone' = [q \in Drivers |-> alone[q] /\ q = p]
      /\ row' = row /\ holder' = holder /\ faults' = faults
  BY DEF Replace, At, Overtaking
<1>1. /\ driver' \in [Drivers -> Locals] /\ driver'[p].pc = "synced"
      /\ \A q \in Drivers :
              /\ driver'[q].goal = driver[q].goal /\ driver'[q].mem = driver[q].mem
              /\ driver'[q].row = driver[q].row /\ driver'[q].sets = driver[q].sets
              /\ driver'[q].saved = driver[q].saved /\ driver'[q].load = driver[q].load
              /\ q # p => driver'[q].pc = driver[q].pc
  <2>1. PICK fds : fds = [q \in Drivers |-> Moved([driver EXCEPT ![p].pc = "synced"][q].fd)] OBVIOUS
  <2>2. fds \in [Drivers -> {"none", "tmp", "json"}] BY <2>1 DEF Moved
  <2>3. driver' = [q \in Drivers |-> [[driver EXCEPT ![p].pc = "synced"][q] EXCEPT !.fd = fds[q]]]
    BY <1>0, <2>1
  <2> QED BY <2>2, <2>3, Moves
<1>2. /\ session' \in [{"json", "tmp"} -> Contents] /\ session'["json"] = session["tmp"]
      /\ session'["tmp"].kind = "none"
  <2>1. session'["json"] = session["tmp"] /\ session'["tmp"] = Missing BY <1>0
  <2>2. Missing \in Contents /\ session["tmp"] \in Contents /\ Missing.kind = "none" BY FirstTyped, Holds
  <2>3. session' \in [{"json", "tmp"} -> Contents] BY <1>0, <2>2
  <2> QED BY <2>1, <2>2, <2>3
<1>3. RowTypeOK'
  <2>1. alone' \in [Drivers -> BOOLEAN]
    <3>1. \A q \in Drivers : (alone[q] /\ q = p) \in BOOLEAN OBVIOUS
    <3> QED BY <1>0, <3>1
  <2> QED BY <1>0, <1>1, <1>2, <2>1, Holds DEF RowTypeOK
<1>4. Steps(p) BY <1>0, <1>1, <1>2 DEF Steps
<1>5. SavesUnderLock(p)' BY <1>0, <1>1, Holds DEF SavesUnderLock, Saving, Syncing
<1>6. AloneWrites(p)'
  <2>1. driver[p].pc = "replace" /\ row' = row /\ (alone'[p] => alone[p]) BY <1>0
  <2>2. AloneWrites(p) BY Holds
  <2>3. Whole(row)' = Whole(row) BY <2>1 DEF Whole, Projection
  <2> QED BY <1>1, <1>2, <2>1, <2>2, <2>3 DEF AloneWrites
<1> QED BY <1>3, <1>4, <1>5, <1>6 DEF Kept

LEMMA NameIsGoneStep ==
  ASSUME RowIInv, NEW p \in Drivers, NameIsGone(p)
  PROVE  Kept(p)
<1>0. /\ driver[p].pc = "replace" /\ session.tmp.kind = "none" /\ Go(p, [pc |-> "unlink"])
      /\ row' = row /\ session' = session /\ holder' = holder /\ alone' = alone /\ faults' = faults
  BY DEF NameIsGone, At
<1> HIDE DEF Go
<1>1. /\ driver'[p].pc = "unlink" /\ driver'[p].goal = driver[p].goal /\ driver'[p].mem = driver[p].mem
      /\ driver'[p].row = driver[p].row /\ driver'[p].sets = driver[p].sets /\ driver'[p].fd = driver[p].fd
      /\ driver'[p].saved = driver[p].saved /\ driver'[p].load = driver[p].load
  BY <1>0, Holds, GoIs
<1>2. ~alone[p] BY <1>0, Holds, FirstTyped DEF AloneWrites
<1>3. RowTypeOK'
  <2>1. /\ session' \in [{"json", "tmp"} -> Contents] /\ alone' \in [Drivers -> BOOLEAN]
        /\ faults' \in 0..MaxFaults /\ row' \in Rows
    BY <1>0, Holds DEF RowTypeOK
  <2>2. "unlink" \in SavePCs BY DEF SavePCs
  <2> QED BY <1>0, <1>1, <2>1, <2>2, Holds, GoTypes
<1>4. Steps(p) BY <1>0, <1>1, QuietStep
<1>5. SavesUnderLock(p)' BY <1>0, <1>1, Holds DEF SavesUnderLock, Saving, Syncing
<1>6. AloneWrites(p)' BY <1>0, <1>2 DEF AloneWrites
<1> QED BY <1>3, <1>4, <1>5, <1>6 DEF Kept

LEMMA WriteFailsStep ==
  ASSUME RowIInv, NEW p \in Drivers, WriteFails(p)
  PROVE  Kept(p)
<1>0. /\ driver[p].pc \in {"open", "fill", "replace"} /\ faults < MaxFaults /\ faults' = faults + 1
      /\ Go(p, [pc |-> "unlink", fd |-> "none"]) /\ alone' = [q \in Drivers |-> FALSE]
      /\ row' = row /\ session' = session /\ holder' = holder
  BY DEF WriteFails, NobodyAlone
<1> HIDE DEF Go
<1>1. /\ driver'[p].pc = "unlink" /\ driver'[p].goal = driver[p].goal /\ driver'[p].mem = driver[p].mem
      /\ driver'[p].row = driver[p].row /\ driver'[p].sets = driver[p].sets /\ driver'[p].fd = "none"
      /\ driver'[p].saved = driver[p].saved /\ driver'[p].load = driver[p].load
  BY <1>0, Holds, GoIs
<1>2. \A q \in Drivers : ~alone'[q] BY <1>0
<1>3. RowTypeOK'
  <2>1. session' \in [{"json", "tmp"} -> Contents] /\ alone' \in [Drivers -> BOOLEAN] /\ row' \in Rows
    BY <1>0, Holds DEF RowTypeOK
  <2>2. faults' \in 0..MaxFaults
    <3>1. faults \in 0..MaxFaults BY Holds DEF RowTypeOK
    <3> QED BY <1>0, <3>1, ProjectionAssumption
  <2>3. "unlink" \in SavePCs BY DEF SavePCs
  <2> QED BY <1>0, <1>1, <2>1, <2>2, <2>3, Holds, GoTypes
<1>4. Steps(p) BY <1>0, <1>1, <1>2, QuietStep
<1>5. SavesUnderLock(p)' BY <1>0, <1>1, Holds DEF SavesUnderLock, Saving, Syncing
<1>6. AloneWrites(p)' BY <1>2 DEF AloneWrites
<1> QED BY <1>3, <1>4, <1>5, <1>6 DEF Kept

LEMMA UnlinkStep ==
  ASSUME RowIInv, NEW p \in Drivers, Unlink(p)
  PROVE  Kept(p)
<1>0. /\ driver[p].pc = "unlink" /\ session' = [session EXCEPT !.tmp = Missing]
      /\ driver' = [q \in Drivers |->
                      [[driver EXCEPT ![p].pc = "synced"][q] EXCEPT !.fd = IF @ = "tmp" THEN "none" ELSE @]]
      /\ alone' = [q \in Drivers |-> alone[q] /\ q = p]
      /\ row' = row /\ holder' = holder /\ faults' = faults
  BY DEF Unlink, At, Overtaking
<1>1. /\ driver' \in [Drivers -> Locals] /\ driver'[p].pc = "synced"
      /\ \A q \in Drivers :
              /\ driver'[q].goal = driver[q].goal /\ driver'[q].mem = driver[q].mem
              /\ driver'[q].row = driver[q].row /\ driver'[q].sets = driver[q].sets
              /\ driver'[q].saved = driver[q].saved /\ driver'[q].load = driver[q].load
              /\ q # p => driver'[q].pc = driver[q].pc
  <2>1. PICK after : after = [driver EXCEPT ![p].pc = "synced"] OBVIOUS
  <2>2. PICK fds : fds = [q \in Drivers |-> IF after[q].fd = "tmp" THEN "none" ELSE after[q].fd] OBVIOUS
  <2>3. fds \in [Drivers -> {"none", "tmp", "json"}]
    <3>1. \A q \in Drivers : after[q].fd \in {"none", "tmp", "json"}
      <4>1. driver \in [Drivers -> Locals] BY Holds DEF RowTypeOK
      <4>2. \A q \in Drivers : driver[q].fd \in {"none", "tmp", "json"} BY Holds
      <4>3. ASSUME NEW q \in Drivers PROVE after[q].fd = driver[q].fd
        <5>1. CASE q = p
          <6>1. after[p] = [driver[p] EXCEPT !.pc = "synced"] /\ driver[p] \in Locals BY <2>1, <4>1
          <6> HIDE DEF SavePCs, Docs, Rows, Statuses
          <6> QED BY <5>1, <6>1 DEF Locals
        <5>2. CASE q # p BY <2>1, <4>1, <5>2
        <5> QED BY <5>1, <5>2
      <4> QED BY <4>2, <4>3
    <3> QED BY <2>2, <3>1
  <2>4. driver' = [q \in Drivers |-> [[driver EXCEPT ![p].pc = "synced"][q] EXCEPT !.fd = fds[q]]]
    BY <1>0, <2>1, <2>2
  <2> QED BY <2>3, <2>4, Moves
<1>2. /\ session' \in [{"json", "tmp"} -> Contents] /\ session'["json"] = session["json"]
      /\ session'["tmp"].kind = "none"
  <2>1. session \in [{"json", "tmp"} -> Contents] BY Holds DEF RowTypeOK
  <2> QED BY <1>0, <2>1, FirstTyped
<1>3. RowTypeOK'
  <2>1. alone' \in [Drivers -> BOOLEAN]
    <3>1. \A q \in Drivers : (alone[q] /\ q = p) \in BOOLEAN OBVIOUS
    <3> QED BY <1>0, <3>1
  <2> QED BY <1>0, <1>1, <1>2, <2>1, Holds DEF RowTypeOK
<1>4. Steps(p) BY <1>0, <1>1, <1>2 DEF Steps
<1>5. SavesUnderLock(p)' BY <1>0, <1>1, Holds DEF SavesUnderLock, Saving, Syncing
<1>6. AloneWrites(p)'
  <2>1. alone'[p] => alone[p] BY <1>0
  <2>2. ~alone[p] BY <1>0, Holds DEF AloneWrites
  <2> QED BY <2>1, <2>2 DEF AloneWrites
<1> QED BY <1>3, <1>4, <1>5, <1>6 DEF Kept

LEMMA SyncStep ==
  ASSUME RowIInv, NEW p \in Drivers, Sync(p)
  PROVE  Kept(p)
<1>0. /\ driver[p].pc = "synced" /\ row' = row /\ session' = session /\ alone' = alone /\ faults' = faults
  BY DEF Sync, At
<1>1. CASE ~driver[p].saved
  <2>1. Loaded(p) /\ holder' = holder BY <1>1 DEF Sync, Synced
  <2>2. alone[p] => session["json"] = Whole(row) BY <1>0, Holds DEF AloneWrites
  <2> QED BY <1>0, <1>1, <2>1, <2>2, LoadedStep
<1>2. CASE driver[p].saved
  <2>1. Saving(p) /\ holder = p /\ ~alone[p]
    BY <1>0, <1>2, Holds DEF SavesUnderLock, Saving, Syncing, AloneWrites
  <2>2. holder' = Nobody BY <1>2 DEF Sync, Synced, Release
  <2>3. PICK new :
          /\ Go(p, new)
          /\ \/ new = [pc |-> "work", fd |-> "none"] /\ driver[p].goal = "commit"
             \/ new = Gone
    BY <1>2 DEF Sync, Synced
  <2> HIDE DEF Go
  <2>4. /\ driver'[p].mem \in {driver[p].mem, FirstRow.doc} /\ driver'[p].row \in {driver[p].row, FirstRow}
        /\ driver'[p].sets \in Statuses /\ driver'[p].fd \in {"none", "tmp", "json"}
        /\ driver'[p].saved \in BOOLEAN /\ driver'[p].load \in {"none", "ok", "refused"}
        /\ \/ driver'[p].pc = "work" /\ driver'[p].goal = "commit"
           \/ driver'[p].pc = "idle" /\ driver'[p].goal = "none"
    <3>1. CASE new = [pc |-> "work", fd |-> "none"] /\ driver[p].goal = "commit"
      <4>1. /\ driver'[p].pc = "work" /\ driver'[p].goal = driver[p].goal /\ driver'[p].mem = driver[p].mem
            /\ driver'[p].row = driver[p].row /\ driver'[p].sets = driver[p].sets
            /\ driver'[p].fd = "none" /\ driver'[p].saved = driver[p].saved
            /\ driver'[p].load = driver[p].load
        BY <2>3, <3>1, Holds, GoIs
      <4> QED BY <3>1, <4>1, Holds
    <3>2. CASE new = Gone
      <4>1. Go(p, Gone) BY <2>3, <3>2
      <4> QED BY <4>1, Holds, GoneGo DEF Statuses
    <3> QED BY <2>3, <3>1, <3>2
  <2>5. RowTypeOK'
    <3>1. /\ session' \in [{"json", "tmp"} -> Contents] /\ alone' \in [Drivers -> BOOLEAN]
          /\ faults' \in 0..MaxFaults /\ row' \in Rows
      BY <1>0, Holds DEF RowTypeOK
    <3>2. /\ driver'[p].pc \in SavePCs /\ driver'[p].mem \in Docs /\ driver'[p].row \in Rows
          /\ driver'[p].goal \in {"none", "start", "resume", "commit", "finish"}
      BY <2>4, FirstTyped, Holds DEF SavePCs
    <3> QED BY <2>2, <2>3, <2>4, <3>1, <3>2, GoTypes
  <2>6. Steps(p)
    <3>1. /\ driver'[p].row \in {driver[p].row, row, FirstRow}
          /\ driver'[p].mem \in {driver[p].mem, driver[p].row.doc, FirstRow.doc}
      BY <2>4
    <3> QED BY <1>0, <2>1, <2>2, <2>3, <3>1, QuietStep
  <2>7. SavesUnderLock(p)' BY <2>4 DEF SavesUnderLock, Saving, Syncing
  <2>8. AloneWrites(p)' BY <1>0, <2>1 DEF AloneWrites
  <2> QED BY <2>5, <2>6, <2>7, <2>8 DEF Kept
<1> QED BY <1>1, <1>2

LEMMA DiesStep ==
  ASSUME RowIInv, NEW p \in Drivers, Dies(p)
  PROVE  Kept(p)
<1>0. /\ faults < MaxFaults /\ faults' = faults + 1 /\ holder' = IF holder = p THEN Nobody ELSE holder
      /\ Go(p, Gone) /\ row' = row /\ session' = session /\ alone' = alone
  BY DEF Dies
<1> HIDE DEF Go
<1>1. /\ driver'[p].pc = "idle" /\ driver'[p].goal = "none" /\ driver'[p].mem = FirstRow.doc
      /\ driver'[p].row = FirstRow /\ driver'[p].sets = "running" /\ driver'[p].fd = "none"
      /\ driver'[p].saved = FALSE /\ driver'[p].load = "none"
  BY <1>0, Holds, GoneGo
<1>3. RowTypeOK'
  <2>1. session' \in [{"json", "tmp"} -> Contents] /\ alone' \in [Drivers -> BOOLEAN] /\ row' \in Rows
    BY <1>0, Holds DEF RowTypeOK
  <2>2. faults' \in 0..MaxFaults
    <3>1. faults \in 0..MaxFaults BY Holds DEF RowTypeOK
    <3> QED BY <1>0, <3>1, ProjectionAssumption
  <2>3. "idle" \in SavePCs /\ "running" \in Statuses BY DEF SavePCs, Statuses
  <2>4. holder' \in {holder, p, Nobody} BY <1>0
  <2> QED BY <1>0, <1>1, <2>1, <2>2, <2>3, <2>4, FirstTyped, GoTypes
<1>4. Steps(p) BY <1>0, <1>1, QuietStep
<1>5. SavesUnderLock(p)' BY <1>1 DEF SavesUnderLock, Saving, Syncing
<1>6. AloneWrites(p)' BY <1>1 DEF AloneWrites
<1> QED BY <1>3, <1>4, <1>5, <1>6 DEF Kept

----------------------------------------------------------------------------
(* The invariant.                                                           *)

LEMMA InitInv ==
  ASSUME RowInit
  PROVE  RowIInv
<1>1. /\ row = FirstRow /\ session \in [json : {Missing, Whole(FirstRow)}, tmp : {Missing}]
      /\ holder = Nobody /\ alone = [p \in Drivers |-> FALSE] /\ faults = 0
      /\ driver = [p \in Drivers |-> IF p = First THEN [Gone EXCEPT !.pc = "get", !.goal = "start"] ELSE Gone]
  BY DEF RowInit
<1>2. /\ session["json"] \in {Missing, Whole(FirstRow)} /\ session["tmp"] = Missing
      /\ session \in [{"json", "tmp"} -> Contents]
  <2>1. PICK a \in {Missing, Whole(FirstRow)} : session = [json |-> a, tmp |-> Missing] BY <1>1
  <2>2. a \in Contents /\ Missing \in Contents BY FirstTyped
  <2> QED BY <2>1, <2>2
<1>3. ASSUME NEW p \in Drivers
      PROVE  /\ driver[p] \in Locals /\ driver[p].mem = FirstRow.doc /\ driver[p].row = FirstRow
             /\ \/ driver[p].pc = "get" /\ driver[p].goal = "start"
                \/ driver[p].pc = "idle" /\ driver[p].goal = "none"
  <2>1. PICK g : g = [Gone EXCEPT !.pc = "get", !.goal = "start"] OBVIOUS
  <2>2. /\ DOMAIN g = Fields /\ g.pc = "get" /\ g.goal = "start" /\ g.mem = FirstRow.doc /\ g.row = FirstRow
        /\ g.sets = "running" /\ g.fd = "none" /\ g.saved = FALSE /\ g.load = "none"
    BY <2>1, GoneIs DEF Fields
  <2>3. driver[p] = g \/ driver[p] = Gone BY <1>1, <2>1
  <2>4. /\ driver[p].mem = FirstRow.doc /\ driver[p].row = FirstRow
        /\ driver[p].sets = "running" /\ driver[p].fd = "none" /\ driver[p].saved = FALSE
        /\ driver[p].load = "none"
        /\ \/ driver[p].pc = "get" /\ driver[p].goal = "start"
           \/ driver[p].pc = "idle" /\ driver[p].goal = "none"
    BY <2>2, <2>3, GoneIs
  <2>5. driver[p] = [x \in Fields |-> driver[p][x]]
    <3>1. g = [x \in Fields |-> g[x]] BY <2>1, <2>2 DEF Gone, Fields
    <3>2. Gone = [x \in Fields |-> Gone[x]] BY DEF Gone, Fields
    <3> QED BY <2>3, <3>1, <3>2
  <2>6. FirstRow \in Rows /\ FirstRow.doc \in Docs BY FirstTyped
  <2>7. driver[p] \in Locals
    <3>1. driver[p].pc \in SavePCs BY <2>4 DEF SavePCs
    <3>2. driver[p].sets \in Statuses BY <2>4 DEF Statuses
    <3> HIDE DEF SavePCs, Docs, Rows, Statuses
    <3> QED BY <2>4, <2>5, <2>6, <3>1, <3>2 DEF Locals, Fields
  <2> QED BY <2>4, <2>7
<1>4. RowTypeOK
  <2>1. driver \in [Drivers -> Locals]
    <3>1. DOMAIN driver = Drivers /\ driver = [p \in Drivers |-> driver[p]] BY <1>1
    <3> QED BY <1>3, <3>1
  <2>2. alone \in [Drivers -> BOOLEAN] BY <1>1
  <2>3. faults \in 0..MaxFaults BY <1>1, ProjectionAssumption
  <2>4. row \in Rows BY <1>1, FirstTyped
  <2> QED BY <1>1, <1>2, <2>1, <2>2, <2>3, <2>4 DEF RowTypeOK
<1>5. HistoryKept
  <2>1. Had(FirstRow) BY <1>1, FirstTyped DEF Had
  <2>2. ASSUME NEW p \in Drivers
        PROVE  Had(driver[p].row) /\ Had([rev |-> driver[p].mem.rev, doc |-> driver[p].mem])
    BY <1>1, <1>3, <2>1, FirstTyped DEF Had
  <2>3. ASSUME NEW name \in {"json", "tmp"}, session[name].kind = "whole" PROVE Had(session[name].shows)
    <3>1. session[name] = Whole(FirstRow) BY <1>2, <2>3, FirstTyped
    <3> QED BY <1>1, <2>1, <3>1, FirstTyped DEF Had
  <2> QED BY <1>1, <2>1, <2>2, <2>3 DEF HistoryKept
<1>6. ASSUME NEW p \in Drivers PROVE SavesUnderLock(p) /\ AloneWrites(p)
  <2>1. ~alone[p] BY <1>1
  <2>2. SavesUnderLock(p) BY <1>3 DEF SavesUnderLock, Saving, Syncing
  <2> QED BY <2>1, <2>2 DEF AloneWrites
<1> QED BY <1>4, <1>5, <1>6 DEF RowIInv

LEMMA StepInv ==
  ASSUME RowIInv, [RowNext]_pvars
  PROVE  RowIInv'
<1>1. CASE RowNext
  <2>1. PICK p \in Drivers : Step(p) BY <1>1 DEF RowNext
  <2>2. Kept(p)
    BY <2>1, ResumeStep, CommitStep, FinishStep, ReconcileStep, GetStep, ReadStep, MarkStep, SelectStep,
       UpdateStep, OpenStep, FillStep, ReplaceStep, NameIsGoneStep, WriteFailsStep, UnlinkStep, SyncStep,
       DiesStep
    DEF Step
  <2>3. HistoryKept' BY <2>2, HistoryStep DEF Kept
  <2>4. ASSUME NEW q \in Drivers PROVE SavesUnderLock(q)' /\ AloneWrites(q)'
    <3>1. CASE q = p BY <2>2, <3>1 DEF Kept
    <3>2. CASE q # p BY <2>2, <3>2, Holds, OthersStep DEF Kept
    <3> QED BY <3>1, <3>2
  <2> QED BY <2>2, <2>3, <2>4 DEF RowIInv, Kept
<1>2. CASE UNCHANGED pvars
  <2>1. UNCHANGED <<row, session, holder, driver, alone, faults>> BY <1>2 DEF pvars
  <2>2. RowTypeOK' BY <2>1 DEF RowIInv, RowTypeOK
  <2>3. HistoryKept' BY <2>1 DEF RowIInv, HistoryKept, Had
  <2>4. ASSUME NEW q \in Drivers PROVE SavesUnderLock(q)' /\ AloneWrites(q)'
    BY <2>1, Holds DEF SavesUnderLock, AloneWrites, Saving, Whole, Projection
  <2> QED BY <2>2, <2>3, <2>4 DEF RowIInv
<1> QED BY <1>1, <1>2

(* The inductive invariant of the row and its projection: what processes and *)
(* files hold the row has had, a save holds the lock from the SELECT on, and *)
(* a load that nobody overtakes works on the row as it is.                   *)
THEOREM ProjectionInvariant == RowSpec => []RowIInv
<1>1. RowInit => RowIInv BY InitInv
<1>2. RowIInv /\ [RowNext]_pvars => RowIInv' BY StepInv
<1> QED BY <1>1, <1>2, PTL DEF RowSpec

(* run.json never shows what the row has not had, and a load that nobody      *)
(* overtakes is not refused and leaves the projection of the row             *)
(* (RunStateStore.load, _sync_projection).                                   *)
THEOREM ProjectionNeverAhead == RowSpec => []ProjectionFollowsRow
<1>1. RowIInv => ProjectionFollowsRow
  <2> SUFFICES ASSUME RowIInv PROVE ProjectionFollowsRow OBVIOUS
  <2>1. HistoryKept /\ \A p \in Drivers : AloneWrites(p) BY DEF RowIInv
  <2>2. \A name \in {"json", "tmp"} :
          session[name].kind = "whole" =>
            /\ session[name].shows.rev <= row.rev
            /\ session[name].shows.rev = row.rev => session[name].shows.doc = row.doc
    BY <2>1 DEF HistoryKept, Had
  <2>3. \A p \in Drivers :
          alone[p] => driver[p].load # "refused" /\ (driver[p].load = "ok" => session.json = Whole(row))
    BY <2>1 DEF AloneWrites
  <2> QED BY <2>2, <2>3 DEF ProjectionFollowsRow
<1> QED BY <1>1, ProjectionInvariant, PTL

(* No commit is lost: the revision goes up by one, and what is written goes   *)
(* on from the document that was there (RunsRepository.update's SELECT and   *)
(* UPDATE are two statements, and the lock is held from one to the other).   *)
THEOREM NoCommitIsLost == RowSpec => CommitsFollow
<1> DEFINE Follows == row'.rev # row.rev =>
         row'.rev = row.rev + 1 /\ \E p \in Drivers : At(p, "update") /\ driver[p].mem = row.doc
<1>1. RowIInv /\ [RowNext]_pvars => [Follows]_pvars
  <2> SUFFICES ASSUME RowIInv, RowNext PROVE Follows BY DEF pvars
  <2>1. PICK p \in Drivers : Step(p) BY DEF RowNext
  <2>2. Kept(p)
    BY <2>1, ResumeStep, CommitStep, FinishStep, ReconcileStep, GetStep, ReadStep, MarkStep, SelectStep,
       UpdateStep, OpenStep, FillStep, ReplaceStep, NameIsGoneStep, WriteFailsStep, UnlinkStep, SyncStep,
       DiesStep
    DEF Step
  <2>3. \/ row'.rev = row.rev
        \/ driver[p].pc = "update" /\ row'.rev = row.rev + 1
    BY <2>2 DEF Kept, Steps
  <2>4. driver[p].pc = "update" => driver[p].mem = row.doc
    BY Holds DEF SavesUnderLock, HistoryKept, Had
  <2> QED BY <2>3, <2>4 DEF At
<1> HIDE DEF Follows
<1>2. RowSpec => [][Follows]_pvars BY <1>1, ProjectionInvariant, PTL DEF RowSpec
<1> QED BY <1>2 DEF Follows, CommitsFollow

(***************************************************************************)
(* One artifact: its bundle and its row.                                    *)
(***************************************************************************)

(* What the types say of single fields.                                     *)
LEMMA ArtifactFields ==
  ASSUME ArtifactTypeOK
  PROVE  /\ published \in Nat /\ published <= MaxVersions /\ Versions \subseteq 0..Corrupt /\ 0 \in Versions
         /\ pub.gen \in Versions /\ pub.expires \in Nat /\ pub.opened \in Versions /\ pub.alone \in BOOLEAN
         /\ prune.gen \in Versions /\ prune.expires \in Nat /\ prune.opened \in Versions /\ prune.alone \in BOOLEAN
         /\ record.gen \in Versions /\ bundle.gen \in Versions
         /\ \A e \in Entries : bundle.has[e] \in 0..Corrupt
         /\ down \in Readers
BY ArtifactAssumption DEF ArtifactTypeOK, Versions, Bundles, Workers, Corrupt

(* The steps of several runs and of their pruning, one case for each action.*)
LEMMA ArtifactStep == ASSUME ArtifactIInv, ArtifactNext PROVE ArtifactIInv'
<1> USE ArtifactAssumption, ArtifactFields DEF ArtifactIInv
(* The reader changes nothing but what it has read.                         *)
<1>r. ASSUME UNCHANGED <<bundle, record, today, pub, prune, published, blurred, mishaps>>,
             down' \in Readers, OneBundleRead'
      PROVE  ArtifactIInv'
  <2> USE <1>r
  <2>1. ArtifactTypeOK' BY DEF ArtifactTypeOK, Versions, Bundles, Workers
  <2>2. NothingInNoBundle' /\ MeetingsNoticed' BY DEF NothingInNoBundle, MeetingsNoticed
  <2>3. TruthUntouched' BY DEF TruthUntouched, Truth
  <2>4. PubInHand' /\ PruneInHand' BY DEF PubInHand, PruneInHand, Expired
  <2> QED BY ONLY <1>r, <2>1, <2>2, <2>3, <2>4 DEF ArtifactIInv
<1>1. CASE Publish
  <2> USE <1>1 DEF Publish, ExpiresAt, Idle
  <2>1. ArtifactTypeOK'
    <3> USE DEF ArtifactTypeOK, Versions
    <3>1. /\ published' \in 0..MaxVersions /\ today' \in Nat
          /\ blurred' \in BOOLEAN /\ mishaps' \in Nat
      OBVIOUS
    <3>2. record' \in [gen : Versions', expires : Nat] OBVIOUS
    <3>3. bundle' \in Bundles' BY DEF Bundles
    <3>4. pub' \in Workers(PubPCs)' BY DEF PubPCs, Workers
    <3>5. prune' \in Workers(PrunePCs)'
      <4>1. prune.gen \in 0..published' /\ prune.opened \in 0..published' OBVIOUS
      <4>2. prune' = [prune EXCEPT !.alone = FALSE] OBVIOUS
      <4> QED BY <4>1, <4>2 DEF PubPCs, Workers
    <3>6. down' \in Readers BY DEF Entries
    <3> QED BY ONLY <3>1, <3>2, <3>3, <3>4, <3>5, <3>6 DEF ArtifactTypeOK
  <2>2. NothingInNoBundle' BY DEF NothingInNoBundle
  <2>3. MeetingsNoticed'
    <3>1. prune'.pc = prune.pc /\ (prune'.alone = FALSE) BY DEF ArtifactTypeOK
    <3>2. PICK retention \in {0, 1} :
            pub' = [pc |-> "copy", gen |-> published', expires |-> ExpiresAt(retention), opened |-> 0,
                    alone |-> prune.pc = "idle"]
      OBVIOUS
    <3>3. pub'.alone = (prune.pc = "idle") BY ONLY <3>2, Zenon
    <3> QED BY ONLY <3>1, <3>3 DEF MeetingsNoticed
  <2>4. TruthUntouched' BY DEF TruthUntouched, Truth
  <2>5. PubInHand' BY DEF PubInHand, ArtifactTypeOK
  <2>6. PruneInHand' BY DEF PruneInHand
  <2>7. OneBundleRead' BY DEF OneBundleRead
  <2> QED BY ONLY <2>1, <2>2, <2>3, <2>4, <2>5, <2>6, <2>7 DEF ArtifactIInv
<1>2. CASE CopyFiles
  <2> USE <1>2 DEF CopyFiles, Idle
  <2>1. ArtifactTypeOK'
    <3> USE DEF ArtifactTypeOK, Versions
    <3>1. /\ published' \in 0..MaxVersions /\ today' \in Nat
          /\ blurred' \in BOOLEAN /\ mishaps' \in Nat
      OBVIOUS
    <3>2. record' \in [gen : Versions', expires : Nat] OBVIOUS
    <3>3. bundle' \in Bundles' BY DEF Bundles
    <3>4. pub' \in Workers(PubPCs)'
      <4>1. CASE pub' = Idle BY <4>1 DEF PubPCs, Workers
      <4>2. CASE pub' = [pub EXCEPT !.pc = IF bundle.there THEN "removing" ELSE "place", !.opened = bundle.gen]
        BY <4>2 DEF PubPCs, Workers
      <4> QED BY <4>1, <4>2
    <3>5. prune' \in Workers(PrunePCs)' BY DEF PubPCs, Workers
    <3>6. down' \in Readers BY DEF Entries
    <3> QED BY ONLY <3>1, <3>2, <3>3, <3>4, <3>5, <3>6 DEF ArtifactTypeOK
  <2>2. NothingInNoBundle' BY DEF NothingInNoBundle
  <2>3. MeetingsNoticed'
    <3>1. CASE pub' = Idle BY <3>1 DEF MeetingsNoticed
    <3>2. CASE pub' = [pub EXCEPT !.pc = IF bundle.there THEN "removing" ELSE "place", !.opened = bundle.gen]
      <4>1. pub'.alone = pub.alone BY <3>2 DEF ArtifactTypeOK
      <4> QED BY <4>1 DEF MeetingsNoticed
    <3> QED BY <3>1, <3>2
  <2>4. TruthUntouched' BY DEF TruthUntouched, Truth
  <2>5. PubInHand'
    <3>1. CASE pub' = Idle BY <3>1 DEF PubInHand
    <3>2. CASE pub' = [pub EXCEPT !.pc = IF bundle.there THEN "removing" ELSE "place", !.opened = bundle.gen]
      <4>1. pub'.gen = pub.gen /\ pub'.pc # "create" /\ (pub'.pc = "place" => ~bundle.there)
        BY <3>2 DEF ArtifactTypeOK, Workers
      <4> QED BY <4>1 DEF PubInHand
    <3> QED BY <3>1, <3>2
  <2>6. PruneInHand' BY DEF PruneInHand, Expired
  <2>7. OneBundleRead' BY DEF OneBundleRead
  <2> QED BY ONLY <2>1, <2>2, <2>3, <2>4, <2>5, <2>6, <2>7 DEF ArtifactIInv
<1>3. CASE Place
  <2> USE <1>3 DEF Place, Idle, Bundle
  <2>1. ArtifactTypeOK'
    <3> USE DEF ArtifactTypeOK, Versions
    <3>1. /\ published' \in 0..MaxVersions /\ today' \in Nat
          /\ blurred' \in BOOLEAN /\ mishaps' \in Nat
      OBVIOUS
    <3>2. record' \in [gen : Versions', expires : Nat] OBVIOUS
    <3>3. bundle' \in Bundles'
      <4>1. Bundle(pub) \in Bundles BY DEF Bundles
      <4> QED BY <4>1 DEF Bundles
    <3>4. pub' \in Workers(PubPCs)'
      <4>1. pub' = Idle \/ pub' = [pub EXCEPT !.pc = "create"] OBVIOUS
      <4>2. Idle \in Workers(PubPCs) BY DEF PubPCs, Workers
      <4>3. [pub EXCEPT !.pc = "create"] \in Workers(PubPCs) BY DEF PubPCs, Workers
      <4> QED BY ONLY <4>1, <4>2, <4>3, published' = published DEF PubPCs, Workers
    <3>5. prune' \in Workers(PrunePCs)' BY DEF Workers
    <3>6. down' \in Readers BY DEF Readers, Entries
    <3> QED BY ONLY <3>1, <3>2, <3>3, <3>4, <3>5, <3>6 DEF ArtifactTypeOK
  <2>2. NothingInNoBundle' BY DEF NothingInNoBundle
  <2>3. MeetingsNoticed' BY DEF MeetingsNoticed, ArtifactTypeOK, Workers
  <2>4. TruthUntouched' BY DEF TruthUntouched, Truth, ArtifactTypeOK, Workers
  <2>5. PubInHand' BY DEF PubInHand, ArtifactTypeOK, NothingInNoBundle, Workers
  <2>6. PruneInHand' BY DEF PruneInHand, ArtifactTypeOK, MeetingsNoticed, Bundle
  <2>7. OneBundleRead'
    <3>1. CASE UNCHANGED <<bundle, down>> BY <3>1 DEF OneBundleRead
    <3>2. CASE down' = [down EXCEPT !.overtaken = TRUE] BY <3>2 DEF OneBundleRead
    <3> QED BY <3>1, <3>2
  <2> QED BY ONLY <2>1, <2>2, <2>3, <2>4, <2>5, <2>6, <2>7 DEF ArtifactIInv
<1>4. CASE CreateRecord
  <2> USE <1>4 DEF CreateRecord, Idle
  <2>1. ArtifactTypeOK'
    <3> USE DEF ArtifactTypeOK, Versions
    <3>1. /\ published' \in 0..MaxVersions /\ today' \in Nat
          /\ blurred' \in BOOLEAN /\ mishaps' \in Nat
      OBVIOUS
    <3>2. record' \in [gen : Versions', expires : Nat] OBVIOUS
    <3>3. bundle' \in Bundles' BY DEF Bundles
    <3>4. pub' \in Workers(PubPCs)' BY DEF PubPCs, Workers
    <3>5. prune' \in Workers(PrunePCs)' BY DEF PubPCs, Workers
    <3>6. down' \in Readers BY DEF Entries
    <3> QED BY ONLY <3>1, <3>2, <3>3, <3>4, <3>5, <3>6 DEF ArtifactTypeOK
  <2>2. NothingInNoBundle' BY DEF NothingInNoBundle
  <2>3. MeetingsNoticed' BY DEF MeetingsNoticed
  <2>4. TruthUntouched' BY DEF TruthUntouched, Truth, PubInHand, Bundle
  <2>5. PubInHand' BY DEF PubInHand, ArtifactTypeOK, NoBundle
  <2>6. PruneInHand' BY DEF PruneInHand, MeetingsNoticed
  <2>7. OneBundleRead' BY DEF OneBundleRead, Files
  <2> QED BY ONLY <2>1, <2>2, <2>3, <2>4, <2>5, <2>6, <2>7 DEF ArtifactIInv
<1>5. CASE Prune
  <2> USE <1>5 DEF Prune, Expired, Idle
  <2>1. ArtifactTypeOK'
    <3> USE DEF ArtifactTypeOK, Versions
    <3>1. /\ published' \in 0..MaxVersions /\ today' \in Nat
          /\ blurred' \in BOOLEAN /\ mishaps' \in Nat
      OBVIOUS
    <3>2. record' \in [gen : Versions', expires : Nat] OBVIOUS
    <3>3. bundle' \in Bundles' BY DEF Bundles
    <3>4. pub' \in Workers(PubPCs)' BY DEF PubPCs, Workers
    <3>5. prune' \in Workers(PrunePCs)' BY DEF PrunePCs, Workers
    <3>6. down' \in Readers BY DEF Bundles, Entries
    <3> QED BY ONLY <3>1, <3>2, <3>3, <3>4, <3>5, <3>6 DEF ArtifactTypeOK
  <2>2. NothingInNoBundle' BY DEF NothingInNoBundle
  <2>3. MeetingsNoticed' BY DEF MeetingsNoticed, ArtifactTypeOK, Workers
  <2>4. TruthUntouched' BY DEF TruthUntouched, Truth, ArtifactTypeOK
  <2>5. PubInHand' BY DEF PubInHand, ArtifactTypeOK
  <2>6. PruneInHand' BY DEF PruneInHand
  <2>7. OneBundleRead' BY DEF OneBundleRead
  <2> QED BY ONLY <2>1, <2>2, <2>3, <2>4, <2>5, <2>6, <2>7 DEF ArtifactIInv
<1>6. CASE Look
  <2> USE <1>6 DEF Look
  <2>1. ArtifactTypeOK'
    <3> USE DEF ArtifactTypeOK, Versions
    <3>1. /\ published' \in 0..MaxVersions /\ today' \in Nat
          /\ blurred' \in BOOLEAN /\ mishaps' \in Nat
      OBVIOUS
    <3>2. record' \in [gen : Versions', expires : Nat] OBVIOUS
    <3>3. bundle' \in Bundles' BY DEF Bundles
    <3>4. pub' \in Workers(PubPCs)' BY DEF PubPCs, Workers
    <3>5. prune' \in Workers(PrunePCs)' BY DEF PrunePCs, Workers
    <3>6. down' \in Readers BY DEF Bundles, Entries
    <3> QED BY ONLY <3>1, <3>2, <3>3, <3>4, <3>5, <3>6 DEF ArtifactTypeOK
  <2>2. NothingInNoBundle' BY DEF NothingInNoBundle
  <2>3. MeetingsNoticed' BY DEF MeetingsNoticed
  <2>4. TruthUntouched' BY DEF TruthUntouched
  <2>5. PubInHand' BY DEF PubInHand
  <2>6. PruneInHand' BY DEF PruneInHand, MeetingsNoticed, TruthUntouched, Truth, Bundle, Expired
  <2>7. OneBundleRead' BY DEF OneBundleRead, Files, Entries, Corrupt
  <2> QED BY ONLY <2>1, <2>2, <2>3, <2>4, <2>5, <2>6, <2>7 DEF ArtifactIInv
<1>7. CASE DeleteRecord
  <2> USE <1>7 DEF DeleteRecord, NoRecord, Idle
  <2>1. ArtifactTypeOK'
    <3> USE DEF ArtifactTypeOK, Versions
    <3>1. /\ published' \in 0..MaxVersions /\ today' \in Nat
          /\ blurred' \in BOOLEAN /\ mishaps' \in Nat
      OBVIOUS
    <3>2. record' \in [gen : Versions', expires : Nat] OBVIOUS
    <3>3. bundle' \in Bundles' BY DEF Bundles
    <3>4. pub' \in Workers(PubPCs)' BY DEF PubPCs, Workers
    <3>5. prune' \in Workers(PrunePCs)' BY DEF PrunePCs, Workers
    <3>6. down' \in Readers BY DEF Bundles, Entries
    <3> QED BY ONLY <3>1, <3>2, <3>3, <3>4, <3>5, <3>6 DEF ArtifactTypeOK
  <2>2. NothingInNoBundle' BY DEF NothingInNoBundle
  <2>3. MeetingsNoticed' BY DEF MeetingsNoticed
  <2>4. TruthUntouched' BY DEF TruthUntouched, Truth, PruneInHand
  <2>5. PubInHand' BY DEF PubInHand, ArtifactTypeOK, Bundle
  <2>6. PruneInHand' BY DEF PruneInHand
  <2>7. OneBundleRead' BY DEF OneBundleRead
  <2> QED BY ONLY <2>1, <2>2, <2>3, <2>4, <2>5, <2>6, <2>7 DEF ArtifactIInv
<1>8. CASE RemoveEntry(pub)
  <2> USE <1>8 DEF RemoveEntry, Removable
  <2>1. ArtifactTypeOK'
    <3> USE DEF ArtifactTypeOK, Versions
    <3>1. /\ published' \in 0..MaxVersions /\ today' \in Nat
          /\ blurred' \in BOOLEAN /\ mishaps' \in Nat
      OBVIOUS
    <3>2. record' \in [gen : Versions', expires : Nat] OBVIOUS
    <3>3. bundle' \in Bundles' BY DEF Bundles
    <3>4. pub' \in Workers(PubPCs)' BY DEF PubPCs, Workers
    <3>5. prune' \in Workers(PrunePCs)' BY DEF Workers
    <3>6. down' \in Readers BY DEF Entries
    <3> QED BY ONLY <3>1, <3>2, <3>3, <3>4, <3>5, <3>6 DEF ArtifactTypeOK
  <2>2. NothingInNoBundle' BY DEF NothingInNoBundle
  <2>3. MeetingsNoticed' BY DEF MeetingsNoticed
  <2>4. TruthUntouched' BY DEF TruthUntouched
  <2>5. PubInHand' BY DEF PubInHand
  <2>6. PruneInHand' BY DEF PruneInHand, Expired
  <2>7. OneBundleRead' BY DEF OneBundleRead
  <2> QED BY ONLY <2>1, <2>2, <2>3, <2>4, <2>5, <2>6, <2>7 DEF ArtifactIInv
<1>9. CASE RemoveEntry(prune)
  <2> USE <1>9 DEF RemoveEntry, Removable
  <2>1. ArtifactTypeOK'
    <3> USE DEF ArtifactTypeOK, Versions
    <3>1. /\ published' \in 0..MaxVersions /\ today' \in Nat
          /\ blurred' \in BOOLEAN /\ mishaps' \in Nat
      OBVIOUS
    <3>2. record' \in [gen : Versions', expires : Nat] OBVIOUS
    <3>3. bundle' \in Bundles' BY DEF Bundles
    <3>4. pub' \in Workers(PubPCs)' BY DEF PubPCs, Workers
    <3>5. prune' \in Workers(PrunePCs)' BY DEF Workers
    <3>6. down' \in Readers BY DEF Entries
    <3> QED BY ONLY <3>1, <3>2, <3>3, <3>4, <3>5, <3>6 DEF ArtifactTypeOK
  <2>2. NothingInNoBundle' BY DEF NothingInNoBundle
  <2>3. MeetingsNoticed' BY DEF MeetingsNoticed
  <2>4. TruthUntouched' BY DEF TruthUntouched
  <2>5. PubInHand' BY DEF PubInHand, MeetingsNoticed
  <2>6. PruneInHand' BY DEF PruneInHand, MeetingsNoticed
  <2>7. OneBundleRead' BY DEF OneBundleRead
  <2> QED BY ONLY <2>1, <2>2, <2>3, <2>4, <2>5, <2>6, <2>7 DEF ArtifactIInv
<1>10. CASE PubRemoved
  <2> USE <1>10 DEF PubRemoved, Emptied, Removable, NoBundle, Idle
  <2>1. ArtifactTypeOK'
    <3> USE DEF ArtifactTypeOK, Versions
    <3>1. /\ published' \in 0..MaxVersions /\ today' \in Nat
          /\ blurred' \in BOOLEAN /\ mishaps' \in Nat
      OBVIOUS
    <3>2. record' \in [gen : Versions', expires : Nat] OBVIOUS
    <3>3. bundle' \in Bundles'
      <4>1. NoBundle \in Bundles BY DEF Bundles
      <4>2. bundle' = bundle \/ bundle' = NoBundle OBVIOUS
      <4> QED BY <4>1, <4>2 DEF Bundles
    <3>4. pub' \in Workers(PubPCs)'
      <4>1. pub' = Idle \/ pub' = [pub EXCEPT !.pc = "place"] OBVIOUS
      <4>2. Idle \in Workers(PubPCs) BY DEF PubPCs, Workers
      <4>3. [pub EXCEPT !.pc = "place"] \in Workers(PubPCs) BY DEF PubPCs, Workers
      <4> QED BY ONLY <4>1, <4>2, <4>3, published' = published DEF PubPCs, Workers
    <3>5. prune' \in Workers(PrunePCs)' BY DEF Workers
    <3>6. down' \in Readers BY DEF Entries
    <3> QED BY ONLY <3>1, <3>2, <3>3, <3>4, <3>5, <3>6 DEF ArtifactTypeOK
  <2>2. NothingInNoBundle' BY DEF NothingInNoBundle
  <2>3. MeetingsNoticed' BY DEF MeetingsNoticed, ArtifactTypeOK, Workers
  <2>4. TruthUntouched' BY DEF TruthUntouched, Truth, ArtifactTypeOK, Workers
  <2>5. PubInHand' BY DEF PubInHand, ArtifactTypeOK, NothingInNoBundle, Workers
  <2>6. PruneInHand' BY DEF PruneInHand, ArtifactTypeOK, MeetingsNoticed, Bundle
  <2>7. OneBundleRead' BY DEF OneBundleRead, Files, Entries
  <2> QED BY ONLY <2>1, <2>2, <2>3, <2>4, <2>5, <2>6, <2>7 DEF ArtifactIInv
<1>11. CASE PruneRemoved
  <2> USE <1>11 DEF PruneRemoved, Emptied, Removable, NoBundle, Idle
  <2>1. ArtifactTypeOK'
    <3> USE DEF ArtifactTypeOK, Versions
    <3>1. /\ published' \in 0..MaxVersions /\ today' \in Nat
          /\ blurred' \in BOOLEAN /\ mishaps' \in Nat
      OBVIOUS
    <3>2. record' \in [gen : Versions', expires : Nat] OBVIOUS
    <3>3. bundle' \in Bundles'
      <4>1. NoBundle \in Bundles BY DEF Bundles
      <4>2. bundle' = bundle \/ bundle' = NoBundle OBVIOUS
      <4> QED BY <4>1, <4>2 DEF Bundles
    <3>4. pub' \in Workers(PubPCs)' BY DEF PubPCs, Workers
    <3>5. prune' \in Workers(PrunePCs)'
      <4>1. prune' = Idle \/ prune' = [prune EXCEPT !.pc = "delete"] OBVIOUS
      <4>2. Idle \in Workers(PrunePCs) BY DEF PrunePCs, Workers
      <4>3. [prune EXCEPT !.pc = "delete"] \in Workers(PrunePCs) BY DEF PrunePCs, Workers
      <4> QED BY ONLY <4>1, <4>2, <4>3, published' = published DEF PrunePCs, Workers
    <3>6. down' \in Readers BY DEF Entries
    <3> QED BY ONLY <3>1, <3>2, <3>3, <3>4, <3>5, <3>6 DEF ArtifactTypeOK
  <2>2. NothingInNoBundle' BY DEF NothingInNoBundle
  <2>3. MeetingsNoticed' BY DEF MeetingsNoticed, ArtifactTypeOK, Workers
  <2>4. TruthUntouched' BY DEF TruthUntouched, Truth, ArtifactTypeOK, Workers
  <2>5. PubInHand' BY DEF PubInHand, NothingInNoBundle, MeetingsNoticed
  <2>6. PruneInHand' BY DEF PruneInHand, ArtifactTypeOK, MeetingsNoticed, Workers
  <2>7. OneBundleRead' BY DEF OneBundleRead, ArtifactTypeOK, Entries
  <2> QED BY ONLY <2>1, <2>2, <2>3, <2>4, <2>5, <2>6, <2>7 DEF ArtifactIInv
<1>12. CASE Download
  <2> USE <1>12 DEF Download
  <2>1. down' \in Readers
    BY DEF Unread, Readers
  <2>2. OneBundleRead'
    BY DEF OneBundleRead, Unread
  <2> QED BY <1>r, <2>1, <2>2
<1>13. CASE ReadManifest
  <2> USE <1>13 DEF ReadManifest
  <2>1. down' \in Readers
    BY DEF Unread, Readers, Entries
  <2>2. OneBundleRead'
    <3>1. CASE bundle.has["manifest"] \in {0, Corrupt} BY <3>1 DEF OneBundleRead, Unread
    <3>2. CASE bundle.has["manifest"] \notin {0, Corrupt}
      <4>1. down' = [down EXCEPT !.pc = "verify", !.gen = bundle.has["manifest"], !.overtaken = FALSE] BY <3>2
      <4>2. bundle.has["manifest"] \in 1..MaxVersions BY <3>2 DEF Entries, Corrupt
      <4>3. down'.pc = "verify" /\ down'.gen = bundle.has["manifest"] /\ down'.todo = down.todo
        BY <4>1 DEF Readers
      <4> QED BY <4>2, <4>3 DEF OneBundleRead
    <3> QED BY <3>1, <3>2
  <2> QED BY <1>r, <2>1, <2>2
<1>14. CASE Verify
  <2> USE <1>14 DEF Verify
  <2>1. down' \in Readers
    <3>1. PICK f \in down.todo :
            down' = IF ~Matches(f) THEN Unread
                    ELSE IF down.todo = {f} THEN [down EXCEPT !.pc = "extract", !.todo = Files]
                    ELSE [down EXCEPT !.todo = @ \ {f}]
      OBVIOUS
    <3> QED BY <3>1 DEF Unread, Readers
  <2>2. OneBundleRead'
    BY DEF OneBundleRead, Matches, Unread
  <2> QED BY <1>r, <2>1, <2>2
<1>15. CASE Extract
  <2> USE <1>15 DEF Extract
  <2>1. down' \in Readers
    <3>1. PICK f \in down.todo :
            down' = IF bundle.has[f] = 0 THEN Unread
                    ELSE [down EXCEPT !.pc = IF down.todo = {f} THEN "ok" ELSE "extract",
                                      !.todo = @ \ {f}, !.got[f] = bundle.has[f]]
      OBVIOUS
    <3>2. f \in Entries /\ f \in Files BY DEF Readers, Entries
    <3> QED BY <3>1, <3>2 DEF Unread, Readers
  <2>2. OneBundleRead'
    BY DEF OneBundleRead, Unread, Readers
  <2> QED BY <1>r, <2>1, <2>2
<1>16. CASE Downloaded
  <2> USE <1>16 DEF Downloaded
  <2>1. down' \in Readers
    BY DEF Unread, Readers, Files
  <2>2. OneBundleRead'
    BY DEF OneBundleRead, Unread
  <2> QED BY <1>r, <2>1, <2>2
<1>17. CASE PubBreaksOff
  <2> USE <1>17 DEF PubBreaksOff, Mishap, Idle
  <2>1. ArtifactTypeOK'
    <3> USE DEF ArtifactTypeOK, Versions
    <3>1. /\ published' \in 0..MaxVersions /\ today' \in Nat
          /\ blurred' \in BOOLEAN /\ mishaps' \in Nat
      OBVIOUS
    <3>2. record' \in [gen : Versions', expires : Nat] OBVIOUS
    <3>3. bundle' \in Bundles' BY DEF Bundles
    <3>4. pub' \in Workers(PubPCs)' BY DEF PubPCs, Workers
    <3>5. prune' \in Workers(PrunePCs)' BY DEF PubPCs, Workers
    <3>6. down' \in Readers BY DEF Entries
    <3> QED BY ONLY <3>1, <3>2, <3>3, <3>4, <3>5, <3>6 DEF ArtifactTypeOK
  <2>2. NothingInNoBundle' BY DEF NothingInNoBundle
  <2>3. MeetingsNoticed' BY DEF MeetingsNoticed
  <2>4. TruthUntouched' BY DEF TruthUntouched, Truth
  <2>5. PubInHand' BY DEF PubInHand, ArtifactTypeOK
  <2>6. PruneInHand' BY DEF PruneInHand, Expired
  <2>7. OneBundleRead' BY DEF OneBundleRead
  <2> QED BY ONLY <2>1, <2>2, <2>3, <2>4, <2>5, <2>6, <2>7 DEF ArtifactIInv
<1>18. CASE PruneBreaksOff
  <2> USE <1>18 DEF PruneBreaksOff, Mishap, Idle
  <2>1. ArtifactTypeOK'
    <3> USE DEF ArtifactTypeOK, Versions
    <3>1. /\ published' \in 0..MaxVersions /\ today' \in Nat
          /\ blurred' \in BOOLEAN /\ mishaps' \in Nat
      OBVIOUS
    <3>2. record' \in [gen : Versions', expires : Nat] OBVIOUS
    <3>3. bundle' \in Bundles' BY DEF Bundles
    <3>4. pub' \in Workers(PubPCs)' BY DEF PubPCs, Workers
    <3>5. prune' \in Workers(PrunePCs)' BY DEF PrunePCs, Workers
    <3>6. down' \in Readers BY DEF Bundles, Entries
    <3> QED BY ONLY <3>1, <3>2, <3>3, <3>4, <3>5, <3>6 DEF ArtifactTypeOK
  <2>2. NothingInNoBundle' BY DEF NothingInNoBundle
  <2>3. MeetingsNoticed' BY DEF MeetingsNoticed
  <2>4. TruthUntouched' BY DEF TruthUntouched, Truth
  <2>5. PubInHand' BY DEF PubInHand, ArtifactTypeOK
  <2>6. PruneInHand' BY DEF PruneInHand
  <2>7. OneBundleRead' BY DEF OneBundleRead
  <2> QED BY ONLY <2>1, <2>2, <2>3, <2>4, <2>5, <2>6, <2>7 DEF ArtifactIInv
<1>19. CASE Decay
  <2> USE <1>19 DEF Decay, Mishap
  <2>1. ArtifactTypeOK'
    <3> USE DEF ArtifactTypeOK, Versions
    <3>1. /\ published' \in 0..MaxVersions /\ today' \in Nat
          /\ blurred' \in BOOLEAN /\ mishaps' \in Nat
      OBVIOUS
    <3>2. record' \in [gen : Versions', expires : Nat] OBVIOUS
    <3>3. bundle' \in Bundles' BY DEF Bundles, Corrupt
    <3>4. pub' \in Workers(PubPCs)' BY DEF PubPCs, Workers
    <3>5. prune' \in Workers(PrunePCs)' BY DEF Workers
    <3>6. down' \in Readers BY DEF Readers, Entries
    <3> QED BY ONLY <3>1, <3>2, <3>3, <3>4, <3>5, <3>6 DEF ArtifactTypeOK
  <2>2. NothingInNoBundle' BY DEF NothingInNoBundle, NoBundle
  <2>3. MeetingsNoticed' BY DEF MeetingsNoticed
  <2>4. TruthUntouched' BY DEF TruthUntouched
  <2>5. PubInHand' BY DEF PubInHand
  <2>6. PruneInHand' BY DEF PruneInHand
  <2>7. OneBundleRead' BY DEF OneBundleRead
  <2> QED BY ONLY <2>1, <2>2, <2>3, <2>4, <2>5, <2>6, <2>7 DEF ArtifactIInv
<1>20. CASE NextDay
  <2> USE <1>20 DEF NextDay
  <2>1. ArtifactTypeOK'
    <3> USE DEF ArtifactTypeOK, Versions
    <3>1. /\ published' \in 0..MaxVersions /\ today' \in Nat
          /\ blurred' \in BOOLEAN /\ mishaps' \in Nat
      OBVIOUS
    <3>2. record' \in [gen : Versions', expires : Nat] OBVIOUS
    <3>3. bundle' \in Bundles' BY DEF Bundles
    <3>4. pub' \in Workers(PubPCs)' BY DEF PubPCs, Workers
    <3>5. prune' \in Workers(PrunePCs)' BY DEF Workers
    <3>6. down' \in Readers BY DEF Entries
    <3> QED BY ONLY <3>1, <3>2, <3>3, <3>4, <3>5, <3>6 DEF ArtifactTypeOK
  <2>2. NothingInNoBundle' BY DEF NothingInNoBundle
  <2>3. MeetingsNoticed' BY DEF MeetingsNoticed
  <2>4. TruthUntouched' BY DEF TruthUntouched, Truth
  <2>5. PubInHand' BY DEF PubInHand, ArtifactTypeOK
  <2>6. PruneInHand' BY DEF PruneInHand, ArtifactTypeOK, Bundles, Expired
  <2>7. OneBundleRead' BY DEF OneBundleRead, ArtifactTypeOK
  <2> QED BY ONLY <2>1, <2>2, <2>3, <2>4, <2>5, <2>6, <2>7 DEF ArtifactIInv
<1> QED BY <1>1, <1>2, <1>3, <1>4, <1>5, <1>6, <1>7, <1>8, <1>9, <1>10, <1>11, <1>12, <1>13, <1>14, <1>15, <1>16, <1>17, <1>18, <1>19, <1>20 DEF ArtifactNext

(* Nothing is stored at first.                                              *)
LEMMA ArtifactStart == ArtifactInit => ArtifactIInv
<1> SUFFICES ASSUME ArtifactInit PROVE ArtifactIInv OBVIOUS
<1> USE ArtifactAssumption DEF ArtifactInit, Idle, Unread, NoRecord
<1>1. ArtifactTypeOK
  <2>1. bundle \in Bundles BY DEF NoBundle, Bundles, Versions, Corrupt
  <2>2. pub \in Workers(PubPCs) /\ prune \in Workers(PrunePCs) BY DEF Workers, PubPCs, PrunePCs, Versions
  <2>3. down \in Readers BY DEF Readers, Corrupt
  <2>4. blurred \in BOOLEAN OBVIOUS
  <2> QED BY <2>1, <2>2, <2>3, <2>4 DEF ArtifactTypeOK, Versions
<1>2. NothingInNoBundle /\ MeetingsNoticed BY DEF NothingInNoBundle, MeetingsNoticed
<1>3. TruthUntouched BY DEF TruthUntouched, Truth, NoBundle
<1>4. PubInHand /\ PruneInHand /\ OneBundleRead BY DEF PubInHand, PruneInHand, OneBundleRead
<1> QED BY <1>1, <1>2, <1>3, <1>4 DEF ArtifactIInv

(* The invariant of an artifact, whatever a publication, a prune and a      *)
(* download do to each other, wherever one of them dies.                    *)
THEOREM ArtifactInvariant == ArtifactSpec => []ArtifactIInv
<1>1. ArtifactIInv /\ [ArtifactNext]_avars => ArtifactIInv'
  <2> SUFFICES ASSUME ArtifactIInv, UNCHANGED avars PROVE ArtifactIInv' BY ArtifactStep
  <2> USE DEF avars, ArtifactIInv
  <2>1. ArtifactTypeOK' BY DEF ArtifactTypeOK, Versions, Bundles, Workers
  <2>2. NothingInNoBundle' /\ MeetingsNoticed' BY DEF NothingInNoBundle, MeetingsNoticed
  <2>3. TruthUntouched' BY DEF TruthUntouched, Truth
  <2>4. PubInHand' /\ PruneInHand' BY DEF PubInHand, PruneInHand, Expired
  <2>5. OneBundleRead' BY DEF OneBundleRead
  <2> QED BY <2>1, <2>2, <2>3, <2>4, <2>5
<1> QED BY <1>1, ArtifactStart, PTL DEF ArtifactSpec

(* The row and the bundle tell the same where publisher and pruner never    *)
(* met, and a download that says ok is of one publication.                  *)
THEOREM ArtifactsStayWhole == ArtifactSpec => []ArtifactsAreWhole
<1>1. ArtifactIInv => ArtifactsAreWhole
  <2> SUFFICES ASSUME ArtifactIInv PROVE ArtifactsAreWhole OBVIOUS
  <2> USE DEF ArtifactIInv
  <2>1. RowTellsTruth BY DEF RowTellsTruth, TruthUntouched, Truth, PruneInHand
  <2>2. DownloadIsWhole BY DEF DownloadIsWhole, OneBundleRead
  <2> QED BY <2>1, <2>2 DEF ArtifactsAreWhole
<1> QED BY <1>1, ArtifactInvariant, PTL

(***************************************************************************)
(* The attempts of an agent step.                                           *)
(***************************************************************************)

(* What a provider's reply becomes is a status of AgentResponse.            *)
LEMMA ProviderStatuses ==
  ASSUME NEW p \in Tokens
  PROVE  \A r \in Responses(p) : r.status \in ResponseStatuses
<1>1. ResponseStatuses = {"proposed_patch", "no_op", "unfixable", "timeout", "provider_error"}
  BY DEF ResponseStatuses, AGENT_OUTCOME_EXIT_CODES
<1>2. \A r \in LocalReply : LocalStatus(r) \in ResponseStatuses BY <1>1 DEF LocalStatus, AnswerStatus
<1>3. \A r \in OllamaReply : OllamaStatus(r) \in ResponseStatuses BY <1>1 DEF OllamaStatus, AnswerStatus
<1>4. CASE p = "local" BY <1>2, <1>4 DEF Responses
<1>5. CASE p # "local" BY <1>3, <1>5 DEF Responses
<1> QED BY <1>4, <1>5

(* The first attempt begins.                                                 *)
LEMMA AgentStart == AgentInit => AgentIInv
<1> SUFFICES ASSUME AgentInit PROVE AgentIInv OBVIOUS
<1> USE AgentAssumption DEF AgentInit
<1>1. AgentTypeOK
  <2>1. WIP \in Edit BY DEF WIP, Edit
  <2> QED BY <2>1 DEF AgentTypeOK
<1>2. OutcomeAtEnd BY DEF OutcomeAtEnd
<1>3. BaselineInHand /\ DiffInHand BY DEF BaselineInHand, DiffInHand
<1>4. RejectedLeavesNothing /\ NothingUngated BY DEF RejectedLeavesNothing, NothingUngated
<1> QED BY <1>1, <1>2, <1>3, <1>4 DEF AgentIInv

(* An attempt goes on, or the agent edits.                                  *)
LEMMA AgentStep == ASSUME AgentIInv, AgentNext PROVE AgentIInv'
<1> USE AgentAssumption DEF AgentIInv
<1>s. ResponseStatuses = {"proposed_patch", "no_op", "unfixable", "timeout", "provider_error"}
  BY DEF ResponseStatuses, AGENT_OUTCOME_EXIT_CODES
<1>1. CASE Begin
  <2> USE <1>1 DEF Begin, Respond, AgentGoto, files
  <2>1. AgentTypeOK' BY <1>s DEF AgentTypeOK, Edit
  <2>2. OutcomeAtEnd' BY DEF OutcomeAtEnd
  <2>3. BaselineInHand' BY DEF BaselineInHand
  <2>4. DiffInHand' BY DEF DiffInHand, Completed
  <2>5. RejectedLeavesNothing' BY DEF RejectedLeavesNothing, Editing
  <2>6. NothingUngated' BY DEF NothingUngated, OutcomeAtEnd
  <2> QED BY ONLY <2>1, <2>2, <2>3, <2>4, <2>5, <2>6 DEF AgentIInv
<1>2. CASE ResolveBaseline
  <2> USE <1>2 DEF ResolveBaseline, MarkerCommit, AgentGoto
  <2>1. AgentTypeOK' BY <1>s DEF AgentTypeOK, Tracked
  <2>2. OutcomeAtEnd' BY DEF OutcomeAtEnd
  <2>3. BaselineInHand' BY DEF BaselineInHand, Dirty
  <2>4. DiffInHand' BY DEF DiffInHand, Edit
  <2>5. RejectedLeavesNothing' BY DEF RejectedLeavesNothing
  <2>6. NothingUngated' BY DEF NothingUngated
  <2> QED BY ONLY <2>1, <2>2, <2>3, <2>4, <2>5, <2>6 DEF AgentIInv
<1>3. CASE BaselineFails
  <2> USE <1>3 DEF BaselineFails, Respond, AgentGoto
  <2>1. AgentTypeOK' BY <1>s DEF AgentTypeOK, Tracked
  <2>2. OutcomeAtEnd' BY DEF OutcomeAtEnd
  <2>3. BaselineInHand' BY DEF BaselineInHand
  <2>4. DiffInHand' BY DEF DiffInHand, Completed
  <2>5. RejectedLeavesNothing' BY DEF RejectedLeavesNothing, OutcomeAtEnd, Editing
  <2>6. NothingUngated' BY DEF NothingUngated, DiffInHand
  <2> QED BY ONLY <2>1, <2>2, <2>3, <2>4, <2>5, <2>6 DEF AgentIInv
<1>4. ASSUME NEW kind \in {"good", "bad", "ignored"}, AgentEdits(kind) PROVE AgentIInv'
  <2> USE <1>4 DEF AgentEdits, Editing
  <2>1. AgentTypeOK' BY <1>s DEF AgentTypeOK, Edit
  <2>2. OutcomeAtEnd' BY DEF OutcomeAtEnd, AgentTypeOK
  <2>3. BaselineInHand' BY DEF BaselineInHand
  <2>4. DiffInHand' BY DEF DiffInHand
  <2>5. RejectedLeavesNothing' BY DEF RejectedLeavesNothing
  <2>6. NothingUngated' BY DEF NothingUngated, OutcomeAtEnd
  <2> QED BY ONLY <2>1, <2>2, <2>3, <2>4, <2>5, <2>6 DEF AgentIInv
<1>5. ASSUME NEW e \in tree, AgentReverts(e) PROVE AgentIInv'
  <2> USE <1>5 DEF AgentReverts, Editing
  <2>1. AgentTypeOK' BY <1>s DEF AgentTypeOK, Tracked
  <2>2. OutcomeAtEnd' BY DEF OutcomeAtEnd
  <2>3. BaselineInHand' BY DEF BaselineInHand
  <2>4. DiffInHand' BY DEF DiffInHand
  <2>5. RejectedLeavesNothing' BY DEF RejectedLeavesNothing
  <2>6. NothingUngated' BY DEF NothingUngated, OutcomeAtEnd
  <2> QED BY ONLY <2>1, <2>2, <2>3, <2>4, <2>5, <2>6 DEF AgentIInv
<1>6. CASE AgentCommits
  <2> USE <1>6 DEF AgentCommits, Editing
  <2>1. AgentTypeOK' BY <1>s DEF AgentTypeOK, Tracked
  <2>2. OutcomeAtEnd' BY DEF OutcomeAtEnd
  <2>3. BaselineInHand' BY DEF BaselineInHand
  <2>4. DiffInHand' BY DEF DiffInHand
  <2>5. RejectedLeavesNothing' BY DEF RejectedLeavesNothing
  <2>6. NothingUngated' BY DEF NothingUngated
  <2> QED BY ONLY <2>1, <2>2, <2>3, <2>4, <2>5, <2>6 DEF AgentIInv
<1>7. CASE LingererEnds
  <2> USE <1>7 DEF LingererEnds, files
  <2>1. AgentTypeOK' BY <1>s DEF AgentTypeOK
  <2>2. OutcomeAtEnd' BY DEF OutcomeAtEnd
  <2>3. BaselineInHand' BY DEF BaselineInHand
  <2>4. DiffInHand' BY DEF DiffInHand
  <2>5. RejectedLeavesNothing' BY DEF RejectedLeavesNothing
  <2>6. NothingUngated' BY DEF NothingUngated
  <2> QED BY ONLY <2>1, <2>2, <2>3, <2>4, <2>5, <2>6 DEF AgentIInv
<1>8. CASE RunEnds
  <2> USE <1>8 DEF RunEnds, Respond, AgentGoto, files
  <2>1. AgentTypeOK' BY <1>s DEF AgentTypeOK
  <2>2. OutcomeAtEnd' BY DEF OutcomeAtEnd
  <2>3. BaselineInHand' BY DEF BaselineInHand
  <2>4. DiffInHand' BY DEF DiffInHand, Completed
  <2>5. RejectedLeavesNothing' BY DEF RejectedLeavesNothing, OutcomeAtEnd, Editing
  <2>6. NothingUngated' BY DEF NothingUngated, DiffInHand
  <2> QED BY ONLY <2>1, <2>2, <2>3, <2>4, <2>5, <2>6 DEF AgentIInv
<1>9. CASE Capture
  <2> USE <1>9 DEF Capture, Respond, AgentGoto, files
  <2>1. AgentTypeOK'
    <3>1. SinceBaseline \subseteq Edit BY DEF SinceBaseline, Tracked, AgentTypeOK
    <3>2. diff' \in {SinceBaseline, diff} /\ status' \in {"no_op", "provider_error", status} /\ at' \in {"settled", "gate"}
      OBVIOUS
    <3> QED BY <1>s, <3>1, <3>2 DEF AgentTypeOK
  <2>2. OutcomeAtEnd' BY DEF OutcomeAtEnd, AgentTypeOK
  <2>3. BaselineInHand' BY DEF BaselineInHand
  <2>4. DiffInHand' BY DEF DiffInHand, Tracked, Completed, SinceBaseline, BaselineInHand
  <2>5. RejectedLeavesNothing' BY DEF RejectedLeavesNothing, OutcomeAtEnd, Editing, AgentTypeOK, Edit
  <2>6. NothingUngated' BY DEF NothingUngated, DiffInHand
  <2> QED BY ONLY <2>1, <2>2, <2>3, <2>4, <2>5, <2>6 DEF AgentIInv
<1>10. CASE Gate
  <2> USE <1>10 DEF Gate, Respond, AgentGoto, files
  <2>1. AgentTypeOK' BY <1>s DEF AgentTypeOK
  <2>2. OutcomeAtEnd' BY DEF OutcomeAtEnd
  <2>3. BaselineInHand' BY DEF BaselineInHand
  <2>4. DiffInHand' BY DEF DiffInHand, AgentTypeOK, Edit, Tracked, SinceBaseline, BaselineInHand, Rejected
  <2>5. RejectedLeavesNothing' BY DEF RejectedLeavesNothing, Tracked, Dirty, OutcomeAtEnd, AgentTypeOK, Edit
  <2>6. NothingUngated' BY DEF NothingUngated, DiffInHand
  <2> QED BY ONLY <2>1, <2>2, <2>3, <2>4, <2>5, <2>6 DEF AgentIInv
<1>11. CASE Discard
  <2> USE <1>11 DEF Discard, ResetToBaseline, Respond, AgentGoto
  <2>1. AgentTypeOK' BY <1>s DEF AgentTypeOK
  <2>2. OutcomeAtEnd' BY DEF OutcomeAtEnd
  <2>3. BaselineInHand' BY DEF BaselineInHand
  <2>4. DiffInHand' BY DEF DiffInHand, Completed
  <2>5. RejectedLeavesNothing' BY DEF RejectedLeavesNothing, Tracked, Dirty, BaselineInHand, Editing
  <2>6. NothingUngated' BY DEF NothingUngated, Tracked, OutcomeAtEnd, Editing
  <2> QED BY ONLY <2>1, <2>2, <2>3, <2>4, <2>5, <2>6 DEF AgentIInv
<1>12. CASE DiscardFails
  <2> USE <1>12 DEF DiscardFails, Respond, AgentGoto, files
  <2>1. AgentTypeOK' BY <1>s DEF AgentTypeOK, Tracked
  <2>2. OutcomeAtEnd' BY DEF OutcomeAtEnd
  <2>3. BaselineInHand' BY DEF BaselineInHand
  <2>4. DiffInHand' BY DEF DiffInHand, Completed
  <2>5. RejectedLeavesNothing' BY DEF RejectedLeavesNothing, Editing
  <2>6. NothingUngated' BY DEF NothingUngated, OutcomeAtEnd
  <2> QED BY ONLY <2>1, <2>2, <2>3, <2>4, <2>5, <2>6 DEF AgentIInv
<1>13. CASE AskForDiff
  <2> USE <1>13 DEF AskForDiff, Respond, AgentGoto, files
  <2>1. AgentTypeOK'
    <3>1. PICK r \in Responses(provider) :
            IF r.status = "proposed_patch" /\ r.diff \in {"good", "bad"} /\ edits < MaxEdits
            THEN /\ diff' = {[n |-> edits + 1, kind |-> r.diff]}
                 /\ edits' = edits + 1
                 /\ AgentGoto("check") /\ UNCHANGED status
            ELSE /\ Respond(IF r.status = "proposed_patch" THEN "provider_error" ELSE r.status)
                 /\ UNCHANGED <<diff, edits>>
      OBVIOUS
    <3>2. provider \in Tokens BY DEF AgentTypeOK
    <3>3. r.status \in ResponseStatuses BY <3>2, ProviderStatuses, Zenon
    <3> QED BY <1>s, <3>1, <3>3 DEF AgentTypeOK, Edit
  <2>2. OutcomeAtEnd' BY DEF OutcomeAtEnd, AgentTypeOK
  <2>3. BaselineInHand' BY DEF BaselineInHand
  <2>4. DiffInHand' BY DEF DiffInHand, Tracked, BaselineInHand
  <2>5. RejectedLeavesNothing' BY DEF RejectedLeavesNothing, OutcomeAtEnd, Edit
  <2>6. NothingUngated' BY DEF NothingUngated, DiffInHand
  <2> QED BY ONLY <2>1, <2>2, <2>3, <2>4, <2>5, <2>6 DEF AgentIInv
<1>14. CASE ApplyDiff
  <2> USE <1>14 DEF ApplyDiff, Respond, AgentGoto
  <2>1. AgentTypeOK' BY <1>s DEF AgentTypeOK
  <2>2. OutcomeAtEnd' BY DEF OutcomeAtEnd
  <2>3. BaselineInHand' BY DEF BaselineInHand
  <2>4. DiffInHand' BY DEF DiffInHand, AgentTypeOK, Edit, Tracked, BaselineInHand, Rejected
  <2>5. RejectedLeavesNothing' BY DEF RejectedLeavesNothing, Tracked, Dirty, OutcomeAtEnd, Edit
  <2>6. NothingUngated' BY DEF NothingUngated, OutcomeAtEnd, DiffInHand
  <2> QED BY ONLY <2>1, <2>2, <2>3, <2>4, <2>5, <2>6 DEF AgentIInv
<1>15. CASE ToOutcome
  <2> USE <1>15 DEF ToOutcome, AgentGoto, files
  <2>1. AgentTypeOK' BY <1>s DEF AgentTypeOK, Tracked
  <2>2. OutcomeAtEnd' BY DEF OutcomeAtEnd
  <2>3. BaselineInHand' BY DEF BaselineInHand
  <2>4. DiffInHand' BY DEF DiffInHand
  <2>5. RejectedLeavesNothing' BY DEF RejectedLeavesNothing
  <2>6. NothingUngated' BY DEF NothingUngated, DiffInHand
  <2> QED BY ONLY <2>1, <2>2, <2>3, <2>4, <2>5, <2>6 DEF AgentIInv
<1>16. CASE Retry
  <2> USE <1>16 DEF Retry, AgentGoto, files
  <2>1. AgentTypeOK' BY <1>s DEF AgentTypeOK, OutcomeAtEnd
  <2>2. OutcomeAtEnd' BY DEF OutcomeAtEnd, AgentTypeOK
  <2>3. BaselineInHand' BY DEF BaselineInHand
  <2>4. DiffInHand' BY DEF DiffInHand
  <2>5. RejectedLeavesNothing' BY DEF RejectedLeavesNothing
  <2>6. NothingUngated' BY DEF NothingUngated
  <2> QED BY ONLY <2>1, <2>2, <2>3, <2>4, <2>5, <2>6 DEF AgentIInv
<1> QED BY <1>1, <1>2, <1>3, <1>4, <1>5, <1>6, <1>7, <1>8, <1>9, <1>10, <1>11, <1>12, <1>13, <1>14, <1>15, <1>16 DEF AgentNext

(* The invariant of the attempts of an agent step, whichever provider runs,  *)
(* whatever it edits, reverts or commits, and whichever git command fails.   *)
THEOREM AgentInvariant == AgentSpec => []AgentIInv
<1>1. AgentIInv /\ [AgentNext]_agentVars => AgentIInv'
  <2> SUFFICES ASSUME AgentIInv, UNCHANGED agentVars PROVE AgentIInv' BY AgentStep
  <2> USE DEF agentVars, files, AgentIInv
  <2>1. AgentTypeOK' /\ OutcomeAtEnd' BY DEF AgentTypeOK, OutcomeAtEnd
  <2>2. BaselineInHand' /\ DiffInHand' BY DEF BaselineInHand, DiffInHand, SinceBaseline, Tracked
  <2>3. RejectedLeavesNothing' /\ NothingUngated' BY DEF RejectedLeavesNothing, NothingUngated, Tracked, Dirty
  <2> QED BY <2>1, <2>2, <2>3
<1> QED BY <1>1, AgentStart, PTL DEF AgentSpec

(***************************************************************************)
(* The driver that has agents work in turns.                                *)
(***************************************************************************)

(* Before the first round nobody has reviewed anything.                     *)
LEMMA RoundStart == RoundInit => RoundIInv
<1> SUFFICES ASSUME RoundInit PROVE RoundIInv OBVIOUS
<1> USE RoundAssumption DEF RoundInit
<1>1. RoundTypeOK
  <2>1. plan \in BOOLEAN /\ fresh \in BOOLEAN OBVIOUS
  <2>2. options \in [push : BOOLEAN, dry_run : BOOLEAN] OBVIOUS
  <2>3. review \in Reviews /\ rounds \in [1..MaxRounds -> Reviews] BY DEF Reviews
  <2> QED BY <2>1, <2>2, <2>3 DEF RoundTypeOK
<1>2. FreshVerdict /\ PushedIsApproved BY DEF FreshVerdict, PushedIsApproved
<1> QED BY <1>1, <1>2 DEF RoundIInv

(* A session of the driver, of an agent, or a failure of either.            *)
LEMMA RoundStep == ASSUME RoundIInv, RoundNext PROVE RoundIInv'
<1> USE RoundAssumption DEF RoundIInv
<1>1. CASE CommandPlan
  <2> USE <1>1 DEF CommandPlan, Call
  <2>1. RoundTypeOK'
    <3>1. plan' \in BOOLEAN BY DEF RoundTypeOK
    <3> QED BY <3>1 DEF RoundTypeOK, Reviews
  <2>2. FreshVerdict' /\ PushedIsApproved' BY DEF FreshVerdict, PushedIsApproved
  <2> QED BY ONLY <2>1, <2>2 DEF RoundIInv
<1>2. CASE CommandRun
  <2> USE <1>2 DEF CommandRun, Call
  <2>1. RoundTypeOK'
    <3>1. fresh' \in BOOLEAN OBVIOUS
    <3>2. options' \in [push : BOOLEAN, dry_run : BOOLEAN] OBVIOUS
    <3> QED BY <3>1, <3>2 DEF RoundTypeOK, Reviews
  <2>2. fresh' => review = Absent OBVIOUS
  <2>3. FreshVerdict' BY <2>2 DEF FreshVerdict, Absent
  <2>4. PushedIsApproved' BY DEF PushedIsApproved
  <2> QED BY ONLY <2>1, <2>3, <2>4 DEF RoundIInv
<1>3. CASE CodeSession
  <2> USE <1>3 DEF CodeSession
  <2>1. RoundTypeOK' BY DEF RoundTypeOK, Reviews
  <2>2. FreshVerdict' /\ PushedIsApproved' BY DEF FreshVerdict, PushedIsApproved
  <2> QED BY ONLY <2>1, <2>2 DEF RoundIInv
<1>4. CASE ReviewSession
  <2> USE <1>4 DEF ReviewSession
  <2>1. RoundTypeOK' BY DEF RoundTypeOK, Reviews
  <2>2. FreshVerdict' /\ PushedIsApproved' BY DEF FreshVerdict, PushedIsApproved
  <2> QED BY ONLY <2>1, <2>2 DEF RoundIInv
<1>5. CASE ReadVerdict
  <2> USE <1>5 DEF ReadVerdict
  <2>1. RoundTypeOK' BY DEF RoundTypeOK, Reviews
  <2>2. FreshVerdict' BY DEF FreshVerdict, Readable
  <2>3. PushedIsApproved'
    <3> SUFFICES ASSUME stage' = "push", fresh' PROVE review = [verdict |-> "APPROVE", blocking |-> 0, of |-> sources]
      BY DEF PushedIsApproved
    <3>1. review.verdict = "APPROVE" /\ review.blocking = 0 BY DEF Readable
    <3>2. review.of = sources BY <3>1 DEF FreshVerdict
    <3>3. review \in [verdict : Verdicts, blocking : {0, 1}, of : 1..sources]
      BY <3>1 DEF RoundTypeOK, Reviews, Absent
    <3> QED BY ONLY <3>1, <3>2, <3>3
  <2> QED BY ONLY <2>1, <2>2, <2>3 DEF RoundIInv
<1>6. CASE DryVerdict
  <2> USE <1>6 DEF DryVerdict
  <2>1. RoundTypeOK' BY DEF RoundTypeOK, Reviews
  <2>2. FreshVerdict' /\ PushedIsApproved' BY DEF FreshVerdict, PushedIsApproved
  <2> QED BY ONLY <2>1, <2>2 DEF RoundIInv
<1>7. CASE PushSession
  <2> USE <1>7 DEF PushSession
  <2>1. RoundTypeOK' BY DEF RoundTypeOK, Reviews
  <2>2. FreshVerdict' /\ PushedIsApproved' BY DEF FreshVerdict, PushedIsApproved
  <2> QED BY ONLY <2>1, <2>2 DEF RoundIInv
<1>8. CASE Fails
  <2> USE <1>8 DEF Fails
  <2>1. RoundTypeOK' BY DEF RoundTypeOK, Reviews
  <2>2. FreshVerdict' /\ PushedIsApproved' BY DEF FreshVerdict, PushedIsApproved
  <2> QED BY ONLY <2>1, <2>2 DEF RoundIInv
<1>9. CASE CleanUp
  <2> USE <1>9 DEF CleanUp
  <2>1. RoundTypeOK' BY DEF RoundTypeOK, Reviews
  <2>2. FreshVerdict' /\ PushedIsApproved' BY DEF FreshVerdict, PushedIsApproved
  <2> QED BY ONLY <2>1, <2>2 DEF RoundIInv
<1> QED BY <1>1, <1>2, <1>3, <1>4, <1>5, <1>6, <1>7, <1>8, <1>9 DEF RoundNext

(* A call of dovo-loop.py that began without a review.json pushes nothing but *)
(* what its last review has approved.                                       *)
THEOREM RoundInvariant == RoundSpec => []RoundIInv
<1>1. RoundIInv /\ [RoundNext]_rvars => RoundIInv'
  <2> SUFFICES ASSUME RoundIInv, UNCHANGED rvars PROVE RoundIInv' BY RoundStep
  <2> USE DEF rvars, RoundIInv
  <2>1. RoundTypeOK' BY DEF RoundTypeOK, Reviews
  <2>2. FreshVerdict' /\ PushedIsApproved' BY DEF FreshVerdict, PushedIsApproved
  <2> QED BY <2>1, <2>2
<1> QED BY <1>1, RoundStart, PTL DEF RoundSpec

(* Where agents edit, in the worktree of a run and in this repository, no    *)
(* edit goes on unreviewed: what the gate rejects is gone, what it would     *)
(* reject is in no completed attempt, and what is pushed was approved.       *)
THEOREM NoEditUngated == AgentSpec /\ RoundSpec => []EditsAreGated
<1>1. AgentIInv /\ RoundIInv => EditsAreGated BY DEF AgentIInv, RoundIInv, EditsAreGated
<1> QED BY <1>1, AgentInvariant, RoundInvariant, PTL
=============================================================================
