------------------------------- MODULE MCSteps -------------------------------
(* The two kinds of step, one that runs a process and one that runs an agent, *)
(* what remains of them: the committed state of the run, and artifacts; and   *)
(* the driver that has agents work on this repository in turns.              *)
EXTENDS StepProcess, RunProjection, Artifacts, GatedEdits

CONSTANTS p1, p2
TwoDrivers == {p1, p2}

VARIABLE scene

allVars == <<scene, vars, agentVars, pvars, avars, rvars>>

(* One of the five is executed; the others stay where they begin.  Of a step,
   the assertions and the escalation meet only in its result: a step that goes
   on after a failure is given none.                                        *)
ProcessScene == scene = "process"
MCInit ==
    /\ scene \in {"process", "agent", "run", "artifact", "rounds"}
    /\ Init /\ (~ProcessScene => step.retry /\ step.timeout /\ step.asserts /\ step.escalation = "abort")
    /\ (step.escalation = "continue" => ~step.asserts)
    /\ AgentInit /\ (scene # "agent" => provider = "local" /\ tree = {})
    /\ RowInit /\ (scene # "run" => session.json = Missing)
    /\ ArtifactInit /\ RoundInit

ProcessStep == scene = "process" /\ Next /\ UNCHANGED <<scene, agentVars, pvars, avars, rvars>>
AgentStep == scene = "agent" /\ AgentNext /\ UNCHANGED <<scene, vars, pvars, avars, rvars>>
RunStep == scene = "run" /\ RowNext /\ UNCHANGED <<scene, vars, agentVars, avars, rvars>>
ArtifactStep == scene = "artifact" /\ ArtifactNext /\ UNCHANGED <<scene, vars, agentVars, pvars, rvars>>
RoundStep == scene = "rounds" /\ RoundNext /\ UNCHANGED <<scene, vars, agentVars, pvars, avars>>

MCSpec ==
    /\ MCInit /\ [][ProcessStep \/ AgentStep \/ RunStep \/ ArtifactStep \/ RoundStep]_allVars
    /\ WF_allVars(ProcessScene /\ Main /\ UNCHANGED <<scene, agentVars, pvars, avars, rvars>>)
    /\ WF_allVars(ProcessScene /\ Reader /\ UNCHANGED <<scene, agentVars, pvars, avars, rvars>>)

(* A step with a timeout ends, whatever its processes do.                   *)
ProcessSettles == ProcessScene => StepSettles
=============================================================================
