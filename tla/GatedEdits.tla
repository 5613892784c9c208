------------------------------ MODULE GatedEdits ------------------------------
(***************************************************************************)
(* The two places where agents edit a working tree: a step of a run, in its   *)
(* worktree, and a session of the development loop, in the repository.  They  *)
(* share no state; what both promise is that no edit goes on unreviewed.      *)
(***************************************************************************)
EXTENDS AgentSteps, ReviewRounds

(* Edits that the patch gate rejects are gone, and nothing else is; an attempt
   that completes has added nothing that the gate would reject.  Edits to this
   repository are pushed when a review of them approved.                    *)
EditsAreGated ==
    /\ AgentTypeOK /\ RejectedLeavesNothing /\ NothingUngated
    /\ RoundTypeOK /\ PushedIsApproved
=============================================================================
