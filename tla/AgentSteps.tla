----------------------------- MODULE AgentSteps -----------------------------
(***************************************************************************)
(* engine/executors/agent_step.py, core/agents/services/run_direct.py,       *)
(* core/agents/cli_mutation.py and mutation_git.py: the attempts of one      *)
(* agent step.  A provider that edits the worktree runs against a baseline;  *)
(* what it changed is captured, passed through the patch gate and, when the  *)
(* gate rejects it, discarded.  A provider that returns a diff has it gated  *)
(* and applied.  Any git command may fail.                                   *)
(***************************************************************************)
EXTENDS AgentProviders, FiniteSets

CONSTANTS
    AgentAttempts,  \* bound: attempts of the step
    MaxEdits        \* bound: changes all agents of a behaviour make

ASSUME AgentAssumption == AgentAttempts \in Nat \ {0} /\ MaxEdits \in Nat

VARIABLES
    provider,   \* agent.provider of the run
    at,         \* where the attempt is
    number,     \* the attempt
    tree,       \* changes in the worktree's files
    head,       \* changes committed to its branch
    baseline,   \* what resolve_pre_agent_baseline returned, as changes
    diff,       \* the captured changes
    before,     \* the worktree when the attempt began
    lingering,  \* an SDK thread outlived its run: "never", "yes" or "ended"
    edits,      \* changes made so far
    discarded,  \* "no", "done" or "failed": the edits of a rejected attempt
    status,     \* of the attempt: an AgentResponseStatus or "none"
    agentOutcome \* of the step: "none", "completed" or "failed"

files == <<tree, head>>
agentVars == <<provider, at, number, tree, head, baseline, diff, before, lingering, edits, discarded,
          status, agentOutcome>>

(* A change: who made it, and what the gate or git would say about it.  The
   WIP overlay is a change too; an ignored file is invisible to git.        *)
Edit == [n : 0 .. MaxEdits, kind : {"good", "bad", "ignored"}]
WIP == [n |-> 0, kind |-> "good"]
Tracked(t) == {e \in t : e.kind # "ignored"}
Dirty == Tracked(tree) # head

AgentGoto(label) == at' = label

(* The attempt ends with the response s, or goes on at label.               *)
Respond(s) == status' = s /\ AgentGoto("settled")

AgentInit ==
    /\ provider \in Tokens
    /\ tree \in SUBSET {WIP} /\ head = {}
    /\ at = "begin" /\ number = 1
    /\ baseline = {} /\ diff = {} /\ before = tree
    /\ lingering = "never" /\ edits = 0 /\ discarded = "no"
    /\ status = "none" /\ agentOutcome = "none"

(* What an attempt needs: execute_agent_step looks for a worktree, settings
   and a prompt that is not blank after interpolation, the adapter for the
   model and the credential its provider requires.                          *)
Request == [worktree : BOOLEAN, settings : BOOLEAN, prompt : BOOLEAN, model : BOOLEAN, credential : BOOLEAN]
Unmet(r) ==
    \/ ~r.worktree \/ ~r.settings \/ ~r.prompt
    \/ PROVIDERS[provider].model /\ ~r.model
    \/ PROVIDERS[provider].credential /\ ~r.credential

Begin ==
    /\ at = "begin"
    /\ before' = tree /\ discarded' = "no"
    /\ \E r \in Request :
         IF Unmet(r) THEN Respond("provider_error")
         ELSE /\ AgentGoto(IF provider \in DirectMutation THEN "baseline" ELSE "ask")
              /\ UNCHANGED status
    /\ UNCHANGED <<provider, number, files, baseline, diff, lingering, edits, agentOutcome>>

(* resolve_pre_agent_baseline: HEAD, or a marker commit of a dirty tree.    *)
BareHead == head' = head                    \* mutant: a dirty tree is not committed
MarkerCommit == head' = Tracked(tree)
ResolveBaseline ==
    /\ at = "baseline"
    /\ IF Dirty THEN MarkerCommit ELSE UNCHANGED head
    /\ baseline' = head'
    /\ AgentGoto("agent")
    /\ UNCHANGED <<provider, number, tree, diff, before, lingering, edits, discarded, status, agentOutcome>>

(* git status, add, commit or rev-parse fails: the commit may be there.     *)
BaselineFails ==
    /\ at = "baseline"
    /\ head' \in {head, Tracked(tree)}
    /\ Respond("provider_error")
    /\ UNCHANGED <<provider, number, tree, baseline, diff, before, lingering, edits, discarded, agentOutcome>>

----------------------------------------------------------------------------
(* The agent at work in the worktree, also one that outlived its timeout.   *)

Editing == at = "agent" \/ (lingering = "yes" /\ at # "end")

AgentEdits(kind) ==
    /\ Editing /\ edits < MaxEdits
    /\ edits' = edits + 1
    /\ tree' = tree \cup {[n |-> edits', kind |-> kind]}
    /\ UNCHANGED <<provider, at, number, head, baseline, diff, before, lingering, discarded, status, agentOutcome>>

AgentReverts(e) ==
    /\ Editing /\ edits < MaxEdits
    /\ e \in tree
    /\ edits' = edits + 1 /\ tree' = tree \ {e}
    /\ UNCHANGED <<provider, at, number, head, baseline, diff, before, lingering, discarded, status, agentOutcome>>

AgentCommits ==
    /\ Editing /\ Dirty
    /\ head' = Tracked(tree)
    /\ UNCHANGED <<provider, at, number, tree, baseline, diff, before, lingering, edits, discarded,
                   status, agentOutcome>>

LingererEnds ==
    /\ lingering = "yes" /\ lingering' = "ended"
    /\ UNCHANGED <<provider, at, number, files, baseline, diff, before, edits, discarded, status, agentOutcome>>

----------------------------------------------------------------------------
(* propose_fix after the run: timeout and error leave the edits where they
   are.                                                                     *)
RunEnds ==
    /\ at = "agent"
    /\ \E o \in Outcomes(provider) :
         /\ lingering' \in {lingering, IF o.lingers THEN "yes" ELSE lingering}
         /\ CASE o.status = "timeout" -> Respond("timeout")
              [] o.status = "error" -> Respond("provider_error")
              [] OTHER -> AgentGoto("capture") /\ UNCHANGED status
    /\ UNCHANGED <<provider, number, files, baseline, diff, before, edits, discarded, agentOutcome>>

(* capture_diff_since: everything staged, against the baseline commit; what
   left the tree is part of the diff as well.                               *)
SinceHead == (Tracked(tree) \ head) \cup (head \ Tracked(tree))    \* mutant: git diff --cached
SinceBaseline == (Tracked(tree) \ baseline) \cup (baseline \ Tracked(tree))
Capture ==
    /\ at = "capture"
    /\ \/ /\ diff' = SinceBaseline
          /\ IF diff' = {} THEN Respond("no_op") ELSE AgentGoto("gate") /\ UNCHANGED status
       \/ Respond("provider_error") /\ UNCHANGED diff
    /\ UNCHANGED <<provider, number, files, baseline, before, lingering, edits, discarded, agentOutcome>>

(* validate_request_patch.                                                  *)
Rejected == \E e \in diff : e.kind = "bad"
Gate ==
    /\ at = "gate"
    /\ IF Rejected THEN AgentGoto("discard") /\ UNCHANGED status ELSE Respond("proposed_patch")
    /\ UNCHANGED <<provider, number, files, baseline, diff, before, lingering, edits, discarded, agentOutcome>>

(* discard_since: reset --hard to the baseline, then clean -fd, which spares
   ignored files.                                                           *)
ResetToBaseline == head' = baseline
Discard ==
    /\ at = "discard"
    /\ ResetToBaseline
    /\ tree' = head' \cup (tree \ Tracked(tree))
    /\ discarded' = "done"
    /\ Respond("provider_error")
    /\ UNCHANGED <<provider, number, baseline, diff, before, lingering, edits, agentOutcome>>

(* One of the two fails: the failure joins the errors of the response.      *)
DiscardFails ==
    /\ at = "discard"
    /\ discarded' = "failed"
    /\ \/ UNCHANGED files
       \/ head' = baseline /\ tree' = baseline \cup (tree \ diff)
    /\ Respond("provider_error")
    /\ UNCHANGED <<provider, number, baseline, diff, before, lingering, edits, agentOutcome>>

----------------------------------------------------------------------------
(* A provider that returns a diff: _settle_diff_returning.                  *)

AskForDiff ==
    /\ at = "ask"
    /\ \E r \in Responses(provider) :
         IF r.status = "proposed_patch" /\ r.diff \in {"good", "bad"} /\ edits < MaxEdits
         THEN /\ diff' = {[n |-> edits + 1, kind |-> r.diff]}
              /\ edits' = edits + 1
              /\ AgentGoto("check") /\ UNCHANGED status
         ELSE /\ Respond(IF r.status = "proposed_patch" THEN "provider_error" ELSE r.status)
              /\ UNCHANGED <<diff, edits>>
    /\ UNCHANGED <<provider, number, files, baseline, before, lingering, discarded, agentOutcome>>

(* The gate, apply --check and apply, which changes all files or none.      *)
ApplyDiff ==
    /\ at = "check"
    /\ \/ /\ ~Rejected
          /\ tree' = tree \cup diff
          /\ Respond("proposed_patch")
       \/ Respond("provider_error") /\ UNCHANGED tree
    /\ UNCHANGED <<provider, number, head, baseline, diff, before, lingering, edits, discarded, agentOutcome>>

----------------------------------------------------------------------------
(* _to_outcome: a completed attempt fails when the output callback raises.  *)
ToOutcome ==
    /\ at = "settled"
    /\ agentOutcome' \in IF Completed(status) THEN {"completed", "failed"} ELSE {"failed"}
    /\ status' = IF agentOutcome' = "failed" /\ Completed(status) THEN "provider_error" ELSE status
    /\ AgentGoto(IF agentOutcome' = "failed" /\ number < AgentAttempts THEN "retry" ELSE "end")
    /\ UNCHANGED <<provider, number, files, baseline, diff, before, lingering, edits, discarded>>

(* The next attempt of the step executor.                                   *)
Retry ==
    /\ at = "retry"
    /\ number' = number + 1 /\ status' = "none" /\ agentOutcome' = "none" /\ diff' = {}
    /\ AgentGoto("begin")
    /\ UNCHANGED <<provider, files, baseline, before, lingering, edits, discarded>>

AgentNext ==
    \/ Begin \/ ResolveBaseline \/ BaselineFails
    \/ \E kind \in {"good", "bad", "ignored"} : AgentEdits(kind)
    \/ \E e \in tree : AgentReverts(e)
    \/ AgentCommits \/ LingererEnds
    \/ RunEnds \/ Capture \/ Gate \/ Discard \/ DiscardFails
    \/ AskForDiff \/ ApplyDiff \/ ToOutcome \/ Retry

AgentSpec == AgentInit /\ [][AgentNext]_agentVars

----------------------------------------------------------------------------
(* Properties.                                                              *)

(* The variables have the values the code gives them.                       *)
AgentTypeOK ==
    /\ provider \in Tokens /\ number \in 1 .. AgentAttempts
    /\ at \in {"begin", "baseline", "ask", "agent", "capture", "gate", "discard", "check",
               "settled", "retry", "end"}
    /\ tree \cup head \cup baseline \cup diff \cup before \subseteq Edit
    /\ lingering \in {"never", "yes", "ended"} /\ edits \in 0 .. MaxEdits
    /\ discarded \in {"no", "done", "failed"}
    /\ status \in ResponseStatuses \cup {"none"} /\ agentOutcome \in {"none", "completed", "failed"}

(* Edits that the gate rejects are gone, commits of the agent included, and
   the WIP overlay and earlier attempts' accepted edits are as they were
   (cli_mutation.py:95, mutation_git.py:107).  Ignored files escape git; a
   timed-out SDK thread that still edits is outside the promise.            *)
RejectedLeavesNothing ==
    at = "settled" /\ discarded = "done" /\ lingering = "never" => Tracked(tree) = Tracked(before) /\ ~Dirty

(* An attempt that completes has added nothing the gate would reject,
   whether the agent committed it or not.                                   *)
NothingUngated ==
    agentOutcome = "completed" /\ lingering = "never" =>
        \A e \in Tracked(tree) \ before : e.kind = "good"

(* What makes them inductive.  A step has an outcome once an attempt ended, is
   retried within its attempts, and discards nothing before an attempt ends. *)
OutcomeAtEnd ==
    /\ agentOutcome # "none" => at \in {"retry", "end"}
    /\ agentOutcome = "completed" => at = "end"
    /\ at = "retry" => number < AgentAttempts
    /\ discarded # "no" => at \in {"settled", "retry", "begin", "end"}

(* Until the agent works nobody edits the worktree, and the baseline it works
   against is the worktree as it was, without the ignored files.             *)
BaselineInHand ==
    lingering = "never" =>
        /\ at \in {"baseline", "ask", "check"} => tree = before
        /\ at \in {"agent", "capture", "gate", "discard"} => baseline = Tracked(before)

(* The diff the gate looks at is all the agent has done.                    *)
DiffInHand ==
    /\ lingering = "never" /\ at = "gate" => diff = SinceBaseline
    /\ lingering = "never" /\ at = "settled" /\ Completed(status) =>
         \A e \in Tracked(tree) \ before : e.kind = "good"

AgentIInv ==
    /\ AgentTypeOK /\ OutcomeAtEnd /\ BaselineInHand /\ DiffInHand
    /\ RejectedLeavesNothing /\ NothingUngated
=============================================================================
