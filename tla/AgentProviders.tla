--------------------------- MODULE AgentProviders ---------------------------
(***************************************************************************)
(* core/agents: how the reply of each provider is classified.  A provider   *)
(* either returns a diff, and its reply becomes an AgentResponse at once, or *)
(* edits the worktree itself, and its reply becomes a CliMutationOutcome     *)
(* that the shared adapter turns into a response after looking at git.       *)
(* Texts are abstracted to what the code tells apart.                        *)
(***************************************************************************)
EXTENDS Naturals

(* The registry: kind, and what the adapter requires before it runs.        *)
PROVIDERS ==
    [local   |-> [kind |-> "diff_returning", model |-> FALSE, credential |-> FALSE],
     ollama  |-> [kind |-> "diff_returning", model |-> TRUE, credential |-> FALSE],
     cursor  |-> [kind |-> "direct_mutation", model |-> TRUE, credential |-> TRUE],
     gemini  |-> [kind |-> "direct_mutation", model |-> FALSE, credential |-> TRUE],
     copilot |-> [kind |-> "direct_mutation", model |-> FALSE, credential |-> TRUE]]

Tokens == DOMAIN PROVIDERS
DirectMutation == {p \in Tokens : PROVIDERS[p].kind = "direct_mutation"}

(* AgentResponseStatus, and the exit code of the step for each.             *)
AGENT_OUTCOME_EXIT_CODES ==
    [proposed_patch |-> 0, no_op |-> 0, unfixable |-> 201, timeout |-> 202, provider_error |-> 203]
ResponseStatuses == DOMAIN AGENT_OUTCOME_EXIT_CODES
Completed(status) == status \in {"proposed_patch", "no_op"}

(* A diff as the patch gate sees it: absent, blank, acceptable, or rejected
   for its size, its paths or its binary content.                           *)
Diffs == {"none", "blank", "good", "bad"}

----------------------------------------------------------------------------
(* Providers that return a diff.                                            *)

(* The JSON object of LocalAgentStdout and OllamaModelStdout.               *)
Answer == [unfixable : BOOLEAN, diff : Diffs]

AnswerStatus(answer) ==
    IF answer.unfixable THEN "unfixable"
    ELSE IF answer.diff = "none" THEN "no_op" ELSE "proposed_patch"

(* The local executable: its exit code only decorates an error.             *)
LocalReply ==
    [ran : {"timeout", "not_started", "exited"}, exit : {0, 1},
     stdout : {"empty", "not_json", "bad_schema", "object"}, answer : Answer]

LocalStatus(r) ==
    CASE r.ran = "timeout" -> "timeout"
      [] r.ran = "not_started" -> "provider_error"
      [] r.stdout # "object" -> "provider_error"
      [] OTHER -> AnswerStatus(r.answer)

(* The Ollama server: the timeout is recognised by the exception or by the
   text of its reason; an answer without a JSON object is unfixable, every
   other malformed reply a provider error.                                  *)
OllamaReply ==
    [endpoint : BOOLEAN, http : {"timed_out", "reason_timeout", "unreachable", "status", "ok"},
     body : {"not_json", "not_object", "no_content", "prose", "object"}, answer : Answer]

OllamaStatus(r) ==
    CASE ~r.endpoint -> "provider_error"
      [] r.http \in {"timed_out", "reason_timeout"} -> "timeout"
      [] r.http # "ok" -> "provider_error"
      [] r.body \in {"not_json", "not_object", "no_content"} -> "provider_error"
      [] r.body = "prose" -> "unfixable"
      [] OTHER -> AnswerStatus(r.answer)

----------------------------------------------------------------------------
(* Providers that edit the worktree: "finished", "timeout" or "error".      *)

(* The SDK thread that is still alive at the timeout is cancelled, if it can
   be, and counts as timed out whatever it returns afterwards.              *)
CursorReply ==
    [sdk : BOOLEAN, late : BOOLEAN, raised : BOOLEAN,
     result : {"none", "finished", "cancelled", "timeout", "error", "expired", "unknown"}]

CursorOutcome(r) ==
    CASE ~r.sdk -> "error"
      [] r.late -> "timeout"
      [] r.raised -> "error"
      [] r.result = "finished" -> "finished"
      [] r.result \in {"cancelled", "timeout"} -> "timeout"
      [] OTHER -> "error"

GeminiReply ==
    [ran : {"timeout", "not_started", "exited"}, exit : {0, 1},
     stdout : {"empty", "not_json", "not_object", "no_response", "response"}]

GeminiOutcome(r) ==
    CASE r.ran = "timeout" -> "timeout"
      [] r.ran = "not_started" -> "error"
      [] r.exit # 0 -> "error"
      [] r.stdout = "response" -> "finished"
      [] OTHER -> "error"

(* The JSONL stream of the Copilot CLI: the first line that is not JSON
   spoils it, the last result event gives the exit code.                    *)
CopilotReply ==
    [ran : {"timeout", "not_started", "exited"}, exit : {0, 1},
     stdout : {"empty", "bad_line", "no_result", "result_0", "result_1"}]

CopilotOutcome(r) ==
    CASE r.ran = "timeout" -> "timeout"
      [] r.ran = "not_started" -> "error"
      [] r.exit # 0 -> "error"
      [] r.stdout \in {"no_result", "result_0"} -> "finished"
      [] OTHER -> "error"

----------------------------------------------------------------------------
(* What a provider may come back with: a status and a diff, or an outcome
   and whether a thread of it goes on working in the worktree.              *)
Responses(provider) ==
    IF provider = "local"
    THEN {[status |-> LocalStatus(r), diff |-> r.answer.diff] : r \in LocalReply}
    ELSE {[status |-> OllamaStatus(r), diff |-> r.answer.diff] : r \in OllamaReply}

Outcomes(provider) ==
    CASE provider = "cursor" ->
           {[status |-> CursorOutcome(r), lingers |-> r.sdk /\ r.late] : r \in CursorReply}
      [] provider = "gemini" -> {[status |-> GeminiOutcome(r), lingers |-> FALSE] : r \in GeminiReply}
      [] provider = "copilot" -> {[status |-> CopilotOutcome(r), lingers |-> FALSE] : r \in CopilotReply}
=============================================================================
