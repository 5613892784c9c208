----------------------------- MODULE StepProcess -----------------------------
(***************************************************************************)
(* engine/executors/step_executor.py and common/process.py: one step is     *)
(* executed in one or more attempts.  An attempt starts a process in a      *)
(* group of its own, streams its output through a reader thread, waits with *)
(* a timeout, terminates the group and classifies what came out.  The       *)
(* process may start a helper that outlives it, and a signal may unwind the *)
(* main thread between any two of its actions.                              *)
(***************************************************************************)
EXTENDS Naturals, FiniteSets

CONSTANTS
    MaxAttempts,    \* bound: on_failure.max_retries
    MaxLines        \* bound: lines the processes of one attempt print

ASSUME StepAssumption == MaxAttempts \in Nat \ {0} /\ MaxLines \in Nat

VARIABLES
    step,       \* the definition: attempts, escalation, timeout, assertions
    pc,         \* where the main thread is
    then,       \* where it goes on after terminating a group
    attempt,    \* the current attempt
    leader,     \* its process: "none", "running", "zombie" or "reaped"
    code,       \* the exit code of that
    helper,     \* a process it started in the group: "none", "running" or "gone"
    stubborn,   \* the two ignore SIGTERM
    registered, \* the group is in process_registry
    written, collected, \* lines printed to the pipe, and lines kept by the reader
    reader,     \* the thread that reads the pipe: "none", "reading" or "done"
    log,        \* the attempt log: "off", "open" or "closed"
    pipeError,  \* an output callback raised, or the pipe could not be read
    timedOut,
    outcome,    \* of the attempt: "none", "completed" or "failed"
    outfile,    \* the attempts that wrote the pairs in the step's output file
    strays,     \* earlier attempts that left a helper behind
    struck,     \* where the signal hit the main thread, or "nowhere"
    result      \* status of the StepResult, or "none"

group == <<leader, code, helper, stubborn>>
pipes == <<written, collected, reader, log, pipeError>>
flow == <<then, attempt, timedOut, outcome, result>>
vars == <<step, pc, group, registered, pipes, flow, outfile, strays, struck>>

StepDefinition == [retry : BOOLEAN, escalation : {"abort", "continue"},
                   timeout : BOOLEAN, asserts : BOOLEAN]
PCs == {"prepare", "attempt", "spawned", "registered", "wait", "term", "grace", "rewait",
        "leave", "join", "classify", "assert", "backoff", "finish", "done",
        "unwind", "closed"}

Goto(label) == pc' = label
GroupGone == leader \in {"none", "reaped"} /\ helper # "running"
unread == written - collected
PipeOpen == leader = "running" \/ helper = "running"
Budget == IF step.retry THEN MaxAttempts ELSE 1

----------------------------------------------------------------------------
(* run() and _prepare().                                                    *)

(* No worktree, or a shorthand that does not resolve: nothing is run.       *)
Prepare ==
    /\ pc = "prepare"
    /\ \/ Goto("attempt") /\ UNCHANGED result
       \/ Goto("done") /\ result' = "failed"
    /\ UNCHANGED <<step, group, registered, pipes, then, attempt, timedOut, outcome, outfile, strays, struck>>

(* _reset_step_output_file.                                                 *)
KeepOutputs == UNCHANGED outfile            \* mutant: the file is only created
ResetOutputs == outfile' = {}

(* _run_process: a log that cannot be opened is only a warning.             *)
Spawn ==
    /\ pc = "attempt"
    /\ ResetOutputs
    /\ leader' = "running" /\ code' = 0 /\ helper' = "none"
    /\ stubborn' \in BOOLEAN
    /\ written' = 0 /\ collected' = 0
    /\ pipeError' = FALSE /\ reader' = "none"
    /\ log' \in {"off", "open"}
    /\ timedOut' = FALSE /\ outcome' = "none"
    /\ Goto("spawned")
    /\ UNCHANGED <<step, registered, then, attempt, result, strays, struck>>

(* A script that is not there, a command that cannot be started, an internal
   command: no process.                                                     *)
Dispatch ==
    /\ pc = "attempt"
    /\ ResetOutputs
    /\ outcome' \in {"failed", "completed"}
    /\ leader' = "none" /\ helper' = "none" /\ timedOut' = FALSE
    /\ Goto("assert")
    /\ UNCHANGED <<step, code, stubborn, registered, pipes, then, attempt, result, strays, struck>>

Register ==
    /\ pc = "spawned"
    /\ registered' = TRUE
    /\ Goto("registered")
    /\ UNCHANGED <<step, group, pipes, flow, outfile, strays, struck>>

StartReaders ==
    /\ pc = "registered"
    /\ reader' = "reading"
    /\ Goto("wait")
    /\ UNCHANGED <<step, group, registered, written, collected, log, pipeError, flow,
                   outfile, strays, struck>>

----------------------------------------------------------------------------
(* The processes of the group, and the reader thread.                       *)

PrintLine ==
    /\ PipeOpen /\ written < MaxLines
    /\ written' = written + 1
    /\ UNCHANGED <<step, pc, group, registered, collected, reader, log, pipeError,
                   flow, outfile, strays, struck>>

(* KEY=VALUE lines to $DOVO_OUTPUT, also by a helper of an earlier attempt. *)
WriteOutputs(n) ==
    /\ (n = attempt /\ PipeOpen) \/ n \in strays
    /\ n \notin outfile /\ outfile' = outfile \cup {n}
    /\ UNCHANGED <<step, pc, group, registered, pipes, flow, strays, struck>>

Fork ==
    /\ leader = "running" /\ helper = "none"
    /\ helper' = "running"
    /\ UNCHANGED <<step, pc, leader, code, stubborn, registered, pipes, flow, outfile, strays, struck>>

LeaderExits ==
    /\ leader = "running"
    /\ leader' = "zombie" /\ code' \in {0, 1}
    /\ UNCHANGED <<step, pc, helper, stubborn, registered, pipes, flow, outfile, strays, struck>>

HelperExits ==
    /\ helper = "running" /\ helper' = "gone"
    /\ UNCHANGED <<step, pc, leader, code, stubborn, registered, pipes, flow, outfile, strays, struck>>

(* _stream_pipe: a line is kept, then given to the callback, which may raise,
   then logged, unless writing fails, which ends the logging.               *)
ReadLine ==
    /\ reader = "reading" /\ unread > 0
    /\ collected' = collected + 1
    /\ pipeError' \in {pipeError, TRUE}
    /\ log' \in {log, IF log = "open" THEN "closed" ELSE log}
    /\ UNCHANGED <<step, pc, group, registered, written, reader, flow, outfile, strays, struck>>

ReaderEnds ==
    /\ reader = "reading" /\ unread = 0 /\ ~PipeOpen
    /\ reader' = "done"
    /\ log' = IF log = "open" THEN "closed" ELSE log
    /\ UNCHANGED <<step, pc, group, registered, written, collected, pipeError, flow,
                   outfile, strays, struck>>

----------------------------------------------------------------------------
(* Waiting, and terminate_process_tree.                                     *)

(* proc.wait() reaps the leader.                                            *)
Exited ==
    /\ pc = "wait" /\ leader = "zombie"
    /\ leader' = "reaped"
    /\ Goto("leave")
    /\ UNCHANGED <<step, code, helper, stubborn, registered, pipes, flow, outfile, strays, struck>>

Terminate(next) == Goto("term") /\ then' = next

TimesOut ==
    /\ pc = "wait" /\ step.timeout /\ leader = "running"
    /\ timedOut' = TRUE
    /\ Terminate("rewait")
    /\ UNCHANGED <<step, group, registered, pipes, attempt, outcome, result, outfile, strays, struck>>

(* SIGTERM to the group.                                                    *)
TermGroup ==
    /\ pc = "term"
    /\ IF leader = "running" /\ ~stubborn
       THEN leader' = "zombie" /\ code' = 143
       ELSE UNCHANGED <<leader, code>>
    /\ helper' = IF helper = "running" /\ ~stubborn THEN "gone" ELSE helper
    /\ Goto("grace")
    /\ UNCHANGED <<step, stubborn, registered, pipes, flow, outfile, strays, struck>>

(* The grace period passes - a leader that nobody has reaped counts as alive -
   then SIGKILL to the group, and the leader is reaped.                     *)
LeaderExited == leader \in {"zombie", "reaped"}     \* mutant: only the leader is polled
GroupExited == GroupGone
KillGroup ==
    /\ pc = "grace"
    /\ helper' = IF helper = "running" /\ ~GroupExited THEN "gone" ELSE helper
    /\ leader' = IF leader \in {"running", "zombie"} THEN "reaped" ELSE leader
    /\ Goto(then)
    /\ UNCHANGED <<step, code, stubborn, registered, pipes, flow, outfile, strays, struck>>

Rewait ==
    /\ pc = "rewait"
    /\ Goto("leave")
    /\ UNCHANGED <<step, group, registered, pipes, flow, outfile, strays, struck>>

(* The finally block: unregistered, then terminated only if the leader runs. *)
Leave ==
    /\ pc = "leave"
    /\ registered' = FALSE
    /\ IF leader = "running"
       THEN Terminate("join") /\ UNCHANGED leader
       ELSE Goto("join") /\ leader' = "reaped" /\ UNCHANGED then
    /\ UNCHANGED <<step, code, helper, stubborn, pipes, attempt, timedOut, outcome, result,
                   outfile, strays, struck>>

(* thread.join(timeout=2): the reader has ended, or two seconds are over and
   it is left reading, whether somebody holds the pipe open or it is slow.  *)
JoinForever == reader = "done"              \* mutant: join without a timeout
ReaderJoined == reader \in {"done", "reading"}
Join ==
    /\ pc = "join"
    /\ ReaderJoined
    /\ Goto(IF struck = "nowhere" THEN "classify" ELSE "unwind")
    /\ UNCHANGED <<step, group, registered, pipes, flow, outfile, strays, struck>>

----------------------------------------------------------------------------
(* The outcome of the attempt, the next one, and the result of the step.    *)

ClassifyTimeout ==                          \* mutant: an outcome that StepResult does not know
    /\ pc = "classify"
    /\ outcome' = IF timedOut THEN "timeout" ELSE IF pipeError \/ code # 0 THEN "failed" ELSE "completed"
    /\ Goto("assert")
    /\ UNCHANGED <<step, group, registered, pipes, then, attempt, timedOut, result, outfile, strays, struck>>

Classify ==
    /\ pc = "classify"
    /\ outcome' = IF pipeError \/ timedOut \/ code # 0 THEN "failed" ELSE "completed"
    /\ Goto("assert")
    /\ UNCHANGED <<step, group, registered, pipes, then, attempt, timedOut, result, outfile, strays, struck>>

(* _apply_assertions downgrades a completed attempt; then the loop of
   _run_attempts returns it, sleeps before the next, or is exhausted.       *)
Judge ==
    /\ pc = "assert"
    /\ outcome' \in IF outcome = "completed" /\ step.asserts THEN {"completed", "failed"} ELSE {outcome}
    /\ Goto(IF outcome' = "failed" /\ attempt < Budget THEN "backoff" ELSE "finish")
    /\ UNCHANGED <<step, group, registered, pipes, then, attempt, timedOut, result, outfile, strays, struck>>

NextAttempt ==
    /\ pc = "backoff"
    /\ attempt' = attempt + 1
    /\ strays' = IF helper = "running" THEN strays \cup {attempt} ELSE strays
    /\ helper' = "none" /\ leader' = "none"
    /\ Goto("attempt")
    /\ UNCHANGED <<step, code, stubborn, registered, pipes, then, timedOut, outcome, outfile, result, struck>>

(* _collect_step_outputs and _finalize_failure.                             *)
Finish ==
    /\ pc = "finish"
    /\ result' = IF outcome = "failed" /\ step.escalation = "continue" THEN "ignored" ELSE outcome
    /\ Goto("done")
    /\ UNCHANGED <<step, group, registered, pipes, then, attempt, timedOut, outcome, outfile, strays, struck>>

----------------------------------------------------------------------------
(* A signal raises SystemExit in the main thread.  In the wait the group is
   terminated first; while a timed-out group is being terminated only the
   finally block runs; elsewhere the exception just passes.                 *)
Strike ==
    /\ struck = "nowhere" /\ pc \notin {"done", "unwind", "closed"}
    /\ struck' = pc
    /\ CASE pc = "wait" -> Terminate("leave")
         [] pc \in {"term", "grace"} /\ then = "rewait" -> Goto("leave") /\ UNCHANGED then
         [] pc = "rewait" -> Goto("leave") /\ UNCHANGED then
         [] OTHER -> Goto("unwind") /\ UNCHANGED then
    /\ UNCHANGED <<step, group, registered, pipes, attempt, timedOut, outcome, result, outfile, strays>>

(* RunSession._close: process_registry.terminate_all.                       *)
Close ==
    /\ pc = "unwind"
    /\ registered' = FALSE
    /\ IF registered THEN Terminate("closed") ELSE Goto("closed") /\ UNCHANGED then
    /\ UNCHANGED <<step, group, pipes, attempt, timedOut, outcome, result, outfile, strays, struck>>

Init ==
    /\ step \in StepDefinition
    /\ pc = "prepare" /\ then = "none" /\ attempt = 1
    /\ leader = "none" /\ code = 0 /\ helper = "none" /\ stubborn = FALSE
    /\ registered = FALSE
    /\ written = 0 /\ collected = 0
    /\ reader = "none" /\ log = "off" /\ pipeError = FALSE
    /\ timedOut = FALSE /\ outcome = "none" /\ outfile = {} /\ strays = {}
    /\ struck = "nowhere" /\ result = "none"

Main ==
    \/ Prepare \/ Spawn \/ Dispatch \/ Register \/ StartReaders
    \/ Exited \/ TimesOut \/ TermGroup \/ KillGroup \/ Rewait \/ Leave \/ Join
    \/ Classify \/ Judge \/ NextAttempt \/ Finish \/ Close
Reader == ReadLine \/ ReaderEnds
Processes ==        \* nothing looks at them once the step has ended
    /\ pc \notin {"done", "closed"}
    /\ \/ PrintLine \/ Fork \/ LeaderExits \/ HelperExits
       \/ \E n \in 1 .. MaxAttempts : WriteOutputs(n)

Next == Main \/ Reader \/ Processes \/ Strike

Spec == Init /\ [][Next]_vars

(* The program and its reader keep running; a process need not ever exit.   *)
Fairness == WF_vars(Main) /\ WF_vars(Reader)

----------------------------------------------------------------------------
(* Properties.                                                              *)

(* The variables have the values the code gives them.                       *)
CountsOK ==
    /\ attempt \in 1 .. MaxAttempts /\ code \in {0, 1, 143}
    /\ written \in 0 .. MaxLines /\ collected \in 0 .. MaxLines
    /\ outfile \subseteq 1 .. MaxAttempts /\ strays \subseteq 1 .. MaxAttempts

StatesOK ==
    /\ step \in StepDefinition /\ pc \in PCs
    /\ then \in {"none", "rewait", "leave", "join", "closed"}
    /\ leader \in {"none", "running", "zombie", "reaped"} /\ helper \in {"none", "running", "gone"}
    /\ stubborn \in BOOLEAN /\ registered \in BOOLEAN /\ pipeError \in BOOLEAN /\ timedOut \in BOOLEAN
    /\ reader \in {"none", "reading", "done"} /\ log \in {"off", "open", "closed"}
    /\ outcome \in {"none", "completed", "failed"}
    /\ result \in {"none", "completed", "failed", "ignored"}
    /\ struck \in PCs \cup {"nowhere"}

TypeOK == CountsOK /\ StatesOK

(* A timeout, or a signal that finds the group registered or the main thread
   waiting for it, leaves no process of the group behind: the leader is
   reaped and what it started is dead (terminate_process_tree: "Terminate or
   kill a process and its entire child process tree").                      *)
KilledIsDead ==
    \/ /\ timedOut /\ struck = "nowhere"
       /\ pc \in {"leave", "join", "classify", "assert"}
    \/ pc = "closed" /\ struck \in {"registered", "wait", "rewait", "leave"}
    => leader = "reaped" /\ helper # "running"

(* The outputs a step returns are those of its last attempt, unless an
   earlier attempt left a helper behind.                                    *)
OutputsAreFresh == pc = "done" => outfile \subseteq {attempt} \cup strays

(* The variables have the values the code gives them, and one that was killed
   is dead.                                                                 *)
KilledAreDead == TypeOK /\ KilledIsDead

(* What that rests on: a wait is for a process that was started and has not
   timed out, whoever is being terminated has one, what follows a termination
   finds all dead, and the registry is emptied only after that.             *)
Dead == leader = "reaped" /\ helper # "running"
Terminating == pc \in {"term", "grace"}

GroupInHand ==
    /\ pc \in {"spawned", "registered", "wait"} => ~timedOut /\ leader \in {"running", "zombie"}
    /\ Terminating => leader # "none" /\ then # "none"
    /\ Terminating /\ timedOut /\ struck = "nowhere" => then = "rewait"
    /\ pc \in {"registered", "wait", "rewait", "leave"} => registered
    /\ Terminating => (registered <=> then \in {"rewait", "leave"})
    /\ registered => /\ leader # "none"
                     /\ Terminating \/ pc \in {"registered", "wait", "rewait", "leave", "unwind"}

KilledStayDead ==
    /\ pc = "rewait" => Dead
    /\ timedOut /\ struck = "nowhere" /\ pc \in {"leave", "join", "classify", "assert"} => Dead
    /\ struck \in {"wait", "rewait"} =>
          \/ Terminating /\ then \in {"leave", "closed"}
          \/ pc \in {"leave", "join", "unwind", "closed"} /\ Dead
    /\ struck \in {"registered", "leave"} =>
          \/ pc = "unwind" /\ registered
          \/ Terminating /\ then = "closed"
          \/ pc = "closed" /\ Dead
    /\ pc \in {"unwind", "closed"} \/ (Terminating /\ then = "closed") => struck # "nowhere"

(* ... and no later attempt than the definition allows; what is in the output
   file when an attempt has begun was written by it or by a stray.          *)
AttemptAllowed == attempt <= Budget /\ (pc = "backoff" => attempt < Budget)
OutputsOfAttempt ==
    /\ struck = "attempt" => pc \in {"unwind", "closed"} \/ (Terminating /\ then = "closed")
    /\ pc # "attempt" /\ struck # "attempt" => outfile \subseteq {attempt} \cup strays

(* The inductive invariant of a step.                                       *)
IInv == TypeOK /\ GroupInHand /\ KilledStayDead /\ AttemptAllowed /\ OutputsOfAttempt

(* A step with a timeout ends, whatever its processes do.                   *)
StepSettles == [](step.timeout => <>(pc \in {"done", "closed"}))
=============================================================================
