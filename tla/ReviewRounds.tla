----------------------------- MODULE ReviewRounds -----------------------------
(***************************************************************************)
(* bin/dovo-loop.py, the driver the project is developed with: it has one     *)
(* agent session plan, others implement and review until a review approves,   *)
(* and one push.  The sessions share nothing but the files they leave: the    *)
(* working tree, .agentic/plan.md and .agentic/review.json.                  *)
(***************************************************************************)
EXTENDS Naturals

CONSTANTS
    MaxRounds,      \* --max-rounds
    MaxCommands,    \* bound: calls of the driver
    MaxSources      \* bound: sessions that change the tree

ASSUME RoundAssumption == MaxRounds \in Nat \ {0} /\ MaxCommands \in Nat /\ MaxSources \in Nat \ {0}

VARIABLES
    plan,           \* .agentic/plan.md exists
    review,         \* .agentic/review.json
    rounds,         \* .agentic/rounds: [round -> review.json of the round]
    sources,        \* the version of the working tree
    pushed,         \* the version pushed last
    stage,          \* where the driver is
    options,        \* --push and --dry-run of its call
    round,
    fresh,          \* review.json was not there when the call began
    calls

rvars == <<plan, review, rounds, sources, pushed, stage, options, round, fresh, calls>>

Absent == [verdict |-> "absent", blocking |-> 0, of |-> 0]
Verdicts == {"APPROVE", "CHANGES_REQUIRED", "unrecognized"}

RoundInit ==
    /\ plan = FALSE /\ review = Absent /\ sources = 1 /\ pushed = 0
    /\ rounds = [n \in 1..MaxRounds |-> Absent]
    /\ stage = "idle" /\ options = [push |-> FALSE, dry_run |-> FALSE]
    /\ round = 0 /\ fresh = TRUE /\ calls = 0

Call == stage = "idle" /\ calls < MaxCommands /\ calls' = calls + 1

(* command_plan: whatever the session's exit code, the file counts.         *)
CommandPlan ==
    /\ Call
    /\ plan' \in {plan, TRUE}
    /\ UNCHANGED <<review, rounds, sources, pushed, stage, options, round, fresh>>

CommandRun ==
    /\ Call
    /\ options' \in [push : BOOLEAN, dry_run : BOOLEAN]
    /\ plan \/ options'.dry_run
    /\ stage' = "code" /\ round' = 1 /\ fresh' = (review = Absent)
    /\ UNCHANGED <<plan, review, rounds, sources, pushed>>

(* run_phase of a code session: an unchanged tree is only a warning.        *)
CodeSession ==
    /\ stage = "code"
    /\ sources' \in {sources} \cup {v \in {sources + 1} : ~options.dry_run /\ v <= MaxSources}
    /\ stage' = "review"
    /\ UNCHANGED <<plan, review, rounds, pushed, options, round, fresh, calls>>

(* Of a review session: it writes a verdict, or ends without one.           *)
ReviewSession ==
    /\ stage = "review"
    /\ \/ UNCHANGED review
       \/ ~options.dry_run /\ review' \in [verdict : Verdicts, blocking : {0, 1}, of : {sources}]
    /\ stage' = "read"
    /\ UNCHANGED <<plan, rounds, sources, pushed, options, round, fresh, calls>>

(* read_verdict.                                                            *)
RecognizedOnly(r) == r.verdict \in {"APPROVE", "CHANGES_REQUIRED"}     \* mutant: the counts are not compared
Readable(r) ==
    /\ r.verdict \in {"APPROVE", "CHANGES_REQUIRED"}
    /\ r.verdict = "APPROVE" <=> r.blocking = 0

ReadVerdict ==
    /\ stage = "read" /\ ~options.dry_run
    /\ IF ~Readable(review) THEN stage' = "idle" /\ UNCHANGED <<rounds, round>>
       ELSE /\ rounds' = [rounds EXCEPT ![round] = review]
            /\ IF review.verdict = "APPROVE" THEN stage' = (IF options.push THEN "push" ELSE "idle") /\ UNCHANGED round
               ELSE IF round < MaxRounds THEN stage' = "code" /\ round' = round + 1
               ELSE stage' = "idle" /\ UNCHANGED round
    /\ UNCHANGED <<plan, review, sources, pushed, options, fresh, calls>>

(* A dry run approves.                                                      *)
DryVerdict ==
    /\ stage = "read" /\ options.dry_run
    /\ stage' = (IF options.push THEN "push" ELSE "idle")
    /\ UNCHANGED <<plan, review, rounds, sources, pushed, options, round, fresh, calls>>

PushSession ==
    /\ stage = "push"
    /\ pushed' \in {pushed} \cup {v \in {sources} : ~options.dry_run}
    /\ stage' = "idle"
    /\ UNCHANGED <<plan, review, rounds, sources, options, round, fresh, calls>>

(* git fails, the host of a session is not there, or the user interrupts.   *)
Fails ==
    /\ stage # "idle" /\ stage' = "idle"
    /\ UNCHANGED <<plan, review, rounds, sources, pushed, options, round, fresh, calls>>

(* The user begins anew.                                                    *)
CleanUp ==
    /\ stage = "idle" /\ plan
    /\ plan' = FALSE /\ review' = Absent /\ rounds' = [n \in 1..MaxRounds |-> Absent]
    /\ UNCHANGED <<sources, pushed, stage, options, round, fresh, calls>>

RoundNext ==
    \/ CommandPlan \/ CommandRun \/ CodeSession \/ ReviewSession \/ ReadVerdict \/ DryVerdict
    \/ PushSession \/ Fails \/ CleanUp
RoundSpec == RoundInit /\ [][RoundNext]_rvars

----------------------------------------------------------------------------
(* Properties.                                                              *)

(* The variables have the values the code gives them.                       *)
Reviews == {Absent} \cup [verdict : Verdicts, blocking : {0, 1}, of : 1..sources]
RoundTypeOK ==
    /\ plan \in BOOLEAN /\ round \in 0..MaxRounds /\ sources \in 1..MaxSources /\ pushed \in 0..sources
    /\ stage \in {"idle", "code", "review", "read", "push"}
    /\ options \in [push : BOOLEAN, dry_run : BOOLEAN] /\ fresh \in BOOLEAN /\ calls \in 0..MaxCommands
    /\ review \in Reviews /\ rounds \in [1..MaxRounds -> Reviews]

(* What is pushed was approved, without a blocking finding, by a review of the
   tree as the last code session left it, also when a review session ends
   without a verdict and the file of an earlier round is read again.  (Not so
   when a review.json of an earlier call is still there, see PushIsReviewed.) *)
PushedIsApproved ==
    stage = "push" /\ ~options.dry_run /\ fresh => review = [verdict |-> "APPROVE", blocking |-> 0, of |-> sources]

(* What makes it inductive.  A call that began without a review.json, and whose
   reviews have not approved yet, finds an approval only of the tree as it is. *)
FreshVerdict ==
    fresh /\ ~options.dry_run =>
        /\ stage \in {"code", "review"} => review.verdict # "APPROVE"
        /\ stage = "read" /\ review.verdict = "APPROVE" => review.of = sources

RoundIInv == RoundTypeOK /\ FreshVerdict /\ PushedIsApproved

(* What read_verdict says ("the review session produced no verdict") would
   give without that exception.                                              *)
PushIsReviewed == stage = "push" /\ ~options.dry_run => review.of = sources
=============================================================================
