------------------------------ MODULE Conditions ------------------------------
(***************************************************************************)
(* core/catalog/definitions/conditions.py and engine/executors/conditions.py: *)
(* the `until` conditions of a loop, checked when the blueprint is loaded and *)
(* evaluated after every iteration against the results of its body.          *)
(***************************************************************************)
EXTENDS Integers, FiniteSets

CONSTANTS
    Expressions,    \* conditions as authored
    BodyIds,        \* the steps of the loop's body
    Results,        \* [step -> its result], sets of which; a skipped step has none
    MaxIterations   \* bound: iterations of the loop

ASSUME ConditionAssumption == (\A r \in Results : DOMAIN r \subseteq BodyIds) /\ MaxIterations \in Nat

VARIABLES
    expr,           \* the condition
    accepted,       \* what validation said
    iteration, results, verdict

cvars == <<expr, accepted, iteration, results, verdict>>

(* Values keep their Python type: the comparison depends on it.             *)
Digits == [n \in 0..2 |-> CASE n = 0 -> "0" [] n = 1 -> "1" [] n = 2 -> "2"]
Nothing == [type |-> "none", n |-> 0, text |-> ""]
Num(n) == [type |-> "num", n |-> n, text |-> Digits[n]]
Str(s) == [type |-> "text", n |-> 0, text |-> s]
IsNumeric(value) == value.type = "num"

Operators == {"==", "!=", ">=", "<=", ">", "<", "contains"}
StepFields == {"exit_code", "outputs", "status", "stdout"}

(* parse_condition_expression.                                              *)
Parses(e) == e.op \in Operators /\ e.left.kind # "blank" /\ e.right.kind # "blank"

(* _validate_step_operand: steps.<id>.<field>, and the id is of the body.    *)
AnyField(o) == o.parts >= 3 /\ o.id \in BodyIds         \* mutant: any field may be named
StepOperand(o) == o.parts >= 3 /\ o.id \in BodyIds /\ o.field \in StepFields
Operand(o) == o.kind = "step" => StepOperand(o)
Dynamic(o) == o.kind \in {"step", "iteration"}
Validates(e) ==
    /\ Parses(e)
    /\ Operand(e.left) /\ Operand(e.right)
    /\ Dynamic(e.left) \/ Dynamic(e.right)

(* _resolve_json_path: the keys of an object, one after the other.           *)
JsonPath(document, path) == IF path \in DOMAIN document THEN document[path] ELSE Nothing
StepField(result, o) ==
    CASE o.field = "exit_code" -> Num(result.exit_code)
      [] o.field = "status" -> Str(result.status)
      [] o.field = "stdout" -> Str(result.stdout)
      [] o.field = "outputs" -> JsonPath(result.json, o.path)
      [] OTHER -> Nothing

Value(o) ==
    CASE o.kind = "iteration" -> Num(iteration)
      [] o.kind = "step" ->
            IF o.parts >= 3
            THEN IF o.id \in DOMAIN results THEN StepField(results[o.id], o) ELSE Nothing
            ELSE Str("steps")
      [] o.kind = "literal" -> o.value

(* Two numbers compare as numbers, anything else only for equality; contains
   looks in the text of the left side.                                      *)
Numeric(a, op, b) ==
    CASE op = "==" -> a = b [] op = "!=" -> a # b [] op = ">=" -> a >= b
      [] op = "<=" -> a <= b [] op = ">" -> a > b [] op = "<" -> a < b
Within(part, whole) == part = whole \/ (whole = "all ok" /\ part = "ok")
Equality(a, op, b) == IF op = "==" THEN a = b ELSE op = "!=" /\ a # b

CompareAny(a, op, b) ==                     \* mutant: what is missing differs
    IF op = "contains" THEN Within(b.text, a.text)
    ELSE IF IsNumeric(a) /\ IsNumeric(b) THEN Numeric(a.n, op, b.n)
    ELSE Equality(a, op, b)
Compare(a, op, b) ==
    IF a = Nothing \/ b = Nothing THEN FALSE
    ELSE IF op = "contains" THEN Within(b.text, a.text)
    ELSE IF IsNumeric(a) /\ IsNumeric(b) THEN Numeric(a.n, op, b.n)
    ELSE Equality(a, op, b)

Evaluate(e) == IF ~Parses(e) THEN FALSE ELSE Compare(Value(e.left), e.op, Value(e.right))

----------------------------------------------------------------------------
Start(e) ==
    /\ expr = e /\ accepted = "unknown"
    /\ iteration = 0 /\ results = [i \in {} |-> "none"] /\ verdict = FALSE
ConditionInit == \E e \in Expressions : Start(e)

(* The blueprint is loaded: one bad condition rejects all of it.            *)
Validate ==
    /\ accepted = "unknown"
    /\ accepted' = IF Validates(expr) THEN "yes" ELSE "no"
    /\ UNCHANGED <<expr, iteration, results, verdict>>

(* An iteration ends and the condition is evaluated.                        *)
Iterate ==
    /\ accepted = "yes" /\ ~verdict /\ iteration < MaxIterations
    /\ UNCHANGED <<expr, accepted>>
    /\ iteration' = iteration + 1
    /\ results' \in Results
    /\ verdict' = Evaluate(expr)'

ConditionNext == Validate \/ Iterate
ConditionSpec == ConditionInit /\ [][ConditionNext]_cvars

----------------------------------------------------------------------------
(* Properties.                                                              *)

(* The variables have the values the code gives them.                       *)
ConditionTypeOK ==
    /\ accepted \in {"unknown", "yes", "no"} /\ verdict \in BOOLEAN
    /\ iteration \in 0..MaxIterations /\ DOMAIN results \subseteq BodyIds

(* A loop never ends because something is missing: a step that did not run,
   output that is not JSON or lacks the key, also with "!=".                 *)
Absent(o) ==
    o.kind = "step" /\ o.parts >= 3 /\
        (o.id \notin DOMAIN results \/
            (o.field = "outputs" /\ o.path \notin DOMAIN results[o.id].json))
AbsentNeverPasses == verdict => ~Absent(expr.left) /\ ~Absent(expr.right)

(* A condition of an accepted blueprint can be decided: when every step of
   the body has run and the outputs it names are there, it compares values,
   never a misspelt reference.                                              *)
AcceptedIsDecidable ==
    accepted = "yes" /\ iteration > 0 /\ DOMAIN results = BodyIds =>
        \A o \in {expr.left, expr.right} :
            o.kind = "step" => (Value(o) # Nothing \/ o.field = "outputs") /\ o.id \in DOMAIN results

(* Conditions: a missing operand never ends a loop, and an accepted one can
   be decided.                                                              *)
MissingNeverPasses == ConditionTypeOK /\ AbsentNeverPasses /\ AcceptedIsDecidable

(* What makes them inductive: only what was validated is evaluated.         *)
ConditionIInv ==
    /\ ConditionTypeOK /\ AbsentNeverPasses
    /\ accepted = "yes" => Validates(expr)
    /\ accepted # "yes" => ~verdict
=============================================================================
