----------------------------- MODULE Definitions -----------------------------
(***************************************************************************)
(* core/catalog/definitions and services: what a blueprint document and the  *)
(* steps it uses mean.  A document is a function from the fields its author  *)
(* wrote to their values; a field that is absent takes its default.  Defaults *)
(* are filled in when the document is loaded, references to catalog steps are *)
(* resolved against a store (the catalog, or the snapshot of a run).         *)
(***************************************************************************)
EXTENDS Naturals, Sequences, FiniteSets, SequencesExt

Get(doc, field) == IF field \in DOMAIN doc THEN doc[field] ELSE "none"
Has(doc, field) == Get(doc, field) # "none"
With(doc, field, value) ==
    [f \in DOMAIN doc \cup {field} |-> IF f = field THEN value ELSE doc[f]]

IsLoop(item) == Get(item, "type") = "loop"

----------------------------------------------------------------------------
(* Loading a blueprint: BlueprintDefinition.from_document.                  *)

(* A step without an id takes the slug of its name, or its place.           *)
PlaceIds == <<"step-1", "step-2", "step-3">>
EnsureStepId(item, idx) ==
    IF Has(item, "id") THEN item
    ELSE With(item, "id", IF Has(item, "name") THEN item["name"] ELSE PlaceIds[idx])

(* A bare command is shorthand for run.                                     *)
MapCommand(item) ==
    IF "command" \in DOMAIN item /\ DOMAIN item \cap {"run", "uses", "type"} = {}
    THEN [f \in (DOMAIN item \ {"command"}) \cup {"run"} |->
            IF f = "run" THEN item["command"] ELSE item[f]]
    ELSE item

(* The blueprint's on_failure is written into the steps that omit it, but
   not into a loop or its body.                                             *)
FillOnFailure(item, default) ==
    IF default = "none" \/ "on_failure" \in DOMAIN item \/ IsLoop(item) THEN item
    ELSE With(item, "on_failure", default)

Normalize(blueprint) ==
    [blueprint EXCEPT !.steps = [i \in DOMAIN @ |->
        FillOnFailure(MapCommand(EnsureStepId(@[i], i)), blueprint.on_failure)]]

(* StepDefinition: exactly one mode, checked in this order.                 *)
RunShape(step) == \A f \in {"uses", "command", "type", "prompt", "script_path"} : ~Has(step, f)
InlineShape(step) ==
    CASE step["type"] \in {"command", "internal"} -> Has(step, "command")
      [] step["type"] = "agent" -> Has(step, "prompt")
      [] step["type"] = "script" -> Has(step, "script_path")
StepShape(step) ==
    /\ Has(step, "id")
    /\ IF Has(step, "run") THEN RunShape(step)
       ELSE Has(step, "uses") \/ (Has(step, "type") /\ InlineShape(step))

(* LoopStepBlock: its conditions name steps of its own body.                *)
LoopShape(loop) ==
    /\ Has(loop, "id") /\ loop["do"] # <<>> /\ loop["until"] # {}
    /\ \A i \in DOMAIN loop["do"] : StepShape(loop["do"][i])
    /\ loop["until"] \subseteq {loop["do"][i]["id"] : i \in DOMAIN loop["do"]}

Loads(blueprint) ==
    \A i \in DOMAIN Normalize(blueprint).steps :
        LET item == Normalize(blueprint).steps[i] IN
        IF IsLoop(item) THEN LoopShape(item) ELSE StepShape(item)

(* The steps of a blueprint in order, the bodies of its loops included.     *)
TopLevel(steps) == steps                    \* mutant: loop bodies are not audited
FlatSteps(steps) ==
    FoldLeft(LAMBDA acc, item : acc \o <<item>> \o (IF IsLoop(item) THEN item["do"] ELSE <<>>), <<>>, steps)

----------------------------------------------------------------------------
(* The audits of `blueprint validate`.                                      *)

DuplicateIds(flat) ==
    {flat[i]["id"] : i \in {j \in DOMAIN flat : \E k \in DOMAIN flat : k # j /\ flat[k]["id"] = flat[j]["id"]}}

DuplicateAliases(inputs) ==
    {a \in UNION {inputs[n] : n \in DOMAIN inputs} : Cardinality({n \in DOMAIN inputs : a \in inputs[n]}) > 1}

UnsafeScripts(flat) ==
    {flat[i]["id"] : i \in {j \in DOMAIN flat :
        Get(flat[j], "type") = "script" /\ Get(flat[j], "script_path") = "unsafe"}}

(* Only a warning: an undeclared input is left in the text as it is.        *)
Placeholders(flat) == UNION {flat[i]["refers"] : i \in {j \in DOMAIN flat : "refers" \in DOMAIN flat[j]}}
Undeclared(blueprint, flat) == Placeholders(flat) \ DOMAIN blueprint.inputs

AuditStatus(blueprint) ==
    LET flat == FlatSteps(Normalize(blueprint).steps) IN
    IF ~Loads(blueprint) THEN "invalid"
    ELSE IF DuplicateIds(flat) \cup DuplicateAliases(blueprint.inputs) \cup UnsafeScripts(flat) # {} THEN "invalid"
    ELSE "ok"

----------------------------------------------------------------------------
(* Resolving a step.                                                        *)

(* A run step becomes a command step; neither keeps its artifacts.          *)
RunFields == {"id", "name", "env", "timeout_seconds", "assert", "on_failure"}
ResolveRun(step) ==
    [f \in (RunFields \cap DOMAIN step) \cup {"type", "command"} |->
        CASE f = "type" -> "command" [] f = "command" -> step["run"] [] OTHER -> step[f]]

(* The fields that the using step may set again; what it says wins.         *)
Picked == {"name", "prompt", "script_path", "timeout_seconds", "assert", "on_failure"}
BaseWins(using, base, f) == IF f \in DOMAIN base THEN base[f] ELSE Get(using, f)    \* mutant: the base wins
Pick(using, base, f) == IF f \in DOMAIN using THEN using[f] ELSE Get(base, f)
MergeUses(using, base) ==
    [f \in Picked \cup {"id", "type", "command", "env"} |->
        CASE f = "id" -> using["id"]
          [] f \in {"type", "command"} -> Get(base, f)
          [] f = "env" -> IF Has(using, "env") THEN using["env"] ELSE Get(base, "env")
          [] OTHER -> Pick(using, base, f)]

(* The chain of uses: references from a step, at most one longer than the
   store has steps: a longer one goes round.                                *)
Chain(store, step) ==
    LET limit == Cardinality(DOMAIN store) + 1
        longer(c) == LET tip == Last(c) IN
            IF ~Has(tip, "run") /\ Has(tip, "uses") /\ tip["uses"] \in DOMAIN store
            THEN Append(c, store[tip["uses"]]) ELSE c
        chain[n \in 0..limit] == IF n = 0 THEN <<step>> ELSE longer(chain[n - 1])
    IN  chain[limit]

Cyclic(store, step) == Len(Chain(store, step)) > Cardinality(DOMAIN store) + 1
Dangling(store, step) ==
    LET tip == Last(Chain(store, step)) IN ~Has(tip, "run") /\ Has(tip, "uses")

(* What running the step runs: the chain merged from its end, or "fails",
   also when a merged step is not a step; a cycle ends the run by
   exhausting the stack.                                                    *)
Concrete(step) == IF Has(step, "run") THEN ResolveRun(step) ELSE step
Failure == [id |-> "fails"]
Merge(using, base) ==
    IF base = Failure \/ ~StepShape(MergeUses(using, base)) THEN Failure ELSE MergeUses(using, base)
Resolve(store, step) ==
    IF Cyclic(store, step) THEN [id |-> "overflows"]
    ELSE IF Dangling(store, step) THEN Failure
    ELSE LET chain == Chain(store, step)
             merged[i \in 1..Len(chain)] ==
                IF i = Len(chain) THEN Concrete(chain[i]) ELSE Merge(chain[i], merged[i + 1])
         IN  merged[1]

(* The references of a blueprint's own steps, in order, each once.          *)
UsesRefs(blueprint) ==
    LET steps == SelectSeq(FlatSteps(blueprint.steps), LAMBDA s : ~IsLoop(s) /\ Has(s, "uses"))
    IN  FoldLeft(LAMBDA acc, s : IF s["uses"] \in ToSet(acc) THEN acc ELSE Append(acc, s["uses"]), <<>>, steps)
=============================================================================
