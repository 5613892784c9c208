----------------------------- MODULE MCBlueprints -----------------------------
(***************************************************************************)
(* From a blueprint in the catalog to what its run does: catalog commands,    *)
(* the snapshot a run takes, and the three readers of text that decide: the   *)
(* arguments of its command line, the conditions of its loops, the diffs of   *)
(* its agents.  Small instances.                                             *)
(***************************************************************************)
EXTENDS Catalog, Conditions, CommandInputs, TLC

CONSTANTS u1, u2

VARIABLES scene, phase, file, store, loaded, copy, queue, queued, visited, onDisk, manifest, running,
          edited, saves,
          changes, limit, lines, pos, has_file_header, paths, binary_paths, section_paths, status

Symmetry == Permutations({u1, u2})
NamespacesOfA == {[type |-> "blueprint", namespace |-> n, stem |-> "a"] : n \in {"", "dovo", "dovo/sub"}}
ThreeTargets == {Key("", "a"), Key("dovo", "a"), Sha("blueprint", "template")}

(* Two catalog steps in chains, a cycle, a dangling and a malformed one.     *)
RunStep == [id |-> "b", run |-> "make", timeout_seconds |-> "t1", on_failure |-> "retry"]
UsesY == [id |-> "m", uses |-> "y", prompt |-> "p2", on_failure |-> "prompt"]
UsesX == [id |-> "c", uses |-> "x"]
AgentStep == [id |-> "g", type |-> "agent", prompt |-> "p1", env |-> "e"]
Malformed == [id |-> "k", type |-> "script"]
SomeStores ==
    {[x |-> UsesY, y |-> RunStep], [x |-> UsesY, y |-> AgentStep], [x |-> UsesY, y |-> UsesX],
     [x |-> UsesX, y |-> AgentStep], [x |-> Malformed, y |-> RunStep], [y |-> UsesX],
     [x |-> AgentStep, y |-> Malformed]}

LoopOf(do, until) == [id |-> "loop", type |-> "loop", do |-> do, until |-> until]
SomeBlueprints ==
    {[key |-> "k", on_failure |-> d, inputs |-> [n |-> {"-n"}, m |-> {"-m"}], steps |-> s] :
        d \in {"none", "abort"},
        s \in {<<[name |-> "lint", uses |-> "x"], [id |-> "s", command |-> "c", timeout_seconds |-> "t3"]>>,
               <<[id |-> "u", uses |-> "x", prompt |-> "p3"], [id |-> "s", uses |-> "y", refers |-> {"q"}]>>,
               <<LoopOf(<<[id |-> "d", uses |-> "y"]>>, {"d"}), [id |-> "d", run |-> "r"]>>,
               <<LoopOf(<<[id |-> "d", uses |-> "x"]>>, {"d"}), [id |-> "e", uses |-> "y"]>>,
               <<[id |-> "o", type |-> "script", script_path |-> "unsafe"]>>,
               <<LoopOf(<<[id |-> "d", run |-> "r"]>>, {"z"})>>}}
    \cup {[key |-> "k", on_failure |-> "none", inputs |-> [n |-> {"-n"}, m |-> {"-n"}],
            steps |-> <<[run |-> "r"], [id |-> "step-1", run |-> "r"]>>]}

S == INSTANCE DefinitionSnapshot WITH Blueprints <- SomeBlueprints, Stores <- SomeStores, MaxSaves <- 1

(* Command lines of up to three tokens.                                     *)
Decl(place, type, default, required, aliases) ==
    [place |-> place, type |-> type, default |-> default, required |-> required, aliases |-> aliases]
SomeDeclarations ==
    {[count |-> Decl(1, "integer", "7", FALSE, {"-n"}), flag |-> Decl(2, "boolean", "none", TRUE, {"-f"})],
     [count |-> Decl(1, "string", "none", TRUE, {"-n"}), flag |-> Decl(2, "boolean", "x", FALSE, {"-n", "-f"})]}
Tokens ==
    {Bare("-n"), Bare("-f"), Bare("-i"), Bare("-z"), Bare("yes"), Bare("count=7"),
     [word |-> "-n", value |-> "7"], [word |-> "-n", value |-> "yes"],
     [word |-> "-i", value |-> "other=7"], [word |-> "-i", value |-> "flag=7"]}
ShortCommands == UNION {[1..n -> Tokens] : n \in 0..3}
SomeOverrides == {Empty, [count |-> Coerced("any", "-1")]}
SomeHistories ==
    {[id |-> "a", status |-> "failed", outputs |-> [k |-> "1"]],
     [id |-> "a", status |-> "ok", outputs |-> [k |-> "2"]],
     [id |-> "b", status |-> "ok", outputs |-> Empty]}
SomePlaceholders ==
    {[kind |-> "output", id |-> "a", key |-> "k"], [kind |-> "index", n |-> 0 - 1], [kind |-> "index", n |-> 0],
     [kind |-> "status", id |-> "a"], [kind |-> "previous"], [kind |-> "input", id |-> "count"],
     [kind |-> "input", id |-> "zz"]}

(* Every condition over a few operands, and results of a body of two steps.  *)
StepOp(id, field, path, parts) == [kind |-> "step", id |-> id, field |-> field, path |-> path, parts |-> parts]
Lit(v) == [kind |-> "literal", value |-> v]
Operands ==
    {StepOp("t", "exit_code", "", 3), StepOp("t", "outputs", "k", 4), StepOp("u", "stdout", "", 3),
     StepOp("t", "colour", "", 3), StepOp("z", "status", "", 3), StepOp("t", "", "", 2),
     [kind |-> "iteration"], [kind |-> "blank"], Lit(Num(0)), Lit(Num(2)), Lit(Str("ok")), Lit(Str("0"))}
AllExpressions == [left : Operands, op : Operators \cup {"="}, right : Operands]
Res(c, s, o, j) == [exit_code |-> c, status |-> s, stdout |-> o, json |-> j]
NoJson == [k \in {} |-> Nothing]
SomeResults ==
    {[t |-> Res(0, "completed", "all ok", [k |-> Num(2)]), u |-> Res(1, "failed", "ok", NoJson)],
     [t |-> Res(2, "failed", "0", NoJson)],
     [u |-> Res(0, "completed", "ok", [k |-> Str("ok")])],
     [t |-> Res(1, "failed", "0", [k |-> Str("0")]), u |-> Res(0, "completed", "0", NoJson)]}

(* Diffs of up to two changes, of every kind, under every limit.            *)
Ch(kind, old, new, hunk) == [kind |-> kind, old |-> old, new |-> new, text |-> hunk]
OneChange ==
    {Ch(k, n, n, "plain") : k \in {"modify", "add", "delete", "binary", "mode"}, n \in {"x", "quoted"}} \cup
    {Ch("modify", "y", "y", "dashes"), Ch("add", "../outside", "../outside", "plain"),
     Ch("rename", "x", "z", "plain"), Ch("binary_patch", "w", "w", "plain"),
     Ch("garbage", "x", "x", "plain"), Ch("prose", "x", "x", "plain")}
UpToTwo == UNION {[1..n -> OneChange] : n \in 0..2}
AllLimits == [max_files : {1, 2}, reject_binary : BOOLEAN, size_ok : BOOLEAN, worktree : BOOLEAN]
G == INSTANCE PatchGate WITH ChangeSets <- UpToTwo, Limits <- AllLimits

snapshotVars == <<phase, file, store, loaded, copy, queue, queued, visited, onDisk, manifest, running,
                  edited, saves>>
gateVars == <<changes, limit, lines, pos, has_file_header, paths, binary_paths, section_paths, status>>
allVars == <<scene, vars, snapshotVars, ivars, cvars, gateVars>>

(* One of the five is executed; the others stay where they begin.           *)
StillSnapshot == S!Init /\ <<file, store>> = CHOOSE x \in SomeBlueprints \X SomeStores : TRUE
StillInputs == Typed(CHOOSE d \in SomeDeclarations : TRUE, <<>>, Empty)
StillCondition == Start([left |-> Lit(Num(0)), op |-> "=", right |-> Lit(Num(0))])
StillGate == G!Start(<<>>, CHOOSE l \in AllLimits : TRUE)
MCInit ==
    /\ Init
    /\ \/ scene = "commands" /\ StillSnapshot /\ StillInputs /\ StillCondition /\ StillGate
       \/ scene = "snapshot" /\ S!Init /\ StillInputs /\ StillCondition /\ StillGate
       \/ scene = "inputs" /\ StillSnapshot /\ InputInit /\ StillCondition /\ StillGate
       \/ scene = "condition" /\ StillSnapshot /\ StillInputs /\ ConditionInit /\ StillGate
       \/ scene = "gate" /\ StillSnapshot /\ StillInputs /\ StillCondition /\ G!Init

CommandStep ==
    scene = "commands" /\ Next /\ UNCHANGED <<scene, snapshotVars, ivars, cvars, gateVars>>
SnapshotStep ==
    scene = "snapshot" /\ S!Next /\ UNCHANGED <<scene, vars, ivars, cvars, gateVars>>
InputsStep ==
    scene = "inputs" /\ InputNext /\ UNCHANGED <<scene, vars, snapshotVars, cvars, gateVars>>
ConditionStep ==
    scene = "condition" /\ ConditionNext /\ UNCHANGED <<scene, vars, snapshotVars, ivars, gateVars>>
GateStep ==
    scene = "gate" /\ G!Next /\ UNCHANGED <<scene, vars, snapshotVars, ivars, cvars>>

MCSpec == MCInit /\ [][CommandStep \/ SnapshotStep \/ InputsStep \/ ConditionStep \/ GateStep]_allVars

(* A run executes what its blueprint and the steps it uses said when it
   started: the snapshot is closed under uses:, the resolved steps take each
   field from the nearest document that sets it, and where the blueprint
   validates they have ids of their own.                                     *)
SnapshotIsFaithful == S!TypeOK /\ S!SnapshotIsClosed /\ S!RunsWhatWasLoaded /\ S!AuditedIdsAreDistinct

(* A diff that passes the gate is within the limits.                        *)
PassedIsWithinLimits == G!TypeOK /\ G!PassedIsWithinLimits
=============================================================================
