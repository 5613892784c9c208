--------------------------- MODULE WorkspaceSetup ---------------------------
(***************************************************************************)
(* core/bootstrap, core/project, the catalog seeder and core/doctor: how a    *)
(* workspace comes to be.  `dovo init`, and the first `dovo run`, put its     *)
(* pieces in place one file at a time: directories, .gitignore, bootstrap.json *)
(* project.json with the identity, config.json, the database, the templates.  *)
(* A process may die between any two of them; the command is then run again.  *)
(* `dovo doctor` looks at the pieces one after the other.                     *)
(***************************************************************************)
EXTENDS Naturals, Sequences, FiniteSets

CONSTANTS
    Procs,          \* processes
    Slugs,          \* project ids
    Templates,      \* packaged catalog files
    SavedConfigs,   \* what an editor makes of config.json
    InitOptions,    \* [id, force, policy] of dovo init
    Environments,   \* [binaries, credentials] a doctor may find
    Rivals,         \* whether two processes may initialize at once
    MaxStarts,      \* bound: commands, all together
    MaxFaults,      \* bound: failing writes and deaths
    MaxTouches      \* bound: what the user does by hand

Policies == {"skip", "repair", "overwrite"}
Switchable == {"git.repo", "config.schema", "filesystem.writable", "worktree.refs", "env.binaries"}

(* A config.json: how far it gets, the doctor checks it switches off, and its
   agent provider and model.  A partial one only lacks required keys, a loose
   one passes the schema and not the model, a nameless one has null for a
   name, which a load of the tiers refuses (see ConfigStore).               *)
ConfigFiles ==
    [kind : {"none", "malformed", "invalid", "partial", "loose", "nameless", "whole"},
     quiet : SUBSET Switchable, provider : {"local", "cursor", "gemini", "copilot"}, model : BOOLEAN]

(* An id of the user's that is no valid slug is "bad".                      *)
ASSUME SetupAssumption ==
    /\ Slugs \cap {"none", "bad"} = {}
    /\ IsFiniteSet(Templates) /\ MaxStarts \in Nat
    /\ InitOptions \subseteq [id : Slugs \cup {"none", "bad"}, force : BOOLEAN, policy : Policies]
    /\ SavedConfigs \subseteq ConfigFiles

VARIABLES
    disk,           \* the workspace
    proc,           \* [process -> its command]
    setup_spent

wvars == <<disk, proc, setup_spent>>

None == "none"
Bad == "bad"
NoMeta == [kind |-> None, since |-> 0]

NoConfig == [kind |-> None, quiet |-> {}, provider |-> "local", model |-> FALSE]
DefaultConfig == [NoConfig EXCEPT !.kind = "whole"]
InSchema(config) == config.kind \in {"loose", "nameless", "whole"}
FileLoads(config) == config.kind \in {"nameless", "whole"}
Loads(config) == config.kind = "whole"

Bare == [git |-> TRUE, root |-> FALSE, meta_dir |-> None, ignore |-> FALSE, meta |-> NoMeta, identity |-> None,
         config |-> NoConfig, tiers |-> TRUE, db |-> FALSE, seeds |-> {}]

NoCommand == [pc |-> "idle", op |-> None, id |-> None, force |-> FALSE, policy |-> "skip", only |-> None, since |-> 0,
         slug |-> None, ok |-> TRUE, rest |-> <<>>, project |-> None, config |-> NoConfig, env |-> [binaries |-> {}, credentials |-> {}],
         report |-> {}, touched |-> FALSE, broken |-> FALSE]

AtWork(p, pc) == proc[p].pc = pc
Updated(c, new) == [f \in DOMAIN c |-> IF f \in DOMAIN new THEN new[f] ELSE c[f]]
Goes(p, new) == proc' = [proc EXCEPT ![p] = Updated(proc[p], new)]
Exits(p, ok) == Goes(p, [pc |-> "done", ok |-> ok])
Initializing(p) == proc[p].pc \in {"root", "meta_dir", "ignore", "meta", "identity", "save", "config", "db", "seed"}

SetupInit == disk \in {Bare, [Bare EXCEPT !.git = FALSE]} /\ proc = [p \in Procs |-> NoCommand]
        /\ setup_spent = [commands |-> 0, faults |-> 0, edits |-> 0]

----------------------------------------------------------------------------
(* Commands.                                                                *)

Start(p, new) ==
    /\ AtWork(p, "idle") /\ setup_spent.commands < MaxStarts
    /\ setup_spent' = [setup_spent EXCEPT !.commands = @ + 1]
    /\ proc' = [proc EXCEPT ![p] = Updated(NoCommand, new)]
    /\ UNCHANGED disk

InitCommand(p) ==
    \E option \in InitOptions :
        Start(p, [pc |-> "preflight", op |-> "init",
                  id |-> option.id, force |-> option.force, policy |-> option.policy])

RunCommand(p) == Start(p, [pc |-> "lazy", op |-> "run"])

(* ensure_lazy_project_init: an identity is taken for a whole workspace.    *)
Lazy(p) ==
    /\ AtWork(p, "lazy")
    /\ Goes(p, [pc |-> IF disk.identity = None THEN "preflight" ELSE "context"])
    /\ UNCHANGED <<disk, setup_spent>>

(* What becomes of the initialization: a run does not look at it.           *)
Outcome(p, ok) == IF proc[p].op = "run" THEN Goes(p, [pc |-> "context"]) ELSE Exits(p, ok)

(* An identity that is there is preserved, unless it is replaced by force.  *)
CreateAlways(p) == TRUE                     \* mutant: an identity that is there does not count
Forced(p) == proc[p].force /\ proc[p].id # None
MustCreate(p) == disk.identity = None \/ Forced(p)

SeedFailureLost(p) == proc[p].ok             \* mutant: one source's errors are not added to the whole's
SeedFailure(p) == FALSE

(* A write that fails, or the read of the identity: the parts of init that
   classify it, and the others, whose error ends the command.               *)
Fault(p) ==
    /\ setup_spent.faults < MaxFaults
    /\ setup_spent' = [setup_spent EXCEPT !.faults = @ + 1]
    /\ \/ proc[p].pc \in {"root", "meta_dir", "meta", "save", "config"} /\ Outcome(p, FALSE)
       \/ AtWork(p, "identity") /\ ~MustCreate(p) /\ Outcome(p, FALSE)
       \/ proc[p].pc \in {"ignore", "db"} /\ Exits(p, FALSE)
       \/ AtWork(p, "seed") /\ Exits(p, FALSE)
       \/ AtWork(p, "seed") /\ proc[p].rest # <<>> /\ Goes(p, [ok |-> SeedFailure(p), rest |-> Tail(proc[p].rest)])
    /\ UNCHANGED disk

Killed(p) ==
    /\ setup_spent.faults < MaxFaults /\ ~AtWork(p, "idle")
    /\ setup_spent' = [setup_spent EXCEPT !.faults = @ + 1]
    /\ proc' = [proc EXCEPT ![p] = NoCommand]
    /\ UNCHANGED disk

Leave(p) == AtWork(p, "done") /\ proc' = [proc EXCEPT ![p] = NoCommand] /\ UNCHANGED <<disk, setup_spent>>

----------------------------------------------------------------------------
(* initialize_workspace: bootstrap_dovo.                                    *)

(* The date of the first initialization is read before anything is made.    *)
Preflight(p) ==
    /\ AtWork(p, "preflight")
    /\ Rivals \/ \A q \in Procs : ~Initializing(q)
    /\ IF ~disk.git THEN Outcome(p, FALSE)
       ELSE Goes(p, [pc |-> "root", since |-> IF disk.meta.kind = "ok" THEN disk.meta.since ELSE 0])
    /\ UNCHANGED <<disk, setup_spent>>

EnsureRoot(p) ==
    /\ AtWork(p, "root")
    /\ disk' = [disk EXCEPT !.root = TRUE]
    /\ Goes(p, [pc |-> "meta_dir"])
    /\ UNCHANGED setup_spent

EnsureSubdirs(p) ==
    /\ AtWork(p, "meta_dir")
    /\ IF disk.meta_dir = "file" THEN Outcome(p, FALSE) /\ UNCHANGED disk
       ELSE disk' = [disk EXCEPT !.root = TRUE, !.meta_dir = "dir"] /\ Goes(p, [pc |-> "ignore"])
    /\ UNCHANGED setup_spent

(* Every write makes the directories above it.                              *)
SeedGitignore(p) ==
    /\ AtWork(p, "ignore")
    /\ disk' = [disk EXCEPT !.root = TRUE, !.ignore = TRUE]
    /\ Goes(p, [pc |-> "meta"])
    /\ UNCHANGED setup_spent

SinceUnknown(p) == proc[p].since            \* mutant: the first initialization has no date
SinceNow(p) == setup_spent.commands               \* mutant: every initialization is the first
Since(p) == IF proc[p].since # 0 THEN proc[p].since ELSE setup_spent.commands
WriteMeta(p) ==
    /\ AtWork(p, "meta")
    /\ IF ~disk.root \/ disk.meta_dir # "dir" THEN Outcome(p, FALSE) /\ UNCHANGED disk
       ELSE /\ disk' = [disk EXCEPT !.meta = [kind |-> "ok", since |-> Since(p)]]
            /\ Goes(p, [pc |-> "identity"])
    /\ UNCHANGED setup_spent

(* provision_project_identity: nothing holds between the look and the save. *)
Provision(p) ==
    /\ AtWork(p, "identity")
    /\ IF proc[p].id = Bad THEN Outcome(p, FALSE)
       ELSE IF MustCreate(p)
       THEN \E slug \in IF proc[p].id = None THEN Slugs ELSE {proc[p].id} : Goes(p, [pc |-> "save", slug |-> slug])
       ELSE IF disk.identity = Bad THEN Outcome(p, FALSE)
       ELSE Goes(p, [pc |-> "config"])
    /\ UNCHANGED <<disk, setup_spent>>

SaveIdentity(p) ==
    /\ AtWork(p, "save")
    /\ disk' = [disk EXCEPT !.root = TRUE, !.identity = proc[p].slug]
    /\ proc' = [q \in Procs |->
                  Updated(proc[q], IF q = p THEN [pc |-> "config"]
                                   ELSE [touched |-> proc[q].touched \/ (Forced(p) /\ ~AtWork(q, "idle"))])]
    /\ UNCHANGED setup_spent

(* generate_default_config; ConfigStore has its steps.  A repair adds what is
   missing, asks the schema alone, and leaves what else is wrong.           *)
Generated(p) ==
    IF disk.config.kind = None \/ proc[p].policy = "overwrite" THEN DefaultConfig
    ELSE IF proc[p].policy = "repair" /\ disk.config.kind = "partial" THEN [disk.config EXCEPT !.kind = "whole"]
    ELSE disk.config
Refused(p) ==
    \/ ~disk.root
    \/ proc[p].policy = "repair" /\ disk.config.kind \in {"malformed", "invalid"}
GenerateConfig(p) ==
    /\ AtWork(p, "config")
    /\ IF Refused(p) THEN Outcome(p, FALSE) /\ UNCHANGED disk
       ELSE /\ disk' = [disk EXCEPT !.config = Generated(p)]
            /\ proc' = [q \in Procs |->
                          Updated(proc[q], IF q = p THEN [pc |-> "db"]
                                           ELSE [broken |-> proc[q].broken /\ ~FileLoads(Generated(p))])]
    /\ UNCHANGED setup_spent

AllTemplates == CHOOSE s \in [1..Cardinality(Templates) -> Templates] : \A t \in Templates : \E i \in DOMAIN s : s[i] = t
ToSeed(p) == AllTemplates
InitDatabase(p) ==
    /\ AtWork(p, "db")
    /\ disk' = [disk EXCEPT !.db = TRUE]
    /\ Goes(p, [pc |-> "seed", rest |-> ToSeed(p)])
    /\ UNCHANGED setup_spent

(* seed_all_catalog_templates: a file that is there stays as it is.         *)
SeedOne(p) ==
    /\ AtWork(p, "seed") /\ proc[p].rest # <<>>
    /\ disk' = [disk EXCEPT !.root = TRUE, !.seeds = @ \cup {Head(proc[p].rest)}]
    /\ Goes(p, [rest |-> Tail(proc[p].rest)])
    /\ UNCHANGED setup_spent

Initialized(p) ==
    /\ AtWork(p, "seed") /\ proc[p].rest = <<>>
    /\ Outcome(p, proc[p].ok)
    /\ UNCHANGED <<disk, setup_spent>>

----------------------------------------------------------------------------
(* A run: CliContext.build decides once whose storage it writes to.         *)

BuildContext(p) ==
    /\ AtWork(p, "context")
    /\ IF Loads(disk.config) /\ disk.tiers
       THEN Goes(p, [pc |-> "running", project |-> IF disk.identity = Bad THEN None ELSE disk.identity])
       ELSE Exits(p, FALSE)
    /\ UNCHANGED <<disk, setup_spent>>

RunEnds(p) == AtWork(p, "running") /\ Exits(p, TRUE) /\ UNCHANGED <<disk, setup_spent>>

----------------------------------------------------------------------------
(* dovo doctor.                                                             *)

Checks == <<"git.repo", "config.schema", "filesystem.writable", "worktree.refs", "env.binaries", "agent.setup">>

(* --category: every check is the only one of its category.                 *)
Categories == {None} \cup {Checks[i] : i \in DOMAIN Checks}
Selected(category) == IF category = None THEN Checks ELSE <<category>>

(* The configuration is loaded once, and the checks go by it.               *)
DoctorCommand(p) ==
    \E env \in Environments, category \in Categories :
        Start(p, [pc |-> "check", op |-> "doctor", env |-> env, only |-> category, rest |-> Selected(category),
                  config |-> IF Loads(disk.config) /\ disk.tiers THEN disk.config ELSE NoConfig,
                  broken |-> ~FileLoads(disk.config)])

SkippedAsWritten(p, check) == check \in disk.config.quiet   \* mutant: a file that does not load is obeyed
Skipped(p, check) == check \in Switchable \cap proc[p].config.quiet

Needs(provider) ==
    CASE provider = "cursor" -> {"CURSOR_API_KEY"} [] provider = "gemini" -> {"GEMINI_API_KEY"}
      [] provider = "copilot" -> {"GH_TOKEN"} [] OTHER -> {}
Uses(provider) ==
    {"git"} \cup CASE provider = "gemini" -> {"gemini"} [] provider = "copilot" -> {"gh"} [] OTHER -> {}

(* What a check finds, with the code of its error if somebody goes by it.   *)
Found(status, code) == [status |-> status, code |-> code]
Fine == Found("ok", None)
Warned == Found("warning", None)
Failed == Found("failed", None)

ConfigFound ==
    CASE FileLoads(disk.config) -> Fine
      [] disk.config.kind = None -> Found("failed", "CONFIG_NOT_FOUND")
      [] disk.config.kind = "malformed" -> Found("failed", "CONFIG_MALFORMED")
      [] OTHER -> Found("failed", "CONFIG_SCHEMA_INVALID")

GitFound(p) == IF "git" \in proc[p].env.binaries /\ disk.git THEN Fine ELSE Failed

BinariesFound(p) == IF Uses(proc[p].config.provider) \subseteq proc[p].env.binaries THEN Fine ELSE Warned

AgentFound(p) ==
    IF ~(Needs(proc[p].config.provider) \subseteq proc[p].env.credentials) THEN Failed
    ELSE IF ~proc[p].config.model THEN Warned ELSE Fine

(* What the check may find; worktrees and rights are not of this module.    *)
Findings(p, check) ==
    CASE check = "git.repo" -> {GitFound(p)}
      [] check = "config.schema" -> {ConfigFound}
      [] check = "filesystem.writable" -> {Fine, Failed}
      [] check = "worktree.refs" -> IF disk.db THEN {Fine, Warned, Failed} ELSE {Fine}
      [] check = "env.binaries" -> {BinariesFound(p)}
      [] check = "agent.setup" -> {AgentFound(p)}

(* resolve_remediations: the init it advises for a code.                    *)
Remedy(code) ==
    CASE code = "CONFIG_NOT_FOUND" -> "dovo init"
      [] code = "CONFIG_MALFORMED" -> "dovo init --repair"
      [] OTHER -> None

(* The probe of the directories makes them.                                 *)
Check(p) ==
    /\ AtWork(p, "check") /\ proc[p].rest # <<>>
    /\ LET check == Head(proc[p].rest) IN
         /\ \E found \in IF Skipped(p, check) THEN {Found("skipped", None)} ELSE Findings(p, check) :
              Goes(p, [rest |-> Tail(proc[p].rest),
                      report |-> IF found = Fine THEN proc[p].report ELSE proc[p].report \cup {found}])
         /\ disk' = IF check = "filesystem.writable" /\ ~Skipped(p, check) THEN [disk EXCEPT !.root = TRUE] ELSE disk
    /\ UNCHANGED setup_spent

Reported(p) ==
    /\ AtWork(p, "check") /\ proc[p].rest = <<>>
    /\ Exits(p, \A found \in proc[p].report : found.status # "failed")
    /\ UNCHANGED <<disk, setup_spent>>

(* The user does what the report says.                                      *)
Advised(p, command) ==
    AtWork(p, "done") /\ proc[p].op = "doctor" /\ \E found \in proc[p].report : Remedy(found.code) = command
Follow(p) ==
    /\ \/ Advised(p, "dovo init")
       \/ Advised(p, "dovo init --repair")
    /\ setup_spent.commands < MaxStarts
    /\ setup_spent' = [setup_spent EXCEPT !.commands = @ + 1]
    /\ proc' = [proc EXCEPT ![p] = Updated(NoCommand, [pc |-> "preflight", op |-> "init",
                    policy |-> IF Advised(p, "dovo init --repair") THEN "repair" ELSE "skip"])]
    /\ UNCHANGED disk

----------------------------------------------------------------------------
(* The user removes or edits pieces.                                        *)
Edits ==
    {[disk EXCEPT !.root = FALSE, !.meta_dir = None, !.ignore = FALSE, !.meta = NoMeta, !.identity = None,
                  !.config = NoConfig, !.seeds = {}],
     [disk EXCEPT !.meta_dir = "file", !.meta = NoMeta], [disk EXCEPT !.meta.kind = Bad],
     [disk EXCEPT !.identity = None], [disk EXCEPT !.identity = Bad], [disk EXCEPT !.ignore = FALSE],
     [disk EXCEPT !.git = ~@], [disk EXCEPT !.tiers = ~@], [disk EXCEPT !.db = FALSE]}
    \cup {[disk EXCEPT !.config = config] : config \in SavedConfigs}
    \cup {[disk EXCEPT !.seeds = @ \ {t}] : t \in Templates}

UserEdits ==
    /\ setup_spent.edits < MaxTouches /\ disk.root
    /\ setup_spent' = [setup_spent EXCEPT !.edits = @ + 1]
    /\ \E new \in Edits \ {disk} :
         /\ disk' = new
         /\ proc' = [p \in Procs |-> Updated(proc[p], [touched |-> ~AtWork(p, "idle"),
                                                         broken |-> proc[p].broken /\ ~FileLoads(new.config)])]

Step(p) ==
    \/ InitCommand(p) \/ RunCommand(p) \/ DoctorCommand(p) \/ Lazy(p) \/ Preflight(p)
    \/ EnsureRoot(p) \/ EnsureSubdirs(p) \/ SeedGitignore(p) \/ WriteMeta(p) \/ Provision(p) \/ SaveIdentity(p)
    \/ GenerateConfig(p) \/ InitDatabase(p) \/ SeedOne(p) \/ Initialized(p)
    \/ BuildContext(p) \/ RunEnds(p) \/ Check(p) \/ Reported(p) \/ Follow(p)
    \/ Fault(p) \/ Killed(p) \/ Leave(p)

SetupNext == UserEdits \/ \E p \in Procs : Step(p)
SetupSpec == SetupInit /\ [][SetupNext]_wvars

----------------------------------------------------------------------------
(* Properties.                                                              *)

(* The variables have the values the code gives them.                       *)
SetupTypeOK ==
    /\ DOMAIN disk = DOMAIN Bare
    /\ disk.identity \in Slugs \cup {None, Bad}
    /\ disk.meta \in [kind : {None, "ok", Bad}, since : 0..MaxStarts] /\ (disk.meta.kind = "ok" => disk.meta.since > 0)
    /\ disk.config \in ConfigFiles /\ disk.seeds \subseteq Templates
    /\ \A p \in Procs : proc[p].project \in Slugs \cup {None} /\ proc[p].config \in ConfigFiles

(* An init that says ok leaves a workspace with all its pieces, wherever the
   ones before it died (bootstrap.py:189 "Idempotent: safe to run multiple
   times"), with a configuration that loads if it has overwritten it.  One
   that has repaired it promises the schema and no more: null for a name is
   reported as repaired, and no run loads it.                                *)
Whole ==
    /\ disk.root /\ disk.meta_dir = "dir" /\ disk.ignore /\ disk.meta.kind = "ok" /\ disk.identity \in Slugs
    /\ disk.config.kind # None /\ disk.db /\ disk.seeds = Templates
Treated(policy, config) ==
    /\ policy = "overwrite" => Loads(config)
    /\ policy = "repair" => InSchema(config)
OkMeansWhole ==
    \A p \in Procs : AtWork(p, "done") /\ proc[p].op = "init" /\ proc[p].ok /\ ~proc[p].touched =>
        Whole /\ Treated(proc[p].policy, disk.config)
InitIsComplete == SetupTypeOK /\ OkMeansWhole

(* A doctor that is asked for all checks, or those of the configuration,
   reports a config.json that never loaded while it was at work, also when
   the file says that it need not be checked.                               *)
Names(report) ==
    \E found \in report : found.code \in {"CONFIG_NOT_FOUND", "CONFIG_MALFORMED", "CONFIG_SCHEMA_INVALID"}
AsksForConfig(c) == c.only \in {None, "config.schema"}
BrokenConfigIsReported ==
    \A p \in Procs : AtWork(p, "done") /\ proc[p].op = "doctor" /\ AsksForConfig(proc[p]) /\ proc[p].broken =>
        ~proc[p].ok /\ Names(proc[p].report)

(* What a run stores belongs to the identity of its workspace until the user
   asks for another one (init.md:24 "a stable project identity").            *)
RunBelongsToWorkspace ==
    \A p \in Procs : AtWork(p, "running") /\ ~proc[p].touched /\ proc[p].project # None =>
        proc[p].project = disk.identity

(* An identity changes only by force, and the date of the first
   initialization never, whatever is repeated, repaired or overwritten.      *)
FirstInitIsRemembered ==
    [][setup_spent'.edits = setup_spent.edits =>
         /\ disk.identity \in Slugs /\ disk'.identity # disk.identity => \E p \in Procs : AtWork(p, "save") /\ Forced(p)
         /\ disk.meta.kind = "ok" => disk'.meta = disk.meta]_wvars

(* A run stores under the identity of its workspace, which changes only by
   force, as the date of the first initialization never does.               *)
IdentityIsStable == []RunBelongsToWorkspace /\ FirstInitIsRemembered

----------------------------------------------------------------------------
(* What makes them inductive.                                               *)

(* Where a command is that has made the piece.                              *)
DirsAhead == {"meta_dir", "ignore", "meta", "identity", "save", "config", "db", "seed"}
IgnoreAhead == {"ignore", "meta", "identity", "save", "config", "db", "seed"}
MetaAhead == {"meta", "identity", "save", "config", "db", "seed"}
IdentityAhead == {"identity", "save", "config", "db", "seed"}
ConfigAhead == {"config", "db", "seed"}
DatabaseAhead == {"db", "seed"}
SeedsAhead == {"seed"}
Ops(pc) ==
    CASE pc = "idle" -> {None}
      [] pc \in {"lazy", "context", "running"} -> {"run"}
      [] pc = "check" -> {"doctor"}
      [] pc \in {"preflight", "root"} \cup DirsAhead -> {"init", "run"}
      [] pc = "done" -> {"init", "run", "doctor"}

CommandOK(c) ==
    /\ DOMAIN c = DOMAIN NoCommand
    /\ c.op \in Ops(c.pc)
    /\ c.id \in Slugs \cup {None, Bad} /\ c.project \in Slugs \cup {None}
    /\ c.policy \in Policies /\ c.config \in ConfigFiles
    /\ c.pc = "save" => c.slug \in Slugs
    /\ c.pc = "seed" => c.rest \in Seq(Templates)
    /\ c.pc = "check" => c.rest \in Seq({Checks[i] : i \in DOMAIN Checks})
    /\ c.since \in 0..MaxStarts

(* What an init has put in place nobody takes away but the user.            *)
Made(c, ahead) == c.pc \in ahead \/ (c.pc = "done" /\ c.ok)
Unseeded(c) == IF c.pc = "seed" THEN {c.rest[i] : i \in DOMAIN c.rest} ELSE {}
PiecesInPlace(c, d) ==
    c.op = "init" /\ ~c.touched =>
        /\ Made(c, DirsAhead) => d.root
        /\ Made(c, IgnoreAhead) => d.meta_dir = "dir"
        /\ Made(c, MetaAhead) => d.ignore
        /\ Made(c, IdentityAhead) => d.meta.kind = "ok"
        /\ Made(c, ConfigAhead) => d.identity \in Slugs
        /\ Made(c, DatabaseAhead) => d.config.kind # None /\ Treated(c.policy, d.config)
        /\ Made(c, SeedsAhead) => d.db /\ (c.ok => Templates \subseteq d.seeds \cup Unseeded(c))

(* A doctor that has not looked at the broken configuration is going to.    *)
Reports(c) ==
    \/ c.pc = "check" /\ \E i \in DOMAIN c.rest : c.rest[i] = "config.schema"
    \/ Names({found \in c.report : found.status = "failed"}) /\ (c.pc = "done" => ~c.ok)
BrokenStaysInSight(c, d) ==
    c.broken => c.op = "doctor" /\ ~FileLoads(d.config) /\ c.config.quiet = {} /\ (AsksForConfig(c) => Reports(c))

Fits(c, d) == CommandOK(c) /\ PiecesInPlace(c, d) /\ BrokenStaysInSight(c, d)
StartsOK ==
    /\ DOMAIN setup_spent = {"commands", "faults", "edits"}
    /\ setup_spent.commands \in 0..MaxStarts /\ setup_spent.edits \in Nat
    /\ \A p \in Procs : ~AtWork(p, "idle") => setup_spent.commands > 0

SetupIInv == SetupTypeOK /\ StartsOK /\ DOMAIN proc = Procs /\ \A p \in Procs : Fits(proc[p], disk)

(* With one initialization at a time, what it has read is still so when it
   writes: there is no identity, and the date is the one of the first.      *)
OneInitializes == \A p, q \in Procs : Initializing(p) /\ Initializing(q) => p = q
StillHolds(c, d) ==
    /\ c.pc = "save" /\ ~(c.force /\ c.id # None) => d.identity \notin Slugs
    /\ c.pc \in {"root", "meta_dir", "ignore", "meta"} /\ d.meta.kind = "ok" => c.since = d.meta.since
    /\ c.pc = "running" /\ ~c.touched /\ c.project # None => c.project = d.identity
SoleIInv == SetupIInv /\ OneInitializes /\ \A p \in Procs : StillHolds(proc[p], disk)
=============================================================================
