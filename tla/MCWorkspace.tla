----------------------------- MODULE MCWorkspace -----------------------------
(***************************************************************************)
(* The files of a workspace, and who writes them with whom: its configuration *)
(* and the pieces that `dovo init` and the first run put in place.            *)
(***************************************************************************)
EXTENDS ConfigStore, WorkspaceSetup, TLC

VARIABLE scene

Plain == [p \in {Version, Name} |-> IF p = Version THEN "number" ELSE "word"]
Agent(key) == <<"agent", key>>

(* What an editor leaves: a plain file, a provider and nothing else, a scalar
   where a section belongs, a name that is null, and a file that is no JSON. *)
SavedDocuments ==
    {Plain, Put(Empty, Agent("provider"), "other"), Put(Plain, <<"agent">>, "word"),
     Put(Plain, Name, "null"), Garbage}

Text(quotes, reads) == [kind |-> "text", quotes |-> quotes, reads |-> reads]
RequestedChanges ==
    {[path |-> Agent("model"), text |-> Text(0, "word")],
     [path |-> <<"agent">>, text |-> Text(1, "number")]}

(* No config.json, one that is no JSON, one each that breaks the schema, that
   lacks a key, that the model refuses and that the tiers refuse, and one that
   loads; some switch the doctor's check of it off.                          *)
HandMadeConfigs ==
    {NoConfig, [NoConfig EXCEPT !.kind = "malformed"], [NoConfig EXCEPT !.kind = "invalid"],
     [NoConfig EXCEPT !.kind = "partial", !.quiet = {"config.schema"}], [NoConfig EXCEPT !.kind = "loose"],
     [NoConfig EXCEPT !.kind = "nameless", !.quiet = {"config.schema"}],
     [NoConfig EXCEPT !.kind = "whole", !.quiet = {"config.schema"}, !.provider = "cursor"]}
Option(id, force, policy) == [id |-> id, force |-> force, policy |-> policy]
SomeOptions ==
    {Option("none", FALSE, "skip"), Option("none", TRUE, "repair"), Option("a", TRUE, "overwrite"),
     Option("bad", TRUE, "skip")}
OneEnvironment == {[binaries |-> {"git"}, credentials |-> {}]}

(* The processes that set the workspace up are all alike.                   *)
AnyInitializer == Permutations(Procs)

allVars == <<scene, cvars, wvars>>

(* One of the two is at work; the other stays where it begins.              *)
MCInit ==
    /\ scene \in {"config", "setup"}
    /\ Init /\ SetupInit
    /\ scene # "config" => Config = Plain
    /\ scene # "setup" => disk = Bare

(* Three commands, or two and one edit of a tier, or one and two.           *)
MaxTogether == 3
ConfigStep ==
    /\ scene = "config" /\ Next
    /\ spent'.commands + spent'.edits <= MaxTogether
    /\ UNCHANGED <<scene, wvars>>
SetupStep == scene = "setup" /\ SetupNext /\ UNCHANGED <<scene, cvars>>

MCSpec == MCInit /\ [][ConfigStep \/ SetupStep]_allVars
=============================================================================
