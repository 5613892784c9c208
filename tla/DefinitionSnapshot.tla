-------------------------- MODULE DefinitionSnapshot --------------------------
(***************************************************************************)
(* engine/writer.py and Engine.run: a run executes copies of its blueprint   *)
(* and of every step it uses, taken from the catalog when it starts, one     *)
(* lookup at a time, while an editor may change the catalog's files.  Every   *)
(* drive of the run, resumed ones too, rebuilds the blueprint from the copies.*)
(***************************************************************************)
EXTENDS Definitions

CONSTANTS
    Blueprints,     \* what a blueprint file may hold
    Stores,         \* what the catalog's step files may hold
    MaxSaves        \* bound: edits of the catalog

VARIABLES
    phase,          \* where Engine.run is
    file,           \* the blueprint in the catalog
    store,          \* the catalog's steps: [reference -> document]
    loaded,         \* the Blueprint object
    copy,           \* the blueprint as shown for the snapshot
    queue, queued,  \* references to visit, and those ever queued
    visited,        \* [reference -> document]
    onDisk,         \* references whose copy is written
    manifest,       \* references of the manifest, or "none" before it is built
    running,        \* resolved steps, or why there are none
    edited,         \* the catalog changed while the run started
    saves

svars == <<phase, file, store, loaded, copy, queue, queued, visited, onDisk, manifest, running, edited, saves>>

None == [key |-> "none", on_failure |-> "none", inputs |-> <<>>, steps |-> <<>>]

Init ==
    /\ file \in Blueprints /\ store \in Stores
    /\ phase = "load" /\ loaded = None /\ copy = None
    /\ queue = <<>> /\ queued = {} /\ visited = <<>> /\ onDisk = {}
    /\ manifest = "none" /\ running = <<>> /\ edited = FALSE /\ saves = 0

----------------------------------------------------------------------------
(* The editor saves a blueprint or the steps.                               *)
Save(b, s) ==
    /\ saves < MaxSaves /\ <<b, s>> # <<file, store>> /\ phase # "failed"
    /\ file' = b /\ store' = s /\ saves' = saves + 1
    /\ edited' = (edited \/ phase \in {"show", "walk"})
    /\ UNCHANGED <<phase, loaded, copy, queue, queued, visited, onDisk, manifest, running>>

(* Blueprint.load.                                                          *)
LoadBlueprint ==
    /\ phase = "load"
    /\ phase' = IF Loads(file) THEN "show" ELSE "failed"
    /\ loaded' = Normalize(file)
    /\ UNCHANGED <<file, store, copy, queue, queued, visited, onDisk, manifest, running, edited, saves>>

(* snapshot_definitions looks the blueprint up again; the walk starts from
   the steps of the object that was loaded.                                 *)
ShowBlueprint ==
    /\ phase = "show"
    /\ phase' = "walk" /\ copy' = file
    /\ queue' = UsesRefs(loaded) /\ queued' = ToSet(UsesRefs(loaded))
    /\ UNCHANGED <<file, store, loaded, visited, onDisk, manifest, running, edited, saves>>

(* _resolve_uses_chain: one lookup, and the reference of what it found.     *)
OnlyDirect(doc) == {}                       \* mutant: nested references are not followed
NestedRef(doc) == IF Has(doc, "uses") THEN {doc["uses"]} ELSE {}
Seen(ref) == ref \in DOMAIN visited

Visit ==
    /\ phase = "walk" /\ queue # <<>>
    /\ LET ref == Head(queue) IN
         \/ /\ Seen(ref)
            /\ queue' = Tail(queue)
            /\ UNCHANGED <<phase, queued, visited>>
         \/ /\ ~Seen(ref) /\ ref \in DOMAIN store
            /\ LET nested == NestedRef(store[ref]) \ ({ref} \cup DOMAIN visited \cup queued) IN
                 /\ visited' = With(visited, ref, store[ref])
                 /\ queue' = Tail(queue) \o SetToSeq(nested)
                 /\ queued' = queued \cup nested
            /\ UNCHANGED phase
         \/ /\ ~Seen(ref) /\ ref \notin DOMAIN store
            /\ phase' = "failed"
            /\ UNCHANGED <<queue, queued, visited>>
    /\ UNCHANGED <<file, store, loaded, copy, onDisk, manifest, running, edited, saves>>

Walked ==
    /\ phase = "walk" /\ queue = <<>>
    /\ phase' = "write"
    /\ UNCHANGED <<file, store, loaded, copy, queue, queued, visited, onDisk, manifest, running, edited, saves>>

(* The copies are written one by one; a failed write fails the start.       *)
WriteCopy ==
    /\ phase = "write"
    /\ \E ref \in DOMAIN visited \ onDisk : onDisk' = onDisk \cup {ref}
    /\ UNCHANGED <<phase, file, store, loaded, copy, queue, queued, visited, manifest, running, edited, saves>>

WriteFails ==
    /\ phase = "write"
    /\ phase' = "failed"
    /\ UNCHANGED <<file, store, loaded, copy, queue, queued, visited, onDisk, manifest, running, edited, saves>>

BuildEarly ==                               \* mutant: of the copies written so far
    /\ phase = "write"
    /\ phase' = "drive" /\ manifest' = onDisk
    /\ UNCHANGED <<file, store, loaded, copy, queue, queued, visited, onDisk, running, edited, saves>>
BuildManifest ==
    /\ phase = "write" /\ onDisk = DOMAIN visited
    /\ phase' = "drive" /\ manifest' = onDisk
    /\ UNCHANGED <<file, store, loaded, copy, queue, queued, visited, onDisk, running, edited, saves>>

(* load_blueprint_from_snapshot: only the copies are read; run steps of the
   catalog are expanded, those of the blueprint are left to the executor.   *)
FromSnapshot(step) == IF ~Has(step, "run") /\ Has(step, "uses") THEN Resolve(visited, step) ELSE step
SnapshotSteps(blueprint) ==
    [i \in DOMAIN blueprint.steps |->
        LET item == blueprint.steps[i] IN
        IF IsLoop(item) THEN With(item, "do", [j \in DOMAIN item["do"] |-> FromSnapshot(item["do"][j])])
        ELSE FromSnapshot(item)]

Drive ==
    /\ phase = "drive"
    /\ running' = IF Loads(copy) /\ \A r \in manifest : StepShape(visited[r])
                  THEN SnapshotSteps(Normalize(copy)) ELSE <<Failure>>
    /\ phase' = "driven"
    /\ UNCHANGED <<file, store, loaded, copy, queue, queued, visited, onDisk, manifest, edited, saves>>

(* The run is paused and resumed.                                           *)
Resume ==
    /\ phase = "driven" /\ running # <<Failure>>
    /\ phase' = "drive"
    /\ UNCHANGED <<file, store, loaded, copy, queue, queued, visited, onDisk, manifest, running, edited, saves>>

Next ==
    \/ LoadBlueprint \/ ShowBlueprint \/ Visit \/ Walked \/ WriteCopy \/ WriteFails \/ BuildManifest
    \/ Drive \/ Resume
    \/ \E b \in Blueprints, s \in Stores : Save(b, s)

Spec == Init /\ [][Next]_svars

----------------------------------------------------------------------------
(* Properties.                                                              *)

(* The variables have the values the code gives them.                       *)
TypeOK ==
    /\ phase \in {"load", "show", "walk", "write", "drive", "driven", "failed"}
    /\ file \in Blueprints /\ store \in Stores
    /\ onDisk \subseteq DOMAIN visited /\ DOMAIN visited \subseteq queued
    /\ ToSet(queue) \subseteq queued
    /\ phase \in {"drive", "driven"} => manifest = DOMAIN visited

(* The copies hold every step that the loaded blueprint and the copies
   themselves use (writer.py:130 "its transitive uses: step chain"), also
   when the catalog changes during the walk.                                *)
SnapshotIsClosed ==
    phase \in {"drive", "driven"} =>
        /\ ToSet(UsesRefs(loaded)) \subseteq manifest
        /\ \A r \in manifest : Has(visited[r], "uses") => visited[r]["uses"] \in manifest

(* What the first document of a chain that has the field says.              *)
Said(chain, field) ==
    LET sayers == {i \in DOMAIN chain : field \in DOMAIN chain[i]} IN
    IF sayers = {} THEN "none" ELSE chain[CHOOSE i \in sayers : \A j \in sayers : i <= j][field]

(* If the catalog stood still while the run started, every step that ran
   has each field from the nearest document of its chain that sets it, and
   runs what the end of the chain runs, however often the run is resumed
   and whatever is edited later.                                            *)
RunsWhatWasLoaded ==
    phase = "driven" /\ ~edited /\ running # <<Failure>> =>
        \A i \in DOMAIN loaded.steps :
            LET step == loaded.steps[i]
                chain == Chain(visited, step) IN
            ~IsLoop(step) /\ Has(step, "uses") /\ "type" \in DOMAIN running[i] =>
                /\ \A f \in Picked : Get(running[i], f) = Said(chain, f)
                /\ running[i]["type"] = Concrete(Last(chain))["type"]
                /\ running[i]["id"] = step["id"]

(* A blueprint that validates has steps of different ids, those in loops
   included: the results of its nodes are kept by id.                       *)
AuditedIdsAreDistinct ==
    AuditStatus(file) = "ok" =>
        LET steps == Normalize(file).steps
            Body(i) == IF IsLoop(steps[i]) THEN steps[i]["do"] ELSE <<>>
            nodes == UNION {{<<i, j>> : j \in 0..Len(Body(i))} : i \in DOMAIN steps}
            IdOf(n) == IF n[2] = 0 THEN steps[n[1]]["id"] ELSE Body(n[1])[n[2]]["id"]
        IN  \A m, n \in nodes : IdOf(m) = IdOf(n) => m = n
=============================================================================
