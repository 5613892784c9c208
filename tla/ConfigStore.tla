----------------------------- MODULE ConfigStore -----------------------------
(***************************************************************************)
(* core/config: the configuration of a workspace.  `dovo config set`, `unset` *)
(* and `dovo init` read the repository's config.json, change it in memory and *)
(* replace the file, under no lock; other commands load it through a cache    *)
(* that each process keeps, and merge it over the user's and the global one.  *)
(* The replacement is written to config.json.tmp, a name that all writers     *)
(* share, and renamed; who had it open goes on writing what is now the        *)
(* config.json, or a file without a name.                                    *)
(***************************************************************************)
EXTENDS Naturals, Sequences, FiniteSets

CONSTANTS
    Users,          \* processes
    Setters,        \* those that run commands that write
    Changes,        \* what set and unset are asked for: [path, text]
    Documents,      \* what an editor may save in a tier
    MaxCommands,    \* bound: commands, all together
    MaxEdits,       \* bound: saves of the editor
    MaxTicks        \* bound: ticks of the file system's clock

VARIABLES
    file,           \* ["config" | "tmp" -> [doc, mtime]]
    upper,          \* [tier -> document]
    clock,
    versions,       \* [mtime -> how often a config.json with it appeared, up to 2]
    user,           \* [process -> its command]
    cache,          \* [process -> [doc, mtime, size]], _CONFIG_CACHE
    steady,         \* [process -> tiers that did not change since the load it is at began]
    spent

cvars == <<file, upper, clock, versions, user, cache, steady, spent>>

(* A document maps dot paths to values.  A section given as a scalar is a
   path of its own; an empty section is no path.  Documents that are not
   JSON objects are told apart only by how they are refused.                *)
Empty == [p \in {} |-> "none"]
Version == <<"version">>
Garbage == [p \in {<<"malformed">>} |-> "none"]     \* an author's mistake
Partial == [p \in {<<"partial">>} |-> "none"]       \* a replacement being written
Absent == [p \in {<<"absent">>} |-> "none"]
Name == <<"project", "name">>
Known == {Version, Name, <<"agent", "provider">>, <<"agent", "model">>, <<"worktree", "base_ref">>}
IsObject(doc) == doc \notin {Garbage, Partial, Absent}

(* What an editor saves is whole.                                           *)
ASSUME ConfigAssumption == MaxTicks \in Nat /\ Partial \notin Documents

StrictPrefix(p, q) == Len(p) < Len(q) /\ SubSeq(q, 1, Len(p)) = p
Clash(p, q) == p = q \/ StrictPrefix(p, q) \/ StrictPrefix(q, p)
Put(doc, path, value) ==
    [p \in {q \in DOMAIN doc : ~Clash(q, path)} \cup {path} |-> IF p = path THEN value ELSE doc[p]]
Remove(doc, path) == [p \in {q \in DOMAIN doc : q # path /\ ~StrictPrefix(path, q)} |-> doc[p]]

(* Known paths, sections that are sections, values of the right type, and the
   two fields that have no default.                                          *)
HasTypes(doc, numbers, texts) ==
    /\ IsObject(doc)
    /\ {Version, Name} \subseteq DOMAIN doc /\ DOMAIN doc \subseteq Known
    /\ doc[Version] \in numbers /\ doc[Name] \in texts
    /\ \A p \in DOMAIN doc \ {Version, Name} : doc[p] \in {"word", "other"}

(* The JSON schema takes 1.0 for the version 1, and null for a name, the model
   neither.  Set, unset, validate and load_config ask both, but make a text of
   the name in between; init asks the schema alone; the merge of the tiers asks
   the model alone, which takes any integer for a version.                    *)
PassesSchema(doc) == HasTypes(doc, {"number", "float"}, {"word", "other", "null"})
LoadsAsFile(doc) == HasTypes(doc, {"number"}, {"word", "other", "null"})
MergedLoads(doc) == HasTypes(doc, {"number", "newer"}, {"word", "other"})

(* parse_config_value: one pair of quotes keeps a text a text; a text without
   quotes that reads as a number, a boolean or JSON becomes one.  The facade
   and set_config_value_result each do it, as long as there is a text.      *)
Parsed(t) ==
    IF t.kind # "text" THEN t
    ELSE IF t.quotes > 0 THEN [t EXCEPT !.quotes = @ - 1]
    ELSE [t EXCEPT !.kind = IF t.reads = "number" THEN "number" ELSE "text"]
Value(t) == IF Parsed(Parsed(t)).kind = "number" THEN "number" ELSE "word"

(* CANONICAL_V1_DEFAULTS.                                                   *)
Defaults == [p \in Known |-> IF p = Version THEN "number" ELSE "other"]

NoFile == [doc |-> Absent, mtime |-> 0]
NoEntry == [doc |-> Absent, mtime |-> 0, size |-> 0]
Size(doc) == Cardinality(DOMAIN doc)
Config == file["config"].doc
Mtime == file["config"].mtime

Idle == [pc |-> "idle", op |-> "none", path |-> Version, value |-> "none", doc |-> Absent,
         fd |-> "none", mtime |-> 0, size |-> 0, merged |-> Empty, from |-> Empty, tiers |-> <<>>]

At(u, pc) == user[u].pc = pc
With(command, new) == [f \in DOMAIN command |-> IF f \in DOMAIN new THEN new[f] ELSE command[f]]
Set(u, new) == user' = [user EXCEPT ![u] = With(@, new)]
SetOnly(u, new) == user' = [user EXCEPT ![u] = With(Idle, new)]     \* the rest is of no use any more

Init ==
    /\ \E doc \in Documents : file = [config |-> [doc |-> doc, mtime |-> 0], tmp |-> NoFile]
    /\ upper = [t \in {"user", "global"} |-> Absent]
    /\ clock = 0 /\ versions = [t \in 0..MaxTicks |-> IF t = 0 THEN 1 ELSE 0]
    /\ user = [u \in Users |-> Idle]
    /\ cache = [u \in Users |-> NoEntry]
    /\ steady = [u \in Users |-> {}]
    /\ spent = [commands |-> 0, edits |-> 0]

----------------------------------------------------------------------------
(* Commands that write: set, unset and init.                                *)

Begin(u, new) ==
    /\ At(u, "idle") /\ spent.commands < MaxCommands
    /\ spent' = [spent EXCEPT !.commands = @ + 1]
    /\ SetOnly(u, new)

BeginChange(u) ==
    /\ u \in Setters
    /\ \/ \E c \in Changes, op \in {"set", "unset"} :
            Begin(u, [pc |-> "read", op |-> op, path |-> c.path, value |-> Value(c.text)])
       \/ \E policy \in {"skip", "repair", "overwrite"} : Begin(u, [pc |-> "read", op |-> policy])
    /\ UNCHANGED <<file, upper, clock, versions, cache, steady>>

(* A command ends, with a status that it shows and nobody keeps.            *)
Ended(u) == user' = [user EXCEPT ![u] = Idle]

(* set_nested_value and unset_nested_value.                                 *)
Collides(doc, path) == \E p \in DOMAIN doc : StrictPrefix(p, path)
Exists(doc, path) == \E p \in DOMAIN doc : p = path \/ StrictPrefix(path, p)
Changed(u, doc) ==
    IF user[u].op = "set" THEN Put(doc, user[u].path, user[u].value) ELSE Remove(doc, user[u].path)

(* merge_missing_keys: what the file says stays.                            *)
WithMissing(doc) ==
    [p \in DOMAIN doc \cup {q \in DOMAIN Defaults : \A d \in DOMAIN doc : ~Clash(d, q)} |->
        IF p \in DOMAIN doc THEN doc[p] ELSE Defaults[p]]

Prepare(u, doc, valid) ==
    IF valid THEN SetOnly(u, [pc |-> "open", doc |-> doc]) ELSE Ended(u)

(* The file is read and the change is made and checked in memory.           *)
ReadToChange(u) ==
    /\ At(u, "read") /\ user[u].op \in {"set", "unset"}
    /\ IF Config = Absent THEN Ended(u)
       ELSE IF ~IsObject(Config) THEN Ended(u)
       ELSE IF Collides(Config, user[u].path) THEN Ended(u)
       ELSE IF user[u].op = "unset" /\ ~Exists(Config, user[u].path) THEN Ended(u)
       ELSE Prepare(u, Changed(u, Config), LoadsAsFile(Changed(u, Config)))
    /\ UNCHANGED <<file, upper, clock, versions, cache, steady, spent>>

ReadToInit(u) ==
    /\ At(u, "read") /\ user[u].op \in {"skip", "repair", "overwrite"}
    /\ IF Config # Absent /\ user[u].op = "skip" THEN Ended(u)
       ELSE IF Config = Absent \/ user[u].op = "overwrite" THEN Prepare(u, Defaults, PassesSchema(Defaults))
       ELSE IF ~IsObject(Config) THEN Ended(u)
       ELSE Prepare(u, WithMissing(Config), PassesSchema(WithMissing(Config)))
    /\ UNCHANGED <<file, upper, clock, versions, cache, steady, spent>>

----------------------------------------------------------------------------
(* atomic_write_json, call by call.                                         *)

(* What readers of config.json see has changed.                             *)
Shown(new) ==
    LET changed == new # file["config"]
        t == new.mtime IN
    /\ versions' = IF changed /\ versions[t] < 2 THEN [versions EXCEPT ![t] = @ + 1] ELSE versions
    /\ steady' = [u \in Users |-> IF changed THEN steady[u] \ {"repo"} ELSE steady[u]]

(* The command of u ends, and the open files of the others have new names.  *)
Renamed(u, name) ==
    user' = [v \in Users |-> IF v = u THEN Idle
                ELSE [user[v] EXCEPT !.fd = IF @ \in DOMAIN name THEN name[@] ELSE @]]

(* open(tmp, "w") makes the file or empties the one that is there.          *)
OpenInPlace == "config"                     \* mutant: the file itself is opened
OpenName == "tmp"
Open(u) ==
    /\ At(u, "open")
    /\ file' = [file EXCEPT ![OpenName] = [doc |-> Partial, mtime |-> clock]]
    /\ Set(u, [pc |-> "write", fd |-> OpenName])
    /\ Shown(file'["config"])
    /\ UNCHANGED <<upper, clock, cache, spent>>

(* Text written over a longer text leaves its end.                          *)
WriteAll(u) ==
    /\ At(u, "write")
    /\ LET fd == user[u].fd IN
         IF fd = "lost" THEN UNCHANGED <<file, versions, steady>>
         ELSE /\ \E doc \in {user[u].doc} \cup (IF file[fd].doc = Partial THEN {} ELSE {Partial}) :
                   file' = [file EXCEPT ![fd] = [doc |-> doc, mtime |-> clock]]
              /\ Shown(file'["config"])
    /\ Set(u, [pc |-> "replace"])
    /\ UNCHANGED <<upper, clock, cache, spent>>

WriteFails(u) ==
    /\ At(u, "write")
    /\ file' = [file EXCEPT !["tmp"] = NoFile]
    /\ Renamed(u, [tmp |-> "lost"])
    /\ UNCHANGED <<upper, clock, versions, cache, steady, spent>>

(* The replacement and clear_config_cache; without a tmp it fails.          *)
Replace(u) ==
    /\ At(u, "replace")
    /\ IF file["tmp"].doc = Absent
       THEN Ended(u) /\ UNCHANGED <<file, versions, cache, steady>>
       ELSE /\ file' = [config |-> file["tmp"], tmp |-> NoFile]
            /\ cache' = [cache EXCEPT ![u] = NoEntry]
            /\ Renamed(u, [tmp |-> "config", config |-> "lost"])
            /\ Shown(file["tmp"])
    /\ UNCHANGED <<upper, clock, spent>>

----------------------------------------------------------------------------
(* Config.load: load_config, then load_hierarchical_config.  Config.validate
   judges what load_config returns.                                         *)

BeginLoad(u) ==
    /\ \E op \in {"load", "validate"} : Begin(u, [pc |-> "stat", op |-> op])
    /\ steady' = [steady EXCEPT ![u] = {"repo", "user", "global"}]
    /\ UNCHANGED <<file, upper, clock, versions, cache>>

(* Whose load has ended has no use for what was steady.                     *)
Watched(u) == steady' = [steady EXCEPT ![u] = IF user'[u].pc = "idle" THEN {} ELSE @]

TierOrder == <<"global", "user", "repo">>
ToTiers(u) ==
    IF user[u].op = "validate" THEN Ended(u)
    ELSE SetOnly(u, [pc |-> "tiers", tiers |-> TierOrder, merged |-> Defaults,
                     from |-> [p \in DOMAIN Defaults |-> "packaged"]])

(* Time and size of the file are taken before the file is read.             *)
Stat(u) ==
    /\ At(u, "stat")
    /\ IF Config = Absent
       THEN Ended(u) /\ cache' = [cache EXCEPT ![u] = NoEntry]
       ELSE /\ UNCHANGED cache
            /\ IF cache[u].doc # Absent /\ cache[u].mtime = Mtime /\ cache[u].size = Size(Config) THEN ToTiers(u)
               ELSE Set(u, [pc |-> "parse", mtime |-> Mtime, size |-> Size(Config)])
    /\ Watched(u)
    /\ UNCHANGED <<file, upper, clock, versions, spent>>

StampAfter(u) == [doc |-> Config, mtime |-> clock, size |-> Size(Config)]  \* mutant: the time is taken after the file was read
Stamp(u) == [doc |-> Config, mtime |-> user[u].mtime, size |-> user[u].size]
Parse(u) ==
    /\ At(u, "parse")
    /\ IF LoadsAsFile(Config)
       THEN ToTiers(u) /\ cache' = [cache EXCEPT ![u] = Stamp(u)]
       ELSE Ended(u) /\ UNCHANGED cache
    /\ Watched(u)
    /\ UNCHANGED <<file, upper, clock, versions, spent>>

(* _deep_merge, path by path; from remembers whose value it is.             *)
Shallow(p, doc) == \A d \in DOMAIN doc : d[1] # p[1]   \* mutant: a section replaces a section
Kept(p, doc) == \A d \in DOMAIN doc : ~Clash(p, d)
Merge(base, doc) ==
    [p \in {q \in DOMAIN base : Kept(q, doc)} \cup DOMAIN doc |-> IF p \in DOMAIN doc THEN doc[p] ELSE base[p]]

Doc(tier) == IF tier = "repo" THEN Config ELSE upper[tier]
ReadTier(u) ==
    /\ At(u, "tiers") /\ user[u].tiers # <<>>
    /\ LET tier == Head(user[u].tiers)
           doc == Doc(tier)
           merged == Merge(user[u].merged, doc) IN
         IF doc = Absent THEN Set(u, [tiers |-> Tail(user[u].tiers)])
         ELSE IF ~IsObject(doc) \/ ~MergedLoads(merged) THEN Ended(u)
         ELSE Set(u, [tiers |-> Tail(user[u].tiers), merged |-> merged,
                      from |-> Merge(user[u].from, [p \in DOMAIN doc |-> tier])])
    /\ Watched(u)
    /\ UNCHANGED <<file, upper, clock, versions, cache, spent>>

Loaded(u) ==
    /\ At(u, "tiers") /\ user[u].tiers = <<>>
    /\ Ended(u)
    /\ Watched(u)
    /\ UNCHANGED <<file, upper, clock, versions, cache, spent>>

----------------------------------------------------------------------------
(* A process dies, and its successor starts with an empty cache.            *)
Dies(u) ==
    /\ ~At(u, "idle")
    /\ user' = [user EXCEPT ![u] = Idle] /\ cache' = [cache EXCEPT ![u] = NoEntry]
    /\ Watched(u)
    /\ UNCHANGED <<file, upper, clock, versions, spent>>

Edit(tier, doc) ==
    /\ spent.edits < MaxEdits
    /\ spent' = [spent EXCEPT !.edits = @ + 1]
    /\ IF tier = "repo"
       THEN /\ file' = [file EXCEPT !["config"] = [doc |-> doc, mtime |-> clock]]
            /\ UNCHANGED upper
            /\ Shown(file'["config"])
       ELSE /\ upper' = [upper EXCEPT ![tier] = doc]
            /\ steady' = [u \in Users |-> steady[u] \ {tier}]
            /\ UNCHANGED <<file, versions>>
    /\ user' = IF tier # "repo" THEN user
               ELSE [u \in Users |-> [user[u] EXCEPT !.fd = IF @ = "config" THEN "lost" ELSE @]]
    /\ UNCHANGED <<clock, cache>>

Tick ==
    /\ clock < MaxTicks
    /\ clock' = clock + 1
    /\ UNCHANGED <<file, upper, versions, user, cache, steady, spent>>

Next ==
    \/ \E u \in Users :
         \/ BeginChange(u) \/ ReadToChange(u) \/ ReadToInit(u)
         \/ Open(u) \/ WriteAll(u) \/ WriteFails(u) \/ Replace(u)
         \/ BeginLoad(u) \/ Stat(u) \/ Parse(u) \/ ReadTier(u) \/ Loaded(u)
         \/ Dies(u)
    \/ \E tier \in {"repo", "user", "global"}, doc \in Documents : Edit(tier, doc)
    \/ Tick

Spec == Init /\ [][Next]_cvars

----------------------------------------------------------------------------
(* Properties.                                                              *)

(* The variables have the values the code gives them.                       *)
TypeOK ==
    /\ \A t \in DOMAIN versions : versions[t] \in 0..2
    /\ Config # Absent => Mtime <= clock /\ versions[Mtime] > 0
    /\ \A u \in Users :
         /\ At(u, "open") \/ At(u, "write") => PassesSchema(user[u].doc)
         /\ cache[u].doc # Absent => LoadsAsFile(cache[u].doc)
         /\ steady[u] \subseteq {"repo", "user", "global"}

(* Nobody ever finds a half-written config.json, whenever a writer dies
   (operations.py:23 "Write JSON atomically").                               *)
FileIsWhole == Config # Partial

(* While the file has the time and size that a cache entry has, the entry is
   what the file says, unless two files with that time have been in its
   place: the entry is as good as the clock of the file system.              *)
CacheIsFresh ==
    \A u \in Users :
        cache[u].doc # Absent /\ Config # Absent /\ <<cache[u].mtime, cache[u].size>> = <<Mtime, Size(Config)>> =>
            cache[u].doc = Config \/ versions[Mtime] > 1

(* A config.json is whole, and what a process takes from its cache is what
   the file says.                                                            *)
ConfigIsWhole == TypeOK /\ FileIsWhole /\ CacheIsFresh

(* What a load answers for a setting is from a tier at least as specific as
   every tier that had the setting all along, and is what that tier says.    *)
Rank(tier) == CHOOSE i \in 1..4 : <<"repo", "user", "global", "packaged">>[i] = tier
EffectiveIsMostSpecific ==
    \A u \in Users : At(u, "tiers") /\ user[u].tiers = <<>> =>
        \A t \in steady[u] : \A p \in DOMAIN Doc(t) :
            IsObject(Doc(t)) =>
                /\ p \in DOMAIN user[u].from /\ Rank(user[u].from[p]) <= Rank(t)
                /\ user[u].from[p] = t => user[u].merged[p] = Doc(t)[p]

----------------------------------------------------------------------------
(* The inductive invariant.                                                 *)

Tiers == {"repo", "user", "global"}
OneSetter == \A u, v \in Setters : u = v

(* What has which fields and tiers.                                         *)
FileShapes ==
    /\ clock \in 0..MaxTicks /\ versions \in [0..MaxTicks -> 0..2]
    /\ DOMAIN file = {"config", "tmp"} /\ DOMAIN upper = {"user", "global"}
    /\ \A f \in {"config", "tmp"} : DOMAIN file[f] = {"doc", "mtime"} /\ file[f].mtime \in 0..clock
CommandShapes ==
    /\ DOMAIN user = Users /\ \A u \in Users : DOMAIN user[u] = DOMAIN Idle
    /\ DOMAIN cache = Users /\ \A u \in Users : DOMAIN cache[u] = DOMAIN NoEntry
    /\ steady \in [Users -> SUBSET Tiers]

(* An entry is of a file that has been there; if that is the only one with
   its time, then it is what the file says when the file has that time.      *)
EntriesAreCounted ==
    /\ versions[Mtime] > 0
    /\ \A u \in Users : At(u, "parse") => user[u].mtime \in 0..MaxTicks /\ versions[user[u].mtime] > 0
    /\ \A u \in Users : cache[u].doc # Absent =>
         /\ LoadsAsFile(cache[u].doc)
         /\ cache[u].mtime \in 0..MaxTicks /\ versions[cache[u].mtime] > 0
         /\ cache[u].mtime = Mtime /\ versions[Mtime] = 1 => cache[u].doc = Config

(* Setters write, and only documents that pass the schema.                  *)
WritersAreSetters ==
    \A u \in Users :
        /\ user[u].op \in {"set", "unset", "skip", "repair", "overwrite"} => u \in Setters
        /\ user[u].pc \in {"open", "write", "replace"} => u \in Setters
        /\ user[u].pc \in {"open", "write"} => PassesSchema(user[u].doc)

(* A writer who is alone has the temporary file to itself.                  *)
TmpIsOnesOwn ==
    OneSetter =>
        /\ FileIsWhole
        /\ \A u \in Users :
             /\ At(u, "write") => user[u].fd = "tmp" /\ file["tmp"].doc = Partial
             /\ At(u, "replace") => file["tmp"].doc # Partial

(* What a load has merged so far is right for the tiers it has read.        *)
Rests == {<<>>, <<"repo">>, <<"user", "repo">>, TierOrder}
Done(rest) == Tiers \ {rest[i] : i \in DOMAIN rest}
MergedRight(u) ==
    /\ user[u].tiers \in Rests
    /\ DOMAIN user[u].merged \subseteq Known /\ DOMAIN user[u].from = DOMAIN user[u].merged
    /\ \A p \in DOMAIN user[u].from : user[u].from[p] \in Done(user[u].tiers) \cup {"packaged"}
    /\ \A t \in Done(user[u].tiers) \cap steady[u] : IsObject(Doc(t)) =>
         \A p \in DOMAIN Doc(t) :
            /\ p \in DOMAIN user[u].from /\ Rank(user[u].from[p]) <= Rank(t)
            /\ user[u].from[p] = t => user[u].merged[p] = Doc(t)[p]
MergedSoFar == \A u \in Users : At(u, "tiers") => MergedRight(u)

IInv == FileShapes /\ CommandShapes /\ EntriesAreCounted /\ WritersAreSetters /\ TmpIsOnesOwn /\ MergedSoFar
=============================================================================
