------------------------------- MODULE Catalog -------------------------------
(***************************************************************************)
(* core/catalog: blueprints and steps as YAML files in three directories,    *)
(* the tiers, each with an index.json that every lookup rewrites first, and  *)
(* packaged templates as a fourth tier.  Commands of several processes run   *)
(* under two locks, one for the repository and one that the USER and GLOBAL  *)
(* tiers share; an editor changes files under none.                          *)
(***************************************************************************)
EXTENDS Naturals, Sequences, FiniteSets

CONSTANTS
    Users,          \* processes that run catalog commands
    Paths,          \* paths below a tier: the type's directory, the namespace, the stem
    Targets,        \* what users ask for
    MaxCommands,    \* bound: commands of each
    MaxEdits        \* bound: files the editor writes or removes

ASSUME CatalogAssumption ==
    /\ Users \cap {"free", "template", "editor", "absent", "unreadable"} = {}
    /\ MaxCommands \in Nat /\ MaxEdits \in Nat

VARIABLES
    files,      \* [tier -> [path -> who wrote it, or "absent"]]
    index,      \* [tier -> entries of its index.json]
    holder,     \* [lock -> process, or "free"]
    user,       \* [process -> its command]
    steady,     \* [process -> files nobody changed since its command began]
    spent       \* commands and edits so far

vars == <<files, index, holder, user, steady, spent>>

Tiers == {"repo", "user", "global"}
Precedence == <<"repo", "user", "global", "packaged">>
Rank(tier) == CHOOSE i \in DOMAIN Precedence : Precedence[i] = tier

(* A namespace is made of the directories between the type's and the file; it
   and the stem are the file's key.  Only the namespace dovo itself is the
   one of the bundled templates.                                            *)
Bundled(path) == path.namespace = "dovo"
InDovo(namespace) == namespace \in {"dovo", "dovo/sub"}
Starter == [type |-> "blueprint", namespace |-> "", stem |-> "default"]
Example == [type |-> "blueprint", namespace |-> "dovo", stem |-> "a"]

(* A file's content is named after its writer; the sha is made of the type
   and the content.  An unreadable file is left out of the index with a
   warning.                               *)
Authors == Users \cup {"template", "editor"}
Contents == Authors \cup {"absent", "unreadable"}
Entry(path, content) == [path |-> path, sha |-> [type |-> path.type, content |-> content]]

(* What a user asks for: a key or a sha.                                    *)
Key(namespace, stem) == [by |-> "key", of |-> namespace, value |-> stem]
Sha(type, content) == [by |-> "sha", of |-> type, value |-> content]
Matches(entry, target) ==
    \/ target = Key(entry.path.namespace, entry.path.stem)
    \/ target = Sha(entry.sha.type, entry.sha.content)

LockOf(tier) == IF tier = "repo" THEN "repo" ELSE "global"
Free(lock, u) == holder[lock] \in {"free", u}

NoPath == [type |-> "none", namespace |-> "none", stem |-> "none"]
Idle == [pc |-> "idle", op |-> "none", target |-> Key("none", "none"), tier |-> "none", path |-> NoPath,
         todo |-> <<>>, then |-> "none", scan |-> {}, seen |-> {}, outer |-> "none",
         item |-> [tier |-> "none", entry |-> Entry(NoPath, "absent")]]

At(u, pc) == user[u].pc = pc
With(c, new) == [f \in DOMAIN c |-> IF f \in DOMAIN new THEN new[f] ELSE c[f]]
Set(u, new) == user' = [user EXCEPT ![u] = With(user[u], new)]
Finish(u) ==
    /\ user' = [user EXCEPT ![u] = Idle]
    /\ holder' = [l \in DOMAIN holder |-> IF holder[l] = u THEN "free" ELSE holder[l]]

Init ==
    /\ files = [t \in Tiers |-> [p \in Paths |->
                   IF t = "user" \/ (t = "repo" /\ InDovo(p.namespace)) THEN "template" ELSE "absent"]]
    /\ index = [t \in Tiers |-> {}]
    /\ holder = [l \in {"repo", "global"} |-> "free"]
    /\ user = [u \in Users |-> Idle]
    /\ steady = [u \in Users |-> {}]
    /\ spent = [commands |-> [u \in Users |-> 0], edits |-> 0]

----------------------------------------------------------------------------
(* A command begins.                                                        *)

Begin(u, new) ==
    /\ At(u, "idle") /\ spent.commands[u] < MaxCommands
    /\ spent' = [spent EXCEPT !.commands[u] = @ + 1]
    /\ steady' = [steady EXCEPT ![u] =
                    {x \in Tiers \X Paths : files[x[1]][x[2]] \notin {"absent", "unreadable"}}]
    /\ Set(u, new)
    /\ UNCHANGED <<files, index, holder>>

(* scan_and_index_catalog: the order of sync.                               *)
SyncOrder == <<"global", "user", "repo">>
ReadOrder == <<"repo", "user", "global">>

(* Catalog.get, list and validate.                                          *)
BeginGet(u, target) ==
    Begin(u, [pc |-> "index", op |-> "get", target |-> target, todo |-> SyncOrder, then |-> "read"])

BeginCreate(u, path, tier) ==
    Begin(u, [pc |-> "lock", op |-> "create", path |-> path, tier |-> tier, then |-> "check"])

(* Catalog.save writes the REPO tier, over a file that is there.            *)
BeginSave(u, path) ==
    Begin(u, [pc |-> "lock", op |-> "save", path |-> path, tier |-> "repo", then |-> "put"])

(* A name that begins with dovo/ is refused before anything is locked.      *)
BeginDelete(u, target) ==
    /\ ~(target.by = "key" /\ InDovo(target.of))
    /\ Begin(u, [pc |-> "lock", op |-> "delete", target |-> target, tier |-> "repo", then |-> "sync"])

BeginSeed(u, force) ==
    Begin(u, [pc |-> "lock", op |-> "seed", target |-> Key("seed", force), tier |-> "repo", then |-> "seed"])

----------------------------------------------------------------------------
(* Locks: a command that writes holds the lock of its tier to the end; the
   locks are reentrant, and waiting for one ends with a timeout.            *)

Acquire(u) ==
    /\ At(u, "lock") /\ Free(LockOf(user[u].tier), u)
    /\ holder' = [holder EXCEPT ![LockOf(user[u].tier)] = u]
    /\ Set(u, IF user[u].then = "sync"
              THEN [pc |-> "index", todo |-> SyncOrder, then |-> "read", outer |-> "repo"]
              ELSE [pc |-> user[u].then, outer |-> LockOf(user[u].tier)])
    /\ UNCHANGED <<files, index, steady, spent>>

Waits(u, lock) ==
    /\ ~Free(lock, u)
    /\ \/ At(u, "lock") /\ lock = LockOf(user[u].tier)
       \/ At(u, "index") /\ user[u].todo # <<>> /\ lock = LockOf(Head(user[u].todo))

LockTimeout(u) ==
    /\ \E lock \in DOMAIN holder : Waits(u, lock)
    /\ Finish(u)
    /\ UNCHANGED <<files, index, steady, spent>>

(* The process dies: its locks are released, its writes stay.               *)
Dies(u) ==
    /\ ~At(u, "idle")
    /\ Finish(u)
    /\ UNCHANGED <<files, index, steady, spent>>

----------------------------------------------------------------------------
(* scan_and_index_tier, tier by tier, and then the indices one by one.      *)

Scan(u) ==
    /\ At(u, "index") /\ user[u].todo # <<>>
    /\ LET tier == Head(user[u].todo) IN
         /\ Free(LockOf(tier), u)
         /\ holder' = [holder EXCEPT ![LockOf(tier)] = u]
         /\ Set(u, [pc |-> "write", scan |-> {Entry(p, files[tier][p]) :
                        p \in {q \in Paths : files[tier][q] \notin {"absent", "unreadable"}}}])
    /\ UNCHANGED <<files, index, steady, spent>>

WriteIndex(u) ==
    /\ At(u, "write")
    /\ LET tier == Head(user[u].todo)
           rest == Tail(user[u].todo)
           last == rest = <<>> /\ user[u].then = "report" IN
         /\ index' = [index EXCEPT ![tier] = user[u].scan]
         /\ holder' = [holder EXCEPT ![LockOf(tier)] =
                          IF user[u].outer = LockOf(tier) /\ ~last THEN u ELSE "free"]
         /\ user' = [user EXCEPT ![u] =
              IF last THEN Idle
              ELSE IF rest = <<>> THEN [@ EXCEPT !.pc = "read", !.todo = ReadOrder, !.scan = {}]
              ELSE [@ EXCEPT !.pc = "index", !.todo = rest, !.scan = {}]]
    /\ UNCHANGED <<files, steady, spent>>

(* resolve_catalog_records and find_catalog_record_matches.                 *)
ReadIndex(u) ==
    /\ At(u, "read") /\ user[u].todo # <<>>
    /\ LET tier == Head(user[u].todo) IN
         Set(u, [todo |-> Tail(user[u].todo),
                 seen |-> user[u].seen \cup
                     {[tier |-> tier, entry |-> e] : e \in {x \in index[tier] : Matches(x, user[u].target)}}])
    /\ UNCHANGED <<files, index, holder, steady, spent>>

FromPackage(path) == [tier |-> "packaged", entry |-> Entry(path, "template")]
Defaults == {FromPackage(Starter)}

(* For a key that nothing matches a packaged template answers, with the
   prefix dovo/ or without.                                                 *)
Fallback(target) ==
    {FromPackage(p) : p \in {q \in {Starter, Example} : target \in {Key("", q.stem), Key("dovo", q.stem)}}}

Candidates(u) ==
    LET found == user[u].seen \cup {d \in Defaults : Matches(d.entry, user[u].target)} IN
    IF found = {} THEN Fallback(user[u].target) ELSE found

(* The first record: by tier, and in a tier as the directories are walked.   *)
LeastSpecific(c, d) == Rank(c.tier) >= Rank(d.tier)     \* mutant: the last tier wins
MostSpecific(c, d) == Rank(c.tier) <= Rank(d.tier)
PathRank(p) ==
    (IF p.type = "step" THEN 3 ELSE 0) + (IF p.namespace = "" THEN 1 ELSE IF Bundled(p) THEN 2 ELSE 3)
Winner(found) ==
    CHOOSE c \in found : \A d \in found :
        MostSpecific(c, d) /\ (c.tier = d.tier => PathRank(c.entry.path) <= PathRank(d.entry.path))

Pick(u) ==
    /\ At(u, "read") /\ user[u].todo = <<>>
    /\ IF Candidates(u) = {}
       THEN Finish(u)
       ELSE /\ Set(u, [pc |-> IF user[u].op = "get" THEN "load" ELSE "erase", item |-> Winner(Candidates(u))])
            /\ UNCHANGED holder
    /\ UNCHANGED <<files, index, steady, spent>>

(* _validate_definition reads the file of the record: a file that is gone,
   unreadable or not YAML is a load error, never a less specific record.    *)
Load(u) ==
    /\ At(u, "load")
    /\ Finish(u)
    /\ UNCHANGED <<files, index, steady, spent>>

----------------------------------------------------------------------------
(* Commands that write.                                                     *)

Write(u, tier, path, content) ==
    /\ files' = [files EXCEPT ![tier][path] = content]
    /\ steady' = [w \in Users |-> steady[w] \ {<<tier, path>>}]

(* create_catalog_item: a collision ends it.                                *)
Check(u) ==
    /\ At(u, "check")
    /\ IF files[user[u].tier][user[u].path] # "absent"
       THEN Finish(u)
       ELSE Set(u, [pc |-> "put"]) /\ UNCHANGED holder
    /\ UNCHANGED <<files, index, steady, spent>>

IndexAll(tier) == SyncOrder                 \* mutant: create indexes every tier
IndexTier(tier) == <<tier>>
Put(u) ==
    /\ At(u, "put")
    /\ Write(u, user[u].tier, user[u].path, u)
    /\ Set(u, [pc |-> "index", todo |-> IndexTier(user[u].tier), then |-> "report"])
    /\ UNCHANGED <<index, holder, spent>>

(* seed_all_catalog_templates: an existing file is kept unless forced.      *)
Seed(u) ==
    /\ At(u, "seed")
    /\ IF files["repo"][Example] = "absent" \/ user[u].target = Key("seed", "force")
       THEN Write(u, "repo", Example, "template") ELSE UNCHANGED <<files, steady>>
    /\ Finish(u)
    /\ UNCHANGED <<index, spent>>

(* delete_catalog_item_by_sha_or_name: the record must be of the REPO tier
   and not of the namespace dovo, however it was named.                     *)
OnlyTier(item) == item.tier = "repo"        \* mutant: the prefix of the name is enough
Deletable(item) == item.tier = "repo" /\ ~Bundled(item.entry.path)
Erase(u) ==
    /\ At(u, "erase")
    /\ IF Deletable(user[u].item)
       THEN /\ Write(u, "repo", user[u].item.entry.path, "absent")
            /\ Set(u, [pc |-> "index", todo |-> <<"repo">>, then |-> "report", seen |-> {}])
            /\ UNCHANGED holder
       ELSE Finish(u) /\ UNCHANGED <<files, steady>>
    /\ UNCHANGED <<index, spent>>

(* Somebody edits the directory; no lock is involved.                       *)
Edit(tier, path, content) ==
    /\ spent.edits < MaxEdits /\ files[tier][path] # content
    /\ spent' = [spent EXCEPT !.edits = @ + 1]
    /\ Write("editor", tier, path, content)
    /\ UNCHANGED <<index, holder, user>>

Command(u) ==
    \/ \E target \in Targets : BeginGet(u, target) \/ BeginDelete(u, target)
    \/ \E path \in Paths : BeginSave(u, path) \/ \E tier \in Tiers : BeginCreate(u, path, tier)
    \/ \E force \in {"force", "keep"} : BeginSeed(u, force)

Work(u) ==
    \/ Acquire(u) \/ Scan(u) \/ WriteIndex(u) \/ ReadIndex(u) \/ Pick(u) \/ Load(u)
    \/ Check(u) \/ Put(u) \/ Seed(u) \/ Erase(u)

Next ==
    \/ \E u \in Users : Command(u) \/ Work(u) \/ LockTimeout(u) \/ Dies(u)
    \/ \E tier \in Tiers, path \in Paths, content \in {"absent", "editor", "unreadable"} :
         Edit(tier, path, content)

Spec == Init /\ [][Next]_vars

----------------------------------------------------------------------------
(* Properties.                                                              *)

(* The variables have the values the code gives them.                       *)
TypeOK ==
    /\ files \in [Tiers -> [Paths -> Contents]]
    /\ DOMAIN index = Tiers /\ \A t \in Tiers : \A e \in index[t] : e.path \in Paths /\ e.sha.content \in Contents
    /\ holder \in [{"repo", "global"} -> Users \cup {"free"}]
    /\ steady \in [Users -> SUBSET (Tiers \X Paths)]

(* A lookup answers with a record at least as specific as every matching
   file that was there, unchanged, all along (catalog.py:215 "never a stale
   index"), whatever other commands and the editor did meanwhile.           *)
LookupIsMostSpecific ==
    \A u \in Users : At(u, "load") /\ user[u].op = "get" =>
        \A t \in Tiers, p \in Paths :
            <<t, p>> \in steady[u] /\ Matches(Entry(p, files[t][p]), user[u].target)
                => Rank(user[u].item.tier) <= Rank(t)

(* Two processes never wait for each other's locks.                         *)
NoWaitCycle ==
    ~ \E u, w \in Users, l, m \in DOMAIN holder :
        u # w /\ Waits(u, l) /\ holder[l] = w /\ Waits(w, m) /\ holder[m] = u

(* What delete removes is what was asked for when it was asked: a file of the
   repository that has the key or the sha still, not what another command has
   saved there since, and nothing in the namespace dovo, though what is below
   that namespace goes when its sha is named; only the editor, who takes no
   lock, may have put something else in its place (inventory.py:354).       *)
DeleteRemovesTheNamed ==
    [][\A u \in Users : At(u, "erase") /\ ~At(u, "erase")' =>
         \A t \in Tiers, p \in Paths : files'[t][p] # files[t][p] =>
            /\ t = "repo" /\ p.namespace # "dovo"
            /\ files[t][p] \in {"editor", "unreadable"} \/ Matches(Entry(p, files[t][p]), user[u].target)]_vars

(* create never replaces a file that another command has written: two
   creations of one key, or a creation and a save, leave what came first.   *)
CreationsAreKept ==
    [][\A u \in Users : At(u, "put") /\ user[u].op = "create" /\ ~At(u, "put")' =>
         \A t \in Tiers, p \in Paths :
            files'[t][p] # files[t][p] => files[t][p] \notin Users]_vars

(* What the commands that write may touch: both of the above.               *)
CommandsSpareFiles == DeleteRemovesTheNamed /\ CreationsAreKept

(* A lookup gives the most specific file; nobody waits in a circle.         *)
CatalogIsOrderly == TypeOK /\ LookupIsMostSpecific /\ NoWaitCycle

----------------------------------------------------------------------------
(* What makes them inductive.                                               *)

PCs == {"idle", "lock", "index", "write", "read", "load", "erase", "check", "put", "seed"}
Todos == {<<>>, <<"global">>, <<"user">>, <<"repo">>, <<"user", "repo">>, <<"user", "global">>, SyncOrder, ReadOrder}
Left(todo) == {todo[i] : i \in DOMAIN todo}

CommandsOK ==
    /\ DOMAIN user = Users
    /\ \A u \in Users :
         /\ DOMAIN user[u] = DOMAIN Idle
         /\ user[u].pc \in PCs /\ user[u].todo \in Todos
         /\ user[u].outer \in {"none", "repo", "global"}
         /\ \A e \in user[u].scan : e.path \in Paths /\ e.sha.content \in Contents
         /\ \A c \in user[u].seen : c.tier \in Tiers

(* What a command still has to do, and the lock it holds to its end.        *)
InOrder(c) ==
    /\ c.pc = "idle" => c.outer = "none"
    /\ c.pc = "lock" =>
         /\ c.outer = "none" /\ c.tier \in Tiers
         /\ \/ c.then = "check" \/ (c.then = "put" /\ c.op = "save")
            \/ c.then \in {"sync", "seed"} /\ c.tier = "repo"
         /\ c.then = "sync" => c.op = "delete"
         /\ c.then \in {"check", "put"} => c.path \in Paths
    /\ c.pc \in {"check", "put", "seed"} =>
         /\ c.tier \in Tiers /\ c.outer = LockOf(c.tier)
         /\ IF c.pc = "seed" THEN c.tier = "repo" ELSE c.path \in Paths
    /\ c.pc \in {"index", "write"} =>
         /\ c.todo # <<>> /\ c.then \in {"read", "report"}
         /\ c.then = "report" => Tail(c.todo) = <<>> /\ c.outer = LockOf(Head(c.todo))
    /\ (c.pc \in {"index", "write"} /\ c.then = "read") \/ c.pc \in {"read", "load", "erase"} =>
         \/ c.op = "get" /\ c.outer = "none"
         \/ c.op = "delete" /\ c.outer = "repo"
    /\ c.pc = "erase" => c.op = "delete"
CommandsInOrder == \A u \in Users : InOrder(user[u])

(* A lock is held by the command that has it to its end, and by the one that
   writes an index under it.                                                *)
LocksInHand ==
    \A u \in Users :
        /\ user[u].outer # "none" => holder[user[u].outer] = u
        /\ At(u, "write") => holder[LockOf(Head(user[u].todo))] = u
        /\ \A l \in {"repo", "global"} :
             holder[l] = u => l = user[u].outer \/ (At(u, "write") /\ l = LockOf(Head(user[u].todo)))

(* A tier that a lookup has indexed has an entry for every file that stays,
   and so has a scan of it that any process is about to write.              *)
Indexed(u, t) ==
    \/ user[u].pc \in {"index", "write"} /\ user[u].then = "read" /\ t \notin Left(user[u].todo)
    \/ user[u].pc \in {"read", "load", "erase"}

SteadyAreThere ==
    \A u \in Users : \A t \in Tiers, p \in Paths :
        <<t, p>> \in steady[u] => files[t][p] \notin {"absent", "unreadable"}
IndexIsFresh ==
    \A u \in Users : \A t \in Tiers, p \in Paths :
        <<t, p>> \in steady[u] /\ Indexed(u, t) => Entry(p, files[t][p]) \in index[t]
ScansAreFresh ==
    \A w \in Users : At(w, "write") =>
        \A u \in Users : \A t \in Tiers, p \in Paths :
            /\ t = Head(user[w].todo) /\ <<t, p>> \in steady[u]
            /\ u = w \/ Indexed(u, t)
            => Entry(p, files[t][p]) \in user[w].scan
SteadyAreSeen ==
    \A u \in Users : At(u, "read") =>
        \A t \in Tiers, p \in Paths :
            /\ t \notin Left(user[u].todo) /\ <<t, p>> \in steady[u]
            /\ Matches(Entry(p, files[t][p]), user[u].target)
            => [tier |-> t, entry |-> Entry(p, files[t][p])] \in user[u].seen

(* Since a creation found its path free no other command has written there. *)
CreationsAreFree ==
    \A u \in Users : At(u, "put") /\ user[u].op = "create" => files[user[u].tier][user[u].path] \notin Users

(* What a delete has read of the repository is still so under its lock: no
   file of an entry holds what another command has written since.           *)
Unsaved(entry) == files["repo"][entry.path] \in {entry.sha.content, "absent", "editor", "unreadable"}
WellFormed(entry) == entry.path \in Paths /\ entry = Entry(entry.path, entry.sha.content)
Named(u, entry) == WellFormed(entry) /\ Matches(entry, user[u].target) /\ Unsaved(entry)
DeleteAsRead(u) ==
    /\ \A e \in user[u].scan : WellFormed(e)
    /\ At(u, "write") /\ Head(user[u].todo) = "repo" => \A e \in user[u].scan : Unsaved(e)
    /\ user[u].op = "delete" /\ Indexed(u, "repo") => \A e \in index["repo"] : Unsaved(e)
    /\ user[u].pc \notin {"read", "load", "erase"} => user[u].seen = {}
    /\ user[u].op = "delete" => \A c \in user[u].seen : c.tier = "repo" => Named(u, c.entry)
    /\ At(u, "erase") /\ user[u].item.tier = "repo" => Named(u, user[u].item.entry)
DeletesAsRead == (\A e \in index["repo"] : WellFormed(e)) /\ \A u \in Users : DeleteAsRead(u)

CatalogIInv ==
    /\ TypeOK /\ CommandsOK /\ CommandsInOrder /\ LocksInHand
    /\ SteadyAreThere /\ IndexIsFresh /\ ScansAreFresh /\ SteadyAreSeen
    /\ LookupIsMostSpecific /\ CreationsAreFree
=============================================================================
