------------------------------ MODULE Worktrees ------------------------------
(***************************************************************************)
(* core/worktree: the git worktrees under .dovo/worktrees, their branches   *)
(* and registrations in git, their rows in the database, and the commands   *)
(* and runs that create, apply, delete, list and prune them.                *)
(*                                                                          *)
(* A command is a few guarded actions that end in a sequence `todo` of      *)
(* primitive steps (drop a directory, mark a row, drop a branch, prune      *)
(* registrations).  Each step can fail, and a process can die before any.   *)
(* The workspace lock is the abstract one that WorkspaceLock implements.    *)
(***************************************************************************)
EXTENDS Naturals, FiniteSets, SequencesExt

CONSTANTS
    Procs,      \* the dovo processes
    NoProc,     \* the lock is free
    Keys,       \* worktree ids of runs: blueprint keys
    Temps,      \* worktree ids of `dovo worktree create`: dovo_<8 hex>, unique
    Spaces,     \* namespaces of blueprint keys
    Space,      \* namespaced key -> the directory it shares with others
    NoId,       \* no worktree
    Capacity,   \* worktree.max_active_worktrees
    MaxActs,    \* bound: commands (prune apart), edits and commits
    MaxFaults   \* bound: failing steps, crashes and removals behind dovo's back

Ids == Keys \cup Temps
ASSUME WorktreesAssumption ==
    /\ NoProc \notin Procs /\ NoId \notin Ids \cup Spaces
    /\ Keys \cap Temps = {} /\ Ids \cap Spaces = {}
    /\ DOMAIN Space \subseteq Keys /\ \A k \in DOMAIN Space : Space[k] \in Spaces
    /\ IsFiniteSet(Ids) /\ IsFiniteSet(Spaces)
    /\ Capacity \in Nat /\ MaxActs \in Nat /\ MaxFaults \in Nat

VARIABLES
    dirs,       \* worktrees whose directory exists
    nests,      \* namespace directories that exist
    refs,       \* worktrees registered in git
    branches,   \* worktrees whose branch dovo/<id> exists
    work,       \* changes of each worktree: "edits" in its files, "commits" on its branch
    row,        \* status of its database row, or "none"
    applied,    \* worktrees whose changes were put into the main workspace
    mainDirty,  \* the main workspace has uncommitted changes
    lock,       \* holder of .dovo/.lock
    pc, op, id, \* what each process does, of which command, on which worktree
    todo,       \* its remaining primitive steps
    using,      \* the worktree each process's run works in
    paused,     \* the worktrees that paused runs kept
    acts, faults

disk == <<dirs, nests, refs, branches, work>>
proc == <<lock, pc, op, id, todo, using, paused>>
vars == <<disk, row, applied, mainDirty, proc, acts, faults>>

Status == {"none", "active", "merged", "conflict", "cleaned"}
PCs == {"idle", "confirm", "wait", "add", "build", "persist", "apply", "verify",
        "patch", "squash", "detect", "steps", "list", "run", "close"}
Ops == {"none", "start", "create", "apply", "delete", "cleanup", "prune", "force", "list", "show"}

Goto(p, label) == pc' = [pc EXCEPT ![p] = label]
Act == acts < MaxActs /\ acts' = acts + 1
Fault == faults < MaxFaults /\ faults' = faults + 1
NoFault == faults' = faults

(* get_active: every directory directly under the worktrees directory.      *)
Children == (dirs \ DOMAIN Space) \cup nests

----------------------------------------------------------------------------
(* The primitive steps, and the sequences the services make of them.        *)

Dir(i) == [do |-> "dir", id |-> i, to |-> "none"]
Mark(i, status) == [do |-> "row", id |-> i, to |-> status]
Branch(i) == [do |-> "branch", id |-> i, to |-> "none"]
Refs == [do |-> "refs", id |-> NoId, to |-> "none"]
Check(i) == [do |-> "check", id |-> i, to |-> "none"]

Primitive == [do : {"dir", "row", "branch", "refs", "check"},
              id : Ids \cup Spaces \cup {NoId}, to : {"none", "cleaned", "merged"}]

Discard(i) == <<Dir(i), Branch(i), Refs>>
CleanupRowless(i) == <<Dir(i), Branch(i), Refs>>   \* mutant: the row is left alone
Cleanup(i) == <<Dir(i), Mark(i, "cleaned"), Branch(i), Refs>>

(* The pruner's handlers, one for each category of item.                    *)
PruneRef == <<Refs>>
PruneOrphan(c) ==
    IF c \in Ids /\ row[c] # "none" THEN <<Dir(c), Mark(c, "cleaned"), Refs>> ELSE <<Dir(c), Refs>>
PruneRow(i) == <<Mark(i, "cleaned")>>
PruneBranch(i) == <<Branch(i)>>

(* A directory goes with what is uncommitted in it, a branch with its commits. *)
Below(c) == IF c \in Spaces THEN {k \in DOMAIN Space : Space[k] = c} ELSE {c}
Lose(gone, what) == work' = [i \in Ids |-> IF i \in gone THEN work[i] \ {what} ELSE work[i]]

(* git worktree remove --force, else rmtree, which leaves git's registration;
   nothing happens when the directory is not there.                         *)
RemoveDir(c) ==
    \/ /\ c \in dirs \cap refs /\ NoFault
       /\ dirs' = dirs \ {c} /\ refs' = refs \ {c}
       /\ Lose({c}, "edits") /\ UNCHANGED nests
    \/ /\ IF c \in refs THEN Fault ELSE NoFault
       /\ c \in dirs \cup nests
       /\ dirs' = dirs \ Below(c) /\ nests' = nests \ {c}
       /\ Lose(Below(c), "edits") /\ UNCHANGED refs
    \/ /\ IF c \in dirs \cup nests THEN Fault ELSE NoFault
       /\ UNCHANGED <<dirs, nests, refs, work>>

(* git branch -D, refused while a worktree is registered on the branch.     *)
DeleteBranch(i) ==
    IF i \in branches \ refs
    THEN \/ NoFault /\ branches' = branches \ {i} /\ Lose({i}, "commits")
         \/ Fault /\ UNCHANGED <<branches, work>>
    ELSE NoFault /\ UNCHANGED <<branches, work>>

(* git worktree prune.                                                      *)
PruneRefs ==
    \/ NoFault /\ refs' = refs \cap dirs
    \/ Fault /\ UNCHANGED refs

(* update_status: the row when there is one, whatever its status is by now. *)
UpdateStatus(i, status) ==
    \/ NoFault /\ row' = IF row[i] = "none" THEN row ELSE [row EXCEPT ![i] = status]
    \/ Fault /\ UNCHANGED row

Step(p) ==
    /\ pc[p] \in {"steps", "list"} /\ todo[p] # <<>>
    /\ LET s == Head(todo[p]) IN
       /\ \/ s.do = "dir" /\ RemoveDir(s.id) /\ UNCHANGED <<branches, row>>
          \/ s.do = "row" /\ UpdateStatus(s.id, s.to) /\ UNCHANGED disk
          \/ s.do = "branch" /\ DeleteBranch(s.id) /\ UNCHANGED <<dirs, nests, refs, row>>
          \/ s.do = "refs" /\ PruneRefs /\ UNCHANGED <<dirs, nests, branches, work, row>>
          \/ s.do = "check" /\ NoFault /\ UNCHANGED <<disk, row>>
       /\ todo' = [todo EXCEPT ![p] =
              IF s.do = "check" /\ s.id \notin dirs THEN <<Mark(s.id, "cleaned")>> \o Tail(@) ELSE Tail(@)]
    /\ UNCHANGED <<applied, mainDirty, lock, pc, op, id, using, acts, paused>>

----------------------------------------------------------------------------
(* Commands: what precedes the lock, the lock, and what follows it.         *)

Command(p, command, i, label) ==
    /\ pc[p] = "idle"
    /\ Goto(p, label)
    /\ op' = [op EXCEPT ![p] = command] /\ id' = [id EXCEPT ![p] = i]
    /\ UNCHANGED <<disk, row, applied, mainDirty, lock, using, faults, paused>>

(* Engine.run with a worktree; `dovo worktree create`, apply and prune.     *)
StartRun(p, k) == Act /\ Command(p, "start", k, "wait") /\ UNCHANGED todo
CreateCommand(p, t) ==
    /\ t \notin dirs \cup refs \cup branches /\ row[t] = "none"
    /\ \A q \in Procs : id[q] # t
    /\ Act /\ Command(p, "create", t, "wait") /\ UNCHANGED todo
ApplyCommand(p, i) == Act /\ Command(p, "apply", i, "wait") /\ UNCHANGED todo
PruneCommand(p, force) ==
    Command(p, IF force THEN "force" ELSE "prune", NoId, "wait") /\ UNCHANGED <<todo, acts>>

(* `dovo worktree delete`: looked up, and confirmed, outside the lock.      *)
DeleteCommand(p, i) ==
    /\ row[i] \notin {"none", "cleaned"}
    /\ Act /\ Command(p, "delete", i, "confirm") /\ UNCHANGED todo
Confirm(p) ==
    /\ pc[p] = "confirm"
    /\ Goto(p, "wait")
    /\ UNCHANGED <<disk, row, applied, mainDirty, lock, op, id, todo, using, acts, faults, paused>>

(* `dovo worktree list`, and show and diff of one: the rows that are active
   are read, then each directory is looked at and its row marked, all without
   the lock.                                                                *)
Read(p, rows) ==
    LET order == SetToSeq({i \in rows : row[i] = "active"}) IN
    todo' = [todo EXCEPT ![p] = [n \in DOMAIN order |-> Check(order[n])]]
ListCommand(p) == Act /\ Command(p, "list", NoId, "list") /\ Read(p, Ids)
ShowCommand(p, i) == Act /\ Command(p, "show", i, "list") /\ Read(p, {i})

Take(p) ==
    /\ pc[p] = "wait" /\ lock = NoProc
    /\ lock' = p
    /\ Goto(p, CASE op[p] \in {"start", "create"} -> "add"
                 [] op[p] = "apply" -> "apply"
                 [] op[p] \in {"delete", "cleanup"} -> "steps"
                 [] op[p] \in {"prune", "force"} -> "detect")
    /\ todo' = [todo EXCEPT ![p] = IF op[p] \in {"delete", "cleanup"} THEN Cleanup(id[p]) ELSE <<>>]
    /\ UNCHANGED <<disk, row, applied, mainDirty, op, id, using, acts, faults, paused>>

Idle(p) ==
    /\ Goto(p, "idle")
    /\ op' = [op EXCEPT ![p] = "none"] /\ id' = [id EXCEPT ![p] = NoId]
    /\ todo' = [todo EXCEPT ![p] = <<>>] /\ using' = [using EXCEPT ![p] = NoId]
    /\ lock' = IF lock = p THEN NoProc ELSE lock

(* A prompt declined, or LockTimeoutError: the command ends.  A run whose
   cleanup times out leaves its worktree; one whose apply does cleans up.   *)
GiveUp(p) ==
    /\ pc[p] \in {"confirm", "wait"}
    /\ pc[p] = "wait" => lock # NoProc
    /\ IF using[p] # NoId /\ op[p] = "apply"
       THEN op' = [op EXCEPT ![p] = "cleanup"] /\ UNCHANGED <<pc, id, todo, using, lock>>
       ELSE Idle(p)
    /\ UNCHANGED <<disk, row, applied, mainDirty, paused, acts, faults>>

(* The last step is done: a run goes on, any other command ends.            *)
Done(p) ==
    /\ pc[p] \in {"steps", "list"} /\ todo[p] = <<>>
    /\ IF using[p] # NoId /\ op[p] = "apply"
       THEN Goto(p, "close") /\ lock' = NoProc /\ UNCHANGED <<op, id, todo, using>>
       ELSE Idle(p)
    /\ UNCHANGED <<disk, row, applied, mainDirty, acts, faults, paused>>

----------------------------------------------------------------------------
(* create().                                                                *)

(* git worktree add -b: refused when the directory, the branch or a
   registration is there.                                                   *)
Addable(i) == i \notin dirs \cup branches \cup refs
Parents(i) == IF i \in DOMAIN Space THEN {Space[i]} ELSE {}
Begin(p, steps) == Goto(p, "steps") /\ todo' = [todo EXCEPT ![p] = steps]

RefusedNoRoom(p) ==
    /\ pc[p] = "add" /\ Cardinality(Children) >= Capacity
    /\ Idle(p)
    /\ UNCHANGED <<disk, row, applied, mainDirty, acts, faults, paused>>

AnyRoom == TRUE                            \* mutant: no look at the capacity
Roomy == Cardinality(Children) < Capacity

Add(p) ==
    /\ pc[p] = "add" /\ Roomy
    /\ Addable(id[p])
    /\ dirs' = dirs \cup {id[p]} /\ refs' = refs \cup {id[p]} /\ branches' = branches \cup {id[p]}
    /\ nests' = nests \cup Parents(id[p])
    /\ work' = [work EXCEPT ![id[p]] = {}]
    /\ applied' = applied \ {id[p]}
    /\ Goto(p, "build")
    /\ UNCHANGED <<row, mainDirty, lock, op, id, todo, using, acts, faults, paused>>

(* Refused or failing git, or a git that is killed at its timeout when it has
   made the branch, or the registration and the directory as well.          *)
AddFails(p) ==
    /\ pc[p] = "add" /\ Roomy
    /\ \/ ~Addable(id[p]) /\ NoFault /\ UNCHANGED <<dirs, nests, refs, branches>>
       \/ /\ Addable(id[p]) /\ Fault
          /\ branches' = branches \cup {id[p]}
          /\ \/ /\ dirs' = dirs \cup {id[p]} /\ refs' = refs \cup {id[p]}
                /\ nests' = nests \cup Parents(id[p])
             \/ UNCHANGED <<dirs, nests, refs>>
    /\ Begin(p, Discard(id[p]))
    /\ UNCHANGED <<work, row, applied, mainDirty, lock, op, id, using, acts, paused>>

(* rev-parse, the overlay of uncommitted changes and the storage bridge.    *)
Build(p) ==
    /\ pc[p] = "build"
    /\ \/ /\ NoFault
          /\ \E wip \in {{}} \cup (IF mainDirty /\ op[p] = "create" THEN {{"edits"}} ELSE {}) :
                work' = [work EXCEPT ![id[p]] = wip]
          /\ Goto(p, "persist")
          /\ UNCHANGED todo
       \/ Fault /\ Begin(p, Discard(id[p])) /\ UNCHANGED work
    /\ UNCHANGED <<dirs, nests, refs, branches, row, applied, mainDirty, lock, op, id, using, acts, paused>>

(* db.create: a failing insert, also of an id that has a row, is a warning. *)
Persist(p) ==
    /\ pc[p] = "persist"
    /\ \/ NoFault /\ row' = IF row[id[p]] = "none" THEN [row EXCEPT ![id[p]] = "active"] ELSE row
       \/ Fault /\ UNCHANGED row
    /\ IF op[p] = "start"
       THEN Goto(p, "run") /\ using' = [using EXCEPT ![p] = id[p]] /\ lock' = NoProc
            /\ UNCHANGED <<op, id, todo>>
       ELSE Idle(p)
    /\ UNCHANGED <<disk, applied, mainDirty, acts, paused>>

----------------------------------------------------------------------------
(* A run in its worktree, and its end.                                      *)

(* The steps of a run, or a user, edit files and commit in a worktree.      *)
Edit(i) ==
    /\ Act /\ i \in dirs
    /\ \/ work' = [work EXCEPT ![i] = @ \cup {"edits"}]
       \/ i \in branches /\ "edits" \in work[i]
          /\ work' = [work EXCEPT ![i] = (@ \ {"edits"}) \cup {"commits"}]
    /\ work' # work
    /\ UNCHANGED <<dirs, nests, refs, branches, row, applied, mainDirty, proc, faults>>

(* Engine.resume: a paused run goes back to the worktree it kept, if that and
   its row are still there.                                                 *)
ResumeRun(p, k) ==
    /\ k \in paused \cap dirs /\ row[k] # "none"
    /\ Act /\ pc[p] = "idle" /\ Goto(p, "run")
    /\ op' = [op EXCEPT ![p] = "start"] /\ id' = [id EXCEPT ![p] = k]
    /\ using' = [using EXCEPT ![p] = k] /\ paused' = paused \ {k}
    /\ UNCHANGED <<disk, row, applied, mainDirty, lock, todo, faults>>

(* handle_auto_apply of a completed run.                                    *)
AutoApply(p) ==
    /\ pc[p] = "run"
    /\ op' = [op EXCEPT ![p] = "apply"]
    /\ Goto(p, "wait")
    /\ UNCHANGED <<disk, row, applied, mainDirty, lock, id, todo, using, acts, faults, paused>>

(* finalize_cleanup: kept (also when paused), or cleaned up.                *)
CloseRun(p) ==
    /\ pc[p] \in {"run", "close"}
    /\ \/ Idle(p) /\ (UNCHANGED paused \/ (pc[p] = "run" /\ paused' = paused \cup {id[p]}))
       \/ /\ op' = [op EXCEPT ![p] = "cleanup"] /\ Goto(p, "wait")
          /\ UNCHANGED <<lock, id, todo, using, paused>>
    /\ UNCHANGED <<disk, row, applied, mainDirty, acts, faults>>

----------------------------------------------------------------------------
(* WorktreePatch.apply().                                                   *)

(* Not applied; a run whose auto-apply is refused keeps its worktree.       *)
Refuse(p) == Idle(p) /\ UNCHANGED <<disk, applied, mainDirty, acts, paused>>

(* _validate_for_apply, _check_main_repo_clean and _collect_worktree_changes:
   --allow-dirty is an option of the command, not of a run.                 *)
RefuseApply(p) ==
    /\ pc[p] = "apply"
    /\ LET i == id[p] IN
       \/ i \notin dirs /\ NoFault
          /\ row' = IF row[i] = "active" THEN [row EXCEPT ![i] = "cleaned"] ELSE row
       \/ /\ i \in dirs /\ UNCHANGED row
          /\ \/ NoFault /\ (row[i] \in {"none", "merged"} \/ mainDirty \/ work[i] = {})
             \/ Fault
    /\ Refuse(p)

AcceptApply(p) ==
    /\ pc[p] = "apply"
    /\ id[p] \in dirs /\ row[id[p]] \notin {"none", "merged"}
    /\ mainDirty => using[p] = NoId
    /\ work[id[p]] # {}
    /\ Goto(p, "verify")
    /\ UNCHANGED <<disk, row, applied, mainDirty, lock, op, id, todo, using, acts, faults, paused>>

(* git apply --check: what is in the main workspace already conflicts.      *)
Conflict(p) ==
    /\ pc[p] = "verify"
    /\ \/ NoFault /\ row' = IF row[id[p]] = "none" THEN row ELSE [row EXCEPT ![id[p]] = "conflict"]
       \/ Fault /\ UNCHANGED row
    /\ Refuse(p)

Verified(p) ==
    /\ pc[p] = "verify" /\ id[p] \notin applied
    /\ Goto(p, "patch")
    /\ UNCHANGED <<disk, row, applied, mainDirty, lock, op, id, todo, using, acts, faults, paused>>

(* _apply_patch_strategy: patch, or squash (add -A and a commit that may fail
   when the files are changed); a dry run or a failing git changes nothing. *)
DryRunMarks(p) ==                           \* mutant: a dry run marks the row merged
    /\ pc[p] = "patch" /\ Begin(p, <<Mark(id[p], "merged")>>)
    /\ UNCHANGED <<disk, row, applied, mainDirty, lock, op, id, using, acts, faults, paused>>
NotPatched(p) ==
    /\ pc[p] = "patch"
    /\ Refuse(p) /\ UNCHANGED <<row, faults, paused>>

AfterApply(i, delete) == (IF delete THEN Cleanup(i) ELSE <<>>) \o <<Mark(i, "merged")>>
Patch(p) ==
    /\ pc[p] = "patch"
    /\ mainDirty' = TRUE
    /\ applied' = applied \cup {id[p]}
    /\ \/ using[p] = NoId /\ Goto(p, "squash") /\ UNCHANGED todo
       \/ \E delete \in {FALSE} \cup {using[p] = NoId} : Begin(p, AfterApply(id[p], delete))
    /\ UNCHANGED <<disk, row, lock, op, id, using, acts, faults, paused>>

Squash(p) ==
    /\ pc[p] = "squash"
    /\ mainDirty' = FALSE
    /\ \E delete \in BOOLEAN : Begin(p, AfterApply(id[p], delete))
    /\ UNCHANGED <<disk, row, applied, lock, op, id, using, acts, faults, paused>>

SquashFails(p) ==
    /\ pc[p] = "squash" /\ Fault
    /\ Idle(p)
    /\ UNCHANGED <<disk, row, applied, mainDirty, acts, paused>>

----------------------------------------------------------------------------
(* WorktreeDetector.detect() and what WorktreePruner does with its items.   *)

Active(i) == row[i] = "active"

(* git status of a child; a namespace directory has that of the main
   workspace around it.  A status that fails counts as clean.               *)
Dirty(c) == IF c \in Spaces THEN mainDirty ELSE "edits" \in work[c]

StaleRefs == refs \ dirs
AnyChild == Children                       \* mutant: whatever the row says
Orphans == {c \in Children : c \in Ids => ~Active(c)}
StaleRows == {i \in Ids : Active(i) /\ i \notin dirs}
RowlessKept ==                             \* mutant: only branches that have a row
    {t \in Temps \cap branches : t \notin dirs /\ row[t] # "none"}
StaleBranches == {t \in Temps \cap branches : t \notin dirs \/ (t \notin refs /\ ~Active(t))}

Each(items, Handler(_)) ==
    LET order == SetToSeq(items) IN FlattenSeq([n \in DOMAIN order |-> Handler(order[n])])
Items(orphans) ==
    (IF StaleRefs # {} THEN PruneRef ELSE <<>>)
    \o Each(orphans, PruneOrphan) \o Each(StaleRows, PruneRow) \o Each(StaleBranches, PruneBranch)

Detect(p) ==
    /\ pc[p] = "detect"
    /\ \/ NoFault /\ Begin(p, Items({c \in Orphans : op[p] = "force" \/ ~Dirty(c)}))
       \/ Fault /\ Begin(p, Items(Orphans))
       \/ Fault /\ Begin(p, <<>>)
    /\ UNCHANGED <<disk, row, applied, mainDirty, lock, op, id, using, acts, paused>>

----------------------------------------------------------------------------
(* The surroundings.                                                        *)

(* The user commits or changes something in the main workspace.             *)
MainChanges ==
    /\ Act /\ mainDirty' = ~mainDirty
    /\ UNCHANGED <<disk, row, applied, proc, faults>>

RemovedOutside(i) ==
    /\ Fault /\ i \in dirs
    /\ dirs' = dirs \ {i} /\ Lose({i}, "edits")
    /\ UNCHANGED <<nests, refs, branches, row, applied, mainDirty, proc, acts>>

Crash(p) ==
    /\ pc[p] # "idle" /\ Fault
    /\ Idle(p)
    /\ UNCHANGED <<disk, row, applied, mainDirty, acts, paused>>

Init ==
    /\ dirs = {} /\ nests = {} /\ refs = {} /\ branches = {}
    /\ work = [i \in Ids |-> {}] /\ row = [i \in Ids |-> "none"]
    /\ applied = {} /\ mainDirty = FALSE
    /\ lock = NoProc
    /\ pc = [p \in Procs |-> "idle"] /\ op = [p \in Procs |-> "none"]
    /\ id = [p \in Procs |-> NoId] /\ todo = [p \in Procs |-> <<>>]
    /\ using = [p \in Procs |-> NoId] /\ paused = {}
    /\ acts = 0 /\ faults = 0

InLock(p) ==
    \/ RefusedNoRoom(p) \/ Add(p) \/ AddFails(p) \/ Build(p) \/ Persist(p)
    \/ RefuseApply(p) \/ AcceptApply(p) \/ Conflict(p) \/ Verified(p)
    \/ NotPatched(p) \/ Patch(p) \/ Squash(p) \/ SquashFails(p)
    \/ Detect(p)
Progress(p) == InLock(p) \/ Step(p) \/ Done(p)

Start(p) ==
    \/ \E k \in Keys : StartRun(p, k) \/ ResumeRun(p, k)
    \/ \E t \in Temps : CreateCommand(p, t)
    \/ \E i \in Ids : ApplyCommand(p, i) \/ DeleteCommand(p, i) \/ ShowCommand(p, i)
    \/ \E force \in BOOLEAN : PruneCommand(p, force)
    \/ ListCommand(p)

Next ==
    \/ \E p \in Procs :
          Start(p) \/ Confirm(p) \/ GiveUp(p) \/ Take(p) \/ Progress(p)
          \/ AutoApply(p) \/ CloseRun(p) \/ Crash(p)
    \/ \E i \in Ids : Edit(i) \/ RemovedOutside(i)
    \/ MainChanges

Spec == Init /\ [][Next]_vars

(* A process that runs goes on, users answer prompts, a lock that is free
   again and again is got some time, and somebody prunes now and then.      *)
FairSpec ==
    /\ Spec
    /\ \A p \in Procs :
        /\ WF_vars(Progress(p)) /\ WF_vars(Confirm(p)) /\ WF_vars(CloseRun(p))
        /\ SF_vars(Take(p))
        /\ WF_vars(PruneCommand(p, FALSE))

----------------------------------------------------------------------------
(* Properties.                                                              *)

(* The values of the variables.                                             *)
TypeOK ==
    /\ dirs \subseteq Ids /\ nests \subseteq Spaces /\ refs \subseteq Ids /\ branches \subseteq Ids
    /\ work \in [Ids -> SUBSET {"edits", "commits"}]
    /\ row \in [Ids -> Status]
    /\ applied \subseteq Ids /\ mainDirty \in BOOLEAN /\ paused \subseteq Keys
    /\ lock \in Procs \cup {NoProc}
    /\ pc \in [Procs -> PCs] /\ id \in [Procs -> Ids \cup {NoId}]
    /\ op \in [Procs -> Ops]
    /\ todo \in [Procs -> Seq(Primitive)] /\ using \in [Procs -> Ids \cup {NoId}]
    /\ acts \in 0 .. MaxActs /\ faults \in 0 .. MaxFaults

(* create() counts the directories and adds one in the same locked section,
   so there are never more than worktree.max_active_worktrees.              *)
WithinCapacity == Cardinality(Children) <= Capacity

(* As long as nothing fails, what the locked sections leave agrees for a
   worktree of `dovo worktree create`: a directory is registered, has its
   branch and a row that is not CLEANED; an ACTIVE or CONFLICT row has its
   directory; a registration has one too - whatever list and delete did
   outside the lock meanwhile.                                              *)
SectionsAgree ==
    faults = 0 /\ lock = NoProc =>
        \A t \in Temps :
            /\ t \in dirs => t \in refs \cap branches /\ row[t] \in {"active", "merged", "conflict"}
            /\ t \notin dirs => t \notin refs /\ row[t] \notin {"active", "conflict"}

(* A row of `dovo worktree create` says MERGED only if the changes are in the
   main workspace, whatever fails between git apply, the squash commit, the
   cleanup and the update of the row.                                       *)
MergedIsApplied == \A t \in Temps : row[t] = "merged" => t \in applied

(* Rows, directories, registrations and branches agree whenever the lock is
   free and nothing has failed; MERGED is said only of what was applied.    *)
RecordsAgree == TypeOK /\ SectionsAgree /\ MergedIsApplied

(* What these rest on.  A section has the lock, and its operation fits it.  *)
InSection == {"add", "build", "persist", "apply", "verify", "patch", "squash", "detect", "steps"}

SectionFits(p) ==
    /\ pc[p] \in InSection => lock = p
    /\ pc[p] = "wait" => op[p] \in {"start", "create", "apply", "delete", "cleanup", "prune", "force"}
    /\ pc[p] \in {"add", "build", "persist"} => op[p] \in {"start", "create"}
    /\ pc[p] = "confirm" => op[p] = "delete"
    /\ pc[p] \in {"apply", "verify", "patch", "squash"} => op[p] = "apply"
    /\ pc[p] = "detect" => op[p] \in {"prune", "force"}
    /\ pc[p] = "list" => op[p] \in {"list", "show"}
    /\ op[p] \in {"apply", "delete", "cleanup"} => id[p] \in Ids
    /\ op[p] = "start" => id[p] \in Keys
    /\ pc[p] \in {"run", "close"} => id[p] \in Keys
    /\ using[p] # NoId => pc[p] # "idle" /\ using[p] = id[p] /\ id[p] \in Keys

(* An id of `dovo worktree create` has no row before its worktree is built,
   and none of the rest before it is added.                                 *)
CreationIsNew(p) ==
    op[p] = "create" =>
        /\ id[p] \in Temps /\ row[id[p]] = "none"
        /\ pc[p] \in {"wait", "add"} => id[p] \notin dirs \cup refs \cup branches
        /\ \A q \in Procs \ {p} : op[q] = "create" => id[q] # id[p]

(* What is applied has a row; what a sequence of steps marks MERGED was
   applied, what a prune removes is not ACTIVE, and what a list looks at has
   a row.                                                                   *)
KnownStep(p, s) ==
    /\ s.do # "check" /\ (s.do = "row" => s.id \in Ids /\ s.to # "none")
    /\ s.do = "row" /\ s.to = "merged" => s.id \in applied /\ row[s.id] # "none"
    /\ s.do = "dir" => s = Dir(s.id) /\ (s.id \in Ids /\ op[p] \in {"prune", "force"} => ~Active(s.id))

KnownLook(s) ==
    /\ s.id \in Ids /\ row[s.id] # "none"
    /\ s = Check(s.id) \/ s = Mark(s.id, "cleaned")

StepsAreKnown(p) ==
    /\ pc[p] \in {"verify", "patch", "squash"} => row[id[p]] # "none"
    /\ pc[p] = "squash" => id[p] \in applied
    /\ pc[p] = "steps" => \A s \in ToSet(todo[p]) : KnownStep(p, s)
    /\ pc[p] = "list" => \A s \in ToSet(todo[p]) : KnownLook(s)

(* Inside a section that no failure has struck: a directory is removed
   together with its registration and just before its row is marked, and
   a row that is still ACTIVE or CONFLICT without a directory will be.      *)
Builds(p, t) == pc[p] \in {"build", "persist"} /\ op[p] = "create" /\ id[p] = t
Marks(p, t) == pc[p] = "steps" /\ \E s \in ToSet(todo[p]) : s.do = "row" /\ s.id = t

Agrees(t) ==
    /\ t \in dirs => t \in refs \cap branches
    /\ t \in dirs => row[t] \in {"active", "merged", "conflict"} \/ \E p \in Procs : Builds(p, t)
    /\ t \notin dirs => t \notin refs
    /\ t \notin dirs /\ row[t] \in {"active", "conflict"} => \E p \in Procs : Marks(p, t)

DirThenMark(steps) ==
    \A n \in DOMAIN steps :
        LET i == steps[n].id IN
        i \in Temps \cap dirs =>
            /\ steps[n] = Mark(i, "cleaned") => n > 1 /\ steps[n - 1] = Dir(i)
            /\ steps[n] = Dir(i) => n < Len(steps) /\ steps[n + 1] = Mark(i, "cleaned")

InOrder(p) ==
    /\ pc[p] \in {"build", "persist"} /\ op[p] = "create" => id[p] \in dirs
    /\ pc[p] \in {"verify", "patch", "squash"} /\ id[p] \in Temps => id[p] \in dirs
    /\ pc[p] = "steps" => DirThenMark(todo[p])
    /\ pc[p] = "list" => \A s \in ToSet(todo[p]) :
          s.do = "row" /\ s.id \in Temps => s.id \notin dirs

(* The inductive invariant of the worktrees.                                *)
IInv ==
    /\ TypeOK /\ MergedIsApplied
    /\ \A p \in Procs : SectionFits(p) /\ CreationIsNew(p) /\ StepsAreKnown(p)
    /\ faults = 0 => (\A t \in Temps : Agrees(t)) /\ \A p \in Procs : InOrder(p)

(* Pruning never removes a worktree whose row is ACTIVE: the detector reads
   the rows in the section that removes.  (Not so below a namespace, where
   the detector does not look.)                                             *)
Pruning(p) == op[p] \in {"prune", "force"} /\ todo'[p] # todo[p]
ActiveIsSpared ==
    [][\A i \in Ids \ DOMAIN Space :
          Active(i) /\ i \in dirs \ dirs' => ~\E p \in Procs : Pruning(p)]_vars

(* Whatever failed, and wherever a process died: pruning without --force in
   the end leaves of a worktree of `dovo worktree create` either all of it or
   nothing, unless it holds uncommitted changes.                            *)
Whole(t) == t \in dirs /\ (Active(t) \/ Dirty(t))
Gone(t) == t \notin dirs \cup refs \cup branches /\ ~Active(t)
LeftoversGo == <>[](\A t \in Temps : Whole(t) \/ Gone(t))

(* docs/agents/architecture.md: a run has an isolated worktree.  It would stay
   while the run works in it, unless somebody asks for its deletion.        *)
LiveWorktreeSpared ==
    [][\A p \in Procs :
          using[p] \in dirs \ dirs' =>
              \E q \in Procs : todo'[q] # todo[q] /\ (q = p \/ op[q] \in {"delete", "apply"})]_vars
=============================================================================
