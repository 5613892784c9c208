---------------------------- MODULE RunProjection ----------------------------
(***************************************************************************)
(* engine/state_store.py: the state of a run is in its row; run.json is the   *)
(* row's projection, written after each commit and again by a load that finds *)
(* it different.  Whoever commits holds the workspace lock, and must: the     *)
(* compare-and-swap of the revision is a SELECT and an UPDATE by primary key, *)
(* with no transaction around the two.  RunCoordinator.load holds no lock.    *)
(* All writers of run.json share the name run.json.tmp.                       *)
(***************************************************************************)
EXTENDS Naturals

CONSTANTS
    Drivers,        \* processes; one that is idle does not exist
    MaxRevision,    \* bound: commits
    MaxFaults       \* bound: crashes and failing writes

VARIABLES
    row,            \* the run's row: [rev, doc, status, pid]
    session,        \* its directory: ["json" | "tmp" -> content]
    holder,         \* who holds the workspace lock
    driver,         \* [process -> its program counter and what it has read]
    alone,          \* [process -> nobody moved since its load began]
    faults

pvars == <<row, session, holder, driver, alone, faults>>

Nobody == "nobody"
ASSUME ProjectionAssumption ==
    /\ Drivers # {} /\ Nobody \notin Drivers
    /\ MaxRevision \in Nat /\ MaxFaults \in Nat

Doc(p, rev) == [by |-> p, rev |-> rev]
First == CHOOSE p \in Drivers : TRUE
FirstRow == [rev |-> 0, doc |-> Doc(First, 0), status |-> "running", pid |-> First]

(* build_run_json_payload: the tree and the lifecycle, not the owner's pid. *)
Projection(r) == [rev |-> r.rev, doc |-> r.doc, status |-> r.status]
Whole(r) == [kind |-> "whole", shows |-> Projection(r)]
Missing == [Whole(FirstRow) EXCEPT !.kind = "none"]
Partial == [Whole(FirstRow) EXCEPT !.kind = "partial"]

Gone == [pc |-> "idle", goal |-> "none", mem |-> Doc(First, 0), row |-> FirstRow, sets |-> "running",
         fd |-> "none", saved |-> FALSE, load |-> "none"]

At(p, pc) == driver[p].pc = pc
Go(p, new) == driver' = [driver EXCEPT ![p] = [x \in DOMAIN @ |-> IF x \in DOMAIN new THEN new[x] ELSE @[x]]]
Overtaking(p) == alone' = [q \in Drivers |-> alone[q] /\ q = p]
NobodyAlone == alone' = [q \in Drivers |-> FALSE]
Free(p) == holder = Nobody

(* Engine._start_run has inserted the row; its projection may have failed.  *)
RowInit ==
    /\ row = FirstRow
    /\ session \in [json : {Missing, Whole(FirstRow)}, tmp : {Missing}]
    /\ holder = Nobody
    /\ driver = [p \in Drivers |-> IF p = First THEN [Gone EXCEPT !.pc = "get", !.goal = "start"] ELSE Gone]
    /\ alone = [p \in Drivers |-> FALSE]
    /\ faults = 0

----------------------------------------------------------------------------
(* What takes the lock: Engine.resume, RunCoordinator._commit, _finish_run
   and the reconciliation of stale runs, which writes no projection.        *)

WithoutLock(p) == TRUE          \* mutant: nobody waits
Lock(p) == Free(p)
Resume(p) ==
    /\ At(p, "idle") /\ Lock(p) /\ row.status = "paused"
    /\ holder' = p /\ Go(p, [Gone EXCEPT !.pc = "get", !.goal = "resume"])
    /\ UNCHANGED <<row, session, alone, faults>>

Commit(p) ==
    /\ At(p, "work") /\ Lock(p) /\ row.rev < MaxRevision
    /\ holder' = p
    /\ \E s \in {row.status, "paused", "running"} : Go(p, [pc |-> "select", goal |-> "commit", sets |-> s])
    /\ UNCHANGED <<row, session, alone, faults>>

FinishRun(p) ==
    /\ driver[p].pc \in {"work", "end"} /\ Lock(p) /\ row.rev < MaxRevision
    /\ holder' = p
    /\ \E s \in IF At(p, "end") THEN {"failed"} ELSE {"failed", "paused"} :
         Go(p, [pc |-> "get", goal |-> "finish", sets |-> s])
    /\ UNCHANGED <<row, session, alone, faults>>

Reconcile(p) ==
    /\ At(p, "idle") /\ Lock(p) /\ row.status = "running" /\ At(row.pid, "idle")
    /\ row' = [row EXCEPT !.status = "failed"] /\ NobodyAlone
    /\ UNCHANGED <<session, holder, driver, faults>>

Release == holder' = Nobody

----------------------------------------------------------------------------
(* RunStateStore.load.                                                      *)

Get(p) ==
    /\ At(p, "get")
    /\ Go(p, [pc |-> "read", row |-> row, saved |-> FALSE, load |-> "none"])
    /\ alone' = [alone EXCEPT ![p] = TRUE]
    /\ UNCHANGED <<row, session, holder, faults>>

Loaded(p) ==
    Go(p, [pc |-> CASE driver[p].goal = "start" -> "work" [] driver[p].goal = "resume" -> "mark" [] OTHER -> "select",
           mem |-> driver[p].row.doc, load |-> "ok", fd |-> "none"])

(* A refused load ends a resume, fails a start, and has the finish write the
   status only.                                                             *)
Refused(p) ==
    CASE driver[p].goal = "start" -> Go(p, [pc |-> "end", load |-> "refused"]) /\ UNCHANGED holder
      [] driver[p].goal = "resume" -> Go(p, [pc |-> "idle", load |-> "refused"]) /\ Release
      [] OTHER -> Go(p, [pc |-> "mark", load |-> "refused"]) /\ UNCHANGED holder

StaleByRevision(p) ==           \* mutant: a change of the status alone is not seen
    session.json.kind # "whole" \/ session.json.shows.rev # driver[p].row.rev
Stale(p) == session.json # Whole(driver[p].row)
Read(p) ==
    /\ At(p, "read")
    /\ UNCHANGED <<row, session, alone, faults>>
    /\ IF session.json.kind = "whole" /\ session.json.shows.rev > driver[p].row.rev THEN Refused(p)
       ELSE UNCHANGED holder /\ IF Stale(p) THEN Go(p, [pc |-> "open"]) ELSE Loaded(p)

----------------------------------------------------------------------------
(* RunStateStore.save and RunsRepository.                                   *)

Mark(p) ==
    /\ At(p, "mark")
    /\ IF driver[p].goal = "resume"
       THEN row' = [row EXCEPT !.status = "running", !.pid = p] /\ Go(p, [pc |-> "get", goal |-> "start"])
       ELSE row' = [row EXCEPT !.status = driver[p].sets] /\ Go(p, Gone)
    /\ Release /\ NobodyAlone
    /\ UNCHANGED <<session, faults>>

Select(p) ==
    /\ At(p, "select")
    /\ UNCHANGED <<row, session, alone, faults>>
    /\ IF row.rev = driver[p].mem.rev THEN Go(p, [pc |-> "update"]) /\ UNCHANGED holder
       ELSE Release /\ Go(p, IF driver[p].goal = "commit" THEN [pc |-> "end"] ELSE Gone)

NextRevision(p) == driver[p].mem.rev + 1
Update(p) ==
    /\ At(p, "update")
    /\ row' = [row EXCEPT !.rev = NextRevision(p), !.doc = Doc(p, NextRevision(p)), !.status = driver[p].sets]
    /\ Go(p, [pc |-> "open", row |-> row', mem |-> row'.doc, saved |-> TRUE])
    /\ NobodyAlone
    /\ UNCHANGED <<session, holder, faults>>

----------------------------------------------------------------------------
(* _sync_projection: atomic_write_text, an OSError is a warning.            *)

Synced(p) ==
    IF ~driver[p].saved THEN Loaded(p) /\ UNCHANGED holder
    ELSE Release /\ Go(p, IF driver[p].goal = "commit" THEN [pc |-> "work", fd |-> "none"] ELSE Gone)

Open(p) ==
    /\ At(p, "open")
    /\ session' = [session EXCEPT !.tmp = Partial]
    /\ Go(p, [pc |-> "fill", fd |-> "tmp"]) /\ Overtaking(p)
    /\ UNCHANGED <<row, holder, faults>>

(* Two may write to one file: what the longer text leaves is no JSON.       *)
Fill(p) ==
    /\ At(p, "fill")
    /\ LET to == driver[p].fd IN
         IF to = "none" THEN UNCHANGED <<session, alone>>
         ELSE /\ \E content \in {Whole(driver[p].row)} \cup {c \in {Partial} : session[to].kind = "whole"} :
                   session' = [session EXCEPT ![to] = content]
              /\ Overtaking(p)
    /\ Go(p, [pc |-> "replace", fd |-> "none"])
    /\ UNCHANGED <<row, holder, faults>>

(* The name is gone when another writer has renamed it.                     *)
Moved(fd) == IF fd = "tmp" THEN "json" ELSE "none"
Replace(p) ==
    /\ At(p, "replace") /\ session.tmp.kind # "none"
    /\ session' = [json |-> session.tmp, tmp |-> Missing]
    /\ LET after == [driver EXCEPT ![p].pc = "synced"] IN
         driver' = [q \in Drivers |-> [after[q] EXCEPT !.fd = Moved(@)]]
    /\ Overtaking(p)
    /\ UNCHANGED <<row, holder, faults>>

NameIsGone(p) ==
    /\ At(p, "replace") /\ session.tmp.kind = "none"
    /\ Go(p, [pc |-> "unlink"])
    /\ UNCHANGED <<row, session, holder, alone, faults>>

WriteFails(p) ==
    /\ driver[p].pc \in {"open", "fill", "replace"} /\ faults < MaxFaults
    /\ faults' = faults + 1
    /\ Go(p, [pc |-> "unlink", fd |-> "none"]) /\ NobodyAlone
    /\ UNCHANGED <<row, session, holder>>

(* Whoever wrote it: run.json.tmp is removed.                               *)
Unlink(p) ==
    /\ At(p, "unlink")
    /\ session' = [session EXCEPT !.tmp = Missing]
    /\ LET after == [driver EXCEPT ![p].pc = "synced"] IN
         driver' = [q \in Drivers |-> [after[q] EXCEPT !.fd = IF @ = "tmp" THEN "none" ELSE @]]
    /\ Overtaking(p)
    /\ UNCHANGED <<row, holder, faults>>

Sync(p) == At(p, "synced") /\ Synced(p) /\ UNCHANGED <<row, session, alone, faults>>

Dies(p) ==
    /\ ~At(p, "idle") /\ faults < MaxFaults
    /\ faults' = faults + 1
    /\ holder' = IF holder = p THEN Nobody ELSE holder
    /\ Go(p, Gone)
    /\ UNCHANGED <<row, session, alone>>

Step(p) ==
    \/ Resume(p) \/ Commit(p) \/ FinishRun(p) \/ Reconcile(p) \/ Get(p) \/ Read(p) \/ Mark(p) \/ Select(p) \/ Update(p)
    \/ Open(p) \/ Fill(p) \/ Replace(p) \/ NameIsGone(p) \/ WriteFails(p) \/ Unlink(p) \/ Sync(p) \/ Dies(p)

RowNext == \E p \in Drivers : Step(p)
RowSpec == RowInit /\ [][RowNext]_pvars

----------------------------------------------------------------------------
(* Properties.                                                              *)

(* The values of the variables.                                             *)
Revisions == 0..MaxRevision
Docs == [by : Drivers, rev : Revisions]
Statuses == {"running", "paused", "failed"}
Rows == [rev : Revisions, doc : Docs, status : Statuses, pid : Drivers]
Contents == [kind : {"none", "partial", "whole"},
             shows : [rev : Revisions, doc : Docs, status : Statuses]]
SavePCs == {"idle", "get", "read", "open", "fill", "replace", "unlink", "synced", "work", "end",
        "mark", "select", "update"}
Locals == [pc : SavePCs, goal : {"none", "start", "resume", "commit", "finish"}, mem : Docs, row : Rows,
           sets : Statuses, fd : {"none", "tmp", "json"}, saved : BOOLEAN,
           load : {"none", "ok", "refused"}]
RowTypeOK ==
    /\ row \in Rows /\ session \in [{"json", "tmp"} -> Contents]
    /\ holder \in Drivers \cup {Nobody} /\ driver \in [Drivers -> Locals]
    /\ alone \in [Drivers -> BOOLEAN] /\ faults \in 0..MaxFaults

(* Every commit goes on from the document it replaces: none is lost, although
   the test of the revision and the write are two statements.               *)
CommitsFollow ==
    [][row'.rev # row.rev =>
         row'.rev = row.rev + 1 /\ \E p \in Drivers : At(p, "update") /\ driver[p].mem = row.doc]_pvars

(* run.json never shows what the row has not had: it is not ahead of it, and at
   the same revision it shows the same document.  So whatever crash comes in
   between, a load that nobody overtakes is not refused, and leaves the
   projection of the row (failure-handling-and-resume.md:106).              *)
ProjectionFollowsRow ==
    /\ \A name \in {"json", "tmp"} :
         LET content == session[name] IN
           content.kind = "whole" =>
             content.shows.rev <= row.rev /\ (content.shows.rev = row.rev => content.shows.doc = row.doc)
    /\ \A p \in Drivers :
         alone[p] => driver[p].load # "refused" /\ (driver[p].load = "ok" => session.json = Whole(row))

(* What it rests on.  Whatever a process or a file holds of the row, the row
   has had.                                                                 *)
Had(r) == r.doc.rev = r.rev /\ r.rev <= row.rev /\ (r.rev = row.rev => r.doc = row.doc)
HistoryKept ==
    /\ Had(row) /\ Had(FirstRow)
    /\ \A p \in Drivers : Had(driver[p].row) /\ Had([rev |-> driver[p].mem.rev, doc |-> driver[p].mem])
    /\ \A name \in {"json", "tmp"} : session[name].kind = "whole" => Had(session[name].shows)

(* From the SELECT to the end of the save a process has the lock, and so the
   revision it compared is still the row's when it writes.                  *)
Saving(p) == driver[p].goal \in {"commit", "finish"}
Syncing == {"open", "fill", "replace", "unlink", "synced"}
SavesUnderLock(p) ==
    /\ driver[p].goal # "start" /\ driver[p].pc \notin {"idle", "work", "end"} => holder = p
    /\ driver[p].pc \in {"select", "update"} => Saving(p)
    /\ driver[p].pc = "mark" => driver[p].goal \in {"resume", "finish"}
    /\ driver[p].pc \in {"get", "read"} => driver[p].goal # "commit"
    /\ driver[p].pc = "read" => ~driver[p].saved
    /\ driver[p].pc \in Syncing => (driver[p].saved => Saving(p)) /\ (driver[p].goal = "commit" => driver[p].saved)
    /\ driver[p].goal = "none" => driver[p].pc = "idle"
    /\ driver[p].pc = "update" => driver[p].mem.rev = row.rev
    /\ /\ driver[p].pc \in {"get", "read", "select", "update"} \/ (driver[p].pc \in Syncing /\ ~driver[p].saved)
       /\ Saving(p)
       => row.rev < MaxRevision

(* A load nobody overtakes works on the row as it is, and writes it.        *)
AloneWrites(p) ==
    alone[p] =>
        /\ ~driver[p].saved
        /\ driver[p].load # "refused" /\ (driver[p].load = "ok" => session["json"] = Whole(row))
        /\ driver[p].pc \in {"read", "open", "fill", "replace", "synced"} => driver[p].row = row
        /\ driver[p].pc = "fill" => driver[p].fd = "tmp" /\ session["tmp"].kind = "partial"
        /\ driver[p].pc = "replace" => session["tmp"] = Whole(row)
        /\ driver[p].pc # "unlink"
        /\ driver[p].pc = "synced" => session["json"] = Whole(row)

(* The inductive invariant of the row and its projection.                   *)
RowIInv == RowTypeOK /\ HistoryKept /\ \A p \in Drivers : SavesUnderLock(p) /\ AloneWrites(p)

(* What the lock a load does not take would give: no load is refused.       *)
LoadIsNotRefused == \A p \in Drivers : driver[p].load # "refused"
=============================================================================
