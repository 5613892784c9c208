------------------------------ MODULE Artifacts ------------------------------
(***************************************************************************)
(* core/artifacts: one artifact of a session, its bundle on disk and its row  *)
(* in the database.  A step of the run publishes it, again in every iteration *)
(* of a loop; `dovo artifacts prune` deletes it once it has expired, and      *)
(* `dovo artifacts download` reads it.  Prune holds the workspace lock, the   *)
(* other two hold none, and nothing binds the bundle to the row.              *)
(***************************************************************************)
EXTENDS Naturals

CONSTANTS
    MaxVersions,    \* bound: publications
    MaxDays,        \* bound: days
    MaxMishaps      \* bound: deaths, failing file operations, corrupted files

ASSUME ArtifactAssumption == MaxVersions \in Nat /\ MaxDays \in Nat /\ MaxMishaps \in Nat

VARIABLES
    bundle,         \* the directory: [there, gen, expires, has]
    record,         \* the row: [gen, expires], gen 0 without one
    today,
    pub, prune, down,   \* publisher, pruner and reader, each with its pc
    published,      \* versions so far
    blurred,        \* publisher and pruner met, or one of them broke off
    mishaps

avars == <<bundle, record, today, pub, prune, down, published, blurred, mishaps>>

(* A file holds the version that wrote it, 0 when it is not there; expires is
   a day, 0 for never.                                                      *)
Corrupt == MaxVersions + 1
Files == {"f", "g"}
Entries == Files \cup {"manifest"}
NoRecord == [gen |-> 0, expires |-> 0]
NoBundle == [there |-> FALSE, gen |-> 0, expires |-> 0, has |-> [e \in Entries |-> 0]]
Bundle(b) == [there |-> TRUE, gen |-> b.gen, expires |-> b.expires, has |-> [e \in Entries |-> b.gen]]

Idle == [pc |-> "idle", gen |-> 0, expires |-> 0, opened |-> 0, alone |-> TRUE]
Unread == [pc |-> "idle", gen |-> 0, todo |-> Files, got |-> [f \in Files |-> 0], overtaken |-> FALSE]

ArtifactInit ==
    /\ bundle = NoBundle /\ record = NoRecord /\ today = 1
    /\ pub = Idle /\ prune = Idle /\ down = Unread
    /\ published = 0 /\ blurred = FALSE /\ mishaps = 0

----------------------------------------------------------------------------
(* publish_artifact.                                                        *)

(* _resolve_expires_at.                                                     *)
ExpiresAt(retention) == IF retention = 0 THEN 0 ELSE today + retention

Publish ==
    /\ pub.pc = "idle" /\ published < MaxVersions
    /\ published' = published + 1
    /\ \E retention \in {0, 1} :
         pub' = [pc |-> "copy", gen |-> published', expires |-> ExpiresAt(retention), opened |-> 0,
                 alone |-> prune.pc = "idle"]
    /\ prune' = [prune EXCEPT !.alone = FALSE]
    /\ UNCHANGED <<bundle, record, today, down, blurred, mishaps>>

(* The files of the worktree, or none, into a directory of its own; then the
   bundle that is there is removed.                                         *)
CopyFiles ==
    /\ pub.pc = "copy"
    /\ \/ pub' = Idle
       \/ pub' = [pub EXCEPT !.pc = IF bundle.there THEN "removing" ELSE "place", !.opened = bundle.gen]
    /\ UNCHANGED <<bundle, record, today, prune, down, published, blurred, mishaps>>

Place ==
    /\ pub.pc = "place"
    /\ IF bundle.there /\ \E e \in Entries : bundle.has[e] # 0
       THEN pub' = Idle /\ blurred' = TRUE /\ UNCHANGED <<bundle, down>>
       ELSE /\ bundle' = Bundle(pub)
            /\ pub' = [pub EXCEPT !.pc = "create"]
            /\ down' = [down EXCEPT !.overtaken = TRUE]
            /\ UNCHANGED blurred
    /\ UNCHANGED <<record, today, prune, published, mishaps>>

CreateRecord ==
    /\ pub.pc = "create"
    /\ record' = [gen |-> pub.gen, expires |-> pub.expires]
    /\ pub' = Idle /\ blurred' = ~pub.alone
    /\ UNCHANGED <<bundle, today, prune, down, published, mishaps>>

----------------------------------------------------------------------------
(* prune_artifacts; without the setting or --force, or as a dry run, it
   changes nothing.                                                         *)

(* list_expired.                                                            *)
ExpiredOrEternal(r) == r.gen # 0 /\ r.expires <= today      \* mutant: 0 is a day of the past
Expired(r) == r.gen # 0 /\ r.expires # 0 /\ r.expires <= today

Prune ==
    /\ prune.pc = "idle" /\ Expired(record)
    /\ prune' = [Idle EXCEPT !.pc = "look", !.gen = record.gen, !.alone = pub.pc = "idle"]
    /\ pub' = [pub EXCEPT !.alone = FALSE]
    /\ UNCHANGED <<bundle, record, today, down, published, blurred, mishaps>>

Look ==
    /\ prune.pc = "look"
    /\ prune' = [prune EXCEPT !.pc = IF bundle.there THEN "removing" ELSE "delete", !.opened = bundle.gen]
    /\ UNCHANGED <<bundle, record, today, pub, down, published, blurred, mishaps>>

DeleteRecord ==
    /\ prune.pc = "delete"
    /\ record' = NoRecord
    /\ prune' = Idle /\ blurred' = ~prune.alone
    /\ UNCHANGED <<bundle, today, pub, down, published, mishaps>>

----------------------------------------------------------------------------
(* shutil.rmtree: the entries of the directory it has opened, in any order,
   then the name, which may belong to another directory by now.             *)

RemoveEntry(who) ==
    /\ who.pc = "removing"
    /\ bundle.there /\ bundle.gen = who.opened
    /\ \E e \in Entries : bundle.has[e] # 0 /\ bundle' = [bundle EXCEPT !.has[e] = 0]
    /\ UNCHANGED <<record, today, pub, prune, down, published, blurred, mishaps>>

Emptied(who) == who.pc = "removing" /\ (bundle.gen = who.opened => \A e \in Entries : bundle.has[e] = 0)
Removable(who) == bundle.there /\ bundle.gen = who.opened

PubRemoved ==
    /\ Emptied(pub)
    /\ IF Removable(pub)
       THEN bundle' = NoBundle /\ pub' = [pub EXCEPT !.pc = "place"] /\ UNCHANGED blurred
       ELSE pub' = Idle /\ blurred' = TRUE /\ UNCHANGED bundle
    /\ UNCHANGED <<record, today, prune, down, published, mishaps>>

PruneRemoved ==
    /\ Emptied(prune)
    /\ IF Removable(prune)
       THEN bundle' = NoBundle /\ prune' = [prune EXCEPT !.pc = "delete"] /\ UNCHANGED blurred
       ELSE prune' = Idle /\ blurred' = TRUE /\ UNCHANGED bundle
    /\ UNCHANGED <<record, today, pub, down, published, mishaps>>

----------------------------------------------------------------------------
(* download_artifact.                                                       *)

Download ==
    /\ down.pc = "idle" /\ record.gen # 0
    /\ down' = [Unread EXCEPT !.pc = "manifest"]
    /\ UNCHANGED <<bundle, record, today, pub, prune, published, blurred, mishaps>>

ReadManifest ==
    /\ down.pc = "manifest"
    /\ down' = IF bundle.has["manifest"] \in {0, Corrupt} THEN Unread
               ELSE [down EXCEPT !.pc = "verify", !.gen = bundle.has["manifest"], !.overtaken = FALSE]
    /\ UNCHANGED <<bundle, record, today, pub, prune, published, blurred, mishaps>>

MatchesWhatever(f) == bundle.has[f] # 0     \* mutant: a file that is there will do
Matches(f) == bundle.has[f] = down.gen
Verify ==
    /\ down.pc = "verify"
    /\ \E f \in down.todo :
         down' = IF ~Matches(f) THEN Unread
                 ELSE IF down.todo = {f} THEN [down EXCEPT !.pc = "extract", !.todo = Files]
                 ELSE [down EXCEPT !.todo = @ \ {f}]
    /\ UNCHANGED <<bundle, record, today, pub, prune, published, blurred, mishaps>>

Extract ==
    /\ down.pc = "extract"
    /\ \E f \in down.todo :
         down' = IF bundle.has[f] = 0 THEN Unread
                 ELSE [down EXCEPT !.pc = IF down.todo = {f} THEN "ok" ELSE "extract",
                                   !.todo = @ \ {f}, !.got[f] = bundle.has[f]]
    /\ UNCHANGED <<bundle, record, today, pub, prune, published, blurred, mishaps>>

Downloaded == down.pc = "ok" /\ down' = Unread
              /\ UNCHANGED <<bundle, record, today, pub, prune, published, blurred, mishaps>>

----------------------------------------------------------------------------
(* What may go wrong: a process dies or meets an error, a file decays.      *)

Mishap == mishaps < MaxMishaps /\ mishaps' = mishaps + 1

PubBreaksOff ==
    /\ Mishap /\ pub.pc # "idle"
    /\ pub' = Idle /\ blurred' = (blurred \/ pub.pc # "copy")
    /\ UNCHANGED <<bundle, record, today, prune, down, published>>

PruneBreaksOff ==
    /\ Mishap /\ prune.pc # "idle"
    /\ prune' = Idle /\ blurred' = (blurred \/ prune.pc # "look")
    /\ UNCHANGED <<bundle, record, today, pub, down, published>>

Decay ==
    /\ Mishap
    /\ \E e \in Entries : bundle.has[e] # 0 /\ bundle' = [bundle EXCEPT !.has[e] = Corrupt]
    /\ down' = [down EXCEPT !.overtaken = TRUE] /\ blurred' = TRUE
    /\ pub' = [pub EXCEPT !.alone = FALSE] /\ prune' = [prune EXCEPT !.alone = FALSE]
    /\ UNCHANGED <<record, today, published>>

NextDay == today < MaxDays /\ today' = today + 1
           /\ UNCHANGED <<bundle, record, pub, prune, down, published, blurred, mishaps>>

ArtifactNext ==
    \/ Publish \/ CopyFiles \/ Place \/ CreateRecord \/ Prune \/ Look \/ DeleteRecord
    \/ RemoveEntry(pub) \/ RemoveEntry(prune) \/ PubRemoved \/ PruneRemoved
    \/ Download \/ ReadManifest \/ Verify \/ Extract \/ Downloaded
    \/ PubBreaksOff \/ PruneBreaksOff \/ Decay \/ NextDay
ArtifactSpec == ArtifactInit /\ [][ArtifactNext]_avars

----------------------------------------------------------------------------
(* Properties.                                                              *)

(* The variables have the values the code gives them.                       *)
Versions == 0..published
Bundles == [there : BOOLEAN, gen : Versions, expires : Nat, has : [Entries -> 0..Corrupt]]
PubPCs == {"idle", "copy", "removing", "place", "create"}
PrunePCs == {"idle", "look", "removing", "delete"}
Workers(pcs) == [pc : pcs, gen : Versions, expires : Nat, opened : Versions, alone : BOOLEAN]
Readers == [pc : {"idle", "manifest", "verify", "extract", "ok"}, gen : 0..Corrupt,
            todo : SUBSET Files, got : [Files -> 0..Corrupt], overtaken : BOOLEAN]
ArtifactTypeOK ==
    /\ published \in 0..MaxVersions /\ today \in Nat /\ blurred \in BOOLEAN /\ mishaps \in Nat
    /\ record \in [gen : Versions, expires : Nat]
    /\ bundle \in Bundles
    /\ pub \in Workers(PubPCs)
    /\ prune \in Workers(PrunePCs)
    /\ down \in Readers

(* A download that says ok has copied one bundle, whole and as its manifest
   has it, unless another took its place meanwhile; whatever a prune, a death
   or the decay of a file left there before (artifacts.md, Download).        *)
DownloadIsWhole == down.pc = "ok" /\ ~down.overtaken => \A f \in Files : down.got[f] = down.gen

(* Where publisher and pruner never met, row and bundle tell the same, and the
   pruner deletes what has expired; and a publication or a prune that is left
   alone repairs what a death or a meeting left behind.                      *)
RowTellsTruth ==
    ~blurred =>
      /\ pub.pc = "idle" /\ prune.pc = "idle" =>
           IF record.gen = 0 THEN ~bundle.there
           ELSE bundle = Bundle(record)
      /\ prune.pc = "removing" /\ prune.alone => bundle.expires # 0 /\ bundle.expires <= today

(* Artifacts: the row tells the truth, and a download is of one piece.      *)
ArtifactsAreWhole == ArtifactTypeOK /\ RowTellsTruth /\ DownloadIsWhole

(* What makes them inductive.  A directory that is not there has no contents,
   and a publication and a prune that meet are not alone.                    *)
NothingInNoBundle == ~bundle.there => bundle = NoBundle
MeetingsNoticed == pub.pc # "idle" /\ prune.pc # "idle" => ~pub.alone /\ ~prune.alone

(* As long as neither has touched the disk, row and bundle tell the same.   *)
Truth == IF record.gen = 0 THEN ~bundle.there ELSE bundle = Bundle(record)
TruthUntouched == ~blurred /\ pub.pc \in {"idle", "copy"} /\ prune.pc \in {"idle", "look"} => Truth

(* What a publication that is alone has made of the directory so far.       *)
PubInHand ==
    /\ pub.pc # "idle" => pub.gen # 0
    /\ pub.pc = "place" /\ pub.alone => ~bundle.there
    /\ pub.pc = "create" /\ pub.alone => bundle = Bundle(pub)

(* And a prune: what it looks at is still the row that has expired, unless
   the directory was blurred before.                                        *)
PruneInHand ==
    /\ prune.pc = "look" /\ prune.alone => Expired(record)
    /\ prune.pc = "removing" /\ prune.alone /\ ~blurred => bundle.expires # 0 /\ bundle.expires <= today
    /\ prune.pc = "delete" /\ prune.alone => ~bundle.there

(* The reader: no other bundle took the place of the one whose manifest it
   has read, so each file has that content or is gone.                      *)
OneBundleRead ==
  /\ down.pc = "manifest" => down.todo = Files
  /\ down.pc \in {"verify", "extract", "ok"} /\ ~down.overtaken =>
      /\ down.gen \in 1..MaxVersions
      /\ \A f \in Files :
           /\ down.pc = "extract" \/ (down.pc = "verify" /\ f \notin down.todo) => bundle.has[f] \in {0, down.gen}
           /\ down.pc = "ok" \/ (down.pc = "extract" /\ f \notin down.todo) => down.got[f] = down.gen

ArtifactIInv ==
    ArtifactTypeOK /\ NothingInNoBundle /\ MeetingsNoticed /\ TruthUntouched /\ PubInHand /\ PruneInHand /\ OneBundleRead

(* What a lock around publish_artifact would give: nothing that has not
   expired is pruned.                                                        *)
PruneSparesLive == prune.pc = "removing" /\ Removable(prune) => bundle.expires # 0 /\ bundle.expires <= today
=============================================================================
