------------------------- MODULE WorkspaceProofs --------------------------
(***************************************************************************)
(* The configuration is whole, its caches are fresh and a load answers with  *)
(* the most specific tier, for any number of processes, changes, edits and   *)
(* ticks of the clock.  And what init, run and doctor make of a workspace:   *)
(* an init that says ok leaves it whole, a doctor reports a configuration    *)
(* that does not load, a lone initialization keeps its identity; for any     *)
(* number of processes, commands, faults and edits of the user.              *)
(***************************************************************************)
EXTENDS ConfigStore, WorkspaceSetup, FiniteSetTheorems, FunctionTheorems, SequenceTheorems, TLAPS

(***************************************************************************)
(* What the operators give.                                                *)
(***************************************************************************)

LEMMA KnownIsFlat == \A p, q \in Known : Clash(p, q) => p = q
<1> DEFINE Long == {<<"project", "name">>, <<"agent", "provider">>, <<"agent", "model">>,
                    <<"worktree", "base_ref">>}
<1>1. Len(<<"version">>) = 1 /\ \A q \in Long : Len(q) = 2
  OBVIOUS
<1>2. \A q \in Long : SubSeq(q, 1, 1)[1] = q[1] /\ q[1] # "version"
  OBVIOUS
<1>3. ASSUME NEW p \in Known, NEW q \in Known, StrictPrefix(p, q)
      PROVE  FALSE
  <2>1. Len(p) < Len(q) /\ SubSeq(q, 1, Len(p)) = p
    BY <1>3 DEF StrictPrefix
  <2>2. \A r \in Known : r = <<"version">> \/ r \in Long
    BY Zenon DEF Known, Version, Name
  <2> HIDE DEF Long
  <2>3. p = <<"version">> /\ q \in Long
    BY <1>1, <2>1, <2>2
  <2>4. p[1] = "version" /\ Len(p) = 1
    BY <2>3
  <2> QED
    BY <1>2, <2>1, <2>3, <2>4
<1> QED
  BY <1>3 DEF Clash

LEMMA FileIsInSchema == \A doc : LoadsAsFile(doc) => PassesSchema(doc)
BY DEF LoadsAsFile, PassesSchema, HasTypes

(* What is written passes the schema at least.                              *)
Checked(u, doc) == Prepare(u, doc, LoadsAsFile(doc)) \/ Prepare(u, doc, PassesSchema(doc))

LEMMA Ranks ==
  Rank("repo") = 1 /\ Rank("user") = 2 /\ Rank("global") = 3 /\ Rank("packaged") = 4
BY DEF Rank

(***************************************************************************)
(* Shapes.                                                                 *)
(***************************************************************************)

LEMMA FileShapesStep ==
  ASSUME FileShapes, [Next]_cvars
  PROVE  FileShapes'
<1> USE ConfigAssumption DEF FileShapes
<1> CASE UNCHANGED cvars
  BY DEF cvars
<1>1. CASE UNCHANGED <<file, upper, clock, versions>>
  BY <1>1
<1>2. ASSUME NEW new, DOMAIN new = {"doc", "mtime"}, new.mtime \in 0..clock, Shown(new)
      PROVE  versions' \in [0..MaxTicks -> 0..2]
  <2>1. new.mtime \in 0..MaxTicks /\ versions[new.mtime] \in 0..2
    BY <1>2
  <2> QED
    BY <1>2, <2>1 DEF Shown
<1>3. ASSUME NEW u \in Users, Open(u)
      PROVE  FileShapes'
  <2>1. /\ file' = [file EXCEPT !["tmp"] = [doc |-> Partial, mtime |-> clock]]
        /\ Shown(file'["config"]) /\ UNCHANGED <<upper, clock>>
    BY <1>3 DEF Open, OpenName
  <2>2. versions' \in [0..MaxTicks -> 0..2]
    BY <1>2, <2>1
  <2> QED
    BY <2>1, <2>2
<1>4. ASSUME NEW u \in Users, WriteAll(u)
      PROVE  FileShapes'
  <2> DEFINE fd == user[u].fd
  <2>1. CASE fd = "lost"
    BY <1>4, <2>1, <1>1 DEF WriteAll
  <2>2. CASE fd # "lost"
    <3>1. PICK doc : file' = [file EXCEPT ![fd] = [doc |-> doc, mtime |-> clock]]
      BY <1>4, <2>2 DEF WriteAll
    <3>2. Shown(file'["config"]) /\ UNCHANGED <<upper, clock>>
      BY <1>4, <2>2 DEF WriteAll
    <3>3. DOMAIN file' = {"config", "tmp"} /\ \A f \in {"config", "tmp"} :
            DOMAIN file'[f] = {"doc", "mtime"} /\ file'[f].mtime \in 0..clock
      BY <3>1
    <3>4. versions' \in [0..MaxTicks -> 0..2]
      BY <1>2, <3>2, <3>3
    <3> QED
      BY <3>2, <3>3, <3>4
  <2> QED
    BY <2>1, <2>2
<1>5. ASSUME NEW u \in Users, WriteFails(u)
      PROVE  FileShapes'
  BY <1>5 DEF WriteFails, NoFile
<1>6. ASSUME NEW u \in Users, Replace(u)
      PROVE  FileShapes'
  <2>1. CASE file["tmp"].doc = Absent
    BY <1>6, <2>1, <1>1 DEF Replace
  <2>2. CASE file["tmp"].doc # Absent
    <3>1. file' = [config |-> file["tmp"], tmp |-> NoFile] /\ Shown(file["tmp"]) /\ UNCHANGED <<upper, clock>>
      BY <1>6, <2>2 DEF Replace
    <3>2. versions' \in [0..MaxTicks -> 0..2]
      BY <1>2, <3>1
    <3> QED
      BY <3>1, <3>2 DEF NoFile
  <2> QED
    BY <2>1, <2>2
<1>7. ASSUME NEW t \in {"repo", "user", "global"}, NEW doc \in Documents, Edit(t, doc)
      PROVE  FileShapes'
  <2>1. CASE t = "repo"
    <3>1. /\ file' = [file EXCEPT !["config"] = [doc |-> doc, mtime |-> clock]]
          /\ Shown(file'["config"]) /\ UNCHANGED <<upper, clock>>
      BY <1>7, <2>1 DEF Edit
    <3>2. versions' \in [0..MaxTicks -> 0..2]
      BY <1>2, <3>1
    <3> QED
      BY <3>1, <3>2
  <2>2. CASE t # "repo"
    BY <1>7, <2>2 DEF Edit
  <2> QED
    BY <2>1, <2>2
<1>8. CASE Tick
  <2>1. clock' \in 0..MaxTicks /\ 0..clock \subseteq 0..clock'
    BY <1>8 DEF Tick
  <2>2. UNCHANGED <<file, upper, versions>>
    BY <1>8 DEF Tick
  <2>3. \A f \in {"config", "tmp"} : DOMAIN file'[f] = {"doc", "mtime"} /\ file'[f].mtime \in 0..clock'
    BY <2>1, <2>2
  <2> QED
    BY <2>1, <2>2, <2>3
<1> QED
  BY <1>1, <1>3, <1>4, <1>5, <1>6, <1>7, <1>8
  DEF Next, BeginChange, ReadToChange, ReadToInit, BeginLoad, Stat, Parse, ReadTier, Loaded, Dies

LEMMA CommandShapesStep ==
  ASSUME CommandShapes, [Next]_cvars
  PROVE  CommandShapes'
<1> USE DEF CommandShapes, Tiers
<1> CASE UNCHANGED cvars
  BY DEF cvars
<1>1. ASSUME NEW new, Shown(new)
      PROVE  steady' \in [Users -> SUBSET Tiers]
  BY <1>1 DEF Shown
<1>2. ASSUME NEW u \in Users, BeginChange(u)
      PROVE  CommandShapes'
  BY <1>2 DEF BeginChange, Begin, SetOnly, With
<1>3. ASSUME NEW u \in Users, ReadToChange(u)
      PROVE  CommandShapes'
  BY <1>3 DEF ReadToChange, Ended, Prepare, Set, SetOnly, With
<1>4. ASSUME NEW u \in Users, ReadToInit(u)
      PROVE  CommandShapes'
  BY <1>4 DEF ReadToInit, Ended, Prepare, Set, SetOnly, With
<1>5. ASSUME NEW u \in Users, Open(u)
      PROVE  CommandShapes'
  BY <1>5, <1>1 DEF Open, Set, SetOnly, With
<1>6. ASSUME NEW u \in Users, WriteAll(u)
      PROVE  CommandShapes'
  <2>1. steady' \in [Users -> SUBSET Tiers]
    BY <1>6, <1>1 DEF WriteAll
  <2> QED
    BY <1>6, <2>1 DEF WriteAll, Set, SetOnly, With
<1>7. ASSUME NEW u \in Users, WriteFails(u)
      PROVE  CommandShapes'
  BY <1>7 DEF WriteFails, Renamed
<1>8. ASSUME NEW u \in Users, Replace(u)
      PROVE  CommandShapes'
  <2>1. steady' \in [Users -> SUBSET Tiers]
    BY <1>8, <1>1 DEF Replace
  <2>2. DOMAIN user' = Users /\ \A v \in Users : DOMAIN user'[v] = DOMAIN Idle
    BY <1>8 DEF Replace, Renamed, Ended
  <2>3. DOMAIN cache' = Users /\ \A v \in Users : DOMAIN cache'[v] = DOMAIN NoEntry
    BY <1>8 DEF Replace
  <2> QED
    BY <2>1, <2>2, <2>3
<1>9. ASSUME NEW u \in Users, BeginLoad(u)
      PROVE  CommandShapes'
  BY <1>9 DEF BeginLoad, Begin, SetOnly, With
<1>10. ASSUME NEW u \in Users, Stat(u)
      PROVE  CommandShapes'
  BY <1>10 DEF Stat, Watched, Ended, ToTiers, Set, SetOnly, With
<1>11. ASSUME NEW u \in Users, Parse(u)
      PROVE  CommandShapes'
  BY <1>11 DEF Parse, Watched, Ended, ToTiers, Set, SetOnly, With, Stamp, NoEntry
<1>12. ASSUME NEW u \in Users, ReadTier(u)
      PROVE  CommandShapes'
  BY <1>12 DEF ReadTier, Watched, Ended, Set, SetOnly, With
<1>13. ASSUME NEW u \in Users, Loaded(u)
      PROVE  CommandShapes'
  BY <1>13 DEF Loaded, Watched, Ended
<1>14. ASSUME NEW u \in Users, Dies(u)
      PROVE  CommandShapes'
  BY <1>14 DEF Dies, Watched
<1>15. ASSUME NEW t \in {"repo", "user", "global"}, NEW doc \in Documents, Edit(t, doc)
      PROVE  CommandShapes'
  <2>1. steady' \in [Users -> SUBSET Tiers]
    BY <1>15, <1>1 DEF Edit
  <2> QED
    BY <1>15, <2>1 DEF Edit
<1>16. CASE Tick
  BY <1>16 DEF Tick
<1> QED
  BY <1>2, <1>3, <1>4, <1>5, <1>6, <1>7, <1>8, <1>9, <1>10, <1>11, <1>12, <1>13, <1>14, <1>15, <1>16 DEF Next

(***************************************************************************)
(* Entries of the caches.                                                  *)
(***************************************************************************)

(* A file that appears is counted.                                          *)
LEMMA AppearanceCounted ==
  ASSUME FileShapes, FileShapes', Shown(file'["config"])
  PROVE  /\ \A t \in 0..MaxTicks : versions'[t] >= versions[t]
         /\ file'["config"] # file["config"] =>
              versions'[Mtime'] > 0 /\ (versions[Mtime'] > 0 => versions'[Mtime'] = 2)
<1> USE ConfigAssumption DEF FileShapes
<1>1. Mtime' = file'["config"].mtime /\ Mtime' \in 0..MaxTicks
  BY DEF Mtime
<1>2. versions' = IF file'["config"] # file["config"] /\ versions[Mtime'] < 2
                  THEN [versions EXCEPT ![Mtime'] = @ + 1] ELSE versions
  BY <1>1 DEF Shown
<1>3. \A t \in 0..MaxTicks : versions[t] \in 0..2 /\ versions'[t] \in 0..2
  OBVIOUS
<1> QED
  BY <1>1, <1>2, <1>3

(* What is counted stays so, whoever changes the file.                      *)
LEMMA EntriesKept ==
  ASSUME FileShapes, FileShapes', CommandShapes, EntriesAreCounted,
         Shown(file'["config"]) \/ UNCHANGED <<file["config"], versions>>,
         \A u \in Users : cache'[u] \in {cache[u], NoEntry},
         \A u \in Users : At(u, "parse")' => At(u, "parse") /\ user'[u].mtime = user[u].mtime
  PROVE  EntriesAreCounted'
<1> USE ConfigAssumption DEF FileShapes
<1>1. Mtime \in 0..MaxTicks /\ Mtime' \in 0..MaxTicks
  BY DEF Mtime
<1>2. \A t \in 0..MaxTicks : versions[t] \in 0..2 /\ versions'[t] \in 0..2 /\ versions'[t] >= versions[t]
  <2>1. \A t \in 0..MaxTicks : versions[t] \in 0..2 /\ versions'[t] \in 0..2
    OBVIOUS
  <2>2. CASE Shown(file'["config"])
    BY <2>1, <2>2, AppearanceCounted
  <2>3. CASE UNCHANGED <<file["config"], versions>>
    BY <2>1, <2>3
  <2> QED
    BY <2>2, <2>3
<1>3. file'["config"] # file["config"] => versions'[Mtime'] > 0 /\ (versions[Mtime'] > 0 => versions'[Mtime'] = 2)
  BY AppearanceCounted
<1>4. file'["config"] = file["config"] => Mtime' = Mtime /\ Config' = Config
  BY DEF Mtime, Config
<1>5. versions'[Mtime'] > 0
  BY <1>1, <1>2, <1>3, <1>4 DEF EntriesAreCounted
<1>6. ASSUME NEW u \in Users, At(u, "parse")'
      PROVE  user'[u].mtime \in 0..MaxTicks /\ versions'[user'[u].mtime] > 0
  <2>1. At(u, "parse") /\ user'[u].mtime = user[u].mtime
    BY <1>6
  <2>2. user[u].mtime \in 0..MaxTicks /\ versions[user[u].mtime] > 0
    BY <2>1 DEF EntriesAreCounted
  <2>3. \A t \in 0..MaxTicks : versions[t] > 0 => versions'[t] > 0
    BY <1>2
  <2> QED
    BY <2>1, <2>2, <2>3
<1>7. ASSUME NEW u \in Users, (cache[u].doc # Absent)'
      PROVE  (/\ LoadsAsFile(cache[u].doc)
              /\ cache[u].mtime \in 0..MaxTicks /\ versions[cache[u].mtime] > 0
              /\ cache[u].mtime = Mtime /\ versions[Mtime] = 1 => cache[u].doc = Config)'
  <2>1. cache'[u] = cache[u]
    BY <1>7 DEF NoEntry
  <2>2. /\ LoadsAsFile(cache[u].doc)
        /\ cache[u].mtime \in 0..MaxTicks /\ versions[cache[u].mtime] > 0
        /\ cache[u].mtime = Mtime /\ versions[Mtime] = 1 => cache[u].doc = Config
    BY <1>7, <2>1 DEF EntriesAreCounted
  <2>3. versions'[cache[u].mtime] > 0
    <3>1. \A t \in 0..MaxTicks : versions[t] > 0 => versions'[t] > 0
      BY <1>2
    <3> QED
      BY <2>2, <3>1
  <2>4. ASSUME cache[u].mtime = Mtime', versions'[Mtime'] = 1
        PROVE  cache[u].doc = Config'
    <3>1. file'["config"] = file["config"]
      BY <1>3, <2>2, <2>4
    <3>2. versions[Mtime] = 1
      BY <1>1, <1>2, <1>4, <2>2, <2>4, <3>1
    <3> QED
      BY <1>4, <2>2, <2>4, <3>1, <3>2
  <2> QED
    BY <2>1, <2>2, <2>3, <2>4 DEF LoadsAsFile, HasTypes
<1> QED
  BY <1>5, <1>6, <1>7 DEF EntriesAreCounted

LEMMA EntriesStep ==
  ASSUME FileShapes, CommandShapes, FileShapes', EntriesAreCounted, [Next]_cvars
  PROVE  EntriesAreCounted'
<1> USE DEF CommandShapes, At
<1> CASE UNCHANGED cvars
  BY DEF cvars, EntriesAreCounted, Mtime, Config
<1>1. ASSUME NEW u \in Users, BeginChange(u)
      PROVE  EntriesAreCounted'
  BY <1>1, EntriesKept DEF BeginChange, Begin, SetOnly, With, Idle
<1>2. ASSUME NEW u \in Users, ReadToChange(u)
      PROVE  EntriesAreCounted'
  BY <1>2, EntriesKept DEF ReadToChange, Ended, Prepare, Set, SetOnly, With, Idle
<1>3. ASSUME NEW u \in Users, ReadToInit(u)
      PROVE  EntriesAreCounted'
  BY <1>3, EntriesKept DEF ReadToInit, Ended, Prepare, Set, SetOnly, With, Idle
<1>4. ASSUME NEW u \in Users, Open(u)
      PROVE  EntriesAreCounted'
  BY <1>4, EntriesKept DEF Open, Set, SetOnly, With, Idle
<1>5. ASSUME NEW u \in Users, WriteAll(u)
      PROVE  EntriesAreCounted'
  BY <1>5, EntriesKept DEF WriteAll, Set, SetOnly, With, Idle
<1>6. ASSUME NEW u \in Users, WriteFails(u)
      PROVE  EntriesAreCounted'
  BY <1>6, EntriesKept DEF WriteFails, Renamed, Idle
<1>7. ASSUME NEW u \in Users, Replace(u)
      PROVE  EntriesAreCounted'
  BY <1>7, EntriesKept DEF Replace, Ended, Renamed, Idle
<1>8. ASSUME NEW u \in Users, BeginLoad(u)
      PROVE  EntriesAreCounted'
  BY <1>8, EntriesKept DEF BeginLoad, Begin, SetOnly, With, Idle
<1>9. ASSUME NEW u \in Users, Stat(u)
      PROVE  EntriesAreCounted'
  <2>1. UNCHANGED <<file, versions>> /\ Mtime \in 0..MaxTicks /\ cache' \in {cache, [cache EXCEPT ![u] = NoEntry]}
    BY <1>9, ConfigAssumption DEF Stat, FileShapes, Mtime
  <2>2. \A v \in Users : At(v, "parse")' => (v = u /\ user'[v].mtime = Mtime) \/ (v # u /\ user'[v] = user[v])
    <3>1. \A v \in Users : v # u => user'[v] = user[v]
      BY <1>9 DEF Stat, Ended, ToTiers, Set, SetOnly
    <3>2. user'[u] = Idle \/ user'[u].pc = "tiers" \/ (user'[u].pc = "parse" /\ user'[u].mtime = Mtime)
      BY <1>9 DEF Stat, Ended, ToTiers, Set, SetOnly, With, Idle
    <3> QED
      BY <3>1, <3>2 DEF Idle
  <2> QED
    BY <2>1, <2>2 DEF EntriesAreCounted, Mtime, Config, LoadsAsFile, HasTypes, NoEntry
<1>10. ASSUME NEW u \in Users, Parse(u)
      PROVE  EntriesAreCounted'
  <2>1. UNCHANGED <<file, versions>>
    BY <1>10 DEF Parse
  <2>2. \A v \in Users : At(v, "parse")' => user'[v] = user[v]
    BY <1>10 DEF Parse, Ended, ToTiers, Set, SetOnly, With, Idle
  <2>3. CASE ~LoadsAsFile(Config)
    BY <1>10, <2>1, <2>2, <2>3, EntriesKept DEF Parse
  <2>4. CASE LoadsAsFile(Config)
    <3>1. cache' = [cache EXCEPT ![u] = Stamp(u)]
      BY <1>10, <2>4 DEF Parse
    <3>2. user[u].mtime \in 0..MaxTicks /\ versions[user[u].mtime] > 0
      BY <1>10 DEF Parse, EntriesAreCounted
    <3> QED
      BY <2>1, <2>2, <2>4, <3>1, <3>2 DEF EntriesAreCounted, Stamp, Mtime, Config, LoadsAsFile, HasTypes
  <2> QED
    BY <2>3, <2>4
<1>11. ASSUME NEW u \in Users, ReadTier(u)
      PROVE  EntriesAreCounted'
  BY <1>11, EntriesKept DEF ReadTier, Ended, Set, SetOnly, With, Idle
<1>12. ASSUME NEW u \in Users, Loaded(u)
      PROVE  EntriesAreCounted'
  BY <1>12, EntriesKept DEF Loaded, Ended, Idle
<1>13. ASSUME NEW u \in Users, Dies(u)
      PROVE  EntriesAreCounted'
  BY <1>13, EntriesKept DEF Dies, Idle
<1>14. ASSUME NEW t \in {"repo", "user", "global"}, NEW doc \in Documents, Edit(t, doc)
      PROVE  EntriesAreCounted'
  BY <1>14, EntriesKept DEF Edit
<1>15. CASE Tick
  BY <1>15, EntriesKept DEF Tick
<1> QED
  BY <1>1, <1>2, <1>3, <1>4, <1>5, <1>6, <1>7, <1>8, <1>9, <1>10, <1>11, <1>12, <1>13, <1>14, <1>15 DEF Next

(***************************************************************************)
(* How a command that changes the file begins.                             *)
(***************************************************************************)

LEMMA ChangeBegun ==
  ASSUME CommandShapes, NEW u \in Users, BeginChange(u)
  PROVE  /\ u \in Setters /\ user'[u].pc = "read"
         /\ \A v \in Users : v # u => user'[v] = user[v]
<1> USE DEF CommandShapes, Begin, SetOnly, With, Idle
<1>1. CASE \E c \in Changes, op \in {"set", "unset"} :
             Begin(u, [pc |-> "read", op |-> op, path |-> c.path, value |-> Value(c.text)])
  <2>1. PICK c \in Changes, op \in {"set", "unset"} :
          user' = [user EXCEPT ![u] = With(Idle, [pc |-> "read", op |-> op, path |-> c.path, value |-> Value(c.text)])]
    BY <1>1
  <2>2. user'[u].pc = "read"
    BY <2>1
  <2> QED
    BY <2>1, <2>2 DEF BeginChange
<1>2. CASE \E policy \in {"skip", "repair", "overwrite"} : Begin(u, [pc |-> "read", op |-> policy])
  BY <1>2 DEF BeginChange
<1> QED
  BY <1>1, <1>2 DEF BeginChange

(***************************************************************************)
(* Who writes what.                                                        *)
(***************************************************************************)

LEMMA WritersStep ==
  ASSUME CommandShapes, WritersAreSetters, [Next]_cvars
  PROVE  WritersAreSetters'
<1> USE DEF CommandShapes, At, Idle
<1>0. CASE UNCHANGED cvars
  BY <1>0 DEF cvars, WritersAreSetters, PassesSchema, HasTypes
<1> DEFINE Steady(command, u) ==
             /\ command.op \in {"set", "unset", "skip", "repair", "overwrite"} => u \in Setters
             /\ command.pc \in {"open", "write", "replace"} => u \in Setters
             /\ command.pc \in {"open", "write"} => PassesSchema(command.doc)
<1>1. \A u \in Users : Steady(user[u], u)
  BY DEF WritersAreSetters
<1>2. ASSUME \A u \in Users : Steady(user'[u], u)
      PROVE  WritersAreSetters'
  BY <1>2 DEF WritersAreSetters, PassesSchema, HasTypes
<1>3. \A u \in Users : Steady(Idle, u)
  OBVIOUS
<1>4. ASSUME NEW u \in Users, BeginChange(u)
      PROVE  WritersAreSetters'
  BY <1>1, <1>2, <1>4, ChangeBegun
<1>5. ASSUME NEW u \in Users, NEW doc, Checked(u, doc),
             user[u].op \in {"set", "unset", "skip", "repair", "overwrite"}
      PROVE  WritersAreSetters'
  <2>1. \/ Ended(u)
        \/ PassesSchema(doc) /\ SetOnly(u, [pc |-> "open", doc |-> doc])
    BY <1>5, FileIsInSchema DEF Checked, Prepare
  <2> QED
    BY <1>1, <1>2, <1>5, <2>1 DEF Ended, SetOnly, With
<1>6. ASSUME NEW u \in Users, Ended(u)
      PROVE  WritersAreSetters'
  BY <1>1, <1>2, <1>6 DEF Ended
<1>7. ASSUME NEW u \in Users, ReadToChange(u)
      PROVE  WritersAreSetters'
  BY <1>5, <1>6, <1>7 DEF ReadToChange, Checked
<1>8. ASSUME NEW u \in Users, ReadToInit(u)
      PROVE  WritersAreSetters'
  BY <1>5, <1>6, <1>8 DEF ReadToInit, Checked
<1>9. ASSUME NEW u \in Users, Open(u)
      PROVE  WritersAreSetters'
  BY <1>1, <1>2, <1>9 DEF Open, Set, SetOnly, With
<1>10. ASSUME NEW u \in Users, WriteAll(u)
      PROVE  WritersAreSetters'
  BY <1>1, <1>2, <1>10 DEF WriteAll, Set, SetOnly, With
<1>11. ASSUME NEW u \in Users, NEW name, Renamed(u, name)
       PROVE  WritersAreSetters'
  BY <1>1, <1>2, <1>11 DEF Renamed
<1>12. ASSUME NEW u \in Users, WriteFails(u) \/ Replace(u)
       PROVE  WritersAreSetters'
  BY <1>6, <1>11, <1>12 DEF WriteFails, Replace
<1>13. ASSUME NEW u \in Users, BeginLoad(u)
       PROVE  WritersAreSetters'
  BY <1>1, <1>2, <1>13 DEF BeginLoad, Begin, SetOnly, With
<1>14. ASSUME NEW u \in Users, Stat(u)
       PROVE  WritersAreSetters'
  BY <1>1, <1>2, <1>14 DEF Stat, Ended, ToTiers, Set, SetOnly, With
<1>15. ASSUME NEW u \in Users, Parse(u)
       PROVE  WritersAreSetters'
  BY <1>1, <1>2, <1>15 DEF Parse, Ended, ToTiers, Set, SetOnly, With
<1>16. ASSUME NEW u \in Users, ReadTier(u)
       PROVE  WritersAreSetters'
  BY <1>1, <1>2, <1>16 DEF ReadTier, Ended, Set, SetOnly, With
<1>17. ASSUME NEW u \in Users, Loaded(u)
       PROVE  WritersAreSetters'
  BY <1>6, <1>17 DEF Loaded
<1>18. ASSUME NEW u \in Users, Dies(u)
       PROVE  WritersAreSetters'
  BY <1>1, <1>2, <1>18 DEF Dies
<1>19. ASSUME NEW t \in {"repo", "user", "global"}, NEW doc \in Documents, Edit(t, doc)
       PROVE  WritersAreSetters'
  BY <1>1, <1>2, <1>19 DEF Edit
<1>20. CASE Tick
  BY <1>1, <1>2, <1>20 DEF Tick
<1> QED
  BY <1>0, <1>4, <1>7, <1>8, <1>9, <1>10, <1>12, <1>13, <1>14, <1>15, <1>16, <1>17, <1>18, <1>19, <1>20 DEF Next

(* A single writer.                                                         *)
LEMMA TmpStep ==
  ASSUME FileShapes, CommandShapes, WritersAreSetters, TmpIsOnesOwn, [Next]_cvars, OneSetter
  PROVE  TmpIsOnesOwn'
<1> USE DEF CommandShapes, FileShapes, At, Idle, Config, FileIsWhole
<1>0. CASE UNCHANGED cvars
  BY <1>0 DEF cvars, TmpIsOnesOwn
<1> DEFINE Steady(command, tmp) ==
             /\ command.pc = "write" => command.fd = "tmp" /\ tmp.doc = Partial
             /\ command.pc = "replace" => tmp.doc # Partial
<1>1. Config # Partial /\ \A u \in Users : Steady(user[u], file["tmp"])
  BY DEF TmpIsOnesOwn
<1>2. ASSUME file'["config"].doc # Partial, \A u \in Users : Steady(user'[u], file'["tmp"])
      PROVE  TmpIsOnesOwn'
  BY <1>2 DEF TmpIsOnesOwn
<1>3. \A u, v \in Users : user[u].pc \in {"open", "write", "replace"} /\ user[v].pc \in {"open", "write", "replace"} => u = v
  BY DEF WritersAreSetters, OneSetter
<1>4. ASSUME UNCHANGED file, NEW u \in Users, \A v \in Users : v # u => user'[v] = user[v],
             user'[u].pc \notin {"write", "replace"}
      PROVE  TmpIsOnesOwn'
  BY <1>1, <1>2, <1>4
<1>5. ASSUME NEW u \in Users, BeginChange(u) \/ BeginLoad(u)
      PROVE  TmpIsOnesOwn'
  <2>1. CASE BeginChange(u)
    BY <1>4, <2>1, ChangeBegun DEF BeginChange
  <2>2. CASE BeginLoad(u)
    BY <1>4, <2>2 DEF BeginLoad, Begin, SetOnly, With
  <2> QED
    BY <1>5, <2>1, <2>2
<1>6. ASSUME NEW u \in Users, UNCHANGED file, Ended(u)
      PROVE  TmpIsOnesOwn'
  BY <1>4, <1>6 DEF Ended
<1>7. ASSUME NEW u \in Users, UNCHANGED file, NEW doc, Checked(u, doc)
      PROVE  TmpIsOnesOwn'
  BY <1>4, <1>7 DEF Checked, Prepare, Ended, Set, SetOnly, With
<1>8. ASSUME NEW u \in Users, ReadToChange(u) \/ ReadToInit(u) \/ Loaded(u)
      PROVE  TmpIsOnesOwn'
  BY <1>6, <1>7, <1>8 DEF ReadToChange, ReadToInit, Loaded, Checked
<1>9. ASSUME NEW u \in Users, Open(u)
      PROVE  TmpIsOnesOwn'
  <2>1. file'["config"] = file["config"] /\ file'["tmp"].doc = Partial
    BY <1>9 DEF Open, OpenName
  <2>2. user'[u].pc = "write" /\ user'[u].fd = "tmp" /\ \A v \in Users : v # u => user'[v] = user[v]
    BY <1>9 DEF Open, OpenName, Set, SetOnly, With
  <2>3. \A v \in Users : v # u => user[v].pc \notin {"write", "replace"}
    BY <1>3, <1>9 DEF Open
  <2> QED
    BY <1>1, <1>2, <2>1, <2>2, <2>3
<1>10. ASSUME NEW u \in Users, WriteAll(u)
       PROVE  TmpIsOnesOwn'
  <2>1. user[u].fd = "tmp" /\ file["tmp"].doc = Partial /\ user[u].doc # Partial
    BY <1>1, <1>10 DEF WriteAll, WritersAreSetters, PassesSchema, HasTypes, IsObject
  <2>2. file' = [file EXCEPT !["tmp"] = [doc |-> user[u].doc, mtime |-> clock]]
    BY <1>10, <2>1 DEF WriteAll
  <2>3. user'[u].pc = "replace" /\ \A v \in Users : v # u => user'[v] = user[v]
    BY <1>10 DEF WriteAll, Set, SetOnly, With
  <2>4. \A v \in Users : v # u => user[v].pc \notin {"write", "replace"}
    BY <1>3, <1>10 DEF WriteAll
  <2> QED
    BY <1>1, <1>2, <2>1, <2>2, <2>3, <2>4
<1>11. ASSUME NEW u \in Users, user[u].pc \in {"write", "replace"}, NEW name, Renamed(u, name),
              file'["config"].doc # Partial
       PROVE  TmpIsOnesOwn'
  <2>1. \A v \in Users : user'[v].pc \notin {"write", "replace"}
    BY <1>3, <1>11 DEF Renamed
  <2> QED
    BY <1>2, <1>11, <2>1
<1>12. ASSUME NEW u \in Users, WriteFails(u)
       PROVE  TmpIsOnesOwn'
  BY <1>1, <1>11, <1>12 DEF WriteFails
<1>13. ASSUME NEW u \in Users, Replace(u)
       PROVE  TmpIsOnesOwn'
  <2>1. file["tmp"].doc # Partial
    BY <1>1, <1>13 DEF Replace
  <2> QED
    BY <1>6, <1>11, <1>13, <2>1 DEF Replace
<1>14. ASSUME NEW u \in Users, Stat(u)
       PROVE  TmpIsOnesOwn'
  BY <1>4, <1>14 DEF Stat, Ended, ToTiers, Set, SetOnly, With
<1>15. ASSUME NEW u \in Users, Parse(u)
       PROVE  TmpIsOnesOwn'
  BY <1>4, <1>15 DEF Parse, Ended, ToTiers, Set, SetOnly, With
<1>16. ASSUME NEW u \in Users, ReadTier(u)
       PROVE  TmpIsOnesOwn'
  <2>1. UNCHANGED file /\ \A v \in Users : v # u => user'[v] = user[v]
    BY <1>16 DEF ReadTier, Ended, Set
  <2>2. user'[u].pc \in {"idle", "tiers"}
    <3>1. \/ Ended(u)
          \/ Set(u, [tiers |-> Tail(user[u].tiers)])
          \/ \E merged, from : Set(u, [tiers |-> Tail(user[u].tiers), merged |-> merged, from |-> from])
      BY <1>16 DEF ReadTier
    <3>2. user[u].pc = "tiers"
      BY <1>16 DEF ReadTier
    <3>3. ASSUME NEW merged, NEW from, Set(u, [tiers |-> Tail(user[u].tiers), merged |-> merged, from |-> from])
          PROVE  user'[u].pc = "tiers"
      BY <3>2, <3>3 DEF Set, With
    <3>4. ASSUME Set(u, [tiers |-> Tail(user[u].tiers)])
          PROVE  user'[u].pc = "tiers"
      BY <3>2, <3>4 DEF Set, With
    <3>5. ASSUME Ended(u)
          PROVE  user'[u].pc = "idle"
      BY <3>5 DEF Ended
    <3> QED
      BY <3>1, <3>3, <3>4, <3>5
  <2> QED
    BY <1>4, <2>1, <2>2
<1>17. ASSUME NEW u \in Users, Dies(u)
       PROVE  TmpIsOnesOwn'
  BY <1>4, <1>17 DEF Dies
<1>18. ASSUME NEW t \in {"repo", "user", "global"}, NEW doc \in Documents, Edit(t, doc)
       PROVE  TmpIsOnesOwn'
  <2>1. file'["config"].doc # Partial /\ file'["tmp"] = file["tmp"]
    BY <1>1, <1>18, ConfigAssumption DEF Edit
  <2>2. \A v \in Users : user'[v].pc = user[v].pc /\ (user[v].fd = "tmp" => user'[v].fd = "tmp")
    BY <1>18 DEF Edit
  <2> QED
    BY <1>1, <1>2, <2>1, <2>2
<1>19. CASE Tick
  BY <1>1, <1>2, <1>19 DEF Tick
<1> QED
  BY <1>0, <1>5, <1>8, <1>9, <1>10, <1>12, <1>13, <1>14, <1>15, <1>16, <1>17, <1>18, <1>19 DEF Next

(***************************************************************************)
(* What a load merges.                                                     *)
(***************************************************************************)

(* A tier that has been the same since a load began is the same now.        *)
LEMMA SteadyDocs ==
  ASSUME FileShapes, CommandShapes, [Next]_cvars, NEW u \in Users, user'[u].pc = "tiers", NEW t \in steady'[u]
  PROVE  t \in steady[u] /\ Doc(t)' = Doc(t)
<1> USE DEF FileShapes, CommandShapes, Doc, Config, Tiers
<1>0. steady[u] \subseteq Tiers
  OBVIOUS
<1>1. ASSUME Shown(file'["config"]), upper' = upper
      PROVE  t \in steady[u] /\ Doc(t)' = Doc(t)
  BY <1>0, <1>1 DEF Shown
<1>2. ASSUME UNCHANGED <<file, upper>>, steady'[u] = steady[u]
      PROVE  t \in steady[u] /\ Doc(t)' = Doc(t)
  BY <1>0, <1>2
<1>3. CASE UNCHANGED cvars
  BY <1>2, <1>3 DEF cvars
<1>4. ASSUME NEW v \in Users, BeginChange(v) \/ ReadToChange(v) \/ ReadToInit(v) \/ Stat(v) \/ Parse(v)
                                \/ ReadTier(v) \/ Loaded(v) \/ Dies(v)
      PROVE  t \in steady[u] /\ Doc(t)' = Doc(t)
  <2>1. UNCHANGED <<file, upper>> /\ (UNCHANGED steady \/ Watched(v))
    BY <1>4 DEF BeginChange, ReadToChange, ReadToInit, Stat, Parse, ReadTier, Loaded, Dies
  <2>2. steady'[u] = steady[u]
    BY <2>1 DEF Watched
  <2> QED
    BY <1>2, <2>1, <2>2
<1>5. ASSUME NEW v \in Users, Open(v)
      PROVE  t \in steady[u] /\ Doc(t)' = Doc(t)
  BY <1>1, <1>5 DEF Open
<1>6. ASSUME NEW v \in Users, WriteAll(v)
      PROVE  t \in steady[u] /\ Doc(t)' = Doc(t)
  BY <1>1, <1>2, <1>6 DEF WriteAll
<1>7. ASSUME NEW v \in Users, WriteFails(v)
      PROVE  t \in steady[u] /\ Doc(t)' = Doc(t)
  <2>1. file'["config"] = file["config"] /\ UNCHANGED <<upper, steady>>
    BY <1>7 DEF WriteFails
  <2> QED
    BY <1>0, <2>1
<1>8. ASSUME NEW v \in Users, Replace(v)
      PROVE  t \in steady[u] /\ Doc(t)' = Doc(t)
  <2>1. CASE file["tmp"].doc = Absent
    BY <1>2, <1>8, <2>1 DEF Replace
  <2>2. CASE file["tmp"].doc # Absent
    BY <1>1, <1>8, <2>2 DEF Replace
  <2> QED
    BY <2>1, <2>2
<1>9. ASSUME NEW v \in Users, BeginLoad(v)
      PROVE  t \in steady[u] /\ Doc(t)' = Doc(t)
  <2>1. user'[v].pc = "stat"
    BY <1>9 DEF BeginLoad, Begin, SetOnly, With, Idle
  <2>2. u # v
    BY <2>1
  <2>3. UNCHANGED <<file, upper>> /\ steady'[u] = steady[u]
    BY <1>9, <2>2 DEF BeginLoad
  <2> QED
    BY <1>2, <2>3
<1>10. ASSUME NEW tier \in {"repo", "user", "global"}, NEW doc \in Documents, Edit(tier, doc)
       PROVE  t \in steady[u] /\ Doc(t)' = Doc(t)
  <2>1. CASE tier = "repo"
    BY <1>1, <1>10, <2>1 DEF Edit
  <2>2. CASE tier # "repo"
    <3>1. file' = file /\ upper' = [upper EXCEPT ![tier] = doc] /\ steady'[u] = steady[u] \ {tier}
      BY <1>10, <2>2 DEF Edit
    <3> QED
      BY <1>0, <3>1
  <2> QED
    BY <2>1, <2>2
<1>11. CASE Tick
  BY <1>2, <1>11 DEF Tick
<1> QED
  BY <1>3, <1>4, <1>5, <1>6, <1>7, <1>8, <1>9, <1>10, <1>11 DEF Next

(* The rest of a load that has read one more tier.                          *)
LEMMA NextRest ==
  ASSUME NEW rest \in Rests, rest # <<>>
  PROVE  /\ Tail(rest) \in Rests /\ Head(rest) \in Tiers /\ Head(rest) \notin Done(rest)
         /\ Done(Tail(rest)) = Done(rest) \cup {Head(rest)}
         /\ \A t \in Done(rest) \cup {"packaged"} : Rank(Head(rest)) < Rank(t)
<1>1. rest \in {<<"repo">>, <<"user", "repo">>, TierOrder}
  BY DEF Rests
<1>2. CASE rest = <<"repo">>
  <2>1. Tail(rest) = <<>> /\ Head(rest) = "repo" /\ Done(rest) = {"user", "global"} /\ Done(<<>>) = Tiers
    BY <1>2 DEF Done, Tiers
  <2>2. Tail(rest) \in Rests
    BY <2>1 DEF Rests
  <2>3. \A t \in Done(rest) \cup {"packaged"} : Rank(Head(rest)) < Rank(t)
    BY <2>1, Ranks
  <2> QED
    BY <2>1, <2>2, <2>3 DEF Tiers
<1>3. CASE rest = <<"user", "repo">>
  <2>1. Tail(rest) = <<"repo">> /\ Head(rest) = "user" /\ Done(rest) = {"global"} /\ Done(<<"repo">>) = {"user", "global"}
    BY <1>3 DEF Done, Tiers
  <2>2. Tail(rest) \in Rests
    BY <2>1 DEF Rests
  <2>3. \A t \in Done(rest) \cup {"packaged"} : Rank(Head(rest)) < Rank(t)
    BY <2>1, Ranks
  <2> QED
    BY <2>1, <2>2, <2>3 DEF Tiers
<1>4. CASE rest = TierOrder
  <2>1. Tail(rest) = <<"user", "repo">> /\ Head(rest) = "global" /\ Done(rest) = {} /\ Done(<<"user", "repo">>) = {"global"}
    BY <1>4 DEF Done, Tiers, TierOrder
  <2>2. Tail(rest) \in Rests
    BY <2>1 DEF Rests
  <2>3. \A t \in Done(rest) \cup {"packaged"} : Rank(Head(rest)) < Rank(t)
    BY <2>1, Ranks
  <2> QED
    BY <2>1, <2>2, <2>3 DEF Tiers
<1> QED
  BY <1>1, <1>2, <1>3, <1>4

LEMMA MergedStep ==
  ASSUME FileShapes, CommandShapes, MergedSoFar, [Next]_cvars
  PROVE  MergedSoFar'
<1> SUFFICES ASSUME NEW u \in Users, user'[u].pc = "tiers"
             PROVE  MergedRight(u)'
  BY DEF MergedSoFar, At
<1> USE DEF CommandShapes, At, Idle
<1> DEFINE Same == /\ user[u].pc = "tiers" /\ user'[u].tiers = user[u].tiers
                   /\ user'[u].merged = user[u].merged /\ user'[u].from = user[u].from
<1>1. CASE Same
  <2>1. MergedRight(u)
    BY <1>1 DEF MergedSoFar
  <2>2. \A t \in steady'[u] : t \in steady[u] /\ Doc(t)' = Doc(t)
    BY SteadyDocs
  <2>3. ASSUME NEW t \in Done(user'[u].tiers) \cap steady'[u], IsObject(Doc(t)'), NEW p \in DOMAIN (Doc(t)')
        PROVE  /\ p \in DOMAIN user'[u].from /\ Rank(user'[u].from[p]) <= Rank(t)
               /\ user'[u].from[p] = t => user'[u].merged[p] = Doc(t)'[p]
    <3>1. Doc(t)' = Doc(t) /\ t \in Done(user[u].tiers) \cap steady[u]
      BY <1>1, <2>2, <2>3
    <3> QED
      BY <1>1, <2>1, <2>3, <3>1 DEF MergedRight
  <2> QED
    BY <1>1, <2>1, <2>3 DEF MergedRight, IsObject
<1>2. CASE UNCHANGED cvars
  BY <1>1, <1>2 DEF cvars
<1>3. ASSUME ToTiers(u)
      PROVE  MergedRight(u)'
  <2>1. /\ user'[u].tiers = TierOrder /\ user'[u].merged = Defaults
        /\ user'[u].from = [p \in DOMAIN Defaults |-> "packaged"]
    BY <1>3 DEF ToTiers, Ended, Set, SetOnly, With
  <2>2. DOMAIN Defaults = Known /\ Done(TierOrder) = {}
    BY DEF Defaults, Done, TierOrder, Tiers
  <2> QED
    BY <2>1, <2>2 DEF MergedRight, Rests
<1>4. ASSUME ReadTier(u)
      PROVE  MergedRight(u)'
  <2> DEFINE tier == Head(user[u].tiers)
             doc == Doc(tier)
             merged == Merge(user[u].merged, doc)
             from == Merge(user[u].from, [p \in DOMAIN doc |-> tier])
  <2>1. MergedRight(u) /\ user[u].tiers \in Rests /\ user[u].tiers # <<>>
    BY <1>4 DEF ReadTier, MergedSoFar, MergedRight
  <2>2. /\ Tail(user[u].tiers) \in Rests /\ tier \in Tiers /\ tier \notin Done(user[u].tiers)
        /\ Done(Tail(user[u].tiers)) = Done(user[u].tiers) \cup {tier}
        /\ \A t \in Done(user[u].tiers) \cup {"packaged"} : Rank(tier) < Rank(t)
    BY <2>1, NextRest
  <2>3. \A t \in steady'[u] : t \in steady[u] /\ Doc(t)' = Doc(t)
    BY SteadyDocs
  <2>4. CASE doc = Absent
    <3>1. /\ user'[u].tiers = Tail(user[u].tiers) /\ user'[u].merged = user[u].merged
          /\ user'[u].from = user[u].from
      <4>1. Set(u, [tiers |-> Tail(user[u].tiers)])
        BY <1>4, <2>4 DEF ReadTier
      <4> QED
        BY <4>1 DEF Set, SetOnly, With
    <3>2. ASSUME NEW t \in Done(user'[u].tiers) \cap steady'[u], IsObject(Doc(t)'), NEW p \in DOMAIN (Doc(t)')
          PROVE  /\ p \in DOMAIN user'[u].from /\ Rank(user'[u].from[p]) <= Rank(t)
                 /\ user'[u].from[p] = t => user'[u].merged[p] = Doc(t)'[p]
      <4>1. Doc(t)' = Doc(t) /\ t \in steady[u]
        BY <2>3, <3>2
      <4>2. t # tier
        BY <2>4, <3>2, <4>1 DEF IsObject
      <4> QED
        BY <2>1, <2>2, <3>1, <3>2, <4>1, <4>2 DEF MergedRight
    <3> QED
      BY <2>1, <2>2, <3>1, <3>2 DEF MergedRight, IsObject
  <2>5. CASE doc # Absent
    <3>1. MergedLoads(merged) /\ IsObject(doc)
      BY <1>4, <2>5 DEF ReadTier, Ended
    <3>2. /\ user'[u].tiers = Tail(user[u].tiers) /\ user'[u].merged = merged
          /\ user'[u].from = from
      <4>1. Set(u, [tiers |-> Tail(user[u].tiers), merged |-> merged, from |-> from])
        BY <1>4, <2>5, <3>1 DEF ReadTier
      <4> HIDE DEF merged, from
      <4> QED
        BY <4>1 DEF Set, SetOnly, With
    <3>3. DOMAIN doc \subseteq Known /\ DOMAIN user[u].merged \subseteq Known /\ DOMAIN user[u].from = DOMAIN user[u].merged
      BY <2>1, <3>1 DEF MergedLoads, HasTypes, Merge, MergedRight
    <3>4. \A p \in DOMAIN user[u].merged \ DOMAIN doc : Kept(p, doc)
      BY <3>3, KnownIsFlat DEF Kept
    <3>5. /\ DOMAIN merged = DOMAIN user[u].merged \cup DOMAIN doc
          /\ \A p \in DOMAIN merged : merged[p] = IF p \in DOMAIN doc THEN doc[p] ELSE user[u].merged[p]
      BY <3>4 DEF Merge
    <3>6. /\ DOMAIN from = DOMAIN merged
          /\ \A p \in DOMAIN from : from[p] = IF p \in DOMAIN doc THEN tier ELSE user[u].from[p]
      <4> DEFINE tiers == [p \in DOMAIN doc |-> tier]
      <4>1. DOMAIN tiers = DOMAIN doc /\ \A p \in DOMAIN doc : tiers[p] = tier
        OBVIOUS
      <4>2. \A p \in DOMAIN user[u].from \ DOMAIN tiers : Kept(p, tiers)
        BY <3>3, <3>4, <4>1 DEF Kept
      <4>3. from = Merge(user[u].from, tiers)
        OBVIOUS
      <4> HIDE DEF tiers
      <4>4. /\ DOMAIN from = DOMAIN user[u].from \cup DOMAIN tiers
            /\ \A p \in DOMAIN from : from[p] = IF p \in DOMAIN tiers THEN tiers[p] ELSE user[u].from[p]
        BY <4>2, <4>3 DEF Merge
      <4> QED
        BY <3>3, <3>5, <4>1, <4>4
    <3> HIDE DEF merged, from, doc, tier
    <3>7. \A p \in DOMAIN from : from[p] \in Done(Tail(user[u].tiers)) \cup {"packaged"}
      BY <2>1, <2>2, <3>3, <3>5, <3>6 DEF MergedRight
    <3>8. ASSUME NEW t \in Done(Tail(user[u].tiers)) \cap steady'[u], IsObject(Doc(t)), NEW p \in DOMAIN Doc(t)
          PROVE  p \in DOMAIN from /\ Rank(from[p]) <= Rank(t) /\ (from[p] = t => merged[p] = Doc(t)[p])
      <4>0. Rank(t) \in Nat /\ Rank(tier) \in Nat
        BY <2>2, <3>8, Ranks DEF Tiers, Done
      <4>1. CASE t = tier
        BY <3>5, <3>6, <3>8, <4>0, <4>1 DEF doc
      <4>2. CASE t # tier
        <5>1. t \in Done(user[u].tiers) \cap steady[u]
          BY <2>2, <2>3, <3>8, <4>2
        <5>2. /\ p \in DOMAIN user[u].from /\ Rank(user[u].from[p]) <= Rank(t)
              /\ user[u].from[p] = t => user[u].merged[p] = Doc(t)[p]
          BY <2>1, <3>8, <5>1 DEF MergedRight
        <5>3. Rank(tier) < Rank(t)
          BY <2>2, <5>1
        <5> QED
          BY <3>3, <3>5, <3>6, <4>0, <4>2, <5>2, <5>3
      <4> QED
        BY <4>1, <4>2
    <3>9. ASSUME NEW t \in Done(user'[u].tiers) \cap steady'[u], IsObject(Doc(t)'), NEW p \in DOMAIN (Doc(t)')
          PROVE  /\ p \in DOMAIN user'[u].from /\ Rank(user'[u].from[p]) <= Rank(t)
                 /\ user'[u].from[p] = t => user'[u].merged[p] = Doc(t)'[p]
      <4>1. Doc(t)' = Doc(t)
        BY <2>3, <3>9
      <4> QED
        BY <3>2, <3>8, <3>9, <4>1
    <3>10. DOMAIN merged \subseteq Known
      BY <3>3, <3>5
    <3> QED
      BY <2>2, <3>2, <3>6, <3>7, <3>9, <3>10 DEF MergedRight, IsObject
  <2> QED
    BY <2>4, <2>5
<1>5. ASSUME NEW v \in Users, v # u, \A w \in Users : w # v => user'[w] = user[w]
      PROVE  MergedRight(u)'
  BY <1>1, <1>5
<1>6. ASSUME NEW v \in Users, BeginChange(v)
      PROVE  MergedRight(u)'
  BY <1>5, <1>6, ChangeBegun
<1>7. ASSUME NEW v \in Users, Ended(v)
      PROVE  MergedRight(u)'
  BY <1>5, <1>7 DEF Ended
<1>8. ASSUME NEW v \in Users, NEW doc, Checked(v, doc)
      PROVE  MergedRight(u)'
  BY <1>5, <1>8 DEF Checked, Prepare, Ended, Set, SetOnly, With
<1>9. ASSUME NEW v \in Users, ReadToChange(v) \/ ReadToInit(v) \/ Loaded(v)
      PROVE  MergedRight(u)'
  BY <1>7, <1>8, <1>9 DEF ReadToChange, ReadToInit, Loaded, Checked
<1>10. ASSUME NEW v \in Users, Open(v) \/ WriteAll(v)
       PROVE  MergedRight(u)'
  BY <1>5, <1>10 DEF Open, WriteAll, Set, SetOnly, With
<1>11. ASSUME NEW v \in Users, NEW name, Renamed(v, name)
       PROVE  MergedRight(u)'
  BY <1>1, <1>11 DEF Renamed
<1>12. ASSUME NEW v \in Users, WriteFails(v) \/ Replace(v)
       PROVE  MergedRight(u)'
  BY <1>7, <1>11, <1>12 DEF WriteFails, Replace
<1>13. ASSUME NEW v \in Users, BeginLoad(v)
       PROVE  MergedRight(u)'
  BY <1>5, <1>13 DEF BeginLoad, Begin, SetOnly, With
<1>14. ASSUME NEW v \in Users, ToTiers(v)
       PROVE  MergedRight(u)'
  BY <1>3, <1>5, <1>14 DEF ToTiers, Ended, SetOnly
<1>15. ASSUME NEW v \in Users, Stat(v)
       PROVE  MergedRight(u)'
  BY <1>5, <1>7, <1>14, <1>15 DEF Stat, Set, SetOnly, With
<1>16. ASSUME NEW v \in Users, Parse(v)
       PROVE  MergedRight(u)'
  BY <1>7, <1>14, <1>16 DEF Parse
<1>17. ASSUME NEW v \in Users, ReadTier(v)
       PROVE  MergedRight(u)'
  BY <1>4, <1>5, <1>17 DEF ReadTier, Ended, Set
<1>18. ASSUME NEW v \in Users, Dies(v)
       PROVE  MergedRight(u)'
  BY <1>5, <1>18 DEF Dies
<1>19. ASSUME NEW t \in {"repo", "user", "global"}, NEW doc \in Documents, Edit(t, doc)
       PROVE  MergedRight(u)'
  BY <1>1, <1>19 DEF Edit
<1>20. CASE Tick
  BY <1>1, <1>20 DEF Tick
<1> QED
  BY <1>2, <1>6, <1>9, <1>10, <1>12, <1>13, <1>15, <1>16, <1>17, <1>18, <1>19, <1>20 DEF Next

(***************************************************************************)
(* The invariant, and what follows from it.                                *)
(***************************************************************************)

LEMMA InitConfig == Init => IInv
<1> SUFFICES ASSUME Init
             PROVE  IInv
  OBVIOUS
<1> USE ConfigAssumption DEF Init
<1>1. PICK doc \in Documents : file = [config |-> [doc |-> doc, mtime |-> 0], tmp |-> NoFile]
  OBVIOUS
<1>2. FileShapes
  BY <1>1 DEF FileShapes, NoFile
<1>3. CommandShapes
  BY DEF CommandShapes, Tiers
<1>4. EntriesAreCounted
  BY <1>1 DEF EntriesAreCounted, Mtime, At, Idle, NoEntry
<1>5. WritersAreSetters
  BY DEF WritersAreSetters, Idle
<1>6. TmpIsOnesOwn
  BY <1>1 DEF TmpIsOnesOwn, FileIsWhole, Config, At, Idle
<1>7. MergedSoFar
  BY DEF MergedSoFar, At, Idle
<1> QED
  BY <1>2, <1>3, <1>4, <1>5, <1>6, <1>7 DEF IInv

(* Entries count what has been there, setters write what validates, and a
   load has merged what its tiers say, whatever core/config is asked to do.  *)
THEOREM ConfigInvariant == Spec => []IInv
<1>1. IInv /\ [Next]_cvars => IInv'
  <2> SUFFICES ASSUME IInv, [Next]_cvars
               PROVE  IInv'
    OBVIOUS
  <2>1. FileShapes' /\ CommandShapes'
    BY FileShapesStep, CommandShapesStep DEF IInv
  <2>2. EntriesAreCounted'
    BY <2>1, EntriesStep DEF IInv
  <2>3. WritersAreSetters'
    BY WritersStep DEF IInv
  <2>4. OneSetter => TmpIsOnesOwn'
    BY TmpStep DEF IInv
  <2>5. TmpIsOnesOwn'
    BY <2>4 DEF TmpIsOnesOwn
  <2>6. MergedSoFar'
    BY MergedStep DEF IInv
  <2> QED
    BY <2>1, <2>2, <2>3, <2>5, <2>6 DEF IInv
<1> QED
  BY <1>1, InitConfig, PTL DEF Spec

(* What a process takes from its cache is what the file says, as long as the
   clock of the file system tells two files apart, however many write.       *)
THEOREM CachesStayFresh == Spec => [](TypeOK /\ CacheIsFresh)
<1>1. IInv => TypeOK /\ CacheIsFresh
  <2> SUFFICES ASSUME IInv
               PROVE  TypeOK /\ CacheIsFresh
    OBVIOUS
  <2> USE ConfigAssumption DEF IInv, FileShapes, EntriesAreCounted
  <2>1. \A t \in DOMAIN versions : versions[t] \in 0..2
    OBVIOUS
  <2>2. Mtime \in 0..MaxTicks /\ Mtime <= clock /\ versions[Mtime] \in {1, 2}
    BY DEF Mtime
  <2>3. TypeOK
    BY <2>1, <2>2 DEF TypeOK, WritersAreSetters, CommandShapes, Tiers, At
  <2>4. CacheIsFresh
    BY <2>2 DEF CacheIsFresh
  <2> QED
    BY <2>3, <2>4
<1> QED
  BY <1>1, ConfigInvariant, PTL

(* Nobody finds half a config.json, where one process at a time writes.      *)
THEOREM ConfigStaysWhole ==
  ASSUME OneSetter
  PROVE  Spec => []ConfigIsWhole
<1>1. IInv => FileIsWhole
  BY DEF IInv, TmpIsOnesOwn
<1>2. FileIsWhole /\ TypeOK /\ CacheIsFresh => ConfigIsWhole
  BY DEF ConfigIsWhole
<1> QED
  BY <1>1, <1>2, ConfigInvariant, CachesStayFresh, PTL

(* A load answers with the most specific tier, among those that did not
   change meanwhile, and with what that tier says (hierarchy.py).            *)
THEOREM MostSpecificWins == Spec => []EffectiveIsMostSpecific
<1>1. IInv => EffectiveIsMostSpecific
  <2> SUFFICES ASSUME IInv, NEW u \in Users, At(u, "tiers"), user[u].tiers = <<>>
               PROVE  \A t \in steady[u] : \A p \in DOMAIN Doc(t) :
                        IsObject(Doc(t)) =>
                            /\ p \in DOMAIN user[u].from /\ Rank(user[u].from[p]) <= Rank(t)
                            /\ user[u].from[p] = t => user[u].merged[p] = Doc(t)[p]
    BY DEF EffectiveIsMostSpecific
  <2>1. MergedRight(u) /\ steady[u] \subseteq Tiers
    BY DEF IInv, MergedSoFar, CommandShapes
  <2>2. Done(<<>>) = Tiers
    BY DEF Done
  <2> QED
    BY <2>1, <2>2 DEF MergedRight
<1> QED
  BY <1>1, ConfigInvariant, PTL

(***************************************************************************)
(* Initialization, run and doctor: what a step changes.                    *)
(***************************************************************************)

(* The fields of a command.                                                 *)
LEMMA ProcessFields ==
  DOMAIN NoCommand = {"pc", "op", "id", "force", "policy", "only", "since", "slug", "ok", "rest", "project", "config",
                      "env", "report", "touched", "broken"}
BY DEF NoCommand

(* What a process reads of its own command after a step.                    *)
LEMMA GoesFields ==
  ASSUME SetupIInv, NEW p \in Procs, NEW new, Goes(p, new)
  PROVE  /\ DOMAIN proc' = Procs /\ DOMAIN proc'[p] = DOMAIN NoCommand
         /\ \A w \in Procs : w # p => proc'[w] = proc[w]
         /\ \A f \in DOMAIN NoCommand : proc'[p][f] = IF f \in DOMAIN new THEN new[f] ELSE proc[p][f]
<1>1. DOMAIN proc = Procs /\ DOMAIN proc[p] = DOMAIN NoCommand BY DEF SetupIInv, Fits, CommandOK
<1> QED BY <1>1 DEF Goes, Updated

(* Nothing that is in place goes away.                                      *)
Grows ==
    /\ disk.root => disk'.root
    /\ disk.meta_dir = "dir" => disk'.meta_dir = "dir"
    /\ disk.ignore => disk'.ignore
    /\ disk.meta.kind = "ok" => disk'.meta.kind = "ok"
    /\ disk.identity \in Slugs => disk'.identity \in Slugs
    /\ disk.config.kind # None => disk'.config.kind # None
    /\ Loads(disk.config) => Loads(disk'.config)
    /\ FileLoads(disk.config) => FileLoads(disk'.config)
    /\ InSchema(disk.config) => InSchema(disk'.config)
    /\ disk.db => disk'.db
    /\ disk.seeds \subseteq disk'.seeds

(* What another process did, or that an identity was forced, changes no more
   of a command than these two fields.                                      *)
Spared(w) ==
    /\ DOMAIN proc'[w] = DOMAIN NoCommand
    /\ \A f \in DOMAIN NoCommand \ {"touched", "broken"} : proc'[w][f] = proc[w][f]
    /\ proc[w].touched => proc'[w].touched
    /\ proc'[w].broken => proc[w].broken /\ ~FileLoads(disk'.config)

(* The part of the type invariant that is about the disk.                   *)
DiskTyped ==
    /\ DOMAIN disk = DOMAIN Bare
    /\ disk.identity \in Slugs \cup {None, Bad}
    /\ disk.meta \in [kind : {None, "ok", Bad}, since : 0..MaxStarts] /\ (disk.meta.kind = "ok" => disk.meta.since > 0)
    /\ disk.config \in ConfigFiles /\ disk.seeds \subseteq Templates

(* A command that was only spared fits the disk that has grown.               *)
LEMMA SparedFits ==
  ASSUME NEW w \in Procs, Fits(proc[w], disk), Spared(w), Grows
  PROVE  Fits(proc'[w], disk')
<1>1. /\ proc'[w].pc = proc[w].pc /\ proc'[w].op = proc[w].op /\ proc'[w].id = proc[w].id
      /\ proc'[w].policy = proc[w].policy /\ proc'[w].since = proc[w].since /\ proc'[w].slug = proc[w].slug
      /\ proc'[w].ok = proc[w].ok /\ proc'[w].rest = proc[w].rest /\ proc'[w].project = proc[w].project
      /\ proc'[w].config = proc[w].config /\ proc'[w].report = proc[w].report /\ proc'[w].only = proc[w].only
      /\ DOMAIN proc'[w] = DOMAIN NoCommand
  BY ProcessFields DEF Spared
<1> DEFINE c == proc[w]
           n == proc'[w]
<1>2. CommandOK(n) BY <1>1 DEF CommandOK, Fits
<1>3. PiecesInPlace(n, disk')
  <2> SUFFICES ASSUME n.op = "init", ~n.touched PROVE PiecesInPlace(n, disk') BY DEF PiecesInPlace
  <2>1. PiecesInPlace(c, disk) /\ c.op = "init" /\ ~c.touched BY <1>1 DEF Fits, Spared
  <2>2. Unseeded(n) = Unseeded(c) BY <1>1 DEF Unseeded
  <2>3. \A ahead : Made(n, ahead) <=> Made(c, ahead) BY <1>1 DEF Made
  <2> HIDE DEF c, n
  <2>4. n.policy = c.policy /\ (n.ok <=> c.ok) BY <1>1 DEF c, n
  <2> QED BY <2>1, <2>2, <2>3, <2>4 DEF PiecesInPlace, Treated, Grows
<1>4. BrokenStaysInSight(n, disk')
  BY <1>1 DEF BrokenStaysInSight, AsksForConfig, Fits, Spared, Reports
<1> QED BY <1>2, <1>3, <1>4 DEF Fits

(* A step of p keeps the invariant when its own command and the disk do.    *)
LEMMA OwnStep ==
  ASSUME SetupIInv, NEW p \in Procs, DOMAIN proc' = Procs, Grows, DiskTyped', Fits(proc'[p], disk'),
         DOMAIN setup_spent' = DOMAIN setup_spent, setup_spent'.commands \in 1..MaxStarts,
         setup_spent'.edits = setup_spent.edits,
         \A w \in Procs : w # p => Spared(w)
  PROVE  SetupIInv'
<1>1. ASSUME NEW w \in Procs PROVE Fits(proc'[w], disk')
  <2>1. CASE w = p BY <2>1
  <2>2. CASE w # p BY <2>2, SparedFits DEF SetupIInv
  <2> QED BY <2>1, <2>2
<1>2. SetupTypeOK' BY <1>1 DEF SetupTypeOK, DiskTyped, Fits, CommandOK
<1>3. StartsOK' BY SetupAssumption DEF SetupIInv, StartsOK
<1> QED BY <1>1, <1>2, <1>3 DEF SetupIInv

(* Who is at work has been counted.                                         *)
LEMMA Counted ==
  ASSUME SetupIInv, NEW p \in Procs, proc[p].pc # "idle", setup_spent'.commands = setup_spent.commands
  PROVE  setup_spent'.commands \in 1..MaxStarts
<1>1. setup_spent.commands > 0 BY DEF SetupIInv, StartsOK, AtWork
<1> QED BY <1>1, SetupAssumption DEF SetupIInv, StartsOK

(* A command that nobody touched was spared.                                  *)
LEMMA StillSpared ==
  ASSUME SetupIInv, NEW w \in Procs, proc'[w] = proc[w], FileLoads(disk.config) <=> FileLoads(disk'.config)
  PROVE  Spared(w)
BY DEF SetupIInv, Fits, CommandOK, BrokenStaysInSight, Spared

(* Where a process goes on, and nothing else of its command.                *)
LEMMA OnlyPc ==
  ASSUME SetupIInv, NEW p \in Procs, NEW next, Goes(p, [pc |-> next])
  PROVE  /\ proc'[p].pc = next /\ proc'[p].op = proc[p].op /\ proc'[p].id = proc[p].id
         /\ proc'[p].force = proc[p].force /\ proc'[p].only = proc[p].only
         /\ proc'[p].policy = proc[p].policy /\ proc'[p].since = proc[p].since /\ proc'[p].slug = proc[p].slug
         /\ proc'[p].ok = proc[p].ok /\ proc'[p].rest = proc[p].rest /\ proc'[p].project = proc[p].project
         /\ proc'[p].config = proc[p].config /\ proc'[p].report = proc[p].report
         /\ proc'[p].touched = proc[p].touched /\ proc'[p].broken = proc[p].broken
         /\ DOMAIN proc'[p] = DOMAIN NoCommand /\ DOMAIN proc' = Procs
         /\ \A w \in Procs : w # p => proc'[w] = proc[w]
BY GoesFields, ProcessFields

(***************************************************************************)
(* Initialization, run and doctor: one lemma for each action.              *)
(***************************************************************************)

(* A command ends, or goes on as a run, when a part of its init has failed. *)
LEMMA OutcomeFits ==
  ASSUME SetupIInv, NEW p \in Procs, proc[p].op \in {"init", "run"}, UNCHANGED disk, Outcome(p, FALSE)
  PROVE  /\ Fits(proc'[p], disk') /\ DOMAIN proc' = Procs
         /\ \A w \in Procs : w # p => proc'[w] = proc[w]
<1>0. Fits(proc[p], disk) BY DEF SetupIInv
<1>1. CASE proc[p].op = "run"
  <2>1. Goes(p, [pc |-> "context"]) BY <1>1 DEF Outcome
  <2> QED BY <1>0, <1>1, <2>1, OnlyPc DEF Fits, CommandOK, PiecesInPlace, BrokenStaysInSight, Ops
<1>2. CASE proc[p].op = "init"
  <2> DEFINE new == [pc |-> "done", ok |-> FALSE]
  <2>1. Goes(p, new) BY <1>2 DEF Outcome, Exits
  <2>2. DOMAIN new = {"pc", "ok"} /\ new["pc"] = "done" /\ new["ok"] = FALSE OBVIOUS
  <2> HIDE DEF new
  <2>3. /\ proc'[p].pc = "done" /\ proc'[p].op = proc[p].op /\ proc'[p].id = proc[p].id
        /\ proc'[p].since = proc[p].since /\ proc'[p].project = proc[p].project /\ proc'[p].config = proc[p].config
        /\ proc'[p].policy = proc[p].policy /\ proc'[p].broken = proc[p].broken /\ DOMAIN proc'[p] = DOMAIN NoCommand /\ DOMAIN proc' = Procs
        /\ \A w \in Procs : w # p => proc'[w] = proc[w]
        /\ proc'[p].ok = FALSE
    BY <2>1, <2>2, GoesFields, ProcessFields
  <2>4. ~proc'[p].ok BY <2>3
  <2> QED BY <1>0, <1>2, <2>3, <2>4
          DEF Fits, CommandOK, PiecesInPlace, Made, BrokenStaysInSight, Ops,
              SeedsAhead, DatabaseAhead, ConfigAhead, IdentityAhead, MetaAhead, IgnoreAhead, DirsAhead
<1> QED BY <1>1, <1>2

(* A part of init that makes something, and goes on with the next.          *)
LEMMA EnsureRootFits ==
  ASSUME SetupIInv, NEW p \in Procs, EnsureRoot(p)
  PROVE  SetupIInv'
<1>0. Fits(proc[p], disk) /\ DiskTyped BY DEF SetupIInv, SetupTypeOK, DiskTyped
<1>1. Goes(p, [pc |-> "meta_dir"]) /\ proc[p].pc = "root" /\ setup_spent' = setup_spent
  BY DEF EnsureRoot, AtWork
<1>2. Grows /\ DiskTyped' /\ disk'.config = disk.config /\ disk'.root
  BY <1>0 DEF EnsureRoot, Grows, DiskTyped, Bare
<1>3. Fits(proc'[p], disk')
  <2>1. CommandOK(proc'[p]) BY <1>0, <1>1, <1>2, OnlyPc DEF Fits, CommandOK, Ops, DirsAhead
  <2>2. PiecesInPlace(proc'[p], disk')
    BY <1>0, <1>1, <1>2, OnlyPc
       DEF Fits, PiecesInPlace, Grows, Made, DirsAhead, IgnoreAhead, MetaAhead, IdentityAhead, ConfigAhead,
           DatabaseAhead, SeedsAhead
  <2>3. BrokenStaysInSight(proc'[p], disk') BY <1>0, <1>1, <1>2, OnlyPc
                                            DEF Fits, BrokenStaysInSight, CommandOK, Ops, DirsAhead
  <2> QED BY <2>1, <2>2, <2>3 DEF Fits
<1> QED BY <1>1, <1>2, <1>3, OnlyPc, OwnStep, StillSpared, Counted

(* The directories, unless a file is in their place.                          *)
LEMMA EnsureSubdirsFits ==
  ASSUME SetupIInv, NEW p \in Procs, EnsureSubdirs(p)
  PROVE  SetupIInv'
<1>0. Fits(proc[p], disk) /\ DiskTyped /\ proc[p].pc = "meta_dir" /\ setup_spent' = setup_spent
  BY DEF SetupIInv, SetupTypeOK, DiskTyped, EnsureSubdirs, AtWork
<1>1. CASE disk.meta_dir = "file"
  <2>1. Outcome(p, FALSE) /\ disk' = disk BY <1>1 DEF EnsureSubdirs
  <2>2. proc[p].op \in {"init", "run"} BY <1>0 DEF Fits, CommandOK, Ops, SeedsAhead, DatabaseAhead, ConfigAhead,
                                                   IdentityAhead, MetaAhead, IgnoreAhead, DirsAhead
  <2>3. Grows /\ DiskTyped' BY <1>0, <2>1 DEF Grows, DiskTyped
  <2> QED BY <1>0, <2>1, <2>2, <2>3, OutcomeFits, OwnStep, StillSpared, Counted
<1>2. CASE ~(disk.meta_dir = "file")
  <2>1. Goes(p, [pc |-> "ignore"]) BY <1>2 DEF EnsureSubdirs
  <2>2. Grows /\ DiskTyped' /\ disk'.config = disk.config /\ disk'.meta_dir = "dir"
    BY <1>0, <1>2 DEF EnsureSubdirs, Grows, DiskTyped, Bare
  <2>3. Fits(proc'[p], disk')
    <3>1. CommandOK(proc'[p]) BY <1>0, <2>1, <2>2, OnlyPc DEF Fits, CommandOK, Ops, DirsAhead
    <3>2. PiecesInPlace(proc'[p], disk')
      BY <1>0, <2>1, <2>2, OnlyPc
         DEF Fits, PiecesInPlace, Grows, Made, DirsAhead, IgnoreAhead, MetaAhead, IdentityAhead, ConfigAhead,
             DatabaseAhead, SeedsAhead
    <3>3. BrokenStaysInSight(proc'[p], disk') BY <1>0, <2>1, <2>2, OnlyPc
                                              DEF Fits, BrokenStaysInSight, CommandOK, Ops, DirsAhead
    <3> QED BY <3>1, <3>2, <3>3 DEF Fits
  <2> QED BY <1>0, <2>1, <2>2, <2>3, OnlyPc, OwnStep, StillSpared, Counted
<1> QED BY <1>1, <1>2

(* The ignore file.                                                           *)
LEMMA SeedGitignoreFits ==
  ASSUME SetupIInv, NEW p \in Procs, SeedGitignore(p)
  PROVE  SetupIInv'
<1>0. Fits(proc[p], disk) /\ DiskTyped BY DEF SetupIInv, SetupTypeOK, DiskTyped
<1>1. Goes(p, [pc |-> "meta"]) /\ proc[p].pc = "ignore" /\ setup_spent' = setup_spent
  BY DEF SeedGitignore, AtWork
<1>2. Grows /\ DiskTyped' /\ disk'.config = disk.config /\ disk'.ignore
  BY <1>0 DEF SeedGitignore, Grows, DiskTyped, Bare
<1>3. Fits(proc'[p], disk')
  <2>1. CommandOK(proc'[p]) BY <1>0, <1>1, <1>2, OnlyPc DEF Fits, CommandOK, Ops, DirsAhead
  <2>2. PiecesInPlace(proc'[p], disk')
    BY <1>0, <1>1, <1>2, OnlyPc
       DEF Fits, PiecesInPlace, Grows, Made, DirsAhead, IgnoreAhead, MetaAhead, IdentityAhead, ConfigAhead,
           DatabaseAhead, SeedsAhead
  <2>3. BrokenStaysInSight(proc'[p], disk') BY <1>0, <1>1, <1>2, OnlyPc
                                            DEF Fits, BrokenStaysInSight, CommandOK, Ops, DirsAhead
  <2> QED BY <2>1, <2>2, <2>3 DEF Fits
<1> QED BY <1>1, <1>2, <1>3, OnlyPc, OwnStep, StillSpared, Counted

(* Only its first date is lost on a file that was not whole.                *)
LEMMA WriteMetaFits ==
  ASSUME SetupIInv, NEW p \in Procs, WriteMeta(p)
  PROVE  SetupIInv'
<1>0. Fits(proc[p], disk) /\ DiskTyped /\ proc[p].pc = "meta" /\ setup_spent' = setup_spent
  BY DEF SetupIInv, SetupTypeOK, DiskTyped, WriteMeta, AtWork
<1>1. CASE ~disk.root \/ disk.meta_dir # "dir"
  <2>1. Outcome(p, FALSE) /\ disk' = disk BY <1>1 DEF WriteMeta
  <2>2. proc[p].op \in {"init", "run"} BY <1>0 DEF Fits, CommandOK, Ops, SeedsAhead, DatabaseAhead, ConfigAhead,
                                                   IdentityAhead, MetaAhead, IgnoreAhead, DirsAhead
  <2>3. Grows /\ DiskTyped' BY <1>0, <2>1 DEF Grows, DiskTyped
  <2> QED BY <1>0, <2>1, <2>2, <2>3, OutcomeFits, OwnStep, StillSpared, Counted
<1>2. CASE ~(~disk.root \/ disk.meta_dir # "dir")
  <2>1. Goes(p, [pc |-> "identity"]) BY <1>2 DEF WriteMeta
  <2>2. setup_spent.commands \in 1..MaxStarts BY <1>0, Counted
  <2>3. Since(p) \in 1..MaxStarts BY <1>0, <2>2, SetupAssumption DEF Since, Fits, CommandOK
  <2>4. disk' = [disk EXCEPT !.meta = [kind |-> "ok", since |-> Since(p)]] BY <1>2 DEF WriteMeta
  <2>5. Grows /\ DiskTyped' /\ disk'.config = disk.config /\ disk'.meta.kind = "ok"
    BY <1>0, <2>3, <2>4 DEF Grows, DiskTyped, Bare, NoMeta
  <2>6. Fits(proc'[p], disk')
    <3>1. CommandOK(proc'[p]) BY <1>0, <2>1, <2>5, OnlyPc DEF Fits, CommandOK, Ops, DirsAhead
    <3>2. PiecesInPlace(proc'[p], disk')
      BY <1>0, <2>1, <2>5, OnlyPc
         DEF Fits, PiecesInPlace, Grows, Made, DirsAhead, IgnoreAhead, MetaAhead, IdentityAhead, ConfigAhead,
             DatabaseAhead, SeedsAhead
    <3>3. BrokenStaysInSight(proc'[p], disk') BY <1>0, <2>1, <2>5, OnlyPc
                                              DEF Fits, BrokenStaysInSight, CommandOK, Ops, DirsAhead
    <3> QED BY <3>1, <3>2, <3>3 DEF Fits
  <2> QED BY <1>0, <2>1, <2>5, <2>6, OnlyPc, OwnStep, StillSpared, Counted
<1> QED BY <1>1, <1>2

(* What no step of a command changes of it, nor of the others.              *)
LEMMA KeptFields ==
  ASSUME SetupIInv, NEW p \in Procs, NEW new, Goes(p, new),
         DOMAIN new \subseteq {"pc", "since", "slug", "ok", "rest", "project", "report"}
  PROVE  /\ proc'[p].op = proc[p].op /\ proc'[p].id = proc[p].id /\ proc'[p].force = proc[p].force
         /\ proc'[p].only = proc[p].only /\ proc'[p].policy = proc[p].policy /\ proc'[p].config = proc[p].config
         /\ proc'[p].touched = proc[p].touched /\ proc'[p].broken = proc[p].broken
         /\ DOMAIN proc'[p] = DOMAIN NoCommand /\ DOMAIN proc' = Procs
         /\ \A w \in Procs : w # p => proc'[w] = proc[w]
BY GoesFields, ProcessFields

(* A step that leaves the disk alone.                                       *)
LEMMA QuietStep ==
  ASSUME SetupIInv, NEW p \in Procs, DOMAIN proc' = Procs, UNCHANGED disk, Fits(proc'[p], disk),
         proc[p].pc # "idle", UNCHANGED setup_spent, \A w \in Procs : w # p => proc'[w] = proc[w]
  PROVE  SetupIInv'
<1>1. Grows /\ DiskTyped' BY DEF SetupIInv, SetupTypeOK, Grows, DiskTyped
<1>2. Fits(proc'[p], disk') OBVIOUS
<1> QED BY <1>1, <1>2, OwnStep, StillSpared, Counted

(* A run finds out whether it has to initialize.                              *)
LEMMA LazyFits ==
  ASSUME SetupIInv, NEW p \in Procs, Lazy(p)
  PROVE  SetupIInv'
<1>0. Fits(proc[p], disk) /\ proc[p].pc = "lazy" /\ setup_spent' = setup_spent /\ disk' = disk
  BY DEF SetupIInv, Lazy, AtWork
<1>1. PICK next \in {"preflight", "context"} : Goes(p, [pc |-> next]) BY DEF Lazy
<1>2. Grows BY <1>0 DEF Grows
<1>3. Fits(proc'[p], disk')
  <2>1. CommandOK(proc'[p]) BY <1>0, <1>1, <1>2, OnlyPc DEF Fits, CommandOK, Ops, DirsAhead
  <2>2. PiecesInPlace(proc'[p], disk')
    BY <1>0, <1>1, <1>2, OnlyPc
       DEF Fits, PiecesInPlace, Grows, Made, DirsAhead, IgnoreAhead, MetaAhead, IdentityAhead, ConfigAhead,
           DatabaseAhead, SeedsAhead
  <2>3. BrokenStaysInSight(proc'[p], disk') BY <1>0, <1>1, <1>2, OnlyPc
                                            DEF Fits, BrokenStaysInSight, CommandOK, Ops, DirsAhead
  <2> QED BY <2>1, <2>2, <2>3 DEF Fits
<1> QED BY <1>0, <1>1, <1>3, OnlyPc, QuietStep

(* The first date is read before anything is made.                            *)
LEMMA PreflightFits ==
  ASSUME SetupIInv, NEW p \in Procs, Preflight(p)
  PROVE  SetupIInv'
<1>0. Fits(proc[p], disk) /\ DiskTyped /\ proc[p].pc = "preflight" /\ setup_spent' = setup_spent /\ disk' = disk
  BY DEF SetupIInv, Preflight, AtWork, SetupTypeOK, DiskTyped
<1>1. CASE ~disk.git
  <2>1. Outcome(p, FALSE) BY <1>1 DEF Preflight
  <2>2. proc[p].op \in {"init", "run"} BY <1>0 DEF Fits, CommandOK, Ops, DirsAhead
  <2> QED BY <1>0, <2>1, <2>2, OutcomeFits, QuietStep
<1>2. CASE disk.git
  <2> DEFINE since == IF disk.meta.kind = "ok" THEN disk.meta.since ELSE 0
             new == [pc |-> "root", since |-> since]
  <2>1. Goes(p, new) BY <1>2 DEF Preflight
  <2>2. since \in 0..MaxStarts BY <1>0, SetupAssumption DEF DiskTyped
  <2>3. DOMAIN new = {"pc", "since"} /\ new["pc"] = "root" /\ new["since"] = since OBVIOUS
  <2> HIDE DEF new, since
  <2>4. /\ proc'[p].pc = "root" /\ proc'[p].since = since
        /\ proc'[p].project = proc[p].project
    BY <2>1, <2>3, GoesFields, ProcessFields
  <2>5. DOMAIN new \subseteq {"pc", "since", "slug", "ok", "rest", "project", "report"} BY <2>3
  <2>6. Grows BY <1>0 DEF Grows
  <2>7. Fits(proc'[p], disk')
    <3>1. CommandOK(proc'[p]) BY <1>0, <2>1, <2>2, <2>4, <2>5, <2>6, KeptFields DEF Fits, CommandOK, Ops, DirsAhead
    <3>2. PiecesInPlace(proc'[p], disk')
      BY <1>0, <2>1, <2>2, <2>4, <2>5, <2>6, KeptFields
         DEF Fits, PiecesInPlace, Grows, Made, DirsAhead, IgnoreAhead, MetaAhead, IdentityAhead, ConfigAhead,
             DatabaseAhead, SeedsAhead
    <3>3. BrokenStaysInSight(proc'[p], disk') BY <1>0, <2>1, <2>2, <2>4, <2>5, <2>6, KeptFields
                                              DEF Fits, BrokenStaysInSight, CommandOK, Ops, DirsAhead
    <3> QED BY <3>1, <3>2, <3>3 DEF Fits
  <2> QED BY <1>0, <2>1, <2>5, <2>7, KeptFields, QuietStep
<1> QED BY <1>1, <1>2

(* An identity is looked for, and made up where there is none.              *)
LEMMA ProvisionFits ==
  ASSUME SetupIInv, NEW p \in Procs, Provision(p)
  PROVE  SetupIInv'
<1>0. /\ Fits(proc[p], disk) /\ DiskTyped /\ proc[p].pc = "identity"
      /\ setup_spent' = setup_spent /\ disk' = disk
  BY DEF SetupIInv, Provision, AtWork, SetupTypeOK, DiskTyped
<1>g. Grows BY <1>0 DEF Grows
<1>1. CASE Outcome(p, FALSE)
  <2>2. proc[p].op \in {"init", "run"} BY <1>0 DEF Fits, CommandOK, Ops, DirsAhead
  <2> QED BY <1>0, <1>1, <2>2, OutcomeFits, QuietStep
<1>2. CASE disk.identity \in Slugs /\ Goes(p, [pc |-> "config"])
  <2>1. Fits(proc'[p], disk')
    <3>1. CommandOK(proc'[p]) BY <1>0, <1>g, <1>2, OnlyPc DEF Fits, CommandOK, Ops, DirsAhead
    <3>2. PiecesInPlace(proc'[p], disk')
      BY <1>0, <1>g, <1>2, OnlyPc
         DEF Fits, PiecesInPlace, Grows, Made, DirsAhead, IgnoreAhead, MetaAhead, IdentityAhead, ConfigAhead,
             DatabaseAhead, SeedsAhead
    <3>3. BrokenStaysInSight(proc'[p], disk') BY <1>0, <1>g, <1>2, OnlyPc
                                              DEF Fits, BrokenStaysInSight, CommandOK, Ops, DirsAhead
    <3> QED BY <3>1, <3>2, <3>3 DEF Fits
  <2> QED BY <1>0, <1>2, <2>1, OnlyPc, QuietStep
<1>3. ASSUME NEW slug \in Slugs, Goes(p, [pc |-> "save", slug |-> slug]) PROVE SetupIInv'
  <2> DEFINE new == [pc |-> "save", slug |-> slug]
  <2>1. Goes(p, new) BY <1>3
  <2>3. DOMAIN new = {"pc", "slug"} /\ new["pc"] = "save" /\ new["slug"] = slug OBVIOUS
  <2> HIDE DEF new
  <2>4. /\ proc'[p].pc = "save" /\ proc'[p].slug = slug
        /\ proc'[p].project = proc[p].project /\ proc'[p].since = proc[p].since
    BY <2>1, <2>3, GoesFields, ProcessFields
  <2>5. DOMAIN new \subseteq {"pc", "since", "slug", "ok", "rest", "project", "report"} BY <2>3
  <2>7. Fits(proc'[p], disk')
    <3>1. CommandOK(proc'[p]) BY <1>0, <1>g, <2>1, <2>4, <2>5, KeptFields DEF Fits, CommandOK, Ops, DirsAhead
    <3>2. PiecesInPlace(proc'[p], disk')
      BY <1>0, <1>g, <2>1, <2>4, <2>5, KeptFields
         DEF Fits, PiecesInPlace, Grows, Made, DirsAhead, IgnoreAhead, MetaAhead, IdentityAhead, ConfigAhead,
             DatabaseAhead, SeedsAhead
    <3>3. BrokenStaysInSight(proc'[p], disk') BY <1>0, <1>g, <2>1, <2>4, <2>5, KeptFields
                                              DEF Fits, BrokenStaysInSight, CommandOK, Ops, DirsAhead
    <3> QED BY <3>1, <3>2, <3>3 DEF Fits
  <2> QED BY <1>0, <2>1, <2>5, <2>7, KeptFields, QuietStep
<1>4. CASE proc[p].id = Bad BY <1>1, <1>4 DEF Provision
<1>5. CASE proc[p].id # Bad /\ MustCreate(p)
  <2>1. proc[p].id \in Slugs \cup {None} BY <1>0, <1>5 DEF Fits, CommandOK
  <2>2. \E slug \in Slugs : Goes(p, [pc |-> "save", slug |-> slug]) BY <1>5, <2>1 DEF Provision
  <2> QED BY <1>3, <2>2
<1>6. CASE proc[p].id # Bad /\ ~MustCreate(p) /\ disk.identity = Bad BY <1>1, <1>6 DEF Provision
<1>7. CASE proc[p].id # Bad /\ ~MustCreate(p) /\ disk.identity # Bad
  <2>1. disk.identity \in Slugs BY <1>0, <1>7 DEF DiskTyped, MustCreate
  <2>2. Goes(p, [pc |-> "config"]) BY <1>7 DEF Provision
  <2> QED BY <1>2, <2>1, <2>2
<1> QED BY <1>4, <1>5, <1>6, <1>7

(* A command ends.                                                          *)
LEMMA ExitFields ==
  ASSUME SetupIInv, NEW p \in Procs, NEW ok, Exits(p, ok)
  PROVE  /\ proc'[p].pc = "done" /\ proc'[p].ok = ok /\ proc'[p].op = proc[p].op /\ proc'[p].id = proc[p].id
         /\ proc'[p].force = proc[p].force /\ proc'[p].only = proc[p].only /\ proc'[p].policy = proc[p].policy /\ proc'[p].config = proc[p].config
         /\ proc'[p].since = proc[p].since /\ proc'[p].project = proc[p].project /\ proc'[p].report = proc[p].report
         /\ proc'[p].touched = proc[p].touched /\ proc'[p].broken = proc[p].broken
         /\ DOMAIN proc'[p] = DOMAIN NoCommand /\ DOMAIN proc' = Procs
         /\ \A w \in Procs : w # p => proc'[w] = proc[w]
<1> DEFINE new == [pc |-> "done", ok |-> ok]
<1>1. Goes(p, new) BY DEF Exits
<1>2. DOMAIN new = {"pc", "ok"} /\ new["pc"] = "done" /\ new["ok"] = ok OBVIOUS
<1> HIDE DEF new
<1> QED BY <1>1, <1>2, GoesFields, ProcessFields

(* An init that fails promises nothing, and a run no more than a run does.  *)
LEMMA FailedFits ==
  ASSUME SetupIInv, NEW p \in Procs, proc[p].op \in {"init", "run"}, Exits(p, FALSE)
  PROVE  Fits(proc'[p], disk)
<1>0. Fits(proc[p], disk) BY DEF SetupIInv
<1>1. ~proc'[p].ok BY ExitFields
<1>2. CommandOK(proc'[p]) BY <1>0, ExitFields DEF Fits, CommandOK, Ops
<1>3. PiecesInPlace(proc'[p], disk) BY <1>1, ExitFields
      DEF PiecesInPlace, Made, DirsAhead, IgnoreAhead, MetaAhead, IdentityAhead, ConfigAhead, DatabaseAhead,
          SeedsAhead
<1>4. BrokenStaysInSight(proc'[p], disk) BY <1>0, ExitFields DEF Fits, BrokenStaysInSight
<1> QED BY <1>2, <1>3, <1>4 DEF Fits

(* Who saves an identity spares what the others have found in place.        *)
LEMMA SaveIdentityFits ==
  ASSUME SetupIInv, NEW p \in Procs, SaveIdentity(p)
  PROVE  SetupIInv'
<1>0. /\ Fits(proc[p], disk) /\ DiskTyped /\ proc[p].pc = "save" /\ proc[p].slug \in Slugs
      /\ setup_spent' = setup_spent
  BY DEF SetupIInv, SaveIdentity, AtWork, SetupTypeOK, DiskTyped, Fits, CommandOK
<1>1. disk' = [disk EXCEPT !.root = TRUE, !.identity = proc[p].slug] BY DEF SaveIdentity
<1>2. Grows /\ DiskTyped' /\ disk'.config = disk.config /\ disk'.identity \in Slugs
  BY <1>0, <1>1 DEF Grows, DiskTyped, Bare
<1> DEFINE mine == [pc |-> "config"]
           others(q) == [touched |-> proc[q].touched \/ (Forced(p) /\ ~AtWork(q, "idle"))]
<1>3. proc' = [q \in Procs |-> Updated(proc[q], IF q = p THEN mine ELSE others(q))] BY DEF SaveIdentity
<1>4. \A q \in Procs : DOMAIN proc[q] = DOMAIN NoCommand BY DEF SetupIInv, Fits, CommandOK
<1>5. DOMAIN mine = {"pc"} /\ mine.pc = "config" OBVIOUS
<1>6. \A q : DOMAIN others(q) = {"touched"}
      /\ others(q).touched = (proc[q].touched \/ (Forced(p) /\ ~AtWork(q, "idle"))) BY Zenon
<1> HIDE DEF mine, others
<1>7. /\ DOMAIN proc'[p] = DOMAIN NoCommand
      /\ \A f \in DOMAIN NoCommand : proc'[p][f] = IF f = "pc" THEN "config" ELSE proc[p][f]
  BY <1>3, <1>4, <1>5 DEF Updated
<1>8. /\ proc'[p].pc = "config" /\ proc'[p].op = proc[p].op /\ proc'[p].id = proc[p].id
      /\ proc'[p].policy = proc[p].policy /\ proc'[p].config = proc[p].config /\ proc'[p].since = proc[p].since
      /\ proc'[p].project = proc[p].project
      /\ proc'[p].touched = proc[p].touched /\ proc'[p].broken = proc[p].broken
  BY <1>7, ProcessFields
<1>9. Fits(proc'[p], disk')
  <2>1. CommandOK(proc'[p]) BY <1>0, <1>2, <1>7, <1>8 DEF Fits, CommandOK, Ops, DirsAhead
  <2>2. PiecesInPlace(proc'[p], disk')
    BY <1>0, <1>2, <1>7, <1>8
       DEF Fits, PiecesInPlace, Grows, Made, DirsAhead, IgnoreAhead, MetaAhead, IdentityAhead, ConfigAhead,
           DatabaseAhead, SeedsAhead
  <2>3. BrokenStaysInSight(proc'[p], disk') BY <1>0, <1>2, <1>7, <1>8
                                            DEF Fits, BrokenStaysInSight, CommandOK, Ops, DirsAhead
  <2> QED BY <2>1, <2>2, <2>3 DEF Fits
<1>10. ASSUME NEW w \in Procs, w # p PROVE Spared(w)
  <2>1. proc'[w] = Updated(proc[w], others(w)) BY <1>3, <1>10
  <2>2. /\ DOMAIN proc'[w] = DOMAIN NoCommand
        /\ \A f \in DOMAIN NoCommand \ {"touched"} : proc'[w][f] = proc[w][f]
        /\ proc'[w].touched = others(w).touched
    BY <2>1, <1>4, <1>6, ProcessFields DEF Updated
  <2>3. proc[w].touched => proc'[w].touched BY <2>2, <1>6
  <2>4. proc'[w].broken = proc[w].broken BY <2>2, ProcessFields
  <2>5. proc[w].broken => ~FileLoads(disk.config) BY DEF SetupIInv, Fits, BrokenStaysInSight
  <2> QED BY <1>2, <2>2, <2>3, <2>4, <2>5 DEF Spared
<1> QED BY <1>0, <1>2, <1>3, <1>9, <1>10, OwnStep, Counted

(* What init leaves as config.json is what its policy promises.             *)
LEMMA GenerateConfigFits ==
  ASSUME SetupIInv, NEW p \in Procs, GenerateConfig(p)
  PROVE  SetupIInv'
<1>0. /\ Fits(proc[p], disk) /\ DiskTyped /\ proc[p].pc = "config" /\ setup_spent' = setup_spent
  BY DEF SetupIInv, GenerateConfig, AtWork, SetupTypeOK, DiskTyped
<1>r. CASE Refused(p)
  <2>1. Outcome(p, FALSE) /\ disk' = disk BY <1>r DEF GenerateConfig
  <2>2. proc[p].op \in {"init", "run"} BY <1>0 DEF Fits, CommandOK, Ops, DirsAhead
  <2> QED BY <1>0, <2>1, <2>2, OutcomeFits, QuietStep
<1>w. CASE ~Refused(p)
  <2>1. disk' = [disk EXCEPT !.config = Generated(p)] BY <1>w DEF GenerateConfig
  <2>2. /\ Generated(p).kind # None \/ disk.config.kind = None
        /\ Generated(p).kind # None
        /\ Generated(p) \in ConfigFiles
        /\ Treated(proc[p].policy, Generated(p))
        /\ Loads(disk.config) => Loads(Generated(p))
        /\ FileLoads(disk.config) => FileLoads(Generated(p))
        /\ InSchema(disk.config) => InSchema(Generated(p))
    <3>1. disk.config \in ConfigFiles /\ proc[p].policy \in Policies BY <1>0 DEF DiskTyped, Fits, CommandOK
    <3>2. CASE disk.config.kind = None \/ proc[p].policy = "overwrite"
      BY <3>2, SetupAssumption DEF Generated, DefaultConfig, NoConfig, Treated, InSchema, FileLoads, Loads, None, ConfigFiles
    <3>3. CASE ~(disk.config.kind = None \/ proc[p].policy = "overwrite") /\ proc[p].policy = "repair"
      BY <1>w, <3>1, <3>3 DEF Generated, Refused, Treated, InSchema, FileLoads, Loads, None, ConfigFiles
    <3>4. CASE ~(disk.config.kind = None \/ proc[p].policy = "overwrite") /\ proc[p].policy = "skip"
      BY <3>1, <3>4 DEF Generated, Refused, Treated, InSchema, FileLoads, Loads, None, ConfigFiles
    <3> QED BY <3>1, <3>2, <3>3, <3>4 DEF Policies
  <2>3. Grows /\ DiskTyped' /\ disk'.config = Generated(p)
    BY <1>0, <2>1, <2>2 DEF Grows, DiskTyped, Bare
  <2> DEFINE mine == [pc |-> "db"]
             others(q) == [broken |-> proc[q].broken /\ ~FileLoads(Generated(p))]
  <2>4. proc' = [q \in Procs |-> Updated(proc[q], IF q = p THEN mine ELSE others(q))]
    BY <1>w DEF GenerateConfig
  <2>5. \A q \in Procs : DOMAIN proc[q] = DOMAIN NoCommand BY DEF SetupIInv, Fits, CommandOK
  <2>6. DOMAIN mine = {"pc"} /\ mine.pc = "db" OBVIOUS
  <2>7. \A q : DOMAIN others(q) = {"broken"} /\ others(q).broken = (proc[q].broken /\ ~FileLoads(Generated(p))) BY Zenon
  <2> HIDE DEF mine, others
  <2>8. /\ DOMAIN proc'[p] = DOMAIN NoCommand
        /\ \A f \in DOMAIN NoCommand : proc'[p][f] = IF f = "pc" THEN "db" ELSE proc[p][f]
    BY <2>4, <2>5, <2>6 DEF Updated
  <2>9. /\ proc'[p].pc = "db" /\ proc'[p].op = proc[p].op /\ proc'[p].id = proc[p].id
        /\ proc'[p].policy = proc[p].policy /\ proc'[p].config = proc[p].config /\ proc'[p].since = proc[p].since
        /\ proc'[p].project = proc[p].project
        /\ proc'[p].touched = proc[p].touched /\ proc'[p].broken = proc[p].broken
    BY <2>8, ProcessFields
  <2>10. Fits(proc'[p], disk')
    <3>1. CommandOK(proc'[p]) BY <1>0, <2>2, <2>3, <2>8, <2>9 DEF Fits, CommandOK, Ops, DirsAhead
    <3>2. PiecesInPlace(proc'[p], disk')
      BY <1>0, <2>2, <2>3, <2>8, <2>9
         DEF Fits, PiecesInPlace, Treated, Grows, Made, DirsAhead, IgnoreAhead, MetaAhead, IdentityAhead, ConfigAhead,
             DatabaseAhead, SeedsAhead
    <3>3. BrokenStaysInSight(proc'[p], disk') BY <1>0, <2>2, <2>3, <2>8, <2>9
                                              DEF Fits, BrokenStaysInSight, CommandOK, Ops, DirsAhead
    <3> QED BY <3>1, <3>2, <3>3 DEF Fits
  <2>11. ASSUME NEW w \in Procs, w # p PROVE Spared(w)
    <3>1. proc'[w] = Updated(proc[w], others(w)) BY <2>4, <2>11
    <3>2. /\ DOMAIN proc'[w] = DOMAIN NoCommand
          /\ \A f \in DOMAIN NoCommand \ {"broken"} : proc'[w][f] = proc[w][f]
          /\ proc'[w].broken = others(w).broken
      BY <3>1, <2>5, <2>7, ProcessFields DEF Updated
    <3>3. proc'[w].broken => proc[w].broken /\ ~FileLoads(disk'.config) BY <2>3, <2>7, <3>2
    <3>4. proc'[w].touched = proc[w].touched BY <3>2, ProcessFields
    <3> QED BY <3>2, <3>3, <3>4 DEF Spared
  <2> QED BY <1>0, <2>3, <2>4, <2>10, <2>11, OwnStep, Counted
<1> QED BY <1>r, <1>w

(* Every packaged template has a turn.                                      *)
LEMMA TemplatesInOrder ==
  /\ AllTemplates \in Seq(Templates)
  /\ \A t \in Templates : \E i \in DOMAIN AllTemplates : AllTemplates[i] = t
<1> DEFINE n == Cardinality(Templates)
           All(s) == \A t \in Templates : \E i \in DOMAIN s : s[i] = t
<1>1. n \in Nat /\ ExistsBijection(1..n, Templates)
  BY SetupAssumption, FS_CardinalityType
<1>2. PICK s \in Bijection(1..n, Templates) : TRUE BY <1>1, Zenon DEF ExistsBijection
<1>3. s \in [1..n -> Templates] /\ All(s)
  <2>1. s \in Surjection(1..n, Templates) BY <1>2 DEF Bijection
  <2> QED BY <2>1 DEF Surjection
<1>4. AllTemplates \in [1..n -> Templates] /\ All(AllTemplates)
  <2> HIDE DEF n
  <2>1. AllTemplates = CHOOSE q \in [1..n -> Templates] : All(q) BY Zenon DEF AllTemplates, n
  <2> HIDE DEF All
  <2> QED BY <1>3, <2>1, Zenon
<1>5. AllTemplates \in Seq(Templates) BY <1>1, <1>4, IsASeq
<1> QED BY <1>4, <1>5

(* The database is made, and every template awaits its turn.                  *)
LEMMA InitDatabaseFits ==
  ASSUME SetupIInv, NEW p \in Procs, InitDatabase(p)
  PROVE  SetupIInv'
<1>0. /\ Fits(proc[p], disk) /\ DiskTyped /\ proc[p].pc = "db" /\ setup_spent' = setup_spent
  BY DEF SetupIInv, InitDatabase, AtWork, SetupTypeOK, DiskTyped
<1> DEFINE new == [pc |-> "seed", rest |-> AllTemplates]
<1>1. Goes(p, new) BY DEF InitDatabase, ToSeed
<1>2. DOMAIN new = {"pc", "rest"} /\ new["pc"] = "seed" /\ new["rest"] = AllTemplates OBVIOUS
<1> HIDE DEF new
<1>3. Grows /\ DiskTyped' /\ disk'.config = disk.config /\ disk'.db
  BY <1>0 DEF InitDatabase, Grows, DiskTyped, Bare
<1>4. /\ proc'[p].pc = "seed" /\ proc'[p].rest = AllTemplates
      /\ proc'[p].project = proc[p].project /\ proc'[p].since = proc[p].since
  BY <1>1, <1>2, GoesFields, ProcessFields
<1>5. DOMAIN new \subseteq {"pc", "since", "slug", "ok", "rest", "project", "report"} BY <1>2
<1>6. Templates \subseteq Unseeded(proc'[p]) BY <1>4, TemplatesInOrder DEF Unseeded
<1>7. Fits(proc'[p], disk')
  <2>1. CommandOK(proc'[p]) BY <1>0, <1>1, <1>3, <1>4, <1>5, <1>6, KeptFields, TemplatesInOrder
                            DEF Fits, CommandOK, Ops, DirsAhead
  <2>2. PiecesInPlace(proc'[p], disk')
    BY <1>0, <1>1, <1>3, <1>4, <1>5, <1>6, KeptFields, TemplatesInOrder
       DEF Fits, PiecesInPlace, Grows, Made, DirsAhead, IgnoreAhead, MetaAhead, IdentityAhead, ConfigAhead,
           DatabaseAhead, SeedsAhead
  <2>3. BrokenStaysInSight(proc'[p], disk')
    BY <1>0, <1>1, <1>3, <1>4, <1>5, <1>6, KeptFields, TemplatesInOrder DEF Fits, BrokenStaysInSight, CommandOK,
                                                                            Ops, DirsAhead
  <2> QED BY <2>1, <2>2, <2>3 DEF Fits
<1> QED BY <1>0, <1>1, <1>3, <1>5, <1>7, KeptFields, OwnStep, StillSpared, Counted

(* What is left of a sequence when its head has had its turn.               *)
LEMMA TailFacts ==
  ASSUME NEW S, NEW s \in Seq(S), s # <<>>
  PROVE  /\ Head(s) \in S /\ Tail(s) \in Seq(S) /\ Head(s) = s[1]
         /\ \A i \in DOMAIN s : s[i] = Head(s) \/ \E j \in DOMAIN Tail(s) : Tail(s)[j] = s[i]
<1>1. Len(s) \in Nat \ {0} /\ DOMAIN s = 1..Len(s) BY EmptySeq, LenProperties
<1>2. Head(s) \in S /\ Tail(s) \in Seq(S) /\ Head(s) = s[1] BY <1>1, HeadTailProperties
<1>3. Len(Tail(s)) = Len(s) - 1 /\ \A j \in 1..Len(Tail(s)) : Tail(s)[j] = s[j + 1] BY <1>1, HeadTailProperties
<1>4. DOMAIN Tail(s) = 1..Len(Tail(s)) BY <1>2, LenProperties
<1>5. ASSUME NEW i \in DOMAIN s, i # 1 PROVE \E j \in DOMAIN Tail(s) : Tail(s)[j] = s[i]
  <2>1. i - 1 \in DOMAIN Tail(s) /\ Tail(s)[i - 1] = s[i] BY <1>1, <1>3, <1>4, <1>5
  <2> QED BY <2>1
<1> QED BY <1>2, <1>5

(* A template has had its turn: it is there, or the seeding has failed.     *)
LEMMA SeededFits ==
  ASSUME SetupIInv, NEW p \in Procs, proc[p].pc = "seed", proc[p].rest # <<>>, NEW new, Goes(p, new),
         \/ DOMAIN new = {"rest"} /\ disk'.seeds = disk.seeds \cup {Head(proc[p].rest)}
         \/ DOMAIN new = {"ok", "rest"} /\ new["ok"] = FALSE,
         new["rest"] = Tail(proc[p].rest), Grows, DiskTyped', disk'.config = disk.config,
         setup_spent'.commands = setup_spent.commands, DOMAIN setup_spent' = DOMAIN setup_spent,
         setup_spent'.edits = setup_spent.edits
  PROVE  SetupIInv'
<1>0. Fits(proc[p], disk) /\ DiskTyped /\ proc[p].rest \in Seq(Templates)
  BY DEF SetupIInv, SetupTypeOK, DiskTyped, Fits, CommandOK
<1>1. DOMAIN new \subseteq {"pc", "since", "slug", "ok", "rest", "project", "report"} OBVIOUS
<1>2. /\ proc'[p].pc = "seed" /\ proc'[p].rest = Tail(proc[p].rest)
      /\ proc'[p].project = proc[p].project /\ proc'[p].since = proc[p].since
  BY GoesFields, ProcessFields
<1>3. /\ proc'[p].ok => proc[p].ok /\ Head(proc[p].rest) \in disk'.seeds
  <2>1. CASE DOMAIN new = {"rest"} /\ disk'.seeds = disk.seeds \cup {Head(proc[p].rest)}
    <3>1. proc'[p].ok = proc[p].ok BY <2>1, GoesFields, ProcessFields
    <3> QED BY <2>1, <3>1
  <2>2. CASE DOMAIN new = {"ok", "rest"} /\ new["ok"] = FALSE
    <3>1. proc'[p].ok = FALSE BY <2>2, GoesFields, ProcessFields
    <3> QED BY <3>1
  <2> QED BY <2>1, <2>2
<1>4. Tail(proc[p].rest) \in Seq(Templates) BY <1>0, TailFacts
<1>5. Unseeded(proc[p]) \subseteq Unseeded(proc'[p]) \cup {Head(proc[p].rest)}
  BY <1>0, <1>2, TailFacts DEF Unseeded
<1>6. Fits(proc'[p], disk')
  <2>1. CommandOK(proc'[p]) BY <1>0, <1>1, <1>2, <1>3, <1>4, <1>5, KeptFields DEF Fits, CommandOK, Ops, DirsAhead
  <2>2. PiecesInPlace(proc'[p], disk')
    BY <1>0, <1>1, <1>2, <1>3, <1>4, <1>5, KeptFields
       DEF Fits, PiecesInPlace, Grows, Made, DirsAhead, IgnoreAhead, MetaAhead, IdentityAhead, ConfigAhead,
           DatabaseAhead, SeedsAhead
  <2>3. BrokenStaysInSight(proc'[p], disk') BY <1>0, <1>1, <1>2, <1>3, <1>4, <1>5, KeptFields
                                            DEF Fits, BrokenStaysInSight, CommandOK, Ops, DirsAhead
  <2> QED BY <2>1, <2>2, <2>3 DEF Fits
<1> QED BY <1>1, <1>6, KeptFields, OwnStep, StillSpared, Counted

(* A template that is in place stays in place.                                *)
LEMMA SeedOneFits ==
  ASSUME SetupIInv, NEW p \in Procs, SeedOne(p)
  PROVE  SetupIInv'
<1>0. /\ Fits(proc[p], disk) /\ DiskTyped /\ proc[p].pc = "seed" /\ proc[p].rest # <<>>
      /\ setup_spent' = setup_spent /\ proc[p].rest \in Seq(Templates)
  BY DEF SetupIInv, SeedOne, AtWork, SetupTypeOK, DiskTyped, Fits, CommandOK
<1> DEFINE new == [rest |-> Tail(proc[p].rest)]
<1>1. Goes(p, new) BY DEF SeedOne
<1>2. DOMAIN new = {"rest"} /\ new["rest"] = Tail(proc[p].rest) OBVIOUS
<1> HIDE DEF new
<1>3. Head(proc[p].rest) \in Templates BY <1>0, TailFacts
<1>4. /\ Grows /\ DiskTyped' /\ disk'.config = disk.config
      /\ disk'.seeds = disk.seeds \cup {Head(proc[p].rest)}
  BY <1>0, <1>3 DEF SeedOne, Grows, DiskTyped, Bare
<1> QED BY <1>0, <1>1, <1>2, <1>4, SeededFits

(* The last part of init: what it says rests on all the others.               *)
LEMMA InitializedFits ==
  ASSUME SetupIInv, NEW p \in Procs, Initialized(p)
  PROVE  SetupIInv'
<1>0. /\ Fits(proc[p], disk) /\ proc[p].pc = "seed" /\ proc[p].rest = <<>>
      /\ setup_spent' = setup_spent /\ disk' = disk /\ Grows
  BY DEF SetupIInv, Initialized, AtWork, Grows
<1>1. CASE proc[p].op = "run"
  <2>1. Goes(p, [pc |-> "context"]) BY <1>1 DEF Initialized, Outcome
  <2>2. Fits(proc'[p], disk')
    <3>1. CommandOK(proc'[p]) BY <1>0, <1>1, <2>1, OnlyPc DEF Fits, CommandOK, Ops, DirsAhead
    <3>2. PiecesInPlace(proc'[p], disk')
      BY <1>0, <1>1, <2>1, OnlyPc
         DEF Fits, PiecesInPlace, Grows, Made, DirsAhead, IgnoreAhead, MetaAhead, IdentityAhead, ConfigAhead,
             DatabaseAhead, SeedsAhead
    <3>3. BrokenStaysInSight(proc'[p], disk') BY <1>0, <1>1, <2>1, OnlyPc
                                              DEF Fits, BrokenStaysInSight, CommandOK, Ops, DirsAhead
    <3> QED BY <3>1, <3>2, <3>3 DEF Fits
  <2> QED BY <1>0, <2>1, <2>2, OnlyPc, QuietStep
<1>2. CASE proc[p].op = "init"
  <2>1. Exits(p, proc[p].ok) BY <1>2 DEF Initialized, Outcome
  <2>2. Unseeded(proc[p]) = {} BY <1>0 DEF Unseeded
  <2>3. Fits(proc'[p], disk')
    <3>1. CommandOK(proc'[p]) BY <1>0, <1>2, <2>1, <2>2, ExitFields DEF Fits, CommandOK, Ops, DirsAhead
    <3>2. PiecesInPlace(proc'[p], disk')
      BY <1>0, <1>2, <2>1, <2>2, ExitFields
         DEF Fits, PiecesInPlace, Grows, Made, DirsAhead, IgnoreAhead, MetaAhead, IdentityAhead, ConfigAhead,
             DatabaseAhead, SeedsAhead, Unseeded
    <3>3. BrokenStaysInSight(proc'[p], disk') BY <1>0, <1>2, <2>1, <2>2, ExitFields
                                              DEF Fits, BrokenStaysInSight, CommandOK, Ops, DirsAhead
    <3> QED BY <3>1, <3>2, <3>3 DEF Fits
  <2> QED BY <1>0, <2>1, <2>3, ExitFields, QuietStep
<1> QED BY <1>0, <1>1, <1>2 DEF Fits, CommandOK, Ops, DirsAhead

(* A run takes the project of its workspace, or ends.                         *)
LEMMA BuildContextFits ==
  ASSUME SetupIInv, NEW p \in Procs, BuildContext(p)
  PROVE  SetupIInv'
<1>0. /\ Fits(proc[p], disk) /\ DiskTyped /\ proc[p].pc = "context" /\ proc[p].op = "run"
      /\ setup_spent' = setup_spent /\ disk' = disk
  BY DEF SetupIInv, BuildContext, AtWork, SetupTypeOK, DiskTyped, Fits, CommandOK, Ops, DirsAhead
<1>1. CASE ~(Loads(disk.config) /\ disk.tiers)
  <2>1. Exits(p, FALSE) BY <1>1 DEF BuildContext
  <2> QED BY <1>0, <2>1, ExitFields, FailedFits, QuietStep
<1>2. CASE Loads(disk.config) /\ disk.tiers
  <2> DEFINE project == IF disk.identity = Bad THEN None ELSE disk.identity
             new == [pc |-> "running", project |-> project]
  <2>1. Goes(p, new) BY <1>2 DEF BuildContext
  <2>2. DOMAIN new = {"pc", "project"} /\ new["pc"] = "running" /\ new["project"] = project OBVIOUS
  <2>3. project \in Slugs \cup {None} BY <1>0 DEF DiskTyped
  <2> HIDE DEF new, project
  <2>4. /\ proc'[p].pc = "running" /\ proc'[p].project = project /\ proc'[p].since = proc[p].since
    BY <2>1, <2>2, GoesFields, ProcessFields
  <2>5. DOMAIN new \subseteq {"pc", "since", "slug", "ok", "rest", "project", "report"} BY <2>2
  <2>6. Fits(proc'[p], disk)
    <3>1. CommandOK(proc'[p]) BY <1>0, <2>1, <2>3, <2>4, <2>5, KeptFields DEF Fits, CommandOK, Ops, DirsAhead
    <3>2. PiecesInPlace(proc'[p], disk)
      BY <1>0, <2>1, <2>3, <2>4, <2>5, KeptFields
         DEF Fits, PiecesInPlace, Grows, Made, DirsAhead, IgnoreAhead, MetaAhead, IdentityAhead, ConfigAhead,
             DatabaseAhead, SeedsAhead
    <3>3. BrokenStaysInSight(proc'[p], disk) BY <1>0, <2>1, <2>3, <2>4, <2>5, KeptFields
                                             DEF Fits, BrokenStaysInSight, CommandOK, Ops, DirsAhead
    <3> QED BY <3>1, <3>2, <3>3 DEF Fits
  <2> QED BY <1>0, <2>1, <2>5, <2>6, KeptFields, QuietStep
<1> QED BY <1>1, <1>2

(* A run ends.                                                                *)
LEMMA RunEndsFits ==
  ASSUME SetupIInv, NEW p \in Procs, RunEnds(p)
  PROVE  SetupIInv'
<1>0. /\ Fits(proc[p], disk) /\ proc[p].pc = "running" /\ proc[p].op = "run"
      /\ setup_spent' = setup_spent /\ disk' = disk /\ Exits(p, TRUE)
  BY DEF SetupIInv, RunEnds, AtWork, Fits, CommandOK, Ops, DirsAhead
<1>1. Fits(proc'[p], disk)
  <2>1. CommandOK(proc'[p]) BY <1>0, ExitFields DEF Fits, CommandOK, Ops, DirsAhead
  <2>2. PiecesInPlace(proc'[p], disk)
    BY <1>0, ExitFields
       DEF Fits, PiecesInPlace, Grows, Made, DirsAhead, IgnoreAhead, MetaAhead, IdentityAhead, ConfigAhead,
           DatabaseAhead, SeedsAhead
  <2>3. BrokenStaysInSight(proc'[p], disk) BY <1>0, ExitFields DEF Fits, BrokenStaysInSight, CommandOK, Ops, DirsAhead
  <2> QED BY <2>1, <2>2, <2>3 DEF Fits
<1> QED BY <1>0, <1>1, ExitFields, QuietStep

(* The doctor looks at the configuration, if it is its turn, and says so.   *)
LEMMA CheckFits ==
  ASSUME SetupIInv, NEW p \in Procs, Check(p)
  PROVE  SetupIInv'
<1> DEFINE check == Head(proc[p].rest)
           All == {Checks[i] : i \in DOMAIN Checks}
<1>0. /\ Fits(proc[p], disk) /\ DiskTyped /\ proc[p].pc = "check" /\ proc[p].op = "doctor" /\ proc[p].rest # <<>>
      /\ proc[p].rest \in Seq(All) /\ setup_spent' = setup_spent
  BY DEF SetupIInv, Check, AtWork, SetupTypeOK, DiskTyped, Fits, CommandOK, Ops, DirsAhead
<1>1. Grows /\ DiskTyped' /\ disk'.config = disk.config BY <1>0 DEF Check, Grows, DiskTyped, Bare
<1>2. PICK found \in IF Skipped(p, check) THEN {Found("skipped", None)} ELSE Findings(p, check) :
        Goes(p, [rest |-> Tail(proc[p].rest),
                 report |-> IF found = Fine THEN proc[p].report ELSE proc[p].report \cup {found}])
  BY DEF Check
<1> DEFINE report == IF found = Fine THEN proc[p].report ELSE proc[p].report \cup {found}
           new == [rest |-> Tail(proc[p].rest), report |-> report]
<1>3. Goes(p, new) BY <1>2
<1>4. DOMAIN new = {"rest", "report"} /\ new["rest"] = Tail(proc[p].rest) /\ new["report"] = report OBVIOUS
<1>5. proc[p].report \subseteq report /\ (found # Fine => found \in report) OBVIOUS
<1> HIDE DEF new, report, All
<1>6. /\ proc'[p].pc = "check" /\ proc'[p].rest = Tail(proc[p].rest) /\ proc'[p].report = report
      /\ proc'[p].project = proc[p].project /\ proc'[p].since = proc[p].since
  <2>1. proc[p].pc = "check" BY <1>0
  <2>2. \A f \in DOMAIN NoCommand : proc'[p][f] = IF f \in {"rest", "report"} THEN new[f] ELSE proc[p][f]
    BY <1>3, <1>4, GoesFields
  <2> QED BY <2>1, <2>2, <1>4, ProcessFields
<1>7. DOMAIN new \subseteq {"pc", "since", "slug", "ok", "rest", "project", "report"} BY <1>4
<1>8. Tail(proc[p].rest) \in Seq(All)
      /\ \A i \in DOMAIN proc[p].rest :
           proc[p].rest[i] = check \/ \E j \in DOMAIN Tail(proc[p].rest) : Tail(proc[p].rest)[j] = proc[p].rest[i]
  BY <1>0, TailFacts
<1>9. CommandOK(proc'[p])
  BY <1>0, <1>3, <1>6, <1>7, <1>8, KeptFields DEF Fits, CommandOK, Ops, DirsAhead, All
<1>10. PiecesInPlace(proc'[p], disk') BY <1>0, <1>3, <1>7, KeptFields DEF PiecesInPlace
<1>11. BrokenStaysInSight(proc'[p], disk')
  <2> SUFFICES ASSUME proc[p].broken PROVE BrokenStaysInSight(proc'[p], disk')
    BY <1>3, <1>7, KeptFields DEF BrokenStaysInSight
  <2>1. ~FileLoads(disk.config) /\ proc[p].config.quiet = {} /\ (AsksForConfig(proc[p]) => Reports(proc[p]))
    BY <1>0 DEF Fits, BrokenStaysInSight
  <2>2. ASSUME Reports(proc[p]) PROVE Reports(proc'[p])
    <3>1. CASE Names({f \in proc[p].report : f.status = "failed"})
      <4>1. Names({f \in report : f.status = "failed"}) BY <1>5, <3>1 DEF Names
      <4> QED BY <4>1, <1>6 DEF Reports
    <3>2. CASE \E j \in DOMAIN Tail(proc[p].rest) : Tail(proc[p].rest)[j] = "config.schema"
      BY <1>6, <3>2 DEF Reports
    <3>3. CASE check = "config.schema"
      <4>1. ~Skipped(p, check) BY <2>1 DEF Skipped
      <4>2. found = ConfigFound BY <1>2, <3>3, <4>1 DEF Findings
      <4>3. /\ found.status = "failed" /\ found # Fine
            /\ found.code \in {"CONFIG_NOT_FOUND", "CONFIG_MALFORMED", "CONFIG_SCHEMA_INVALID"}
        BY <2>1, <4>2 DEF ConfigFound, Found, Fine
      <4>4. Names({f \in report : f.status = "failed"}) BY <1>5, <4>3 DEF Names
      <4> QED BY <4>4, <1>6 DEF Reports
    <3> QED BY <1>0, <1>8, <2>2, <3>1, <3>2, <3>3 DEF Reports
  <2> QED BY <1>0, <1>1, <1>3, <1>7, <2>1, <2>2, KeptFields DEF BrokenStaysInSight, AsksForConfig
<1>12. Fits(proc'[p], disk') BY <1>9, <1>10, <1>11 DEF Fits
<1> QED BY <1>0, <1>1, <1>3, <1>7, <1>12, KeptFields, OwnStep, StillSpared, Counted

(* The report of a doctor that has looked at everything.                      *)
LEMMA ReportedFits ==
  ASSUME SetupIInv, NEW p \in Procs, Reported(p)
  PROVE  SetupIInv'
<1> DEFINE ok == \A found \in proc[p].report : found.status # "failed"
<1>0. /\ Fits(proc[p], disk) /\ proc[p].pc = "check" /\ proc[p].op = "doctor" /\ proc[p].rest = <<>>
      /\ setup_spent' = setup_spent /\ disk' = disk /\ Exits(p, ok)
  BY DEF SetupIInv, Reported, AtWork, Fits, CommandOK, Ops, DirsAhead
<1>1. Names({f \in proc[p].report : f.status = "failed"}) => ~ok BY DEF Names
<1> HIDE DEF ok
<1>2. CommandOK(proc'[p]) BY <1>0, ExitFields DEF Fits, CommandOK, Ops
<1>3. PiecesInPlace(proc'[p], disk) BY <1>0, ExitFields DEF PiecesInPlace
<1>4. BrokenStaysInSight(proc'[p], disk)
  <2> SUFFICES ASSUME proc[p].broken PROVE BrokenStaysInSight(proc'[p], disk)
    BY <1>0, ExitFields DEF BrokenStaysInSight
  <2>1. ~FileLoads(disk.config) /\ proc[p].config.quiet = {} /\ (AsksForConfig(proc[p]) => Reports(proc[p]))
    BY <1>0 DEF Fits, BrokenStaysInSight
  <2>2. ASSUME Reports(proc[p]) PROVE Reports(proc'[p])
    <3>1. Names({f \in proc[p].report : f.status = "failed"}) BY <1>0, <2>2 DEF Reports
    <3>2. proc'[p].ok = ok /\ proc'[p].report = proc[p].report BY <1>0, ExitFields
    <3> QED BY <1>1, <3>1, <3>2 DEF Reports
  <2> QED BY <1>0, <2>1, <2>2, ExitFields DEF BrokenStaysInSight, AsksForConfig
<1> QED BY <1>0, <1>2, <1>3, <1>4, ExitFields, QuietStep DEF Fits

(* A part of init fails, or one template.                                   *)
LEMMA FaultFits ==
  ASSUME SetupIInv, NEW p \in Procs, Fault(p)
  PROVE  SetupIInv'
<1>0. /\ Fits(proc[p], disk) /\ DiskTyped /\ disk' = disk /\ setup_spent'.commands = setup_spent.commands
      /\ DOMAIN setup_spent' = DOMAIN setup_spent /\ setup_spent'.edits = setup_spent.edits
  BY DEF SetupIInv, Fault, SetupTypeOK, DiskTyped, StartsOK
<1>1. Grows /\ DiskTyped' BY <1>0 DEF Grows, DiskTyped
<1>2. proc[p].pc \in DirsAhead \cup {"root"} /\ proc[p].op \in {"init", "run"}
  BY <1>0 DEF Fault, AtWork, DirsAhead, Fits, CommandOK, Ops
<1>3. CASE Outcome(p, FALSE)
  BY <1>0, <1>1, <1>2, <1>3, OutcomeFits, OwnStep, StillSpared, Counted DEF DirsAhead
<1>4. CASE Exits(p, FALSE)
  <2>1. proc[p].pc # "idle" BY <1>2 DEF DirsAhead
  <2>2. Fits(proc'[p], disk) BY <1>2, <1>4, FailedFits
  <2> QED BY <1>0, <1>1, <1>4, <2>1, <2>2, ExitFields, OwnStep, StillSpared, Counted
<1>5. CASE AtWork(p, "seed") /\ proc[p].rest # <<>> /\ Goes(p, [ok |-> SeedFailure(p), rest |-> Tail(proc[p].rest)])
  <2> DEFINE new == [ok |-> FALSE, rest |-> Tail(proc[p].rest)]
  <2>1. Goes(p, new) BY <1>5 DEF SeedFailure
  <2>2. DOMAIN new = {"ok", "rest"} /\ new["ok"] = FALSE /\ new["rest"] = Tail(proc[p].rest) OBVIOUS
  <2> HIDE DEF new
  <2> QED BY <1>0, <1>1, <1>5, <2>1, <2>2, SeededFits DEF AtWork
<1> QED BY <1>3, <1>4, <1>5 DEF Fault

(* A new command knows nothing, and who leaves is as before any command.    *)
LEMMA FreshFields ==
  ASSUME SetupIInv, NEW p \in Procs, NEW new, proc' = [proc EXCEPT ![p] = Updated(NoCommand, new)]
  PROVE  /\ DOMAIN proc' = Procs /\ DOMAIN proc'[p] = DOMAIN NoCommand
         /\ \A w \in Procs : w # p => proc'[w] = proc[w]
         /\ \A f \in DOMAIN NoCommand : proc'[p][f] = IF f \in DOMAIN new THEN new[f] ELSE NoCommand[f]
BY DEF SetupIInv, Updated

(* The fields of a process that has no command.                               *)
LEMMA NoCommandIs ==
  /\ NoCommand["pc"] = "idle" /\ NoCommand["op"] = None /\ NoCommand["id"] = None /\ NoCommand["policy"] = "skip"
  /\ NoCommand["since"] = 0 /\ NoCommand["project"] = None /\ NoCommand["config"] = NoConfig
  /\ NoCommand["report"] = {} /\ ~NoCommand["touched"] /\ ~NoCommand["broken"]
  /\ NoConfig \in ConfigFiles
BY DEF NoCommand, NoConfig, ConfigFiles, None

(* A command begins, and is counted.                                          *)
LEMMA StartStep ==
  ASSUME SetupIInv, NEW p \in Procs, DOMAIN proc' = Procs, UNCHANGED disk, Fits(proc'[p], disk),
         setup_spent.commands < MaxStarts, setup_spent' = [setup_spent EXCEPT !.commands = @ + 1],
         \A w \in Procs : w # p => proc'[w] = proc[w]
  PROVE  SetupIInv'
<1>1. Grows /\ DiskTyped' BY DEF SetupIInv, SetupTypeOK, Grows, DiskTyped
<1>2. Fits(proc'[p], disk') OBVIOUS
<1>3. /\ DOMAIN setup_spent' = DOMAIN setup_spent /\ setup_spent'.commands \in 1..MaxStarts
      /\ setup_spent'.edits = setup_spent.edits
  BY SetupAssumption DEF SetupIInv, StartsOK
<1> QED BY <1>1, <1>2, <1>3, OwnStep, StillSpared

(* init, run, or the init that a report advises.                            *)
LEMMA BeginFits ==
  ASSUME SetupIInv, NEW p \in Procs, InitCommand(p) \/ RunCommand(p) \/ Follow(p)
  PROVE  SetupIInv'
<1>0. /\ disk' = disk /\ setup_spent.commands < MaxStarts
      /\ setup_spent' = [setup_spent EXCEPT !.commands = @ + 1]
  BY DEF InitCommand, RunCommand, Follow, Start
<1>1. ASSUME NEW new, proc' = [proc EXCEPT ![p] = Updated(NoCommand, new)],
             DOMAIN new \subseteq {"pc", "op", "id", "force", "policy"},
             \/ new["pc"] = "preflight" /\ new["op"] = "init"
             \/ new["pc"] = "lazy" /\ new["op"] = "run",
             {"pc", "op"} \subseteq DOMAIN new,
             "id" \in DOMAIN new => new["id"] \in Slugs \cup {None, Bad},
             "policy" \in DOMAIN new => new["policy"] \in Policies
      PROVE  SetupIInv'
  <2>1. /\ proc'[p].pc = new["pc"] /\ proc'[p].op = new["op"]
        /\ proc'[p].id \in Slugs \cup {None, Bad} /\ proc'[p].policy \in Policies
        /\ proc'[p].since = 0 /\ proc'[p].project = None /\ proc'[p].config = NoConfig /\ ~proc'[p].broken
        /\ DOMAIN proc'[p] = DOMAIN NoCommand
    <3>1. DOMAIN proc'[p] = DOMAIN NoCommand
          /\ \A f \in DOMAIN NoCommand : proc'[p][f] = IF f \in DOMAIN new THEN new[f] ELSE NoCommand[f]
      BY <1>1, FreshFields
    <3>2. proc'[p].pc = new["pc"] /\ proc'[p].op = new["op"] BY <1>1, <3>1, ProcessFields
    <3>3. proc'[p].id \in Slugs \cup {None, Bad}
      <4>1. proc'[p].id = IF "id" \in DOMAIN new THEN new["id"] ELSE NoCommand["id"] BY <3>1, ProcessFields
      <4> QED BY <1>1, <4>1, NoCommandIs
    <3>4. proc'[p].policy \in Policies
      <4>1. proc'[p].policy = IF "policy" \in DOMAIN new THEN new["policy"] ELSE NoCommand["policy"]
        BY <3>1, ProcessFields
      <4> QED BY <1>1, <4>1, NoCommandIs DEF Policies
    <3>5. /\ proc'[p].since = 0 /\ proc'[p].project = None /\ proc'[p].config = NoConfig
      BY <1>1, <3>1, ProcessFields, NoCommandIs
    <3>6. ~proc'[p].broken
      <4>1. proc'[p].broken = NoCommand["broken"] BY <1>1, <3>1, ProcessFields
      <4> QED BY <4>1, NoCommandIs
    <3> QED BY <3>1, <3>2, <3>3, <3>4, <3>5, <3>6
  <2>2. CommandOK(proc'[p]) BY <1>1, <2>1, NoCommandIs, SetupAssumption DEF CommandOK, Ops, DirsAhead
  <2>3. PiecesInPlace(proc'[p], disk) BY <1>1, <2>1
        DEF PiecesInPlace, Made, DirsAhead, IgnoreAhead, MetaAhead, IdentityAhead, ConfigAhead, DatabaseAhead,
            SeedsAhead
  <2>4. BrokenStaysInSight(proc'[p], disk) BY <2>1 DEF BrokenStaysInSight
  <2> QED BY <1>0, <1>1, <2>2, <2>3, <2>4, FreshFields, StartStep DEF Fits
<1>2. CASE InitCommand(p)
  <2>1. PICK option \in InitOptions :
          Start(p, [pc |-> "preflight", op |-> "init",
                    id |-> option.id, force |-> option.force, policy |-> option.policy])
    BY <1>2 DEF InitCommand
  <2> DEFINE new == [pc |-> "preflight", op |-> "init",
                     id |-> option.id, force |-> option.force, policy |-> option.policy]
  <2>2. proc' = [proc EXCEPT ![p] = Updated(NoCommand, new)] BY <2>1 DEF Start
  <2>3. DOMAIN new = {"pc", "op", "id", "force", "policy"} /\ new["pc"] = "preflight" /\ new["op"] = "init"
        /\ new["id"] = option.id /\ new["policy"] = option.policy
    OBVIOUS
  <2>4. option.id \in Slugs \cup {None, Bad} /\ option.policy \in Policies BY SetupAssumption DEF None, Bad
  <2> HIDE DEF new
  <2> QED BY <1>1, <2>2, <2>3, <2>4
<1>3. CASE RunCommand(p)
  <2> DEFINE new == [pc |-> "lazy", op |-> "run"]
  <2>2. proc' = [proc EXCEPT ![p] = Updated(NoCommand, new)] BY <1>3 DEF RunCommand, Start
  <2>3. DOMAIN new = {"pc", "op"} /\ new["pc"] = "lazy" /\ new["op"] = "run" OBVIOUS
  <2> HIDE DEF new
  <2> QED BY <1>1, <2>2, <2>3
<1>4. CASE Follow(p)
  <2> DEFINE policy == IF Advised(p, "dovo init --repair") THEN "repair" ELSE "skip"
             new == [pc |-> "preflight", op |-> "init", policy |-> policy]
  <2>2. proc' = [proc EXCEPT ![p] = Updated(NoCommand, new)] BY <1>4 DEF Follow
  <2>3. DOMAIN new = {"pc", "op", "policy"} /\ new["pc"] = "preflight" /\ new["op"] = "init"
        /\ new["policy"] = policy
    OBVIOUS
  <2>4. policy \in Policies BY DEF Policies
  <2> HIDE DEF new, policy
  <2> QED BY <1>1, <2>2, <2>3, <2>4
<1> QED BY <1>2, <1>3, <1>4

(* The doctor loads the configuration once.                                 *)
LEMMA DoctorFits ==
  ASSUME SetupIInv, NEW p \in Procs, DoctorCommand(p)
  PROVE  SetupIInv'
<1>1. PICK env \in Environments, category \in Categories :
        Start(p, [pc |-> "check", op |-> "doctor", env |-> env, only |-> category, rest |-> Selected(category),
                  config |-> IF Loads(disk.config) /\ disk.tiers THEN disk.config ELSE NoConfig,
                  broken |-> ~FileLoads(disk.config)])
  BY DEF DoctorCommand
<1> DEFINE config == IF Loads(disk.config) /\ disk.tiers THEN disk.config ELSE NoConfig
           broken == ~FileLoads(disk.config)
           checks == Selected(category)
           new == [pc |-> "check", op |-> "doctor", env |-> env, only |-> category, rest |-> checks,
                   config |-> config, broken |-> broken]
           All == {Checks[i] : i \in DOMAIN Checks}
<1>2. proc' = [proc EXCEPT ![p] = Updated(NoCommand, new)] BY <1>1 DEF Start
<1>3. /\ disk' = disk /\ setup_spent.commands < MaxStarts
      /\ setup_spent' = [setup_spent EXCEPT !.commands = @ + 1]
  BY <1>1 DEF Start
<1>4. DOMAIN new = {"pc", "op", "env", "only", "rest", "config", "broken"} /\ new["pc"] = "check" /\ new["op"] = "doctor"
      /\ new["only"] = category /\ new["rest"] = checks /\ new["config"] = config
  OBVIOUS
<1>5. new["broken"] = broken BY Zenon
<1>6. config \in ConfigFiles /\ (broken => config.quiet = {})
  <2>1. disk.config \in ConfigFiles /\ NoConfig \in ConfigFiles /\ NoConfig.quiet = {}
    BY NoCommandIs DEF SetupIInv, SetupTypeOK, NoConfig
  <2> QED BY <2>1 DEF Loads, FileLoads
<1>7. /\ checks \in Seq(All)
      /\ category \in {None, "config.schema"} => \E i \in DOMAIN checks : checks[i] = "config.schema"
  <2>1. DOMAIN Checks = 1..6 /\ Checks[2] = "config.schema" BY DEF Checks
  <2>2. \A i \in 1..6 : Checks[i] \in All BY <2>1
  <2>3. Checks \in Seq(All)
    <3> HIDE DEF All
    <3> QED BY <2>2 DEF Checks
  <2>4. CASE category = None
    <3>1. checks = Checks BY <2>4 DEF Selected
    <3> QED BY <2>1, <2>3, <3>1
  <2>5. CASE category # None
    <3>1. category \in All /\ checks = <<category>> BY <2>5 DEF Categories, Selected
    <3>2. <<category>> \in Seq(All) /\ DOMAIN <<category>> = {1} /\ <<category>>[1] = category
      <4> HIDE DEF All
      <4> QED BY <3>1
    <3> QED BY <2>5, <3>1, <3>2
  <2> QED BY <2>4, <2>5
<1> HIDE DEF new, config, checks
<1>8. /\ proc'[p].pc = "check" /\ proc'[p].op = "doctor" /\ proc'[p].rest = checks /\ proc'[p].config = config
      /\ proc'[p].only = category /\ proc'[p].id = None /\ proc'[p].policy = "skip" /\ proc'[p].since = 0 /\ proc'[p].project = None
      /\ DOMAIN proc'[p] = DOMAIN NoCommand
  <2>1. /\ DOMAIN proc'[p] = DOMAIN NoCommand
        /\ \A f \in DOMAIN NoCommand : proc'[p][f] = IF f \in DOMAIN new THEN new[f] ELSE NoCommand[f]
    BY <1>2, FreshFields
  <2> QED BY <2>1, <1>4, ProcessFields, NoCommandIs
<1>9. proc'[p].broken = broken BY <1>2, <1>4, <1>5, FreshFields, ProcessFields
<1>10. CommandOK(proc'[p]) BY <1>6, <1>7, <1>8, SetupAssumption DEF CommandOK, Ops, DirsAhead, Policies
<1>11. PiecesInPlace(proc'[p], disk) BY <1>8 DEF PiecesInPlace
<1>12. BrokenStaysInSight(proc'[p], disk) BY <1>6, <1>7, <1>8, <1>9 DEF BrokenStaysInSight, AsksForConfig, Reports
<1> QED BY <1>2, <1>3, <1>10, <1>11, <1>12, FreshFields, StartStep DEF Fits

(* A process that has no command fits whatever is on the disk.              *)
LEMMA IdleFits == Fits(NoCommand, disk)
<1>1. DOMAIN NoCommand = DOMAIN NoCommand /\ NoCommand.pc = "idle" /\ NoCommand.op = None BY NoCommandIs
<1>2. CommandOK(NoCommand) BY NoCommandIs, SetupAssumption DEF CommandOK, Ops, DirsAhead, Policies
<1>3. PiecesInPlace(NoCommand, disk) /\ BrokenStaysInSight(NoCommand, disk)
  BY NoCommandIs DEF PiecesInPlace, BrokenStaysInSight, None
<1> QED BY <1>2, <1>3 DEF Fits

(* A process is killed, or its caller has read what it says.                  *)
LEMMA GoneFits ==
  ASSUME SetupIInv, NEW p \in Procs, Killed(p) \/ Leave(p)
  PROVE  SetupIInv'
<1>1. /\ proc[p].pc # "idle" /\ proc' = [proc EXCEPT ![p] = NoCommand] /\ disk' = disk
      /\ setup_spent'.commands = setup_spent.commands /\ DOMAIN setup_spent' = DOMAIN setup_spent
      /\ setup_spent'.edits = setup_spent.edits
  <2>1. CASE Killed(p) BY <2>1 DEF Killed, AtWork, SetupIInv, StartsOK
  <2>2. CASE Leave(p) BY <2>2 DEF Leave, AtWork
  <2> QED BY <2>1, <2>2
<1>2. /\ DOMAIN proc' = Procs /\ proc'[p] = NoCommand
      /\ \A w \in Procs : w # p => proc'[w] = proc[w]
  BY <1>1 DEF SetupIInv
<1>3. Grows /\ DiskTyped' BY <1>1 DEF SetupIInv, SetupTypeOK, Grows, DiskTyped
<1>4. Fits(proc'[p], disk') BY <1>1, <1>2, IdleFits
<1> QED BY <1>1, <1>2, <1>3, <1>4, OwnStep, StillSpared, Counted

(* What the user may do to the pieces.                                      *)
Gone == [disk EXCEPT !.root = FALSE, !.meta_dir = None, !.ignore = FALSE, !.meta = NoMeta,
                     !.identity = None, !.config = NoConfig, !.seeds = {}]
(* Each of them removes or replaces one piece, or .dovo with all of them.     *)
LEMMA EditForms ==
  ASSUME NEW new \in Edits
  PROVE  \/ new = Gone \/ new = [disk EXCEPT !.meta_dir = "file", !.meta = NoMeta]
         \/ new = [disk EXCEPT !.meta.kind = Bad]
         \/ \/ new = [disk EXCEPT !.identity = None] \/ new = [disk EXCEPT !.identity = Bad]
            \/ new = [disk EXCEPT !.ignore = FALSE] \/ new = [disk EXCEPT !.git = ~@]
            \/ new = [disk EXCEPT !.tiers = ~@] \/ new = [disk EXCEPT !.db = FALSE]
         \/ \E config \in SavedConfigs : new = [disk EXCEPT !.config = config]
         \/ \E t \in Templates : new = [disk EXCEPT !.seeds = @ \ {t}]
BY Zenon DEF Edits, Gone

(* What the user does concerns every command that is at work.               *)
LEMMA EditFits ==
  ASSUME SetupIInv, UserEdits
  PROVE  SetupIInv'
<1>1. PICK new \in Edits :
        /\ disk' = new
        /\ proc' = [p \in Procs |-> Updated(proc[p], [touched |-> ~AtWork(p, "idle"),
                                                      broken |-> proc[p].broken /\ ~FileLoads(new.config)])]
  BY DEF UserEdits
<1>2. DiskTyped'
  <2>1. DiskTyped BY DEF SetupIInv, SetupTypeOK, DiskTyped
  <2>2. NoConfig \in ConfigFiles BY NoCommandIs
  <2>3. \/ DiskTyped'
        \/ \E config \in SavedConfigs : new = [disk EXCEPT !.config = config]
        \/ \E t \in Templates : new = [disk EXCEPT !.seeds = @ \ {t}]
    <3>1. CASE new = Gone
      <4>1. /\ DOMAIN disk' = DOMAIN Bare /\ disk'.meta = NoMeta /\ disk'.identity = None
            /\ disk'.config = NoConfig /\ disk'.seeds = {}
        BY <1>1, <2>1, <3>1 DEF DiskTyped, Bare, Gone
      <4> QED BY <2>2, <4>1, SetupAssumption DEF DiskTyped, NoMeta, None
    <3>2. CASE new = [disk EXCEPT !.meta_dir = "file", !.meta = NoMeta]
      BY <1>1, <2>1, <3>2, SetupAssumption DEF DiskTyped, Bare, NoMeta, None
    <3>3. CASE new = [disk EXCEPT !.meta.kind = Bad] BY <1>1, <2>1, <3>3 DEF DiskTyped, Bare, NoMeta, Bad
    <3>4. CASE \/ new = [disk EXCEPT !.identity = None] \/ new = [disk EXCEPT !.identity = Bad]
               \/ new = [disk EXCEPT !.ignore = FALSE] \/ new = [disk EXCEPT !.git = ~@]
               \/ new = [disk EXCEPT !.tiers = ~@] \/ new = [disk EXCEPT !.db = FALSE]
      BY <1>1, <2>1, <3>4 DEF DiskTyped, Bare
    <3> QED BY <3>1, <3>2, <3>3, <3>4, EditForms, Zenon
  <2>4. ASSUME NEW config \in SavedConfigs, new = [disk EXCEPT !.config = config] PROVE DiskTyped'
    BY <1>1, <2>1, <2>4, SetupAssumption DEF DiskTyped, Bare
  <2>5. ASSUME NEW t \in Templates, new = [disk EXCEPT !.seeds = @ \ {t}] PROVE DiskTyped'
    BY <1>1, <2>1, <2>5 DEF DiskTyped, Bare
  <2> QED BY <2>3, <2>4, <2>5
<1> DEFINE change(p) == [touched |-> ~AtWork(p, "idle"), broken |-> proc[p].broken /\ ~FileLoads(new.config)]
<1>3. proc' = [p \in Procs |-> Updated(proc[p], change(p))] BY <1>1
<1>4. \A p : /\ DOMAIN change(p) = {"touched", "broken"}
             /\ change(p).touched = ~AtWork(p, "idle")
             /\ change(p).broken = (proc[p].broken /\ ~FileLoads(new.config))
  BY Zenon
<1> HIDE DEF change
<1>5. ASSUME NEW p \in Procs PROVE Fits(proc'[p], disk')
  <2>0. Fits(proc[p], disk) /\ DOMAIN proc[p] = DOMAIN NoCommand BY DEF SetupIInv, Fits, CommandOK
  <2>1. proc'[p] = Updated(proc[p], change(p)) BY <1>3
  <2>2. /\ DOMAIN proc'[p] = DOMAIN NoCommand
        /\ \A f \in DOMAIN NoCommand \ {"touched", "broken"} : proc'[p][f] = proc[p][f]
        /\ proc'[p].touched = change(p).touched /\ proc'[p].broken = change(p).broken
    BY <1>4, <2>0, <2>1, ProcessFields DEF Updated
  <2>3. /\ proc'[p].pc = proc[p].pc /\ proc'[p].op = proc[p].op /\ proc'[p].id = proc[p].id
        /\ proc'[p].policy = proc[p].policy /\ proc'[p].since = proc[p].since /\ proc'[p].slug = proc[p].slug
        /\ proc'[p].ok = proc[p].ok /\ proc'[p].rest = proc[p].rest /\ proc'[p].project = proc[p].project
        /\ proc'[p].config = proc[p].config /\ proc'[p].report = proc[p].report /\ proc'[p].only = proc[p].only
    BY <2>2, ProcessFields
  <2>4. proc'[p].touched \/ proc[p].pc = "idle"
    <3>1. change(p).touched \/ AtWork(p, "idle") BY <1>4
    <3> QED BY <2>2, <3>1 DEF AtWork
  <2>5. proc'[p].broken => proc[p].broken /\ ~FileLoads(disk'.config)
    <3>1. change(p).broken => proc[p].broken /\ ~FileLoads(new.config) BY <1>4
    <3> QED BY <1>1, <2>2, <3>1
  <2>6. CommandOK(proc'[p]) BY <2>0, <2>2, <2>3 DEF Fits, CommandOK
  <2>7. PiecesInPlace(proc'[p], disk')
    <3>1. proc[p].pc = "idle" => proc[p].op = "none" 
      <4>1. Ops("idle") = {"none"} BY DEF Ops, None, DirsAhead
      <4> QED BY <2>0, <4>1 DEF Fits, CommandOK
    <3> QED BY <2>3, <2>4, <3>1 DEF PiecesInPlace
  <2>8. BrokenStaysInSight(proc'[p], disk') BY <2>0, <2>3, <2>5 DEF Fits, BrokenStaysInSight, AsksForConfig, Reports
  <2> QED BY <2>6, <2>7, <2>8 DEF Fits
<1>6. SetupTypeOK' BY <1>2, <1>5 DEF SetupTypeOK, DiskTyped, Fits, CommandOK
<1>7. StartsOK'
  <2>1. /\ setup_spent'.commands = setup_spent.commands /\ DOMAIN setup_spent' = DOMAIN setup_spent
        /\ setup_spent'.edits \in Nat
    BY DEF UserEdits, SetupIInv, StartsOK
  <2>2. \A p \in Procs : proc'[p].pc = proc[p].pc
    <3> TAKE p \in Procs
    <3>1. DOMAIN proc[p] = DOMAIN NoCommand BY DEF SetupIInv, Fits, CommandOK
    <3> QED BY <1>3, <1>4, <3>1, ProcessFields DEF Updated
  <2> QED BY <2>1, <2>2 DEF SetupIInv, StartsOK, AtWork
<1> QED BY <1>3, <1>5, <1>6, <1>7 DEF SetupIInv

(* A repository, or not, without .dovo.                                     *)
LEMMA SetupStart == SetupInit => SetupIInv
<1> SUFFICES ASSUME SetupInit PROVE SetupIInv OBVIOUS
<1>1. \A p \in Procs : proc[p] = NoCommand BY DEF SetupInit
<1>2. \A p \in Procs : Fits(proc[p], disk) BY <1>1, IdleFits
<1>3. DiskTyped BY NoCommandIs, SetupAssumption DEF SetupInit, Bare, NoMeta, DiskTyped, None
<1>4. SetupTypeOK BY <1>2, <1>3 DEF SetupTypeOK, DiskTyped, Fits, CommandOK
<1>5. StartsOK BY <1>1, NoCommandIs, SetupAssumption DEF SetupInit, StartsOK, AtWork
<1> QED BY <1>2, <1>4, <1>5 DEF SetupIInv, SetupInit

(***************************************************************************)
(* Initialization, run and doctor: the theorems.                           *)
(***************************************************************************)

(* One case for each action.                                                *)
LEMMA SetupStep == SetupIInv /\ [SetupNext]_wvars => SetupIInv'
<1> SUFFICES ASSUME SetupIInv, [SetupNext]_wvars PROVE SetupIInv' OBVIOUS
<1>1. CASE UserEdits BY <1>1, EditFits
<1>2. ASSUME NEW p \in Procs, Step(p) PROVE SetupIInv'
  BY <1>2, BeginFits, DoctorFits, LazyFits, PreflightFits, EnsureRootFits, EnsureSubdirsFits, SeedGitignoreFits,
     WriteMetaFits, ProvisionFits, SaveIdentityFits, GenerateConfigFits, InitDatabaseFits, SeedOneFits,
     InitializedFits, BuildContextFits, RunEndsFits, CheckFits, ReportedFits, FaultFits, GoneFits
     DEF Step
<1>3. CASE UNCHANGED wvars
  BY <1>3 DEF wvars, SetupIInv, SetupTypeOK, StartsOK, AtWork
<1> QED BY <1>1, <1>2, <1>3 DEF SetupNext

(* An init that says ok has left every piece in place, whatever ended the
   ones before it, and whoever initializes at the same time.                 *)
THEOREM InitsComplete == SetupSpec => []InitIsComplete
<1>1. SetupIInv => InitIsComplete
  <2> SUFFICES ASSUME SetupIInv, NEW p \in Procs, proc[p].pc = "done", proc[p].op = "init", proc[p].ok, ~proc[p].touched
               PROVE  Whole /\ Treated(proc[p].policy, disk.config)
    BY DEF InitIsComplete, OkMeansWhole, SetupIInv, AtWork
  <2>1. PiecesInPlace(proc[p], disk) /\ Unseeded(proc[p]) = {} BY DEF SetupIInv, Fits, Unseeded
  <2> QED BY <2>1 DEF SetupIInv, SetupTypeOK, PiecesInPlace, Made, Whole
<1> QED BY <1>1, SetupStart, SetupStep, PTL DEF SetupSpec

(* A doctor that is asked for all checks, or those of the configuration,
   reports a file that never loaded while it looked, also when the file says
   that it need not be checked.                                              *)
THEOREM DoctorReportsBroken == SetupSpec => []BrokenConfigIsReported
<1>1. SetupIInv => BrokenConfigIsReported
  <2> SUFFICES ASSUME SetupIInv, NEW p \in Procs, proc[p].pc = "done", proc[p].op = "doctor", AsksForConfig(proc[p]),
                      proc[p].broken
               PROVE  ~proc[p].ok /\ Names(proc[p].report)
    BY DEF BrokenConfigIsReported, AtWork
  <2>1. Reports(proc[p]) BY DEF SetupIInv, Fits, BrokenStaysInSight
  <2> QED BY <2>1 DEF Reports, Names
<1> QED BY <1>1, SetupStart, SetupStep, PTL DEF SetupSpec

(***************************************************************************)
(* Identity: what a lone initialization has read still holds.              *)
(***************************************************************************)

(* With one initialization at a time.                                       *)
LEMMA OthersHold ==
  ASSUME SoleIInv, NEW p \in Procs, DOMAIN proc' = Procs, StillHolds(proc'[p], disk'),
         \A w \in Procs : w # p =>
            /\ proc'[w].pc = proc[w].pc /\ proc'[w].id = proc[w].id /\ proc'[w].force = proc[w].force
            /\ proc'[w].since = proc[w].since /\ proc'[w].project = proc[w].project
            /\ proc[w].touched => proc'[w].touched,
         Initializing(p)' => Initializing(p) \/ \A q \in Procs : ~Initializing(q),
         disk'.meta = disk.meta \/ Initializing(p),
         \/ disk'.identity = disk.identity
         \/ Initializing(p) /\ disk.identity \notin Slugs
         \/ Initializing(p) /\ \A w \in Procs : w # p /\ proc[w].pc = "running" => proc'[w].touched
  PROVE  OneInitializes' /\ \A w \in Procs : StillHolds(proc'[w], disk')
<1>1. \A w \in Procs : w # p => (Initializing(w)' <=> Initializing(w)) BY DEF Initializing
<1>2. OneInitializes' BY <1>1 DEF SoleIInv, OneInitializes
<1>3. ASSUME NEW w \in Procs, w # p PROVE StillHolds(proc'[w], disk')
  <2>1. StillHolds(proc[w], disk) /\ proc[w].project \in Slugs \cup {None}
    BY DEF SoleIInv, SetupIInv, Fits, CommandOK
  <2>2. CASE Initializing(p)
    <3>1. ~Initializing(w) BY <1>3, <2>2 DEF SoleIInv, OneInitializes
    <3>2. proc'[w].pc \notin {"save", "root", "meta_dir", "ignore", "meta"} BY <1>3, <3>1 DEF Initializing
    <3> QED BY <1>3, <2>1, <3>2 DEF StillHolds
  <2>3. CASE ~Initializing(p) BY <1>3, <2>1, <2>3 DEF StillHolds
  <2> QED BY <2>2, <2>3
<1> QED BY <1>2, <1>3

(* A step that is not about what has been read before.                      *)
LEMMA PlainHold ==
  ASSUME SoleIInv, NEW p \in Procs, NEW new, Goes(p, new), disk'.meta = disk.meta, disk'.identity = disk.identity,
         \/ "pc" \in DOMAIN new
            /\ new["pc"] \in {"idle", "lazy", "preflight", "context", "check", "done"} \cup (IF Initializing(p) THEN ConfigAhead ELSE {})
         \/ "pc" \notin DOMAIN new /\ proc[p].pc \in {"check", "seed"}
  PROVE  OneInitializes' /\ \A w \in Procs : StillHolds(proc'[w], disk')
<1>0. SetupIInv BY DEF SoleIInv
<1>1. proc'[p].pc = IF "pc" \in DOMAIN new THEN new["pc"] ELSE proc[p].pc BY <1>0, GoesFields, ProcessFields
<1>2. StillHolds(proc'[p], disk') BY <1>1 DEF StillHolds, ConfigAhead
<1>3. Initializing(p)' => Initializing(p) BY <1>1 DEF Initializing, ConfigAhead
<1> QED BY <1>0, <1>2, <1>3, GoesFields, OthersHold

(* A command that begins, or is gone.                                       *)
LEMMA FreshHold ==
  ASSUME SoleIInv, NEW p \in Procs, NEW c, proc' = [proc EXCEPT ![p] = c], UNCHANGED disk,
         c.pc \in {"idle", "lazy", "preflight", "check"}
  PROVE  OneInitializes' /\ \A w \in Procs : StillHolds(proc'[w], disk')
<1>1. DOMAIN proc' = Procs /\ proc'[p] = c /\ \A w \in Procs : w # p => proc'[w] = proc[w]
  BY DEF SoleIInv, SetupIInv
<1>2. StillHolds(proc'[p], disk') /\ ~Initializing(p)' BY <1>1 DEF StillHolds, Initializing
<1> QED BY <1>1, <1>2, OthersHold

(* A part of init goes on with the next, and with the date it has read.     *)
LEMMA NextPartHolds ==
  ASSUME SoleIInv, NEW p \in Procs, NEW next, Goes(p, [pc |-> next]), next \in {"meta_dir", "ignore", "meta"},
         proc[p].pc \in {"root", "meta_dir", "ignore"}, disk'.meta = disk.meta, disk'.identity = disk.identity
  PROVE  OneInitializes' /\ \A w \in Procs : StillHolds(proc'[w], disk')
<1>0. SetupIInv /\ StillHolds(proc[p], disk) /\ Initializing(p) BY DEF SoleIInv, Initializing
<1>1. StillHolds(proc'[p], disk') BY <1>0, OnlyPc DEF StillHolds
<1> QED BY <1>0, <1>1, OnlyPc, OthersHold

(* A part of init has failed, or the whole has ended.                         *)
LEMMA OutcomeHolds ==
  ASSUME SoleIInv, NEW p \in Procs, NEW ok, Outcome(p, ok), disk'.meta = disk.meta, disk'.identity = disk.identity
  PROVE  OneInitializes' /\ \A w \in Procs : StillHolds(proc'[w], disk')
<1>1. PICK new \in {[pc |-> "context"], [pc |-> "done", ok |-> ok]} : Goes(p, new) BY DEF Outcome, Exits
<1>2. "pc" \in DOMAIN new /\ new["pc"] \in {"context", "done"} BY <1>1
<1> QED BY <1>1, <1>2, PlainHold

(* A command that has ended has nothing left to write.                        *)
LEMMA ExitHolds ==
  ASSUME SoleIInv, NEW p \in Procs, NEW ok, Exits(p, ok), disk'.meta = disk.meta, disk'.identity = disk.identity
  PROVE  OneInitializes' /\ \A w \in Procs : StillHolds(proc'[w], disk')
<1> DEFINE new == [pc |-> "done", ok |-> ok]
<1>1. Goes(p, new) BY DEF Exits
<1>2. "pc" \in DOMAIN new /\ new["pc"] \in {"context", "done"} OBVIOUS
<1> HIDE DEF new
<1> QED BY <1>1, <1>2, PlainHold

(* The date is read when no other initialization is at work.                *)
LEMMA PreflightHolds ==
  ASSUME SoleIInv, ~Rivals, NEW p \in Procs, Preflight(p)
  PROVE  OneInitializes' /\ \A w \in Procs : StillHolds(proc'[w], disk')
<1>0. SetupIInv /\ disk' = disk /\ \A q \in Procs : ~Initializing(q) BY DEF SoleIInv, Preflight
<1>1. CASE ~disk.git BY <1>0, <1>1, OutcomeHolds DEF Preflight
<1>2. CASE disk.git
  <2> DEFINE since == IF disk.meta.kind = "ok" THEN disk.meta.since ELSE 0
             new == [pc |-> "root", since |-> since]
  <2>1. Goes(p, new) BY <1>2 DEF Preflight
  <2>2. DOMAIN new = {"pc", "since"} /\ new["pc"] = "root" /\ new["since"] = since OBVIOUS
  <2>3. disk.meta.kind = "ok" => since = disk.meta.since OBVIOUS
  <2> HIDE DEF new, since
  <2>4. proc'[p].pc = "root" /\ proc'[p].since = since BY <1>0, <2>1, <2>2, GoesFields, ProcessFields
  <2>5. StillHolds(proc'[p], disk') BY <1>0, <2>3, <2>4 DEF StillHolds
  <2> QED BY <1>0, <2>1, <2>5, GoesFields, OthersHold
<1> QED BY <1>1, <1>2

(* The metadata that is there is written as it is.                          *)
LEMMA MetaKept ==
  ASSUME SoleIInv, NEW p \in Procs, WriteMeta(p), disk.meta.kind = "ok"
  PROVE  disk'.meta = disk.meta
<1>0. /\ SetupIInv /\ StillHolds(proc[p], disk) /\ proc[p].pc = "meta" /\ DOMAIN disk = DOMAIN Bare
      /\ disk.meta \in [kind : {None, "ok", Bad}, since : 0..MaxStarts] /\ disk.meta.since > 0
  BY DEF SoleIInv, SetupIInv, SetupTypeOK, WriteMeta, AtWork
<1>1. CASE ~disk.root \/ disk.meta_dir # "dir" BY <1>1 DEF WriteMeta
<1>2. CASE ~(~disk.root \/ disk.meta_dir # "dir")
  <2>1. disk'.meta = [kind |-> "ok", since |-> Since(p)] BY <1>0, <1>2 DEF WriteMeta, Bare
  <2>2. Since(p) = disk.meta.since BY <1>0, SetupAssumption DEF StillHolds, Since
  <2>3. disk.meta = [kind |-> disk.meta.kind, since |-> disk.meta.since] BY <1>0
  <2> QED BY <2>1, <2>2, <2>3
<1> QED BY <1>1, <1>2

(* The date that is written is the one that was read.                         *)
LEMMA WriteMetaHolds ==
  ASSUME SoleIInv, NEW p \in Procs, WriteMeta(p)
  PROVE  OneInitializes' /\ \A w \in Procs : StillHolds(proc'[w], disk')
<1>0. SetupIInv /\ proc[p].pc = "meta" /\ Initializing(p) BY DEF SoleIInv, WriteMeta, AtWork, Initializing
<1>1. CASE ~disk.root \/ disk.meta_dir # "dir" BY <1>1, OutcomeHolds DEF WriteMeta
<1>2. CASE ~(~disk.root \/ disk.meta_dir # "dir")
  <2>1. Goes(p, [pc |-> "identity"]) /\ disk'.identity = disk.identity
    <3>1. /\ Goes(p, [pc |-> "identity"])
          /\ disk' = [disk EXCEPT !.meta = [kind |-> "ok", since |-> Since(p)]]
      BY <1>2 DEF WriteMeta
    <3> QED BY <3>1
  <2>2. StillHolds(proc'[p], disk') BY <1>0, <2>1, OnlyPc DEF StillHolds
  <2> QED BY <1>0, <2>1, <2>2, OnlyPc, OthersHold
<1> QED BY <1>1, <1>2

(* There is no identity when one is made up unasked.                        *)
LEMMA ProvisionHolds ==
  ASSUME SoleIInv, NEW p \in Procs, Provision(p)
  PROVE  OneInitializes' /\ \A w \in Procs : StillHolds(proc'[w], disk')
<1>0. SetupIInv /\ disk' = disk /\ Initializing(p) BY DEF SoleIInv, Provision, AtWork, Initializing
<1>1. CASE Outcome(p, FALSE) BY <1>0, <1>1, OutcomeHolds
<1>2. CASE Goes(p, [pc |-> "config"])
  <2> DEFINE new == [pc |-> "config"]
  <2>1. Goes(p, new) /\ "pc" \in DOMAIN new /\ new["pc"] \in ConfigAhead BY <1>2 DEF ConfigAhead
  <2> HIDE DEF new
  <2> QED BY <1>0, <2>1, PlainHold
<1>3. ASSUME NEW slug, Goes(p, [pc |-> "save", slug |-> slug]), MustCreate(p)
      PROVE  OneInitializes' /\ \A w \in Procs : StillHolds(proc'[w], disk')
  <2> DEFINE new == [pc |-> "save", slug |-> slug]
  <2>1. Goes(p, new) BY <1>3
  <2>2. DOMAIN new = {"pc", "slug"} /\ new["pc"] = "save" OBVIOUS
  <2> HIDE DEF new
  <2>3. proc'[p].pc = "save" /\ proc'[p].force = proc[p].force /\ proc'[p].id = proc[p].id
    BY <1>0, <2>1, <2>2, GoesFields, ProcessFields
  <2>4. disk.identity \in Slugs => proc[p].force /\ proc[p].id # None
    BY <1>3, SetupAssumption DEF MustCreate, Forced, None
  <2>5. StillHolds(proc'[p], disk') BY <1>0, <2>3, <2>4 DEF StillHolds
  <2> QED BY <1>0, <2>1, <2>5, GoesFields, OthersHold
<1> QED BY <1>1, <1>2, <1>3 DEF Provision

(* Who saves an identity had found none, or was told to make one.             *)
LEMMA SaveIdentityHolds ==
  ASSUME SoleIInv, NEW p \in Procs, SaveIdentity(p)
  PROVE  OneInitializes' /\ \A w \in Procs : StillHolds(proc'[w], disk')
<1>0. /\ SetupIInv /\ StillHolds(proc[p], disk) /\ proc[p].pc = "save" /\ Initializing(p) /\ DOMAIN proc = Procs
      /\ \A q \in Procs : DOMAIN proc[q] = DOMAIN NoCommand
      /\ disk'.meta = disk.meta
  <2>1. SetupIInv /\ AtWork(p, "save") /\ \A q \in Procs : Fits(proc[q], disk) /\ StillHolds(proc[q], disk)
    BY DEF SoleIInv, SetupIInv, SaveIdentity
  <2>2. disk' = [disk EXCEPT !.root = TRUE, !.identity = proc[p].slug] BY DEF SaveIdentity
  <2>3. DOMAIN proc = Procs /\ \A q \in Procs : DOMAIN proc[q] = DOMAIN NoCommand
    BY <2>1 DEF SetupIInv, Fits, CommandOK
  <2> QED BY <2>1, <2>2, <2>3 DEF AtWork, Initializing
<1> DEFINE mine == [pc |-> "config"]
           others(q) == [touched |-> proc[q].touched \/ (Forced(p) /\ ~AtWork(q, "idle"))]
<1>1. proc' = [q \in Procs |-> Updated(proc[q], IF q = p THEN mine ELSE others(q))] BY DEF SaveIdentity
<1>2. DOMAIN mine = {"pc"} /\ mine.pc = "config" OBVIOUS
<1>3. \A q : DOMAIN others(q) = {"touched"}
      /\ others(q).touched = (proc[q].touched \/ (Forced(p) /\ ~AtWork(q, "idle"))) BY Zenon
<1> HIDE DEF mine, others
<1>4. DOMAIN proc' = Procs /\ proc'[p].pc = "config" BY <1>0, <1>1, <1>2, ProcessFields DEF Updated
<1>5. ASSUME NEW w \in Procs, w # p
      PROVE  /\ proc'[w].pc = proc[w].pc /\ proc'[w].id = proc[w].id /\ proc'[w].force = proc[w].force
             /\ proc'[w].since = proc[w].since /\ proc'[w].project = proc[w].project
             /\ proc[w].touched => proc'[w].touched
             /\ Forced(p) /\ ~AtWork(w, "idle") => proc'[w].touched
  <2>1. proc'[w] = Updated(proc[w], others(w)) BY <1>1, <1>5
  <2>2. /\ \A f \in DOMAIN NoCommand \ {"touched"} : proc'[w][f] = proc[w][f]
        /\ proc'[w].touched = others(w).touched
    BY <1>0, <1>3, <2>1, ProcessFields DEF Updated
  <2>3. proc[w].touched \/ (Forced(p) /\ ~AtWork(w, "idle")) => proc'[w].touched BY <1>3, <2>2
  <2> QED BY <2>2, <2>3, ProcessFields
<1>6. StillHolds(proc'[p], disk') BY <1>4 DEF StillHolds
<1>7. CASE Forced(p)
  <2>1. \A w \in Procs : w # p /\ proc[w].pc = "running" => proc'[w].touched BY <1>5, <1>7 DEF AtWork
  <2> QED BY <1>0, <1>4, <1>5, <1>6, <2>1, OthersHold
<1>8. CASE ~Forced(p)
  <2>1. disk.identity \notin Slugs BY <1>0, <1>8 DEF StillHolds, Forced
  <2> QED BY <1>0, <1>4, <1>5, <1>6, <2>1, OthersHold
<1> QED BY <1>7, <1>8

(* The configuration is not about identity or date.                           *)
LEMMA GenerateConfigHolds ==
  ASSUME SoleIInv, NEW p \in Procs, GenerateConfig(p)
  PROVE  OneInitializes' /\ \A w \in Procs : StillHolds(proc'[w], disk')
<1>0. /\ SetupIInv /\ proc[p].pc = "config" /\ Initializing(p) /\ DOMAIN proc = Procs
      /\ \A q \in Procs : DOMAIN proc[q] = DOMAIN NoCommand
      /\ disk'.meta = disk.meta /\ disk'.identity = disk.identity
  <2>1. SetupIInv /\ AtWork(p, "config") /\ \A q \in Procs : Fits(proc[q], disk) /\ StillHolds(proc[q], disk)
    BY DEF SoleIInv, SetupIInv, GenerateConfig
  <2>2. disk'.meta = disk.meta /\ disk'.identity = disk.identity
    <3>1. CASE disk' = disk BY <3>1
    <3>2. CASE disk' = [disk EXCEPT !.config = Generated(p)] BY <3>2
    <3> QED BY <3>1, <3>2 DEF GenerateConfig
  <2>3. DOMAIN proc = Procs /\ \A q \in Procs : DOMAIN proc[q] = DOMAIN NoCommand
    BY <2>1 DEF SetupIInv, Fits, CommandOK
  <2> QED BY <2>1, <2>2, <2>3 DEF AtWork, Initializing
<1>1. CASE Refused(p) BY <1>0, <1>1, OutcomeHolds DEF GenerateConfig
<1>2. CASE ~Refused(p)
  <2> DEFINE mine == [pc |-> "db"]
             others(q) == [broken |-> proc[q].broken /\ ~FileLoads(Generated(p))]
  <2>1. proc' = [q \in Procs |-> Updated(proc[q], IF q = p THEN mine ELSE others(q))] BY <1>2 DEF GenerateConfig
  <2>2. DOMAIN mine = {"pc"} /\ mine.pc = "db" /\ \A q : DOMAIN others(q) = {"broken"} OBVIOUS
  <2> HIDE DEF mine, others
  <2>3. DOMAIN proc' = Procs /\ proc'[p].pc = "db" BY <1>0, <2>1, <2>2, ProcessFields DEF Updated
  <2>4. \A w \in Procs : w # p => \A f \in DOMAIN NoCommand \ {"broken"} : proc'[w][f] = proc[w][f]
    BY <1>0, <2>1, <2>2, ProcessFields DEF Updated
  <2>5. \A w \in Procs : w # p =>
           /\ proc'[w].pc = proc[w].pc /\ proc'[w].id = proc[w].id /\ proc'[w].force = proc[w].force
           /\ proc'[w].since = proc[w].since /\ proc'[w].project = proc[w].project
           /\ proc'[w].touched = proc[w].touched
    BY <2>4, ProcessFields
  <2>6. StillHolds(proc'[p], disk') BY <2>3 DEF StillHolds
  <2> QED BY <1>0, <2>3, <2>5, <2>6, OthersHold
<1> QED BY <1>1, <1>2

(* A run takes the identity of the moment.                                  *)
LEMMA BuildContextHolds ==
  ASSUME SoleIInv, NEW p \in Procs, BuildContext(p)
  PROVE  OneInitializes' /\ \A w \in Procs : StillHolds(proc'[w], disk')
<1>0. SetupIInv /\ disk' = disk /\ ~Initializing(p) BY DEF SoleIInv, BuildContext, AtWork, Initializing
<1>1. CASE ~(Loads(disk.config) /\ disk.tiers) BY <1>0, <1>1, ExitHolds DEF BuildContext
<1>2. CASE Loads(disk.config) /\ disk.tiers
  <2> DEFINE project == IF disk.identity = Bad THEN None ELSE disk.identity
             new == [pc |-> "running", project |-> project]
  <2>1. Goes(p, new) BY <1>2 DEF BuildContext
  <2>2. DOMAIN new = {"pc", "project"} /\ new["pc"] = "running" /\ new["project"] = project OBVIOUS
  <2>3. project # None => project = disk.identity OBVIOUS
  <2> HIDE DEF new, project
  <2>4. proc'[p].pc = "running" /\ proc'[p].project = project BY <1>0, <2>1, <2>2, GoesFields, ProcessFields
  <2>5. StillHolds(proc'[p], disk') /\ ~Initializing(p)' BY <1>0, <2>3, <2>4 DEF StillHolds, Initializing
  <2> QED BY <1>0, <2>1, <2>5, GoesFields, OthersHold
<1> QED BY <1>1, <1>2

(* One case for each action.                                                *)
LEMMA SoleStep ==
  ASSUME SoleIInv, ~Rivals, [SetupNext]_wvars
  PROVE  OneInitializes' /\ \A w \in Procs : StillHolds(proc'[w], disk')
<1>0. SetupIInv /\ DOMAIN proc = Procs /\ \A q \in Procs : Fits(proc[q], disk) BY DEF SoleIInv, SetupIInv
<1> DEFINE Good == OneInitializes' /\ \A w \in Procs : StillHolds(proc'[w], disk')
<1>1. CASE UserEdits
  <2>1. PICK new \in Edits :
          proc' = [p \in Procs |-> Updated(proc[p], [touched |-> ~AtWork(p, "idle"),
                                                    broken |-> proc[p].broken /\ ~FileLoads(new.config)])]
          /\ disk' = new
    BY <1>1 DEF UserEdits
  <2> DEFINE change(p) == [touched |-> ~AtWork(p, "idle"), broken |-> proc[p].broken /\ ~FileLoads(new.config)]
  <2>2. proc' = [p \in Procs |-> Updated(proc[p], change(p))] BY <2>1
  <2>3. \A p : DOMAIN change(p) = {"touched", "broken"} /\ change(p).touched = ~AtWork(p, "idle") BY Zenon
  <2> HIDE DEF change
  <2>4. ASSUME NEW p \in Procs
        PROVE  /\ proc'[p].pc = proc[p].pc /\ proc'[p].id = proc[p].id /\ proc'[p].force = proc[p].force
               /\ proc'[p].since = proc[p].since /\ (proc'[p].touched \/ proc[p].pc = "idle")
    <3>1. DOMAIN proc[p] = DOMAIN NoCommand /\ proc'[p] = Updated(proc[p], change(p))
      BY <1>0, <2>2 DEF Fits, CommandOK
    <3>2. /\ \A f \in DOMAIN NoCommand \ {"touched", "broken"} : proc'[p][f] = proc[p][f]
          /\ proc'[p].touched = change(p).touched
      BY <2>3, <3>1, ProcessFields DEF Updated
    <3>3. change(p).touched \/ proc[p].pc = "idle" BY <2>3 DEF AtWork
    <3> QED BY <3>2, <3>3, ProcessFields
  <2>5. (disk'.identity = disk.identity \/ disk'.identity \notin Slugs)
        /\ (disk'.meta = disk.meta \/ disk'.meta.kind # "ok")
    <3>1. disk' \in Edits BY <2>1
    <3>2. DOMAIN disk = DOMAIN Bare /\ disk.meta \in [kind : {None, "ok", Bad}, since : 0..MaxStarts]
      BY <1>0 DEF SetupIInv, SetupTypeOK
    <3>3. None \notin Slugs /\ Bad \notin Slugs BY SetupAssumption DEF None, Bad
    <3>4. (disk'.identity \in {disk.identity, None, Bad}) /\ (disk'.meta \in {disk.meta, NoMeta, [disk.meta EXCEPT !.kind = Bad]})
      <4>1. CASE \/ disk' = Gone \/ disk' = [disk EXCEPT !.meta_dir = "file", !.meta = NoMeta]
                 \/ disk' = [disk EXCEPT !.meta.kind = Bad]
        BY <3>2, <4>1 DEF Bare, Gone
      <4>2. CASE \/ disk' = [disk EXCEPT !.identity = None] \/ disk' = [disk EXCEPT !.identity = Bad]
                 \/ disk' = [disk EXCEPT !.ignore = FALSE] \/ disk' = [disk EXCEPT !.git = ~@]
                 \/ disk' = [disk EXCEPT !.tiers = ~@] \/ disk' = [disk EXCEPT !.db = FALSE]
        BY <3>2, <4>2 DEF Bare
      <4>3. CASE \/ \E config \in SavedConfigs : disk' = [disk EXCEPT !.config = config]
                 \/ \E t \in Templates : disk' = [disk EXCEPT !.seeds = @ \ {t}]
        BY <3>2, <4>3 DEF Bare
      <4> QED BY <2>1, <4>1, <4>2, <4>3, EditForms
    <3>5. NoMeta.kind # "ok" /\ [disk.meta EXCEPT !.kind = Bad].kind # "ok" BY <3>2 DEF NoMeta, None, Bad
    <3> QED BY <3>3, <3>4, <3>5
  <2>6. OneInitializes' BY <2>4 DEF SoleIInv, OneInitializes, Initializing
  <2> QED BY <2>4, <2>5, <2>6 DEF SoleIInv, StillHolds
<1>2. ASSUME NEW p \in Procs, Step(p) PROVE Good
  <2>1. CASE InitCommand(p) \/ RunCommand(p) \/ DoctorCommand(p) \/ Follow(p)
    <3>1. PICK new : /\ proc' = [proc EXCEPT ![p] = Updated(NoCommand, new)] /\ disk' = disk
                     /\ "pc" \in DOMAIN new /\ new["pc"] \in {"preflight", "lazy", "check"}
      <4>1. CASE InitCommand(p)
        <5>1. PICK option \in InitOptions :
                Start(p, [pc |-> "preflight", op |-> "init",
                          id |-> option.id, force |-> option.force, policy |-> option.policy])
          BY <4>1 DEF InitCommand
        <5> DEFINE new == [pc |-> "preflight", op |-> "init",
                           id |-> option.id, force |-> option.force, policy |-> option.policy]
        <5>2. "pc" \in DOMAIN new /\ new["pc"] = "preflight" OBVIOUS
        <5>3. proc' = [proc EXCEPT ![p] = Updated(NoCommand, new)] /\ disk' = disk BY <5>1 DEF Start
        <5> HIDE DEF new
        <5> QED BY <5>2, <5>3
      <4>2. CASE RunCommand(p)
        <5> DEFINE new == [pc |-> "lazy", op |-> "run"]
        <5>2. "pc" \in DOMAIN new /\ new["pc"] = "lazy" OBVIOUS
        <5>3. proc' = [proc EXCEPT ![p] = Updated(NoCommand, new)] /\ disk' = disk BY <4>2 DEF RunCommand, Start
        <5> HIDE DEF new
        <5> QED BY <5>2, <5>3
      <4>3. CASE DoctorCommand(p)
        <5>1. PICK env \in Environments, category \in Categories :
                Start(p, [pc |-> "check", op |-> "doctor", env |-> env, only |-> category,
                          rest |-> Selected(category),
                          config |-> IF Loads(disk.config) /\ disk.tiers THEN disk.config ELSE NoConfig,
                          broken |-> ~FileLoads(disk.config)])
          BY <4>3 DEF DoctorCommand
        <5> DEFINE new == [pc |-> "check", op |-> "doctor", env |-> env, only |-> category,
                           rest |-> Selected(category),
                           config |-> IF Loads(disk.config) /\ disk.tiers THEN disk.config ELSE NoConfig,
                           broken |-> ~FileLoads(disk.config)]
        <5>2. "pc" \in DOMAIN new /\ new["pc"] = "check" OBVIOUS
        <5>3. proc' = [proc EXCEPT ![p] = Updated(NoCommand, new)] /\ disk' = disk BY <5>1 DEF Start
        <5> HIDE DEF new
        <5> QED BY <5>2, <5>3
      <4>4. CASE Follow(p)
        <5> DEFINE new == [pc |-> "preflight", op |-> "init",
                           policy |-> IF Advised(p, "dovo init --repair") THEN "repair" ELSE "skip"]
        <5>2. "pc" \in DOMAIN new /\ new["pc"] = "preflight" OBVIOUS
        <5>3. proc' = [proc EXCEPT ![p] = Updated(NoCommand, new)] /\ disk' = disk BY <4>4 DEF Follow
        <5> HIDE DEF new
        <5> QED BY <5>2, <5>3
      <4> QED BY <2>1, <4>1, <4>2, <4>3, <4>4
    <3>2. Updated(NoCommand, new).pc = new["pc"] BY <3>1, ProcessFields DEF Updated
    <3> QED BY <3>1, <3>2, FreshHold
  <2>2. CASE Killed(p) \/ Leave(p)
    <3>1. proc' = [proc EXCEPT ![p] = NoCommand] /\ disk' = disk BY <2>2 DEF Killed, Leave
    <3> QED BY <3>1, NoCommandIs, FreshHold
  <2>3. CASE Lazy(p)
    <3>1. PICK next \in {"preflight", "context"} : Goes(p, [pc |-> next]) /\ disk' = disk BY <2>3 DEF Lazy
    <3> DEFINE new == [pc |-> next]
    <3>2. Goes(p, new) /\ "pc" \in DOMAIN new /\ new["pc"] \in {"preflight", "context"} BY <3>1
    <3> HIDE DEF new
    <3> QED BY <3>1, <3>2, PlainHold
  <2>4. CASE EnsureRoot(p)
    <3>1. Goes(p, [pc |-> "meta_dir"]) /\ proc[p].pc = "root" /\ disk'.meta = disk.meta /\ disk'.identity = disk.identity
      BY <2>4 DEF EnsureRoot, AtWork
    <3> QED BY <3>1, NextPartHolds
  <2>5. CASE EnsureSubdirs(p)
    <3>1. CASE disk.meta_dir = "file" BY <2>5, <3>1, OutcomeHolds DEF EnsureSubdirs
    <3>2. CASE disk.meta_dir # "file"
      <4>1. Goes(p, [pc |-> "ignore"]) /\ proc[p].pc = "meta_dir" BY <2>5, <3>2 DEF EnsureSubdirs, AtWork
      <4>2. disk' = [disk EXCEPT !.root = TRUE, !.meta_dir = "dir"] BY <2>5, <3>2 DEF EnsureSubdirs
      <4>3. disk'.meta = disk.meta /\ disk'.identity = disk.identity BY <4>2
      <4> QED BY <4>1, <4>3, NextPartHolds
    <3> QED BY <3>1, <3>2
  <2>6. CASE SeedGitignore(p)
    <3>1. Goes(p, [pc |-> "meta"]) /\ proc[p].pc = "ignore" /\ disk'.meta = disk.meta /\ disk'.identity = disk.identity
      BY <2>6 DEF SeedGitignore, AtWork
    <3> QED BY <3>1, NextPartHolds
  <2>7. CASE InitDatabase(p)
    <3>1. PICK new : /\ Goes(p, new) /\ "pc" \in DOMAIN new /\ new["pc"] \in ConfigAhead
                     /\ disk'.meta = disk.meta /\ disk'.identity = disk.identity
      BY <2>7 DEF InitDatabase, ConfigAhead
    <3>2. Initializing(p) BY <2>7 DEF InitDatabase, AtWork, Initializing
    <3> QED BY <3>1, <3>2, PlainHold
  <2>8. CASE SeedOne(p)
    <3>1. PICK new : /\ Goes(p, new) /\ "pc" \notin DOMAIN new /\ proc[p].pc = "seed"
                     /\ disk'.meta = disk.meta /\ disk'.identity = disk.identity
      BY <2>8 DEF SeedOne, AtWork
    <3> QED BY <3>1, PlainHold
  <2>9. CASE Check(p)
    <3>1. PICK found :
            Goes(p, [rest |-> Tail(proc[p].rest),
                     report |-> IF found = Fine THEN proc[p].report ELSE proc[p].report \cup {found}])
      BY <2>9 DEF Check
    <3>2. proc[p].pc = "check" /\ disk'.meta = disk.meta /\ disk'.identity = disk.identity BY <2>9 DEF Check, AtWork
    <3>3. PICK new : Goes(p, new) /\ "pc" \notin DOMAIN new BY <3>1
    <3> QED BY <3>2, <3>3, PlainHold
  <2>10. CASE Fault(p)
    <3>1. disk' = disk BY <2>10 DEF Fault
    <3>2. CASE Outcome(p, FALSE) BY <3>1, <3>2, OutcomeHolds
    <3>3. CASE Exits(p, FALSE) BY <3>1, <3>3, ExitHolds
    <3>4. CASE AtWork(p, "seed") /\ Goes(p, [ok |-> SeedFailure(p), rest |-> Tail(proc[p].rest)])
      <4>1. PICK new : Goes(p, new) /\ "pc" \notin DOMAIN new BY <3>4
      <4> QED BY <3>1, <3>4, <4>1, PlainHold DEF AtWork
    <3> QED BY <2>10, <3>2, <3>3, <3>4 DEF Fault
  <2>11. CASE Initialized(p) BY <2>11, OutcomeHolds DEF Initialized
  <2>12. CASE RunEnds(p) BY <2>12, ExitHolds DEF RunEnds
  <2>13. CASE Reported(p)
    <3>1. PICK ok : Exits(p, ok) /\ disk' = disk BY <2>13 DEF Reported
    <3> QED BY <3>1, ExitHolds
  <2> QED BY <1>2, <2>1, <2>2, <2>3, <2>4, <2>5, <2>6, <2>7, <2>8, <2>9, <2>10, <2>11, <2>12, <2>13,
             PreflightHolds, WriteMetaHolds, ProvisionHolds, SaveIdentityHolds, GenerateConfigHolds, BuildContextHolds
          DEF Step
<1>3. CASE UNCHANGED wvars
  BY <1>3 DEF wvars, SoleIInv, OneInitializes, Initializing
<1> QED BY <1>1, <1>2, <1>3 DEF SetupNext

(* With one initialization at a time, a run stores under the identity of its
   workspace, which no repetition, repair or rival run changes unasked; and
   the date of the first initialization is never lost.                       *)
THEOREM IdentityStays == ~Rivals /\ SetupSpec => IdentityIsStable
<1> SUFFICES ASSUME ~Rivals PROVE SetupSpec => IdentityIsStable OBVIOUS
<1>1. SetupInit => SoleIInv
  <2> SUFFICES ASSUME SetupInit PROVE SoleIInv OBVIOUS
  <2>1. \A p \in Procs : proc[p].pc = "idle" BY NoCommandIs DEF SetupInit
  <2> QED BY <2>1, SetupStart DEF SoleIInv, OneInitializes, Initializing, StillHolds
<1>2. SoleIInv /\ [SetupNext]_wvars => SoleIInv'
  BY SetupStep, SoleStep DEF SoleIInv
<1>3. SoleIInv => RunBelongsToWorkspace
  BY DEF SoleIInv, StillHolds, RunBelongsToWorkspace, AtWork
<1>4. SoleIInv /\ [SetupNext]_wvars =>
        [setup_spent'.edits = setup_spent.edits =>
           /\ disk.identity \in Slugs /\ disk'.identity # disk.identity => \E p \in Procs : AtWork(p, "save") /\ Forced(p)
           /\ disk.meta.kind = "ok" => disk'.meta = disk.meta]_wvars
  <2> SUFFICES ASSUME SoleIInv, SetupNext, setup_spent'.edits = setup_spent.edits
               PROVE  /\ disk.identity \in Slugs /\ disk'.identity # disk.identity =>
                            \E p \in Procs : AtWork(p, "save") /\ Forced(p)
                      /\ disk.meta.kind = "ok" => disk'.meta = disk.meta
    OBVIOUS
  <2>1. ~UserEdits BY DEF UserEdits, SoleIInv, SetupIInv, StartsOK
  <2>2. PICK p \in Procs : Step(p) BY <2>1 DEF SetupNext
  <2>3. CASE WriteMeta(p)
    <3>1. disk' = disk \/ disk' = [disk EXCEPT !.meta = [kind |-> "ok", since |-> Since(p)]] BY <2>3 DEF WriteMeta
    <3>2. disk'.identity = disk.identity
      <4>1. CASE disk' = disk BY <4>1
      <4>2. CASE disk' = [disk EXCEPT !.meta = [kind |-> "ok", since |-> Since(p)]] BY <4>2
      <4> QED BY <3>1, <4>1, <4>2
    <3> QED BY <2>3, <3>2, MetaKept
  <2>4. CASE SaveIdentity(p)
    <3>1. disk'.meta = disk.meta /\ AtWork(p, "save") BY <2>4 DEF SaveIdentity
    <3>2. Forced(p) \/ disk.identity \notin Slugs BY <3>1 DEF SoleIInv, StillHolds, Forced, AtWork
    <3> QED BY <3>1, <3>2
  <2>5. CASE ~WriteMeta(p) /\ ~SaveIdentity(p)
    <3>1. \/ disk' = disk \/ disk' = [disk EXCEPT !.root = TRUE]
          \/ disk' = [disk EXCEPT !.root = TRUE, !.meta_dir = "dir"]
          \/ disk' = [disk EXCEPT !.root = TRUE, !.ignore = TRUE]
          \/ disk' = [disk EXCEPT !.config = Generated(p)]
          \/ disk' = [disk EXCEPT !.db = TRUE]
          \/ disk' = [disk EXCEPT !.root = TRUE, !.seeds = @ \cup {Head(proc[p].rest)}]
      BY <2>2, <2>5
         DEF Step, InitCommand, RunCommand, DoctorCommand, Start, Lazy, Preflight, EnsureRoot, EnsureSubdirs,
             SeedGitignore, Provision, GenerateConfig, InitDatabase, SeedOne, Initialized, BuildContext, RunEnds,
             Check, Reported, Follow, Fault, Killed, Leave
    <3>2. disk'.meta = disk.meta /\ disk'.identity = disk.identity
      <4>1. "meta" \in DOMAIN disk /\ "identity" \in DOMAIN disk BY DEF SoleIInv, SetupIInv, SetupTypeOK, Bare
      <4>2. CASE disk' = disk BY <4>2
      <4>3. CASE disk' = [disk EXCEPT !.root = TRUE] BY <4>1, <4>3
      <4>4. CASE disk' = [disk EXCEPT !.root = TRUE, !.meta_dir = "dir"] BY <4>1, <4>4
      <4>5. CASE disk' = [disk EXCEPT !.root = TRUE, !.ignore = TRUE] BY <4>1, <4>5
      <4>6. CASE disk' = [disk EXCEPT !.config = Generated(p)] BY <4>1, <4>6
      <4>7. CASE disk' = [disk EXCEPT !.db = TRUE] BY <4>1, <4>7
      <4>8. CASE disk' = [disk EXCEPT !.root = TRUE, !.seeds = @ \cup {Head(proc[p].rest)}] BY <4>1, <4>8
      <4> QED BY <3>1, <4>2, <4>3, <4>4, <4>5, <4>6, <4>7, <4>8
    <3> QED BY <3>2
  <2> QED BY <2>3, <2>4, <2>5
<1> QED BY <1>1, <1>2, <1>3, <1>4, PTL DEF SetupSpec, IdentityIsStable, FirstInitIsRemembered

=============================================================================
