---------------------------- MODULE WorktreesProofs ----------------------------
(***************************************************************************)
(* What create, apply, delete, list and prune keep true of worktrees, for   *)
(* any number of processes, worktrees and namespaces, whatever fails.       *)
(***************************************************************************)
EXTENDS Worktrees, FiniteSetTheorems, SequenceTheorems, TLAPS

----------------------------------------------------------------------------
(* Sequences that are put together.                                         *)

(* Induction over the naturals as a fact about a set.                       *)
LEMMA NatSet ==
  ASSUME NEW S \in SUBSET Nat, 0 \in S, \A n \in S : n + 1 \in S
  PROVE  S = Nat
<1> SUFFICES ASSUME NEW m \in Nat, m \notin S PROVE FALSE OBVIOUS
<1> DEFINE Bad == {1 .. n : n \in Nat \ S}
<1>1. Bad # {} /\ Bad \subseteq FiniteSubsetsOf(Nat)
  <2>1. \A n \in Nat : 1 .. n \in SUBSET Nat /\ IsFiniteSet(1 .. n) BY FS_Interval
  <2> QED BY <2>1 DEF FiniteSubsetsOf
<1>2. PICK B \in Bad : \A C \in Bad : ~(<<C, B>> \in StrictSubsetOrdering(Nat))
  <2> HIDE DEF Bad
  <2> QED BY <1>1, FS_StrictSubsetOrderingWellFounded, WFMin
<1>3. PICK n \in Nat \ S : B = 1 .. n OBVIOUS
<1>4. n # 0 /\ n - 1 \in Nat \ S BY SMT
<1>5. /\ 1 .. (n - 1) \in Bad /\ 1 .. n \in Bad
      /\ 1 .. (n - 1) \subseteq 1 .. n
      /\ n \in 1 .. n /\ n \notin 1 .. (n - 1) /\ 1 .. n \subseteq Nat /\ 1 .. (n - 1) \subseteq Nat
  BY <1>3, <1>4
<1>6. <<1 .. (n - 1), 1 .. n>> \in StrictSubsetOrdering(Nat)
  <2> HIDE DEF Bad
  <2> QED BY <1>5 DEF StrictSubsetOrdering
<1> QED BY <1>2, <1>3, <1>5, <1>6

(* FlattenSeq is defined by recursion over the sequences it joins; the      *)
(* function that does it exists, and so what all of them are in, and \o      *)
(* preserves, is what their concatenation is in.                            *)
Joins(f, n, seqs) == f = [i \in 1 .. n |-> IF i = 1 THEN seqs[i] ELSE f[i - 1] \o seqs[i]]

LEMMA JoinExists ==
  ASSUME NEW seqs
  PROVE  \A n \in Nat : \E f : Joins(f, n, seqs)
<1> DEFINE S == {n \in Nat : \E f : Joins(f, n, seqs)}
<1>1. 0 \in S
  <2> DEFINE f == [i \in 1 .. 0 |-> {}]
  <2>1. Joins(f, 0, seqs) BY DEF Joins
  <2> QED BY <2>1
<1>2. ASSUME NEW n \in S PROVE n + 1 \in S
  <2>1. PICK f : Joins(f, n, seqs) OBVIOUS
  <2> DEFINE g == [i \in 1 .. (n + 1) |->
                      IF i = n + 1 THEN IF n = 0 THEN seqs[1] ELSE f[n] \o seqs[n + 1] ELSE f[i]]
  <2>2. \A i \in 1 .. (n + 1) : g[i] = IF i = 1 THEN seqs[i] ELSE g[i - 1] \o seqs[i]
    <3> SUFFICES ASSUME NEW i \in 1 .. (n + 1)
                 PROVE  g[i] = IF i = 1 THEN seqs[i] ELSE g[i - 1] \o seqs[i] OBVIOUS
    <3>1. CASE i = n + 1
      BY <3>1
    <3>2. CASE i # n + 1
      <4>1. i \in 1 .. n /\ g[i] = f[i] /\ (i # 1 => i - 1 \in 1 .. (n + 1) /\ g[i - 1] = f[i - 1]) BY <3>2
      <4>2. f[i] = IF i = 1 THEN seqs[i] ELSE f[i - 1] \o seqs[i] BY <2>1, <4>1 DEF Joins
      <4> QED BY <4>1, <4>2
    <3> QED BY <3>1, <3>2
  <2>3. Joins(g, n + 1, seqs) BY <2>2 DEF Joins
  <2> QED BY <2>3
<1>3. S = Nat
  <2> HIDE DEF S
  <2>1. S \in SUBSET Nat BY DEF S
  <2> QED BY <1>1, <1>2, <2>1, NatSet
<1> QED BY <1>3

LEMMA FlattenIn ==
  ASSUME NEW G, NEW m \in Nat, NEW seqs \in [1 .. m -> G], <<>> \in G,
         \A s, t \in G : s \o t \in G
  PROVE  FlattenSeq(seqs) \in G
<1>1. Len(seqs) = m /\ (m = 0 => seqs = <<>>)
  OBVIOUS
<1>2. CASE m = 0 BY <1>1, <1>2 DEF FlattenSeq
<1>3. CASE m # 0
  <2> DEFINE J == CHOOSE f : Joins(f, m, seqs)
  <2>1. Joins(J, m, seqs) BY JoinExists
  <2>2. FlattenSeq(seqs) = J[m] BY <1>1, <1>3 DEF FlattenSeq, Joins
  <2> DEFINE S == {n \in Nat : n + 1 \in 1 .. m => J[n + 1] \in G}
  <2> HIDE DEF J
  <2>3. 0 \in S BY <2>1, <1>3 DEF Joins
  <2>4. ASSUME NEW n \in S PROVE n + 1 \in S
    <3> SUFFICES ASSUME n + 2 \in 1 .. m PROVE J[n + 2] \in G OBVIOUS
    <3>1. n + 1 \in 1 .. m /\ J[n + 1] \in G /\ seqs[n + 2] \in G OBVIOUS
    <3>2. n + 2 # 1 /\ (n + 2) - 1 = n + 1 OBVIOUS
    <3>3. J[n + 2] = J[(n + 2) - 1] \o seqs[n + 2] BY <2>1, <3>2 DEF Joins
    <3> QED BY <3>1, <3>2, <3>3
  <2>5. S = Nat
    <3> HIDE DEF S
    <3>1. S \in SUBSET Nat BY DEF S
    <3> QED BY <2>3, <2>4, <3>1, NatSet
  <2>6. m - 1 \in Nat BY <1>3
  <2>7. m - 1 \in S BY <2>5, <2>6
  <2>8. (m - 1) + 1 \in 1 .. m /\ (m - 1) + 1 = m BY <1>3
  <2> QED BY <2>2, <2>7, <2>8
<1> QED BY <1>2, <1>3
----------------------------------------------------------------------------
(* What a process does to what others rely on.                              *)

Acts(p) ==
    \/ Start(p) \/ Confirm(p) \/ GiveUp(p) \/ Take(p) \/ Progress(p)
    \/ AutoApply(p) \/ CloseRun(p) \/ Crash(p)

(* Rows come only from a creation, and are MERGED only when the changes are *)
(* applied; directories, registrations and branches come only from the      *)
(* section that adds them.                                                  *)
RowFrame(p) ==
    \A i \in Ids :
        \/ row'[i] = row[i]
        \/ row[i] = "none" /\ row'[i] = "active" /\ pc[p] = "persist" /\ id[p] = i
        \/ row[i] # "none" /\ row'[i] \in {"cleaned", "conflict"}
        \/ row[i] # "none" /\ row'[i] = "merged" /\ i \in applied

DiskFrame(p) ==
    /\ \A i \in Ids \ {id[p]} :
          /\ i \in dirs' => i \in dirs
          /\ i \in refs' => i \in refs
          /\ i \in branches' => i \in branches
          /\ i \in applied => i \in applied'
    /\ pc[p] # "add" => /\ dirs' \subseteq dirs /\ refs' \subseteq refs
                        /\ branches' \subseteq branches /\ applied \subseteq applied'
    /\ dirs \subseteq dirs' \/ pc[p] = "steps"

(* A process names a new worktree, or goes on with the one it named.        *)
NewFrame(p) ==
    op'[p] = "create" =>
        \/ /\ op[p] = "create" /\ id'[p] = id[p] /\ pc[p] # "persist"
           /\ pc'[p] \in {"wait", "add"} => pc[p] = "wait"
        \/ /\ id'[p] \in Temps /\ row[id'[p]] = "none" /\ id'[p] \notin dirs \cup refs \cup branches
           /\ \A q \in Procs : id[q] # id'[p]
           /\ pc[p] = "idle"

Frame(p) ==
    /\ \A q \in Procs \ {p} : /\ pc'[q] = pc[q] /\ op'[q] = op[q] /\ id'[q] = id[q]
                            /\ todo'[q] = todo[q] /\ using'[q] = using[q]
    /\ lock' = lock \/ (lock \in {p, NoProc} /\ lock' \in {p, NoProc})
    /\ RowFrame(p) /\ DiskFrame(p) /\ NewFrame(p)
    /\ faults' = 0 => faults = 0

LEMMA HeadAndTail ==
  ASSUME NEW S, NEW seq \in Seq(S), seq # <<>>
  PROVE  /\ Head(seq) \in S /\ Head(seq) \in ToSet(seq)
         /\ Tail(seq) \in Seq(S) /\ ToSet(Tail(seq)) \subseteq ToSet(seq)
         /\ Len(Tail(seq)) = Len(seq) - 1 /\ Len(seq) \in Nat \ {0}
         /\ \A n \in 1 .. Len(Tail(seq)) : Tail(seq)[n] = seq[n + 1]
<1>1. Len(seq) \in Nat \ {0} /\ DOMAIN seq = 1 .. Len(seq) BY EmptySeq
<1>2. /\ Head(seq) = seq[1] /\ Tail(seq) \in Seq(S) /\ Len(Tail(seq)) = Len(seq) - 1
      /\ \A n \in 1 .. Len(Tail(seq)) : Tail(seq)[n] = seq[n + 1]
  BY <1>1
<1>3. ToSet(Tail(seq)) \subseteq ToSet(seq)
  <2>1. DOMAIN Tail(seq) = 1 .. (Len(seq) - 1) BY <1>2
  <2>2. \A n \in 1 .. (Len(seq) - 1) : n + 1 \in 1 .. Len(seq) /\ Tail(seq)[n] = seq[n + 1]
    BY <1>1, <1>2
  <2> QED BY <2>1, <2>2, <1>1 DEF ToSet
<1> QED BY <1>1, <1>2, <1>3 DEF ToSet

(* The step a process is about to make.                                     *)
LEMMA NextStep ==
  ASSUME IInv, NEW p \in Procs, Step(p)
  PROVE  /\ todo[p] \in Seq(Primitive) /\ todo[p] # <<>> /\ Head(todo[p]) \in Primitive
         /\ pc[p] = "steps" => KnownStep(p, Head(todo[p]))
         /\ pc[p] = "list" => KnownLook(Head(todo[p])) /\ Head(todo[p]).do \in {"row", "check"}
<1>1. todo[p] \in Seq(Primitive) /\ todo[p] # <<>> BY DEF IInv, TypeOK, Step
<1>2. Head(todo[p]) \in Primitive /\ Head(todo[p]) \in ToSet(todo[p]) BY <1>1, HeadAndTail
<1> QED BY <1>1, <1>2 DEF IInv, StepsAreKnown, KnownLook, Check, Mark

(* A step of a process leaves to the others what they rely on.              *)
LEMMA FrameStep ==
  ASSUME IInv, NEW p \in Procs, Acts(p)
  PROVE  Frame(p)
<1>0. /\ pc \in [Procs -> PCs] /\ op \in [Procs -> Ops] /\ id \in [Procs -> Ids \cup {NoId}]
      /\ todo \in [Procs -> Seq(Primitive)] /\ row \in [Ids -> Status]
      /\ using \in [Procs -> Ids \cup {NoId}]
      /\ SectionFits(p) /\ StepsAreKnown(p) /\ faults \in Nat
      /\ NoId \notin Ids
  BY WorktreesAssumption DEF IInv, TypeOK
<1> USE <1>0 DEF Frame, RowFrame, DiskFrame, NewFrame, Goto, SectionFits, InSection, disk, proc
<1>1. CASE \E k \in Keys : StartRun(p, k) BY <1>1 DEF StartRun, Command, Act
<1>2. CASE \E k \in Keys : ResumeRun(p, k) BY <1>2 DEF ResumeRun, Act
<1>3. CASE \E t \in Temps : CreateCommand(p, t) BY <1>3 DEF CreateCommand, Command, Act
<1>4. CASE \E i \in Ids : ApplyCommand(p, i) BY <1>4 DEF ApplyCommand, Command, Act
<1>5. CASE \E i \in Ids : DeleteCommand(p, i) BY <1>5 DEF DeleteCommand, Command, Act
<1>6. CASE \E i \in Ids : ShowCommand(p, i) BY <1>6 DEF ShowCommand, Command, Act, Read
<1>7. CASE \E force \in BOOLEAN : PruneCommand(p, force) BY <1>7 DEF PruneCommand, Command
<1>8. CASE ListCommand(p) BY <1>8 DEF ListCommand, Command, Act, Read
<1>9. CASE Confirm(p) BY <1>9 DEF Confirm
<1>10. CASE GiveUp(p) BY <1>10 DEF GiveUp, Idle
<1>11. CASE Take(p) BY <1>11 DEF Take
<1>12. CASE AutoApply(p) BY <1>12 DEF AutoApply
<1>13. CASE CloseRun(p) BY <1>13 DEF CloseRun, Idle
<1>14. CASE Crash(p) BY <1>14 DEF Crash, Idle, Fault
<1>15. CASE RefusedNoRoom(p) BY <1>15 DEF RefusedNoRoom, Idle
<1>16. CASE Add(p) BY <1>16 DEF Add
<1>17. CASE AddFails(p) BY <1>17 DEF AddFails, Begin, Fault, NoFault
<1>18. CASE Build(p) BY <1>18 DEF Build, Begin, Fault, NoFault
<1>19. CASE Persist(p) BY <1>19 DEF Persist, Idle, Fault, NoFault
<1>20. CASE RefuseApply(p) BY <1>20 DEF RefuseApply, Refuse, Idle, Fault, NoFault
<1>21. CASE AcceptApply(p) BY <1>21 DEF AcceptApply
<1>22. CASE Conflict(p) BY <1>22 DEF Conflict, Refuse, Idle, Fault, NoFault
<1>23. CASE Verified(p) BY <1>23 DEF Verified
<1>24. CASE NotPatched(p) BY <1>24 DEF NotPatched, Refuse, Idle
<1>25. CASE Patch(p) BY <1>25 DEF Patch, Begin
<1>26. CASE Squash(p) BY <1>26 DEF Squash, Begin
<1>27. CASE SquashFails(p) BY <1>27 DEF SquashFails, Idle, Fault
<1>28. CASE Detect(p) BY <1>28 DEF Detect, Begin, Fault, NoFault
<1>29. CASE Step(p)
  <2> DEFINE s == Head(todo[p])
  <2>1. /\ s \in Primitive /\ (pc[p] = "steps" => KnownStep(p, s)) /\ pc[p] \in {"steps", "list"}
        /\ pc[p] = "list" => KnownLook(s) /\ s.do \in {"row", "check"}
    BY <1>29, NextStep DEF Step
  <2>2. s.do = "row" => s.id \in Ids /\ s.to \in {"cleaned", "merged"} /\ (s.to = "merged" => s.id \in applied)
    BY <2>1 DEF KnownStep, KnownLook, Mark, Check, Primitive
  <2>3. \A q \in Procs \ {p} : todo'[q] = todo[q] BY <1>29 DEF Step
  <2>4. UNCHANGED <<pc, op, id, lock, applied, using>> BY <1>29 DEF Step
  <2>5. /\ faults' = 0 => faults = 0
        /\ dirs' \subseteq dirs /\ refs' \subseteq refs /\ branches' \subseteq branches
        /\ dirs' = dirs \/ s.do = "dir"
    <3>1. CASE s.do = "dir" /\ RemoveDir(s.id) /\ UNCHANGED <<branches, row>>
      BY <3>1 DEF RemoveDir, Fault, NoFault
    <3>2. CASE s.do = "row" /\ UpdateStatus(s.id, s.to) /\ UNCHANGED disk
      BY <3>2 DEF UpdateStatus, Fault, NoFault
    <3>3. CASE s.do = "branch" /\ DeleteBranch(s.id) /\ UNCHANGED <<dirs, nests, refs, row>>
      BY <3>3 DEF DeleteBranch, Fault, NoFault
    <3>4. CASE s.do = "refs" /\ PruneRefs /\ UNCHANGED <<dirs, nests, branches, work, row>>
      BY <3>4 DEF PruneRefs, Fault, NoFault
    <3>5. CASE s.do = "check" /\ NoFault /\ UNCHANGED <<disk, row>>
      BY <3>5 DEF NoFault
    <3> QED BY <1>29, <3>1, <3>2, <3>3, <3>4, <3>5 DEF Step
  <2>6. \A i \in Ids : \/ row'[i] = row[i]
                       \/ row[i] # "none" /\ row'[i] = "cleaned"
                       \/ row[i] # "none" /\ row'[i] = "merged" /\ i \in applied
    <3>1. row' = row \/ (s.do = "row" /\ row' = [row EXCEPT ![s.id] = s.to] /\ row[s.id] # "none")
      BY <1>29 DEF Step, UpdateStatus
    <3> QED BY <2>2, <3>1
  <2>7. s.do = "dir" => pc[p] = "steps" BY <2>1
  <2>8. op'[p] = op[p] /\ id'[p] = id[p] /\ pc'[p] = pc[p] /\ pc[p] \notin {"persist", "wait", "add"} BY <2>1, <2>4
  <2> HIDE DEF s
  <2> QED BY <2>3, <2>4, <2>5, <2>6, <2>7, <2>8
<1>30. CASE Done(p) BY <1>30 DEF Done, Idle
<1> QED
  BY <1>1, <1>2, <1>3, <1>4, <1>5, <1>6, <1>7, <1>8, <1>9, <1>10, <1>11, <1>12, <1>13, <1>14, <1>15,
    <1>16, <1>17, <1>18, <1>19, <1>20, <1>21, <1>22, <1>23, <1>24, <1>25, <1>26, <1>27, <1>28,
    <1>29, <1>30
  DEF Acts, Start, Progress, InLock
----------------------------------------------------------------------------
(* What the pruner is given to do.                                          *)

LEMMA SetToSeqType ==
  ASSUME NEW S, IsFiniteSet(S)
  PROVE  Cardinality(S) \in Nat /\ SetToSeq(S) \in [1 .. Cardinality(S) -> S]
<1>1. Cardinality(S) \in Nat /\ ExistsBijection(1 .. Cardinality(S), S) BY FS_CardinalityType
<1>2. \E f \in [1 .. Cardinality(S) -> S] : IsInjective(f)
  BY <1>1 DEF ExistsBijection, Bijection, Injection
<1> QED BY <1>1, <1>2 DEF SetToSeq

(* The sequences of steps that fit a prune.                                 *)
PruneSteps(p) ==
    {s \in Seq(Primitive) :
        (\A n \in DOMAIN s : KnownStep(p, s[n])) /\ (faults = 0 => DirThenMark(s))}

LEMMA PruneStepsJoin ==
  ASSUME NEW p \in Procs
  PROVE  <<>> \in PruneSteps(p) /\ \A s, t \in PruneSteps(p) : s \o t \in PruneSteps(p)
<1>1. <<>> \in PruneSteps(p) BY DEF PruneSteps, DirThenMark
<1>2. ASSUME NEW s \in PruneSteps(p), NEW t \in PruneSteps(p) PROVE s \o t \in PruneSteps(p)
  <2>1. /\ s \in Seq(Primitive) /\ t \in Seq(Primitive) /\ s \o t \in Seq(Primitive)
        /\ Len(s) \in Nat /\ Len(t) \in Nat /\ Len(s \o t) = Len(s) + Len(t)
        /\ DOMAIN s = 1 .. Len(s) /\ DOMAIN t = 1 .. Len(t) /\ DOMAIN (s \o t) = 1 .. Len(s) + Len(t)
        /\ \A n \in 1 .. Len(s) + Len(t) : (s \o t)[n] = IF n <= Len(s) THEN s[n] ELSE t[n - Len(s)]
    BY DEF PruneSteps
  <2>2. \A n \in DOMAIN (s \o t) : KnownStep(p, (s \o t)[n])
    <3> SUFFICES ASSUME NEW n \in DOMAIN (s \o t) PROVE KnownStep(p, (s \o t)[n]) OBVIOUS
    <3>1. CASE n <= Len(s) BY <2>1, <3>1 DEF PruneSteps
    <3>2. CASE ~(n <= Len(s))
      <4>1. n - Len(s) \in DOMAIN t BY <2>1, <3>2
      <4> QED BY <2>1, <3>2, <4>1 DEF PruneSteps
    <3> QED BY <3>1, <3>2
  <2>3. ASSUME faults = 0 PROVE DirThenMark(s \o t)
    <3> DEFINE st == s \o t
    <3>0. DirThenMark(s) /\ DirThenMark(t) BY <2>3 DEF PruneSteps
    <3> HIDE DEF st
    <3> SUFFICES ASSUME NEW n \in DOMAIN st, st[n].id \in Temps \cap dirs
                 PROVE  /\ st[n] = Mark(st[n].id, "cleaned") => n > 1 /\ st[n - 1] = Dir(st[n].id)
                        /\ st[n] = Dir(st[n].id) =>
                              n < Len(st) /\ st[n + 1] = Mark(st[n].id, "cleaned")
      BY DEF DirThenMark, st
    <3>1. CASE n <= Len(s)
      <4>1. n \in DOMAIN s /\ st[n] = s[n] BY <2>1, <3>1 DEF st
      <4>2. /\ s[n] = Mark(s[n].id, "cleaned") => n > 1 /\ s[n - 1] = Dir(s[n].id)
            /\ s[n] = Dir(s[n].id) => n < Len(s) /\ s[n + 1] = Mark(s[n].id, "cleaned")
        BY <3>0, <4>1 DEF DirThenMark
      <4>3. /\ n > 1 => st[n - 1] = s[n - 1]
            /\ n < Len(s) => st[n + 1] = s[n + 1] /\ n < Len(st)
        BY <2>1, <3>1 DEF st
      <4> QED BY <4>1, <4>2, <4>3
    <3>2. CASE ~(n <= Len(s))
      <4> DEFINE m == n - Len(s)
      <4>1. m \in DOMAIN t /\ st[n] = t[m] BY <2>1, <3>2 DEF st
      <4> HIDE DEF m
      <4>2. /\ t[m] = Mark(t[m].id, "cleaned") => m > 1 /\ t[m - 1] = Dir(t[m].id)
            /\ t[m] = Dir(t[m].id) => m < Len(t) /\ t[m + 1] = Mark(t[m].id, "cleaned")
        BY <3>0, <4>1 DEF DirThenMark
      <4>3. /\ m > 1 => n > 1 /\ st[n - 1] = t[m - 1]
            /\ m < Len(t) => st[n + 1] = t[m + 1] /\ n < Len(st)
        BY <2>1, <3>2, <4>1 DEF st, m
      <4> QED BY <4>1, <4>2, <4>3
    <3> QED BY <3>1, <3>2
  <2> QED BY <2>1, <2>2, <2>3 DEF PruneSteps
<1> QED BY <1>1, <1>2

(* Whatever orphans a prune finds, it removes no ACTIVE worktree, marks     *)
(* every removed one of `dovo worktree create` right after it, and MERGED    *)
(* none.                                                                    *)
LEMMA ItemsFit ==
  ASSUME IInv, NEW p \in Procs, pc[p] = "detect", NEW X \in SUBSET Orphans
  PROVE  Items(X) \in PruneSteps(p)
<1>0. /\ dirs \subseteq Ids /\ nests \subseteq Spaces /\ branches \subseteq Ids
      /\ row \in [Ids -> Status] /\ SectionFits(p) /\ lock = p /\ op[p] \in {"prune", "force"}
      /\ Temps \subseteq Ids /\ Ids \cap Spaces = {} /\ NoId \notin Ids \cup Spaces
      /\ IsFiniteSet(Ids) /\ IsFiniteSet(Spaces) /\ p # NoProc
  BY WorktreesAssumption DEF IInv, TypeOK, SectionFits, InSection, Ids
<1>1. \A s, t \in PruneSteps(p) : s \o t \in PruneSteps(p) BY PruneStepsJoin
<1>2. <<>> \in PruneSteps(p) BY PruneStepsJoin
<1>3. IsFiniteSet(X) /\ IsFiniteSet(StaleRows) /\ IsFiniteSet(StaleBranches)
  <2>1. IsFiniteSet(Ids \cup Spaces) BY <1>0, FS_Union
  <2>2. /\ X \in SUBSET (Ids \cup Spaces) /\ StaleRows \in SUBSET Ids /\ StaleBranches \in SUBSET Ids
    BY <1>0 DEF Orphans, Children, StaleRows, StaleBranches
  <2> QED BY <1>0, <2>1, <2>2, FS_Subset
<1>4. PruneRef \in PruneSteps(p)
  <2>1. Refs \in Primitive /\ KnownStep(p, Refs) BY DEF Refs, Primitive, KnownStep
  <2> QED BY <2>1, <1>0 DEF PruneRef, PruneSteps, DirThenMark, Refs, Dir, Mark
<1>5. ASSUME NEW c \in X PROVE PruneOrphan(c) \in PruneSteps(p)
  <2>1. c \in Ids \cup Spaces /\ (c \in Ids => ~Active(c)) BY <1>0 DEF Orphans, Children
  <2>2. /\ Refs \in Primitive /\ KnownStep(p, Refs)
        /\ Dir(c) \in Primitive /\ KnownStep(p, Dir(c))
    BY <2>1 DEF Refs, Dir, Primitive, KnownStep
  <2>3. CASE c \in Ids /\ row[c] # "none"
    <3>1. Mark(c, "cleaned") \in Primitive /\ KnownStep(p, Mark(c, "cleaned"))
      BY <2>3 DEF Mark, Primitive, KnownStep
    <3>2. DirThenMark(<<Dir(c), Mark(c, "cleaned"), Refs>>)
      BY <1>0 DEF DirThenMark, Dir, Mark, Refs
    <3> QED BY <2>2, <2>3, <3>1, <3>2 DEF PruneOrphan, PruneSteps
  <2>4. CASE ~(c \in Ids /\ row[c] # "none")
    <3>1. faults = 0 => c \notin Temps \cap dirs
      <4> SUFFICES ASSUME faults = 0, c \in Temps \cap dirs PROVE FALSE OBVIOUS
      <4>1. Agrees(c) BY DEF IInv
      <4>2. PICK q \in Procs : Builds(q, c) BY <1>0, <2>4, <4>1 DEF Agrees
      <4>3. lock = q /\ pc[q] # "detect" BY <4>2 DEF IInv, SectionFits, InSection, Builds
      <4> QED BY <1>0, <4>3
    <3>2. faults = 0 => DirThenMark(<<Dir(c), Refs>>)
      BY <1>0, <3>1 DEF DirThenMark, Dir, Mark, Refs
    <3> QED BY <2>2, <2>4, <3>2 DEF PruneOrphan, PruneSteps
  <2> QED BY <2>3, <2>4
<1>6. ASSUME NEW i \in StaleRows PROVE PruneRow(i) \in PruneSteps(p)
  <2>1. i \in Ids /\ i \notin dirs BY DEF StaleRows
  <2>2. Mark(i, "cleaned") \in Primitive /\ KnownStep(p, Mark(i, "cleaned"))
    BY <2>1 DEF Mark, Primitive, KnownStep
  <2> QED BY <2>1, <2>2 DEF PruneRow, PruneSteps, DirThenMark, Mark, Dir
<1>7. ASSUME NEW i \in StaleBranches PROVE PruneBranch(i) \in PruneSteps(p)
  <2>1. i \in Ids BY <1>0 DEF StaleBranches
  <2>2. Branch(i) \in Primitive /\ KnownStep(p, Branch(i)) BY <2>1 DEF Branch, Primitive, KnownStep
  <2> QED BY <2>1, <2>2 DEF PruneBranch, PruneSteps, DirThenMark, Mark, Dir, Branch
<1> DEFINE G == PruneSteps(p)
<1>8. Each(X, PruneOrphan) \in G
  <2> DEFINE order == SetToSeq(X)
             seqs == [n \in DOMAIN order |-> PruneOrphan(order[n])]
  <2>1. Each(X, PruneOrphan) = FlattenSeq(seqs) BY DEF Each
  <2>2. Cardinality(X) \in Nat /\ order \in [1 .. Cardinality(X) -> X] BY <1>3, SetToSeqType
  <2> HIDE DEF G
  <2>3. seqs \in [1 .. Cardinality(X) -> G] BY <1>5, <2>2 DEF G
  <2> HIDE DEF seqs
  <2> QED BY <1>1, <1>2, <2>1, <2>2, <2>3, FlattenIn DEF G
<1>9. Each(StaleRows, PruneRow) \in G
  <2> DEFINE order == SetToSeq(StaleRows)
             seqs == [n \in DOMAIN order |-> PruneRow(order[n])]
  <2>1. Each(StaleRows, PruneRow) = FlattenSeq(seqs) BY DEF Each
  <2>2. Cardinality(StaleRows) \in Nat /\ order \in [1 .. Cardinality(StaleRows) -> StaleRows]
    BY <1>3, SetToSeqType
  <2> HIDE DEF G
  <2>3. seqs \in [1 .. Cardinality(StaleRows) -> G] BY <1>6, <2>2 DEF G
  <2> HIDE DEF seqs
  <2> QED BY <1>1, <1>2, <2>1, <2>2, <2>3, FlattenIn DEF G
<1>10. Each(StaleBranches, PruneBranch) \in G
  <2> DEFINE order == SetToSeq(StaleBranches)
             seqs == [n \in DOMAIN order |-> PruneBranch(order[n])]
  <2>1. Each(StaleBranches, PruneBranch) = FlattenSeq(seqs) BY DEF Each
  <2>2. /\ Cardinality(StaleBranches) \in Nat
        /\ order \in [1 .. Cardinality(StaleBranches) -> StaleBranches]
    BY <1>3, SetToSeqType
  <2> HIDE DEF G
  <2>3. seqs \in [1 .. Cardinality(StaleBranches) -> G] BY <1>7, <2>2 DEF G
  <2> HIDE DEF seqs
  <2> QED BY <1>1, <1>2, <2>1, <2>2, <2>3, FlattenIn DEF G
<1> QED
  <2> HIDE DEF G
  <2>1. (IF StaleRefs # {} THEN PruneRef ELSE <<>>) \in G BY <1>2, <1>4 DEF G
  <2>2. \A s, t \in G : s \o t \in G BY <1>1 DEF G
  <2>3. Items(X) \in G BY <2>1, <2>2, <1>8, <1>9, <1>10 DEF Items
  <2> QED BY <2>3 DEF G
----------------------------------------------------------------------------
(* The values of the variables after a step of a process.                   *)

LEMMA StepsTyped ==
  ASSUME NEW i \in Ids
  PROVE  /\ Discard(i) \in Seq(Primitive) /\ Cleanup(i) \in Seq(Primitive)
         /\ \A delete \in BOOLEAN : AfterApply(i, delete) \in Seq(Primitive)
<1>1. /\ Dir(i) \in Primitive /\ Branch(i) \in Primitive /\ Refs \in Primitive
      /\ \A to \in {"cleaned", "merged"} : Mark(i, to) \in Primitive
  BY DEF Dir, Branch, Refs, Mark, Primitive
<1>2. Discard(i) \in Seq(Primitive) /\ Cleanup(i) \in Seq(Primitive) BY <1>1 DEF Discard, Cleanup
<1>3. <<Mark(i, "merged")>> \in Seq(Primitive) /\ <<>> \in Seq(Primitive) BY <1>1
<1> QED BY <1>2, <1>3 DEF AfterApply

(* A list looks at worktrees whose row is ACTIVE.                           *)
LEMMA ReadLooks ==
  ASSUME IInv, NEW p \in Procs, NEW R \in SUBSET Ids, Read(p, R)
  PROVE  /\ \A q \in Procs \ {p} : todo'[q] = todo[q]
         /\ todo' \in [Procs -> Seq(Primitive)]
         /\ \A s \in ToSet(todo'[p]) : s.id \in Ids /\ Active(s.id) /\ s = Check(s.id)
<1> DEFINE A == {i \in R : row[i] = "active"}
           order == SetToSeq(A)
<1>1. A \in SUBSET Ids /\ IsFiniteSet(A)
  <2>1. IsFiniteSet(Ids) BY WorktreesAssumption
  <2> QED BY <2>1, FS_Subset
<1> HIDE DEF A
<1>2. Cardinality(A) \in Nat /\ order \in [1 .. Cardinality(A) -> A] BY <1>1, SetToSeqType
<1>3. todo' = [todo EXCEPT ![p] = [n \in DOMAIN order |-> Check(order[n])]] BY DEF Read, A
<1> HIDE DEF order
<1>4. todo \in [Procs -> Seq(Primitive)] BY DEF IInv, TypeOK
<1>5. \A i \in A : i \in Ids /\ Active(i) /\ Check(i) \in Primitive /\ Check(i).id = i
  BY <1>1 DEF A, Active, Check, Primitive
<1>6. [n \in DOMAIN order |-> Check(order[n])] \in Seq(Primitive) BY <1>2, <1>5
<1>7. todo'[p] = [n \in DOMAIN order |-> Check(order[n])] BY <1>3, <1>4
<1>8. \A s \in ToSet(todo'[p]) : \E i \in A : s = Check(i) BY <1>2, <1>7 DEF ToSet
<1> QED BY <1>3, <1>4, <1>5, <1>6, <1>8

LEMMA TodoTyped ==
  ASSUME IInv, NEW p \in Procs, Acts(p)
  PROVE  todo' \in [Procs -> Seq(Primitive)]
<1>0. /\ todo \in [Procs -> Seq(Primitive)] /\ <<>> \in Seq(Primitive)
      /\ id[p] \in Ids \cup {NoId} /\ op[p] \in Ops /\ pc[p] \in PCs
      /\ SectionFits(p) /\ Keys \subseteq Ids /\ Temps \subseteq Ids /\ CreationIsNew(p)
      /\ \A q \in Procs : todo[q] \in Seq(Primitive)
  BY DEF IInv, TypeOK, Ids
<1>a. /\ pc[p] \in {"add", "build", "apply", "verify", "patch", "squash"} => id[p] \in Ids
      /\ pc[p] = "wait" /\ op[p] \in {"delete", "cleanup"} => id[p] \in Ids
  BY <1>0 DEF SectionFits, CreationIsNew
<1> USE <1>0 DEF Goto, proc
<1>1. CASE \E k \in Keys : StartRun(p, k) BY <1>1 DEF StartRun, Command, Act
<1>2. CASE \E k \in Keys : ResumeRun(p, k) BY <1>2 DEF ResumeRun, Act
<1>3. CASE \E t \in Temps : CreateCommand(p, t) BY <1>3 DEF CreateCommand, Command, Act
<1>4. CASE \E i \in Ids : ApplyCommand(p, i) BY <1>4 DEF ApplyCommand, Command, Act
<1>5. CASE \E i \in Ids : DeleteCommand(p, i) BY <1>5 DEF DeleteCommand, Command, Act
<1>6. CASE \E i \in Ids : ShowCommand(p, i)
  <2>1. PICK i \in Ids : ShowCommand(p, i) BY <1>6
  <2>2. {i} \in SUBSET Ids /\ Read(p, {i}) BY <2>1 DEF ShowCommand
  <2> QED BY <2>2, ReadLooks
<1>7. CASE \E force \in BOOLEAN : PruneCommand(p, force) BY <1>7 DEF PruneCommand, Command
<1>8. CASE ListCommand(p)
  <2>1. Ids \in SUBSET Ids /\ Read(p, Ids) BY <1>8 DEF ListCommand
  <2> QED BY <2>1, ReadLooks
<1>9. CASE Confirm(p) BY <1>9 DEF Confirm
<1>10. CASE GiveUp(p) BY <1>10 DEF GiveUp, Idle
<1>11. CASE Take(p)
  <2>1. op[p] \in {"delete", "cleanup"} => Cleanup(id[p]) \in Seq(Primitive)
    BY <1>11, <1>a, StepsTyped DEF Take
  <2> QED BY <1>11, <2>1 DEF Take
<1>12. CASE AutoApply(p) BY <1>12 DEF AutoApply
<1>13. CASE CloseRun(p) BY <1>13 DEF CloseRun, Idle
<1>14. CASE Crash(p) BY <1>14 DEF Crash, Idle, Fault
<1>15. CASE RefusedNoRoom(p) BY <1>15 DEF RefusedNoRoom, Idle
<1>16. CASE Add(p) BY <1>16 DEF Add
<1>17. CASE AddFails(p)
  <2>1. Discard(id[p]) \in Seq(Primitive) BY <1>17, <1>a, StepsTyped DEF AddFails
  <2> QED BY <1>17, <2>1 DEF AddFails, Begin
<1>18. CASE Build(p)
  <2>1. Discard(id[p]) \in Seq(Primitive) BY <1>18, <1>a, StepsTyped DEF Build
  <2>2. todo' = todo \/ todo' = [todo EXCEPT ![p] = Discard(id[p])] BY <1>18 DEF Build, Begin
  <2> QED BY <2>1, <2>2
<1>19. CASE Persist(p) BY <1>19 DEF Persist, Idle, Fault, NoFault
<1>20. CASE RefuseApply(p) BY <1>20 DEF RefuseApply, Refuse, Idle, Fault, NoFault
<1>21. CASE AcceptApply(p) BY <1>21 DEF AcceptApply
<1>22. CASE Conflict(p) BY <1>22 DEF Conflict, Refuse, Idle, Fault, NoFault
<1>23. CASE Verified(p) BY <1>23 DEF Verified
<1>24. CASE NotPatched(p) BY <1>24 DEF NotPatched, Refuse, Idle
<1>25. CASE Patch(p)
  <2>1. \A delete \in BOOLEAN : AfterApply(id[p], delete) \in Seq(Primitive)
    BY <1>25, <1>a, StepsTyped DEF Patch
  <2>2. \/ todo' = todo
        \/ \E delete \in BOOLEAN : todo' = [todo EXCEPT ![p] = AfterApply(id[p], delete)]
    BY <1>25 DEF Patch, Begin
  <2> QED BY <2>1, <2>2
<1>26. CASE Squash(p)
  <2>1. \A delete \in BOOLEAN : AfterApply(id[p], delete) \in Seq(Primitive)
    BY <1>26, <1>a, StepsTyped DEF Squash
  <2>2. \E delete \in BOOLEAN : todo' = [todo EXCEPT ![p] = AfterApply(id[p], delete)]
    BY <1>26 DEF Squash, Begin
  <2> QED BY <2>1, <2>2
<1>27. CASE SquashFails(p) BY <1>27 DEF SquashFails, Idle, Fault
<1>28. CASE Detect(p)
  <2>1. \E X \in SUBSET Orphans :
           todo' = [todo EXCEPT ![p] = Items(X)] \/ todo' = [todo EXCEPT ![p] = <<>>]
    BY <1>28 DEF Detect, Begin
  <2>2. \A X \in SUBSET Orphans : Items(X) \in Seq(Primitive)
    BY <1>28, ItemsFit DEF Detect, PruneSteps
  <2> QED BY <2>1, <2>2
<1>29. CASE Step(p)
  <2>1. Head(todo[p]) \in Primitive /\ todo[p] \in Seq(Primitive) /\ todo[p] # <<>>
    BY <1>29, NextStep
  <2>2. Tail(todo[p]) \in Seq(Primitive) BY <2>1, HeadAndTail
  <2>3. Mark(Head(todo[p]).id, "cleaned") \in Primitive BY <2>1 DEF Mark, Primitive
  <2>4. <<Mark(Head(todo[p]).id, "cleaned")>> \o Tail(todo[p]) \in Seq(Primitive) BY <2>2, <2>3
  <2>5. \/ todo' = [todo EXCEPT ![p] = Tail(todo[p])]
        \/ todo' = [todo EXCEPT ![p] = <<Mark(Head(todo[p]).id, "cleaned")>> \o Tail(todo[p])]
    BY <1>29 DEF Step
  <2> QED BY <2>2, <2>4, <2>5
<1>30. CASE Done(p) BY <1>30 DEF Done, Idle
<1> QED
  BY <1>1, <1>2, <1>3, <1>4, <1>5, <1>6, <1>7, <1>8, <1>9, <1>10, <1>11, <1>12, <1>13, <1>14, <1>15,
    <1>16, <1>17, <1>18, <1>19, <1>20, <1>21, <1>22, <1>23, <1>24, <1>25, <1>26, <1>27, <1>28,
    <1>29, <1>30
  DEF Acts, Start, Progress, InLock

LEMMA RestTyped ==
  ASSUME IInv, NEW p \in Procs, Acts(p)
  PROVE  /\ dirs' \subseteq Ids /\ nests' \subseteq Spaces /\ refs' \subseteq Ids /\ branches' \subseteq Ids
         /\ work' \in [Ids -> SUBSET {"edits", "commits"}]
         /\ row' \in [Ids -> Status]
         /\ applied' \subseteq Ids /\ paused' \subseteq Keys
         /\ lock' \in Procs \cup {NoProc}
         /\ pc' \in [Procs -> PCs] /\ id' \in [Procs -> Ids \cup {NoId}]
         /\ op' \in [Procs -> Ops] /\ using' \in [Procs -> Ids \cup {NoId}]
<1>0. /\ dirs \subseteq Ids /\ nests \subseteq Spaces /\ refs \subseteq Ids /\ branches \subseteq Ids
      /\ work \in [Ids -> SUBSET {"edits", "commits"}]
      /\ row \in [Ids -> Status] /\ applied \subseteq Ids /\ paused \subseteq Keys
      /\ lock \in Procs \cup {NoProc}
      /\ pc \in [Procs -> PCs] /\ id \in [Procs -> Ids \cup {NoId}]
      /\ op \in [Procs -> Ops] /\ using \in [Procs -> Ids \cup {NoId}]
      /\ Keys \subseteq Ids /\ Temps \subseteq Ids
      /\ SectionFits(p)
      /\ pc[p] \in {"add", "build", "persist", "apply", "verify", "patch", "squash"} => id[p] \in Ids
  BY DEF IInv, TypeOK, Ids, SectionFits, CreationIsNew
<1>a. \A i \in DOMAIN Space : Space[i] \in Spaces BY WorktreesAssumption
<1> USE <1>0 DEF Goto, SectionFits, disk, proc, PCs, Ops, Status
<1>1. CASE \E k \in Keys : StartRun(p, k) BY <1>1 DEF StartRun, Command, Act
<1>2. CASE \E k \in Keys : ResumeRun(p, k) BY <1>2 DEF ResumeRun, Act
<1>3. CASE \E t \in Temps : CreateCommand(p, t) BY <1>3 DEF CreateCommand, Command, Act
<1>4. CASE \E i \in Ids : ApplyCommand(p, i) BY <1>4 DEF ApplyCommand, Command, Act
<1>5. CASE \E i \in Ids : DeleteCommand(p, i) BY <1>5 DEF DeleteCommand, Command, Act
<1>6. CASE \E i \in Ids : ShowCommand(p, i) BY <1>6 DEF ShowCommand, Command, Act, Read
<1>7. CASE \E force \in BOOLEAN : PruneCommand(p, force) BY <1>7 DEF PruneCommand, Command
<1>8. CASE ListCommand(p) BY <1>8 DEF ListCommand, Command, Act, Read
<1>9. CASE Confirm(p) BY <1>9 DEF Confirm
<1>10. CASE GiveUp(p) BY <1>10 DEF GiveUp, Idle
<1>11. CASE Take(p) BY <1>11 DEF Take
<1>12. CASE AutoApply(p) BY <1>12 DEF AutoApply
<1>13. CASE CloseRun(p) BY <1>13 DEF CloseRun, Idle
<1>14. CASE Crash(p) BY <1>14 DEF Crash, Idle, Fault
<1>15. CASE RefusedNoRoom(p) BY <1>15 DEF RefusedNoRoom, Idle
<1>16. CASE Add(p)
  <2>1. Parents(id[p]) \subseteq Spaces BY <1>a DEF Parents
  <2> QED BY <1>16, <2>1 DEF Add
<1>17. CASE AddFails(p)
  <2>1. Parents(id[p]) \subseteq Spaces BY <1>a DEF Parents
  <2> QED BY <1>17, <2>1 DEF AddFails, Begin
<1>18. CASE Build(p) BY <1>18 DEF Build, Begin, Fault, NoFault
<1>19. CASE Persist(p) BY <1>19 DEF Persist, Idle, Fault, NoFault
<1>20. CASE RefuseApply(p) BY <1>20 DEF RefuseApply, Refuse, Idle, Fault, NoFault
<1>21. CASE AcceptApply(p) BY <1>21 DEF AcceptApply
<1>22. CASE Conflict(p) BY <1>22 DEF Conflict, Refuse, Idle, Fault, NoFault
<1>23. CASE Verified(p) BY <1>23 DEF Verified
<1>24. CASE NotPatched(p) BY <1>24 DEF NotPatched, Refuse, Idle
<1>25. CASE Patch(p) BY <1>25 DEF Patch, Begin
<1>26. CASE Squash(p) BY <1>26 DEF Squash, Begin
<1>27. CASE SquashFails(p) BY <1>27 DEF SquashFails, Idle, Fault
<1>28. CASE Detect(p) BY <1>28 DEF Detect, Begin, Fault, NoFault
<1>29. CASE Step(p)
  <2> DEFINE s == Head(todo[p])
  <2>1. /\ UNCHANGED <<applied, paused, lock, pc, id, op, using>>
        /\ s.do = "row" => s.to \in {"cleaned", "merged"}
    <3>1. s \in Primitive /\ (pc[p] = "steps" => KnownStep(p, s)) /\ (pc[p] = "list" => KnownLook(s))
      BY <1>29, NextStep
    <3> QED BY <1>29, <3>1 DEF Step, KnownStep, KnownLook, Mark, Check, Primitive
  <2>2. /\ dirs' \subseteq Ids /\ nests' \subseteq Spaces /\ refs' \subseteq Ids /\ branches' \subseteq Ids
        /\ work' \in [Ids -> SUBSET {"edits", "commits"}] /\ row' \in [Ids -> Status]
    <3>1. CASE s.do = "dir" /\ RemoveDir(s.id) /\ UNCHANGED <<branches, row>>
      BY <3>1 DEF RemoveDir, Lose
    <3>2. CASE s.do = "row" /\ UpdateStatus(s.id, s.to) /\ UNCHANGED disk
      BY <3>2, <2>1 DEF UpdateStatus
    <3>3. CASE s.do = "branch" /\ DeleteBranch(s.id) /\ UNCHANGED <<dirs, nests, refs, row>>
      BY <3>3 DEF DeleteBranch, Lose
    <3>4. CASE s.do = "refs" /\ PruneRefs /\ UNCHANGED <<dirs, nests, branches, work, row>>
      BY <3>4 DEF PruneRefs
    <3>5. CASE s.do = "check" /\ NoFault /\ UNCHANGED <<disk, row>>
      BY <3>5
    <3> QED BY <1>29, <3>1, <3>2, <3>3, <3>4, <3>5 DEF Step
  <2> HIDE DEF s
  <2> QED BY <2>1, <2>2
<1>30. CASE Done(p) BY <1>30 DEF Done, Idle
<1> QED
  BY <1>1, <1>2, <1>3, <1>4, <1>5, <1>6, <1>7, <1>8, <1>9, <1>10, <1>11, <1>12, <1>13, <1>14, <1>15,
    <1>16, <1>17, <1>18, <1>19, <1>20, <1>21, <1>22, <1>23, <1>24, <1>25, <1>26, <1>27, <1>28,
    <1>29, <1>30
  DEF Acts, Start, Progress, InLock

LEMMA CountsTyped ==
  ASSUME IInv, NEW p \in Procs, Acts(p)
  PROVE  acts' \in 0 .. MaxActs /\ faults' \in 0 .. MaxFaults
<1>0. acts \in 0 .. MaxActs /\ faults \in 0 .. MaxFaults /\ MaxActs \in Nat /\ MaxFaults \in Nat
  BY WorktreesAssumption DEF IInv, TypeOK
<1>a. /\ (Act => acts' \in 0 .. MaxActs) /\ (acts' = acts => acts' \in 0 .. MaxActs)
      /\ (Fault => faults' \in 0 .. MaxFaults) /\ (NoFault => faults' \in 0 .. MaxFaults)
      /\ (faults' = faults => faults' \in 0 .. MaxFaults)
  BY <1>0 DEF Act, Fault, NoFault
<1> USE <1>a
<1>1. CASE \E k \in Keys : StartRun(p, k) BY <1>1 DEF StartRun, Command
<1>2. CASE \E k \in Keys : ResumeRun(p, k) BY <1>2 DEF ResumeRun
<1>3. CASE \E t \in Temps : CreateCommand(p, t) BY <1>3 DEF CreateCommand, Command
<1>4. CASE \E i \in Ids : ApplyCommand(p, i) BY <1>4 DEF ApplyCommand, Command
<1>5. CASE \E i \in Ids : DeleteCommand(p, i) BY <1>5 DEF DeleteCommand, Command
<1>6. CASE \E i \in Ids : ShowCommand(p, i) BY <1>6 DEF ShowCommand, Command, Read
<1>7. CASE \E force \in BOOLEAN : PruneCommand(p, force) BY <1>7 DEF PruneCommand, Command
<1>8. CASE ListCommand(p) BY <1>8 DEF ListCommand, Command, Read
<1>9. CASE Confirm(p) BY <1>9 DEF Confirm
<1>10. CASE GiveUp(p) BY <1>10 DEF GiveUp, Idle
<1>11. CASE Take(p) BY <1>11 DEF Take
<1>12. CASE AutoApply(p) BY <1>12 DEF AutoApply
<1>13. CASE CloseRun(p) BY <1>13 DEF CloseRun, Idle
<1>14. CASE Crash(p) BY <1>14 DEF Crash, Idle
<1>15. CASE RefusedNoRoom(p) BY <1>15 DEF RefusedNoRoom, Idle
<1>16. CASE Add(p) BY <1>16 DEF Add
<1>17. CASE AddFails(p) BY <1>17 DEF AddFails, Begin
<1>18. CASE Build(p) BY <1>18 DEF Build, Begin
<1>19. CASE Persist(p) BY <1>19 DEF Persist, Idle
<1>20. CASE RefuseApply(p) BY <1>20 DEF RefuseApply, Refuse, Idle
<1>21. CASE AcceptApply(p) BY <1>21 DEF AcceptApply
<1>22. CASE Conflict(p) BY <1>22 DEF Conflict, Refuse, Idle
<1>23. CASE Verified(p) BY <1>23 DEF Verified
<1>24. CASE NotPatched(p) BY <1>24 DEF NotPatched, Refuse, Idle
<1>25. CASE Patch(p) BY <1>25 DEF Patch, Begin
<1>26. CASE Squash(p) BY <1>26 DEF Squash, Begin
<1>27. CASE SquashFails(p) BY <1>27 DEF SquashFails, Idle
<1>28. CASE Detect(p) BY <1>28 DEF Detect, Begin
<1>29. CASE Step(p)
  <2>1. faults' = faults \/ Fault BY <1>29 DEF Step, RemoveDir, UpdateStatus, DeleteBranch, PruneRefs, NoFault
  <2> QED BY <1>29, <2>1 DEF Step
<1>30. CASE Done(p) BY <1>30 DEF Done, Idle
<1> QED
  BY <1>1, <1>2, <1>3, <1>4, <1>5, <1>6, <1>7, <1>8, <1>9, <1>10, <1>11, <1>12, <1>13, <1>14, <1>15,
    <1>16, <1>17, <1>18, <1>19, <1>20, <1>21, <1>22, <1>23, <1>24, <1>25, <1>26, <1>27, <1>28,
    <1>29, <1>30
  DEF Acts, Start, Progress, InLock

LEMMA MainTyped ==
  ASSUME IInv, NEW p \in Procs, Acts(p)
  PROVE  mainDirty' \in BOOLEAN
<1>0. mainDirty \in BOOLEAN BY DEF IInv, TypeOK
<1> USE <1>0
<1>1. CASE \E k \in Keys : StartRun(p, k) BY <1>1 DEF StartRun, Command
<1>2. CASE \E k \in Keys : ResumeRun(p, k) BY <1>2 DEF ResumeRun
<1>3. CASE \E t \in Temps : CreateCommand(p, t) BY <1>3 DEF CreateCommand, Command
<1>4. CASE \E i \in Ids : ApplyCommand(p, i) BY <1>4 DEF ApplyCommand, Command
<1>5. CASE \E i \in Ids : DeleteCommand(p, i) BY <1>5 DEF DeleteCommand, Command
<1>6. CASE \E i \in Ids : ShowCommand(p, i) BY <1>6 DEF ShowCommand, Command
<1>7. CASE \E force \in BOOLEAN : PruneCommand(p, force) BY <1>7 DEF PruneCommand, Command
<1>8. CASE ListCommand(p) BY <1>8 DEF ListCommand, Command
<1>9. CASE Confirm(p) BY <1>9 DEF Confirm
<1>10. CASE GiveUp(p) BY <1>10 DEF GiveUp, Idle
<1>11. CASE Take(p) BY <1>11 DEF Take
<1>12. CASE AutoApply(p) BY <1>12 DEF AutoApply
<1>13. CASE CloseRun(p) BY <1>13 DEF CloseRun, Idle
<1>14. CASE Crash(p) BY <1>14 DEF Crash, Idle
<1>15. CASE RefusedNoRoom(p) BY <1>15 DEF RefusedNoRoom, Idle
<1>16. CASE Add(p) BY <1>16 DEF Add
<1>17. CASE AddFails(p) BY <1>17 DEF AddFails, Begin
<1>18. CASE Build(p) BY <1>18 DEF Build, Begin
<1>19. CASE Persist(p) BY <1>19 DEF Persist, Idle
<1>20. CASE RefuseApply(p) BY <1>20 DEF RefuseApply, Refuse, Idle
<1>21. CASE AcceptApply(p) BY <1>21 DEF AcceptApply
<1>22. CASE Conflict(p) BY <1>22 DEF Conflict, Refuse, Idle
<1>23. CASE Verified(p) BY <1>23 DEF Verified
<1>24. CASE NotPatched(p) BY <1>24 DEF NotPatched, Refuse, Idle
<1>25. CASE Patch(p) BY <1>25 DEF Patch, Begin
<1>26. CASE Squash(p) BY <1>26 DEF Squash, Begin
<1>27. CASE SquashFails(p) BY <1>27 DEF SquashFails, Idle
<1>28. CASE Detect(p) BY <1>28 DEF Detect, Begin
<1>29. CASE Step(p) BY <1>29 DEF Step
<1>30. CASE Done(p) BY <1>30 DEF Done, Idle
<1> QED
  BY <1>1, <1>2, <1>3, <1>4, <1>5, <1>6, <1>7, <1>8, <1>9, <1>10, <1>11, <1>12, <1>13, <1>14, <1>15,
    <1>16, <1>17, <1>18, <1>19, <1>20, <1>21, <1>22, <1>23, <1>24, <1>25, <1>26, <1>27, <1>28,
    <1>29, <1>30
  DEF Acts, Start, Progress, InLock

LEMMA TypeStep ==
  ASSUME IInv, NEW p \in Procs, Acts(p)
  PROVE  TypeOK'
<1>1. mainDirty' \in BOOLEAN BY MainTyped
<1>2. acts' \in 0 .. MaxActs /\ faults' \in 0 .. MaxFaults BY CountsTyped
<1>3. todo' \in [Procs -> Seq(Primitive)] BY TodoTyped
<1> HIDE DEF Acts
<1> QED BY <1>1, <1>2, <1>3, RestTyped DEF TypeOK
----------------------------------------------------------------------------
(* The other processes: what they rely on survives a step of one.           *)

LEMMA OthersFit ==
  ASSUME IInv, NEW p \in Procs, Frame(p), NEW q \in Procs \ {p}
  PROVE  SectionFits(q)' /\ CreationIsNew(q)' /\ StepsAreKnown(q)'
<1>0. /\ pc'[q] = pc[q] /\ op'[q] = op[q] /\ id'[q] = id[q] /\ todo'[q] = todo[q] /\ using'[q] = using[q]
      /\ SectionFits(q) /\ CreationIsNew(q) /\ StepsAreKnown(q)
      /\ SectionFits(p) /\ CreationIsNew(p)
      /\ row \in [Ids -> Status] /\ id[q] \in Ids \cup {NoId} /\ id[p] \in Ids \cup {NoId}
      /\ Keys \subseteq Ids /\ Temps \subseteq Ids /\ Keys \cap Temps = {} /\ q # NoProc /\ p # NoProc
      /\ p \in Procs /\ q \in Procs
  BY WorktreesAssumption DEF IInv, TypeOK, Ids, Frame
<1>1. SectionFits(q)'
  <2>1. lock = q => lock' = q BY <1>0 DEF Frame
  <2> QED BY <1>0, <2>1 DEF SectionFits
(* The lock keeps p out of a section while q is in one.                     *)
<1>2. pc[q] \in InSection => pc[p] \notin InSection BY <1>0 DEF SectionFits
<1>3. \A i \in Ids : row[i] # "none" => row'[i] # "none" BY DEF Frame, RowFrame
<1>4. CreationIsNew(q)'
  <2> SUFFICES ASSUME op[q] = "create"
               PROVE  /\ id[q] \in Temps /\ row'[id[q]] = "none"
                      /\ pc[q] \in {"wait", "add"} => id[q] \notin dirs' \cup refs' \cup branches'
                      /\ \A r \in Procs \ {q} : op'[r] = "create" => id'[r] # id[q]
    BY <1>0 DEF CreationIsNew
  <2>1. /\ id[q] \in Temps /\ row[id[q]] = "none"
        /\ pc[q] \in {"wait", "add"} => id[q] \notin dirs \cup refs \cup branches
        /\ \A r \in Procs \ {q} : op[r] = "create" => id[r] # id[q]
    BY <1>0 DEF CreationIsNew
  <2>2. pc[p] \in {"add", "persist"} => id[p] # id[q]
    <3> SUFFICES ASSUME pc[p] \in {"add", "persist"}, id[p] = id[q] PROVE FALSE OBVIOUS
    <3>1. op[p] \in {"start", "create"} BY <1>0 DEF SectionFits
    <3>2. op[p] = "start" => id[p] \in Keys BY <1>0 DEF SectionFits
    <3> QED BY <2>1, <3>1, <3>2, <1>0
  <2>3. row'[id[q]] = "none" BY <1>0, <2>1, <2>2 DEF Frame, RowFrame
  <2>4. pc[q] \in {"wait", "add"} => id[q] \notin dirs' \cup refs' \cup branches'
    <3>1. CASE pc[p] = "add" BY <3>1, <1>0, <2>1, <2>2 DEF Frame, DiskFrame
    <3>2. CASE pc[p] # "add" BY <3>2, <1>0, <2>1 DEF Frame, DiskFrame
    <3> QED BY <3>1, <3>2
  <2>5. \A r \in Procs \ {q} : op'[r] = "create" => id'[r] # id[q]
    <3> SUFFICES ASSUME NEW r \in Procs \ {q}, op'[r] = "create" PROVE id'[r] # id[q] OBVIOUS
    <3>1. CASE r # p BY <3>1, <2>1 DEF Frame
    <3>2. CASE r = p BY <3>2, <2>1, <1>0 DEF Frame, NewFrame
    <3> QED BY <3>1, <3>2
  <2> QED BY <2>1, <2>3, <2>4, <2>5
<1>5. StepsAreKnown(q)'
  <2>1. pc[q] \in {"verify", "patch", "squash"} => row'[id[q]] # "none"
    BY <1>0, <1>3 DEF StepsAreKnown, SectionFits
  <2>2. pc[q] \in {"squash", "steps"} => applied \subseteq applied'
    BY <1>0, <1>2 DEF Frame, DiskFrame, InSection
  <2>3. pc[q] = "steps" => \A i \in Ids : row'[i] = "active" => row[i] = "active"
    BY <1>0, <1>2 DEF Frame, RowFrame, InSection
  <2>4. ASSUME pc[q] = "steps", NEW s \in ToSet(todo[q]) PROVE KnownStep(q, s)'
    <3>1. KnownStep(q, s) BY <1>0, <2>4 DEF StepsAreKnown
    <3> QED BY <1>0, <1>3, <2>2, <2>3, <2>4, <3>1 DEF KnownStep, Active
  <2>5. ASSUME pc[q] = "list", NEW s \in ToSet(todo[q]) PROVE KnownLook(s)'
    <3>1. KnownLook(s) BY <1>0, <2>5 DEF StepsAreKnown
    <3> QED BY <1>3, <3>1 DEF KnownLook
  <2> QED BY <1>0, <2>1, <2>2, <2>4, <2>5 DEF StepsAreKnown
<1> QED BY <1>1, <1>4, <1>5

LEMMA OthersInOrder ==
  ASSUME IInv, TypeOK', NEW p \in Procs, Frame(p), faults' = 0, NEW q \in Procs \ {p}
  PROVE  InOrder(q)'
<1>0. /\ pc'[q] = pc[q] /\ op'[q] = op[q] /\ id'[q] = id[q] /\ todo'[q] = todo[q]
      /\ SectionFits(q) /\ StepsAreKnown(q) /\ SectionFits(p) /\ CreationIsNew(p)
      /\ faults = 0 /\ InOrder(q)
      /\ dirs \subseteq Ids /\ dirs' \subseteq dirs \cup {id[p]} /\ (pc[p] # "add" => dirs' \subseteq dirs)
      /\ Keys \cap Temps = {} /\ q # NoProc /\ p # NoProc
      /\ p \in Procs /\ q \in Procs /\ id[q] \in Ids \cup {NoId} /\ Temps \subseteq Ids
  <2>1. dirs' \subseteq dirs \cup {id[p]}
    BY DEF TypeOK, Frame, DiskFrame
  <2> QED BY <2>1, WorktreesAssumption DEF IInv, TypeOK, Ids, Frame, DiskFrame
<1>1. pc[q] \in InSection => dirs' = dirs BY <1>0 DEF SectionFits, Frame, DiskFrame, InSection
<1>2. ASSUME pc[q] = "list", NEW s \in ToSet(todo[q]), s.do = "row", s.id \in Temps
      PROVE  s.id \notin dirs'
  <2>1. row[s.id] # "none" /\ s.id \notin dirs BY <1>0, <1>2 DEF StepsAreKnown, KnownLook, InOrder
  <2>2. pc[p] = "add" => id[p] # s.id BY <1>0, <1>2, <2>1 DEF SectionFits, CreationIsNew
  <2> QED BY <1>0, <2>1, <2>2
<1>3. pc[q] = "steps" => DirThenMark(todo[q])'
  BY <1>0, <1>1 DEF InOrder, DirThenMark, InSection
<1> QED BY <1>0, <1>1, <1>2, <1>3 DEF InOrder, InSection
----------------------------------------------------------------------------
(* The process that steps keeps what the others, and it, rely on.           *)

LEMMA OwnFits ==
  ASSUME IInv, NEW p \in Procs, Acts(p)
  PROVE  SectionFits(p)'
<1>0. /\ pc \in [Procs -> PCs] /\ id \in [Procs -> Ids \cup {NoId}]
      /\ op \in [Procs -> Ops] /\ using \in [Procs -> Ids \cup {NoId}]
      /\ Keys \subseteq Ids /\ Temps \subseteq Ids /\ NoId \notin Ids /\ paused \subseteq Keys
      /\ SectionFits(p) /\ p # NoProc
      /\ pc[p] = "idle" => lock # p \/ lock = p
  BY WorktreesAssumption DEF IInv, TypeOK, Ids
<1> USE <1>0 DEF Goto, SectionFits, InSection, disk, proc, Ops, PCs
<1>1. CASE \E k \in Keys : StartRun(p, k) BY <1>1 DEF StartRun, Command, Act
<1>2. CASE \E k \in Keys : ResumeRun(p, k) BY <1>2 DEF ResumeRun, Act
<1>3. CASE \E t \in Temps : CreateCommand(p, t) BY <1>3 DEF CreateCommand, Command, Act
<1>4. CASE \E i \in Ids : ApplyCommand(p, i) BY <1>4 DEF ApplyCommand, Command, Act
<1>5. CASE \E i \in Ids : DeleteCommand(p, i) BY <1>5 DEF DeleteCommand, Command, Act
<1>6. CASE \E i \in Ids : ShowCommand(p, i) BY <1>6 DEF ShowCommand, Command, Act, Read
<1>7. CASE \E force \in BOOLEAN : PruneCommand(p, force) BY <1>7 DEF PruneCommand, Command
<1>8. CASE ListCommand(p) BY <1>8 DEF ListCommand, Command, Act, Read
<1>9. CASE Confirm(p) BY <1>9 DEF Confirm
<1>10. CASE GiveUp(p) BY <1>10 DEF GiveUp, Idle
<1>11. CASE Take(p)
  <2>1. op[p] \in {"start", "create", "apply", "delete", "cleanup", "prune", "force"} BY <1>11 DEF Take
  <2>2. UNCHANGED <<op, id, using>> /\ lock' = p /\ pc' = [pc EXCEPT ![p] = pc'[p]] BY <1>11 DEF Take
  <2>3. /\ op[p] \in {"start", "create"} => pc'[p] = "add"
        /\ op[p] = "apply" => pc'[p] = "apply"
        /\ op[p] \in {"delete", "cleanup"} => pc'[p] = "steps"
        /\ op[p] \in {"prune", "force"} => pc'[p] = "detect"
    BY <1>11 DEF Take
  <2> QED BY <2>1, <2>2, <2>3
<1>12. CASE AutoApply(p) BY <1>12 DEF AutoApply
<1>13. CASE CloseRun(p) BY <1>13 DEF CloseRun, Idle
<1>14. CASE Crash(p) BY <1>14 DEF Crash, Idle, Fault
<1>15. CASE RefusedNoRoom(p) BY <1>15 DEF RefusedNoRoom, Idle
<1>16. CASE Add(p) BY <1>16 DEF Add
<1>17. CASE AddFails(p) BY <1>17 DEF AddFails, Begin, Fault, NoFault
<1>18. CASE Build(p) BY <1>18 DEF Build, Begin, Fault, NoFault
<1>19. CASE Persist(p) BY <1>19 DEF Persist, Idle, Fault, NoFault
<1>20. CASE RefuseApply(p) BY <1>20 DEF RefuseApply, Refuse, Idle, Fault, NoFault
<1>21. CASE AcceptApply(p) BY <1>21 DEF AcceptApply
<1>22. CASE Conflict(p) BY <1>22 DEF Conflict, Refuse, Idle, Fault, NoFault
<1>23. CASE Verified(p) BY <1>23 DEF Verified
<1>24. CASE NotPatched(p) BY <1>24 DEF NotPatched, Refuse, Idle
<1>25. CASE Patch(p) BY <1>25 DEF Patch, Begin
<1>26. CASE Squash(p) BY <1>26 DEF Squash, Begin
<1>27. CASE SquashFails(p) BY <1>27 DEF SquashFails, Idle, Fault
<1>28. CASE Detect(p) BY <1>28 DEF Detect, Begin, Fault, NoFault
<1>29. CASE Step(p)
  <2>1. UNCHANGED <<pc, op, id, lock, using>> BY <1>29 DEF Step
  <2> QED BY <2>1
<1>30. CASE Done(p) BY <1>30 DEF Done, Idle
<1> QED
  BY <1>1, <1>2, <1>3, <1>4, <1>5, <1>6, <1>7, <1>8, <1>9, <1>10, <1>11, <1>12, <1>13, <1>14, <1>15,
    <1>16, <1>17, <1>18, <1>19, <1>20, <1>21, <1>22, <1>23, <1>24, <1>25, <1>26, <1>27, <1>28,
    <1>29, <1>30
  DEF Acts, Start, Progress, InLock

LEMMA OwnNew ==
  ASSUME IInv, NEW p \in Procs, Frame(p)
  PROVE  CreationIsNew(p)'
<1>0. /\ CreationIsNew(p) /\ SectionFits(p) /\ row \in [Ids -> Status] /\ Temps \subseteq Ids
      /\ id \in [Procs -> Ids \cup {NoId}]
      /\ \A q \in Procs : CreationIsNew(q)
  BY DEF IInv, TypeOK, Ids
<1> SUFFICES ASSUME op'[p] = "create"
             PROVE  /\ id'[p] \in Temps /\ row'[id'[p]] = "none"
                    /\ pc'[p] \in {"wait", "add"} => id'[p] \notin dirs' \cup refs' \cup branches'
                    /\ \A q \in Procs \ {p} : op'[q] = "create" => id'[q] # id'[p]
  BY DEF CreationIsNew
<1>1. CASE /\ op[p] = "create" /\ id'[p] = id[p] /\ pc[p] # "persist"
           /\ pc'[p] \in {"wait", "add"} => pc[p] = "wait"
  <2>1. /\ id[p] \in Temps /\ row[id[p]] = "none"
        /\ pc[p] \in {"wait", "add"} => id[p] \notin dirs \cup refs \cup branches
        /\ \A q \in Procs \ {p} : op[q] = "create" => id[q] # id[p]
    BY <1>0, <1>1 DEF CreationIsNew
  <2>2. row'[id[p]] = "none" BY <1>0, <1>1, <2>1 DEF Frame, RowFrame
  <2>3. pc[p] = "wait" => dirs' \subseteq dirs /\ refs' \subseteq refs /\ branches' \subseteq branches
    BY DEF Frame, DiskFrame
  <2>4. \A q \in Procs \ {p} : op'[q] = "create" => id'[q] # id[p] BY <2>1 DEF Frame
  <2> QED BY <1>1, <2>1, <2>2, <2>3, <2>4
<1>2. CASE /\ id'[p] \in Temps /\ row[id'[p]] = "none" /\ id'[p] \notin dirs \cup refs \cup branches
           /\ \A q \in Procs : id[q] # id'[p]
           /\ pc[p] = "idle"
  <2>1. row'[id'[p]] = "none" BY <1>0, <1>2 DEF Frame, RowFrame
  <2>2. dirs' \subseteq dirs /\ refs' \subseteq refs /\ branches' \subseteq branches
    BY <1>2 DEF Frame, DiskFrame
  <2>3. \A q \in Procs \ {p} : id'[q] = id[q] BY DEF Frame
  <2> QED BY <1>2, <2>1, <2>2, <2>3
<1> QED BY <1>1, <1>2 DEF Frame, NewFrame

(* What a process that comes to, or goes on with, a sequence of steps has.  *)
NewSteps(p) ==
    \/ Step(p)
    \/ /\ pc[p] \in {"add", "build"} /\ todo'[p] = Discard(id[p]) /\ pc'[p] = "steps"
       /\ op'[p] = op[p] /\ UNCHANGED row
       /\ faults' = 0 => pc[p] = "add" /\ ~Addable(id[p])
    \/ /\ pc[p] = "wait" /\ op[p] \in {"delete", "cleanup"} /\ todo'[p] = Cleanup(id[p])
       /\ pc'[p] = "steps" /\ op'[p] = op[p] /\ UNCHANGED <<row, dirs>>
    \/ /\ pc[p] \in {"patch", "squash"} /\ pc'[p] = "steps" /\ op'[p] = op[p]
       /\ (\E delete \in BOOLEAN : todo'[p] = AfterApply(id[p], delete))
       /\ id[p] \in applied' /\ UNCHANGED <<row, dirs>>
    \/ /\ pc[p] = "detect" /\ pc'[p] = "steps" /\ op'[p] = op[p]
       /\ (\E X \in SUBSET Orphans : todo'[p] \in {<<>>, Items(X)})
       /\ UNCHANGED <<row, applied, dirs>>
    \/ /\ pc[p] = "idle" /\ pc'[p] = "list" /\ (\E R \in SUBSET Ids : Read(p, R)) /\ UNCHANGED row

LEMMA NewStepsStep ==
  ASSUME IInv, NEW p \in Procs, Acts(p), pc'[p] \in {"steps", "list"}
  PROVE  NewSteps(p)
<1>0. /\ pc \in [Procs -> PCs] /\ id \in [Procs -> Ids \cup {NoId}]
      /\ op \in [Procs -> Ops] /\ todo \in [Procs -> Seq(Primitive)]
      /\ StepsAreKnown(p) /\ faults \in Nat
  BY DEF IInv, TypeOK
<1> USE <1>0 DEF NewSteps, Goto, disk, proc
<1>1. CASE \E k \in Keys : StartRun(p, k) BY <1>1 DEF StartRun, Command, Act
<1>2. CASE \E k \in Keys : ResumeRun(p, k) BY <1>2 DEF ResumeRun, Act
<1>3. CASE \E t \in Temps : CreateCommand(p, t) BY <1>3 DEF CreateCommand, Command, Act
<1>4. CASE \E i \in Ids : ApplyCommand(p, i) BY <1>4 DEF ApplyCommand, Command, Act
<1>5. CASE \E i \in Ids : DeleteCommand(p, i) BY <1>5 DEF DeleteCommand, Command, Act
<1>6. CASE \E i \in Ids : ShowCommand(p, i)
  <2>1. PICK i \in Ids : ShowCommand(p, i) BY <1>6
  <2>2. {i} \in SUBSET Ids /\ Read(p, {i}) BY <2>1 DEF ShowCommand
  <2> QED BY <2>1, <2>2 DEF ShowCommand, Command
<1>7. CASE \E force \in BOOLEAN : PruneCommand(p, force) BY <1>7 DEF PruneCommand, Command
<1>8. CASE ListCommand(p)
  <2>1. Ids \in SUBSET Ids /\ Read(p, Ids) BY <1>8 DEF ListCommand
  <2> QED BY <1>8, <2>1 DEF ListCommand, Command
<1>9. CASE Confirm(p) BY <1>9 DEF Confirm
<1>10. CASE GiveUp(p) BY <1>10 DEF GiveUp, Idle
<1>11. CASE Take(p)
  <2>1. pc[p] = "wait" /\ UNCHANGED <<op, id, row, dirs>> /\ pc'[p] \in {"steps", "list"}
    BY <1>11 DEF Take
  <2>2. op[p] \in {"start", "create", "apply", "delete", "cleanup", "prune", "force"}
    BY <2>1 DEF IInv, SectionFits
  <2>3. op[p] \in {"delete", "cleanup"}
    <3>1. /\ op[p] \in {"start", "create"} => pc'[p] = "add"
          /\ op[p] = "apply" => pc'[p] = "apply"
          /\ op[p] \in {"prune", "force"} => pc'[p] = "detect"
      BY <1>11 DEF Take
    <3> QED BY <2>1, <2>2, <3>1
  <2>4. pc'[p] = "steps" /\ todo'[p] = Cleanup(id[p]) BY <1>11, <2>3 DEF Take
  <2> QED BY <2>1, <2>3, <2>4
<1>12. CASE AutoApply(p) BY <1>12 DEF AutoApply
<1>13. CASE CloseRun(p) BY <1>13 DEF CloseRun, Idle
<1>14. CASE Crash(p) BY <1>14 DEF Crash, Idle, Fault
<1>15. CASE RefusedNoRoom(p) BY <1>15 DEF RefusedNoRoom, Idle
<1>16. CASE Add(p) BY <1>16 DEF Add
<1>17. CASE AddFails(p) BY <1>17 DEF AddFails, Begin, Fault, NoFault
<1>18. CASE Build(p) BY <1>18 DEF Build, Begin, Fault, NoFault
<1>19. CASE Persist(p) BY <1>19 DEF Persist, Idle, Fault, NoFault
<1>20. CASE RefuseApply(p) BY <1>20 DEF RefuseApply, Refuse, Idle, Fault, NoFault
<1>21. CASE AcceptApply(p) BY <1>21 DEF AcceptApply
<1>22. CASE Conflict(p) BY <1>22 DEF Conflict, Refuse, Idle, Fault, NoFault
<1>23. CASE Verified(p) BY <1>23 DEF Verified
<1>24. CASE NotPatched(p) BY <1>24 DEF NotPatched, Refuse, Idle
<1>25. CASE Patch(p)
  <2>1. \E delete \in BOOLEAN : todo'[p] = AfterApply(id[p], delete) BY <1>25 DEF Patch, Begin
  <2> QED BY <1>25, <2>1 DEF Patch, Begin
<1>26. CASE Squash(p)
  <2>1. \E delete \in BOOLEAN : todo'[p] = AfterApply(id[p], delete) BY <1>26 DEF Squash, Begin
  <2> QED BY <1>26, <2>1 DEF Squash, Begin, StepsAreKnown
<1>27. CASE SquashFails(p) BY <1>27 DEF SquashFails, Idle, Fault
<1>28. CASE Detect(p)
  <2>1. \E X \in SUBSET Orphans : todo'[p] \in {<<>>, Items(X)} BY <1>28 DEF Detect, Begin
  <2> QED BY <1>28, <2>1 DEF Detect, Begin
<1>29. CASE Step(p)
  BY <1>29
<1>30. CASE Done(p) BY <1>30 DEF Done, Idle
<1> QED
  BY <1>1, <1>2, <1>3, <1>4, <1>5, <1>6, <1>7, <1>8, <1>9, <1>10, <1>11, <1>12, <1>13, <1>14, <1>15,
    <1>16, <1>17, <1>18, <1>19, <1>20, <1>21, <1>22, <1>23, <1>24, <1>25, <1>26, <1>27, <1>28,
    <1>29, <1>30
  DEF Acts, Start, Progress, InLock

(* The steps each sequence is made of.                                      *)
LEMMA StepsOf ==
  ASSUME NEW i
  PROVE  /\ ToSet(Discard(i)) \subseteq {Dir(i), Branch(i), Refs}
         /\ ToSet(Cleanup(i)) \subseteq {Dir(i), Mark(i, "cleaned"), Branch(i), Refs}
         /\ \A delete \in BOOLEAN : ToSet(AfterApply(i, delete)) \subseteq
               {Dir(i), Mark(i, "cleaned"), Branch(i), Refs, Mark(i, "merged")}
<1>1. ToSet(Discard(i)) \subseteq {Dir(i), Branch(i), Refs} BY DEF ToSet, Discard
<1>2. ToSet(Cleanup(i)) \subseteq {Dir(i), Mark(i, "cleaned"), Branch(i), Refs} BY DEF ToSet, Cleanup
<1>3. ASSUME NEW delete \in BOOLEAN, NEW s \in ToSet(AfterApply(i, delete))
      PROVE  s \in {Dir(i), Mark(i, "cleaned"), Branch(i), Refs, Mark(i, "merged")}
  <2> DEFINE first == IF delete THEN Cleanup(i) ELSE <<>>
             last == <<Mark(i, "merged")>>
  <2>1. AfterApply(i, delete) = first \o last BY DEF AfterApply
  <2>2. /\ first \in Seq({Dir(i), Mark(i, "cleaned"), Branch(i), Refs})
        /\ last \in Seq({Mark(i, "merged")})
    BY DEF Cleanup
  <2> HIDE DEF first, last
  <2>3. first \o last \in Seq({Dir(i), Mark(i, "cleaned"), Branch(i), Refs, Mark(i, "merged")}) BY <2>2
  <2> QED BY <1>3, <2>1, <2>3 DEF ToSet
<1> QED BY <1>1, <1>2, <1>3

LEMMA OwnKnown ==
  ASSUME IInv, NEW p \in Procs, Acts(p), Frame(p)
  PROVE  StepsAreKnown(p)'
<1>0. /\ row \in [Ids -> Status] /\ id[p] \in Ids \cup {NoId} /\ Keys \subseteq Ids /\ Temps \subseteq Ids
      /\ SectionFits(p) /\ CreationIsNew(p) /\ StepsAreKnown(p)
      /\ NoId \notin Ids
      /\ pc \in [Procs -> PCs] /\ id \in [Procs -> Ids \cup {NoId}]
      /\ op \in [Procs -> Ops] /\ todo \in [Procs -> Seq(Primitive)]
  BY WorktreesAssumption DEF IInv, TypeOK, Ids
<1>1. \A i \in Ids : row[i] # "none" => row'[i] # "none" BY DEF Frame, RowFrame
<1>2. pc[p] # "persist" => \A i \in Ids : row'[i] = "active" => row[i] = "active" BY DEF Frame, RowFrame
<1>3. /\ pc'[p] \in {"verify", "patch", "squash"} => row'[id'[p]] # "none"
      /\ pc'[p] = "squash" => id'[p] \in applied'
  <2>0. pc[p] \in {"apply", "verify", "patch", "squash"} => id[p] \in Ids BY <1>0 DEF SectionFits
  <2> USE <1>0 DEF StepsAreKnown, Goto, disk, proc
  <2>1. CASE \E k \in Keys : StartRun(p, k) BY <2>1, <2>0 DEF StartRun, Command, Act
  <2>2. CASE \E k \in Keys : ResumeRun(p, k) BY <2>2, <2>0 DEF ResumeRun, Act
  <2>3. CASE \E t \in Temps : CreateCommand(p, t) BY <2>3, <2>0 DEF CreateCommand, Command, Act
  <2>4. CASE \E i \in Ids : ApplyCommand(p, i) BY <2>4, <2>0 DEF ApplyCommand, Command, Act
  <2>5. CASE \E i \in Ids : DeleteCommand(p, i) BY <2>5, <2>0 DEF DeleteCommand, Command, Act
  <2>6. CASE \E i \in Ids : ShowCommand(p, i) BY <2>6, <2>0 DEF ShowCommand, Command, Act
  <2>7. CASE \E force \in BOOLEAN : PruneCommand(p, force) BY <2>7, <2>0 DEF PruneCommand, Command
  <2>8. CASE ListCommand(p) BY <2>8, <2>0 DEF ListCommand, Command, Act
  <2>9. CASE Confirm(p) BY <2>9, <2>0 DEF Confirm
  <2>10. CASE GiveUp(p) BY <2>10, <2>0 DEF GiveUp, Idle
  <2>11. CASE Take(p)
    <3>1. pc[p] = "wait" BY <2>11 DEF Take
    <3>2. op[p] \in {"start", "create", "apply", "delete", "cleanup", "prune", "force"}
      BY <3>1 DEF IInv, SectionFits
    <3>3. /\ op[p] \in {"start", "create"} => pc'[p] = "add"
          /\ op[p] = "apply" => pc'[p] = "apply"
          /\ op[p] \in {"delete", "cleanup"} => pc'[p] = "steps"
          /\ op[p] \in {"prune", "force"} => pc'[p] = "detect"
      BY <2>11 DEF Take
    <3> QED BY <3>2, <3>3
  <2>12. CASE AutoApply(p) BY <2>12, <2>0 DEF AutoApply
  <2>13. CASE CloseRun(p) BY <2>13, <2>0 DEF CloseRun, Idle
  <2>14. CASE Crash(p) BY <2>14, <2>0 DEF Crash, Idle, Fault
  <2>15. CASE RefusedNoRoom(p) BY <2>15, <2>0 DEF RefusedNoRoom, Idle
  <2>16. CASE Add(p) BY <2>16, <2>0 DEF Add
  <2>17. CASE AddFails(p) BY <2>17, <2>0 DEF AddFails, Begin, Fault, NoFault
  <2>18. CASE Build(p) BY <2>18, <2>0 DEF Build, Begin, Fault, NoFault
  <2>19. CASE Persist(p) BY <2>19, <2>0 DEF Persist, Idle, Fault, NoFault
  <2>20. CASE RefuseApply(p) BY <2>20, <2>0 DEF RefuseApply, Refuse, Idle, Fault, NoFault
  <2>21. CASE AcceptApply(p) BY <2>21, <2>0 DEF AcceptApply
  <2>22. CASE Conflict(p) BY <2>22, <2>0 DEF Conflict, Refuse, Idle, Fault, NoFault
  <2>23. CASE Verified(p) BY <2>23, <2>0 DEF Verified
  <2>24. CASE NotPatched(p) BY <2>24, <2>0 DEF NotPatched, Refuse, Idle
  <2>25. CASE Patch(p) BY <2>25, <2>0 DEF Patch, Begin
  <2>26. CASE Squash(p) BY <2>26, <2>0 DEF Squash, Begin
  <2>27. CASE SquashFails(p) BY <2>27, <2>0 DEF SquashFails, Idle, Fault
  <2>28. CASE Detect(p) BY <2>28, <2>0 DEF Detect, Begin, Fault, NoFault
  <2>29. CASE Step(p)
    BY <2>29 DEF Step
  <2>30. CASE Done(p) BY <2>30, <2>0 DEF Done, Idle
  <2> QED
    BY <2>1, <2>2, <2>3, <2>4, <2>5, <2>6, <2>7, <2>8, <2>9, <2>10, <2>11, <2>12, <2>13, <2>14,
      <2>15, <2>16, <2>17, <2>18, <2>19, <2>20, <2>21, <2>22, <2>23, <2>24, <2>25, <2>26, <2>27,
      <2>28, <2>29, <2>30
    DEF Acts, Start, Progress, InLock
<1>4. ASSUME pc'[p] = "steps", NEW s \in ToSet(todo'[p]) PROVE KnownStep(p, s)'
  <2> USE DEF KnownStep, Active, Dir, Mark, Branch, Refs
  <2>1. CASE Step(p)
    <3>1. /\ todo[p] \in Seq(Primitive) /\ todo[p] # <<>> /\ pc[p] = "steps"
          /\ op'[p] = op[p] /\ applied' = applied /\ KnownStep(p, Head(todo[p]))
      BY <1>0, <1>4, <2>1, NextStep DEF Step
    <3>2. todo'[p] = Tail(todo[p]) BY <1>0, <2>1, <3>1 DEF Step
    <3>3. s \in ToSet(todo[p])
      <4>1. ToSet(Tail(todo[p])) \subseteq ToSet(todo[p]) BY <3>1, HeadAndTail
      <4> QED BY <1>4, <3>2, <4>1
    <3>4. KnownStep(p, s) BY <1>0, <3>1, <3>3 DEF StepsAreKnown
    <3> QED BY <1>1, <1>2, <3>1, <3>4
  <2>2. CASE pc[p] \in {"add", "build"} /\ todo'[p] = Discard(id[p]) /\ op'[p] = op[p]
    <3>1. s \in {Dir(id[p]), Branch(id[p]), Refs} BY <1>4, <2>2, StepsOf
    <3> QED BY <1>0, <2>2, <3>1 DEF SectionFits
  <2>3. CASE op[p] \in {"delete", "cleanup"} /\ todo'[p] = Cleanup(id[p]) /\ op'[p] = op[p]
    <3>1. s \in {Dir(id[p]), Mark(id[p], "cleaned"), Branch(id[p]), Refs} BY <1>4, <2>3, StepsOf
    <3> QED BY <1>0, <2>3, <3>1 DEF SectionFits
  <2>4. CASE /\ pc[p] \in {"patch", "squash"} /\ op'[p] = op[p] /\ id[p] \in applied'
             /\ \E delete \in BOOLEAN : todo'[p] = AfterApply(id[p], delete)
             /\ UNCHANGED row
    <3>1. s \in {Dir(id[p]), Mark(id[p], "cleaned"), Branch(id[p]), Refs, Mark(id[p], "merged")}
      BY <1>4, <2>4, StepsOf
    <3>2. op[p] = "apply" /\ id[p] \in Ids /\ row[id[p]] # "none"
      BY <1>0, <2>4 DEF SectionFits, StepsAreKnown
    <3> QED BY <2>4, <3>1, <3>2
  <2>5. CASE /\ pc[p] = "detect" /\ op'[p] = op[p] /\ UNCHANGED <<row, applied>>
             /\ \E X \in SUBSET Orphans : todo'[p] \in {<<>>, Items(X)}
    <3>1. todo'[p] # <<>> BY <1>4 DEF ToSet
    <3>2. PICK X \in SUBSET Orphans : todo'[p] = Items(X) BY <2>5, <3>1
    <3>3. todo'[p] \in PruneSteps(p) BY <2>5, <3>2, ItemsFit
    <3>4. KnownStep(p, s) BY <1>4, <3>3 DEF PruneSteps, ToSet
    <3> QED BY <2>5, <3>4
  <2> QED
    <3>1. NewSteps(p) BY <1>4, NewStepsStep
    <3>2. pc'[p] # "list" BY <1>4
    <3> QED BY <2>1, <2>2, <2>3, <2>4, <2>5, <3>1, <3>2 DEF NewSteps
<1>5. ASSUME pc'[p] = "list", NEW s \in ToSet(todo'[p]) PROVE KnownLook(s)'
  <2>1. CASE Step(p)
    <3>1. /\ todo[p] \in Seq(Primitive) /\ todo[p] # <<>> /\ pc[p] = "list" /\ KnownLook(Head(todo[p]))
      BY <1>0, <1>5, <2>1, NextStep DEF Step
    <3> DEFINE h == Head(todo[p])
               r == Tail(todo[p])
    <3>2. \/ todo'[p] = r
          \/ todo'[p] = <<Mark(h.id, "cleaned")>> \o r
      BY <1>0, <2>1 DEF Step
    <3>3. r \in Seq(Primitive) /\ ToSet(r) \subseteq ToSet(todo[p]) BY <3>1, HeadAndTail
    <3> HIDE DEF h, r
    <3>4. s \in ToSet(r) \/ s = Mark(h.id, "cleaned")
      <4>1. CASE todo'[p] = r BY <1>5, <4>1
      <4>2. CASE todo'[p] = <<Mark(h.id, "cleaned")>> \o r
        <5> DEFINE one == <<Mark(h.id, "cleaned")>>
        <5>1. /\ one \in Seq({Mark(h.id, "cleaned")}) /\ Len(one) = 1 /\ one[1] = Mark(h.id, "cleaned")
          OBVIOUS
        <5>2. PICK n \in DOMAIN todo'[p] : s = todo'[p][n] BY <1>5 DEF ToSet
        <5> HIDE DEF one
        <5>3. /\ n \in 1 .. 1 + Len(r) /\ Len(r) \in Nat /\ DOMAIN r = 1 .. Len(r)
              /\ s = IF n <= 1 THEN one[n] ELSE r[n - 1]
          BY <3>3, <4>2, <5>1, <5>2 DEF one
        <5> QED BY <5>1, <5>3 DEF ToSet
      <4> QED BY <3>2, <4>1, <4>2
    <3>5. KnownLook(h) BY <3>1 DEF h
    <3>6. \A x \in ToSet(r) : KnownLook(x) BY <1>0, <3>1, <3>3 DEF StepsAreKnown
    <3> QED BY <1>1, <3>4, <3>5, <3>6 DEF KnownLook, Mark, Check
  <2>2. CASE (\E R \in SUBSET Ids : Read(p, R)) /\ UNCHANGED row
    <3>1. s.id \in Ids /\ Active(s.id) /\ s = Check(s.id) BY <1>5, <2>2, ReadLooks
    <3> QED BY <2>2, <3>1 DEF KnownLook, Active
  <2> QED BY <1>5, <2>1, <2>2, NewStepsStep DEF NewSteps
<1> QED BY <1>3, <1>4, <1>5 DEF StepsAreKnown
----------------------------------------------------------------------------
(* What is MERGED was applied, and what the records agree on.               *)

LEMMA MergedStep ==
  ASSUME IInv, NEW p \in Procs, Frame(p)
  PROVE  MergedIsApplied'
<1> SUFFICES ASSUME NEW t \in Temps, row'[t] = "merged" PROVE t \in applied'
  BY DEF MergedIsApplied
<1>0. /\ SectionFits(p) /\ CreationIsNew(p) /\ t \in Ids /\ t \notin Keys
      /\ t \in Ids \ {id[p]} \/ t = id[p]
  BY WorktreesAssumption DEF IInv, Ids
<1>1. t \in applied /\ row[t] # "none"
  BY <1>0 DEF IInv, MergedIsApplied, Frame, RowFrame
<1>2. ~(pc[p] = "add" /\ id[p] = t) BY <1>0, <1>1 DEF SectionFits, CreationIsNew
<1> QED BY <1>0, <1>1, <1>2 DEF Frame, DiskFrame

(* The order of a process's steps.                                          *)
LEMMA OwnInOrder ==
  ASSUME IInv, NEW p \in Procs, Acts(p), Frame(p), faults' = 0
  PROVE  InOrder(p)'
<1>0. /\ pc \in [Procs -> PCs] /\ id \in [Procs -> Ids \cup {NoId}]
      /\ op \in [Procs -> Ops] /\ todo \in [Procs -> Seq(Primitive)]
      /\ SectionFits(p) /\ CreationIsNew(p) /\ StepsAreKnown(p) /\ faults = 0 /\ InOrder(p)
      /\ Keys \cap Temps = {} /\ NoId \notin Ids /\ Temps \subseteq Ids
  BY WorktreesAssumption DEF IInv, TypeOK, Ids, Frame
<1>1. /\ pc'[p] \in {"build", "persist"} /\ op'[p] = "create" => id'[p] \in dirs'
      /\ pc'[p] \in {"verify", "patch", "squash"} /\ id'[p] \in Temps => id'[p] \in dirs'
  <2> USE <1>0 DEF InOrder, Goto, disk, proc
  <2>1. CASE \E k \in Keys : StartRun(p, k) BY <2>1 DEF StartRun, Command, Act
  <2>2. CASE \E k \in Keys : ResumeRun(p, k) BY <2>2 DEF ResumeRun, Act
  <2>3. CASE \E t \in Temps : CreateCommand(p, t) BY <2>3 DEF CreateCommand, Command, Act
  <2>4. CASE \E i \in Ids : ApplyCommand(p, i) BY <2>4 DEF ApplyCommand, Command, Act
  <2>5. CASE \E i \in Ids : DeleteCommand(p, i) BY <2>5 DEF DeleteCommand, Command, Act
  <2>6. CASE \E i \in Ids : ShowCommand(p, i) BY <2>6 DEF ShowCommand, Command, Act
  <2>7. CASE \E force \in BOOLEAN : PruneCommand(p, force) BY <2>7 DEF PruneCommand, Command
  <2>8. CASE ListCommand(p) BY <2>8 DEF ListCommand, Command, Act
  <2>9. CASE Confirm(p) BY <2>9 DEF Confirm
  <2>10. CASE GiveUp(p) BY <2>10 DEF GiveUp, Idle
  <2>11. CASE Take(p)
    <3>1. pc[p] = "wait" BY <2>11 DEF Take
    <3>2. op[p] \in {"start", "create", "apply", "delete", "cleanup", "prune", "force"}
      BY <3>1 DEF IInv, SectionFits
    <3>3. /\ op[p] \in {"start", "create"} => pc'[p] = "add"
          /\ op[p] = "apply" => pc'[p] = "apply"
          /\ op[p] \in {"delete", "cleanup"} => pc'[p] = "steps"
          /\ op[p] \in {"prune", "force"} => pc'[p] = "detect"
      BY <2>11 DEF Take
    <3> QED BY <3>2, <3>3
  <2>12. CASE AutoApply(p) BY <2>12 DEF AutoApply
  <2>13. CASE CloseRun(p) BY <2>13 DEF CloseRun, Idle
  <2>14. CASE Crash(p) BY <2>14 DEF Crash, Idle, Fault
  <2>15. CASE RefusedNoRoom(p) BY <2>15 DEF RefusedNoRoom, Idle
  <2>16. CASE Add(p) BY <2>16 DEF Add
  <2>17. CASE AddFails(p) BY <2>17 DEF AddFails, Begin, Fault, NoFault
  <2>18. CASE Build(p) BY <2>18 DEF Build, Begin, Fault, NoFault
  <2>19. CASE Persist(p) BY <2>19 DEF Persist, Idle, Fault, NoFault
  <2>20. CASE RefuseApply(p) BY <2>20 DEF RefuseApply, Refuse, Idle, Fault, NoFault
  <2>21. CASE AcceptApply(p) BY <2>21 DEF AcceptApply
  <2>22. CASE Conflict(p) BY <2>22 DEF Conflict, Refuse, Idle, Fault, NoFault
  <2>23. CASE Verified(p) BY <2>23 DEF Verified
  <2>24. CASE NotPatched(p) BY <2>24 DEF NotPatched, Refuse, Idle
  <2>25. CASE Patch(p) BY <2>25 DEF Patch, Begin
  <2>26. CASE Squash(p) BY <2>26 DEF Squash, Begin
  <2>27. CASE SquashFails(p) BY <2>27 DEF SquashFails, Idle, Fault
  <2>28. CASE Detect(p) BY <2>28 DEF Detect, Begin, Fault, NoFault
  <2>29. CASE Step(p)
    <3>1. UNCHANGED <<pc, op, id>> /\ pc[p] \in {"steps", "list"} BY <2>29 DEF Step
    <3> QED BY <3>1
  <2>30. CASE Done(p) BY <2>30 DEF Done, Idle
  <2> QED
    BY <2>1, <2>2, <2>3, <2>4, <2>5, <2>6, <2>7, <2>8, <2>9, <2>10, <2>11, <2>12, <2>13, <2>14,
      <2>15, <2>16, <2>17, <2>18, <2>19, <2>20, <2>21, <2>22, <2>23, <2>24, <2>25, <2>26, <2>27,
      <2>28, <2>29, <2>30
    DEF Acts, Start, Progress, InLock
<1>2. ASSUME pc'[p] = "steps" PROVE DirThenMark(todo[p])'
  <2>1. CASE Step(p)
    <3>1. /\ todo[p] \in Seq(Primitive) /\ todo[p] # <<>> /\ pc[p] = "steps" /\ KnownStep(p, Head(todo[p]))
      BY <1>0, <1>2, <2>1, NextStep DEF Step
    <3>2. todo'[p] = Tail(todo[p]) BY <1>0, <2>1, <3>1 DEF Step, KnownStep
    <3>3. DirThenMark(todo[p]) BY <1>0, <3>1 DEF InOrder
    <3> DEFINE seq == todo[p]
               rest == Tail(todo[p])
    <3>4. /\ rest \in Seq(Primitive) /\ Len(rest) = Len(seq) - 1 /\ Len(seq) \in Nat \ {0}
          /\ \A n \in 1 .. Len(rest) : rest[n] = seq[n + 1]
          /\ DOMAIN rest = 1 .. Len(rest) /\ DOMAIN seq = 1 .. Len(seq) /\ Head(seq) = seq[1]
      BY <3>1, HeadAndTail
    <3>5. dirs' \subseteq dirs /\ \A i \in Temps \cap dirs' : seq[1] # Dir(i)
      <4>1. dirs' \subseteq dirs BY <3>1 DEF Frame, DiskFrame
      <4>2. ASSUME NEW i \in Temps, i \in dirs', seq[1] = Dir(i) PROVE FALSE
        <5>1. RemoveDir(i) BY <2>1, <3>4, <4>2 DEF Step, Dir
        <5>2. i \in refs BY <1>0, <4>1, <4>2 DEF IInv, Agrees
        <5>3. faults' = faults \/ faults' = faults + 1 BY <5>1 DEF RemoveDir, Fault, NoFault
        <5>4. ~Fault BY <1>0 DEF Fault
        <5>5. i \notin dirs' BY <4>1, <4>2, <5>1, <5>2, <5>4 DEF RemoveDir
        <5> QED BY <4>2, <5>5
      <4> QED BY <4>1, <4>2
    <3> HIDE DEF seq, rest
    <3>6. \A n \in DOMAIN rest : rest[n].id \in Temps \cap dirs' =>
             /\ rest[n] = Mark(rest[n].id, "cleaned") => n > 1 /\ rest[n - 1] = Dir(rest[n].id)
             /\ rest[n] = Dir(rest[n].id) => n < Len(rest) /\ rest[n + 1] = Mark(rest[n].id, "cleaned")
      <4> SUFFICES ASSUME NEW n \in DOMAIN rest, rest[n].id \in Temps \cap dirs'
                   PROVE  /\ rest[n] = Mark(rest[n].id, "cleaned") => n > 1 /\ rest[n - 1] = Dir(rest[n].id)
                          /\ rest[n] = Dir(rest[n].id) =>
                                n < Len(rest) /\ rest[n + 1] = Mark(rest[n].id, "cleaned")
        OBVIOUS
      <4>1. n \in 1 .. Len(rest) /\ n + 1 \in DOMAIN seq /\ rest[n] = seq[n + 1] BY <3>4
      <4>2. /\ seq[n + 1] = Mark(seq[n + 1].id, "cleaned") =>
                  n + 1 > 1 /\ seq[(n + 1) - 1] = Dir(seq[n + 1].id)
            /\ seq[n + 1] = Dir(seq[n + 1].id) =>
                  n + 1 < Len(seq) /\ seq[(n + 1) + 1] = Mark(seq[n + 1].id, "cleaned")
        BY <3>3, <3>5, <4>1 DEF DirThenMark, seq
      <4>3. (n + 1) - 1 = n /\ (n # 1 => n > 1 /\ n - 1 \in 1 .. Len(rest) /\ rest[n - 1] = seq[n])
        <5>1. n \in Nat /\ Len(rest) \in Nat /\ n >= 1 /\ n <= Len(rest) BY <3>4, <4>1
        <5>2. n # 1 => n > 1 /\ n - 1 \in 1 .. Len(rest) /\ (n - 1) + 1 = n BY <5>1
        <5> QED BY <3>4, <5>1, <5>2
      <4>4. rest[n] = Mark(rest[n].id, "cleaned") => n > 1 /\ rest[n - 1] = Dir(rest[n].id)
        BY <3>5, <4>1, <4>2, <4>3
      <4>5. rest[n] = Dir(rest[n].id) => n < Len(rest) /\ rest[n + 1] = Mark(rest[n].id, "cleaned")
        <5> SUFFICES ASSUME rest[n] = Dir(rest[n].id)
                     PROVE  n < Len(rest) /\ rest[n + 1] = Mark(rest[n].id, "cleaned") OBVIOUS
        <5>1. n + 1 < Len(seq) /\ seq[(n + 1) + 1] = Mark(seq[n + 1].id, "cleaned") BY <4>1, <4>2
        <5>2. n < Len(rest) /\ n + 1 \in 1 .. Len(rest) BY <3>4, <4>1, <5>1
        <5> QED BY <3>4, <4>1, <5>1, <5>2
      <4> QED BY <4>4, <4>5
    <3> QED BY <3>2, <3>6 DEF DirThenMark, rest, Mark, Dir
  <2>2. CASE pc[p] = "add" /\ ~Addable(id[p]) /\ todo'[p] = Discard(id[p])
    <3>1. id[p] \notin Temps
      <4>1. op[p] \in {"start", "create"} BY <1>0, <2>2 DEF SectionFits
      <4>2. op[p] # "create" BY <1>0, <2>2 DEF CreationIsNew, Addable
      <4> QED BY <1>0, <4>1, <4>2 DEF SectionFits
    <3>2. \A n \in DOMAIN Discard(id[p]) : Discard(id[p])[n].id \notin Temps
      BY <1>0, <3>1 DEF Discard, Dir, Branch, Refs
    <3> QED BY <2>2, <3>2 DEF DirThenMark
  <2>3. CASE todo'[p] = Cleanup(id[p])
    BY <1>0, <2>3 DEF DirThenMark, Cleanup, Dir, Mark, Branch, Refs
  <2>4. CASE \E delete \in BOOLEAN : todo'[p] = AfterApply(id[p], delete)
    <3>1. PICK delete \in BOOLEAN : todo'[p] = AfterApply(id[p], delete) BY <2>4
    <3>2. CASE delete
      <4> DEFINE c == Cleanup(id[p])
                 m == <<Mark(id[p], "merged")>>
                 st == AfterApply(id[p], delete)
      <4>1. /\ st = c \o m /\ DOMAIN st = 1 .. 5 /\ Len(st) = 5
            /\ st[1] = Dir(id[p]) /\ st[2] = Mark(id[p], "cleaned") /\ st[3] = Branch(id[p])
            /\ st[4] = Refs /\ st[5] = Mark(id[p], "merged")
        <5> DEFINE S == {Dir(id[p]), Mark(id[p], "cleaned"), Branch(id[p]), Refs, Mark(id[p], "merged")}
        <5>1. /\ c \in Seq(S) /\ m \in Seq(S) /\ Len(c) = 4 /\ Len(m) = 1
              /\ c[1] = Dir(id[p]) /\ c[2] = Mark(id[p], "cleaned") /\ c[3] = Branch(id[p])
              /\ c[4] = Refs /\ m[1] = Mark(id[p], "merged")
          BY DEF Cleanup
        <5>2. st = c \o m BY <3>2 DEF AfterApply
        <5> HIDE DEF c, m, S, st
        <5>3. /\ c \o m \in Seq(S) /\ Len(c \o m) = Len(c) + Len(m)
              /\ \A n \in 1 .. Len(c) + Len(m) : (c \o m)[n] = IF n <= Len(c) THEN c[n] ELSE m[n - Len(c)]
          <6>1. c \in Seq(S) /\ m \in Seq(S) BY <5>1
          <6> QED BY <6>1
        <5>4. DOMAIN (c \o m) = 1 .. Len(c \o m) BY <5>3
        <5> QED BY <5>1, <5>2, <5>3, <5>4
      <4> HIDE DEF st
      <4>2. \A n \in 1 .. 5 : n = 1 \/ n = 2 \/ n = 3 \/ n = 4 \/ n = 5 OBVIOUS
      <4>3. todo'[p] = st BY <3>1 DEF st
      <4> QED BY <4>1, <4>2, <4>3 DEF DirThenMark, Dir, Mark, Branch, Refs
    <3>3. CASE ~delete
      <4>1. todo'[p] = <<Mark(id[p], "merged")>> BY <3>1, <3>3 DEF AfterApply
      <4> QED BY <4>1 DEF DirThenMark, Dir, Mark
    <3> QED BY <3>2, <3>3
  <2>5. CASE /\ pc[p] = "detect" /\ dirs' = dirs
             /\ \E X \in SUBSET Orphans : todo'[p] \in {<<>>, Items(X)}
    <3>1. CASE todo'[p] = <<>> BY <3>1 DEF DirThenMark
    <3>2. CASE todo'[p] # <<>>
      <4>1. PICK X \in SUBSET Orphans : todo'[p] = Items(X) BY <2>5, <3>2
      <4>2. todo'[p] \in PruneSteps(p) BY <2>5, <4>1, ItemsFit
      <4>3. DirThenMark(todo'[p]) BY <1>0, <4>2 DEF PruneSteps
      <4> QED BY <2>5, <4>3 DEF DirThenMark
    <3> QED BY <3>1, <3>2
  <2> QED
    <3>1. NewSteps(p) BY <1>2, NewStepsStep
    <3>2. pc'[p] # "list" BY <1>2
    <3> QED BY <2>1, <2>2, <2>3, <2>4, <2>5, <3>1, <3>2 DEF NewSteps
<1>3. ASSUME pc'[p] = "list", NEW s \in ToSet(todo'[p]), s.do = "row", s.id \in Temps
      PROVE  s.id \notin dirs'
  <2>1. CASE Step(p)
    <3>1. /\ todo[p] \in Seq(Primitive) /\ todo[p] # <<>> /\ pc[p] = "list"
          /\ KnownLook(Head(todo[p])) /\ dirs' \subseteq dirs
      BY <1>0, <1>3, <2>1, NextStep DEF Step, Frame, DiskFrame
    <3> DEFINE h == Head(todo[p])
               r == Tail(todo[p])
    <3>2. \/ todo'[p] = r
          \/ todo'[p] = <<Mark(h.id, "cleaned")>> \o r /\ h.id \notin dirs
      BY <1>0, <2>1 DEF Step
    <3>3. r \in Seq(Primitive) /\ ToSet(r) \subseteq ToSet(todo[p]) BY <3>1, HeadAndTail
    <3> HIDE DEF h, r
    <3>4. s \in ToSet(r) \/ (s = Mark(h.id, "cleaned") /\ h.id \notin dirs)
      <4>1. CASE todo'[p] = r BY <1>3, <4>1
      <4>2. CASE todo'[p] = <<Mark(h.id, "cleaned")>> \o r /\ h.id \notin dirs
        <5> DEFINE one == <<Mark(h.id, "cleaned")>>
        <5>1. /\ one \in Seq({Mark(h.id, "cleaned")}) /\ Len(one) = 1 /\ one[1] = Mark(h.id, "cleaned")
          OBVIOUS
        <5>2. PICK n \in DOMAIN todo'[p] : s = todo'[p][n] BY <1>3 DEF ToSet
        <5> HIDE DEF one
        <5>3. /\ n \in 1 .. 1 + Len(r) /\ Len(r) \in Nat /\ DOMAIN r = 1 .. Len(r)
              /\ s = IF n <= 1 THEN one[n] ELSE r[n - 1]
          BY <3>3, <4>2, <5>1, <5>2 DEF one
        <5> QED BY <4>2, <5>1, <5>3 DEF ToSet
      <4> QED BY <3>2, <4>1, <4>2
    <3>5. s \in ToSet(todo[p]) => s.id \notin dirs BY <1>0, <1>3, <3>1 DEF InOrder
    <3> QED BY <3>1, <3>3, <3>4, <3>5 DEF Mark
  <2>2. CASE \E R \in SUBSET Ids : Read(p, R)
    <3>1. s = Check(s.id) BY <1>3, <2>2, ReadLooks
    <3> QED BY <1>3, <3>1 DEF Check
  <2> QED BY <1>3, <2>1, <2>2, NewStepsStep DEF NewSteps
<1> QED BY <1>1, <1>2, <1>3 DEF InOrder

(* A step that leaves the records, and what is under way, alone.            *)
Quiet(p) ==
    /\ UNCHANGED <<dirs, refs, branches, row>>
    /\ pc[p] \notin {"build", "persist"}
    /\ pc[p] = "steps" => todo[p] = <<>>

LEMMA QuietStep ==
  ASSUME IInv, NEW p \in Procs, Acts(p), faults' = 0
  PROVE  \/ Quiet(p) \/ Step(p)
         \/ Add(p) \/ Build(p) \/ Persist(p) \/ RefuseApply(p) \/ Conflict(p)
<1>0. pc[p] \in PCs /\ faults \in Nat BY DEF IInv, TypeOK
<1> USE <1>0 DEF Quiet, disk, proc
<1>1. CASE \E k \in Keys : StartRun(p, k) BY <1>1 DEF StartRun, Command, Act
<1>2. CASE \E k \in Keys : ResumeRun(p, k) BY <1>2 DEF ResumeRun, Act
<1>3. CASE \E t \in Temps : CreateCommand(p, t) BY <1>3 DEF CreateCommand, Command, Act
<1>4. CASE \E i \in Ids : ApplyCommand(p, i) BY <1>4 DEF ApplyCommand, Command, Act
<1>5. CASE \E i \in Ids : DeleteCommand(p, i) BY <1>5 DEF DeleteCommand, Command, Act
<1>6. CASE \E i \in Ids : ShowCommand(p, i) BY <1>6 DEF ShowCommand, Command, Act, Read
<1>7. CASE \E force \in BOOLEAN : PruneCommand(p, force) BY <1>7 DEF PruneCommand, Command
<1>8. CASE ListCommand(p) BY <1>8 DEF ListCommand, Command, Act, Read
<1>9. CASE Confirm(p) BY <1>9 DEF Confirm
<1>10. CASE GiveUp(p) BY <1>10 DEF GiveUp, Idle
<1>11. CASE Take(p) BY <1>11 DEF Take
<1>12. CASE AutoApply(p) BY <1>12 DEF AutoApply
<1>13. CASE CloseRun(p) BY <1>13 DEF CloseRun, Idle
<1>14. CASE Crash(p) BY <1>14 DEF Crash, Idle, Fault
<1>15. CASE RefusedNoRoom(p) BY <1>15 DEF RefusedNoRoom, Idle
<1>16. CASE Add(p)
  BY <1>16
<1>17. CASE AddFails(p) BY <1>17 DEF AddFails, Begin, Fault, NoFault
<1>18. CASE Build(p)
  BY <1>18
<1>19. CASE Persist(p)
  BY <1>19
<1>20. CASE RefuseApply(p)
  BY <1>20
<1>21. CASE AcceptApply(p) BY <1>21 DEF AcceptApply
<1>22. CASE Conflict(p)
  BY <1>22
<1>23. CASE Verified(p) BY <1>23 DEF Verified
<1>24. CASE NotPatched(p) BY <1>24 DEF NotPatched, Refuse, Idle
<1>25. CASE Patch(p) BY <1>25 DEF Patch, Begin
<1>26. CASE Squash(p) BY <1>26 DEF Squash, Begin
<1>27. CASE SquashFails(p) BY <1>27 DEF SquashFails, Idle, Fault
<1>28. CASE Detect(p) BY <1>28 DEF Detect, Begin, Fault, NoFault
<1>29. CASE Step(p)
  BY <1>29
<1>30. CASE Done(p) BY <1>30 DEF Done, Idle
<1> QED
  BY <1>1, <1>2, <1>3, <1>4, <1>5, <1>6, <1>7, <1>8, <1>9, <1>10, <1>11, <1>12, <1>13, <1>14, <1>15,
    <1>16, <1>17, <1>18, <1>19, <1>20, <1>21, <1>22, <1>23, <1>24, <1>25, <1>26, <1>27, <1>28,
    <1>29, <1>30
  DEF Acts, Start, Progress, InLock

(* Inside and after a locked section that no failure struck, directory,     *)
(* registration, branch and row of a worktree agree.                        *)
LEMMA AgreesStep ==
  ASSUME IInv, NEW p \in Procs, Acts(p), Frame(p), faults' = 0, NEW t \in Temps
  PROVE  Agrees(t)'
<1>0. /\ row \in [Ids -> Status] /\ id \in [Procs -> Ids \cup {NoId}] /\ pc \in [Procs -> PCs]
      /\ op \in [Procs -> Ops] /\ todo \in [Procs -> Seq(Primitive)]
      /\ faults = 0 /\ Agrees(t) /\ SectionFits(p) /\ CreationIsNew(p) /\ InOrder(p)
      /\ t \in Ids /\ t \notin Keys /\ t \notin Spaces /\ NoId \notin Ids
  BY WorktreesAssumption DEF IInv, TypeOK, Ids, Frame
<1>1. \A q \in Procs \ {p} : (Builds(q, t)' <=> Builds(q, t)) /\ (Marks(q, t)' <=> Marks(q, t))
  BY DEF Frame, Builds, Marks
<1>a. ~Fault BY <1>0 DEF Fault
<1>2. CASE Quiet(p)
  <2>1. ~Builds(p, t) BY <1>2 DEF Quiet, Builds
  <2>2. ~Marks(p, t) BY <1>2 DEF Quiet, Marks, ToSet
  <2>3. /\ (\E q \in Procs : Builds(q, t)) => \E q \in Procs : Builds(q, t)'
        /\ (\E q \in Procs : Marks(q, t)) => \E q \in Procs : Marks(q, t)'
    BY <1>1, <2>1, <2>2
  <2> QED BY <1>0, <1>2, <2>3 DEF Quiet, Agrees
<1>3. CASE Add(p)
  <2>1. ~Builds(p, t) /\ ~Marks(p, t) BY <1>3 DEF Add, Builds, Marks
  <2>2. /\ (\E q \in Procs : Builds(q, t)) => \E q \in Procs : Builds(q, t)'
        /\ (\E q \in Procs : Marks(q, t)) => \E q \in Procs : Marks(q, t)'
    BY <1>1, <2>1
  <2>3. CASE id[p] = t
    <3>1. op[p] = "create" BY <1>0, <1>3, <2>3 DEF SectionFits, Add
    <3>2. Builds(p, t)' BY <1>0, <1>3, <2>3, <3>1 DEF Add, Builds, Goto
    <3> QED BY <1>3, <2>3, <3>2 DEF Add, Agrees
  <2>4. CASE id[p] # t
    <3>1. (t \in dirs' <=> t \in dirs) /\ (t \in refs' <=> t \in refs) /\ (t \in branches' <=> t \in branches)
      BY <1>3, <2>4 DEF Add
    <3>2. row' = row BY <1>3 DEF Add
    <3> QED BY <1>0, <2>2, <3>1, <3>2 DEF Agrees
  <2> QED BY <2>3, <2>4
<1>4. CASE Build(p)
  <2>1. UNCHANGED <<dirs, refs, branches, row, op, id>> /\ pc' = [pc EXCEPT ![p] = "persist"] /\ UNCHANGED todo
    BY <1>4, <1>a DEF Build, Goto
  <2>2. (Builds(p, t) => Builds(p, t)') /\ ~Marks(p, t)
    BY <1>0, <1>4, <2>1 DEF Build, Builds, Marks
  <2>3. /\ (\E q \in Procs : Builds(q, t)) => \E q \in Procs : Builds(q, t)'
        /\ (\E q \in Procs : Marks(q, t)) => \E q \in Procs : Marks(q, t)'
    BY <1>1, <2>2
  <2> QED BY <1>0, <2>1, <2>3 DEF Agrees
<1>5. CASE Persist(p)
  <2>1. /\ UNCHANGED <<dirs, refs, branches>> /\ pc[p] = "persist"
        /\ row' = IF row[id[p]] = "none" THEN [row EXCEPT ![id[p]] = "active"] ELSE row
    BY <1>5, <1>a DEF Persist, disk
  <2>2. ~Marks(p, t) /\ (Builds(p, t) => row'[t] = "active" /\ t \in dirs)
    <3>1. Builds(p, t) => row[t] = "none" /\ t \in dirs BY <1>0 DEF Builds, CreationIsNew, InOrder
    <3> QED BY <1>0, <2>1, <3>1 DEF Builds, Marks
  <2>3. row'[t] # row[t] => row'[t] = "active" /\ t \in dirs
    <3> SUFFICES ASSUME row'[t] # row[t] PROVE row'[t] = "active" /\ t \in dirs OBVIOUS
    <3>1. id[p] = t /\ row'[t] = "active" BY <1>0, <2>1
    <3>2. op[p] = "create" BY <1>0, <2>1, <3>1 DEF SectionFits
    <3> QED BY <1>0, <2>1, <3>1, <3>2 DEF InOrder
  <2>4. /\ (\E q \in Procs : Builds(q, t)) => (\E q \in Procs : Builds(q, t)') \/ row'[t] = "active"
        /\ (\E q \in Procs : Marks(q, t)) => \E q \in Procs : Marks(q, t)'
    BY <1>1, <2>2
  <2> QED BY <1>0, <2>1, <2>3, <2>4 DEF Agrees
<1>6. CASE RefuseApply(p) \/ Conflict(p)
  <2>1. UNCHANGED <<dirs, refs, branches>> /\ pc[p] \in {"apply", "verify"}
    BY <1>6 DEF RefuseApply, Conflict, Refuse, disk
  <2>2. ~Builds(p, t) /\ ~Marks(p, t) BY <2>1 DEF Builds, Marks
  <2>3. /\ (\E q \in Procs : Builds(q, t)) => \E q \in Procs : Builds(q, t)'
        /\ (\E q \in Procs : Marks(q, t)) => \E q \in Procs : Marks(q, t)'
    BY <1>1, <2>2
  <2>4. \/ row'[t] = row[t]
        \/ t \notin dirs /\ row'[t] = "cleaned"
        \/ t \in dirs /\ row'[t] = "conflict"
    <3>1. CASE RefuseApply(p) BY <1>0, <1>a, <3>1 DEF RefuseApply
    <3>2. CASE Conflict(p)
      <4>1. pc[p] = "verify" /\ (row' = row \/ row' = [row EXCEPT ![id[p]] = "conflict"])
        BY <3>2 DEF Conflict
      <4> QED BY <1>0, <4>1 DEF InOrder
    <3> QED BY <1>6, <3>1, <3>2
  <2> QED BY <1>0, <2>1, <2>3, <2>4 DEF Agrees
<1>7. CASE Step(p)
  <2> DEFINE s == Head(todo[p])
             rest == Tail(todo[p])
  <2>1. /\ s \in Primitive /\ (pc[p] = "steps" => KnownStep(p, s)) /\ pc[p] \in {"steps", "list"}
        /\ pc[p] = "list" => KnownLook(s) /\ s.do \in {"row", "check"}
        /\ todo[p] \in Seq(Primitive) /\ todo[p] # <<>> /\ s \in ToSet(todo[p])
    BY <1>7, NextStep, HeadAndTail DEF Step
  <2>2. /\ DOMAIN todo[p] = 1 .. Len(todo[p]) /\ Len(todo[p]) \in Nat \ {0} /\ s = todo[p][1]
        /\ Len(rest) = Len(todo[p]) - 1 /\ \A n \in 1 .. Len(rest) : rest[n] = todo[p][n + 1]
        /\ rest \in Seq(Primitive) /\ DOMAIN rest = 1 .. Len(rest)
    BY <2>1, HeadAndTail
  <2>3. UNCHANGED <<pc, op, id>> BY <1>7 DEF Step
  <2>4. ~Builds(p, t) BY <2>1 DEF Builds
  <2>5. Builds(p, t)' => FALSE BY <2>1, <2>3 DEF Builds
  <2>6. pc[p] = "steps" => todo'[p] = rest BY <1>0, <1>7, <2>1 DEF Step, KnownStep
  <2>7. Marks(p, t) => Marks(p, t)' \/ (s.do = "row" /\ s.id = t)
    <3> SUFFICES ASSUME Marks(p, t), ~(s.do = "row" /\ s.id = t) PROVE Marks(p, t)' OBVIOUS
    <3>1. PICK n \in DOMAIN todo[p] : todo[p][n].do = "row" /\ todo[p][n].id = t
      BY DEF Marks, ToSet
    <3>2. n # 1 BY <2>2, <3>1
    <3>3. n - 1 \in 1 .. Len(rest) /\ (n - 1) + 1 = n BY <2>2, <3>2
    <3>4. rest[n - 1] = todo[p][n] BY <2>2, <3>3
    <3>5. todo[p][n] \in ToSet(rest) BY <2>2, <3>3, <3>4 DEF ToSet
    <3> QED BY <2>3, <2>6, <3>1, <3>5 DEF Marks
  <2>8. CASE s.do = "dir"
    <3>1. pc[p] = "steps" /\ RemoveDir(s.id) /\ UNCHANGED <<branches, row>> BY <1>7, <2>1, <2>8 DEF Step
    <3>2. s.id \in Ids \cup Spaces \cup {NoId} BY <2>1 DEF Primitive
    <3>3. CASE s.id = t
      <4>1. t \notin dirs' /\ t \notin refs' /\ (t \notin dirs => dirs' = dirs)
        <5>1. t \in refs => t \in dirs BY <1>0 DEF Agrees
        <5>2. t \in Below(t) BY <1>0 DEF Below
        <5>3. t \in dirs => t \in refs BY <1>0 DEF Agrees
        <5>4. CASE t \in dirs
          BY <1>a, <3>1, <3>3, <5>2, <5>3, <5>4 DEF RemoveDir
        <5>5. CASE t \notin dirs
          <6>1. t \notin nests BY <1>0 DEF IInv, TypeOK
          <6>2. t \notin refs BY <5>1, <5>5
          <6> QED BY <3>1, <3>3, <5>5, <6>1, <6>2 DEF RemoveDir
        <5> QED BY <5>4, <5>5
      <4>2. t \in dirs => Marks(p, t)'
        <5> SUFFICES ASSUME t \in dirs PROVE Marks(p, t)' OBVIOUS
        <5>1. s = Dir(t) BY <2>1, <2>8, <3>1, <3>3 DEF Dir, Primitive, KnownStep
        <5>2. 1 < Len(todo[p]) /\ todo[p][2] = Mark(t, "cleaned")
          BY <1>0, <2>2, <3>1, <3>3, <5>1 DEF InOrder, DirThenMark
        <5>3. 1 \in 1 .. Len(rest) /\ rest[1] = Mark(t, "cleaned") BY <2>2, <5>2
        <5>4. Mark(t, "cleaned") \in ToSet(rest) BY <2>2, <5>3 DEF ToSet
        <5> QED BY <2>3, <2>6, <3>1, <5>4 DEF Marks, Mark
      <4>3. t \notin dirs /\ row[t] \in {"active", "conflict"} => \E q \in Procs : Marks(q, t)'
        <5> SUFFICES ASSUME t \notin dirs, row[t] \in {"active", "conflict"}
                     PROVE  \E q \in Procs : Marks(q, t)' OBVIOUS
        <5>1. \E q \in Procs : Marks(q, t) BY <1>0 DEF Agrees
        <5> QED BY <1>1, <2>7, <2>8, <5>1
      <4> QED BY <3>1, <4>1, <4>2, <4>3 DEF Agrees
    <3>4. CASE s.id # t
      <4>1. (t \in dirs' <=> t \in dirs) /\ (t \in refs' <=> t \in refs)
        <5>1. t \notin Below(s.id)
          <6>1. \A k \in DOMAIN Space : k \in Keys BY WorktreesAssumption
          <6> QED BY <1>0, <3>4, <6>1 DEF Below
        <5> QED BY <3>1, <3>4, <5>1 DEF RemoveDir
      <4>2. row[t] \in {"active", "conflict"} /\ t \notin dirs => \E q \in Procs : Marks(q, t)'
        BY <1>0, <1>1, <2>7, <2>8 DEF Agrees
      <4>3. (\E q \in Procs : Builds(q, t)) => \E q \in Procs : Builds(q, t)' BY <1>1, <2>4
      <4> QED BY <1>0, <3>1, <4>1, <4>2, <4>3 DEF Agrees
    <3> QED BY <3>3, <3>4
  <2>9. CASE s.do = "row"
    <3>1. UpdateStatus(s.id, s.to) /\ UNCHANGED disk BY <1>7, <2>9 DEF Step
    <3>2. row' = (IF row[s.id] = "none" THEN row ELSE [row EXCEPT ![s.id] = s.to]) /\ s.id \in Ids
          /\ s.to \in {"cleaned", "merged"}
      BY <1>a, <2>1, <2>9, <3>1 DEF UpdateStatus, KnownStep, KnownLook, Mark, Check, Primitive
    <3>3. CASE s.id = t
      <4>1. t \in dirs => s.to = "merged"
        <5> SUFFICES ASSUME t \in dirs, s.to = "cleaned" PROVE FALSE BY <3>2
        <5>1. pc[p] = "steps" BY <1>0, <2>1, <2>9, <3>3 DEF InOrder
        <5>2. s = Mark(t, "cleaned") BY <2>1, <2>9, <3>3 DEF Mark, Primitive
        <5> QED BY <1>0, <2>2, <3>3, <5>1, <5>2 DEF InOrder, DirThenMark
      <4>2. (row'[t] = row[t] /\ row[t] = "none") \/ row'[t] = s.to BY <1>0, <3>2, <3>3
      <4>3. (\E q \in Procs : Builds(q, t)) => \E q \in Procs : Builds(q, t)' BY <1>1, <2>4
      <4> QED BY <1>0, <3>1, <3>2, <4>1, <4>2, <4>3 DEF Agrees, disk
    <3>4. CASE s.id # t
      <4>1. row'[t] = row[t] BY <1>0, <3>2, <3>4
      <4>2. row[t] \in {"active", "conflict"} /\ t \notin dirs => \E q \in Procs : Marks(q, t)'
        BY <1>0, <1>1, <2>7, <3>4 DEF Agrees
      <4>3. (\E q \in Procs : Builds(q, t)) => \E q \in Procs : Builds(q, t)' BY <1>1, <2>4
      <4> QED BY <1>0, <3>1, <4>1, <4>2, <4>3 DEF Agrees, disk
    <3> QED BY <3>3, <3>4
  <2>10. CASE s.do \notin {"dir", "row"}
    <3>1. UNCHANGED <<dirs, row>> /\ (t \in dirs => t \in refs' \cap branches') /\ refs' \subseteq refs
      <4>1. t \in dirs => t \in refs \cap branches BY <1>0 DEF Agrees
      <4>2. CASE s.do = "branch"
        BY <1>7, <2>10, <4>1, <4>2 DEF Step, DeleteBranch
      <4>3. CASE s.do = "refs"
        BY <1>7, <2>10, <4>1, <4>3 DEF Step, PruneRefs
      <4>4. CASE s.do = "check"
        BY <1>7, <2>10, <4>1, <4>4 DEF Step, disk
      <4> QED BY <2>1, <2>10, <4>2, <4>3, <4>4 DEF Primitive
    <3>2. row[t] \in {"active", "conflict"} /\ t \notin dirs => \E q \in Procs : Marks(q, t)'
      BY <1>0, <1>1, <2>7, <2>10 DEF Agrees
    <3>3. (\E q \in Procs : Builds(q, t)) => \E q \in Procs : Builds(q, t)' BY <1>1, <2>4
    <3> QED BY <1>0, <3>1, <3>2, <3>3 DEF Agrees
  <2> QED BY <2>8, <2>9, <2>10
<1> QED BY <1>2, <1>3, <1>4, <1>5, <1>6, <1>7, QuietStep
----------------------------------------------------------------------------
(* The inductive invariant.                                                 *)

LEMMA ProcessStep ==
  ASSUME IInv, NEW p \in Procs, Acts(p)
  PROVE  IInv'
<1>1. Frame(p) BY FrameStep
<1>2. TypeOK' BY TypeStep
<1>3. MergedIsApplied' BY <1>1, MergedStep
<1>4. ASSUME NEW q \in Procs PROVE SectionFits(q)' /\ CreationIsNew(q)' /\ StepsAreKnown(q)'
  <2>1. CASE q = p BY <1>1, <2>1, OwnFits, OwnNew, OwnKnown
  <2>2. CASE q # p BY <1>1, <2>2, OthersFit
  <2> QED BY <2>1, <2>2
<1>5. ASSUME faults' = 0 PROVE (\A t \in Temps : Agrees(t)') /\ \A q \in Procs : InOrder(q)'
  <2>1. \A t \in Temps : Agrees(t)' BY <1>1, <1>5, AgreesStep
  <2>2. ASSUME NEW q \in Procs PROVE InOrder(q)'
    <3>1. CASE q = p BY <1>1, <1>5, <3>1, OwnInOrder
    <3>2. CASE q # p BY <1>1, <1>2, <1>5, <3>2, OthersInOrder
    <3> QED BY <3>1, <3>2
  <2> QED BY <2>1, <2>2
<1> QED BY <1>2, <1>3, <1>4, <1>5 DEF IInv

(* What users do to the files concerns nothing but the files.               *)
LEMMA UserStep ==
  ASSUME IInv, (\E i \in Ids : Edit(i) \/ RemovedOutside(i)) \/ MainChanges
  PROVE  IInv'
<1>0. /\ dirs \subseteq Ids /\ work \in [Ids -> SUBSET {"edits", "commits"}]
      /\ faults \in 0 .. MaxFaults /\ acts \in 0 .. MaxActs
      /\ MaxActs \in Nat /\ MaxFaults \in Nat
  BY WorktreesAssumption DEF IInv, TypeOK
<1>1. /\ UNCHANGED <<nests, refs, branches, row, applied, proc>>
      /\ dirs' \subseteq dirs
      /\ faults' = 0 => faults = 0 /\ dirs' = dirs
  <2>1. CASE \E i \in Ids : Edit(i) BY <1>0, <2>1 DEF Edit
  <2>2. CASE \E i \in Ids : RemovedOutside(i) BY <1>0, <2>2 DEF RemovedOutside, Fault
  <2>3. CASE MainChanges BY <1>0, <2>3 DEF MainChanges, disk
  <2> QED BY <2>1, <2>2, <2>3
<1>2. acts' \in 0 .. MaxActs /\ faults' \in 0 .. MaxFaults
  <2>1. CASE \E i \in Ids : Edit(i) BY <1>0, <2>1 DEF Edit, Act
  <2>2. CASE \E i \in Ids : RemovedOutside(i) BY <1>0, <2>2 DEF RemovedOutside, Fault
  <2>3. CASE MainChanges BY <1>0, <2>3 DEF MainChanges, Act
  <2> QED BY <2>1, <2>2, <2>3
<1>3. work' \in [Ids -> SUBSET {"edits", "commits"}]
  <2>1. CASE \E i \in Ids : Edit(i) BY <1>0, <2>1 DEF Edit
  <2>2. CASE \E i \in Ids : RemovedOutside(i) BY <1>0, <2>2 DEF RemovedOutside, Lose
  <2>3. CASE MainChanges BY <1>0, <2>3 DEF MainChanges, disk
  <2> QED BY <2>1, <2>2, <2>3
<1>4. mainDirty' \in BOOLEAN
  <2>0. mainDirty \in BOOLEAN BY DEF IInv, TypeOK
  <2> QED BY <2>0 DEF Edit, RemovedOutside, MainChanges
<1>5. TypeOK' BY <1>1, <1>2, <1>3, <1>4 DEF IInv, TypeOK, proc
<1>6. ASSUME NEW q \in Procs PROVE SectionFits(q)' /\ CreationIsNew(q)' /\ StepsAreKnown(q)'
  <2>1. SectionFits(q)' BY <1>1 DEF IInv, SectionFits, proc
  <2>2. CreationIsNew(q)' BY <1>1 DEF IInv, CreationIsNew, proc
  <2>3. \A s : (KnownStep(q, s)' <=> KnownStep(q, s)) /\ (KnownLook(s)' <=> KnownLook(s))
    BY <1>1 DEF KnownStep, KnownLook, Active, proc
  <2>4. StepsAreKnown(q)' BY <1>1, <2>3 DEF IInv, StepsAreKnown, proc
  <2> QED BY <2>1, <2>2, <2>4
<1>7. ASSUME faults' = 0 PROVE (\A t \in Temps : Agrees(t)') /\ \A q \in Procs : InOrder(q)'
  <2>1. faults = 0 /\ UNCHANGED <<dirs, refs, branches, row, pc, op, id, todo>> BY <1>1, <1>7 DEF proc
  <2>2. \A t \in Temps : Agrees(t)' BY <2>1 DEF IInv, Agrees, Builds, Marks
  <2>3. \A q \in Procs : InOrder(q)' BY <2>1 DEF IInv, InOrder, DirThenMark
  <2> QED BY <2>2, <2>3
<1>8. MergedIsApplied' BY <1>1 DEF IInv, MergedIsApplied
<1> QED BY <1>5, <1>6, <1>7, <1>8 DEF IInv

LEMMA IInvInit ==
  ASSUME Init
  PROVE  IInv
<1>0. /\ NoId \notin Ids /\ MaxActs \in Nat /\ MaxFaults \in Nat /\ NoProc \notin Procs
  BY WorktreesAssumption
<1>1. acts \in 0 .. MaxActs /\ faults \in 0 .. MaxFaults BY <1>0 DEF Init
<1>2. mainDirty \in BOOLEAN BY DEF Init
<1>3. todo \in [Procs -> Seq(Primitive)] BY DEF Init
<1>4. TypeOK BY <1>1, <1>2, <1>3 DEF Init, TypeOK, Status, PCs, Ops
<1>5. \A p \in Procs : pc[p] = "idle" /\ op[p] = "none" /\ using[p] = NoId BY DEF Init
<1>6. \A p \in Procs : SectionFits(p) /\ CreationIsNew(p) /\ StepsAreKnown(p) /\ InOrder(p)
  BY <1>5 DEF SectionFits, InSection, CreationIsNew, StepsAreKnown, InOrder
<1>7. \A t \in Temps : row[t] = "none" /\ t \notin dirs /\ t \notin refs BY DEF Init, Ids
<1>8. MergedIsApplied /\ \A t \in Temps : Agrees(t) BY <1>7 DEF MergedIsApplied, Agrees
<1> QED BY <1>4, <1>6, <1>8 DEF IInv

LEMMA NextIsAStep ==
  ASSUME Next
  PROVE  (\E p \in Procs : Acts(p)) \/ (\E i \in Ids : Edit(i) \/ RemovedOutside(i)) \/ MainChanges
<1>1. ASSUME NEW p \in Procs,
             Start(p) \/ Confirm(p) \/ GiveUp(p) \/ Take(p) \/ Progress(p)
             \/ AutoApply(p) \/ CloseRun(p) \/ Crash(p)
      PROVE  Acts(p)
  BY <1>1 DEF Acts
<1> QED BY <1>1 DEF Next

(* The sections of create, apply, delete and prune, a run's, and what list  *)
(* and show do outside the lock keep IInv, for any number of each.          *)
THEOREM WorktreesInvariant == Spec => []IInv
<1>1. Init => IInv BY IInvInit
<1>2. IInv /\ [Next]_vars => IInv'
  <2> SUFFICES ASSUME IInv, [Next]_vars PROVE IInv' OBVIOUS
  <2>1. CASE Next BY <2>1, NextIsAStep, ProcessStep, UserStep
  <2>2. CASE UNCHANGED vars
    <3>1. UNCHANGED <<disk, proc, row, applied, mainDirty, acts, faults>> BY <2>2 DEF vars
    <3>2. TypeOK' BY <3>1 DEF IInv, TypeOK, disk, proc
    <3>3. \A q \in Procs : SectionFits(q)' /\ CreationIsNew(q)'
      BY <3>1 DEF IInv, SectionFits, CreationIsNew, disk, proc
    <3>4. \A s : \A q \in Procs : (KnownStep(q, s)' <=> KnownStep(q, s)) /\ (KnownLook(s)' <=> KnownLook(s))
      BY <3>1 DEF KnownStep, KnownLook, Active, proc
    <3>5. \A q \in Procs : StepsAreKnown(q)' BY <3>1, <3>4 DEF IInv, StepsAreKnown, proc
    <3>6. faults' = 0 => \A t \in Temps : Agrees(t)'
      BY <3>1 DEF IInv, Agrees, Builds, Marks, disk, proc
    <3>7. faults' = 0 => \A q \in Procs : InOrder(q)'
      BY <3>1 DEF IInv, InOrder, DirThenMark, disk, proc
    <3>8. MergedIsApplied' BY <3>1 DEF IInv, MergedIsApplied
    <3> QED BY <3>2, <3>3, <3>5, <3>6, <3>7, <3>8 DEF IInv
  <2> QED BY <2>1, <2>2
<1> QED BY <1>1, <1>2, PTL DEF Spec

(* Whenever the lock is free and nothing has failed, a worktree of `dovo    *)
(* worktree create` is recorded in full or not at all; and no row says      *)
(* MERGED of changes that are not in the main workspace, whatever failed.   *)
THEOREM RecordsAlwaysAgree == Spec => []RecordsAgree
<1>1. IInv => RecordsAgree
  <2> SUFFICES ASSUME IInv PROVE RecordsAgree OBVIOUS
  <2>1. ASSUME faults = 0, lock = NoProc, NEW t \in Temps
        PROVE  /\ t \in dirs => t \in refs \cap branches /\ row[t] \in {"active", "merged", "conflict"}
               /\ t \notin dirs => t \notin refs /\ row[t] \notin {"active", "conflict"}
    <3>1. Agrees(t) BY <2>1 DEF IInv
    <3>2. \A p \in Procs : pc[p] \notin InSection
      BY <2>1, WorktreesAssumption DEF IInv, SectionFits
    <3>3. \A p \in Procs : ~Builds(p, t) /\ ~Marks(p, t) BY <3>2 DEF Builds, Marks, InSection
    <3> QED BY <3>1, <3>3 DEF Agrees
  <2>2. SectionsAgree BY <2>1 DEF SectionsAgree
  <2> QED BY <2>2 DEF IInv, RecordsAgree
<1> QED BY <1>1, WorktreesInvariant, PTL

----------------------------------------------------------------------------
(* The capacity and what a prune spares.                                    *)

LEMMA ChildrenFinite ==
  ASSUME TypeOK
  PROVE  IsFiniteSet(Children)
<1>1. IsFiniteSet(Ids \cup Spaces) BY WorktreesAssumption, FS_Union
<1>2. Children \in SUBSET (Ids \cup Spaces) BY DEF Children, TypeOK
<1> QED BY <1>1, <1>2, FS_Subset

(* A step adds at most one directory, and only where there is room.         *)
LEMMA ChildrenStep ==
  ASSUME NEW p \in Procs, Acts(p)
  PROVE  Children' \subseteq Children \/ (Roomy /\ \E x : Children' \subseteq Children \cup {x})
<1> USE DEF Children, disk
<1>1. CASE \E k \in Keys : StartRun(p, k) BY <1>1 DEF StartRun, Command
<1>2. CASE \E k \in Keys : ResumeRun(p, k) BY <1>2 DEF ResumeRun
<1>3. CASE \E t \in Temps : CreateCommand(p, t) BY <1>3 DEF CreateCommand, Command
<1>4. CASE \E i \in Ids : ApplyCommand(p, i) BY <1>4 DEF ApplyCommand, Command
<1>5. CASE \E i \in Ids : DeleteCommand(p, i) BY <1>5 DEF DeleteCommand, Command
<1>6. CASE \E i \in Ids : ShowCommand(p, i) BY <1>6 DEF ShowCommand, Command
<1>7. CASE \E force \in BOOLEAN : PruneCommand(p, force) BY <1>7 DEF PruneCommand, Command
<1>8. CASE ListCommand(p) BY <1>8 DEF ListCommand, Command
<1>9. CASE Confirm(p) BY <1>9 DEF Confirm
<1>10. CASE GiveUp(p) BY <1>10 DEF GiveUp, Idle
<1>11. CASE Take(p) BY <1>11 DEF Take
<1>12. CASE AutoApply(p) BY <1>12 DEF AutoApply
<1>13. CASE CloseRun(p) BY <1>13 DEF CloseRun, Idle
<1>14. CASE Crash(p) BY <1>14 DEF Crash, Idle
<1>15. CASE RefusedNoRoom(p) BY <1>15 DEF RefusedNoRoom, Idle
<1>16. CASE Add(p)
  <2>1. Roomy /\ dirs' = dirs \cup {id[p]} /\ nests' = nests \cup Parents(id[p]) BY <1>16 DEF Add
  <2>2. CASE id[p] \in DOMAIN Space
    <3>1. Children' \subseteq Children \cup {Space[id[p]]} BY <2>1, <2>2 DEF Parents
    <3> QED BY <2>1, <3>1
  <2>3. CASE id[p] \notin DOMAIN Space
    <3>1. Children' \subseteq Children \cup {id[p]} BY <2>1, <2>3 DEF Parents
    <3> QED BY <2>1, <3>1
  <2> QED BY <2>2, <2>3
<1>17. CASE AddFails(p)
  <2>1. CASE UNCHANGED <<dirs, nests>> BY <2>1
  <2>2. CASE Roomy /\ dirs' = dirs \cup {id[p]} /\ nests' = nests \cup Parents(id[p])
    <3>1. CASE id[p] \in DOMAIN Space
      <4>1. Children' \subseteq Children \cup {Space[id[p]]} BY <2>2, <3>1 DEF Parents
      <4> QED BY <2>2, <4>1
    <3>2. CASE id[p] \notin DOMAIN Space
      <4>1. Children' \subseteq Children \cup {id[p]} BY <2>2, <3>2 DEF Parents
      <4> QED BY <2>2, <4>1
    <3> QED BY <3>1, <3>2
  <2> QED BY <1>17, <2>1, <2>2 DEF AddFails
<1>18. CASE Build(p) BY <1>18 DEF Build
<1>19. CASE Persist(p) BY <1>19 DEF Persist, Idle
<1>20. CASE RefuseApply(p) BY <1>20 DEF RefuseApply, Refuse, Idle
<1>21. CASE AcceptApply(p) BY <1>21 DEF AcceptApply
<1>22. CASE Conflict(p) BY <1>22 DEF Conflict, Refuse, Idle
<1>23. CASE Verified(p) BY <1>23 DEF Verified
<1>24. CASE NotPatched(p) BY <1>24 DEF NotPatched, Refuse, Idle
<1>25. CASE Patch(p) BY <1>25 DEF Patch
<1>26. CASE Squash(p) BY <1>26 DEF Squash
<1>27. CASE SquashFails(p) BY <1>27 DEF SquashFails, Idle
<1>28. CASE Detect(p) BY <1>28 DEF Detect
<1>29. CASE Step(p)
  <2>1. \/ dirs' \subseteq dirs /\ nests' \subseteq nests
        \/ UNCHANGED <<dirs, nests>>
    BY <1>29 DEF Step, RemoveDir
  <2> QED BY <2>1
<1>30. CASE Done(p) BY <1>30 DEF Done, Idle
<1> QED
  BY <1>1, <1>2, <1>3, <1>4, <1>5, <1>6, <1>7, <1>8, <1>9, <1>10, <1>11, <1>12, <1>13, <1>14, <1>15,
    <1>16, <1>17, <1>18, <1>19, <1>20, <1>21, <1>22, <1>23, <1>24, <1>25, <1>26, <1>27, <1>28,
    <1>29, <1>30
  DEF Acts, Start, Progress, InLock

(* There are never more worktree directories than                           *)
(* worktree.max_active_worktrees: create() counts in the section that adds. *)
THEOREM CapacityHolds == Spec => []WithinCapacity
<1>1. Init => WithinCapacity
  <2> SUFFICES ASSUME Init PROVE WithinCapacity OBVIOUS
  <2>1. Children = {} BY DEF Init, Children
  <2>2. Cardinality(Children) = 0 BY <2>1, FS_EmptySet
  <2> QED BY <2>2, WorktreesAssumption DEF WithinCapacity
<1>2. IInv /\ IInv' /\ WithinCapacity /\ [Next]_vars => WithinCapacity'
  <2> SUFFICES ASSUME IInv, IInv', WithinCapacity, [Next]_vars PROVE WithinCapacity' OBVIOUS
  <2>1. Children' \subseteq Children \/ (Roomy /\ \E x : Children' \subseteq Children \cup {x})
    <3>1. CASE \E p \in Procs : Acts(p) BY <3>1, ChildrenStep
    <3>2. CASE (\E i \in Ids : Edit(i) \/ RemovedOutside(i)) \/ MainChanges
      BY <3>2 DEF Edit, RemovedOutside, MainChanges, Children, disk
    <3>3. CASE UNCHANGED vars BY <3>3 DEF vars, disk, Children
    <3> QED BY <3>1, <3>2, <3>3, NextIsAStep
  <2>2. IsFiniteSet(Children) /\ IsFiniteSet(Children')
    <3>1. IsFiniteSet(Children) BY ChildrenFinite DEF IInv
    <3>2. IsFiniteSet(Ids \cup Spaces) BY WorktreesAssumption, FS_Union
    <3>3. Children' \in SUBSET (Ids \cup Spaces) BY DEF Children, TypeOK, IInv
    <3> QED BY <3>1, <3>2, <3>3, FS_Subset
  <2>3. /\ Cardinality(Children) \in Nat /\ Cardinality(Children') \in Nat /\ Capacity \in Nat
        /\ Cardinality(Children) <= Capacity
    BY <2>2, FS_CardinalityType, WorktreesAssumption DEF WithinCapacity
  <2>4. CASE Children' \subseteq Children
    <3>1. Cardinality(Children') <= Cardinality(Children) BY <2>2, <2>4, FS_Subset
    <3> QED BY <2>3, <3>1 DEF WithinCapacity
  <2>5. CASE Roomy /\ \E x : Children' \subseteq Children \cup {x}
    <3>1. PICK x : Children' \subseteq Children \cup {x} BY <2>5
    <3>2. IsFiniteSet(Children \cup {x}) /\ Cardinality(Children \cup {x}) <= Cardinality(Children) + 1
      <4>1. /\ IsFiniteSet(Children \cup {x})
            /\ Cardinality(Children \cup {x}) =
                  IF x \in Children THEN Cardinality(Children) ELSE Cardinality(Children) + 1
        BY <2>2, FS_AddElement
      <4> QED BY <2>3, <4>1
    <3>3. Cardinality(Children') <= Cardinality(Children \cup {x}) BY <3>1, <3>2, FS_Subset
    <3>4. Cardinality(Children \cup {x}) \in Nat BY <3>2, FS_CardinalityType
    <3> QED BY <2>3, <2>5, <3>2, <3>3, <3>4 DEF Roomy, WithinCapacity
  <2> QED BY <2>1, <2>4, <2>5
<1> QED BY <1>1, <1>2, WorktreesInvariant, PTL DEF Spec

(* A prune removes no worktree whose row is ACTIVE, whatever failed, died   *)
(* or was made between its look and its removal.                            *)
THEOREM PruneSparesActive == Spec => ActiveIsSpared
<1> DEFINE Spared == \A i \in Ids \ DOMAIN Space :
                        Active(i) /\ i \in dirs \ dirs' => ~\E p \in Procs : Pruning(p)
<1>1. IInv /\ [Next]_vars => [Spared]_vars
  <2> SUFFICES ASSUME IInv, Next, NEW i \in Ids \ DOMAIN Space, Active(i), i \in dirs \ dirs',
                      NEW p \in Procs, Pruning(p)
               PROVE  FALSE
    OBVIOUS
  <2>1. PICK q \in Procs : Acts(q)
    <3>1. ~MainChanges /\ ~\E k \in Ids : Edit(k) BY DEF MainChanges, Edit, disk
    <3>2. ~\E k \in Ids : RemovedOutside(k) BY DEF RemovedOutside, proc, Pruning
    <3> QED BY <3>1, <3>2, NextIsAStep
  <2>2. Frame(q) BY <2>1, FrameStep
  <2>3. q = p /\ op[p] \in {"prune", "force"} BY <2>2 DEF Frame, Pruning
  <2>4. pc[p] = "steps" BY <2>2, <2>3 DEF Frame, DiskFrame
  <2>5. Step(p)
    <3>1. Acts(p) BY <2>1, <2>3
    <3>2. ~(Start(p) \/ Confirm(p) \/ GiveUp(p) \/ Take(p) \/ AutoApply(p) \/ CloseRun(p) \/ InLock(p))
      BY <2>4 DEF Start, StartRun, ResumeRun, CreateCommand, ApplyCommand, DeleteCommand, ShowCommand,
          PruneCommand, ListCommand, Command, Confirm, GiveUp, Take, AutoApply, CloseRun, InLock,
          RefusedNoRoom, Add, AddFails, Build, Persist, RefuseApply, AcceptApply, Conflict, Verified,
          NotPatched, Patch, Squash, SquashFails, Detect
    <3>3. ~Crash(p) /\ ~Done(p) BY DEF Crash, Done, disk
    <3> QED BY <3>1, <3>2, <3>3 DEF Acts, Progress
  <2> DEFINE s == Head(todo[p])
  <2>6. KnownStep(p, s) /\ s \in Primitive BY <2>4, <2>5, NextStep
  <2>7. s.do = "dir" /\ RemoveDir(s.id) BY <2>5 DEF Step, disk
  <2>8. i = s.id
    <3>1. i \in Below(s.id) \/ i = s.id BY <2>7 DEF RemoveDir
    <3>2. i \notin {k \in DOMAIN Space : Space[k] = s.id} OBVIOUS
    <3> QED BY <3>1, <3>2 DEF Below
  <2> QED BY <2>3, <2>6, <2>7, <2>8 DEF KnownStep
<1> QED BY <1>1, WorktreesInvariant, PTL DEF Spec, ActiveIsSpared
=============================================================================
