--------------------------- MODULE BlueprintsProofs ---------------------------
(***************************************************************************)
(* The catalog that several commands and an editor change at once, the       *)
(* condition that ends a loop, and the inputs of a run: for any number of    *)
(* processes, paths, commands, edits, expressions, results, declarations and *)
(* command lines.                                                            *)
(***************************************************************************)
EXTENDS Catalog, Conditions, CommandInputs, TLAPS

(***************************************************************************)
(* The catalog.                                                             *)
(***************************************************************************)

(* The orders in which the tiers are scanned and read, and what is left.    *)
LEMMA TodoFacts ==
  /\ <<>> \in Todos /\ SyncOrder \in Todos /\ ReadOrder \in Todos /\ <<"repo">> \in Todos
  /\ \A t \in Tiers : <<t>> \in Todos /\ Head(<<t>>) = t /\ Tail(<<t>>) = <<>> /\ <<t>> # <<>>
  /\ SyncOrder # <<>> /\ ReadOrder # <<>>
  /\ Left(SyncOrder) = Tiers /\ Left(ReadOrder) = Tiers /\ Left(<<>>) = {}
  /\ \A todo \in Todos : todo # <<>> =>
       /\ Head(todo) \in Tiers /\ Tail(todo) \in Todos
       /\ Left(todo) = Left(Tail(todo)) \cup {Head(todo)} /\ Head(todo) \notin Left(Tail(todo))
<1>1. /\ DOMAIN <<>> = {}
      /\ \A a : DOMAIN <<a>> = {1}
      /\ \A a, b : DOMAIN <<a, b>> = {1, 2}
      /\ \A a, b, c : DOMAIN <<a, b, c>> = {1, 2, 3}
  OBVIOUS
<1>2. /\ Left(<<>>) = {}
      /\ \A a : Left(<<a>>) = {a}
      /\ \A a, b : Left(<<a, b>>) = {a, b}
      /\ \A a, b, c : Left(<<a, b, c>>) = {a, b, c}
  BY <1>1 DEF Left
<1>3. /\ \A a : Head(<<a>>) = a /\ Tail(<<a>>) = <<>> /\ <<a>> # <<>>
      /\ \A a, b : Head(<<a, b>>) = a /\ Tail(<<a, b>>) = <<b>> /\ <<a, b>> # <<>>
      /\ \A a, b, c : Head(<<a, b, c>>) = a /\ Tail(<<a, b, c>>) = <<b, c>> /\ <<a, b, c>> # <<>>
  OBVIOUS
<1>4. /\ <<>> \in Todos /\ SyncOrder \in Todos /\ ReadOrder \in Todos /\ <<"repo">> \in Todos
      /\ \A t \in Tiers : <<t>> \in Todos
  BY DEF Todos, Tiers
<1>5. Left(SyncOrder) = Tiers /\ Left(ReadOrder) = Tiers /\ SyncOrder # <<>> /\ ReadOrder # <<>>
  BY <1>2, <1>3 DEF SyncOrder, ReadOrder, Tiers
<1>6. ASSUME NEW todo \in Todos, todo # <<>>
      PROVE  /\ Head(todo) \in Tiers /\ Tail(todo) \in Todos
             /\ Left(todo) = Left(Tail(todo)) \cup {Head(todo)} /\ Head(todo) \notin Left(Tail(todo))
  <2>1. CASE \E t \in Tiers : todo = <<t>> BY <2>1, <1>2, <1>3, <1>4
  <2>2. CASE todo = <<"user", "repo">> BY <2>2, <1>2, <1>3, <1>4 DEF Tiers
  <2>3. CASE todo = <<"user", "global">> BY <2>3, <1>2, <1>3, <1>4 DEF Tiers
  <2>4. CASE todo = SyncOrder BY <2>4, <1>2, <1>3 DEF Tiers, SyncOrder, Todos
  <2>5. CASE todo = ReadOrder BY <2>5, <1>2, <1>3 DEF Tiers, ReadOrder, Todos
  <2> QED BY <1>6, <2>1, <2>2, <2>3, <2>4, <2>5 DEF Todos, Tiers
<1> QED BY <1>2, <1>3, <1>4, <1>5, <1>6

(* The fields of a command.                                                 *)
LEMMA CommandFields ==
  DOMAIN Idle = {"pc", "op", "target", "tier", "path", "todo", "then", "scan", "seen", "outer", "item"}
BY DEF Idle

(* The numbers of the tiers, the most specific first.                      *)
LEMMA RankFacts ==
  /\ Rank("repo") = 1 /\ Rank("user") = 2 /\ Rank("global") = 3 /\ Rank("packaged") = 4
<1>1. DOMAIN Precedence = {1, 2, 3, 4} BY DEF Precedence
<1>2. Precedence[1] = "repo" /\ Precedence[2] = "user" /\ Precedence[3] = "global" /\ Precedence[4] = "packaged"
  BY DEF Precedence
<1> QED BY <1>1, <1>2 DEF Rank

(* Among some of six ranks there is a least one.                            *)
LEMMA LeastOfSix ==
  ASSUME NEW R, R # {}, R \subseteq {1, 2, 3, 4, 5, 6}
  PROVE  \E m \in R : \A n \in R : m <= n
<1>1. CASE 1 \in R BY <1>1
<1>2. CASE 1 \notin R /\ 2 \in R BY <1>2
<1>3. CASE 1 \notin R /\ 2 \notin R /\ 3 \in R BY <1>3
<1>4. CASE 1 \notin R /\ 2 \notin R /\ 3 \notin R /\ 4 \in R BY <1>4
<1>5. CASE R \subseteq {5, 6} /\ 5 \in R BY <1>5
<1>6. CASE R = {6} BY <1>6
<1> QED BY <1>1, <1>2, <1>3, <1>4, <1>5, <1>6

(* There is a most specific one among several.                              *)
LEMMA WinnerFacts ==
  ASSUME NEW found, found # {}, \A c \in found : c.tier \in Tiers \cup {"packaged"}
  PROVE  Winner(found) \in found /\ \A d \in found : Rank(Winner(found).tier) <= Rank(d.tier)
<1>1. PICK b \in found : \A d \in found : Rank(b.tier) <= Rank(d.tier)
  <2> DEFINE ranks == {Rank(c.tier) : c \in found}
  <2>1. ranks # {} /\ ranks \subseteq {1, 2, 3, 4, 5, 6} BY RankFacts DEF Tiers
  <2>2. PICK m \in ranks : \A n \in ranks : m <= n
    <3> HIDE DEF ranks
    <3> QED BY <2>1, LeastOfSix
  <2> QED BY <2>2
<1> DEFINE ofTier == {c \in found : c.tier = b.tier}
           P(c) == PathRank(c.entry.path)
<1>2. \A c \in found : P(c) \in {1, 2, 3, 4, 5, 6}
  <2>1. ASSUME NEW p PROVE PathRank(p) \in {1, 2, 3, 4, 5, 6}
    <3>1. CASE p.type = "step" BY <3>1 DEF PathRank
    <3>2. CASE p.type # "step" BY <3>2 DEF PathRank
    <3> QED BY <3>1, <3>2
  <2> QED BY <2>1
<1>3. PICK c \in ofTier : \A d \in ofTier : P(c) <= P(d)
  <2> HIDE DEF P
  <2> DEFINE ranks == {P(d) : d \in ofTier}
  <2>1. ranks # {} /\ ranks \subseteq {1, 2, 3, 4, 5, 6} BY <1>2
  <2>2. PICK m \in ranks : \A n \in ranks : m <= n
    <3> HIDE DEF ranks
    <3> QED BY <2>1, LeastOfSix
  <2> QED BY <2>2
<1> DEFINE W(w) == \A d \in found : MostSpecific(w, d) /\ (w.tier = d.tier => P(w) <= P(d))
<1>4. c \in found /\ W(c) BY <1>1, <1>3 DEF MostSpecific
<1>5. Winner(found) = CHOOSE w \in found : W(w) BY DEF Winner
<1> HIDE DEF W
<1>6. Winner(found) \in found /\ W(Winner(found)) BY <1>4, <1>5
<1> QED BY <1>6 DEF W, MostSpecific

(* What is not of a tier's index comes with the package.                    *)
LEMMA CandidateFacts == \A u \in Users : \A c \in Candidates(u) : c \in user[u].seen \/ c.tier = "packaged"
<1>1. \A p : FromPackage(p).tier = "packaged" BY DEF FromPackage
<1>2. \A d \in Defaults : d.tier = "packaged" BY <1>1 DEF Defaults
<1>3. \A target : \A d \in Fallback(target) : d.tier = "packaged" BY <1>1 DEF Fallback
<1> QED BY <1>2, <1>3 DEF Candidates

(* Before any command there is nothing to be out of order.                 *)
LEMMA CatalogStart == Init => CatalogIInv
<1> SUFFICES ASSUME Init PROVE CatalogIInv OBVIOUS
<1> USE CatalogAssumption, TodoFacts DEF Init
<1>0. \A u \in Users : user[u] = Idle OBVIOUS
<1>1. TypeOK BY DEF TypeOK, Contents, Authors
<1>2. CommandsOK BY <1>0 DEF CommandsOK, Idle, PCs
<1>3. CommandsInOrder BY <1>0 DEF CommandsInOrder, Idle, At, InOrder
<1>4. LocksInHand BY <1>0 DEF LocksInHand, Idle, At
<1>5. SteadyAreThere /\ IndexIsFresh /\ ScansAreFresh /\ SteadyAreSeen
  BY DEF SteadyAreThere, IndexIsFresh, ScansAreFresh, SteadyAreSeen
<1>6. LookupIsMostSpecific /\ CreationsAreFree BY <1>0 DEF LookupIsMostSpecific, CreationsAreFree, Idle, At
<1> QED BY <1>1, <1>2, <1>3, <1>4, <1>5, <1>6 DEF CatalogIInv

(* What a command reads of its own state after a step.                      *)
LEMMA SetFields ==
  ASSUME CommandsOK, NEW u \in Users, NEW new, Set(u, new)
  PROVE  /\ DOMAIN user' = Users /\ DOMAIN user'[u] = DOMAIN Idle
         /\ \A w \in Users : w # u => user'[w] = user[w]
         /\ \A f \in DOMAIN Idle : user'[u][f] = IF f \in DOMAIN new THEN new[f] ELSE user[u][f]
BY DEF CommandsOK, Set, With

(* A command ends, whatever it was about.                                   *)
LEMMA FinishStep ==
  ASSUME CatalogIInv, NEW u \in Users, Finish(u), UNCHANGED <<files, index, steady>>
  PROVE  CatalogIInv'
<1> USE CatalogAssumption, TodoFacts DEF CatalogIInv, At
<1>0. /\ DOMAIN user' = Users /\ user'[u] = Idle
      /\ \A w \in Users : w # u => user'[w] = user[w]
      /\ \A l \in {"repo", "global"} : holder'[l] = IF holder[l] = u THEN "free" ELSE holder[l]
  BY DEF Finish, CommandsOK, TypeOK
<1>1. TypeOK' BY DEF TypeOK, Finish
<1>2. CommandsOK' BY <1>0 DEF CommandsOK, Idle, PCs
<1>3. CommandsInOrder' BY <1>0 DEF CommandsInOrder, Idle, InOrder
<1>4. LocksInHand'
  <2>1. u # "free" /\ DOMAIN holder' = {"repo", "global"} BY DEF Finish, TypeOK
  <2>2. \A w \in Users : w # u => \A l \in {"repo", "global"} : holder'[l] = w <=> holder[l] = w
    BY <1>0
  <2>3. \A l \in {"repo", "global"} : holder'[l] # u BY <1>0, <2>1
  <2>4. \A w \in Users : /\ w # u /\ user[w].outer # "none" => user[w].outer \in {"repo", "global"}
                         /\ w # u /\ user[w].pc = "write" => LockOf(Head(user[w].todo)) \in {"repo", "global"}
    BY DEF CommandsOK, LockOf
  <2> QED BY <1>0, <2>2, <2>3, <2>4 DEF LocksInHand, Idle
<1>5. SteadyAreThere' /\ IndexIsFresh' BY <1>0 DEF SteadyAreThere, IndexIsFresh, Indexed, Idle
<1>6. ScansAreFresh' /\ SteadyAreSeen' BY <1>0 DEF ScansAreFresh, SteadyAreSeen, Indexed, Idle
<1>7. LookupIsMostSpecific' /\ CreationsAreFree' BY <1>0 DEF LookupIsMostSpecific, CreationsAreFree, Idle
<1> QED BY <1>1, <1>2, <1>3, <1>4, <1>5, <1>6, <1>7

(* A command begins: the files of the moment are the steady ones.           *)
LEMMA CommandStep ==
  ASSUME CatalogIInv, NEW u \in Users, Command(u)
  PROVE  CatalogIInv'
<1> USE CatalogAssumption, TodoFacts DEF CatalogIInv, At
<1>0. /\ UNCHANGED <<files, index, holder>> /\ user[u].pc = "idle"
      /\ steady' = [steady EXCEPT ![u] = {x \in Tiers \X Paths : files[x[1]][x[2]] \notin {"absent", "unreadable"}}]
  BY DEF Command, Begin, BeginGet, BeginCreate, BeginSave, BeginDelete, BeginSeed
<1> DEFINE Begun ==
      /\ DOMAIN user' = Users /\ DOMAIN user'[u] = DOMAIN Idle
      /\ \A w \in Users : w # u => user'[w] = user[w]
      /\ user'[u].outer = user[u].outer /\ user'[u].scan = user[u].scan /\ user'[u].seen = user[u].seen
      /\ \/ /\ user'[u].pc = "index" /\ user'[u].op = "get"
            /\ user'[u].todo = SyncOrder /\ user'[u].then = "read"
         \/ /\ user'[u].pc = "lock" /\ user'[u].todo = user[u].todo /\ user'[u].tier \in Tiers
            /\ \/ user'[u].then = "check"
               \/ user'[u].then = "put" /\ user'[u].op = "save"
               \/ user'[u].then \in {"sync", "seed"} /\ user'[u].tier = "repo"
            /\ user'[u].then = "sync" => user'[u].op = "delete"
            /\ user'[u].then \in {"check", "put"} => user'[u].path \in Paths
<1>1. Begun
  <2>1. ASSUME NEW target \in Targets, BeginGet(u, target) PROVE Begun
    BY <2>1, SetFields, CommandFields DEF BeginGet, Begin
  <2>2. ASSUME NEW target \in Targets, BeginDelete(u, target) PROVE Begun
    BY <2>2, SetFields, CommandFields DEF BeginDelete, Begin, Tiers
  <2>3. ASSUME NEW path \in Paths, BeginSave(u, path) PROVE Begun
    BY <2>3, SetFields, CommandFields DEF BeginSave, Begin, Tiers
  <2>4. ASSUME NEW path \in Paths, NEW tier \in Tiers, BeginCreate(u, path, tier) PROVE Begun
    BY <2>4, SetFields, CommandFields DEF BeginCreate, Begin
  <2>5. ASSUME NEW force, BeginSeed(u, force) PROVE Begun
    BY <2>5, SetFields, CommandFields DEF BeginSeed, Begin, Tiers
  <2> QED BY <2>1, <2>2, <2>3, <2>4, <2>5 DEF Command
<1>2. TypeOK' BY <1>0 DEF TypeOK
<1>3. CommandsOK' BY <1>1 DEF CommandsOK, PCs
<1>4. CommandsInOrder' BY <1>0, <1>1 DEF CommandsInOrder, InOrder
<1>5. LocksInHand'
  <2>1. user[u].outer = "none" BY <1>0 DEF CommandsInOrder, InOrder
  <2> QED BY <1>0, <1>1, <2>1 DEF LocksInHand
<1>6. SteadyAreThere'
  <2>1. ASSUME NEW t \in Tiers, NEW p \in Paths, <<t, p>> \in steady'[u]
        PROVE  files[t][p] \notin {"absent", "unreadable"}
    <3>1. steady'[u] = {x \in Tiers \X Paths : files[x[1]][x[2]] \notin {"absent", "unreadable"}}
      BY <1>0 DEF TypeOK
    <3> QED BY <2>1, <3>1
  <2> QED BY <1>0, <2>1 DEF SteadyAreThere
<1>7. IndexIsFresh' /\ ScansAreFresh' BY <1>0, <1>1 DEF IndexIsFresh, ScansAreFresh, Indexed
<1>8. SteadyAreSeen' BY <1>0, <1>1 DEF SteadyAreSeen
<1>9. LookupIsMostSpecific' /\ CreationsAreFree' BY <1>0, <1>1 DEF LookupIsMostSpecific, CreationsAreFree
<1> QED BY <1>2, <1>3, <1>4, <1>5, <1>6, <1>7, <1>8, <1>9

(* A lock is taken for the rest of the command.                             *)
LEMMA AcquireStep ==
  ASSUME CatalogIInv, NEW u \in Users, Acquire(u)
  PROVE  CatalogIInv'
<1> USE CatalogAssumption, TodoFacts DEF CatalogIInv, At
<1> DEFINE lock == LockOf(user[u].tier)
<1>0. /\ UNCHANGED <<files, index, steady>> /\ user[u].pc = "lock"
      /\ holder' = [holder EXCEPT ![lock] = u] /\ holder[lock] \in {"free", u}
      /\ lock \in {"repo", "global"} /\ u # "free" /\ DOMAIN holder = {"repo", "global"}
  BY DEF Acquire, Free, TypeOK, LockOf
<1>1. /\ DOMAIN user' = Users /\ DOMAIN user'[u] = DOMAIN Idle
      /\ \A w \in Users : w # u => user'[w] = user[w]
      /\ user'[u].scan = user[u].scan /\ user'[u].seen = user[u].seen
      /\ user'[u].tier = user[u].tier /\ user'[u].op = user[u].op /\ user'[u].path = user[u].path
      /\ user[u].then = "sync" =>
           /\ user'[u].pc = "index" /\ user'[u].todo = SyncOrder /\ user'[u].then = "read"
           /\ user'[u].outer = "repo"
      /\ user[u].then # "sync" =>
           user'[u].pc = user[u].then /\ user'[u].outer = lock /\ user'[u].todo = user[u].todo
  <2>1. CASE user[u].then = "sync" BY <2>1, SetFields, CommandFields DEF Acquire
  <2>2. CASE user[u].then # "sync" BY <2>2, SetFields, CommandFields DEF Acquire
  <2> QED BY <2>1, <2>2
<1>o. /\ user[u].outer = "none" /\ user[u].tier \in Tiers
      /\ \/ user[u].then = "check"
         \/ user[u].then = "put" /\ user[u].op = "save"
         \/ user[u].then \in {"sync", "seed"} /\ user[u].tier = "repo"
      /\ user[u].then = "sync" => user[u].op = "delete"
      /\ user[u].then \in {"check", "put"} => user[u].path \in Paths
  BY <1>0 DEF CommandsInOrder, InOrder
<1>p. user[u].then = "sync" => lock = "repo" BY <1>o DEF LockOf
<1>2. TypeOK' BY <1>0 DEF TypeOK
<1>3. CommandsOK' BY <1>0, <1>1, <1>o DEF CommandsOK, PCs
<1>4. CommandsInOrder' BY <1>0, <1>1, <1>o DEF CommandsInOrder, InOrder
<1>5. LocksInHand'
  <2>1. user'[u].outer = lock /\ user'[u].pc # "write" BY <1>1, <1>o, <1>p
  <2>2. \A l \in {"repo", "global"} : holder'[l] = IF l = lock THEN u ELSE holder[l] BY <1>0
  <2>3. \A l \in {"repo", "global"} : holder[l] # u BY <1>0, <1>o DEF LocksInHand
  <2>4. \A w \in Users : /\ user[w].outer # "none" => user[w].outer \in {"repo", "global"}
                         /\ user[w].pc = "write" => LockOf(Head(user[w].todo)) \in {"repo", "global"}
    BY DEF CommandsOK, LockOf
  <2> QED BY <1>0, <1>1, <2>1, <2>2, <2>3, <2>4 DEF LocksInHand
<1>6. SteadyAreThere' /\ IndexIsFresh' BY <1>0, <1>1, <1>o DEF SteadyAreThere, IndexIsFresh, Indexed
<1>7. ScansAreFresh' BY <1>0, <1>1, <1>o DEF ScansAreFresh, Indexed
<1>8. SteadyAreSeen' BY <1>0, <1>1, <1>o DEF SteadyAreSeen
<1>9. LookupIsMostSpecific' BY <1>0, <1>1, <1>o DEF LookupIsMostSpecific
<1>10. CreationsAreFree' BY <1>0, <1>1, <1>o DEF CreationsAreFree
<1> QED BY <1>2, <1>3, <1>4, <1>5, <1>6, <1>7, <1>8, <1>9, <1>10

(* A tier is scanned under its lock.                                        *)
LEMMA ScanStep ==
  ASSUME CatalogIInv, NEW u \in Users, Scan(u)
  PROVE  CatalogIInv'
<1> USE CatalogAssumption, TodoFacts DEF CatalogIInv, At
<1> DEFINE tier == Head(user[u].todo)
           scan == {Entry(p, files[tier][p]) : p \in {q \in Paths : files[tier][q] \notin {"absent", "unreadable"}}}
<1>0. /\ UNCHANGED <<files, index, steady>> /\ user[u].pc = "index" /\ user[u].todo # <<>>
      /\ holder' = [holder EXCEPT ![LockOf(tier)] = u] /\ holder[LockOf(tier)] \in {"free", u}
      /\ LockOf(tier) \in {"repo", "global"} /\ u # "free" /\ DOMAIN holder = {"repo", "global"}
  BY DEF Scan, Free, TypeOK, LockOf
<1>1. /\ DOMAIN user' = Users /\ DOMAIN user'[u] = DOMAIN Idle
      /\ \A w \in Users : w # u => user'[w] = user[w]
      /\ user'[u].pc = "write" /\ user'[u].scan = scan /\ user'[u].seen = user[u].seen
      /\ user'[u].op = user[u].op /\ user'[u].todo = user[u].todo /\ user'[u].then = user[u].then
      /\ user'[u].outer = user[u].outer
  <2>1. Set(u, [pc |-> "write", scan |-> scan]) BY DEF Scan
  <2> HIDE DEF scan
  <2> QED BY <2>1, SetFields, CommandFields
<1>s. /\ \A e \in scan : e.path \in Paths /\ e.sha.content \in Contents
      /\ \A p \in Paths : files[tier][p] \notin {"absent", "unreadable"} => Entry(p, files[tier][p]) \in scan
  <2>1. tier \in Tiers BY <1>0 DEF CommandsOK
  <2>2. \A p \in Paths : files[tier][p] \in Contents BY <2>1 DEF TypeOK
  <2>3. \A p, c : Entry(p, c).path = p /\ Entry(p, c).sha.content = c BY DEF Entry
  <2>4. \A e \in scan : \E p \in Paths : e = Entry(p, files[tier][p]) OBVIOUS
  <2>5. \A p \in Paths : files[tier][p] \notin {"absent", "unreadable"} => Entry(p, files[tier][p]) \in scan OBVIOUS
  <2> QED BY <2>2, <2>3, <2>4, <2>5
<1> HIDE DEF scan
<1>2. TypeOK' BY <1>0 DEF TypeOK
<1>3. CommandsOK' BY <1>0, <1>1, <1>s DEF CommandsOK, PCs
<1>4. CommandsInOrder' BY <1>0, <1>1 DEF CommandsInOrder, InOrder
<1>5. LocksInHand'
  <2>2. \A l \in {"repo", "global"} : holder'[l] = IF l = LockOf(tier) THEN u ELSE holder[l] BY <1>0
  <2>4. \A w \in Users : /\ user[w].outer # "none" => user[w].outer \in {"repo", "global"}
                         /\ user[w].pc = "write" => LockOf(Head(user[w].todo)) \in {"repo", "global"}
    BY DEF CommandsOK, LockOf
  <2> QED BY <1>0, <1>1, <2>2, <2>4 DEF LocksInHand
<1>6. SteadyAreThere' /\ IndexIsFresh' BY <1>0, <1>1 DEF SteadyAreThere, IndexIsFresh, Indexed
<1>7. ScansAreFresh' BY <1>0, <1>1, <1>s DEF ScansAreFresh, Indexed, SteadyAreThere
<1>8. SteadyAreSeen' BY <1>0, <1>1 DEF SteadyAreSeen
<1>9. LookupIsMostSpecific' /\ CreationsAreFree' BY <1>0, <1>1 DEF LookupIsMostSpecific, CreationsAreFree
<1> QED BY <1>2, <1>3, <1>4, <1>5, <1>6, <1>7, <1>8, <1>9

(* The index is replaced by what the scan has found.  Whoever relies on this *)
(* index has been indexed before the scan, or is the one that writes.       *)
LEMMA WriteIndexStep ==
  ASSUME CatalogIInv, NEW u \in Users, WriteIndex(u)
  PROVE  CatalogIInv'
<1> USE CatalogAssumption, TodoFacts DEF CatalogIInv, At
<1> DEFINE tier == Head(user[u].todo)
           rest == Tail(user[u].todo)
           last == rest = <<>> /\ user[u].then = "report"
           kept == user[u].outer = LockOf(tier) /\ ~last
<1>0. /\ UNCHANGED <<files, steady>> /\ user[u].pc = "write" /\ user[u].todo # <<>>
      /\ index' = [index EXCEPT ![tier] = user[u].scan]
      /\ holder' = [holder EXCEPT ![LockOf(tier)] = IF kept THEN u ELSE "free"]
      /\ LockOf(tier) \in {"repo", "global"} /\ u # "free" /\ DOMAIN holder = {"repo", "global"}
      /\ tier \in Tiers /\ rest \in Todos /\ Left(user[u].todo) = Left(rest) \cup {tier} /\ tier \notin Left(rest)
  BY DEF WriteIndex, TypeOK, LockOf, CommandsOK, CommandsInOrder, InOrder
<1>1. /\ DOMAIN user' = Users /\ DOMAIN user'[u] = DOMAIN Idle
      /\ \A w \in Users : w # u => user'[w] = user[w]
      /\ last => user'[u] = Idle
      /\ ~last =>
           /\ user'[u].scan = {} /\ user'[u].seen = user[u].seen /\ user'[u].op = user[u].op
           /\ user'[u].then = user[u].then /\ user'[u].outer = user[u].outer
           /\ rest = <<>> => user'[u].pc = "read" /\ user'[u].todo = ReadOrder
           /\ rest # <<>> => user'[u].pc = "index" /\ user'[u].todo = rest
  <2> HIDE DEF last, rest
  <2>1. user' = [user EXCEPT ![u] =
              IF last THEN Idle
              ELSE IF rest = <<>> THEN [@ EXCEPT !.pc = "read", !.todo = ReadOrder, !.scan = {}]
              ELSE [@ EXCEPT !.pc = "index", !.todo = rest, !.scan = {}]]
    BY DEF WriteIndex, last, rest
  <2>2. CASE last BY <2>1, <2>2 DEF CommandsOK
  <2>3. CASE ~last /\ rest = <<>> BY <2>1, <2>3, CommandFields DEF CommandsOK
  <2>4. CASE ~last /\ rest # <<>> BY <2>1, <2>4, CommandFields DEF CommandsOK
  <2> QED BY <2>2, <2>3, <2>4
<1>o. /\ user[u].then \in {"read", "report"}
      /\ user[u].then = "report" => rest = <<>> /\ user[u].outer = LockOf(tier)
      /\ user[u].then = "read" =>
           \/ user[u].op = "get" /\ user[u].outer = "none"
           \/ user[u].op = "delete" /\ user[u].outer = "repo"
  BY <1>0 DEF CommandsInOrder, InOrder
<1>t. ~last => user[u].then = "read" BY <1>o
<1>i. /\ Idle.pc = "idle" /\ Idle.outer = "none" /\ Idle.todo = <<>> /\ Idle.scan = {} /\ Idle.seen = {}
  BY DEF Idle
<1>2. TypeOK'
  <2>1. \A e \in user[u].scan : e.path \in Paths /\ e.sha.content \in Contents BY DEF CommandsOK
  <2> QED BY <1>0, <2>1 DEF TypeOK
<1> HIDE DEF last, rest
<1>3. CommandsOK' BY <1>0, <1>1, <1>i DEF CommandsOK, PCs
<1>4. CommandsInOrder' BY <1>0, <1>1, <1>o, <1>t, <1>i DEF CommandsInOrder, InOrder
<1>5. LocksInHand'
  <2>1. \A l \in {"repo", "global"} : holder'[l] = IF l # LockOf(tier) THEN holder[l] ELSE IF kept THEN u ELSE "free"
    BY <1>0
  <2>2. \A w \in Users : /\ user[w].outer # "none" => user[w].outer \in {"repo", "global"}
                         /\ user[w].pc = "write" => LockOf(Head(user[w].todo)) \in {"repo", "global"}
    BY DEF CommandsOK, LockOf
  <2>3. holder[LockOf(tier)] = u BY <1>0 DEF LocksInHand
  <2>4. user'[u].pc # "write" /\ user'[u].outer = IF last THEN "none" ELSE user[u].outer BY <1>1, <1>i
  <2>5. last => user[u].outer = LockOf(tier) BY <1>o DEF last
  <2>6. ASSUME NEW w \in Users, w # u
        PROVE  /\ user'[w].outer # "none" => holder'[user'[w].outer] = w
               /\ user'[w].pc = "write" => holder'[LockOf(Head(user'[w].todo))] = w
               /\ \A l \in {"repo", "global"} :
                    holder'[l] = w => l = user'[w].outer \/ (user'[w].pc = "write" /\ l = LockOf(Head(user'[w].todo)))
    <3>1. user'[w] = user[w] BY <1>1, <2>6
    <3>2. \A l \in {"repo", "global"} : holder'[l] = w <=> holder[l] = w BY <2>1, <2>3, <2>6
    <3> QED BY <2>2, <3>1, <3>2 DEF LocksInHand
  <2>7. /\ user'[u].outer # "none" => holder'[user'[u].outer] = u
        /\ \A l \in {"repo", "global"} : holder'[l] = u => l = user'[u].outer
    <3>1. user[u].outer # "none" => holder[user[u].outer] = u BY DEF LocksInHand
    <3>2. \A l \in {"repo", "global"} : holder[l] = u => l = user[u].outer \/ l = LockOf(tier) BY DEF LocksInHand
    <3> QED BY <1>0, <2>1, <2>2, <2>4, <2>5, <3>1, <3>2
  <2> QED BY <2>4, <2>6, <2>7 DEF LocksInHand
<1>6. SteadyAreThere' BY <1>0 DEF SteadyAreThere
<1>7. \A w \in Users, t \in Tiers : Indexed(w, t)' => Indexed(w, t) \/ (w = u /\ t = tier)
  <2>1. ASSUME NEW t \in Tiers, Indexed(u, t)' PROVE Indexed(u, t) \/ t = tier
    BY <1>0, <1>1, <1>t, <1>i, <2>1 DEF Indexed
  <2> QED BY <1>1, <2>1 DEF Indexed
<1>8. IndexIsFresh' BY <1>0, <1>7 DEF IndexIsFresh, ScansAreFresh, TypeOK
<1>9. ScansAreFresh'
  <2>1. \A w \in Users : w # u /\ user[w].pc = "write" => Head(user[w].todo) # tier
    BY <1>0 DEF LocksInHand
  <2> QED BY <1>0, <1>1, <1>7, <1>i, <2>1 DEF ScansAreFresh
<1>10. SteadyAreSeen' BY <1>0, <1>1, <1>i DEF SteadyAreSeen
<1>11. LookupIsMostSpecific' /\ CreationsAreFree' BY <1>0, <1>1, <1>i DEF LookupIsMostSpecific, CreationsAreFree
<1> QED BY <1>2, <1>3, <1>4, <1>5, <1>6, <1>8, <1>9, <1>10, <1>11

(* What a tier's index says of the target is added to what was found.       *)
LEMMA ReadIndexStep ==
  ASSUME CatalogIInv, NEW u \in Users, ReadIndex(u)
  PROVE  CatalogIInv'
<1> USE CatalogAssumption, TodoFacts DEF CatalogIInv, At
<1> DEFINE tier == Head(user[u].todo)
           found == {[tier |-> tier, entry |-> e] : e \in {x \in index[tier] : Matches(x, user[u].target)}}
<1>0. /\ UNCHANGED <<files, index, holder, steady>> /\ user[u].pc = "read" /\ user[u].todo # <<>>
      /\ tier \in Tiers /\ Tail(user[u].todo) \in Todos
      /\ Left(user[u].todo) = Left(Tail(user[u].todo)) \cup {tier}
  BY DEF ReadIndex, CommandsOK
<1>1. /\ DOMAIN user' = Users /\ DOMAIN user'[u] = DOMAIN Idle
      /\ \A w \in Users : w # u => user'[w] = user[w]
      /\ user'[u].pc = "read" /\ user'[u].todo = Tail(user[u].todo) /\ user'[u].seen = user[u].seen \cup found
      /\ user'[u].op = user[u].op /\ user'[u].scan = user[u].scan /\ user'[u].outer = user[u].outer
      /\ user'[u].target = user[u].target
  <2> DEFINE rest == Tail(user[u].todo)
             seen == user[u].seen \cup found
  <2>1. Set(u, [todo |-> rest, seen |-> seen]) BY DEF ReadIndex
  <2>2. user[u].pc = "read" BY <1>0
  <2> HIDE DEF rest, seen
  <2>3. /\ DOMAIN user' = Users /\ DOMAIN user'[u] = DOMAIN Idle
        /\ \A w \in Users : w # u => user'[w] = user[w]
        /\ user'[u].pc = "read" /\ user'[u].todo = rest /\ user'[u].seen = seen
        /\ user'[u].op = user[u].op /\ user'[u].scan = user[u].scan /\ user'[u].outer = user[u].outer
        /\ user'[u].target = user[u].target
    BY <2>1, <2>2, SetFields, CommandFields
  <2> QED BY <2>3 DEF rest, seen
<1>f. /\ \A c \in found : c.tier \in Tiers
      /\ \A e \in index[tier] : Matches(e, user[u].target) => [tier |-> tier, entry |-> e] \in found
  BY <1>0
<1> HIDE DEF found
<1>2. TypeOK' BY <1>0 DEF TypeOK
<1>3. CommandsOK' BY <1>0, <1>1, <1>f DEF CommandsOK
<1>4. CommandsInOrder' BY <1>0, <1>1 DEF CommandsInOrder, InOrder
<1>5. LocksInHand' BY <1>0, <1>1 DEF LocksInHand
<1>6. SteadyAreThere' /\ IndexIsFresh' /\ ScansAreFresh'
  BY <1>0, <1>1 DEF SteadyAreThere, IndexIsFresh, ScansAreFresh, Indexed
<1>7. SteadyAreSeen'
  <2>1. \A p \in Paths : <<tier, p>> \in steady[u] => Entry(p, files[tier][p]) \in index[tier]
    BY <1>0 DEF IndexIsFresh, Indexed
  <2> QED BY <1>0, <1>1, <1>f, <2>1 DEF SteadyAreSeen
<1>8. LookupIsMostSpecific' /\ CreationsAreFree' BY <1>0, <1>1 DEF LookupIsMostSpecific, CreationsAreFree
<1> QED BY <1>2, <1>3, <1>4, <1>5, <1>6, <1>7, <1>8

(* The most specific record is chosen.                                      *)
LEMMA PickStep ==
  ASSUME CatalogIInv, NEW u \in Users, Pick(u)
  PROVE  CatalogIInv'
<1> USE CatalogAssumption, TodoFacts DEF CatalogIInv, At
<1> DEFINE found == Candidates(u)
<1>e. CASE found = {} BY <1>e, FinishStep DEF Pick
<1>n. CASE found # {}
  <2>0. /\ UNCHANGED <<files, index, holder, steady>> /\ user[u].pc = "read" /\ user[u].todo = <<>>
    BY <1>n DEF Pick
  <2>w. /\ Winner(found) \in found /\ \A d \in found : Rank(Winner(found).tier) <= Rank(d.tier)
    <3>1. \A c \in found : c.tier \in Tiers \cup {"packaged"} BY CandidateFacts DEF CommandsOK
    <3> HIDE DEF found
    <3> QED BY <1>n, <3>1, WinnerFacts
  <2>s. user[u].seen \subseteq found BY DEF Candidates
  <2>1. /\ DOMAIN user' = Users /\ DOMAIN user'[u] = DOMAIN Idle
        /\ \A w \in Users : w # u => user'[w] = user[w]
        /\ user'[u].pc = IF user[u].op = "get" THEN "load" ELSE "erase"
        /\ user'[u].item = Winner(found) /\ user'[u].target = user[u].target
        /\ user'[u].op = user[u].op /\ user'[u].scan = user[u].scan /\ user'[u].outer = user[u].outer
        /\ user'[u].todo = user[u].todo /\ user'[u].seen = user[u].seen
    <3>1. Set(u, [pc |-> IF user[u].op = "get" THEN "load" ELSE "erase", item |-> Winner(found)])
      BY <1>n DEF Pick
    <3> HIDE DEF found
    <3> QED BY <3>1, SetFields, CommandFields
  <2> HIDE DEF found
  <2>2. TypeOK' BY <2>0 DEF TypeOK
  <2>3. CommandsOK' BY <2>0, <2>1 DEF CommandsOK, PCs
  <2>4. CommandsInOrder' BY <2>0, <2>1 DEF CommandsInOrder, InOrder
  <2>5. LocksInHand' BY <2>0, <2>1 DEF LocksInHand
  <2>6. SteadyAreThere' /\ IndexIsFresh' /\ ScansAreFresh'
    BY <2>0, <2>1 DEF SteadyAreThere, IndexIsFresh, ScansAreFresh, Indexed
  <2>7. SteadyAreSeen' /\ CreationsAreFree' BY <2>0, <2>1 DEF SteadyAreSeen, CreationsAreFree
  <2>8. LookupIsMostSpecific'
    <3>1. ASSUME NEW t \in Tiers, NEW p \in Paths,
                 <<t, p>> \in steady[u], Matches(Entry(p, files[t][p]), user[u].target)
          PROVE  Rank(Winner(found).tier) <= Rank(t)
      <4>1. [tier |-> t, entry |-> Entry(p, files[t][p])] \in found
        BY <2>0, <2>s, <3>1 DEF SteadyAreSeen
      <4>2. [tier |-> t, entry |-> Entry(p, files[t][p])].tier = t OBVIOUS
      <4> QED BY <2>w, <4>1, <4>2
    <3> QED BY <2>0, <2>1, <3>1 DEF LookupIsMostSpecific
  <2> QED BY <2>2, <2>3, <2>4, <2>5, <2>6, <2>7, <2>8
<1> QED BY <1>e, <1>n

(* A creation that finds its path free goes on.                             *)
LEMMA CheckStep ==
  ASSUME CatalogIInv, NEW u \in Users, Check(u)
  PROVE  CatalogIInv'
<1> USE CatalogAssumption, TodoFacts DEF CatalogIInv, At
<1>e. CASE files[user[u].tier][user[u].path] # "absent" BY <1>e, FinishStep DEF Check
<1>n. CASE files[user[u].tier][user[u].path] = "absent"
  <2>0. UNCHANGED <<files, index, holder, steady>> /\ user[u].pc = "check" BY <1>n DEF Check
  <2>1. /\ DOMAIN user' = Users /\ DOMAIN user'[u] = DOMAIN Idle
        /\ \A w \in Users : w # u => user'[w] = user[w]
        /\ user'[u].pc = "put" /\ user'[u].tier = user[u].tier /\ user'[u].path = user[u].path
        /\ user'[u].op = user[u].op /\ user'[u].scan = user[u].scan /\ user'[u].outer = user[u].outer
        /\ user'[u].todo = user[u].todo /\ user'[u].seen = user[u].seen
    BY <1>n, SetFields, CommandFields DEF Check
  <2>2. TypeOK' BY <2>0 DEF TypeOK
  <2>3. CommandsOK' BY <2>0, <2>1 DEF CommandsOK, PCs
  <2>4. CommandsInOrder' BY <2>0, <2>1 DEF CommandsInOrder, InOrder
  <2>5. LocksInHand' BY <2>0, <2>1 DEF LocksInHand
  <2>6. SteadyAreThere' /\ IndexIsFresh' /\ ScansAreFresh'
    BY <2>0, <2>1 DEF SteadyAreThere, IndexIsFresh, ScansAreFresh, Indexed
  <2>7. SteadyAreSeen' /\ LookupIsMostSpecific' BY <2>0, <2>1 DEF SteadyAreSeen, LookupIsMostSpecific
  <2>8. CreationsAreFree' BY <1>n, <2>0, <2>1 DEF CreationsAreFree
  <2> QED BY <2>2, <2>3, <2>4, <2>5, <2>6, <2>7, <2>8
<1> QED BY <1>e, <1>n

(* A write to a file: what stays steady has not changed.                    *)
LEMMA WriteFacts ==
  ASSUME TypeOK, SteadyAreThere, NEW who, NEW tier, NEW path, NEW content \in Contents,
         Write(who, tier, path, content)
  PROVE  /\ files' \in [Tiers -> [Paths -> Contents]] /\ steady' \in [Users -> SUBSET (Tiers \X Paths)]
         /\ \A w \in Users, t \in Tiers, p \in Paths :
              <<t, p>> \in steady'[w] => <<t, p>> \in steady[w] /\ files'[t][p] = files[t][p]
         /\ \A t \in Tiers, p \in Paths :
              files'[t][p] # files[t][p] => t = tier /\ p = path /\ files'[t][p] = content
         /\ SteadyAreThere'
<1>1. files' \in [Tiers -> [Paths -> Contents]] BY DEF Write, TypeOK
<1>2. steady' \in [Users -> SUBSET (Tiers \X Paths)] BY DEF Write, TypeOK
<1>3. \A t \in Tiers, p \in Paths :
        files'[t][p] # files[t][p] => t = tier /\ p = path /\ files'[t][p] = content
  BY DEF Write, TypeOK
<1>4. \A w \in Users, t \in Tiers, p \in Paths :
        <<t, p>> \in steady'[w] => <<t, p>> \in steady[w] /\ files'[t][p] = files[t][p]
  <2>1. \A w \in Users : steady'[w] = steady[w] \ {<<tier, path>>} BY DEF Write
  <2> QED BY <1>3, <2>1
<1> QED BY <1>1, <1>2, <1>3, <1>4 DEF SteadyAreThere

(* A save, or a creation: nobody else is about to create in this tier.      *)
LEMMA PutStep ==
  ASSUME CatalogIInv, NEW u \in Users, Put(u)
  PROVE  CatalogIInv'
<1> USE CatalogAssumption, TodoFacts DEF CatalogIInv, At
<1>0. /\ UNCHANGED <<index, holder>> /\ user[u].pc = "put" /\ Write(u, user[u].tier, user[u].path, u)
      /\ user[u].tier \in Tiers /\ user[u].outer = LockOf(user[u].tier)
  BY DEF Put, CommandsInOrder, InOrder
<1>w. /\ files' \in [Tiers -> [Paths -> Contents]] /\ steady' \in [Users -> SUBSET (Tiers \X Paths)]
      /\ \A w \in Users, t \in Tiers, p \in Paths :
           <<t, p>> \in steady'[w] => <<t, p>> \in steady[w] /\ files'[t][p] = files[t][p]
      /\ \A t \in Tiers, p \in Paths :
           files'[t][p] # files[t][p] => t = user[u].tier /\ p = user[u].path /\ files'[t][p] = u
      /\ SteadyAreThere'
  <2>1. u \in Contents BY DEF Contents, Authors
  <2> QED BY ONLY TypeOK, SteadyAreThere, <1>0, <2>1, WriteFacts
<1>1. /\ DOMAIN user' = Users /\ DOMAIN user'[u] = DOMAIN Idle
      /\ \A w \in Users : w # u => user'[w] = user[w]
      /\ user'[u].pc = "index" /\ user'[u].todo = <<user[u].tier>> /\ user'[u].then = "report"
      /\ user'[u].op = user[u].op /\ user'[u].scan = user[u].scan /\ user'[u].outer = user[u].outer
      /\ user'[u].seen = user[u].seen
  <2> DEFINE todo == IndexTier(user[u].tier)
  <2>1. Set(u, [pc |-> "index", todo |-> todo, then |-> "report"]) BY DEF Put
  <2>2. todo = <<user[u].tier>> BY DEF IndexTier
  <2> HIDE DEF todo
  <2> QED BY <2>1, <2>2, SetFields, CommandFields
<1>2. TypeOK' BY <1>0, <1>w DEF TypeOK
<1>3. CommandsOK' BY <1>0, <1>1 DEF CommandsOK, PCs
<1>h. user'[u].todo # <<>> /\ Tail(user'[u].todo) = <<>> /\ Head(user'[u].todo) = user[u].tier
  BY <1>0, <1>1
<1>4. CommandsInOrder'
  <2>1. user'[u].pc = "index" /\ user'[u].then = "report" /\ user'[u].outer = LockOf(Head(user'[u].todo))
    BY <1>0, <1>1, <1>h
  <2>2. InOrder(user'[u]) BY <1>1, <1>h, <2>1 DEF InOrder, At
  <2> QED BY ONLY CommandsInOrder, <1>1, <2>2 DEF CommandsInOrder
<1>5. LocksInHand' BY <1>0, <1>1 DEF LocksInHand
<1>i. \A w \in Users, t \in Tiers : Indexed(w, t)' => Indexed(w, t) BY <1>1 DEF Indexed
<1>6. IndexIsFresh' /\ ScansAreFresh'
  BY ONLY CatalogIInv, <1>0, <1>1, <1>w, <1>i DEF CatalogIInv, IndexIsFresh, ScansAreFresh, At
<1>7. SteadyAreSeen' /\ LookupIsMostSpecific'
  <2>1. \A w \in Users : user'[w].pc \in {"read", "load"} => user'[w] = user[w] BY <1>1
  <2>2. SteadyAreSeen'
    <3> SUFFICES ASSUME NEW w \in Users, user'[w].pc = "read", NEW t \in Tiers, NEW p \in Paths,
                        t \notin Left(user'[w].todo), <<t, p>> \in steady'[w],
                        Matches(Entry(p, files'[t][p]), user'[w].target)
                 PROVE  [tier |-> t, entry |-> Entry(p, files'[t][p])] \in user'[w].seen
      BY DEF SteadyAreSeen
    <3>1. user'[w] = user[w] /\ <<t, p>> \in steady[w] /\ files'[t][p] = files[t][p] BY <1>w, <2>1
    <3> QED BY <3>1 DEF SteadyAreSeen
  <2>3. LookupIsMostSpecific'
    <3> SUFFICES ASSUME NEW w \in Users, user'[w].pc = "load", user'[w].op = "get",
                        NEW t \in Tiers, NEW p \in Paths, <<t, p>> \in steady'[w],
                        Matches(Entry(p, files'[t][p]), user'[w].target)
                 PROVE  Rank(user'[w].item.tier) <= Rank(t)
      BY DEF LookupIsMostSpecific
    <3>1. user'[w] = user[w] /\ <<t, p>> \in steady[w] /\ files'[t][p] = files[t][p] BY <1>w, <2>1
    <3> QED BY <3>1 DEF LookupIsMostSpecific
  <2> QED BY <2>2, <2>3
<1>8. CreationsAreFree'
  <2>1. ASSUME NEW w \in Users, w # u, user[w].pc = "put"
        PROVE  user[w].tier \in Tiers /\ user[w].path \in Paths /\ user[w].tier # user[u].tier
    <3>1. user[w].tier \in Tiers /\ user[w].path \in Paths /\ user[w].outer = LockOf(user[w].tier)
      BY <2>1 DEF CommandsInOrder, InOrder
    <3>2. holder[LockOf(user[w].tier)] = w /\ holder[LockOf(user[u].tier)] = u
      BY <1>0, <3>1 DEF LocksInHand, LockOf
    <3> QED BY <2>1, <3>1, <3>2
  <2> QED BY <1>1, <1>w, <2>1 DEF CreationsAreFree
<1> QED BY <1>2, <1>3, <1>4, <1>5, <1>6, <1>7, <1>8, <1>w

(* Files written under no name of a user: by a template, by the editor, or  *)
(* none.                                                                    *)
LEMMA ForeignWrite ==
  ASSUME CatalogIInv, NEW who, NEW tier, NEW path, NEW content \in {"absent", "unreadable", "template", "editor"},
         Write(who, tier, path, content), UNCHANGED <<index, holder, user>>
  PROVE  CatalogIInv'
<1> USE CatalogAssumption DEF CatalogIInv, At
<1>w. /\ files' \in [Tiers -> [Paths -> Contents]] /\ steady' \in [Users -> SUBSET (Tiers \X Paths)]
      /\ \A w \in Users, t \in Tiers, p \in Paths :
           <<t, p>> \in steady'[w] => <<t, p>> \in steady[w] /\ files'[t][p] = files[t][p]
      /\ \A t \in Tiers, p \in Paths :
           files'[t][p] # files[t][p] => t = tier /\ p = path /\ files'[t][p] = content
      /\ SteadyAreThere'
  <2>1. content \in Contents BY DEF Contents, Authors
  <2> QED BY <2>1, WriteFacts
<1>2. TypeOK' BY <1>w DEF TypeOK
<1>3. CommandsOK' /\ CommandsInOrder' /\ LocksInHand' BY DEF CommandsOK, CommandsInOrder, LocksInHand, InOrder
<1>6. IndexIsFresh' /\ ScansAreFresh' BY <1>w DEF IndexIsFresh, ScansAreFresh, Indexed
<1>7. SteadyAreSeen' /\ LookupIsMostSpecific' BY <1>w DEF SteadyAreSeen, LookupIsMostSpecific
<1>8. CreationsAreFree'
  <2>1. ASSUME NEW w \in Users, user[w].pc = "put"
        PROVE  user[w].tier \in Tiers /\ user[w].path \in Paths
    BY <2>1 DEF CommandsInOrder, InOrder
  <2> QED BY <1>w, <2>1 DEF CreationsAreFree
<1> QED BY <1>2, <1>3, <1>6, <1>7, <1>8, <1>w

(* A seed ends with the template in its place, or the file that was there.  *)
LEMMA SeedStep ==
  ASSUME CatalogIInv, NEW u \in Users, Seed(u)
  PROVE  CatalogIInv'
<1> USE CatalogAssumption, TodoFacts DEF CatalogIInv, At
<1> DEFINE path == Example
<1>1. CASE UNCHANGED <<files, steady>> BY <1>1, FinishStep DEF Seed
<1>2. CASE Write(u, "repo", path, "template")
  <2>w. /\ files' \in [Tiers -> [Paths -> Contents]] /\ steady' \in [Users -> SUBSET (Tiers \X Paths)]
        /\ \A w \in Users, t \in Tiers, p \in Paths :
             <<t, p>> \in steady'[w] => <<t, p>> \in steady[w] /\ files'[t][p] = files[t][p]
        /\ \A t \in Tiers, p \in Paths :
             files'[t][p] # files[t][p] => t = "repo" /\ p = path /\ files'[t][p] = "template"
        /\ SteadyAreThere'
    <3> HIDE DEF path
    <3>1. "template" \in Contents BY DEF Contents, Authors
    <3> QED BY ONLY TypeOK, SteadyAreThere, <1>2, <3>1, WriteFacts
  <2>0. /\ UNCHANGED index /\ DOMAIN user' = Users /\ user'[u] = Idle
        /\ \A w \in Users : w # u => user'[w] = user[w]
        /\ \A l \in {"repo", "global"} : holder'[l] = IF holder[l] = u THEN "free" ELSE holder[l]
        /\ holder' \in [{"repo", "global"} -> Users \cup {"free"}]
    BY DEF Seed, Finish, CommandsOK, TypeOK
  <2>1. TypeOK' BY <2>0, <2>w DEF TypeOK
  <2>2. CommandsOK' BY <2>0 DEF CommandsOK, Idle, PCs
  <2>3. CommandsInOrder' BY <2>0 DEF CommandsInOrder, Idle, InOrder
  <2>4. LocksInHand'
    <3>2. \A w \in Users : w # u => \A l \in {"repo", "global"} : holder'[l] = w <=> holder[l] = w
      BY <2>0
    <3>3. \A l \in {"repo", "global"} : holder'[l] # u BY <2>0
    <3>4. \A w \in Users : /\ w # u /\ user[w].outer # "none" => user[w].outer \in {"repo", "global"}
                           /\ w # u /\ user[w].pc = "write" => LockOf(Head(user[w].todo)) \in {"repo", "global"}
      BY DEF CommandsOK, LockOf
    <3> QED BY <2>0, <3>2, <3>3, <3>4 DEF LocksInHand, Idle
  <2>i. Idle.pc = "idle" BY DEF Idle
  <2>5. IndexIsFresh' /\ ScansAreFresh'
    <3>1. \A w \in Users, t \in Tiers : Indexed(w, t)' => Indexed(w, t) BY <2>0, <2>i DEF Indexed
    <3> QED BY ONLY CatalogIInv, <2>0, <2>i, <2>w, <3>1 DEF CatalogIInv, IndexIsFresh, ScansAreFresh, At
  <2>6. SteadyAreSeen' /\ LookupIsMostSpecific'
    <3>1. ASSUME NEW w \in Users, user'[w].pc \in {"read", "load"}, NEW t \in Tiers, NEW p \in Paths,
                 <<t, p>> \in steady'[w]
          PROVE  user'[w] = user[w] /\ <<t, p>> \in steady[w] /\ files'[t][p] = files[t][p]
      BY <2>0, <2>i, <2>w, <3>1
    <3>2. SteadyAreSeen' BY ONLY CatalogIInv, <3>1 DEF CatalogIInv, SteadyAreSeen, At
    <3>3. LookupIsMostSpecific' BY ONLY CatalogIInv, <3>1 DEF CatalogIInv, LookupIsMostSpecific, At
    <3> QED BY <3>2, <3>3
  <2>7. CreationsAreFree'
    <3>1. ASSUME NEW w \in Users, user[w].pc = "put"
          PROVE  user[w].tier \in Tiers /\ user[w].path \in Paths
      BY <3>1 DEF CommandsInOrder, InOrder
    <3> QED BY <2>0, <2>i, <2>w, <3>1 DEF CreationsAreFree
  <2> QED BY <2>1, <2>2, <2>3, <2>4, <2>5, <2>6, <2>7, <2>w
<1> QED BY <1>1, <1>2 DEF Seed

(* A file of the REPO tier is deleted, and the tier indexed again.          *)
LEMMA EraseStep ==
  ASSUME CatalogIInv, NEW u \in Users, Erase(u)
  PROVE  CatalogIInv'
<1> USE CatalogAssumption, TodoFacts DEF CatalogIInv, At
<1> DEFINE path == user[u].item.entry.path
<1>1. CASE ~Deletable(user[u].item) BY <1>1, FinishStep DEF Erase
<1>2. CASE Deletable(user[u].item)
  <2>w. /\ files' \in [Tiers -> [Paths -> Contents]] /\ steady' \in [Users -> SUBSET (Tiers \X Paths)]
        /\ \A w \in Users, t \in Tiers, p \in Paths :
             <<t, p>> \in steady'[w] => <<t, p>> \in steady[w] /\ files'[t][p] = files[t][p]
        /\ \A t \in Tiers, p \in Paths :
             files'[t][p] # files[t][p] => t = "repo" /\ p = path /\ files'[t][p] = "absent"
        /\ SteadyAreThere'
    <3>1. Write(u, "repo", path, "absent") BY <1>2 DEF Erase
    <3> HIDE DEF path
    <3>2. "absent" \in Contents BY DEF Contents
    <3> QED BY ONLY TypeOK, SteadyAreThere, <3>1, <3>2, WriteFacts
  <2>0. /\ UNCHANGED <<index, holder>> /\ user[u].pc = "erase" /\ user[u].outer = "repo"
    BY <1>2 DEF Erase, CommandsInOrder, InOrder
  <2>1. /\ DOMAIN user' = Users /\ DOMAIN user'[u] = DOMAIN Idle
        /\ \A w \in Users : w # u => user'[w] = user[w]
        /\ user'[u].pc = "index" /\ user'[u].todo = <<"repo">> /\ user'[u].then = "report"
        /\ user'[u].op = user[u].op /\ user'[u].scan = user[u].scan /\ user'[u].outer = user[u].outer
        /\ user'[u].seen = {}
    BY <1>2, SetFields, CommandFields DEF Erase
  <2>2. TypeOK' BY <2>0, <2>w DEF TypeOK
  <2>3. CommandsOK' BY <2>0, <2>1 DEF CommandsOK, PCs
  <2>4. CommandsInOrder'
    <3>1. /\ user'[u].todo # <<>> /\ Tail(user'[u].todo) = <<>> /\ Head(user'[u].todo) = "repo"
          /\ user'[u].outer = LockOf(Head(user'[u].todo))
      BY <2>0, <2>1 DEF Tiers, LockOf
    <3>2. InOrder(user'[u]) BY <2>1, <3>1 DEF InOrder
    <3> QED BY ONLY CommandsInOrder, <2>1, <3>2 DEF CommandsInOrder
  <2>5. LocksInHand' BY <2>0, <2>1 DEF LocksInHand
  <2>6. IndexIsFresh' /\ ScansAreFresh'
    <3>1. \A w \in Users, t \in Tiers : Indexed(w, t)' => Indexed(w, t) BY <2>1 DEF Indexed
    <3> QED BY ONLY CatalogIInv, <2>0, <2>1, <2>w, <3>1 DEF CatalogIInv, IndexIsFresh, ScansAreFresh, At
  <2>7. SteadyAreSeen' /\ LookupIsMostSpecific'
    <3>1. ASSUME NEW w \in Users, user'[w].pc \in {"read", "load"}, NEW t \in Tiers, NEW p \in Paths,
                 <<t, p>> \in steady'[w]
          PROVE  user'[w] = user[w] /\ <<t, p>> \in steady[w] /\ files'[t][p] = files[t][p]
      BY <2>1, <2>w, <3>1
    <3>2. SteadyAreSeen' BY ONLY CatalogIInv, <3>1 DEF CatalogIInv, SteadyAreSeen, At
    <3>3. LookupIsMostSpecific' BY ONLY CatalogIInv, <3>1 DEF CatalogIInv, LookupIsMostSpecific, At
    <3> QED BY <3>2, <3>3
  <2>8. CreationsAreFree'
    <3>1. ASSUME NEW w \in Users, user[w].pc = "put"
          PROVE  user[w].tier \in Tiers /\ user[w].path \in Paths
      BY <3>1 DEF CommandsInOrder, InOrder
    <3> QED BY <2>1, <2>w, <3>1 DEF CreationsAreFree
  <2> QED BY <2>2, <2>3, <2>4, <2>5, <2>6, <2>7, <2>8, <2>w
<1> QED BY <1>1, <1>2

(* One case for each action.                                               *)
LEMMA CatalogStep == CatalogIInv /\ [Next]_vars => CatalogIInv'
<1> SUFFICES ASSUME CatalogIInv, [Next]_vars PROVE CatalogIInv' OBVIOUS
<1>1. ASSUME NEW u \in Users, Command(u) PROVE CatalogIInv' BY <1>1, CommandStep
<1>2. ASSUME NEW u \in Users, Work(u) PROVE CatalogIInv'
  <2>1. CASE Load(u) BY <2>1, FinishStep DEF Load
  <2> QED
    BY <1>2, <2>1, AcquireStep, ScanStep, WriteIndexStep, ReadIndexStep, PickStep, CheckStep, PutStep,
       SeedStep, EraseStep
    DEF Work
<1>3. ASSUME NEW u \in Users, LockTimeout(u) \/ Dies(u) PROVE CatalogIInv'
  BY <1>3, FinishStep DEF LockTimeout, Dies
<1>4. ASSUME NEW tier \in Tiers, NEW path \in Paths, NEW content \in {"absent", "editor", "unreadable"},
             Edit(tier, path, content)
      PROVE  CatalogIInv'
  BY <1>4, ForeignWrite DEF Edit
<1>5. CASE UNCHANGED vars
  <2> USE <1>5 DEF vars, CatalogIInv, At
  <2>1. TypeOK' /\ CommandsOK' /\ CommandsInOrder' /\ LocksInHand'
    BY DEF TypeOK, CommandsOK, CommandsInOrder, LocksInHand, InOrder
  <2>2. SteadyAreThere' /\ IndexIsFresh' /\ ScansAreFresh' /\ SteadyAreSeen'
    BY DEF SteadyAreThere, IndexIsFresh, ScansAreFresh, SteadyAreSeen, Indexed
  <2>3. LookupIsMostSpecific' /\ CreationsAreFree' BY DEF LookupIsMostSpecific, CreationsAreFree
  <2> QED BY <2>1, <2>2, <2>3
<1> QED BY <1>1, <1>2, <1>3, <1>4, <1>5 DEF Next

(* A command that waits for a lock and holds one waits for the lock of USER
   and GLOBAL and holds the lock of REPO.                                   *)
LEMMA NobodyWaitsInCircle == CatalogIInv => NoWaitCycle
<1> SUFFICES ASSUME CatalogIInv, NEW u \in Users, NEW w \in Users, NEW l \in DOMAIN holder, NEW m \in DOMAIN holder,
                    u # w, Waits(u, l), holder[l] = w, Waits(w, m), holder[m] = u
             PROVE  FALSE
  BY DEF NoWaitCycle
<1> USE CatalogAssumption DEF CatalogIInv, At
<1>1. ASSUME NEW v \in Users, NEW held \in DOMAIN holder, NEW wanted \in DOMAIN holder,
             Waits(v, wanted), holder[held] = v
      PROVE  held = "repo" /\ wanted = "global"
  <2>0. held \in {"repo", "global"} /\ wanted \in {"repo", "global"} /\ holder[wanted] \notin {"free", v}
    BY <1>1 DEF TypeOK, Waits, Free
  <2>1. held = user[v].outer BY <1>1, <2>0 DEF LocksInHand, Waits
  <2>2. user[v].pc = "index" /\ wanted = LockOf(Head(user[v].todo))
    BY <1>1, <2>0, <2>1 DEF Waits, CommandsInOrder, InOrder
  <2>3. user[v].then = "read" BY <1>1, <2>0, <2>1, <2>2 DEF CommandsInOrder, InOrder
  <2>4. user[v].outer = "repo" BY <2>0, <2>1, <2>2, <2>3 DEF CommandsInOrder, InOrder
  <2> QED BY <1>1, <2>0, <2>1, <2>4
<1>2. m = "repo" /\ l = "global" BY <1>1
<1>3. l = "repo" /\ m = "global" BY <1>1
<1> QED BY <1>2, <1>3

(* Whatever several commands and the editor do at once: a lookup answers
   with a record at least as specific as every file that was there all along,
   and no two commands wait for each other's locks.                          *)
THEOREM CatalogOrder == Spec => []CatalogIsOrderly
<1>1. CatalogIInv => CatalogIsOrderly BY NobodyWaitsInCircle DEF CatalogIInv, CatalogIsOrderly
<1> QED BY <1>1, CatalogStart, CatalogStep, PTL DEF Spec

(* A command changes no other command.                                      *)
LEMMA OneMoves ==
  ASSUME NEW w \in Users, Command(w) \/ Work(w) \/ LockTimeout(w) \/ Dies(w)
  PROVE  \E c : user' = [user EXCEPT ![w] = c]
<1>1. CASE Command(w)
  BY <1>1 DEF Command, Begin, BeginGet, BeginCreate, BeginSave, BeginDelete, BeginSeed, Set
<1>2. CASE LockTimeout(w) \/ Dies(w) BY <1>2 DEF LockTimeout, Dies, Finish
<1>3. CASE Acquire(w) \/ Scan(w) \/ ReadIndex(w) \/ Put(w) BY <1>3 DEF Acquire, Scan, ReadIndex, Put, Set
<1>4. CASE WriteIndex(w) BY <1>4 DEF WriteIndex
<1>5. CASE Pick(w) \/ Load(w) \/ Check(w) \/ Seed(w) \/ Erase(w)
  BY <1>5 DEF Pick, Load, Check, Seed, Erase, Set, Finish
<1> QED BY <1>1, <1>2, <1>3, <1>4, <1>5 DEF Work

(* Whoever's command has moved has taken the step.                          *)
LEMMA OwnSteps ==
  ASSUME CatalogIInv, [Next]_vars, NEW u \in Users, user'[u].pc # user[u].pc
  PROVE  Command(u) \/ Work(u) \/ LockTimeout(u) \/ Dies(u)
<1> USE DEF CatalogIInv
<1>1. ASSUME NEW w \in Users, w # u, \E c : user' = [user EXCEPT ![w] = c]
      PROVE  FALSE
  BY <1>1 DEF CommandsOK
<1>2. CASE \E w \in Users : Command(w) \/ Work(w) \/ LockTimeout(w) \/ Dies(w) BY <1>1, <1>2, OneMoves
<1>3. CASE UNCHANGED user BY <1>3
<1> QED BY <1>2, <1>3 DEF Next, Edit, vars

(* The files and the index of the repository are changed only by the command
   that holds its lock, and by the editor.                                  *)
LEMMA OthersSpareTheRepository ==
  ASSUME CatalogIInv, NEW u \in Users, NEW v \in Users, u # v, holder["repo"] = u,
         Command(v) \/ Work(v) \/ LockTimeout(v) \/ Dies(v)
  PROVE  files'["repo"] = files["repo"] /\ index'["repo"] = index["repo"]
<1> USE DEF CatalogIInv, At
<1>t. DOMAIN files = Tiers /\ DOMAIN index = Tiers BY DEF TypeOK
<1>1. CASE Command(v)
  BY <1>1 DEF Command, Begin, BeginGet, BeginCreate, BeginSave, BeginDelete, BeginSeed
<1>2. CASE LockTimeout(v) \/ Dies(v) \/ Acquire(v) \/ Scan(v) \/ ReadIndex(v) \/ Pick(v) \/ Load(v) \/ Check(v)
  BY <1>2 DEF LockTimeout, Dies, Acquire, Scan, ReadIndex, Pick, Load, Check
<1>3. CASE WriteIndex(v)
  <2>1. /\ UNCHANGED files /\ user[v].pc = "write"
        /\ index' = [index EXCEPT ![Head(user[v].todo)] = user[v].scan]
    BY <1>3 DEF WriteIndex
  <2>2. Head(user[v].todo) # "repo" BY <2>1 DEF LocksInHand, LockOf
  <2> QED BY <1>t, <2>1, <2>2
<1>4. CASE Put(v)
  <2>1. /\ UNCHANGED index /\ user[v].pc = "put"
        /\ files' = [files EXCEPT ![user[v].tier][user[v].path] = v]
    BY <1>4 DEF Put, Write
  <2>2. user[v].outer = LockOf(user[v].tier) BY <2>1 DEF CommandsInOrder, InOrder
  <2>3. user[v].tier # "repo" BY <2>2 DEF LocksInHand, LockOf
  <2> QED BY <1>t, <2>1, <2>3
<1>5. CASE Seed(v) \/ Erase(v)
  <2>1. user[v].pc \in {"seed", "erase"} BY <1>5 DEF Seed, Erase
  <2>2. user[v].outer = "repo" BY <2>1 DEF CommandsInOrder, InOrder, LockOf
  <2> QED BY <2>2 DEF LocksInHand
<1> QED BY <1>1, <1>2, <1>3, <1>4, <1>5 DEF Work

(* What a command has read stays so through a step of somebody else.        *)
LEMMA StaysAsRead ==
  ASSUME CatalogIInv, DeletesAsRead, NEW u \in Users, user'[u] = user[u],
         holder["repo"] = u =>
            /\ index'["repo"] = index["repo"]
            /\ \A p \in Paths : files'["repo"][p] \in {files["repo"][p], "absent", "editor", "unreadable"}
  PROVE  DeleteAsRead(u)'
<1> USE DEF CatalogIInv, At
<1>1. DeleteAsRead(u) BY DEF DeletesAsRead
<1>2. user[u].outer = "repo" => holder["repo"] = u BY DEF LocksInHand
<1>3. /\ user[u].pc = "write" /\ Head(user[u].todo) = "repo" => holder["repo"] = u
      /\ user[u].op = "delete" /\ Indexed(u, "repo") => holder["repo"] = u
      /\ user[u].op = "delete" /\ user[u].seen # {} => holder["repo"] = u
      /\ user[u].pc = "erase" => holder["repo"] = u
  <2>1. user[u].pc = "write" /\ Head(user[u].todo) = "repo" => holder["repo"] = u BY DEF LocksInHand, LockOf
  <2>2. user[u].seen # {} => user[u].pc \in {"read", "load", "erase"} BY <1>1 DEF DeleteAsRead
  <2> QED BY <1>2, <2>1, <2>2 DEF CommandsInOrder, InOrder, Indexed
<1>4. \A e : WellFormed(e) /\ Unsaved(e) /\ holder["repo"] = u => Unsaved(e)' BY DEF WellFormed, Unsaved
<1>5. \A e : Named(u, e) /\ holder["repo"] = u => Named(u, e)' BY <1>4 DEF Named, WellFormed
<1>6. \A e \in index["repo"] : WellFormed(e) BY DEF DeletesAsRead
<1>7. \A e : WellFormed(e)' <=> WellFormed(e) BY DEF WellFormed
<1>8. Indexed(u, "repo")' <=> Indexed(u, "repo") BY DEF Indexed
<1> QED BY <1>1, <1>3, <1>4, <1>5, <1>6, <1>7, <1>8 DEF DeleteAsRead

(* A command that has read nothing yet, or nothing any more.                *)
LEMMA NothingRead ==
  ASSUME NEW u \in Users, user'[u].pc \notin {"write", "read", "load", "erase"}, user'[u].seen = {},
         \A e \in user'[u].scan : WellFormed(e), user'[u].op = "delete" => ~Indexed(u, "repo")'
  PROVE  DeleteAsRead(u)'
<1>1. \A e : WellFormed(e)' <=> WellFormed(e) BY DEF WellFormed
<1> QED BY <1>1 DEF DeleteAsRead, At

(* The index that a delete reads is what it scanned under its own lock.      *)
LEMMA IndexAsRead ==
  ASSUME CatalogIInv, DeletesAsRead, NEW u \in Users, WriteIndex(u)
  PROVE  DeleteAsRead(u)'
<1> USE TodoFacts DEF CatalogIInv, At
<1> DEFINE tier == Head(user[u].todo)
           rest == Tail(user[u].todo)
           last == rest = <<>> /\ user[u].then = "report"
<1>0. /\ UNCHANGED files /\ user[u].pc = "write" /\ user[u].todo # <<>> /\ tier \in Tiers
      /\ index' = [index EXCEPT ![tier] = user[u].scan] /\ DOMAIN index = Tiers
      /\ Left(user[u].todo) = Left(rest) \cup {tier}
  <2>1. UNCHANGED files /\ user[u].pc = "write" /\ index' = [index EXCEPT ![tier] = user[u].scan] BY DEF WriteIndex
  <2>2. user[u].todo # <<>> /\ user[u].todo \in Todos BY <2>1 DEF CommandsInOrder, InOrder, CommandsOK
  <2> QED BY <2>1, <2>2 DEF TypeOK
<1>1. /\ last => user'[u] = Idle
      /\ ~last => /\ user'[u].scan = {} /\ user'[u].seen = user[u].seen /\ user'[u].op = user[u].op
                  /\ user'[u].then = user[u].then
                  /\ \/ user'[u].pc = "read"
                     \/ user'[u].pc = "index" /\ user'[u].todo = rest
  <2> HIDE DEF last, rest
  <2>1. user' = [user EXCEPT ![u] =
              IF last THEN Idle
              ELSE IF rest = <<>> THEN [@ EXCEPT !.pc = "read", !.todo = ReadOrder, !.scan = {}]
              ELSE [@ EXCEPT !.pc = "index", !.todo = rest, !.scan = {}]]
    BY DEF WriteIndex, last, rest
  <2>2. CASE last BY <2>1, <2>2 DEF CommandsOK
  <2>3. CASE ~last /\ rest = <<>> BY <2>1, <2>3, CommandFields DEF CommandsOK
  <2>4. CASE ~last /\ rest # <<>> BY <2>1, <2>4, CommandFields DEF CommandsOK
  <2> QED BY <2>2, <2>3, <2>4
<1>2. DeleteAsRead(u) BY DEF DeletesAsRead
<1>3. user[u].seen = {} BY <1>0, <1>2 DEF DeleteAsRead
<1>4. CASE last BY <1>1, <1>4, NothingRead DEF Idle
<1>5. CASE ~last
  <2> HIDE DEF last, rest, tier
  <2>1. ASSUME NEW e \in index'["repo"], user'[u].op = "delete", Indexed(u, "repo")' PROVE Unsaved(e)'
    <3>1. CASE tier = "repo"
      <4>1. Unsaved(e) BY <1>0, <1>2, <3>1, <2>1 DEF DeleteAsRead, tier, Tiers
      <4> QED BY <1>0, <4>1 DEF Unsaved
    <3>2. CASE tier # "repo"
      <4>1. user[u].then = "read"
        BY <1>0, <1>5 DEF CommandsInOrder, InOrder, last, rest
      <4>2. "repo" \in Left(rest) => rest # <<>> BY DEF rest
      <4>3. Indexed(u, "repo")
        <5>1. CASE user'[u].pc = "index" /\ user'[u].todo = rest
          BY <1>0, <2>1, <3>2, <4>1, <5>1 DEF Indexed
        <5>2. CASE user'[u].pc = "read" /\ user'[u].todo # rest
          <6>1. rest = <<>>
            <7> USE DEF last, rest
            <7> QED BY <1>5, <5>2, CommandFields DEF WriteIndex, CommandsOK
          <6> QED BY <1>0, <3>2, <4>1, <6>1 DEF Indexed
        <5>3. CASE user'[u].pc = "read" /\ user'[u].todo = rest
          <6>1. rest = <<>>
            <7> USE DEF last, rest
            <7> QED BY <1>5, <5>3, CommandFields DEF WriteIndex, CommandsOK
          <6> QED BY <1>0, <3>2, <4>1, <6>1 DEF Indexed
        <5> QED BY <1>1, <1>5, <5>1, <5>2, <5>3
      <4>4. e \in index["repo"] /\ Unsaved(e) BY <1>0, <1>1, <1>2, <1>5, <2>1, <3>2, <4>3 DEF DeleteAsRead, Tiers
      <4> QED BY <1>0, <4>4 DEF Unsaved
    <3> QED BY <3>1, <3>2
  <2>2. user'[u].scan = {} /\ user'[u].seen = {} /\ user'[u].pc \in {"read", "index"} BY <1>1, <1>3, <1>5
  <2> QED BY <2>1, <2>2 DEF DeleteAsRead
<1> QED BY <1>4, <1>5

(* The record that is chosen for a delete in the repository has been read
   there.                                                                   *)
LEMMA PickedAsRead ==
  ASSUME CatalogIInv, DeletesAsRead, NEW u \in Users, Pick(u)
  PROVE  DeleteAsRead(u)'
<1> USE DEF CatalogIInv, At
<1> DEFINE found == Candidates(u)
<1>1. CASE found = {}
  <2>1. user'[u] = Idle BY <1>1 DEF Pick, Finish, CommandsOK
  <2> QED BY <2>1, NothingRead DEF Idle, Indexed
<1>2. CASE found # {}
  <2>0. UNCHANGED <<files, index>> /\ user[u].pc = "read" BY <1>2 DEF Pick
  <2>1. Winner(found) \in found
    <3>1. \A c \in found : c.tier \in Tiers \cup {"packaged"} BY CandidateFacts DEF CommandsOK
    <3> HIDE DEF found
    <3> QED BY <1>2, <3>1, WinnerFacts
  <2>2. Winner(found).tier = "repo" => Winner(found) \in user[u].seen
    <3>1. \A c \in found : c \in user[u].seen \/ c.tier = "packaged" BY CandidateFacts
    <3> HIDE DEF found
    <3> QED BY <2>1, <3>1
  <2>3. /\ user'[u].pc = IF user[u].op = "get" THEN "load" ELSE "erase"
        /\ user'[u].item = Winner(found) /\ user'[u].target = user[u].target
        /\ user'[u].op = user[u].op /\ user'[u].scan = user[u].scan /\ user'[u].seen = user[u].seen
    <3>1. Set(u, [pc |-> IF user[u].op = "get" THEN "load" ELSE "erase", item |-> Winner(found)])
      BY <1>2 DEF Pick
    <3> HIDE DEF found
    <3> QED BY <3>1, SetFields, CommandFields
  <2> HIDE DEF found
  <2>4. user[u].op \in {"get", "delete"} BY <2>0 DEF CommandsInOrder, InOrder
  <2>5. DeleteAsRead(u) BY DEF DeletesAsRead
  <2>6. \A e : (Unsaved(e)' <=> Unsaved(e)) /\ (WellFormed(e)' <=> WellFormed(e)) /\ (Named(u, e)' <=> Named(u, e))
    BY <2>0, <2>3 DEF Unsaved, WellFormed, Named
  <2>7. Indexed(u, "repo") BY <2>0 DEF Indexed
  <2> QED BY <2>0, <2>2, <2>3, <2>4, <2>5, <2>6, <2>7 DEF DeleteAsRead
<1> QED BY <1>1, <1>2

(* A command's own steps.                                                   *)
LEMMA OwnAsRead ==
  ASSUME CatalogIInv, DeletesAsRead, NEW u \in Users, Command(u) \/ Work(u) \/ LockTimeout(u) \/ Dies(u)
  PROVE  DeleteAsRead(u)'
<1> USE DEF CatalogIInv, At
<1>0. DeleteAsRead(u) BY DEF DeletesAsRead
<1>f. ASSUME Finish(u) PROVE DeleteAsRead(u)'
  <2>1. user'[u] = Idle BY <1>f DEF Finish, CommandsOK
  <2> QED BY <2>1, NothingRead DEF Idle, Indexed
<1>1. CASE Command(u)
  <2> DEFINE Begun ==
        /\ user[u].pc = "idle" /\ user'[u].pc \in {"index", "lock"}
        /\ user'[u].pc = "index" => user'[u].op = "get"
        /\ user'[u].scan = user[u].scan /\ user'[u].seen = user[u].seen
  <2>1. Begun
    <3>1. ASSUME NEW target, BeginGet(u, target) \/ BeginDelete(u, target) PROVE Begun
      BY <3>1, SetFields, CommandFields DEF BeginGet, BeginDelete, Begin
    <3>2. ASSUME NEW path, BeginSave(u, path) PROVE Begun
      BY <3>2, SetFields, CommandFields DEF BeginSave, Begin
    <3>3. ASSUME NEW path, NEW tier, BeginCreate(u, path, tier) PROVE Begun
      BY <3>3, SetFields, CommandFields DEF BeginCreate, Begin
    <3>4. ASSUME NEW force, BeginSeed(u, force) PROVE Begun
      BY <3>4, SetFields, CommandFields DEF BeginSeed, Begin
    <3> HIDE DEF Begun
    <3> QED BY <1>1, <3>1, <3>2, <3>3, <3>4 DEF Command
  <2> QED BY <1>0, <2>1, NothingRead DEF DeleteAsRead, Indexed
<1>2. CASE Acquire(u)
  <2>1. /\ user[u].pc = "lock" /\ user'[u].scan = user[u].scan /\ user'[u].seen = user[u].seen
        /\ \/ user'[u].pc = "index" /\ user'[u].todo = SyncOrder
           \/ user'[u].pc = user[u].then /\ user[u].then # "sync"
    <3>1. CASE user[u].then = "sync" BY <1>2, <3>1, SetFields, CommandFields DEF Acquire
    <3>2. CASE user[u].then # "sync" BY <1>2, <3>2, SetFields, CommandFields DEF Acquire
    <3> QED BY <3>1, <3>2
  <2>2. user[u].then \in {"check", "put", "sync", "seed"} BY <2>1 DEF CommandsInOrder, InOrder
  <2>3. "repo" \in Left(SyncOrder) BY TodoFacts DEF Tiers
  <2> QED BY <1>0, <2>1, <2>2, <2>3, NothingRead DEF DeleteAsRead, Indexed
<1>3. CASE Scan(u)
  <2> DEFINE tier == Head(user[u].todo)
             scan == {Entry(p, files[tier][p]) : p \in {q \in Paths : files[tier][q] \notin {"absent", "unreadable"}}}
  <2>1. /\ UNCHANGED <<files, index>> /\ user[u].pc = "index" /\ user'[u].pc = "write" /\ user'[u].scan = scan
        /\ user'[u].todo = user[u].todo /\ user'[u].seen = user[u].seen /\ user'[u].op = user[u].op
        /\ user'[u].then = user[u].then
    <3>1. Set(u, [pc |-> "write", scan |-> scan]) /\ UNCHANGED <<files, index>> /\ user[u].pc = "index"
      BY <1>3 DEF Scan
    <3> HIDE DEF scan
    <3> QED BY <3>1, SetFields, CommandFields
  <2>2. \A p, c : Entry(p, c).path = p /\ Entry(p, c).sha.content = c BY DEF Entry
  <2>3. \A e \in scan : WellFormed(e) /\ (tier = "repo" => Unsaved(e)) BY <2>2 DEF WellFormed, Unsaved
  <2> HIDE DEF scan
  <2>4. \A e : (WellFormed(e)' <=> WellFormed(e)) /\ (Unsaved(e)' <=> Unsaved(e))
    BY <2>1 DEF WellFormed, Unsaved
  <2>5. user'[u].seen = {} /\ (Indexed(u, "repo")' => Indexed(u, "repo")) BY <1>0, <2>1 DEF DeleteAsRead, Indexed
  <2> QED BY <1>0, <2>1, <2>3, <2>4, <2>5 DEF DeleteAsRead
<1>4. CASE ReadIndex(u)
  <2> DEFINE tier == Head(user[u].todo)
             found == {[tier |-> tier, entry |-> e] : e \in {x \in index[tier] : Matches(x, user[u].target)}}
             rest == Tail(user[u].todo)
             seen == user[u].seen \cup found
  <2>1. /\ UNCHANGED <<files, index>> /\ user[u].pc = "read" /\ user'[u].pc = "read" /\ user'[u].seen = seen
        /\ user'[u].scan = user[u].scan /\ user'[u].op = user[u].op /\ user'[u].target = user[u].target
    <3>1. Set(u, [todo |-> rest, seen |-> seen]) /\ UNCHANGED <<files, index>> /\ user[u].pc = "read"
      BY <1>4 DEF ReadIndex
    <3> HIDE DEF rest, seen
    <3> QED BY <3>1, SetFields, CommandFields
  <2>2. \A e : /\ (WellFormed(e)' <=> WellFormed(e)) /\ (Unsaved(e)' <=> Unsaved(e))
               /\ (Named(u, e)' <=> Named(u, e))
    BY <2>1 DEF WellFormed, Unsaved, Named
  <2>3. user[u].op = "delete" => \A e \in index["repo"] : WellFormed(e) /\ Unsaved(e)
    BY <1>0, <2>1 DEF DeleteAsRead, DeletesAsRead, Indexed
  <2>4. user[u].op = "delete" => \A c \in seen : c.tier = "repo" => Named(u, c.entry)
    <3>1. ASSUME user[u].op = "delete", NEW c \in found, c.tier = "repo" PROVE Named(u, c.entry)
      <4>1. PICK e \in index[tier] : Matches(e, user[u].target) /\ c = [tier |-> tier, entry |-> e] OBVIOUS
      <4>2. tier = "repo" /\ c.entry = e BY <3>1, <4>1
      <4> QED BY <2>3, <3>1, <4>1, <4>2 DEF Named
    <3> QED BY <1>0, <3>1 DEF DeleteAsRead
  <2> HIDE DEF seen
  <2>5. Indexed(u, "repo") BY <2>1 DEF Indexed
  <2> QED BY <1>0, <2>1, <2>2, <2>3, <2>4 DEF DeleteAsRead
<1>5. CASE Check(u) \/ Put(u) \/ Erase(u)
  <2>1. CASE Finish(u) BY <1>f, <2>1
  <2>2. CASE ~Finish(u)
    <3>1. /\ user[u].pc \in {"check", "put", "erase"} /\ user'[u].scan = user[u].scan
          /\ user'[u].pc = "put" \/ (user'[u].pc = "index" /\ user'[u].then = "report")
          /\ user'[u].seen = {} \/ (user'[u].seen = user[u].seen /\ user[u].pc # "erase")
      <4>1. CASE Check(u) BY <2>2, <4>1, SetFields, CommandFields DEF Check
      <4>2. CASE Put(u)
        <5> DEFINE todo == IndexTier(user[u].tier)
        <5>1. Set(u, [pc |-> "index", todo |-> todo, then |-> "report"]) /\ user[u].pc = "put" BY <4>2 DEF Put
        <5> HIDE DEF todo
        <5> QED BY <5>1, SetFields, CommandFields
      <4>3. CASE Erase(u) BY <2>2, <4>3, SetFields, CommandFields DEF Erase
      <4> QED BY <1>5, <4>1, <4>2, <4>3
    <3> QED BY <1>0, <3>1, NothingRead DEF DeleteAsRead, Indexed
  <2> QED BY <2>1, <2>2
<1>6. CASE Load(u) \/ Seed(u) \/ LockTimeout(u) \/ Dies(u)
  BY <1>f, <1>6 DEF Load, Seed, LockTimeout, Dies
<1> QED BY <1>1, <1>2, <1>3, <1>4, <1>5, <1>6, IndexAsRead, PickedAsRead DEF Work

(* An entry of an index is of a file of the repository.                     *)
LEMMA IndexIsWellFormed ==
  ASSUME CatalogIInv, DeletesAsRead, [Next]_vars
  PROVE  \A e \in index'["repo"] : WellFormed(e)
<1>1. CASE index' = index BY <1>1 DEF DeletesAsRead
<1>2. CASE \E u \in Users : WriteIndex(u)
  <2>1. PICK u \in Users : index' = [index EXCEPT ![Head(user[u].todo)] = user[u].scan]
    BY <1>2 DEF WriteIndex
  <2>2. DOMAIN index = Tiers BY DEF CatalogIInv, TypeOK
  <2> QED BY <2>1, <2>2 DEF DeletesAsRead, DeleteAsRead, Tiers
<1> QED
  BY <1>1, <1>2
  DEF Next, vars, Command, Begin, BeginGet, BeginCreate, BeginSave, BeginDelete, BeginSeed, Work, Acquire, Scan,
      ReadIndex, Pick, Load, Check, Put, Seed, Erase, LockTimeout, Dies, Edit

(* One case for the commands and one for the editor.                        *)
LEMMA DeletesStep == CatalogIInv /\ DeletesAsRead /\ [Next]_vars => DeletesAsRead'
<1> SUFFICES ASSUME CatalogIInv, DeletesAsRead, [Next]_vars, NEW u \in Users PROVE DeleteAsRead(u)'
  <2>1. \A e : WellFormed(e)' <=> WellFormed(e) BY DEF WellFormed
  <2> QED BY <2>1, IndexIsWellFormed DEF DeletesAsRead
<1>1. ASSUME NEW v \in Users, Command(v) \/ Work(v) \/ LockTimeout(v) \/ Dies(v) PROVE DeleteAsRead(u)'
  <2>1. CASE v = u BY <1>1, <2>1, OwnAsRead
  <2>2. CASE v # u
    <3>1. \E c : user' = [user EXCEPT ![v] = c] BY <1>1, OneMoves
    <3>2. user'[u] = user[u] BY <2>2, <3>1
    <3>3. holder["repo"] = u => files'["repo"] = files["repo"] /\ index'["repo"] = index["repo"]
      BY <1>1, <2>2, OthersSpareTheRepository
    <3> QED BY <3>2, <3>3, StaysAsRead
  <2> QED BY <2>1, <2>2
<1>2. ASSUME NEW tier \in Tiers, NEW path \in Paths, NEW content \in {"absent", "editor", "unreadable"},
             Edit(tier, path, content)
      PROVE  DeleteAsRead(u)'
  <2>1. UNCHANGED <<index, user>> /\ files' = [files EXCEPT ![tier][path] = content] BY <1>2 DEF Edit, Write
  <2>2. \A p \in Paths : files'["repo"][p] \in {files["repo"][p], "absent", "editor", "unreadable"}
    BY <2>1 DEF CatalogIInv, TypeOK, Tiers
  <2> QED BY <2>1, <2>2, StaysAsRead
<1>3. CASE UNCHANGED vars BY <1>3, StaysAsRead DEF vars
<1> QED BY <1>1, <1>2, <1>3 DEF Next

(* delete removes from the repository, and outside the namespace dovo, a file
   that is still what the user named; a creation replaces no file that another
   command has written.                                                     *)
THEOREM CommandsAreCareful == Spec => CommandsSpareFiles
<1> DEFINE Spared == \A u \in Users : At(u, "erase") /\ ~At(u, "erase")' =>
                       \A t \in Tiers, p \in Paths : files'[t][p] # files[t][p] =>
                         /\ t = "repo" /\ p.namespace # "dovo"
                         /\ files[t][p] \in {"editor", "unreadable"} \/ Matches(Entry(p, files[t][p]), user[u].target)
           Kept == \A u \in Users : At(u, "put") /\ user[u].op = "create" /\ ~At(u, "put")' =>
                     \A t \in Tiers, p \in Paths : files'[t][p] # files[t][p] => files[t][p] \notin Users
<1>1. ASSUME CatalogIInv, DeletesAsRead, [Next]_vars PROVE Spared
  <2> SUFFICES ASSUME NEW u \in Users, user[u].pc = "erase", user'[u].pc # "erase",
                      NEW t \in Tiers, NEW p \in Paths, files'[t][p] # files[t][p]
               PROVE  /\ t = "repo" /\ p.namespace # "dovo"
                      /\ \/ files[t][p] \in {"editor", "unreadable"}
                         \/ Matches(Entry(p, files[t][p]), user[u].target)
    BY DEF At
  <2>1. Erase(u)
    <3>1. Command(u) \/ Work(u) \/ LockTimeout(u) \/ Dies(u) BY <1>1, OwnSteps
    <3>2. ~Command(u) BY DEF Command, BeginGet, BeginCreate, BeginSave, BeginDelete, BeginSeed, Begin, At
    <3>3. ~LockTimeout(u) /\ ~Dies(u) BY DEF LockTimeout, Dies
    <3>4. Work(u) => Erase(u)
      BY DEF Work, Acquire, Scan, WriteIndex, ReadIndex, Pick, Load, Check, Put, Seed, At
    <3> QED BY <3>1, <3>2, <3>3, <3>4
  <2> DEFINE entry == user[u].item.entry
             path == entry.path
  <2>2. Deletable(user[u].item) /\ Write(u, "repo", path, "absent") BY <2>1 DEF Erase
  <2>3. "absent" \in Contents BY DEF Contents
  <2>4. path.namespace # "dovo" /\ user[u].item.tier = "repo" BY <2>2 DEF Deletable, Bundled
  <2>5. Named(u, entry) BY <1>1, <2>4 DEF DeletesAsRead, DeleteAsRead, At
  <2> HIDE DEF path
  <2>6. t = "repo" /\ p = path /\ files'[t][p] = "absent"
    BY ONLY <1>1, <2>2, <2>3, WriteFacts, t \in Tiers, p \in Paths, files'[t][p] # files[t][p] DEF CatalogIInv
  <2>7. files["repo"][path] \in {entry.sha.content, "editor", "unreadable"} BY <2>5, <2>6 DEF Named, Unsaved, path
  <2>8. entry = Entry(path, entry.sha.content) /\ Matches(entry, user[u].target)
    BY <2>5 DEF Named, WellFormed, path
  <2> HIDE DEF entry
  <2> QED BY <2>4, <2>6, <2>7, <2>8
<1>2. ASSUME CatalogIInv, [Next]_vars PROVE Kept
  <2> SUFFICES ASSUME NEW u \in Users, user[u].pc = "put", user[u].op = "create", user'[u].pc # "put",
                      NEW t \in Tiers, NEW p \in Paths, files'[t][p] # files[t][p]
               PROVE  files[t][p] \notin Users
    BY DEF At
  <2>1. Put(u)
    <3>1. Command(u) \/ Work(u) \/ LockTimeout(u) \/ Dies(u) BY <1>2, OwnSteps
    <3>2. ~Command(u) BY DEF Command, BeginGet, BeginCreate, BeginSave, BeginDelete, BeginSeed, Begin, At
    <3>3. ~LockTimeout(u) /\ ~Dies(u) BY DEF LockTimeout, Dies
    <3>4. Work(u) => Put(u)
      BY DEF Work, Acquire, Scan, WriteIndex, ReadIndex, Pick, Load, Check, Erase, Seed, At
    <3> QED BY <3>1, <3>2, <3>3, <3>4
  <2>2. Write(u, user[u].tier, user[u].path, u) /\ u \in Contents BY <2>1 DEF Put, Contents, Authors
  <2>3. t = user[u].tier /\ p = user[u].path
    BY ONLY <1>2, <2>2, WriteFacts, t \in Tiers, p \in Paths, files'[t][p] # files[t][p] DEF CatalogIInv
  <2> QED BY <1>2, <2>3 DEF CatalogIInv, CreationsAreFree, At
<1>3. Spec => [][Spared]_vars /\ [][Kept]_vars
  <2>1. CatalogIInv /\ DeletesAsRead /\ [Next]_vars => Spared /\ Kept BY <1>1, <1>2
  <2>2. Init => DeletesAsRead
    <3>1. Init => index["repo"] = {} BY DEF Init, Tiers
    <3>2. Init => \A u \in Users : user[u] = Idle BY DEF Init
    <3> QED BY <3>1, <3>2 DEF DeletesAsRead, DeleteAsRead, Idle, At, Indexed
  <2> QED BY <2>1, <2>2, CatalogStart, CatalogStep, DeletesStep, PTL DEF Spec
<1> QED BY <1>3 DEF CommandsSpareFiles, DeleteRemovesTheNamed, CreationsAreKept

(***************************************************************************)
(* Conditions.                                                              *)
(***************************************************************************)

(* Before the check of the blueprint nothing is accepted, and nothing has run. *)
LEMMA ConditionStart == ConditionInit => ConditionIInv
<1> SUFFICES ASSUME ConditionInit PROVE ConditionIInv OBVIOUS
<1>1. accepted = "unknown" /\ iteration = 0 /\ DOMAIN results = {} BY DEF ConditionInit, Start
<1>2. verdict = FALSE BY Zenon DEF ConditionInit, Start
<1>3. ConditionTypeOK
  <2>1. verdict \in BOOLEAN BY <1>2
  <2> QED BY <1>1, <2>1, ConditionAssumption DEF ConditionTypeOK
<1> QED BY <1>1, <1>2, <1>3 DEF ConditionIInv, AbsentNeverPasses

(* What is missing has no value, and nothing compares to that.              *)
LEMMA AbsentFails == \A e : Absent(e.left) \/ Absent(e.right) => ~Evaluate(e)
<1> SUFFICES ASSUME NEW e, Absent(e.left) \/ Absent(e.right) PROVE ~Evaluate(e) OBVIOUS
<1>1. ASSUME NEW o, Absent(o) PROVE Value(o) = Nothing
  <2>1. o.kind = "step" /\ o.parts >= 3 BY <1>1 DEF Absent
  <2>2. CASE o.id \notin DOMAIN results BY <2>1, <2>2 DEF Value
  <2>3. CASE o.id \in DOMAIN results /\ o.field = "outputs" /\ o.path \notin DOMAIN results[o.id].json
    BY <2>1, <2>3 DEF Value, StepField, JsonPath
  <2> QED BY <1>1, <2>2, <2>3 DEF Absent
<1> QED BY <1>1 DEF Evaluate, Compare

(* A comparison is true or false whatever its operands are, and false with *)
(* an operand that is absent.                                              *)
LEMMA ConditionStep == ConditionIInv /\ [ConditionNext]_cvars => ConditionIInv'
<1> SUFFICES ASSUME ConditionIInv, [ConditionNext]_cvars PROVE ConditionIInv' OBVIOUS
<1> USE ConditionAssumption DEF ConditionIInv
<1>1. CASE Validate
  BY <1>1 DEF Validate, ConditionTypeOK, AbsentNeverPasses, Absent
<1>2. CASE Iterate
  <2> USE <1>2 DEF Iterate
  <2>1. Evaluate(expr)' \in BOOLEAN
    <3>1. \A a, b : \A op \in {"==", "!=", ">=", "<=", ">", "<"} : Numeric(a, op, b) \in BOOLEAN
      <4> TAKE a, b
      <4>1. (a = b) \in BOOLEAN /\ (a # b) \in BOOLEAN /\ (a >= b) \in BOOLEAN
            /\ (a <= b) \in BOOLEAN /\ (a > b) \in BOOLEAN /\ (a < b) \in BOOLEAN
        OBVIOUS
      <4>2. /\ Numeric(a, "==", b) = (a = b) /\ Numeric(a, "!=", b) = (a # b)
            /\ Numeric(a, ">=", b) = (a >= b) /\ Numeric(a, "<=", b) = (a <= b)
            /\ Numeric(a, ">", b) = (a > b) /\ Numeric(a, "<", b) = (a < b)
        BY DEF Numeric
      <4> QED BY <4>1, <4>2
    <3>2. \A a, b, op : Equality(a, op, b) \in BOOLEAN BY DEF Equality
    <3>3. \A a, b : Within(a, b) \in BOOLEAN BY DEF Within
    <3>4. \A a, b : \A op \in Operators : Compare(a, op, b) \in BOOLEAN
      BY <3>1, <3>2, <3>3 DEF Compare, Operators
    <3>5. Evaluate(expr') \in BOOLEAN BY <3>4 DEF Evaluate, Parses
    <3> QED BY <3>4 DEF Evaluate, Parses
  <2>2. ConditionTypeOK' BY <2>1 DEF ConditionTypeOK
  <2>3. AbsentNeverPasses'
    <3>1. (\A e : Absent(e.left) \/ Absent(e.right) => ~Evaluate(e))' BY AbsentFails, PTL
    <3>2. Absent(expr.left)' \/ Absent(expr.right)' => ~Evaluate(expr)'
      BY <3>1
    <3> QED BY <3>2 DEF AbsentNeverPasses
  <2> QED BY <2>2, <2>3 DEF Validates
<1>3. CASE UNCHANGED cvars
  BY <1>3 DEF cvars, ConditionTypeOK, AbsentNeverPasses, Absent
<1> QED BY <1>1, <1>2, <1>3 DEF ConditionNext

(* The `until` of a loop never ends it because a step did not run, or left
   no such output; and when all steps have run, it compares values.          *)
THEOREM ConditionsDecide == ConditionSpec => []MissingNeverPasses
<1>1. ConditionIInv => MissingNeverPasses
  <2> SUFFICES ASSUME ConditionIInv, accepted = "yes", DOMAIN results = BodyIds,
                      NEW o \in {expr.left, expr.right}, o.kind = "step"
               PROVE  (Value(o) # Nothing \/ o.field = "outputs") /\ o.id \in DOMAIN results
    BY DEF MissingNeverPasses, ConditionIInv, AcceptedIsDecidable
  <2>1. o.parts >= 3 /\ o.id \in BodyIds /\ o.field \in StepFields
    BY DEF ConditionIInv, Validates, Operand, StepOperand
  <2>2. Value(o) = StepField(results[o.id], o) BY <2>1 DEF Value
  <2>3. \A n, s : Num(n) # Nothing /\ Str(s) # Nothing BY DEF Num, Str, Nothing
  <2> QED BY <2>1, <2>2, <2>3 DEF StepField, StepFields
<1> QED BY <1>1, ConditionStart, ConditionStep, PTL DEF ConditionSpec

(***************************************************************************)
(* Inputs.                                                                  *)
(***************************************************************************)

(* An option that is known belongs to a declared input.                     *)
LEMMA OwnerIsDeclared ==
    ASSUME declared \in Declarations, NEW word, Owners(word) # {}
    PROVE  Owner(word) \in DOMAIN declared
<1>1. Owners(word) \in (SUBSET DOMAIN declared) \ {{}} BY DEF Owners
<1>2. PICK last \in Owners(word) : \A m \in Owners(word) : declared[m].place <= declared[last].place
  BY <1>1, InputAssumption
<1>3. \E n \in Owners(word) : \A m \in Owners(word) : LaterName(n, m) BY <1>2 DEF LaterName
<1>4. Owner(word) \in Owners(word) BY <1>3 DEF Owner
<1> QED BY <1>1, <1>4

(* The command line is a sequence of tokens.                                *)
LEMMA LineIsTyped ==
    ASSUME args \in Commands
    PROVE  /\ args \in Seq([word : STRING, value : STRING])
           /\ Len(args) \in Nat /\ DOMAIN args = 1..Len(args)
  BY InputAssumption

(* A value that fits is stored as it was typed; one that does not counts as
   an error and changes nothing.                                            *)
LEMMA StoreKeeps ==
    ASSUME InputIInv, Parsing, NEW name \in DOMAIN declared, NEW raw, Store(name, raw),
           Token.value # "none" /\ Token.word # "-i" => raw = Token.value,
           UNCHANGED <<declared, args, given>>
    PROVE  /\ DOMAIN setBy' \subseteq DOMAIN declared'
           /\ KeptAsTyped'
           /\ errors' \in {errors, errors + 1}
<1>0. /\ DOMAIN setBy \subseteq DOMAIN declared /\ KeptAsTyped /\ stage = "parse"
      /\ errors \in Nat /\ next_arg \in DOMAIN args
  BY LineIsTyped DEF InputIInv, InputTypeOK, Parsing
<1>1. CASE Coerces(declared[name].type, raw)
  <2> DEFINE stored == Coerced(declared[name].type, raw)
  <2>1. /\ values' = Assign(values, name, stored) /\ setBy' = Assign(setBy, name, next_arg)
        /\ errors' = errors
    BY <1>1 DEF Store
  <2>2. /\ DOMAIN values' = DOMAIN values \cup {name} /\ values'[name] = stored
        /\ \A x \in DOMAIN values : x # name => values'[x] = values[x]
    BY <2>1 DEF Assign
  <2>3. /\ DOMAIN setBy' = DOMAIN setBy \cup {name} /\ setBy'[name] = next_arg
        /\ \A x \in DOMAIN setBy : x # name => setBy'[x] = setBy[x]
    BY <2>1 DEF Assign
  <2>4. stored.type = declared[name].type /\ stored.raw = raw BY DEF Coerced
  <2>5. AsTyped(name)'
    BY <1>0, <2>2, <2>3, <2>4 DEF AsTyped, Token
  <2>6. ASSUME NEW n \in DOMAIN setBy', n # name PROVE AsTyped(n)'
    <3>1. AsTyped(n) BY <1>0, <2>3, <2>6 DEF KeptAsTyped
    <3>2. n \in DOMAIN values /\ n \in DOMAIN setBy BY <2>3, <2>6, <3>1 DEF AsTyped
    <3> QED BY <2>2, <2>3, <2>6, <3>1, <3>2 DEF AsTyped
  <2> QED BY <1>0, <2>1, <2>3, <2>5, <2>6 DEF KeptAsTyped
<1>2. CASE ~Coerces(declared[name].type, raw)
  BY <1>0, <1>2 DEF Store, KeptAsTyped, AsTyped
<1> QED BY <1>1, <1>2

(* Without a change to the values they are still as typed.                   *)
LEMMA UnsetKeeps ==
    ASSUME InputIInv, UNCHANGED <<declared, args, given, values, setBy>>,
           stage = "parse" \/ UNCHANGED stage
    PROVE  DOMAIN setBy' \subseteq DOMAIN declared' /\ KeptAsTyped'
  BY DEF InputIInv, InputTypeOK, KeptAsTyped, AsTyped

(* While tokens are left to read: where the next one is, and how many
   complaints there can be.                                                 *)
LEMMA WhileRead ==
    ASSUME InputIInv, Parsing
    PROVE  /\ next_arg \in Nat /\ next_arg >= 1 /\ next_arg <= Len(args)
           /\ errors \in Nat /\ warnings \in Nat /\ errors < next_arg /\ warnings < next_arg
           /\ Len(args) \in Nat /\ stage = "parse"
           /\ HasValue => After \in Nat /\ After > next_arg /\ After <= Len(args) + 1
  BY LineIsTyped DEF InputIInv, InputTypeOK, ComplaintsCounted, Parsing, HasValue, After

(* A step of somebody else.                                                 *)
LEMMA InputsRest == InputIInv /\ UNCHANGED ivars => InputIInv'
  BY DEF InputIInv, InputTypeOK, ComplaintsCounted, KeptAsTyped, AsTyped, AcceptedInputsAreGiven, ivars

(* One case for each action: reading a token, completing what was read, and a
   step of the run.                                                         *)
THEOREM InputInvariant == InputSpec => []InputIInv
<1>1. InputInit => InputIInv
  <2> SUFFICES ASSUME NEW d \in Declarations, NEW c \in Commands, NEW o \in Overrides, Typed(d, c, o)
               PROVE  InputIInv
    BY DEF InputInit
  <2>1. /\ declared \in Declarations /\ args \in Commands /\ history = <<>> /\ setBy = Empty
        /\ next_arg = 1 /\ errors = 0 /\ warnings = 0 /\ stage = "parse"
    BY DEF Typed
  <2>2. DOMAIN setBy = {} BY <2>1 DEF Empty
  <2>3. Len(args) \in Nat BY <2>1, LineIsTyped
  <2> QED BY <2>1, <2>2, <2>3 DEF InputIInv, InputTypeOK, ComplaintsCounted, KeptAsTyped, AcceptedInputsAreGiven
<1>2. InputIInv /\ [InputNext]_ivars => InputIInv'
  <2> SUFFICES ASSUME InputIInv, [InputNext]_ivars PROVE InputIInv'
    OBVIOUS
  <2>0. /\ declared \in Declarations /\ args \in Commands /\ history \in Seq(Histories)
        /\ DOMAIN setBy \subseteq DOMAIN declared /\ KeptAsTyped
    BY DEF InputIInv, InputTypeOK
  <2>1. CASE BareFlag
    <3>0. PICK o \in DOMAIN declared : o = Owner(Token.word)
      BY <2>0, <2>1, OwnerIsDeclared DEF BareFlag
    <3>1. Parsing BY <2>1 DEF BareFlag
    <3>2. /\ values' = Assign(values, o, Coerced("boolean", "yes")) /\ setBy' = Assign(setBy, o, next_arg)
          /\ next_arg' = next_arg + 1
          /\ UNCHANGED <<declared, args, given, errors, warnings, stage, history>>
          /\ declared[o].type = "boolean" /\ Token.value = "none"
      BY <2>1, <3>0 DEF BareFlag, IsBareFlag
    <3>3. /\ DOMAIN values' = DOMAIN values \cup {o} /\ values'[o] = Coerced("boolean", "yes")
          /\ \A x \in DOMAIN values : x # o => values'[x] = values[x]
      BY <3>2 DEF Assign
    <3>4. /\ DOMAIN setBy' = DOMAIN setBy \cup {o} /\ setBy'[o] = next_arg
          /\ \A x \in DOMAIN setBy : x # o => setBy'[x] = setBy[x]
      BY <3>2 DEF Assign
    <3>5. next_arg \in DOMAIN args /\ stage = "parse" BY <2>0, <3>1, WhileRead, LineIsTyped
    <3>6. AsTyped(o)'
      <4>1. values'[o].type = declared'[o].type BY <3>2, <3>3 DEF Coerced
      <4>2. args'[setBy'[o]].value = "none" BY <3>2, <3>4 DEF Token
      <4> QED BY <3>2, <3>3, <3>4, <3>5, <4>1, <4>2 DEF AsTyped
    <3>7. ASSUME NEW n \in DOMAIN setBy', n # o PROVE AsTyped(n)'
      <4>1. n \in DOMAIN setBy /\ AsTyped(n) BY <2>0, <3>4, <3>5, <3>7 DEF KeptAsTyped
      <4>2. n \in DOMAIN values BY <4>1 DEF AsTyped
      <4> QED BY <3>2, <3>3, <3>4, <3>7, <4>1, <4>2 DEF AsTyped
    <3>8. KeptAsTyped' /\ DOMAIN setBy' \subseteq DOMAIN declared'
      <4>1. KeptAsTyped' BY <3>6, <3>7 DEF KeptAsTyped
      <4> QED BY <2>0, <3>1, <3>2, <3>4, <4>1
    <3>9. InputTypeOK' /\ ComplaintsCounted'
      BY <3>1, <3>2, <3>8, WhileRead DEF InputTypeOK, ComplaintsCounted
    <3> QED BY <2>0, <3>2, <3>5, <3>8, <3>9 DEF InputIInv, AcceptedInputsAreGiven
  <2>2. CASE AliasValue
    <3> DEFINE o == Owner(Token.word)
    <3>1. Parsing /\ HasValue /\ o \in DOMAIN declared BY <2>0, <2>2, OwnerIsDeclared DEF AliasValue
    <3>2. /\ Store(o, RawValue) /\ next_arg' = After
          /\ UNCHANGED <<declared, args, given, warnings, history>>
          /\ stage' = IF errors' = errors THEN "parse" ELSE "refused"
      BY <2>2 DEF AliasValue
    <3> HIDE DEF o
    <3>3. Token.value # "none" /\ Token.word # "-i" => RawValue = Token.value BY DEF RawValue
    <3>4. DOMAIN setBy' \subseteq DOMAIN declared' /\ KeptAsTyped' /\ errors' \in {errors, errors + 1}
      BY <3>1, <3>2, <3>3, StoreKeeps
    <3>5. stage' # "ready" /\ (stage' = "parse" => errors' = errors) BY <3>2
    <3>6. InputTypeOK' /\ ComplaintsCounted'
      BY <3>1, <3>2, <3>4, <3>5, WhileRead DEF InputTypeOK, ComplaintsCounted
    <3> QED BY <2>0, <3>2, <3>4, <3>5, <3>6 DEF InputIInv, AcceptedInputsAreGiven
  <2>3. CASE Generic
    <3> DEFINE key == KeyOf(RawValue)
    <3>1. /\ Parsing /\ HasValue /\ Token.word = "-i" /\ next_arg' = After
          /\ UNCHANGED <<declared, args, given, stage, history>>
          /\ \/ key \in DOMAIN declared /\ Store(key, "7") /\ UNCHANGED warnings
             \/ /\ UNCHANGED <<values, setBy>>
                /\ \/ errors' = errors + 1 /\ UNCHANGED warnings
                   \/ warnings' = warnings + 1 /\ UNCHANGED errors
      BY <2>3 DEF Generic
    <3> HIDE DEF key
    <3>2. CASE key \in DOMAIN declared /\ Store(key, "7") /\ UNCHANGED warnings
      <4>1. DOMAIN setBy' \subseteq DOMAIN declared' /\ KeptAsTyped' /\ errors' \in {errors, errors + 1}
        BY <3>1, <3>2, StoreKeeps
      <4> QED BY <2>0, <3>1, <3>2, <4>1, WhileRead
            DEF InputIInv, InputTypeOK, ComplaintsCounted, AcceptedInputsAreGiven
    <3>3. CASE /\ UNCHANGED <<values, setBy>>
               /\ \/ errors' = errors + 1 /\ UNCHANGED warnings
                  \/ warnings' = warnings + 1 /\ UNCHANGED errors
      <4>1. DOMAIN setBy' \subseteq DOMAIN declared' /\ KeptAsTyped' BY <3>1, <3>3, UnsetKeeps
      <4> QED BY <2>0, <3>1, <3>3, <4>1, WhileRead
            DEF InputIInv, InputTypeOK, ComplaintsCounted, AcceptedInputsAreGiven
    <3> QED BY <3>1, <3>2, <3>3
  <2>4. CASE MissingValue
    <3>1. Parsing BY <2>4 DEF MissingValue
    <3>2. DOMAIN setBy' \subseteq DOMAIN declared' /\ KeptAsTyped'
      BY <2>4, <3>1, WhileRead, UnsetKeeps DEF MissingValue
    <3> QED BY <2>0, <2>4, <3>1, <3>2, WhileRead
          DEF MissingValue, InputIInv, InputTypeOK, ComplaintsCounted, AcceptedInputsAreGiven
  <2>5. CASE Unknown
    <3>1. Parsing BY <2>5 DEF Unknown
    <3>2. DOMAIN setBy' \subseteq DOMAIN declared' /\ KeptAsTyped'
      BY <2>5, <3>1, UnsetKeeps DEF Unknown
    <3> QED BY <2>0, <2>5, <3>1, <3>2, WhileRead
          DEF Unknown, InputIInv, InputTypeOK, ComplaintsCounted, AcceptedInputsAreGiven
  <2>6. CASE ResolveInputs
    <3>1. /\ stage = "parse" /\ stage' # "parse"
          /\ UNCHANGED <<declared, args, given, next_arg, setBy, errors, warnings, history>>
      BY <2>6 DEF ResolveInputs
    <3>2. CASE errors > 0
      <4>1. stage' = "refused" /\ UNCHANGED values BY <2>6, <3>2 DEF ResolveInputs
      <4>2. KeptAsTyped' BY <2>0, <3>1, <4>1, UnsetKeeps
      <4> QED BY <2>0, <3>1, <4>1, <4>2
            DEF InputIInv, InputTypeOK, ComplaintsCounted, AcceptedInputsAreGiven
    <3>3. CASE ~(errors > 0)
      <4>1. values' = Resolved /\ stage' = IF Missing(Resolved) = {} THEN "ready" ELSE "missing"
        BY <2>6, <3>3 DEF ResolveInputs
      <4>2. ASSUME NEW n \in DOMAIN setBy' PROVE AsTyped(n)' \/ n \in DOMAIN given'
        <5>1. AsTyped(n) BY <2>0, <3>1 DEF KeptAsTyped
        <5>2. n \in DOMAIN values BY <5>1 DEF AsTyped
        <5>3. CASE n \notin DOMAIN given
          <6>1. n \in DOMAIN Resolved /\ Resolved[n] = values[n]
            BY <5>2, <5>3 DEF Resolved, ValueOf, UseDefault
          <6> QED BY <3>1, <4>1, <5>1, <6>1 DEF AsTyped
        <5> QED BY <3>1, <5>3
      <4>3. stage' \in {"missing", "ready"} BY <4>1
      <4>4. KeptAsTyped' BY <4>2, <4>3 DEF KeptAsTyped
      <4>5. stage' = "ready" => \A n \in DOMAIN declared' : declared'[n].required => n \in DOMAIN values'
        BY <3>1, <4>1 DEF Missing
      <4>6. AcceptedInputsAreGiven' BY <4>2, <4>5 DEF AcceptedInputsAreGiven, AsTyped
      <4> QED BY <2>0, <3>1, <4>3, <4>4, <4>6 DEF InputIInv, InputTypeOK, ComplaintsCounted
    <3> QED BY <3>2, <3>3
  <2>7. CASE BeginStep
    <3>1. /\ stage = "ready"
          /\ UNCHANGED <<declared, args, given, next_arg, values, setBy, errors, warnings, stage>>
          /\ \E entry \in Histories : history' = Append(history, entry)
      BY <2>7 DEF BeginStep
    <3>2. history' \in Seq(Histories) BY <2>0, <3>1
    <3> QED BY <3>1, <3>2 DEF InputIInv, InputTypeOK, ComplaintsCounted, KeptAsTyped, AsTyped, AcceptedInputsAreGiven
  <2>8. CASE UNCHANGED ivars BY <2>8, InputsRest
  <2> QED BY <2>1, <2>2, <2>3, <2>4, <2>5, <2>6, <2>7, <2>8 DEF InputNext
<1> QED BY <1>1, <1>2, PTL DEF InputSpec

(* The execution that no later one of the same step follows is the one that
   is read.                                                                 *)
LEMMA LatestIsTheLast ==
    ASSUME history \in Seq(Histories), NEW p, NEW i \in DOMAIN history,
           history[i].id = p.id, \A j \in DOMAIN history : j > i => history[j].id # p.id,
           p.key \in DOMAIN history[i].outputs
    PROVE  StepOutput(p.id, p.key) = history[i].outputs[p.key]
<1>1. DOMAIN history \subseteq Int OBVIOUS
<1>2. i \in Finished(p.id) /\ \A j \in Finished(p.id) : j \in Int /\ i >= j BY <1>1 DEF Finished
<1>3. Latest(p.id) \in Finished(p.id) /\ \A j \in Finished(p.id) : Latest(p.id) >= j BY <1>2 DEF Latest
<1>4. Latest(p.id) = i BY <1>1, <1>2, <1>3
<1> QED BY <1>2, <1>4 DEF StepOutput

(* Whatever is typed after the blueprint's name: an accepted run has every
   required input, what was typed is kept unless the caller overrides it, and a
   step reads what the last execution of an earlier step left.               *)
THEOREM InputsStayFaithful == InputSpec => InputsAreFaithful
<1> DEFINE Fresh == \A p \in Selectors : p.kind = "output" /\ text' # text =>
         \A i \in DOMAIN history :
            history[i].id = p.id /\ (\A j \in DOMAIN history : j > i => history[j].id # p.id)
                /\ p.key \in DOMAIN history[i].outputs
                => text'[p] = history[i].outputs[p.key]
<1>1. InputIInv /\ [InputNext]_ivars => [Fresh]_ivars
  <2> SUFFICES ASSUME InputIInv, InputNext, NEW p \in Selectors, p.kind = "output", text' # text,
                      NEW i \in DOMAIN history, history[i].id = p.id,
                      \A j \in DOMAIN history : j > i => history[j].id # p.id,
                      p.key \in DOMAIN history[i].outputs
               PROVE  text'[p] = history[i].outputs[p.key]
    BY DEF Fresh
  <2>1. BeginStep
    BY DEF InputNext, BareFlag, AliasValue, Generic, MissingValue, Unknown, ResolveInputs
  <2>2. text'[p] = Lookup(p) BY <2>1 DEF BeginStep
  <2>3. Lookup(p) = StepOutput(p.id, p.key) BY DEF Lookup
  <2> QED BY <2>2, <2>3, LatestIsTheLast DEF InputIInv
<1>2. InputIInv => InputTypeOK /\ AcceptedInputsAreGiven BY DEF InputIInv
<1> QED BY <1>1, <1>2, InputInvariant, PTL DEF InputSpec, InputsAreFaithful, ReadsAreFresh
===============================================================================
