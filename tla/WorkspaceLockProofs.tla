------------------------- MODULE WorkspaceLockProofs -------------------------
(***************************************************************************)
(* Mutual exclusion of WorkspaceLock for any number of processes and locks. *)
(***************************************************************************)
EXTENDS WorkspaceLock, TLAPS

(* What one process and lock can do to the counters.                        *)
LEMMA TypeStep ==
  ASSUME IInv, [Next]_vars
  PROVE  TypeOK'
<1> USE LockAssumption DEF TypeOK, PCs, InMutex, Goto, Return
<1>1. ASSUME NEW p \in Procs, NEW l \in Locks, Reenter(p, l)
      PROVE  TypeOK'
  BY <1>1 DEF IInv, Reenter
<1>2. ASSUME NEW p \in Procs, NEW l \in Locks, Open(p, l)
      PROVE  TypeOK'
  BY <1>2 DEF IInv, Open
<1>3. ASSUME NEW p \in Procs, NEW l \in Locks, TryLock(p, l)
      PROVE  TypeOK'
  BY <1>3 DEF IInv, TryLock
<1>4. ASSUME NEW p \in Procs, NEW l \in Locks, TimeOut(p, l)
      PROVE  TypeOK'
  BY <1>4 DEF IInv, TimeOut
<1>5. ASSUME NEW p \in Procs, NEW l \in Locks, Register(p, l)
      PROVE  TypeOK'
  BY <1>5 DEF IInv, Register
<1>6. ASSUME NEW p \in Procs, NEW l \in Locks, ReleaseInner(p, l)
      PROVE  TypeOK'
  <2>1. sections[p][l] - 1 \in Nat /\ depth[p][l] - 1 \in Nat
    BY <1>6 DEF IInv, LockInHand, ReleaseInner, Nested
  <2> QED BY <1>6, <2>1 DEF IInv, ReleaseInner
<1>7. ASSUME NEW p \in Procs, NEW l \in Locks, ReleaseOuter(p, l)
      PROVE  TypeOK'
  <2>1. sections[p][l] - 1 \in Nat
    BY <1>7 DEF IInv, LockInHand, ReleaseOuter
  <2> QED BY <1>7, <2>1 DEF IInv, ReleaseOuter
<1>8. ASSUME NEW p \in Procs, NEW l \in Locks, Unlock(p, l)
      PROVE  TypeOK'
  BY <1>8 DEF IInv, Unlock
<1>9. ASSUME NEW p \in Procs, NEW l \in Locks, Acquire(p, l)
      PROVE  TypeOK'
  BY <1>9 DEF IInv, Acquire
<1>10. ASSUME NEW p \in Procs, NEW l \in Locks, Release(p, l)
       PROVE  TypeOK'
  BY <1>10 DEF IInv, Release
<1>11. ASSUME NEW p \in Procs,
              EnsureHandlers(p) \/ BeginRegister(p) \/ Catch(p) \/ SignalInMutex(p)
       PROVE  TypeOK'
  BY <1>11 DEF IInv, EnsureHandlers, BeginRegister, Catch, SignalInMutex
<1>12. ASSUME NEW p \in Procs, Signal(p)
       PROVE  TypeOK'
  BY <1>12 DEF IInv, Signal
<1>13. ASSUME NEW p \in Procs, End(p)
       PROVE  TypeOK'
  BY <1>13 DEF IInv, End
<1>14. CASE UNCHANGED vars
  BY <1>14 DEF IInv, vars
<1> QED
  BY <1>1, <1>2, <1>3, <1>4, <1>5, <1>6, <1>7, <1>8, <1>9, <1>10, <1>11, <1>12, <1>13, <1>14
  DEF Next, Progress, Command, Exit, Crash

LEMMA RegistryIsTrueStep ==
  ASSUME IInv, [Next]_vars
  PROVE  RegistryIsTrue'
<1> USE LockAssumption DEF TypeOK, Goto, Return, RegistryIsTrue
<1>0. TypeOK'
  BY TypeStep
<1>1. ASSUME NEW p \in Procs, NEW l \in Locks, Reenter(p, l)
      PROVE  RegistryIsTrue'
  BY <1>0, <1>1 DEF IInv, Reenter
<1>2. ASSUME NEW p \in Procs, NEW l \in Locks, Open(p, l)
      PROVE  RegistryIsTrue'
  BY <1>0, <1>2 DEF IInv, Open
<1>3. ASSUME NEW p \in Procs, NEW l \in Locks, TryLock(p, l)
      PROVE  RegistryIsTrue'
  BY <1>0, <1>3 DEF IInv, TryLock, Free
<1>4. ASSUME NEW p \in Procs, NEW l \in Locks, TimeOut(p, l)
      PROVE  RegistryIsTrue'
  BY <1>0, <1>4 DEF IInv, TimeOut
<1>5. ASSUME NEW p \in Procs, NEW l \in Locks, Register(p, l)
      PROVE  RegistryIsTrue'
  <2>1. flock[l] = p
    BY <1>5 DEF IInv, Register, LockInHand, Flocked
  <2> QED BY <1>0, <1>5, <2>1 DEF IInv, Register
<1>6. ASSUME NEW p \in Procs, NEW l \in Locks, ReleaseInner(p, l)
      PROVE  RegistryIsTrue'
  BY <1>0, <1>6 DEF IInv, ReleaseInner, Nested
<1>7. ASSUME NEW p \in Procs, NEW l \in Locks, ReleaseOuter(p, l)
      PROVE  RegistryIsTrue'
  BY <1>0, <1>7 DEF IInv, ReleaseOuter, Nested
<1>8. ASSUME NEW p \in Procs, NEW l \in Locks, Unlock(p, l)
      PROVE  RegistryIsTrue'
  <2>1. flock[l] = p /\ l \notin fds[p]
    BY <1>8 DEF IInv, Unlock, LockInHand, Flocked, Unregistered
  <2> QED BY <1>0, <1>8, <2>1 DEF IInv, Unlock
<1>9. ASSUME NEW p \in Procs, NEW l \in Locks, Acquire(p, l)
      PROVE  RegistryIsTrue'
  BY <1>0, <1>9 DEF IInv, Acquire
<1>10. ASSUME NEW p \in Procs, NEW l \in Locks, Release(p, l)
      PROVE  RegistryIsTrue'
  BY <1>0, <1>10 DEF IInv, Release
<1>11. ASSUME NEW p \in Procs, Signal(p)
      PROVE  RegistryIsTrue'
  BY <1>0, <1>11 DEF IInv, Signal
<1>12. ASSUME NEW p \in Procs, End(p)
      PROVE  RegistryIsTrue'
  BY <1>0, <1>12 DEF IInv, End
<1>13. ASSUME NEW p \in Procs,
             EnsureHandlers(p) \/ BeginRegister(p) \/ Catch(p) \/ SignalInMutex(p)
      PROVE  RegistryIsTrue'
  BY <1>0, <1>13 DEF IInv, EnsureHandlers, BeginRegister, Catch, SignalInMutex
<1>14. CASE UNCHANGED vars
  BY <1>14 DEF IInv, vars
<1> QED
  BY <1>1, <1>2, <1>3, <1>4, <1>5, <1>6, <1>7, <1>8, <1>9, <1>10, <1>11, <1>12, <1>13, <1>14
  DEF Next, Progress, Command, Exit, Crash

LEMMA SectionsCountedStep ==
  ASSUME IInv, [Next]_vars
  PROVE  SectionsCounted'
<1> USE LockAssumption DEF TypeOK, Goto, Return, RegistryIsTrue, SectionsCounted
<1>0. TypeOK'
  BY TypeStep
<1>1. ASSUME NEW p \in Procs, NEW l \in Locks, Reenter(p, l)
      PROVE  SectionsCounted'
  <2>1. /\ depth'[p] = [depth[p] EXCEPT ![l] = @ + 1]
        /\ sections'[p] = [sections[p] EXCEPT ![l] = @ + 1]
    BY <1>1 DEF IInv, Reenter
  <2>2. /\ \A q \in Procs \ {p} : depth'[q] = depth[q] /\ sections'[q] = sections[q]
        /\ raised' = raised
    BY <1>1 DEF IInv, Reenter
  <2> QED BY <1>0, <2>1, <2>2 DEF IInv
<1>2. ASSUME NEW p \in Procs, NEW l \in Locks, Open(p, l)
      PROVE  SectionsCounted'
  BY <1>0, <1>2 DEF IInv, Open
<1>3. ASSUME NEW p \in Procs, NEW l \in Locks, TryLock(p, l)
      PROVE  SectionsCounted'
  BY <1>0, <1>3 DEF IInv, TryLock, Free
<1>4. ASSUME NEW p \in Procs, NEW l \in Locks, TimeOut(p, l)
      PROVE  SectionsCounted'
  BY <1>0, <1>4 DEF IInv, TimeOut
<1>5. ASSUME NEW p \in Procs, NEW l \in Locks, Register(p, l)
      PROVE  SectionsCounted'
  <2>1. depth[p][l] = 0
    BY <1>5 DEF IInv, Register, LockInHand, Unregistered
  <2>2. /\ depth'[p] = [depth[p] EXCEPT ![l] = 1]
        /\ sections'[p] = [sections[p] EXCEPT ![l] = @ + 1]
    BY <1>5 DEF IInv, Register
  <2>3. /\ \A q \in Procs \ {p} : depth'[q] = depth[q] /\ sections'[q] = sections[q]
        /\ raised' = raised
    BY <1>5 DEF IInv, Register
  <2>4. raised[p] # "exit" => sections'[p] = depth'[p]
    BY <2>1, <2>2 DEF IInv
  <2> QED BY <1>0, <2>3, <2>4 DEF IInv
<1>6. ASSUME NEW p \in Procs, NEW l \in Locks, ReleaseInner(p, l)
      PROVE  SectionsCounted'
  <2>1. /\ depth'[p] = [depth[p] EXCEPT ![l] = @ - 1]
        /\ sections'[p] = [sections[p] EXCEPT ![l] = @ - 1]
    BY <1>6 DEF IInv, ReleaseInner
  <2>2. /\ \A q \in Procs \ {p} : depth'[q] = depth[q] /\ sections'[q] = sections[q]
        /\ raised' = raised
    BY <1>6 DEF IInv, ReleaseInner
  <2> QED BY <1>0, <2>1, <2>2 DEF IInv
<1>7. ASSUME NEW p \in Procs, NEW l \in Locks, ReleaseOuter(p, l)
      PROVE  SectionsCounted'
  <2>1. sections[p][l] > 0 /\ ~(depth[p][l] > 1) /\ raised' = raised
    BY <1>7 DEF IInv, ReleaseOuter, LockInHand, Nested
  <2>2. raised[p] # "exit" => sections[p][l] - 1 = 0
    BY <2>1 DEF IInv
  <2>3. /\ depth'[p] = [depth[p] EXCEPT ![l] = 0]
        /\ sections'[p] = [sections[p] EXCEPT ![l] = @ - 1]
    BY <1>7 DEF IInv, ReleaseOuter
  <2>4. \A q \in Procs \ {p} : depth'[q] = depth[q] /\ sections'[q] = sections[q]
    BY <1>7 DEF IInv, ReleaseOuter
  <2> QED BY <1>0, <2>1, <2>2, <2>3, <2>4 DEF IInv
<1>8. ASSUME NEW p \in Procs, NEW l \in Locks, Unlock(p, l)
      PROVE  SectionsCounted'
  BY <1>0, <1>8 DEF IInv, Unlock
<1>9. ASSUME NEW p \in Procs, NEW l \in Locks, Acquire(p, l)
      PROVE  SectionsCounted'
  BY <1>0, <1>9 DEF IInv, Acquire
<1>10. ASSUME NEW p \in Procs, NEW l \in Locks, Release(p, l)
      PROVE  SectionsCounted'
  BY <1>0, <1>10 DEF IInv, Release
<1>11. ASSUME NEW p \in Procs, Signal(p)
      PROVE  SectionsCounted'
  BY <1>0, <1>11 DEF IInv, Signal
<1>12. ASSUME NEW p \in Procs, End(p)
      PROVE  SectionsCounted'
  BY <1>0, <1>12 DEF IInv, End
<1>13. ASSUME NEW p \in Procs,
             EnsureHandlers(p) \/ BeginRegister(p) \/ Catch(p) \/ SignalInMutex(p)
      PROVE  SectionsCounted'
  BY <1>0, <1>13 DEF IInv, EnsureHandlers, BeginRegister, Catch, SignalInMutex
<1>14. CASE UNCHANGED vars
  BY <1>14 DEF IInv, vars
<1> QED
  BY <1>1, <1>2, <1>3, <1>4, <1>5, <1>6, <1>7, <1>8, <1>9, <1>10, <1>11, <1>12, <1>13, <1>14
  DEF Next, Progress, Command, Exit, Crash

LEMMA LockInHandStep ==
  ASSUME IInv, [Next]_vars
  PROVE  LockInHand'
<1> USE LockAssumption DEF TypeOK, Goto, Return, RegistryIsTrue, LockInHand, Working, Unregistered, Flocked
<1>0. TypeOK'
  BY TypeStep
<1>1. ASSUME NEW p \in Procs, NEW l \in Locks, Reenter(p, l)
      PROVE  LockInHand'
  BY <1>0, <1>1 DEF IInv, Reenter
<1>2. ASSUME NEW p \in Procs, NEW l \in Locks, Open(p, l)
      PROVE  LockInHand'
  BY <1>0, <1>2 DEF IInv, Open
<1>3. ASSUME NEW p \in Procs, NEW l \in Locks, TryLock(p, l)
      PROVE  LockInHand'
  BY <1>0, <1>3 DEF IInv, TryLock, Free
<1>4. ASSUME NEW p \in Procs, NEW l \in Locks, TimeOut(p, l)
      PROVE  LockInHand'
  BY <1>0, <1>4 DEF IInv, TimeOut
<1>5. ASSUME NEW p \in Procs, NEW l \in Locks, Register(p, l)
      PROVE  LockInHand'
  BY <1>0, <1>5 DEF IInv, Register
<1>6. ASSUME NEW p \in Procs, NEW l \in Locks, ReleaseInner(p, l)
      PROVE  LockInHand'
  BY <1>0, <1>6 DEF IInv, ReleaseInner, Nested
<1>7. ASSUME NEW p \in Procs, NEW l \in Locks, ReleaseOuter(p, l)
      PROVE  LockInHand'
  BY <1>0, <1>7 DEF IInv, ReleaseOuter, Nested
<1>8. ASSUME NEW p \in Procs, NEW l \in Locks, Unlock(p, l)
      PROVE  LockInHand'
  BY <1>0, <1>8 DEF IInv, Unlock
<1>9. ASSUME NEW p \in Procs, NEW l \in Locks, Acquire(p, l)
      PROVE  LockInHand'
  BY <1>0, <1>9 DEF IInv, Acquire
<1>10. ASSUME NEW p \in Procs, NEW l \in Locks, Release(p, l)
      PROVE  LockInHand'
  BY <1>0, <1>10 DEF IInv, Release
<1>11. ASSUME NEW p \in Procs, Signal(p)
      PROVE  LockInHand'
  BY <1>0, <1>11 DEF IInv, Signal
<1>12. ASSUME NEW p \in Procs, End(p)
      PROVE  LockInHand'
  BY <1>0, <1>12 DEF IInv, End
<1>13. ASSUME NEW p \in Procs,
             EnsureHandlers(p) \/ BeginRegister(p) \/ Catch(p) \/ SignalInMutex(p)
      PROVE  LockInHand'
  BY <1>0, <1>13 DEF IInv, EnsureHandlers, BeginRegister, Catch, SignalInMutex
<1>14. CASE UNCHANGED vars
  BY <1>14 DEF IInv, vars
<1> QED
  BY <1>1, <1>2, <1>3, <1>4, <1>5, <1>6, <1>7, <1>8, <1>9, <1>10, <1>11, <1>12, <1>13, <1>14
  DEF Next, Progress, Command, Exit, Crash

(* The types, registries and counters of WorkspaceLock hold in every state, *)
(* whatever acquires, releases, times out, is signalled or crashes.         *)
THEOREM LockInvariant == Spec => []IInv
<1>1. Init => IInv
  BY LockAssumption DEF Init, IInv, TypeOK, RegistryIsTrue, SectionsCounted, LockInHand,
     PCs, InMutex, Working, Unregistered, Flocked
<1>2. IInv /\ [Next]_vars => IInv'
  BY TypeStep, RegistryIsTrueStep, SectionsCountedStep, LockInHandStep DEF IInv
<1> QED
  BY <1>1, <1>2, PTL DEF Spec

(* At most one process is inside a section of a lock: it counts its section *)
(* in its registry, whose descriptor has the only flock.                    *)
THEOREM OneProcessInside == Spec => []MutualExclusion
<1>1. IInv => MutualExclusion
  <2> SUFFICES ASSUME IInv, NEW p \in Procs, NEW q \in Procs, NEW l \in Locks,
                      Inside(p, l), Inside(q, l)
               PROVE  p = q
    BY DEF MutualExclusion
  <2>1. depth[p][l] > 0 /\ depth[q][l] > 0
    BY DEF IInv, SectionsCounted, Inside
  <2> QED BY <2>1 DEF IInv, RegistryIsTrue
<1> QED
  BY LockInvariant, <1>1, PTL

(* What the registry says of a lock is true, also after a signal.           *)
THEOREM RegistryStaysTrue == Spec => []RegistryIsTrue
BY LockInvariant, PTL DEF IInv
=============================================================================
