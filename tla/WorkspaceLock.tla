---------------------------- MODULE WorkspaceLock ----------------------------
(***************************************************************************)
(* common/lock.py: the advisory file locks that every command takes around  *)
(* what it changes under .dovo.  Each process has one thread that takes     *)
(* locks, two registries (depth and descriptor per lock path) behind a      *)
(* non-reentrant mutex, and a handler for SIGINT and SIGTERM that runs in   *)
(* that same thread between any two of its steps.                           *)
(***************************************************************************)
EXTENDS Naturals

CONSTANTS
    Procs,       \* the processes that run dovo commands
    Locks,       \* the lock files (the workspace's, and those of other roots)
    NoProc,      \* no process holds the flock
    NoLock,      \* no lock is being acquired or released
    MaxSections  \* bound: sections one process tries to enter

ASSUME LockAssumption ==
    NoProc \notin Procs /\ NoLock \notin Locks /\ MaxSections \in Nat

VARIABLES
    flock,      \* lock file -> the process with an flock on it
    depth,      \* _LOCK_REGISTRY of each process
    fds,        \* the keys of each process's _FD_REGISTRY
    sections,   \* the `with WorkspaceLock` blocks each process is in, per lock
    pc,         \* what each process is doing
    target,     \* the lock it is acquiring or releasing
    raised,     \* the exception on its way: "none", "timeout" or "exit"
    tried       \* how often each process tried to enter a section

vars == <<flock, depth, fds, sections, pc, target, raised, tried>>

(* Inside `with _REGISTRY_LOCK`.                                            *)
InMutex == {"arming", "checking", "registering", "releasing"}
PCs == InMutex \cup {"idle", "run", "poll", "got", "unlock", "hung", "gone"}

Goto(p, label) == pc' = [pc EXCEPT ![p] = label]
Return(p) == Goto(p, "run") /\ target' = [target EXCEPT ![p] = NoLock]
Free(l) == flock[l] = NoProc

----------------------------------------------------------------------------
(* acquire().                                                               *)

(* _ensure_signal_handlers, once per process.                               *)
EnsureHandlers(p) ==
    /\ \/ pc[p] = "idle" /\ Goto(p, "arming")
       \/ pc[p] = "arming" /\ Goto(p, "run")
    /\ UNCHANGED <<flock, depth, fds, sections, target, raised, tried>>

(* A section begins; cleanup code takes locks too while SystemExit passes.  *)
Acquire(p, l) ==
    /\ pc[p] = "run" /\ raised[p] # "timeout"
    /\ tried[p] < MaxSections
    /\ tried' = [tried EXCEPT ![p] = @ + 1]
    /\ target' = [target EXCEPT ![p] = l]
    /\ Goto(p, "checking")
    /\ UNCHANGED <<flock, depth, fds, sections, raised>>

EnterAlways(p, l) ==                        \* mutant: no look at the registry
    /\ pc[p] = "checking" /\ target[p] = l
    /\ depth' = [depth EXCEPT ![p][l] = @ + 1]
    /\ sections' = [sections EXCEPT ![p][l] = @ + 1]
    /\ Return(p)
    /\ UNCHANGED <<flock, fds, raised, tried>>

Reenter(p, l) ==
    /\ pc[p] = "checking" /\ target[p] = l
    /\ depth[p][l] > 0
    /\ depth' = [depth EXCEPT ![p][l] = @ + 1]
    /\ sections' = [sections EXCEPT ![p][l] = @ + 1]
    /\ Return(p)
    /\ UNCHANGED <<flock, fds, raised, tried>>

(* _open_lock_file and _poll_lock, outside the mutex.                       *)
Open(p, l) ==
    /\ pc[p] = "checking" /\ target[p] = l
    /\ depth[p][l] = 0
    /\ Goto(p, "poll")
    /\ UNCHANGED <<flock, depth, fds, sections, target, raised, tried>>

TryLock(p, l) ==
    /\ pc[p] = "poll" /\ target[p] = l
    /\ Free(l)
    /\ flock' = [flock EXCEPT ![l] = p]
    /\ Goto(p, "got")
    /\ UNCHANGED <<depth, fds, sections, target, raised, tried>>

(* _check_lock_timeout after an attempt that failed: the descriptor is      *)
(* closed and LockTimeoutError raised, unless SystemExit is on its way.     *)
TimeOut(p, l) ==
    /\ pc[p] = "poll" /\ target[p] = l
    /\ ~Free(l)
    /\ raised' = [raised EXCEPT ![p] = IF @ = "exit" THEN @ ELSE "timeout"]
    /\ Return(p)
    /\ UNCHANGED <<flock, depth, fds, sections, tried>>

BeginRegister(p) ==
    /\ pc[p] = "got"
    /\ Goto(p, "registering")
    /\ UNCHANGED <<flock, depth, fds, sections, target, raised, tried>>

Register(p, l) ==
    /\ pc[p] = "registering" /\ target[p] = l
    /\ depth' = [depth EXCEPT ![p][l] = 1]
    /\ fds' = [fds EXCEPT ![p] = @ \cup {l}]
    /\ sections' = [sections EXCEPT ![p][l] = @ + 1]
    /\ Return(p)
    /\ UNCHANGED <<flock, raised, tried>>

----------------------------------------------------------------------------
(* release().                                                               *)

(* A block ends, by itself or because an exception leaves it.               *)
Release(p, l) ==
    /\ pc[p] = "run" /\ sections[p][l] > 0
    /\ target' = [target EXCEPT ![p] = l]
    /\ Goto(p, "releasing")
    /\ UNCHANGED <<flock, depth, fds, sections, raised, tried>>

DeeperThanTwo(p, l) == depth[p][l] > 2      \* mutant: an inner release is the last one
Nested(p, l) == depth[p][l] > 1

ReleaseInner(p, l) ==
    /\ pc[p] = "releasing" /\ target[p] = l
    /\ Nested(p, l)
    /\ depth' = [depth EXCEPT ![p][l] = @ - 1]
    /\ sections' = [sections EXCEPT ![p][l] = @ - 1]
    /\ Return(p)
    /\ UNCHANGED <<flock, fds, raised, tried>>

ReleaseByDecrement(p, l) ==                 \* mutant: the registry may be empty already
    /\ pc[p] = "releasing" /\ target[p] = l
    /\ ~Nested(p, l)
    /\ depth' = [depth EXCEPT ![p][l] = @ - 1]
    /\ fds' = [fds EXCEPT ![p] = @ \ {l}]
    /\ sections' = [sections EXCEPT ![p][l] = @ - 1]
    /\ IF l \in fds[p] THEN Goto(p, "unlock") /\ UNCHANGED target ELSE Return(p)
    /\ UNCHANGED <<flock, raised, tried>>

(* The outermost release pops both registries; after the handler's cleanup  *)
(* there may be nothing left to pop.                                        *)
ReleaseOuter(p, l) ==
    /\ pc[p] = "releasing" /\ target[p] = l
    /\ ~Nested(p, l)
    /\ depth' = [depth EXCEPT ![p][l] = 0]
    /\ fds' = [fds EXCEPT ![p] = @ \ {l}]
    /\ sections' = [sections EXCEPT ![p][l] = @ - 1]
    /\ IF l \in fds[p] THEN Goto(p, "unlock") /\ UNCHANGED target ELSE Return(p)
    /\ UNCHANGED <<flock, raised, tried>>

ForgetDescriptor(p, l) ==                   \* mutant: popped but never closed
    /\ pc[p] = "unlock" /\ target[p] = l
    /\ Return(p)
    /\ UNCHANGED <<flock, depth, fds, sections, raised, tried>>

Unlock(p, l) ==
    /\ pc[p] = "unlock" /\ target[p] = l
    /\ flock' = [flock EXCEPT ![l] = NoProc]
    /\ Return(p)
    /\ UNCHANGED <<depth, fds, sections, raised, tried>>

----------------------------------------------------------------------------
(* Exceptions, signals and ends.                                            *)

(* A command handles LockTimeoutError.                                      *)
Catch(p) ==
    /\ pc[p] = "run" /\ raised[p] = "timeout"
    /\ raised' = [raised EXCEPT ![p] = "none"]
    /\ UNCHANGED <<flock, depth, fds, sections, pc, target, tried>>

(* _signal_handler: close every registered descriptor, clear the registries *)
(* and raise SystemExit where the thread is.  A descriptor that is flocked  *)
(* but not registered yet, or not any more, stays open.  In the mutex the   *)
(* handler waits for the very thread it runs in.                            *)
Signal(p) ==
    /\ pc[p] \notin InMutex \cup {"idle", "hung", "gone"}
    /\ flock' = [l \in Locks |-> IF l \in fds[p] THEN NoProc ELSE flock[l]]
    /\ depth' = [depth EXCEPT ![p] = [l \in Locks |-> 0]]
    /\ fds' = [fds EXCEPT ![p] = {}]
    /\ raised' = [raised EXCEPT ![p] = "exit"]
    /\ Return(p)
    /\ UNCHANGED <<sections, tried>>

SignalInMutex(p) ==
    /\ pc[p] \in InMutex
    /\ Goto(p, "hung")
    /\ UNCHANGED <<flock, depth, fds, sections, target, raised, tried>>

(* The process ends, and the system closes all its descriptors.             *)
End(p) ==
    /\ flock' = [l \in Locks |-> IF flock[l] = p THEN NoProc ELSE flock[l]]
    /\ depth' = [depth EXCEPT ![p] = [l \in Locks |-> 0]]
    /\ fds' = [fds EXCEPT ![p] = {}]
    /\ sections' = [sections EXCEPT ![p] = [l \in Locks |-> 0]]
    /\ Goto(p, "gone")
    /\ target' = [target EXCEPT ![p] = NoLock]
    /\ raised' = [raised EXCEPT ![p] = "none"]
    /\ UNCHANGED tried

Exit(p) == pc[p] = "run" /\ (\A l \in Locks : sections[p][l] = 0) /\ End(p)

(* SIGKILL, a signal before the handlers are installed, a power loss.       *)
Crash(p) == pc[p] # "gone" /\ End(p)

----------------------------------------------------------------------------
Init ==
    /\ flock = [l \in Locks |-> NoProc]
    /\ depth = [p \in Procs |-> [l \in Locks |-> 0]]
    /\ fds = [p \in Procs |-> {}]
    /\ sections = [p \in Procs |-> [l \in Locks |-> 0]]
    /\ pc = [p \in Procs |-> "idle"]
    /\ target = [p \in Procs |-> NoLock]
    /\ raised = [p \in Procs |-> "none"]
    /\ tried = [p \in Procs |-> 0]

(* What happens by itself inside acquire() and release().                   *)
Progress(p) ==
    \/ EnsureHandlers(p) \/ BeginRegister(p)
    \/ \E l \in Locks :
         \/ Reenter(p, l) \/ Open(p, l) \/ TryLock(p, l) \/ TimeOut(p, l) \/ Register(p, l)
         \/ ReleaseInner(p, l) \/ ReleaseOuter(p, l) \/ Unlock(p, l)

Command(p) == Catch(p) \/ Exit(p) \/ \E l \in Locks : Acquire(p, l) \/ Release(p, l)

Next == \E p \in Procs : Progress(p) \/ Command(p) \/ Signal(p) \/ SignalInMutex(p) \/ Crash(p)

Spec == Init /\ [][Next]_vars

(* Steps of the lock end, so does every section, and SystemExit ends its    *)
(* process once it has left them.                                           *)
FairSpec ==
    /\ Spec
    /\ \A p \in Procs :
          /\ WF_vars(Progress(p))
          /\ WF_vars(\E l \in Locks : Release(p, l))
          /\ WF_vars(raised[p] = "exit" /\ Exit(p))

----------------------------------------------------------------------------
(* Correctness.                                                             *)

(* The types of all variables.                                              *)
TypeOK ==
    /\ flock \in [Locks -> Procs \cup {NoProc}]
    /\ depth \in [Procs -> [Locks -> Nat]]
    /\ fds \in [Procs -> SUBSET Locks]
    /\ sections \in [Procs -> [Locks -> Nat]]
    /\ pc \in [Procs -> PCs]
    /\ target \in [Procs -> Locks \cup {NoLock}]
    /\ raised \in [Procs -> {"none", "timeout", "exit"}]
    /\ tried \in [Procs -> Nat]

(* p executes the body of a section of l that no signal has cut short.      *)
Inside(p, l) == sections[p][l] > 0 /\ raised[p] # "exit"

(* No two processes are inside sections of the same lock: what every        *)
(* critical section of the project relies on, nested sections, timeouts,    *)
(* signals and crashes included.                                            *)
MutualExclusion ==
    \A p, q \in Procs, l \in Locks : Inside(p, l) /\ Inside(q, l) => p = q

(* A registry that says a lock is held tells the truth, also while cleanup  *)
(* code runs after a signal: re-entering it without an flock is safe.       *)
RegistryIsTrue ==
    \A p \in Procs, l \in Locks :
        /\ depth[p][l] > 0 <=> l \in fds[p]
        /\ l \in fds[p] => flock[l] = p

(* While no signal cut it short a process counts its sections right.        *)
SectionsCounted ==
    \A p \in Procs : raised[p] # "exit" => sections[p] = depth[p]

(* What acquire() and release() know of the lock they are working on: it is *)
(* not registered before it is, it is flocked from the poll until after the *)
(* registries forgot it, and a release ends a section.                      *)
Unregistered == {"poll", "got", "registering", "unlock"}
Flocked == {"got", "registering", "unlock"}
Working == Unregistered \cup {"checking", "releasing"}

LockInHand ==
    \A p \in Procs :
        /\ pc[p] \in Working => target[p] \in Locks
        /\ pc[p] \in Unregistered => target[p] \notin fds[p]
        /\ pc[p] \in Flocked => flock[target[p]] = p
        /\ pc[p] = "releasing" => sections[p][target[p]] > 0

(* The inductive invariant of the lock.                                     *)
IInv == TypeOK /\ RegistryIsTrue /\ SectionsCounted /\ LockInHand

(* Nobody keeps a lock for ever: a process gives up every flock it has,     *)
(* even when it waits for another lock whose holder waits for this one,     *)
(* unless its signal handler hangs.                                         *)
LockFreed ==
    \A p \in Procs, l \in Locks : flock[l] = p ~> flock[l] # p \/ pc[p] = "hung"

(* A process that gets a signal releases what it holds and exits.           *)
SignalEndsProcess ==
    \A p \in Procs : raised[p] = "exit" \/ pc[p] = "hung" ~> pc[p] = "gone"
=============================================================================
