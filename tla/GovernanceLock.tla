--------------------------- MODULE GovernanceLock ---------------------------
(***************************************************************************)
(* governance_lock.py: the lock of one workspace.  Threads of one process  *)
(* share a _LockState (owner, depth, who is acquiring) behind a condition; *)
(* processes share an OS lock (flock) on a file that every acquisition     *)
(* opens anew.  The thread that owns the lock may enter again.             *)
(***************************************************************************)
EXTENDS Naturals

CONSTANTS Processes, Threads,
          ProcessOf,    \* the process of each thread
          Nobody,       \* no thread
          MaxDepth      \* bound on the nesting of one thread

ASSUME ThreadsAssumption == ProcessOf \in [Threads -> Processes] /\ Nobody \notin Threads
ASSUME MaxDepthAssumption == MaxDepth \in Nat \ {0}

VARIABLES owner,        \* _LockState.owner_thread_id, by process
          depth,        \* _LockState.depth, by process
          acquiring,    \* _LockState.acquiring_thread_id, by process
          osLock,       \* the thread that opened the locked file handle
          at,           \* where each thread stands in acquire
          held          \* history: with-blocks each thread is inside

lockVars == <<owner, depth, acquiring, osLock, at, held>>

P(t) == ProcessOf[t]

Init ==
    /\ owner = [p \in Processes |-> Nobody]
    /\ depth = [p \in Processes |-> 0]
    /\ acquiring = [p \in Processes |-> Nobody]
    /\ osLock = Nobody
    /\ at = [t \in Threads |-> "out"]
    /\ held = [t \in Threads |-> 0]

-----------------------------------------------------------------------------
(* acquire.                                                                *)

Reenter(t) ==
    /\ at[t] = "out" /\ owner[P(t)] = t
    /\ depth[P(t)] < MaxDepth
    /\ depth' = [depth EXCEPT ![P(t)] = @ + 1]
    /\ held' = [held EXCEPT ![t] = @ + 1]
    /\ UNCHANGED <<owner, acquiring, osLock, at>>

\* Any other thread waits for its turn in the process ...
Ask(t) ==
    /\ at[t] = "out" /\ owner[P(t)] # t
    /\ at' = [at EXCEPT ![t] = "waiting"]
    /\ UNCHANGED <<owner, depth, acquiring, osLock, held>>

\* Mutant: waiting has no deadline.
WaitTimesOutNever(t) == at[t] = "waiting" /\ UNCHANGED lockVars

\* ... until its deadline ...
WaitTimesOut(t) ==
    /\ at[t] = "waiting"
    /\ owner[P(t)] # Nobody \/ acquiring[P(t)] # Nobody
    /\ at' = [at EXCEPT ![t] = "out"]
    /\ UNCHANGED <<owner, depth, acquiring, osLock, held>>

\* ... or until it may try for the process.
Claim(t) ==
    /\ at[t] = "waiting"
    /\ owner[P(t)] = Nobody /\ acquiring[P(t)] = Nobody
    /\ acquiring' = [acquiring EXCEPT ![P(t)] = t]
    /\ at' = [at EXCEPT ![t] = "polling"]
    /\ UNCHANGED <<owner, depth, osLock, held>>

\* Mutant: a shared lock is asked for.
TryLockShared(t) ==
    /\ at[t] = "polling"
    /\ osLock' = t
    /\ at' = [at EXCEPT ![t] = "locked"]
    /\ UNCHANGED <<owner, depth, acquiring, held>>

TryLock(t) ==
    /\ at[t] = "polling" /\ osLock = Nobody
    /\ osLock' = t
    /\ at' = [at EXCEPT ![t] = "locked"]
    /\ UNCHANGED <<owner, depth, acquiring, held>>

\* The deadline passes, or the file cannot be opened or locked.
GiveUp(t) ==
    /\ at[t] = "polling"
    /\ acquiring' = [acquiring EXCEPT ![P(t)] = Nobody]
    /\ at' = [at EXCEPT ![t] = "out"]
    /\ UNCHANGED <<owner, depth, osLock, held>>

Own(t) ==
    /\ at[t] = "locked"
    /\ owner' = [owner EXCEPT ![P(t)] = t]
    /\ depth' = [depth EXCEPT ![P(t)] = 1]
    /\ acquiring' = [acquiring EXCEPT ![P(t)] = Nobody]
    /\ at' = [at EXCEPT ![t] = "out"]
    /\ held' = [held EXCEPT ![t] = @ + 1]
    /\ UNCHANGED osLock

\* A KeyboardInterrupt is no Exception: the handle is dropped, and with it the
\* OS lock, but acquiring_thread_id stays.
Interrupt(t) ==
    /\ at[t] \in {"polling", "locked"}
    /\ osLock' = IF osLock = t THEN Nobody ELSE osLock
    /\ at' = [at EXCEPT ![t] = "out"]
    /\ UNCHANGED <<owner, depth, acquiring, held>>

-----------------------------------------------------------------------------
(* release, and the end of a process.                                      *)

\* Mutant: leaving an inner block lets go of the OS lock.
ReleaseUncounted(t) ==
    /\ owner[P(t)] = t /\ held[t] > 0
    /\ held' = [held EXCEPT ![t] = @ - 1]
    /\ owner' = [owner EXCEPT ![P(t)] = Nobody]
    /\ depth' = [depth EXCEPT ![P(t)] = 0]
    /\ osLock' = Nobody
    /\ UNCHANGED <<acquiring, at>>

Release(t) ==
    /\ owner[P(t)] = t /\ held[t] > 0
    /\ held' = [held EXCEPT ![t] = @ - 1]
    /\ \/ /\ depth[P(t)] > 1
          /\ depth' = [depth EXCEPT ![P(t)] = @ - 1]
          /\ UNCHANGED <<owner, osLock>>
       \/ /\ depth[P(t)] <= 1
          /\ owner' = [owner EXCEPT ![P(t)] = Nobody]
          /\ depth' = [depth EXCEPT ![P(t)] = 0]
          /\ osLock' = Nobody
    /\ UNCHANGED <<acquiring, at>>

\* The OS closes the handles of a process that dies.
Crash(p) ==
    /\ owner' = [owner EXCEPT ![p] = Nobody]
    /\ depth' = [depth EXCEPT ![p] = 0]
    /\ acquiring' = [acquiring EXCEPT ![p] = Nobody]
    /\ osLock' = IF osLock # Nobody /\ P(osLock) = p THEN Nobody ELSE osLock
    /\ at' = [t \in Threads |-> IF P(t) = p THEN "out" ELSE at[t]]
    /\ held' = [t \in Threads |-> IF P(t) = p THEN 0 ELSE held[t]]

\* What a thread does once it asked, without help of another.
Acquire(t) == WaitTimesOut(t) \/ Claim(t) \/ TryLock(t) \/ GiveUp(t) \/ Own(t)

ThreadStep(t) == Reenter(t) \/ Ask(t) \/ Acquire(t) \/ Interrupt(t) \/ Release(t)

Next == (\E t \in Threads : ThreadStep(t)) \/ (\E p \in Processes : Crash(p))

Spec == Init /\ [][Next]_lockVars

-----------------------------------------------------------------------------
(* Properties.                                                             *)

TypeOK ==
    /\ owner \in [Processes -> Threads \cup {Nobody}]
    /\ depth \in [Processes -> 0..MaxDepth]
    /\ acquiring \in [Processes -> Threads \cup {Nobody}]
    /\ osLock \in Threads \cup {Nobody}
    /\ at \in [Threads -> {"out", "waiting", "polling", "locked"}]
    /\ held \in [Threads -> 0..MaxDepth]

\* Of all threads of all processes one at a time is inside the lock.
MutualExclusion == \A s, t \in Threads : held[s] > 0 /\ held[t] > 0 => s = t

\* A thread is inside for as long as its process says so, as deep as its blocks
\* are nested, and under the OS lock that keeps other processes out.
OwnerHoldsLock ==
    \A t \in Threads : held[t] > 0 =>
        owner[P(t)] = t /\ depth[P(t)] = held[t] /\ osLock = t
=============================================================================
