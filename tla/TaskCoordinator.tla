-------------------------- MODULE TaskCoordinator --------------------------
(***************************************************************************)
(* runtime_v2/task_coordinator.py on the runs of working_memory.py:        *)
(* background tasks as durable runs, worked on by threads of the processes *)
(* that started them.                                                      *)
(*                                                                         *)
(* The state of a run, its owner and the answered requests are rows of one *)
(* database, each written in one transaction.  Handles, cancel events, the *)
(* closed flag and the lock are of one process, and end with it.           *)
(***************************************************************************)
EXTENDS Naturals, FiniteSets

CONSTANTS Procs,      \* process instances
          Runs,       \* ids of runs: operation, key and scope
          Exclusive,  \* the runs of the operation with one worker per scope
          Retries,    \* whether an exclusive start may repeat the key of an earlier one
          Requests,   \* what is asked of each process
          MaxRuns,    \* bound on the runs that come into being
          MaxFaults,  \* bound on the reads and writes that the database refuses
          Nobody, NoRun

ASSUME RunsAssumption ==
    Exclusive \subseteq Runs /\ NoRun \notin Runs /\ Nobody \notin Procs
ASSUME RequestsAssumption ==
    Requests \in [Procs -> SUBSET {"start", "exclusive", "cancel", "shutdown"}]
ASSUME BoundsAssumption == Retries \in BOOLEAN /\ MaxRuns \in Nat /\ MaxFaults \in Nat

VARIABLES state,      \* of each run
          owner,      \* the process in the run's last owner checkpoint
          answered,   \* run and idempotency key of each accepted transition
          alive,
          closed,     \* processes whose coordinator is shut down
          starter,    \* the start in progress in each process, with its lock
          canceller,  \* the orphan that each process is about to cancel
          worker,     \* where the thread of each handle is; one may end and leave its handle
          cancelled,  \* per process, the handles whose cancel event is set
          stopped,    \* processes whose shutdown reported no live worker
          executed,   \* how often each process entered the body of a run, up to two
          unowned,    \* runs taken for orphans before their owner was recorded
          refused,    \* runs with a refused read or write
          faults

durable == <<state, owner, answered>>
calls == <<starter, canceller>>
threads == <<worker, cancelled>>
history == <<stopped, executed, unowned>>
errors == <<refused, faults>>
vars == <<durable, alive, closed, calls, threads, history, errors>>

RunStates == {"absent", "queued", "running", "succeeded", "failed", "cancelled"}

\* Mutant: a run counts as active once its thread runs.
ActiveRunning(r) == state[r] = "running"

Active(r) == state[r] \in {"queued", "running"}
Terminal(r) == state[r] \in {"succeeded", "failed", "cancelled"}

IdleStart == [pc |-> "idle", run |-> NoRun, todo |-> {}, orphan |-> NoRun]

Init ==
    /\ state = [r \in Runs |-> "absent"]
    /\ owner = [r \in Runs |-> Nobody]
    /\ answered = {}
    /\ alive = Procs /\ closed = {} /\ stopped = {}
    /\ starter = [p \in Procs |-> IdleStart]
    /\ canceller = [p \in Procs |-> NoRun]
    /\ worker = [p \in Procs |-> [r \in Runs |-> "none"]]
    /\ cancelled = [p \in Procs |-> {}]
    /\ executed = [p \in Procs |-> [r \in Runs |-> 0]]
    /\ unowned = {} /\ refused = {} /\ faults = 0

-----------------------------------------------------------------------------
(* RuntimeStore: one transaction each.                                     *)

\* Mutant: a run that was cancelled may still be failed.
RunTransitionsLoose ==
    [absent |-> {}, queued |-> {"running", "cancelled"},
     running |-> {"succeeded", "failed", "cancelled"},
     succeeded |-> {"cancelled"}, failed |-> {"cancelled"}, cancelled |-> {"failed"}]

RunTransitions ==
    [absent |-> {}, queued |-> {"running", "cancelled"},
     running |-> {"succeeded", "failed", "cancelled"},
     succeeded |-> {}, failed |-> {}, cancelled |-> {}]

\* A key that was answered before is answered again, whatever the state is now.
Accepts(r, to, key) == <<r, key>> \in answered \/ to \in RunTransitions[state[r]]

Transition(r, to, key) ==
    /\ state' = IF <<r, key>> \in answered THEN state ELSE [state EXCEPT ![r] = to]
    /\ answered' = answered \cup {<<r, key>>}
    /\ UNCHANGED owner

\* An accepted transition, or an exception.
TryTransition(r, to, key) ==
    IF Accepts(r, to, key) THEN Transition(r, to, key) ELSE UNCHANGED durable

-----------------------------------------------------------------------------
(* start and start_scope_exclusive.                                        *)

Owned(p) == {r \in Runs : worker[p][r] # "none"}

\* The handles whose thread is alive.
Live(p) == {r \in Runs : worker[p][r] \notin {"none", "dead"}}

\* The lock of the process, held from the look at the runs to the launch.
Locked(p) == starter[p].pc \in {"scan", "recover", "create", "record"}

\* Mutant: the owner is the process that asks.
OwnerIsLiveNever(r) == FALSE

OwnerIsLive(r) == owner[r] \in alive

Start(p, r, pc, todo) ==
    starter' = [starter EXCEPT ![p] = [pc |-> pc, run |-> r, todo |-> todo, orphan |-> NoRun]]

Room(r) ==
    LET asked == {x \in Runs : state[x] # "absent" \/ \E p \in Procs : starter[p].run = x}
    IN Cardinality(asked \cup {r}) <= MaxRuns

Leave(p) == starter' = [starter EXCEPT ![p] = IdleStart]

\* start looks at the closed flag before it takes the lock.
AskStart(p, r) ==
    /\ "start" \in Requests[p] /\ p \in alive /\ p \notin closed /\ starter[p].pc = "idle"
    /\ r \notin Exclusive /\ Room(r)
    /\ Start(p, r, "waiting", {})
    /\ UNCHANGED <<durable, alive, closed, canceller, threads, history, errors>>

\* Mutant: the run is created again, which the store answers as a replay.
LookUpAgain(p) ==
    /\ starter[p].pc = "waiting"
    /\ Start(p, starter[p].run, "create", {})
    /\ UNCHANGED <<durable, alive, closed, canceller, threads, history, errors>>

\* A run that exists, in whatever state, is reported and not started again.
LookUp(p) ==
    /\ starter[p].pc = "waiting"
    /\ IF state[starter[p].run] = "absent" THEN Start(p, starter[p].run, "create", {}) ELSE Leave(p)
    /\ UNCHANGED <<durable, alive, closed, canceller, threads, history, errors>>

\* The ids of exclusive starts contain the time, unless the caller has a key of
\* its own; it repeats that key when the thread of the first start is gone.
Unused(p, r) ==
    IF Retries THEN r \notin Live(p)
    ELSE state[r] = "absent" /\ \A q \in Procs : starter[q].run # r

\* Mutant: the closed flag is checked before the lock only.
StartExclusiveUnchecked(p, r) ==
    /\ "exclusive" \in Requests[p] /\ p \in alive /\ starter[p].pc = "idle"
    /\ r \in Exclusive /\ Unused(p, r) /\ Room(r)
    /\ Start(p, r, "scan", {x \in Exclusive : Active(x)})
    /\ UNCHANGED <<durable, alive, closed, canceller, threads, history, errors>>

\* Mutant: the active runs of every operation are listed.
StartExclusiveAny(p, r) ==
    /\ "exclusive" \in Requests[p] /\ p \in alive /\ p \notin closed
    /\ starter[p].pc = "idle"
    /\ r \in Exclusive /\ Unused(p, r) /\ Room(r)
    /\ Start(p, r, "scan", {x \in Runs : Active(x)})
    /\ UNCHANGED <<durable, alive, closed, canceller, threads, history, errors>>

StartExclusive(p, r) ==
    /\ "exclusive" \in Requests[p] /\ p \in alive /\ p \notin closed
    /\ starter[p].pc = "idle"
    /\ r \in Exclusive /\ Unused(p, r) /\ Room(r)
    /\ Start(p, r, "scan", {x \in Exclusive : Active(x)})
    /\ UNCHANGED <<durable, alive, closed, canceller, threads, history, errors>>

\* A run of this process, or of a live one, is answered instead.
Focus(p) ==
    /\ starter[p].pc = "scan"
    /\ \E x \in starter[p].todo : x \in Owned(p) \/ OwnerIsLive(x)
    /\ Leave(p)
    /\ UNCHANGED <<durable, alive, closed, canceller, threads, history, errors>>

JudgeOrphan(p, x) ==
    /\ starter[p].pc = "scan" /\ x \in starter[p].todo
    /\ x \notin Owned(p) /\ ~OwnerIsLive(x)
    /\ starter' = [starter EXCEPT ![p].pc = "recover", ![p].orphan = x]
    /\ unowned' = IF owner[x] = Nobody THEN unowned \cup {x} ELSE unowned
    /\ UNCHANGED <<durable, alive, closed, canceller, threads, stopped, executed, errors>>

\* An orphan that ended meanwhile ends the start, too.
RecoverOrphan(p) ==
    LET x == starter[p].orphan IN
    /\ starter[p].pc = "recover"
    /\ TryTransition(x, "cancelled", "orphan-recovered")
    /\ IF Accepts(x, "cancelled", "orphan-recovered")
       THEN Start(p, starter[p].run, "scan", starter[p].todo \ {x})
       ELSE Leave(p)
    /\ UNCHANGED <<alive, closed, canceller, threads, history, errors>>

\* No active run is left.  create_run answers a known key with the run as it is.
CreateRun(p) ==
    LET r == starter[p].run IN
    /\ starter[p].pc = "create" \/ (starter[p].pc = "scan" /\ starter[p].todo = {})
    /\ state' = IF state[r] = "absent" THEN [state EXCEPT ![r] = "queued"] ELSE state
    /\ Start(p, r, "record", {})
    /\ UNCHANGED <<owner, answered, alive, closed, canceller, threads, history, errors>>

\* The owner is recorded in a transaction of its own, then the thread starts, with
\* an event of its own.
Launch(p) ==
    LET r == starter[p].run IN
    /\ starter[p].pc = "record"
    /\ owner' = [owner EXCEPT ![r] = p]
    /\ worker' = [worker EXCEPT ![p][r] = "begin"]
    /\ cancelled' = [cancelled EXCEPT ![p] = @ \ {r}]
    /\ Leave(p)
    /\ UNCHANGED <<state, answered, alive, closed, canceller, history, errors>>

\* The database refuses the owner of a run that is there by now.
StartFails(p) ==
    /\ starter[p].pc = "record" /\ faults < MaxFaults
    /\ faults' = faults + 1 /\ refused' = refused \cup {starter[p].run}
    /\ Leave(p)
    /\ UNCHANGED <<durable, alive, closed, canceller, threads, history>>

-----------------------------------------------------------------------------
(* The thread of a run.                                                    *)

Goto(p, r, pc) == worker' = [worker EXCEPT ![p][r] = pc]

Begin(p, r) ==
    /\ worker[p][r] = "begin"
    /\ IF r \in cancelled[p]
       THEN TryTransition(r, "cancelled", "cancel-before-start")
            /\ Goto(p, r, IF Accepts(r, "cancelled", "cancel-before-start") THEN "cleanup" ELSE "error")
            /\ UNCHANGED executed
       ELSE /\ TryTransition(r, "running", "running")
            /\ IF Accepts(r, "running", "running")
               THEN /\ Goto(p, r, "body")
                    /\ executed' = [executed EXCEPT ![p][r] = IF @ < 2 THEN @ + 1 ELSE @]
               ELSE Goto(p, r, "error") /\ UNCHANGED executed
    /\ UNCHANGED <<alive, closed, calls, cancelled, stopped, unowned, errors>>

\* The body returns, and the event is looked at a last time.
Succeed(p, r) ==
    /\ worker[p][r] = "body" /\ r \notin cancelled[p]
    /\ TryTransition(r, "succeeded", "succeeded")
    /\ Goto(p, r, IF Accepts(r, "succeeded", "succeeded") THEN "cleanup" ELSE "error")
    /\ UNCHANGED <<alive, closed, calls, cancelled, history, errors>>

\* The body reports progress, or returns, after its event was set.
EndCancelled(p, r) ==
    /\ worker[p][r] = "body" /\ r \in cancelled[p]
    /\ IF Active(r) THEN TryTransition(r, "cancelled", "cancelled") ELSE UNCHANGED durable
    /\ Goto(p, r, "cleanup")
    /\ UNCHANGED <<alive, closed, calls, cancelled, history, errors>>

Raise(p, r) ==
    /\ worker[p][r] = "body"
    /\ Goto(p, r, "error")
    /\ UNCHANGED <<durable, alive, closed, calls, cancelled, history, errors>>

\* Mutant: the exception is left to the caller of the thread.
EndFailedSilently(p, r) ==
    /\ worker[p][r] = "error"
    /\ Goto(p, r, "cleanup")
    /\ UNCHANGED <<durable, alive, closed, calls, cancelled, history, errors>>

\* The store has no such transition for a run that is still queued.
EndFailed(p, r) ==
    /\ worker[p][r] = "error"
    /\ IF Active(r) THEN TryTransition(r, "failed", "failed") ELSE UNCHANGED durable
    /\ Goto(p, r, "cleanup")
    /\ UNCHANGED <<alive, closed, calls, cancelled, history, errors>>

\* A resource of the body raises, and the run still says "running": its end could not
\* be written.
CleanUpFails(p, r) ==
    /\ worker[p][r] = "cleanup" /\ state[r] = "running"
    /\ Goto(p, r, "failing")
    /\ UNCHANGED <<durable, alive, closed, calls, cancelled, history, errors>>

\* The run is failed for that.  When somebody ended it meanwhile the thread dies of
\* the exception, and its handle stays.
FailCleanUp(p, r) ==
    /\ worker[p][r] = "failing"
    /\ TryTransition(r, "failed", "cleanup-failed")
    /\ Goto(p, r, IF Accepts(r, "failed", "cleanup-failed") THEN "leaving" ELSE "dead")
    /\ UNCHANGED <<alive, closed, calls, cancelled, history, errors>>

\* The handle is dropped under the lock.
CleanUp(p, r) ==
    /\ worker[p][r] \in {"cleanup", "leaving"} /\ ~Locked(p)
    /\ Goto(p, r, "none")
    /\ cancelled' = [cancelled EXCEPT ![p] = @ \ {r}]
    /\ UNCHANGED <<durable, alive, closed, calls, history, errors>>

\* The database refuses the thread: to the body that is an exception; in the handlers
\* the run keeps its state; when a cleanup has failed the handle stays without thread.
WriteFails(p, r) ==
    /\ faults < MaxFaults
    /\ faults' = faults + 1 /\ refused' = refused \cup {r}
    /\ \/ worker[p][r] \in {"begin", "body"} /\ Goto(p, r, "error")
       \/ worker[p][r] = "error" /\ Goto(p, r, "cleanup")
       \/ worker[p][r] = "body" /\ r \in cancelled[p] /\ Goto(p, r, "cleanup")
       \/ worker[p][r] \in {"cleanup", "failing"} /\ Goto(p, r, "dead")
    /\ UNCHANGED <<durable, alive, closed, calls, cancelled, history>>

Work(p, r) ==
    \/ Begin(p, r) \/ Succeed(p, r) \/ EndCancelled(p, r) \/ Raise(p, r) \/ EndFailed(p, r)
    \/ CleanUpFails(p, r) \/ FailCleanUp(p, r) \/ CleanUp(p, r)

-----------------------------------------------------------------------------
(* cancel and shutdown.                                                    *)

AskCancel(p, r) ==
    /\ "cancel" \in Requests[p] /\ p \in alive
    /\ canceller[p] = NoRun /\ ~Locked(p) /\ Active(r)

\* A thread of this process is told, or the handle of one that died; the rest of the
\* call waits for it.
TellWorker(p, r) ==
    /\ AskCancel(p, r) /\ r \in Owned(p)
    /\ cancelled' = [cancelled EXCEPT ![p] = @ \cup {r}]
    /\ UNCHANGED <<durable, alive, closed, calls, worker, history, errors>>

\* Without a handle, only the run of a dead process may be ended.
JudgeOwner(p, r) ==
    /\ AskCancel(p, r) /\ r \notin Owned(p) /\ ~OwnerIsLive(r)
    /\ canceller' = [canceller EXCEPT ![p] = r]
    /\ unowned' = IF owner[r] = Nobody THEN unowned \cup {r} ELSE unowned
    /\ UNCHANGED <<durable, alive, closed, starter, threads, stopped, executed, errors>>

CancelOrphan(p) ==
    /\ canceller[p] # NoRun
    /\ TryTransition(canceller[p], "cancelled", "cancel-recovered")
    /\ canceller' = [canceller EXCEPT ![p] = NoRun]
    /\ UNCHANGED <<alive, closed, starter, threads, history, errors>>

Shutdown(p) ==
    /\ "shutdown" \in Requests[p] /\ p \in alive /\ ~Locked(p) /\ p \notin closed
    /\ closed' = closed \cup {p}
    /\ cancelled' = [cancelled EXCEPT ![p] = @ \cup Owned(p)]
    /\ UNCHANGED <<durable, alive, calls, worker, history, errors>>

\* Threads that outlive the timeout are reported instead, which changes nothing.
ReportStopped(p) ==
    /\ p \in alive /\ p \in closed /\ p \notin stopped
    /\ ~Locked(p) /\ Live(p) = {}
    /\ stopped' = stopped \cup {p}
    /\ UNCHANGED <<durable, alive, closed, calls, threads, executed, unowned, errors>>

Crash(p) ==
    /\ p \in alive
    /\ alive' = alive \ {p}
    /\ starter' = [starter EXCEPT ![p] = IdleStart]
    /\ canceller' = [canceller EXCEPT ![p] = NoRun]
    /\ worker' = [worker EXCEPT ![p] = [r \in Runs |-> "none"]]
    /\ cancelled' = [cancelled EXCEPT ![p] = {}]
    /\ executed' = [executed EXCEPT ![p] = [r \in Runs |-> 0]]
    /\ closed' = closed \ {p} /\ stopped' = stopped \ {p}
    /\ UNCHANGED <<durable, unowned, errors>>

Next ==
    \/ \E p \in Procs, r \in Runs :
        \/ AskStart(p, r) \/ StartExclusive(p, r) \/ JudgeOrphan(p, r)
        \/ Work(p, r) \/ WriteFails(p, r) \/ TellWorker(p, r) \/ JudgeOwner(p, r)
    \/ \E p \in Procs :
        \/ LookUp(p) \/ Focus(p) \/ RecoverOrphan(p)
        \/ CreateRun(p) \/ Launch(p) \/ StartFails(p)
        \/ CancelOrphan(p) \/ Shutdown(p) \/ ReportStopped(p) \/ Crash(p)

Spec == Init /\ [][Next]_vars

\* The threads of live processes run, and the bodies they are given end.
Fairness == \A p \in Procs, r \in Runs : WF_vars(Work(p, r))

FairSpec == Spec /\ Fairness

-----------------------------------------------------------------------------
(* Properties.                                                             *)

TypeOK ==
    /\ state \in [Runs -> RunStates]
    /\ owner \in [Runs -> Procs \cup {Nobody}]
    /\ alive \subseteq Procs /\ closed \subseteq Procs /\ stopped \subseteq Procs
    /\ starter \in [Procs -> [pc : {"idle", "waiting", "scan", "recover", "create", "record"},
                              run : Runs \cup {NoRun}, todo : SUBSET Exclusive,
                              orphan : Exclusive \cup {NoRun}]]
    /\ canceller \in [Procs -> Runs \cup {NoRun}]
    /\ worker \in [Procs -> [Runs -> {"none", "begin", "body", "error", "cleanup", "failing",
                                    "leaving", "dead"}]]
    /\ cancelled \in [Procs -> SUBSET Runs]
    /\ executed \in [Procs -> [Runs -> 0..2]]
    /\ unowned \subseteq Runs /\ refused \subseteq Runs /\ faults \in 0..MaxFaults

\* task_coordinator.py:299 "never focus a task that has no live owner" and :300 the
\* cancellation of orphans: a run whose body a live process executes is not taken
\* for an orphan by another, except in the moment before its owner is recorded.
LiveWorkIsRunning ==
    \A p \in Procs, r \in Exclusive \ unowned :
        worker[p][r] = "body" => state[r] = "running"

\* task_coordinator.py:256 "Start one worker per (operation, scope)", within a
\* process: two starts never have two threads work on the same operation, unless one
\* of their runs was taken for an orphan before its owner was recorded.
OneWorkerPerProcess ==
    \A p \in Procs, r, s \in Exclusive \ unowned :
        /\ worker[p][r] \in {"begin", "body"}
        /\ worker[p][s] \in {"begin", "body"}
        => r = s

\* task_coordinator.py:515 "Cancel and join every worker owned by this GUI process":
\* once shutdown has reported that no worker is alive, no exclusive start that was
\* under way launches one.
ShutdownStopsWork ==
    \A p \in stopped : Live(p) \cap Exclusive = {}

\* native_ports.py:3757 "callers that need retry deduplication supply an explicit
\* request/idempotency key": a process does not execute the body of a run twice.
ExecutedOnce == \A p \in Procs, r \in Runs : executed[p][r] <= 1

\* A run that has ended keeps its outcome: late transitions of workers, cancels and
\* recoveries are refused or answered as repetitions.
OutcomesAreFinal == [][\A r \in Runs : Terminal(r) => state'[r] = state[r]]_vars

\* Every run with a thread ends, unless the process dies or the database refuses
\* the thread.
RunsEnd ==
    \A p \in Procs, r \in Runs :
        worker[p][r] # "none" ~> (Terminal(r) \/ p \notin alive \/ r \in refused)
=============================================================================
