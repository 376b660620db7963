----------------------- MODULE TaskCoordinator_proofs -----------------------
(***************************************************************************)
(* Proofs about TaskCoordinator, for every set of processes and of runs,   *)
(* whatever is asked of each process.                                      *)
(***************************************************************************)
EXTENDS TaskCoordinator, TLAPS

Points == {"idle", "waiting", "scan", "recover", "create", "record"}

Starts == [pc : Points, run : Runs \cup {NoRun}, todo : SUBSET Exclusive, orphan : Exclusive \cup {NoRun}]

Threads == {"none", "begin", "body", "error", "cleanup", "failing", "leaving", "dead"}

\* What a call works on while it is under way.
CallsKnowTheirRun ==
    /\ \A p \in Procs :
        /\ starter[p].pc # "idle" => starter[p].run \in Runs
        /\ starter[p].pc = "recover" => starter[p].orphan \in Exclusive

TypeInv == TypeOK /\ CallsKnowTheirRun

-----------------------------------------------------------------------------
(* The transitions of a run.                                               *)

\* Whatever is asked, a run goes to one of its states and an ended one stays.
LEMMA TransitionKeeps ==
  ASSUME TypeOK, NEW r \in Runs, NEW to \in {"running", "succeeded", "failed", "cancelled"}, NEW key,
         TryTransition(r, to, key)
  PROVE  /\ state' \in [Runs -> RunStates] /\ owner' = owner
         /\ \A x \in Runs : state'[x] = state[x] \/ (x = r /\ state'[r] = to)
         /\ \A x \in Runs : Terminal(x) => state'[x] = state[x]
<1>1. CASE <<r, key>> \in answered
  BY <1>1 DEF TryTransition, Transition, TypeOK, durable
<1>2. CASE <<r, key>> \notin answered /\ to \in RunTransitions[state[r]]
  <2>1. state[r] \in {"queued", "running"}
    BY <1>2 DEF RunTransitions, TypeOK, RunStates
  <2>2. state' = [state EXCEPT ![r] = to] /\ owner' = owner
    BY <1>2 DEF TryTransition, Accepts, Transition
  <2> QED
    BY <2>1, <2>2 DEF TypeOK, RunStates, Terminal
<1>3. CASE ~ Accepts(r, to, key)
  BY <1>3 DEF TryTransition, TypeOK, durable
<1> QED
  BY <1>1, <1>2, <1>3 DEF Accepts

LEMMA StartTyped ==
  ASSUME TypeOK, NEW p \in Procs, NEW r \in Runs, NEW at \in Points, NEW todo \in SUBSET Exclusive,
         Start(p, r, at, todo)
  PROVE  starter' \in [Procs -> Starts]
  BY DEF Start, TypeOK, Starts, Points

LEMMA LeaveTyped ==
  ASSUME TypeOK, NEW p \in Procs, Leave(p)
  PROVE  starter' \in [Procs -> Starts]
  BY DEF Leave, IdleStart, TypeOK, Starts, Points

LEMMA GotoTyped ==
  ASSUME TypeOK, NEW p \in Procs, NEW r \in Runs, NEW at \in Threads, Goto(p, r, at)
  PROVE  worker' \in [Procs -> [Runs -> Threads]]
  BY DEF Goto, TypeOK, Threads

-----------------------------------------------------------------------------
(* Types.                                                                  *)

LEMMA TypeInit == Init => TypeInv
  BY RunsAssumption, BoundsAssumption
  DEF Init, TypeInv, TypeOK, CallsKnowTheirRun, RunStates, IdleStart

\* The parts of the type that no call changes but its own.
LEMMA StarterTyped == TypeInv /\ [Next]_vars => starter' \in [Procs -> Starts] /\ CallsKnowTheirRun'
<1> SUFFICES ASSUME TypeInv, [Next]_vars PROVE starter' \in [Procs -> Starts] /\ CallsKnowTheirRun'
  OBVIOUS
<1> USE RunsAssumption DEF TypeInv, CallsKnowTheirRun
<1>1. ASSUME NEW p \in Procs, Leave(p) PROVE starter' \in [Procs -> Starts] /\ CallsKnowTheirRun'
  BY <1>1, LeaveTyped DEF TypeOK, Leave, IdleStart
<1>2. ASSUME NEW p \in Procs, NEW r \in Runs, NEW at \in Points \ {"recover"}, NEW todo \in SUBSET Exclusive,
             Start(p, r, at, todo)
      PROVE  starter' \in [Procs -> Starts] /\ CallsKnowTheirRun'
  BY <1>2, StartTyped DEF TypeOK, Start, Points
<1>3. ASSUME starter' = starter PROVE starter' \in [Procs -> Starts] /\ CallsKnowTheirRun'
  BY <1>3 DEF TypeOK, Starts, Points
<1>4. ASSUME NEW p \in Procs, NEW r \in Runs, AskStart(p, r) PROVE starter' \in [Procs -> Starts] /\ CallsKnowTheirRun'
  BY <1>4, <1>2 DEF AskStart, Points
<1>5. ASSUME NEW p \in Procs, NEW r \in Runs, StartExclusive(p, r)
      PROVE  starter' \in [Procs -> Starts] /\ CallsKnowTheirRun'
  BY <1>5, <1>2 DEF StartExclusive, Points
<1>6. ASSUME NEW p \in Procs, NEW x \in Runs, JudgeOrphan(p, x)
      PROVE  starter' \in [Procs -> Starts] /\ CallsKnowTheirRun'
  <2>1. x \in Exclusive /\ starter' = [starter EXCEPT ![p].pc = "recover", ![p].orphan = x]
    BY <1>6 DEF JudgeOrphan, TypeOK
  <2>2. starter' \in [Procs -> Starts]
    <3>1. starter \in [Procs -> Starts]
      BY DEF TypeOK, Starts, Points
    <3>2. [starter[p] EXCEPT !.pc = "recover", !.orphan = x] \in Starts
      BY <2>1, <3>1 DEF Starts, Points
    <3> QED
      BY <2>1, <3>1, <3>2
  <2>3. starter[p].run \in Runs
    BY <1>6 DEF JudgeOrphan
  <2> QED
    BY <2>1, <2>2, <2>3 DEF TypeOK
<1>7. ASSUME NEW p \in Procs, LookUp(p) PROVE starter' \in [Procs -> Starts] /\ CallsKnowTheirRun'
  <2>1. starter[p].run \in Runs
    BY <1>7 DEF LookUp
  <2> QED
    BY <1>7, <1>1, <1>2, <2>1 DEF LookUp, Points
<1>8. ASSUME NEW p \in Procs, RecoverOrphan(p) PROVE starter' \in [Procs -> Starts] /\ CallsKnowTheirRun'
  <2>1. starter[p].run \in Runs /\ starter[p].todo \ {starter[p].orphan} \in SUBSET Exclusive
    BY <1>8 DEF RecoverOrphan, TypeOK
  <2> QED
    BY <1>8, <1>1, <1>2, <2>1 DEF RecoverOrphan, Points
<1>9. ASSUME NEW p \in Procs, CreateRun(p) PROVE starter' \in [Procs -> Starts] /\ CallsKnowTheirRun'
  <2>1. starter[p].run \in Runs
    BY <1>9 DEF CreateRun
  <2> QED
    BY <1>9, <1>2, <2>1 DEF CreateRun, Points
<1>10. ASSUME NEW p \in Procs, Crash(p) PROVE starter' \in [Procs -> Starts] /\ CallsKnowTheirRun'
  BY <1>10, <1>1 DEF Crash, Leave
<1>11. ASSUME NEW p \in Procs, NEW r \in Runs, Work(p, r) \/ WriteFails(p, r) \/ TellWorker(p, r) \/ JudgeOwner(p, r)
       PROVE  starter' = starter
  BY <1>11 DEF Work, Begin, Succeed, EndCancelled, Raise, EndFailed, CleanUpFails, FailCleanUp, CleanUp, WriteFails, TellWorker, JudgeOwner, calls
<1>12. ASSUME NEW p \in Procs, CancelOrphan(p) \/ Shutdown(p) \/ ReportStopped(p) PROVE starter' = starter
  BY <1>12 DEF CancelOrphan, Shutdown, ReportStopped, calls
<1>13. ASSUME NEW p \in Procs, Focus(p) \/ Launch(p) \/ StartFails(p) PROVE Leave(p)
  BY <1>13 DEF Focus, Launch, StartFails
<1>14. CASE UNCHANGED vars
  BY <1>14, <1>3 DEF vars, calls
<1> QED
  BY <1>1, <1>3, <1>4, <1>5, <1>6, <1>7, <1>8, <1>9, <1>10, <1>11, <1>12, <1>13, <1>14 DEF Next

\* The state of a run moves by one transition of the table, or a run comes into being.
LEMMA StateMoves ==
  ASSUME TypeInv, [Next]_vars
  PROVE  /\ state' \in [Runs -> RunStates]
         /\ \A r \in Runs : Terminal(r) => state'[r] = state[r]
         /\ \A r \in Runs : state'[r] = "absent" => state[r] = "absent"
<1> USE DEF TypeInv
<1> DEFINE Goal == /\ state' \in [Runs -> RunStates]
                   /\ \A r \in Runs : Terminal(r) => state'[r] = state[r]
                   /\ \A r \in Runs : state'[r] = "absent" => state[r] = "absent"
<1>1. ASSUME NEW r \in Runs, NEW to \in {"running", "succeeded", "failed", "cancelled"}, NEW key, TryTransition(r, to, key)
      PROVE  Goal
  BY <1>1, TransitionKeeps
<1>2. ASSUME state' = state PROVE Goal
  BY <1>2 DEF TypeOK
<1>3. ASSUME NEW p \in Procs, NEW r \in Runs, Work(p, r) PROVE Goal
  BY <1>1, <1>2, <1>3 DEF Work, Begin, Succeed, EndCancelled, Raise, EndFailed, CleanUpFails, FailCleanUp, CleanUp, durable
<1>4. ASSUME NEW p \in Procs, RecoverOrphan(p) PROVE Goal
  <2>1. starter[p].orphan \in Runs
    BY <1>4, RunsAssumption DEF RecoverOrphan, CallsKnowTheirRun
  <2> QED
    BY <1>1, <1>4, <2>1 DEF RecoverOrphan
<1>5. ASSUME NEW p \in Procs, CancelOrphan(p) PROVE Goal
  <2>1. canceller[p] \in Runs
    BY <1>5 DEF CancelOrphan, TypeOK
  <2> QED
    BY <1>1, <1>5, <2>1 DEF CancelOrphan
<1>6. ASSUME NEW p \in Procs, CreateRun(p) PROVE Goal
  BY <1>6 DEF CreateRun, TypeOK, RunStates, Terminal
<1>7. ASSUME NEW p \in Procs, NEW r \in Runs,
             AskStart(p, r) \/ StartExclusive(p, r) \/ JudgeOrphan(p, r) \/ WriteFails(p, r)
             \/ TellWorker(p, r) \/ JudgeOwner(p, r)
      PROVE  state' = state
  BY <1>7 DEF AskStart, StartExclusive, JudgeOrphan, WriteFails, TellWorker, JudgeOwner, durable
<1>8. ASSUME NEW p \in Procs,
             LookUp(p) \/ Focus(p) \/ Launch(p) \/ StartFails(p) \/ Shutdown(p) \/ ReportStopped(p) \/ Crash(p)
      PROVE  state' = state
  BY <1>8 DEF LookUp, Focus, Launch, StartFails, Shutdown, ReportStopped, Crash, durable
<1>9. CASE UNCHANGED vars
  BY <1>2, <1>9 DEF vars, durable
<1> QED
  BY <1>2, <1>3, <1>4, <1>5, <1>6, <1>7, <1>8, <1>9 DEF Next

\* The threads: a thread starts with Launch, moves by its own steps and ends with its process.
LEMMA ThreadsTyped ==
  ASSUME TypeInv, [Next]_vars
  PROVE  worker' \in [Procs -> [Runs -> Threads]]
<1> USE DEF TypeInv
<1> DEFINE Goal == worker' \in [Procs -> [Runs -> Threads]]
<1>1. ASSUME NEW p \in Procs, NEW r \in Runs, NEW at \in Threads, Goto(p, r, at) PROVE Goal
  BY <1>1, GotoTyped
<1>2. ASSUME worker' = worker PROVE Goal
  BY <1>2 DEF TypeOK, Threads
<1>3. ASSUME NEW p \in Procs, NEW r \in Runs, Work(p, r) \/ WriteFails(p, r) PROVE Goal
  BY <1>1, <1>3 DEF Threads, Work, Begin, Succeed, EndCancelled, Raise, EndFailed, CleanUpFails, FailCleanUp, CleanUp, WriteFails
<1>4. ASSUME NEW p \in Procs, Launch(p) PROVE Goal
  BY <1>4 DEF Launch, TypeOK, Threads
<1>5. ASSUME NEW p \in Procs, Crash(p) PROVE Goal
  <2>1. [r \in Runs |-> "none"] \in [Runs -> Threads]
    BY DEF Threads
  <2> QED
    BY <1>5, <2>1 DEF Crash, TypeOK, Threads
<1>6. ASSUME NEW p \in Procs, NEW r \in Runs,
             AskStart(p, r) \/ StartExclusive(p, r) \/ JudgeOrphan(p, r) \/ TellWorker(p, r) \/ JudgeOwner(p, r)
      PROVE  worker' = worker
  BY <1>6 DEF AskStart, StartExclusive, JudgeOrphan, TellWorker, JudgeOwner, threads
<1>7. ASSUME NEW p \in Procs,
             LookUp(p) \/ Focus(p) \/ RecoverOrphan(p) \/ CreateRun(p) \/ StartFails(p) \/ CancelOrphan(p)
             \/ Shutdown(p) \/ ReportStopped(p)
      PROVE  worker' = worker
  BY <1>7 DEF LookUp, Focus, RecoverOrphan, CreateRun, StartFails, CancelOrphan, Shutdown, ReportStopped, threads
<1>8. CASE UNCHANGED vars
  BY <1>2, <1>8 DEF vars, threads
<1> QED
  BY <1>2, <1>3, <1>4, <1>5, <1>6, <1>7, <1>8 DEF Next

\* The owner is written by Launch only.
LEMMA OwnerMoves ==
  ASSUME TypeInv, [Next]_vars
  PROVE  \/ owner' = owner
         \/ \E p \in Procs : Launch(p)
<1> USE DEF TypeInv
<1>1. ASSUME NEW r \in Runs, NEW to, NEW key, TryTransition(r, to, key) PROVE owner' = owner
  BY <1>1 DEF TryTransition, Transition, durable
<1>2. ASSUME NEW p \in Procs, NEW r \in Runs, Work(p, r) PROVE owner' = owner
  BY <1>1, <1>2 DEF Work, Begin, Succeed, EndCancelled, Raise, EndFailed, CleanUpFails, FailCleanUp, CleanUp, durable
<1>3. ASSUME NEW p \in Procs, RecoverOrphan(p) PROVE owner' = owner
  BY <1>3, RunsAssumption, <1>1 DEF RecoverOrphan, CallsKnowTheirRun
<1>4. ASSUME NEW p \in Procs, CancelOrphan(p) PROVE owner' = owner
  BY <1>4, <1>1 DEF CancelOrphan, TypeOK
<1>5. ASSUME NEW p \in Procs, NEW r \in Runs,
             AskStart(p, r) \/ StartExclusive(p, r) \/ JudgeOrphan(p, r) \/ WriteFails(p, r)
             \/ TellWorker(p, r) \/ JudgeOwner(p, r)
      PROVE  owner' = owner
  BY <1>5 DEF AskStart, StartExclusive, JudgeOrphan, WriteFails, TellWorker, JudgeOwner, durable
<1>6. ASSUME NEW p \in Procs,
             LookUp(p) \/ Focus(p) \/ CreateRun(p) \/ StartFails(p) \/ Shutdown(p) \/ ReportStopped(p) \/ Crash(p)
      PROVE  owner' = owner
  BY <1>6 DEF LookUp, Focus, CreateRun, StartFails, Shutdown, ReportStopped, Crash, durable
<1> QED
  BY <1>2, <1>3, <1>4, <1>5, <1>6 DEF Next, vars, durable

\* The histories, the flags and the calls of cancel.
LEMMA RestTyped ==
  ASSUME TypeInv, [Next]_vars
  PROVE  /\ owner' \in [Runs -> Procs \cup {Nobody}]
         /\ alive' \subseteq Procs /\ closed' \subseteq Procs /\ stopped' \subseteq Procs
         /\ canceller' \in [Procs -> Runs \cup {NoRun}]
         /\ cancelled' \in [Procs -> SUBSET Runs]
         /\ executed' \in [Procs -> [Runs -> 0..2]]
         /\ unowned' \subseteq Runs /\ refused' \subseteq Runs /\ faults' \in 0..MaxFaults
<1> USE DEF TypeInv
<1>1. owner' \in [Runs -> Procs \cup {Nobody}]
  <2>1. ASSUME NEW p \in Procs, Launch(p) PROVE owner' \in [Runs -> Procs \cup {Nobody}]
    <3>1. owner' = [owner EXCEPT ![starter[p].run] = p]
      BY <2>1 DEF Launch
    <3> QED
      BY <3>1 DEF TypeOK
  <2> QED
    BY <2>1, OwnerMoves DEF TypeOK
<1>2. alive' \subseteq Procs /\ closed' \subseteq Procs /\ stopped' \subseteq Procs
  <2>1. ASSUME NEW p \in Procs, Shutdown(p) PROVE alive' \subseteq Procs /\ closed' \subseteq Procs /\ stopped' \subseteq Procs
    BY <2>1 DEF Shutdown, TypeOK, history
  <2>2. ASSUME NEW p \in Procs, ReportStopped(p) PROVE alive' \subseteq Procs /\ closed' \subseteq Procs /\ stopped' \subseteq Procs
    BY <2>2 DEF ReportStopped, TypeOK
  <2>3. ASSUME NEW p \in Procs, Crash(p) PROVE alive' \subseteq Procs /\ closed' \subseteq Procs /\ stopped' \subseteq Procs
    BY <2>3 DEF Crash, TypeOK
  <2>4. ASSUME NEW p \in Procs, NEW r \in Runs,
               AskStart(p, r) \/ StartExclusive(p, r) \/ JudgeOrphan(p, r) \/ Work(p, r) \/ WriteFails(p, r) \/ TellWorker(p, r) \/ JudgeOwner(p, r)
        PROVE  UNCHANGED <<alive, closed, stopped>>
    BY <2>4 DEF AskStart, StartExclusive, JudgeOrphan, Work, WriteFails, TellWorker, JudgeOwner, Begin, Succeed, EndCancelled, Raise, EndFailed, CleanUpFails, FailCleanUp, CleanUp, history
  <2>5. ASSUME NEW p \in Procs,
               LookUp(p) \/ Focus(p) \/ RecoverOrphan(p) \/ CreateRun(p) \/ Launch(p) \/ StartFails(p) \/ CancelOrphan(p)
        PROVE  UNCHANGED <<alive, closed, stopped>>
    BY <2>5 DEF LookUp, Focus, RecoverOrphan, CreateRun, Launch, StartFails, CancelOrphan, history
  <2>6. ASSUME UNCHANGED <<alive, closed, stopped>> PROVE alive' \subseteq Procs /\ closed' \subseteq Procs /\ stopped' \subseteq Procs
    BY <2>6 DEF TypeOK
  <2> QED
    BY <2>1, <2>2, <2>3, <2>4, <2>5, <2>6 DEF Next, vars, history
<1>3. canceller' \in [Procs -> Runs \cup {NoRun}]
  <2>1. ASSUME NEW p \in Procs, NEW r \in Runs, JudgeOwner(p, r) PROVE canceller' \in [Procs -> Runs \cup {NoRun}]
    BY <2>1 DEF JudgeOwner, TypeOK
  <2>2. ASSUME NEW p \in Procs, CancelOrphan(p) PROVE canceller' \in [Procs -> Runs \cup {NoRun}]
    BY <2>2 DEF CancelOrphan, TypeOK
  <2>3. ASSUME NEW p \in Procs, Crash(p) PROVE canceller' \in [Procs -> Runs \cup {NoRun}]
    BY <2>3 DEF Crash, TypeOK
  <2>4. ASSUME NEW p \in Procs, NEW r \in Runs,
               AskStart(p, r) \/ StartExclusive(p, r) \/ JudgeOrphan(p, r) \/ Work(p, r) \/ WriteFails(p, r) \/ TellWorker(p, r)
        PROVE  UNCHANGED canceller
    BY <2>4 DEF AskStart, StartExclusive, JudgeOrphan, Work, WriteFails, TellWorker, Begin, Succeed, EndCancelled, Raise, EndFailed, CleanUpFails, FailCleanUp, CleanUp, calls
  <2>5. ASSUME NEW p \in Procs,
               LookUp(p) \/ Focus(p) \/ RecoverOrphan(p) \/ CreateRun(p) \/ Launch(p) \/ StartFails(p) \/ Shutdown(p) \/ ReportStopped(p)
        PROVE  UNCHANGED canceller
    BY <2>5 DEF LookUp, Focus, RecoverOrphan, CreateRun, Launch, StartFails, Shutdown, ReportStopped, calls
  <2>6. ASSUME UNCHANGED canceller PROVE canceller' \in [Procs -> Runs \cup {NoRun}]
    BY <2>6 DEF TypeOK
  <2> QED
    BY <2>1, <2>2, <2>3, <2>4, <2>5, <2>6 DEF Next, vars, calls
<1>4. cancelled' \in [Procs -> SUBSET Runs]
  <2>1. ASSUME NEW p \in Procs, NEW r \in Runs, TellWorker(p, r) PROVE cancelled' \in [Procs -> SUBSET Runs]
    BY <2>1 DEF TellWorker, TypeOK
  <2>2. ASSUME NEW p \in Procs, NEW x, cancelled' = [cancelled EXCEPT ![p] = @ \ {x}]
        PROVE  cancelled' \in [Procs -> SUBSET Runs]
    BY <2>2 DEF TypeOK
  <2>8. ASSUME NEW p \in Procs, NEW r \in Runs, CleanUp(p, r) PROVE cancelled' \in [Procs -> SUBSET Runs]
    BY <2>2, <2>8 DEF CleanUp
  <2>9. ASSUME NEW p \in Procs, Launch(p) PROVE cancelled' \in [Procs -> SUBSET Runs]
    BY <2>2, <2>9 DEF Launch
  <2>3. ASSUME NEW p \in Procs, Shutdown(p) PROVE cancelled' \in [Procs -> SUBSET Runs]
    BY <2>3 DEF Shutdown, Owned, TypeOK
  <2>4. ASSUME NEW p \in Procs, Crash(p) PROVE cancelled' \in [Procs -> SUBSET Runs]
    BY <2>4 DEF Crash, TypeOK
  <2>5. ASSUME NEW p \in Procs, NEW r \in Runs,
               AskStart(p, r) \/ StartExclusive(p, r) \/ JudgeOrphan(p, r) \/ WriteFails(p, r) \/ JudgeOwner(p, r) \/ Begin(p, r) \/ Succeed(p, r) \/ EndCancelled(p, r) \/ Raise(p, r) \/ EndFailed(p, r)
               \/ CleanUpFails(p, r) \/ FailCleanUp(p, r)
        PROVE  UNCHANGED cancelled
    BY <2>5 DEF AskStart, StartExclusive, JudgeOrphan, WriteFails, JudgeOwner, Begin, Succeed, EndCancelled, Raise, EndFailed, CleanUpFails,
            FailCleanUp, threads
  <2>6. ASSUME NEW p \in Procs,
               LookUp(p) \/ Focus(p) \/ RecoverOrphan(p) \/ CreateRun(p) \/ StartFails(p) \/ CancelOrphan(p) \/ ReportStopped(p)
        PROVE  UNCHANGED cancelled
    BY <2>6 DEF LookUp, Focus, RecoverOrphan, CreateRun, StartFails, CancelOrphan, ReportStopped, threads
  <2>7. ASSUME UNCHANGED cancelled PROVE cancelled' \in [Procs -> SUBSET Runs]
    BY <2>7 DEF TypeOK
  <2> QED
    BY <2>1, <2>2, <2>3, <2>4, <2>5, <2>6, <2>7, <2>8, <2>9 DEF Next, vars, Work, threads
<1>5. executed' \in [Procs -> [Runs -> 0..2]]
  <2>1. ASSUME NEW p \in Procs, NEW r \in Runs, Begin(p, r) PROVE executed' \in [Procs -> [Runs -> 0..2]]
    <3>1. executed \in [Procs -> [Runs -> 0..2]]
      BY DEF TypeOK
    <3>2. (IF executed[p][r] < 2 THEN executed[p][r] + 1 ELSE executed[p][r]) \in 0..2
      BY <3>1
    <3>3. CASE executed' = [executed EXCEPT ![p][r] = IF @ < 2 THEN @ + 1 ELSE @]
      BY <3>1, <3>2, <3>3
    <3>4. CASE executed' = executed
      BY <3>1, <3>4
    <3> QED
      BY <2>1, <3>3, <3>4 DEF Begin
  <2>2. ASSUME NEW p \in Procs, Crash(p) PROVE executed' \in [Procs -> [Runs -> 0..2]]
    <3>1. [r \in Runs |-> 0] \in [Runs -> 0..2]
      OBVIOUS
    <3> QED
      BY <2>2, <3>1 DEF Crash, TypeOK
  <2>3. ASSUME NEW p \in Procs, NEW r \in Runs,
               AskStart(p, r) \/ StartExclusive(p, r) \/ JudgeOrphan(p, r) \/ WriteFails(p, r) \/ TellWorker(p, r) \/ JudgeOwner(p, r) \/ Succeed(p, r) \/ EndCancelled(p, r) \/ Raise(p, r) \/ EndFailed(p, r) \/ CleanUpFails(p, r) \/ FailCleanUp(p, r) \/ CleanUp(p, r)
        PROVE  UNCHANGED executed
    BY <2>3 DEF AskStart, StartExclusive, JudgeOrphan, WriteFails, TellWorker, JudgeOwner, Succeed, EndCancelled, Raise, EndFailed, CleanUpFails, FailCleanUp, CleanUp, history
  <2>4. ASSUME NEW p \in Procs,
               LookUp(p) \/ Focus(p) \/ RecoverOrphan(p) \/ CreateRun(p) \/ Launch(p) \/ StartFails(p) \/ CancelOrphan(p) \/ Shutdown(p) \/ ReportStopped(p)
        PROVE  UNCHANGED executed
    BY <2>4 DEF LookUp, Focus, RecoverOrphan, CreateRun, Launch, StartFails, CancelOrphan, Shutdown, ReportStopped, history
  <2>5. ASSUME UNCHANGED executed PROVE executed' \in [Procs -> [Runs -> 0..2]]
    BY <2>5 DEF TypeOK
  <2> QED
    BY <2>1, <2>2, <2>3, <2>4, <2>5 DEF Next, vars, Work, history
<1>6. unowned' \subseteq Runs
  <2>1. ASSUME NEW p \in Procs, NEW r \in Runs, JudgeOrphan(p, r) PROVE unowned' \subseteq Runs
    BY <2>1 DEF JudgeOrphan, TypeOK
  <2>2. ASSUME NEW p \in Procs, NEW r \in Runs, JudgeOwner(p, r) PROVE unowned' \subseteq Runs
    BY <2>2 DEF JudgeOwner, TypeOK
  <2>3. ASSUME NEW p \in Procs, NEW r \in Runs,
               AskStart(p, r) \/ StartExclusive(p, r) \/ Work(p, r) \/ WriteFails(p, r) \/ TellWorker(p, r)
        PROVE  UNCHANGED unowned
    BY <2>3 DEF AskStart, StartExclusive, Work, WriteFails, TellWorker, Begin, Succeed, EndCancelled, Raise, EndFailed, CleanUpFails, FailCleanUp, CleanUp, history
  <2>4. ASSUME NEW p \in Procs,
               LookUp(p) \/ Focus(p) \/ RecoverOrphan(p) \/ CreateRun(p) \/ Launch(p) \/ StartFails(p) \/ CancelOrphan(p) \/ Shutdown(p) \/ ReportStopped(p) \/ Crash(p)
        PROVE  UNCHANGED unowned
    BY <2>4 DEF LookUp, Focus, RecoverOrphan, CreateRun, Launch, StartFails, CancelOrphan, Shutdown, ReportStopped, Crash, history
  <2>5. ASSUME UNCHANGED unowned PROVE unowned' \subseteq Runs
    BY <2>5 DEF TypeOK
  <2> QED
    BY <2>1, <2>2, <2>3, <2>4, <2>5 DEF Next, vars, history
<1>7. refused' \subseteq Runs /\ faults' \in 0..MaxFaults
  <2>1. ASSUME NEW p \in Procs, NEW r \in Runs, WriteFails(p, r) PROVE refused' \subseteq Runs /\ faults' \in 0..MaxFaults
    BY <2>1, BoundsAssumption DEF WriteFails, TypeOK
  <2>2. ASSUME NEW p \in Procs, StartFails(p) PROVE refused' \subseteq Runs /\ faults' \in 0..MaxFaults
    <3>1. starter[p].run \in Runs
      BY <2>2 DEF StartFails, CallsKnowTheirRun
    <3> QED
      BY <2>2, <3>1, BoundsAssumption DEF StartFails, TypeOK
  <2>3. ASSUME NEW p \in Procs, NEW r \in Runs,
               AskStart(p, r) \/ StartExclusive(p, r) \/ JudgeOrphan(p, r) \/ Work(p, r) \/ TellWorker(p, r) \/ JudgeOwner(p, r)
        PROVE  UNCHANGED <<refused, faults>>
    BY <2>3 DEF AskStart, StartExclusive, JudgeOrphan, Work, TellWorker, JudgeOwner, Begin, Succeed, EndCancelled, Raise, EndFailed, CleanUpFails, FailCleanUp, CleanUp, errors
  <2>4. ASSUME NEW p \in Procs,
               LookUp(p) \/ Focus(p) \/ RecoverOrphan(p) \/ CreateRun(p) \/ Launch(p) \/ CancelOrphan(p) \/ Shutdown(p) \/ ReportStopped(p) \/ Crash(p)
        PROVE  UNCHANGED <<refused, faults>>
    BY <2>4 DEF LookUp, Focus, RecoverOrphan, CreateRun, Launch, CancelOrphan, Shutdown, ReportStopped, Crash, errors
  <2>5. ASSUME UNCHANGED <<refused, faults>> PROVE refused' \subseteq Runs /\ faults' \in 0..MaxFaults
    BY <2>5 DEF TypeOK
  <2> QED
    BY <2>1, <2>2, <2>3, <2>4, <2>5 DEF Next, vars, errors
<1> QED
  BY <1>1, <1>2, <1>3, <1>4, <1>5, <1>6, <1>7

LEMMA TypeStep == TypeInv /\ [Next]_vars => TypeInv'
  BY StarterTyped, StateMoves, ThreadsTyped, RestTyped DEF TypeInv, TypeOK, Starts, Points, Threads

LEMMA TypeInductive == Spec => []TypeInv
  BY TypeInit, TypeStep, PTL DEF Spec

\* The type invariant.
THEOREM TypeCorrect == Spec => []TypeOK
  BY TypeInductive, PTL DEF TypeInv

\* A run that has ended keeps its outcome.
THEOREM OutcomesStay == Spec => OutcomesAreFinal
<1>1. TypeInv /\ [Next]_vars => [\A r \in Runs : Terminal(r) => state'[r] = state[r]]_vars
  BY StateMoves
<1> QED
  BY <1>1, TypeInductive, PTL DEF Spec, OutcomesAreFinal
-----------------------------------------------------------------------------
(* Who moves what.                                                         *)

Launched(p, r) == Launch(p) /\ starter[p].run = r

Cancels(p, r) == \/ RecoverOrphan(p) /\ starter[p].orphan = r
                 \/ CancelOrphan(p) /\ canceller[p] = r

\* A thread comes into being with Launch, and enters its body with Begin.
LEMMA ThreadMoves ==
  ASSUME TypeInv, [Next]_vars, NEW p \in Procs, NEW r \in Runs
  PROVE  /\ worker'[p][r] # "none" => worker[p][r] # "none" \/ Launched(p, r)
         /\ r \in Live(p)' => r \in Live(p) \/ Launched(p, r)
         /\ worker'[p][r] = "begin" => worker[p][r] = "begin" \/ Launched(p, r)
         /\ worker'[p][r] = "body" => worker[p][r] = "body" \/ Begin(p, r)
<1> DEFINE Goal == /\ worker'[p][r] # "none" => worker[p][r] # "none" \/ Launched(p, r)
                   /\ r \in Live(p)' => r \in Live(p) \/ Launched(p, r)
                   /\ worker'[p][r] = "begin" => worker[p][r] = "begin" \/ Launched(p, r)
                   /\ worker'[p][r] = "body" => worker[p][r] = "body" \/ Begin(p, r)
<1>1. worker \in [Procs -> [Runs -> Threads]]
  BY DEF TypeInv, TypeOK, Threads
<1>2. ASSUME NEW q \in Procs, NEW s \in Runs, NEW at \in Threads, Goto(q, s, at),
             s \in Live(q), at # "begin", at = "body" => Begin(q, s)
      PROVE  Goal
  BY <1>1, <1>2 DEF Goto, Live
<1>3. ASSUME NEW q \in Procs, NEW s \in Runs, Begin(q, s) PROVE Goal
  BY <1>2, <1>3 DEF Begin, Threads, Live
<1>4. ASSUME NEW q \in Procs, NEW s \in Runs,
             Succeed(q, s) \/ EndCancelled(q, s) \/ Raise(q, s) \/ EndFailed(q, s)
             \/ CleanUpFails(q, s) \/ FailCleanUp(q, s) \/ WriteFails(q, s)
      PROVE  Goal
  BY <1>2, <1>4 DEF Succeed, EndCancelled, Raise, EndFailed, CleanUpFails, FailCleanUp, WriteFails, Threads, Live
<1>5. ASSUME NEW q \in Procs, NEW s \in Runs, CleanUp(q, s) PROVE Goal
  BY <1>2, <1>5 DEF CleanUp, Threads, Live
<1>6. ASSUME NEW q \in Procs, Launch(q) PROVE Goal
  BY <1>1, <1>6 DEF Launch, Launched, TypeInv, CallsKnowTheirRun, Live
<1>7. ASSUME NEW q \in Procs, Crash(q) PROVE Goal
  BY <1>1, <1>7 DEF Crash, Live
<1>8. ASSUME NEW q \in Procs, NEW s \in Runs,
             AskStart(q, s) \/ StartExclusive(q, s) \/ JudgeOrphan(q, s) \/ TellWorker(q, s) \/ JudgeOwner(q, s)
      PROVE  worker' = worker
  BY <1>8 DEF AskStart, StartExclusive, JudgeOrphan, TellWorker, JudgeOwner, threads
<1>9. ASSUME NEW q \in Procs,
             LookUp(q) \/ Focus(q) \/ RecoverOrphan(q) \/ CreateRun(q) \/ StartFails(q) \/ CancelOrphan(q)
             \/ Shutdown(q) \/ ReportStopped(q)
      PROVE  worker' = worker
  BY <1>9 DEF LookUp, Focus, RecoverOrphan, CreateRun, StartFails, CancelOrphan, Shutdown, ReportStopped, threads
<1> QED
  BY <1>3, <1>4, <1>5, <1>6, <1>7, <1>8, <1>9 DEF Next, Work, vars, threads, Live

\* The state of a run is moved by its threads, by the cancellation of an orphan and
\* by its creation; it is answered as running to its thread alone.
LEMMA RunMoves ==
  ASSUME TypeInv, [Next]_vars, NEW r \in Runs
  PROVE  /\ \/ state'[r] = state[r]
            \/ \E p \in Procs : Work(p, r) /\ worker[p][r] # "none"
            \/ \E p \in Procs : Cancels(p, r) /\ state[r] # "absent"
            \/ \E p \in Procs : CreateRun(p) /\ starter[p].run = r /\ state[r] = "absent"
         /\ <<r, "running">> \in answered' => <<r, "running">> \in answered \/ \E p \in Procs : Begin(p, r)
<1> DEFINE Goal == /\ \/ state'[r] = state[r]
                      \/ \E p \in Procs : Work(p, r) /\ worker[p][r] # "none"
                      \/ \E p \in Procs : Cancels(p, r) /\ state[r] # "absent"
                      \/ \E p \in Procs : CreateRun(p) /\ starter[p].run = r /\ state[r] = "absent"
                   /\ <<r, "running">> \in answered' =>
                        <<r, "running">> \in answered \/ \E p \in Procs : Begin(p, r)
<1>1. ASSUME NEW s \in Runs, NEW to \in {"running", "succeeded", "failed", "cancelled"}, NEW key,
             TryTransition(s, to, key)
      PROVE  /\ s # r => state'[r] = state[r]
             /\ state[r] = "absent" => state'[r] = state[r]
             /\ <<r, "running">> \in answered' => <<r, "running">> \in answered \/ (s = r /\ key = "running")
  <2>1. s # r => state'[r] = state[r]
    BY <1>1, TransitionKeeps DEF TypeInv
  <2>2. state[r] = "absent" => state'[r] = state[r]
    BY <1>1 DEF TryTransition, Accepts, Transition, RunTransitions, durable, TypeInv, TypeOK
  <2>3. <<r, "running">> \in answered' => <<r, "running">> \in answered \/ (s = r /\ key = "running")
    BY <1>1 DEF TryTransition, Transition, durable
  <2> QED
    BY <2>1, <2>2, <2>3
<1>2. ASSUME state' = state, answered' = answered PROVE Goal
  BY <1>2
<1>3. ASSUME NEW p \in Procs, NEW s \in Runs, Begin(p, s) PROVE Goal
  <2>1. worker[p][s] # "none"
    BY <1>3 DEF Begin
  <2>2. \E to \in {"running", "succeeded", "failed", "cancelled"}, key \in {"running", "cancel-before-start"} :
           TryTransition(s, to, key)
    BY <1>3 DEF Begin
  <2> QED
    BY <1>1, <1>3, <2>1, <2>2 DEF Work
<1>4. ASSUME NEW p \in Procs, NEW s \in Runs,
             Succeed(p, s) \/ EndCancelled(p, s) \/ Raise(p, s) \/ EndFailed(p, s) \/ CleanUpFails(p, s) \/ FailCleanUp(p, s) \/ CleanUp(p, s)
      PROVE  Goal
  <2>1. worker[p][s] # "none" /\ Work(p, s)
    BY <1>4 DEF Succeed, EndCancelled, Raise, EndFailed, CleanUpFails, FailCleanUp, CleanUp, Work
  <2>2. \/ UNCHANGED durable
        \/ \E to \in {"running", "succeeded", "failed", "cancelled"},
              key \in {"succeeded", "cancelled", "failed", "cleanup-failed"} : TryTransition(s, to, key)
    BY <1>4 DEF Succeed, EndCancelled, Raise, EndFailed, CleanUpFails, FailCleanUp, CleanUp
  <2> QED
    BY <1>1, <1>2, <2>1, <2>2 DEF durable
<1>5. ASSUME NEW p \in Procs, RecoverOrphan(p) PROVE Goal
  <2>1. starter[p].orphan \in Runs
    BY <1>5, RunsAssumption DEF RecoverOrphan, TypeInv, CallsKnowTheirRun
  <2>2. TryTransition(starter[p].orphan, "cancelled", "orphan-recovered")
    BY <1>5 DEF RecoverOrphan
  <2> QED
    BY <1>1, <1>5, <2>1, <2>2 DEF Cancels
<1>6. ASSUME NEW p \in Procs, CancelOrphan(p) PROVE Goal
  <2>1. canceller[p] \in Runs
    BY <1>6 DEF CancelOrphan, TypeInv, TypeOK
  <2>2. TryTransition(canceller[p], "cancelled", "cancel-recovered")
    BY <1>6 DEF CancelOrphan
  <2> QED
    BY <1>1, <1>6, <2>1, <2>2 DEF Cancels
<1>7. ASSUME NEW p \in Procs, CreateRun(p) PROVE Goal
  BY <1>7 DEF CreateRun, TypeInv, TypeOK
<1>8. ASSUME NEW p \in Procs, NEW s \in Runs,
             AskStart(p, s) \/ StartExclusive(p, s) \/ JudgeOrphan(p, s) \/ WriteFails(p, s)
             \/ TellWorker(p, s) \/ JudgeOwner(p, s)
      PROVE  state' = state /\ answered' = answered
  BY <1>8 DEF AskStart, StartExclusive, JudgeOrphan, WriteFails, TellWorker, JudgeOwner, durable
<1>9. ASSUME NEW p \in Procs,
             LookUp(p) \/ Focus(p) \/ Launch(p) \/ StartFails(p) \/ Shutdown(p) \/ ReportStopped(p) \/ Crash(p)
      PROVE  state' = state /\ answered' = answered
  BY <1>9 DEF LookUp, Focus, Launch, StartFails, Shutdown, ReportStopped, Crash, durable
<1> QED
  BY <1>2, <1>3, <1>4, <1>5, <1>6, <1>7, <1>8, <1>9 DEF Next, Work, vars, durable

\* A start goes on by the steps of its own process.
StartSteps(p) ==
    \/ \E r \in Runs : AskStart(p, r) \/ StartExclusive(p, r) \/ JudgeOrphan(p, r)
    \/ LookUp(p) \/ RecoverOrphan(p) \/ CreateRun(p)

LEMMA StartMoves ==
  ASSUME TypeInv, [Next]_vars, NEW p \in Procs
  PROVE  starter'[p] = starter[p] \/ starter'[p] = IdleStart \/ StartSteps(p)
<1>1. starter \in [Procs -> Starts]
  BY DEF TypeInv, TypeOK, Starts, Points
<1>2. ASSUME NEW q \in Procs, NEW s, NEW at, NEW todo, Start(q, s, at, todo) PROVE q # p => starter'[p] = starter[p]
  BY <1>1, <1>2 DEF Start
<1>3. ASSUME NEW q \in Procs, Leave(q) PROVE IF q = p THEN starter'[p] = IdleStart ELSE starter'[p] = starter[p]
  BY <1>1, <1>3 DEF Leave
<1>4. ASSUME NEW q \in Procs, NEW s \in Runs, AskStart(q, s) \/ StartExclusive(q, s)
      PROVE  q # p => starter'[p] = starter[p]
  BY <1>2, <1>4 DEF AskStart, StartExclusive
<1>5. ASSUME NEW q \in Procs, NEW s \in Runs, JudgeOrphan(q, s) PROVE q # p => starter'[p] = starter[p]
  BY <1>1, <1>5 DEF JudgeOrphan
<1>6. ASSUME NEW q \in Procs, LookUp(q) \/ RecoverOrphan(q) \/ CreateRun(q) PROVE q # p => starter'[p] = starter[p]
  BY <1>2, <1>3, <1>6 DEF LookUp, RecoverOrphan, CreateRun
<1>7. ASSUME NEW q \in Procs, Focus(q) \/ Launch(q) \/ StartFails(q) \/ Crash(q) PROVE Leave(q)
  BY <1>7 DEF Focus, Launch, StartFails, Crash, Leave
<1>8. ASSUME NEW q \in Procs, NEW s \in Runs, Work(q, s) \/ WriteFails(q, s) \/ TellWorker(q, s) \/ JudgeOwner(q, s)
      PROVE  starter' = starter
  BY <1>8 DEF Work, Begin, Succeed, EndCancelled, Raise, EndFailed, CleanUpFails, FailCleanUp, CleanUp, WriteFails, TellWorker, JudgeOwner, calls
<1>9. ASSUME NEW q \in Procs, CancelOrphan(q) \/ Shutdown(q) \/ ReportStopped(q) PROVE starter' = starter
  BY <1>9 DEF CancelOrphan, Shutdown, ReportStopped, calls
<1> QED
  BY <1>3, <1>4, <1>5, <1>6, <1>7, <1>8, <1>9 DEF Next, StartSteps, vars, calls

-----------------------------------------------------------------------------
(* A start and a shutdown of one process.                                  *)

\* A start of the exclusive operation goes through scan and recover, any other through
\* waiting and create; a call ends with its process.
StartsKeepToTheirPath ==
    \A p \in Procs :
        /\ starter[p].pc \in {"waiting", "create"} => starter[p].run \notin Exclusive
        /\ starter[p].pc \in {"scan", "recover"} => starter[p].run \in Exclusive
        /\ starter[p].pc = "idle" => starter[p].run = NoRun
        /\ starter[p].pc # "idle" => p \in alive
        /\ starter[p].pc = "record" => state[starter[p].run] # "absent"

LEMMA PathStep ==
  ASSUME TypeInv, StartsKeepToTheirPath, [Next]_vars
  PROVE  StartsKeepToTheirPath'
<1> SUFFICES ASSUME NEW p \in Procs
             PROVE  /\ starter'[p].pc \in {"waiting", "create"} => starter'[p].run \notin Exclusive
                    /\ starter'[p].pc \in {"scan", "recover"} => starter'[p].run \in Exclusive
                    /\ starter'[p].pc = "idle" => starter'[p].run = NoRun
                    /\ starter'[p].pc # "idle" => p \in alive'
                    /\ starter'[p].pc = "record" => state'[starter'[p].run] # "absent"
  BY DEF StartsKeepToTheirPath
<1> DEFINE Goal == /\ starter'[p].pc \in {"waiting", "create"} => starter'[p].run \notin Exclusive
                   /\ starter'[p].pc \in {"scan", "recover"} => starter'[p].run \in Exclusive
                   /\ starter'[p].pc = "idle" => starter'[p].run = NoRun
                   /\ starter'[p].pc # "idle" => p \in alive'
                   /\ starter'[p].pc = "record" => state'[starter'[p].run] # "absent"
<1>1. starter \in [Procs -> Starts] /\ (starter[p].pc # "idle" => starter[p].run \in Runs)
  BY DEF TypeInv, TypeOK, CallsKnowTheirRun, Starts, Points
<1>2. CASE starter'[p] = IdleStart
  BY <1>2 DEF IdleStart
<1>3. CASE starter'[p] = starter[p] /\ starter[p].pc # "idle"
  <2>1. \/ alive' = alive
        \/ alive' = alive \ {p} /\ starter'[p] = IdleStart
        \/ \E q \in Procs \ {p} : alive' = alive \ {q}
    <3>1. ASSUME NEW q \in Procs, Crash(q) PROVE alive' = alive \ {q} /\ (q = p => starter'[p] = IdleStart)
      BY <1>1, <3>1 DEF Crash
    <3>2. ASSUME NEW q \in Procs, NEW r \in Runs,
                 AskStart(q, r) \/ StartExclusive(q, r) \/ JudgeOrphan(q, r) \/ Work(q, r) \/ WriteFails(q, r)
                 \/ TellWorker(q, r) \/ JudgeOwner(q, r)
          PROVE  alive' = alive
      BY <3>2 DEF AskStart, StartExclusive, JudgeOrphan, Work, Begin, Succeed, EndCancelled, Raise, EndFailed, CleanUpFails, FailCleanUp, CleanUp,
                  WriteFails, TellWorker, JudgeOwner
    <3>3. ASSUME NEW q \in Procs,
                 LookUp(q) \/ Focus(q) \/ RecoverOrphan(q) \/ CreateRun(q) \/ Launch(q) \/ StartFails(q)
                 \/ CancelOrphan(q) \/ Shutdown(q) \/ ReportStopped(q)
          PROVE  alive' = alive
      BY <3>3 DEF LookUp, Focus, RecoverOrphan, CreateRun, Launch, StartFails, CancelOrphan, Shutdown, ReportStopped
    <3>4. CASE UNCHANGED vars
      BY <3>4 DEF vars
    <3> QED
      BY <3>1, <3>2, <3>3, <3>4 DEF Next
  <2> QED
    BY <1>1, <1>3, <2>1, StateMoves DEF StartsKeepToTheirPath, IdleStart
<1>4. CASE starter'[p] = starter[p] /\ starter[p].pc = "idle"
  BY <1>4 DEF StartsKeepToTheirPath
<1>5. ASSUME NEW r \in Runs, AskStart(p, r) PROVE Goal
  BY <1>1, <1>5 DEF AskStart, Start
<1>6. ASSUME NEW r \in Runs, StartExclusive(p, r) PROVE Goal
  BY <1>1, <1>6 DEF StartExclusive, Start
<1>7. ASSUME NEW r \in Runs, JudgeOrphan(p, r) PROVE Goal
  BY <1>1, <1>7 DEF JudgeOrphan, StartsKeepToTheirPath, Starts
<1>8. CASE LookUp(p)
  BY <1>1, <1>2, <1>8 DEF LookUp, Start, Leave, StartsKeepToTheirPath
<1>9. CASE RecoverOrphan(p)
  BY <1>1, <1>2, <1>9 DEF RecoverOrphan, Start, Leave, StartsKeepToTheirPath
<1>10. CASE CreateRun(p)
  BY <1>1, <1>10 DEF CreateRun, Start, StartsKeepToTheirPath, TypeInv, TypeOK
<1> QED
  BY <1>2, <1>3, <1>4, <1>5, <1>6, <1>7, <1>8, <1>9, <1>10, StartMoves DEF StartSteps

\* What has been stopped holds no exclusive thread and starts none.
StoppedAreQuiet ==
    \A p \in stopped :
        /\ p \in closed
        /\ \A r \in Exclusive : r \notin Live(p)
        /\ Locked(p) => starter[p].run \notin Exclusive

\* A process is stopped by its report, and reopened by nothing but its end.
LEMMA StopMoves ==
  ASSUME TypeInv, [Next]_vars, NEW p \in stopped'
  PROVE  /\ p \in Procs
         /\ (p \in stopped /\ (p \in closed => p \in closed')) \/ ReportStopped(p)
<1>1. ASSUME NEW q \in Procs, ReportStopped(q) PROVE (p \in stopped /\ closed' = closed) \/ p = q
  BY <1>1 DEF ReportStopped
<1>2. ASSUME NEW q \in Procs, Crash(q) PROVE p \in stopped /\ (p \in closed => p \in closed')
  BY <1>2 DEF Crash
<1>3. ASSUME NEW q \in Procs, Shutdown(q) PROVE p \in stopped /\ (p \in closed => p \in closed')
  BY <1>3 DEF Shutdown, history
<1>4. ASSUME NEW q \in Procs, NEW r \in Runs,
             AskStart(q, r) \/ StartExclusive(q, r) \/ JudgeOrphan(q, r) \/ Work(q, r) \/ WriteFails(q, r)
             \/ TellWorker(q, r) \/ JudgeOwner(q, r)
      PROVE  stopped' = stopped /\ closed' = closed
  BY <1>4 DEF AskStart, StartExclusive, JudgeOrphan, Work, Begin, Succeed, EndCancelled, Raise, EndFailed, CleanUpFails, FailCleanUp, CleanUp,
              WriteFails, TellWorker, JudgeOwner, history
<1>5. ASSUME NEW q \in Procs,
             LookUp(q) \/ Focus(q) \/ RecoverOrphan(q) \/ CreateRun(q) \/ Launch(q) \/ StartFails(q) \/ CancelOrphan(q)
      PROVE  stopped' = stopped /\ closed' = closed
  BY <1>5 DEF LookUp, Focus, RecoverOrphan, CreateRun, Launch, StartFails, CancelOrphan, history
<1>6. p \in Procs
  BY RestTyped
<1> QED
  BY <1>1, <1>2, <1>3, <1>4, <1>5, <1>6 DEF Next, vars, history

LEMMA QuietStep ==
  ASSUME TypeInv, StartsKeepToTheirPath, StoppedAreQuiet, [Next]_vars
  PROVE  StoppedAreQuiet'
<1> SUFFICES ASSUME NEW p \in stopped'
             PROVE  /\ p \in closed'
                    /\ \A r \in Exclusive : r \notin Live(p)'
                    /\ starter'[p].pc \in {"scan", "recover", "create", "record"} => starter'[p].run \notin Exclusive
  BY DEF StoppedAreQuiet, Locked, Live
<1>1. p \in Procs
  BY StopMoves
<1>2. CASE ReportStopped(p)
  BY <1>2, RunsAssumption DEF ReportStopped, Live, Locked, calls, threads
<1>3. CASE p \in stopped /\ p \in closed'
  <2>1. \A r \in Exclusive : r \notin Live(p) /\ (Locked(p) => starter[p].run # r)
    BY <1>3 DEF StoppedAreQuiet
  <2>2. \A r \in Exclusive : r \notin Live(p)'
    <3> SUFFICES ASSUME NEW r \in Exclusive PROVE r \notin Live(p)'
      OBVIOUS
    <3>1. ~ Launched(p, r)
      BY <2>1 DEF Launched, Launch, Locked
    <3> QED
      BY <1>1, <2>1, <3>1, ThreadMoves, RunsAssumption
  <2>3. starter \in [Procs -> Starts]
    BY DEF TypeInv, TypeOK, Starts, Points
  <2>4. \A r \in Runs : ~ StartExclusive(p, r)
    BY <1>3 DEF StoppedAreQuiet, StartExclusive
  <2>5. starter'[p].pc \in {"scan", "recover", "create", "record"} => starter'[p].run \notin Exclusive
    <3>1. CASE starter'[p] = starter[p]
      BY <2>1, <3>1 DEF Locked
    <3>2. CASE starter'[p] = IdleStart
      BY <3>2 DEF IdleStart
    <3>3. ASSUME NEW r \in Runs, AskStart(p, r) PROVE starter'[p].pc = "waiting"
      BY <1>1, <2>3, <3>3 DEF AskStart, Start
    <3>4. ASSUME NEW r \in Runs, JudgeOrphan(p, r) PROVE Locked(p) /\ starter'[p].run = starter[p].run
      BY <1>1, <2>3, <3>4 DEF JudgeOrphan, Starts, Locked
    <3>5. CASE LookUp(p)
      BY <1>1, <2>3, <3>2, <3>5 DEF LookUp, Start, Leave, StartsKeepToTheirPath
    <3>6. CASE RecoverOrphan(p) \/ CreateRun(p)
      <4>1. Locked(p)
        BY <3>6 DEF RecoverOrphan, CreateRun, Locked
      <4>2. starter'[p] = IdleStart \/ starter'[p].run = starter[p].run
        BY <1>1, <2>3, <3>6 DEF RecoverOrphan, CreateRun, Start, Leave
      <4> QED
        BY <2>1, <3>2, <4>1, <4>2
    <3> QED
      BY <1>1, <2>1, <2>4, <3>1, <3>2, <3>3, <3>4, <3>5, <3>6, StartMoves DEF StartSteps
  <2> QED
    BY <1>3, <2>2, <2>5
<1> QED
  BY <1>2, <1>3, StopMoves DEF StoppedAreQuiet

LEMMA QuietInit == Init => StartsKeepToTheirPath /\ StoppedAreQuiet
  BY DEF Init, StartsKeepToTheirPath, StoppedAreQuiet, IdleStart

LEMMA QuietInductive == Spec => [](TypeInv /\ StartsKeepToTheirPath /\ StoppedAreQuiet)
  BY TypeInit, TypeStep, QuietInit, PathStep, QuietStep, PTL DEF Spec

\* After shutdown has reported that no worker lives, no exclusive start that was under
\* way launches one.
THEOREM StoppedProcessesStartNothing == Spec => []ShutdownStopsWork
<1>1. StoppedAreQuiet => ShutdownStopsWork
  BY DEF StoppedAreQuiet, ShutdownStopsWork
<1> QED
  BY <1>1, QuietInductive, PTL

-----------------------------------------------------------------------------
(* Exclusive starts with ids of their own: a process executes a run once.  *)

\* A start that holds the lock is of a run that this process never worked on.
StartsAreFresh ==
    /\ \A p \in Procs, r \in Runs :
        /\ state[r] = "absent" => worker[p][r] = "none" /\ executed[p][r] = 0
        /\ worker[p][r] = "begin" => executed[p][r] = 0
        /\ executed[p][r] <= 1
    /\ \A p \in Procs : Locked(p) =>
        worker[p][starter[p].run] = "none" /\ executed[p][starter[p].run] = 0

LEMMA ExecutionMoves ==
  ASSUME TypeInv, [Next]_vars, NEW p \in Procs, NEW r \in Runs
  PROVE  \/ executed'[p][r] = executed[p][r]
         \/ executed'[p][r] = 0
         \/ /\ Begin(p, r) /\ worker[p][r] = "begin" /\ worker'[p][r] # "begin"
            /\ executed'[p][r] <= executed[p][r] + 1
<1> DEFINE Goal == \/ executed'[p][r] = executed[p][r]
                   \/ executed'[p][r] = 0
                   \/ /\ Begin(p, r) /\ worker[p][r] = "begin" /\ worker'[p][r] # "begin"
                      /\ executed'[p][r] <= executed[p][r] + 1
<1>1. executed \in [Procs -> [Runs -> 0..2]] /\ worker \in [Procs -> [Runs -> Threads]]
  BY DEF TypeInv, TypeOK, Threads
<1>2. ASSUME NEW q \in Procs, NEW s \in Runs, Begin(q, s) PROVE Goal
  <2>1. worker[q][s] = "begin" /\ worker'[q][s] # "begin"
    BY <1>1, <1>2 DEF Begin, Goto
  <2>2. CASE executed' = executed
    BY <2>2
  <2>3. CASE executed' = [executed EXCEPT ![q][s] = IF @ < 2 THEN @ + 1 ELSE @]
    BY <1>1, <1>2, <2>1, <2>3
  <2> QED
    BY <1>2, <2>2, <2>3 DEF Begin
<1>3. ASSUME NEW q \in Procs, Crash(q) PROVE Goal
  BY <1>1, <1>3 DEF Crash
<1>4. ASSUME NEW q \in Procs, NEW s \in Runs,
             AskStart(q, s) \/ StartExclusive(q, s) \/ JudgeOrphan(q, s) \/ Succeed(q, s) \/ EndCancelled(q, s)
             \/ Raise(q, s) \/ EndFailed(q, s) \/ CleanUpFails(q, s) \/ FailCleanUp(q, s) \/ CleanUp(q, s) \/ WriteFails(q, s)
             \/ TellWorker(q, s) \/ JudgeOwner(q, s)
      PROVE  executed' = executed
  BY <1>4 DEF AskStart, StartExclusive, JudgeOrphan, Succeed, EndCancelled, Raise, EndFailed, CleanUpFails, FailCleanUp, CleanUp,
              WriteFails, TellWorker, JudgeOwner, history
<1>5. ASSUME NEW q \in Procs,
             LookUp(q) \/ Focus(q) \/ RecoverOrphan(q) \/ CreateRun(q) \/ Launch(q) \/ StartFails(q)
             \/ CancelOrphan(q) \/ Shutdown(q) \/ ReportStopped(q)
      PROVE  executed' = executed
  BY <1>5 DEF LookUp, Focus, RecoverOrphan, CreateRun, Launch, StartFails, CancelOrphan, Shutdown, ReportStopped, history
<1> QED
  BY <1>2, <1>3, <1>4, <1>5 DEF Next, Work, vars, history

\* A start comes to hold the lock with a run that it found absent.
LEMMA LockMoves ==
  ASSUME TypeInv, [Next]_vars, NEW p \in Procs, Locked(p)', Retries = FALSE
  PROVE  /\ starter'[p].run \in Runs
         /\ \/ Locked(p) /\ starter'[p].run = starter[p].run /\ ~ Launch(p)
            \/ state[starter'[p].run] = "absent" /\ ~ Launch(p) /\ state' = state
<1>1. starter \in [Procs -> Starts]
  BY DEF TypeInv, TypeOK, Starts, Points
<1>2. starter'[p].run \in Runs
  BY StarterTyped DEF CallsKnowTheirRun, Locked
<1>3. ~ Launch(p) /\ starter'[p] # IdleStart
  BY <1>1 DEF Launch, Leave, Locked, IdleStart
<1>4. CASE starter'[p] = starter[p]
  BY <1>2, <1>3, <1>4 DEF Locked
<1>5. ASSUME NEW r \in Runs, AskStart(p, r) PROVE FALSE
  BY <1>1, <1>5 DEF AskStart, Start, Locked
<1>6. ASSUME NEW r \in Runs, StartExclusive(p, r) PROVE state[r] = "absent" /\ starter'[p].run = r /\ state' = state
  BY <1>1, <1>6 DEF StartExclusive, Start, Unused, durable
<1>7. ASSUME NEW r \in Runs, JudgeOrphan(p, r) PROVE Locked(p) /\ starter'[p].run = starter[p].run
  BY <1>1, <1>7 DEF JudgeOrphan, Starts, Locked
<1>8. CASE LookUp(p)
  BY <1>1, <1>2, <1>3, <1>8 DEF LookUp, Start, Leave, IdleStart, durable
<1>9. CASE RecoverOrphan(p) \/ CreateRun(p)
  <2>1. Locked(p)
    BY <1>9 DEF RecoverOrphan, CreateRun, Locked
  <2>2. starter'[p] = IdleStart \/ starter'[p].run = starter[p].run
    BY <1>1, <1>9 DEF RecoverOrphan, CreateRun, Start, Leave
  <2> QED
    BY <1>2, <1>3, <2>1, <2>2
<1> QED
  BY <1>2, <1>3, <1>4, <1>5, <1>6, <1>7, <1>8, <1>9, StartMoves DEF StartSteps

LEMMA FreshStep ==
  ASSUME TypeInv, StartsKeepToTheirPath, StartsAreFresh, [Next]_vars, Retries = FALSE
  PROVE  StartsAreFresh'
<1>1. executed \in [Procs -> [Runs -> 0..2]] /\ executed' \in [Procs -> [Runs -> 0..2]]
  BY RestTyped DEF TypeInv, TypeOK
<1>2. ASSUME NEW p \in Procs, NEW r \in Runs, Launched(p, r)
      PROVE  executed' = executed /\ executed[p][r] = 0 /\ state[r] # "absent"
  BY <1>2 DEF Launched, Launch, history, StartsAreFresh, StartsKeepToTheirPath, Locked
<1>3. ASSUME NEW p \in Procs, NEW r \in Runs
      PROVE  /\ state'[r] = "absent" => worker'[p][r] = "none" /\ executed'[p][r] = 0
             /\ worker'[p][r] = "begin" => executed'[p][r] = 0
             /\ executed'[p][r] <= 1
  <2>1. executed'[p][r] <= 1
    BY <1>1, ExecutionMoves DEF StartsAreFresh
  <2>2. ASSUME worker'[p][r] = "begin" PROVE executed'[p][r] = 0
    BY <1>2, <2>2, ExecutionMoves, ThreadMoves DEF StartsAreFresh
  <2>3. ASSUME state'[r] = "absent" PROVE worker'[p][r] = "none" /\ executed'[p][r] = 0
    <3>1. worker[p][r] = "none" /\ executed[p][r] = 0
      BY <2>3, StateMoves DEF StartsAreFresh
    <3>2. ~ Launched(p, r)
      BY <1>2, <2>3, StateMoves
    <3> QED
      BY <3>1, <3>2, ThreadMoves, ExecutionMoves
  <2> QED
    BY <2>1, <2>2, <2>3
<1>4. ASSUME NEW p \in Procs, Locked(p)'
      PROVE  worker'[p][starter'[p].run] = "none" /\ executed'[p][starter'[p].run] = 0
  <2>1. starter'[p].run \in Runs /\ ~ Launch(p)
    BY <1>4, LockMoves
  <2>2. worker[p][starter'[p].run] = "none" /\ executed[p][starter'[p].run] = 0
    BY <1>4, <2>1, LockMoves DEF StartsAreFresh
  <2> QED
    BY <2>1, <2>2, ThreadMoves, ExecutionMoves DEF Launched
<1> QED
  BY <1>3, <1>4 DEF StartsAreFresh

LEMMA FreshInit == Init => StartsAreFresh
  BY DEF Init, StartsAreFresh, Locked, IdleStart

LEMMA FreshInductive ==
  ASSUME Retries = FALSE
  PROVE  Spec => [](TypeInv /\ StartsKeepToTheirPath /\ StartsAreFresh)
<1>1. TypeInv /\ StartsKeepToTheirPath /\ StartsAreFresh /\ [Next]_vars
        => (TypeInv /\ StartsKeepToTheirPath /\ StartsAreFresh)'
  BY TypeStep, PathStep, FreshStep
<1> QED
  BY TypeInit, QuietInit, FreshInit, <1>1, PTL DEF Spec

\* When every exclusive start has an id of its own, a process does not execute the
\* body of a run twice.
THEOREM BodiesRunOnce ==
  ASSUME Retries = FALSE
  PROVE  Spec => []ExecutedOnce
<1>1. StartsAreFresh => ExecutedOnce
  BY DEF StartsAreFresh, ExecutedOnce
<1> QED
  BY <1>1, FreshInductive, PTL

-----------------------------------------------------------------------------
(* Exclusive starts with ids of their own: the state of a run is that of its thread. *)

\* The run is taken for an orphan: rightly, or before its owner is recorded.
Orphan(r) == r \in unowned \/ (owner[r] # Nobody /\ owner[r] \notin alive)

\* Nobody has recorded or worked on the run yet.
Untouched(r) == owner[r] = Nobody /\ \A p \in Procs : worker[p][r] = "none"

\* An exclusive run has one process, from the start to the end of its thread.
RunsHaveOneProcess ==
    /\ \A r \in Exclusive : state[r] = "absent" => Untouched(r)
    /\ \A p \in Procs : starter[p].run \in Exclusive =>
        /\ Untouched(starter[p].run)
        /\ \A q \in Procs : starter[q].run = starter[p].run => q = p
    /\ \A p \in Procs, r \in Exclusive : worker[p][r] # "none" => owner[r] = p /\ p \in alive

\* A process dies in one way, an orphan stays one, the rest of an owner is Launch.
LEMMA AliveMoves ==
  ASSUME TypeInv, [Next]_vars
  PROVE  /\ alive' \subseteq alive /\ unowned \subseteq unowned'
         /\ \A p \in alive : p \in alive' \/ Crash(p)
         /\ \A r \in Runs : owner'[r] = owner[r] \/ \E p \in Procs : Launched(p, r) /\ owner'[r] = p
<1>1. alive' \subseteq alive /\ unowned \subseteq unowned' /\ \A p \in alive : p \in alive' \/ Crash(p)
  <2>1. ASSUME NEW q \in Procs, Crash(q) PROVE alive' = alive \ {q} /\ unowned' = unowned
    BY <2>1 DEF Crash
  <2>2. ASSUME NEW q \in Procs, NEW r \in Runs, JudgeOrphan(q, r) \/ JudgeOwner(q, r)
        PROVE  alive' = alive /\ unowned \subseteq unowned'
    BY <2>2 DEF JudgeOrphan, JudgeOwner
  <2>3. ASSUME NEW q \in Procs, NEW r \in Runs,
               AskStart(q, r) \/ StartExclusive(q, r) \/ Work(q, r) \/ WriteFails(q, r) \/ TellWorker(q, r)
        PROVE  alive' = alive /\ unowned' = unowned
    BY <2>3 DEF AskStart, StartExclusive, Work, Begin, Succeed, EndCancelled, Raise, EndFailed, CleanUpFails, FailCleanUp, CleanUp,
                WriteFails, TellWorker, history
  <2>4. ASSUME NEW q \in Procs,
               LookUp(q) \/ Focus(q) \/ RecoverOrphan(q) \/ CreateRun(q) \/ Launch(q) \/ StartFails(q)
               \/ CancelOrphan(q) \/ Shutdown(q) \/ ReportStopped(q)
        PROVE  alive' = alive /\ unowned' = unowned
    BY <2>4 DEF LookUp, Focus, RecoverOrphan, CreateRun, Launch, StartFails, CancelOrphan, Shutdown, ReportStopped,
                history
  <2>5. CASE UNCHANGED vars
    BY <2>5 DEF vars, history
  <2> QED
    BY <2>1, <2>2, <2>3, <2>4, <2>5 DEF Next
<1>2. ASSUME NEW p \in Procs, Launch(p), NEW r \in Runs
      PROVE  owner'[r] = owner[r] \/ (Launched(p, r) /\ owner'[r] = p)
  BY <1>2 DEF Launch, Launched, TypeInv, TypeOK
<1> QED
  BY <1>1, <1>2, OwnerMoves

\* Where the start of an exclusive run comes from.
LEMMA ExclusiveStarts ==
  ASSUME TypeInv, StartsKeepToTheirPath, [Next]_vars, Retries = FALSE,
         NEW p \in Procs, starter'[p].run \in Exclusive
  PROVE  /\ ~ Launch(p)
         /\ \/ StartExclusive(p, starter'[p].run)
            \/ Locked(p) /\ starter[p].run = starter'[p].run
         /\ starter'[p].pc \in {"scan", "recover"} =>
              \/ StartExclusive(p, starter'[p].run)
              \/ starter[p].pc \in {"scan", "recover"} /\ ~ CreateRun(p)
         /\ starter'[p].pc = "record" => starter'[p] = starter[p] \/ (CreateRun(p) /\ starter[p].pc = "scan")
         /\ starter'[p].pc \in {"scan", "recover", "record"}
<1> DEFINE Same == starter[p].run = starter'[p].run
<1>1. starter \in [Procs -> Starts]
  BY DEF TypeInv, TypeOK, Starts, Points
<1>2. starter' \in [Procs -> Starts] /\ StartsKeepToTheirPath'
  BY StarterTyped, PathStep
<1>3. starter'[p].pc \in {"scan", "recover", "record"} /\ starter'[p] # IdleStart
  BY <1>2, RunsAssumption DEF StartsKeepToTheirPath, Starts, Points, IdleStart
<1>4. ~ Launch(p)
  BY <1>1, <1>3 DEF Launch, Leave
<1>5. CASE starter'[p] = starter[p]
  <2>1. ~ CreateRun(p) \/ starter'[p].pc = "record"
    BY <1>1 DEF CreateRun, Start
  <2> QED
    BY <1>3, <1>4, <1>5, <2>1 DEF Locked
<1>6. ASSUME NEW r \in Runs PROVE ~ AskStart(p, r)
  BY <1>1, <1>3 DEF AskStart, Start
<1>7. ASSUME NEW r \in Runs, StartExclusive(p, r) PROVE starter'[p].run = r /\ starter'[p].pc = "scan"
  BY <1>1, <1>7 DEF StartExclusive, Start
<1>8. ASSUME NEW r \in Runs, JudgeOrphan(p, r)
      PROVE  starter[p].pc = "scan" /\ ~ CreateRun(p) /\ starter'[p].pc = "recover" /\ Same
  <2>1. starter[p].pc = "scan" /\ starter'[p].pc = "recover" /\ Same
    BY <1>1, <1>8 DEF JudgeOrphan, Starts
  <2> QED
    BY <1>1, <2>1 DEF CreateRun, Start
<1>9. ~ LookUp(p)
  BY <1>1, <1>3 DEF LookUp, Start, Leave
<1>10. ASSUME RecoverOrphan(p)
       PROVE  starter[p].pc = "recover" /\ ~ CreateRun(p) /\ starter'[p].pc = "scan" /\ Same
  BY <1>1, <1>3, <1>10 DEF RecoverOrphan, Start, Leave, CreateRun
<1>11. ASSUME CreateRun(p) PROVE starter[p].pc = "scan" /\ starter'[p].pc = "record" /\ Same
  BY <1>1, <1>11 DEF CreateRun, Start, StartsKeepToTheirPath
<1> QED
  BY <1>3, <1>4, <1>5, <1>6, <1>7, <1>8, <1>9, <1>10, <1>11, StartMoves DEF StartSteps, Locked

\* Only orphans are cancelled from outside.
OnlyOrphansAreTaken ==
    \A p \in Procs :
        /\ starter[p].pc = "recover" => Orphan(starter[p].orphan)
        /\ canceller[p] \in Exclusive => Orphan(canceller[p])

LEMMA OneProcessStep ==
  ASSUME TypeInv, StartsKeepToTheirPath, RunsHaveOneProcess, [Next]_vars, Retries = FALSE
  PROVE  RunsHaveOneProcess'
<1> USE RunsAssumption
<1>1. ASSUME NEW p \in Procs, NEW r \in Runs, Launched(p, r) PROVE state[r] # "absent" /\ starter[p].run = r
  BY <1>1 DEF Launched, Launch, StartsKeepToTheirPath
<1>2. ASSUME NEW r \in Exclusive, Untouched(r), \A p \in Procs : ~ Launched(p, r) PROVE Untouched(r)'
  BY <1>2, AliveMoves, ThreadMoves DEF Untouched
<1>3. ASSUME NEW r \in Exclusive, state'[r] = "absent" PROVE Untouched(r)'
  BY <1>1, <1>2, <1>3, StateMoves DEF RunsHaveOneProcess
<1>4. ASSUME NEW p \in Procs, NEW r \in Exclusive, starter'[p].run = r
      PROVE  /\ Untouched(r)'
             /\ \A q \in Procs : starter'[q].run = r => q = p
  <2>1. ~ Launch(p)
    BY <1>4, ExclusiveStarts
  <2>2. CASE Locked(p) /\ starter[p].run = r
    <3>1. Untouched(r) /\ \A q \in Procs : starter[q].run = r => q = p
      BY <1>4, <2>2 DEF RunsHaveOneProcess
    <3>2. \A q \in Procs : ~ Launched(q, r)
      BY <2>1, <3>1 DEF Launched
    <3>3. ASSUME NEW q \in Procs, starter'[q].run = r PROVE q = p
      <4>1. CASE StartExclusive(q, r)
        BY <2>2, <4>1 DEF StartExclusive, Unused
      <4>2. CASE starter[q].run = r
        BY <3>1, <4>2
      <4> QED
        BY <1>4, <3>3, <4>1, <4>2, ExclusiveStarts
    <3> QED
      BY <1>2, <1>4, <3>1, <3>2, <3>3
  <2>3. CASE StartExclusive(p, r)
    <3>1. state[r] = "absent" /\ \A q \in Procs : starter[q].run # r
      BY <2>3 DEF StartExclusive, Unused
    <3>2. Untouched(r) /\ \A q \in Procs : ~ Launched(q, r)
      BY <1>4, <3>1 DEF RunsHaveOneProcess, Launched
    <3>3. \A q \in Procs : q # p => starter'[q] = starter[q]
      BY <2>3 DEF StartExclusive, Start, TypeInv, TypeOK
    <3> QED
      BY <1>2, <1>4, <3>1, <3>2, <3>3
  <2> QED
    BY <1>4, <2>2, <2>3, ExclusiveStarts
<1>5. ASSUME NEW p \in Procs, NEW r \in Exclusive, worker'[p][r] # "none" PROVE owner'[r] = p /\ p \in alive'
  <2>1. CASE worker[p][r] # "none"
    <3>1. owner[r] = p /\ p \in alive
      BY <2>1 DEF RunsHaveOneProcess
    <3>2. \A q \in Procs : ~ Launched(q, r)
      BY <2>1 DEF Launched, RunsHaveOneProcess, Untouched
    <3>3. ~ Crash(p)
      BY <1>5 DEF Crash, TypeInv, TypeOK
    <3> QED
      BY <3>1, <3>2, <3>3, AliveMoves
  <2>2. CASE Launched(p, r)
    <3>1. owner' = [owner EXCEPT ![r] = p] /\ alive' = alive /\ starter[p].pc = "record"
      BY <2>2 DEF Launched, Launch
    <3> QED
      BY <3>1 DEF StartsKeepToTheirPath, TypeInv, TypeOK
  <2> QED
    BY <1>5, <2>1, <2>2, ThreadMoves
<1> QED
  BY <1>3, <1>4, <1>5 DEF RunsHaveOneProcess

LEMMA OrphansStep ==
  ASSUME TypeInv, StartsKeepToTheirPath, RunsHaveOneProcess, OnlyOrphansAreTaken, [Next]_vars
  PROVE  OnlyOrphansAreTaken'
<1>1. starter \in [Procs -> Starts] /\ canceller \in [Procs -> Runs \cup {NoRun}]
  BY DEF TypeInv, TypeOK, Starts, Points
<1>2. ASSUME NEW r \in Exclusive, Orphan(r) PROVE Orphan(r)'
  <2>1. CASE r \in unowned
    BY <2>1, AliveMoves DEF Orphan
  <2>2. CASE owner[r] # Nobody /\ owner[r] \notin alive
    <3>1. \A q \in Procs : ~ Launched(q, r)
      BY <2>2 DEF Launched, RunsHaveOneProcess, Untouched
    <3> QED
      BY <2>2, <3>1, AliveMoves, RunsAssumption DEF Orphan
  <2> QED
    BY <1>2, <2>1, <2>2 DEF Orphan
<1>3. ASSUME NEW p \in Procs, NEW x, starter'[p].pc = "recover", starter'[p].orphan = x PROVE Orphan(x)'
  <2>1. CASE starter'[p] = starter[p]
    BY <1>2, <1>3, <2>1 DEF OnlyOrphansAreTaken, TypeInv, CallsKnowTheirRun
  <2>2. ASSUME NEW r \in Runs, JudgeOrphan(p, r) PROVE Orphan(x)'
    <3>1. x = r
      BY <1>1, <1>3, <2>2 DEF JudgeOrphan, Starts
    <3>2. owner' = owner /\ alive' = alive /\ owner[r] \notin alive /\ (owner[r] = Nobody => r \in unowned')
      BY <2>2 DEF JudgeOrphan, OwnerIsLive, durable
    <3> QED
      BY <3>1, <3>2 DEF Orphan
  <2>3. ASSUME NEW r \in Runs, AskStart(p, r) \/ StartExclusive(p, r) PROVE FALSE
    BY <1>1, <1>3, <2>3 DEF AskStart, StartExclusive, Start
  <2>4. ~ LookUp(p) /\ ~ RecoverOrphan(p) /\ ~ CreateRun(p) /\ starter'[p] # IdleStart
    BY <1>1, <1>3 DEF LookUp, RecoverOrphan, CreateRun, Start, Leave, IdleStart
  <2> QED
    BY <2>1, <2>2, <2>3, <2>4, StartMoves DEF StartSteps
<1>4. ASSUME NEW p \in Procs, NEW x \in Exclusive, canceller'[p] = x PROVE Orphan(x)'
  <2>1. CASE canceller'[p] = canceller[p]
    BY <1>2, <1>4, <2>1 DEF OnlyOrphansAreTaken
  <2>2. ASSUME NEW r \in Runs, JudgeOwner(p, r) PROVE Orphan(x)'
    <3>1. x = r
      BY <1>1, <1>4, <2>2 DEF JudgeOwner
    <3>2. owner' = owner /\ alive' = alive /\ owner[r] \notin alive /\ (owner[r] = Nobody => r \in unowned')
      BY <2>2 DEF JudgeOwner, OwnerIsLive, durable
    <3> QED
      BY <3>1, <3>2 DEF Orphan
  <2>3. ASSUME NEW q \in Procs, NEW r \in Runs, JudgeOwner(q, r), q # p PROVE canceller'[p] = canceller[p]
    BY <1>1, <2>3 DEF JudgeOwner
  <2>4. ASSUME NEW q \in Procs, CancelOrphan(q) \/ Crash(q) PROVE canceller'[p] = canceller[p]
    BY <1>1, <1>4, <2>4, RunsAssumption DEF CancelOrphan, Crash
  <2>5. ASSUME NEW q \in Procs, NEW r \in Runs,
               AskStart(q, r) \/ StartExclusive(q, r) \/ JudgeOrphan(q, r) \/ Work(q, r) \/ WriteFails(q, r)
               \/ TellWorker(q, r)
        PROVE  canceller' = canceller
    BY <2>5 DEF AskStart, StartExclusive, JudgeOrphan, Work, Begin, Succeed, EndCancelled, Raise, EndFailed, CleanUpFails, FailCleanUp, CleanUp,
                WriteFails, TellWorker, calls
  <2>6. ASSUME NEW q \in Procs,
               LookUp(q) \/ Focus(q) \/ RecoverOrphan(q) \/ CreateRun(q) \/ Launch(q) \/ StartFails(q)
               \/ Shutdown(q) \/ ReportStopped(q)
        PROVE  canceller' = canceller
    BY <2>6 DEF LookUp, Focus, RecoverOrphan, CreateRun, Launch, StartFails, Shutdown, ReportStopped, calls
  <2> QED
    BY <2>1, <2>2, <2>3, <2>4, <2>5, <2>6 DEF Next, vars, calls
<1> QED
  BY <1>3, <1>4 DEF OnlyOrphansAreTaken

\* A run that no thread has begun was not moved to running.
RunsBeginOnce ==
    \A p \in Procs, r \in Exclusive :
        owner[r] = Nobody \/ worker[p][r] = "begin" => <<r, "running">> \notin answered

\* The state of a run that was not taken for an orphan is that of its thread.
StateFollowsThread ==
    /\ \A p \in Procs, r \in Exclusive \ unowned :
        /\ worker[p][r] = "begin" => state[r] = "queued"
        /\ worker[p][r] = "body" => state[r] = "running"
    /\ \A p \in Procs :
        /\ starter[p].pc \in {"scan", "recover"} => state[starter[p].run] = "absent"
        /\ starter[p].pc = "record" /\ starter[p].run \in Exclusive \ unowned => state[starter[p].run] = "queued"

OneProcess == TypeInv /\ StartsKeepToTheirPath /\ RunsHaveOneProcess /\ OnlyOrphansAreTaken

LEMMA BeginsStep ==
  ASSUME OneProcess, RunsBeginOnce, [Next]_vars
  PROVE  RunsBeginOnce'
<1> USE RunsAssumption DEF OneProcess
<1> SUFFICES ASSUME NEW p \in Procs, NEW r \in Exclusive,
                    owner'[r] = Nobody \/ worker'[p][r] = "begin",
                    <<r, "running">> \in answered'
             PROVE  FALSE
  BY DEF RunsBeginOnce
<1>1. ASSUME NEW q \in Procs, Launched(q, r) PROVE Untouched(r) /\ owner'[r] # Nobody /\ answered' = answered
  BY <1>1 DEF Launched, Launch, RunsHaveOneProcess, TypeInv, TypeOK
<1>2. <<r, "running">> \notin answered
  <2>1. owner[r] = Nobody \/ worker[p][r] = "begin"
    BY <1>1, AliveMoves, ThreadMoves DEF Untouched
  <2> QED
    BY <2>1 DEF RunsBeginOnce
<1>3. PICK q \in Procs : Begin(q, r)
  BY <1>2, RunMoves
<1>4. owner[r] = q /\ owner' = owner /\ worker'[q][r] # "begin"
  <2>1. worker[q][r] = "begin" /\ owner' = owner /\ worker'[q][r] # "begin"
    BY <1>3 DEF Begin, Goto, TryTransition, Transition, durable, TypeInv, TypeOK
  <2> QED
    BY <2>1 DEF RunsHaveOneProcess
<1>5. worker[p][r] # "begin"
  <2>1. p = q \/ worker'[p][r] = worker[p][r]
    BY <1>3 DEF Begin, Goto, TypeInv, TypeOK
  <2> QED
    BY <1>4, <2>1 DEF RunsHaveOneProcess, TypeInv, TypeOK
<1> QED
  BY <1>1, <1>2, <1>4, <1>5, ThreadMoves DEF Untouched

\* The steps of the thread of r and what they leave its run in.
LEMMA WorkMoves ==
  ASSUME TypeInv, NEW p \in Procs, NEW r \in Runs, Work(p, r)
  PROVE  /\ worker[p][r] # "none" /\ worker'[p][r] # "begin"
         /\ worker'[p][r] = "body" => Begin(p, r) /\ (<<r, "running">> \in answered \/ state'[r] = "running")
<1> USE DEF TypeInv
<1>1. worker \in [Procs -> [Runs -> Threads]] /\ state \in [Runs -> RunStates]
  BY DEF TypeOK, Threads
<1>2. ASSUME NEW at, Goto(p, r, at) PROVE worker'[p][r] = at
  BY <1>1, <1>2 DEF Goto
<1>3. CASE Begin(p, r)
  <2>1. worker[p][r] # "none" /\ worker'[p][r] # "begin"
    BY <1>2, <1>3 DEF Begin
  <2>2. ASSUME worker'[p][r] = "body" PROVE TryTransition(r, "running", "running") /\ Accepts(r, "running", "running")
    BY <1>2, <1>3, <2>2 DEF Begin
  <2>3. ASSUME worker'[p][r] = "body" PROVE <<r, "running">> \in answered \/ state'[r] = "running"
    BY <1>1, <2>2, <2>3 DEF TryTransition, Transition
  <2> QED
    BY <1>3, <2>1, <2>3
<1>4. CASE Succeed(p, r) \/ EndCancelled(p, r) \/ Raise(p, r) \/ EndFailed(p, r) \/ CleanUpFails(p, r) \/ FailCleanUp(p, r) \/ CleanUp(p, r)
  BY <1>2, <1>4 DEF Succeed, EndCancelled, Raise, EndFailed, CleanUpFails, FailCleanUp, CleanUp
<1> QED
  BY <1>3, <1>4 DEF Work

\* What can happen to the run of a thread that is not an orphan.
LEMMA StateMovesByThread ==
  ASSUME OneProcess, [Next]_vars, NEW p \in Procs, NEW r \in Exclusive \ unowned,
         worker[p][r] # "none", state'[r] # state[r], state[r] # "absent"
  PROVE  Work(p, r)
<1> USE RunsAssumption DEF OneProcess
<1>1. owner[r] = p /\ p \in alive /\ ~ Orphan(r)
  BY DEF RunsHaveOneProcess, Orphan, TypeInv, TypeOK
<1>2. ASSUME NEW q \in Procs, Cancels(q, r) PROVE FALSE
  BY <1>1, <1>2 DEF Cancels, RecoverOrphan, OnlyOrphansAreTaken
<1>3. ASSUME NEW q \in Procs, worker[q][r] # "none" PROVE q = p
  BY <1>1, <1>3 DEF RunsHaveOneProcess
<1> QED
  BY <1>2, <1>3, RunMoves

\* What can happen to a run that is being started.
LEMMA StateMovesByStart ==
  ASSUME OneProcess, [Next]_vars, NEW p \in Procs, NEW r \in Exclusive \ unowned,
         starter[p].run = r, state'[r] # state[r]
  PROVE  CreateRun(p) /\ state[r] = "absent"
<1> USE RunsAssumption DEF OneProcess
<1>1. Untouched(r) /\ ~ Orphan(r) /\ \A q \in Procs : starter[q].run = r => q = p
  BY DEF RunsHaveOneProcess, Orphan, Untouched
<1>2. ASSUME NEW q \in Procs, Cancels(q, r) PROVE FALSE
  BY <1>1, <1>2 DEF Cancels, RecoverOrphan, OnlyOrphansAreTaken
<1> QED
  BY <1>1, <1>2, RunMoves DEF Untouched

LEMMA FollowsStep ==
  ASSUME OneProcess, RunsBeginOnce, StateFollowsThread, [Next]_vars, Retries = FALSE
  PROVE  StateFollowsThread'
<1> USE RunsAssumption DEF OneProcess
<1>1. unowned \subseteq unowned'
  BY AliveMoves
<1>2. ASSUME NEW p \in Procs, NEW r \in Exclusive \ unowned', worker'[p][r] = "begin" PROVE state'[r] = "queued"
  <2>1. CASE worker[p][r] = "begin"
    <3>1. ~ Work(p, r)
      BY <1>2, WorkMoves
    <3> QED
      BY <1>1, <1>2, <2>1, <3>1, StateMovesByThread DEF StateFollowsThread
  <2>2. CASE Launched(p, r)
    BY <1>1, <1>2, <2>2 DEF Launched, Launch, StateFollowsThread
  <2> QED
    BY <1>2, <2>1, <2>2, ThreadMoves
<1>3. ASSUME NEW p \in Procs, NEW r \in Exclusive \ unowned', worker'[p][r] = "body" PROVE state'[r] = "running"
  <2>1. CASE worker[p][r] = "body"
    <3>1. ~ Begin(p, r)
      BY <2>1 DEF Begin
    <3> QED
      BY <1>1, <1>3, <2>1, <3>1, WorkMoves, StateMovesByThread DEF StateFollowsThread
  <2>2. CASE Begin(p, r)
    <3>1. worker[p][r] = "begin" /\ Work(p, r)
      BY <2>2 DEF Begin, Work
    <3> QED
      BY <1>3, <2>2, <3>1, WorkMoves DEF RunsBeginOnce
  <2> QED
    BY <1>3, <2>1, <2>2, ThreadMoves
<1>4. ASSUME NEW p \in Procs, NEW r, starter'[p].run = r, starter'[p].pc \in {"scan", "recover"}
      PROVE  state'[r] = "absent"
  <2>1. r \in Exclusive
    BY <1>4, PathStep DEF StartsKeepToTheirPath
  <2>2. CASE StartExclusive(p, r)
    BY <2>2 DEF StartExclusive, Unused, durable
  <2>3. CASE starter[p].pc \in {"scan", "recover"} /\ ~ CreateRun(p)
    <3>1. starter[p].run = r \/ StartExclusive(p, r)
      BY <1>4, <2>1, ExclusiveStarts
    <3>2. CASE starter[p].run = r
      <4>1. state[r] = "absent" /\ Untouched(r) /\ \A q \in Procs : starter[q].run = r => q = p
        BY <2>1, <2>3, <3>2 DEF StateFollowsThread, RunsHaveOneProcess
      <4> QED
        BY <2>1, <2>3, <4>1, RunMoves DEF Untouched
    <3> QED
      BY <2>2, <3>1, <3>2
  <2> QED
    BY <1>4, <2>1, <2>2, <2>3, ExclusiveStarts
<1>5. ASSUME NEW p \in Procs, NEW r, starter'[p].run = r, starter'[p].pc = "record", r \in Exclusive \ unowned'
      PROVE  state'[r] = "queued"
  <2>1. CASE starter'[p] = starter[p]
    <3>1. state[r] = "queued"
      BY <1>1, <1>5, <2>1 DEF StateFollowsThread
    <3> QED
      BY <1>1, <1>5, <2>1, <3>1, StateMovesByStart
  <2>2. CASE CreateRun(p) /\ starter[p].pc = "scan"
    <3>1. starter[p].run = r
      BY <1>5, <2>2, ExclusiveStarts DEF StartExclusive
    <3> QED
      BY <1>5, <2>2, <3>1 DEF CreateRun, StateFollowsThread, TypeInv, TypeOK
  <2> QED
    BY <1>5, <2>1, <2>2, ExclusiveStarts
<1> QED
  BY <1>2, <1>3, <1>4, <1>5 DEF StateFollowsThread

-----------------------------------------------------------------------------
(* One worker.                                                             *)

Working(p) == {r \in Exclusive \ unowned : worker[p][r] \in {"begin", "body"}}

\* While a start looks at the active runs, the threads of its process are among
\* those that are still to be looked at.
ScansMissNothing ==
    \A p \in Procs :
        /\ starter[p].pc \in {"scan", "recover"} => Working(p) \subseteq starter[p].todo
        /\ starter[p].pc = "recover" => worker[p][starter[p].orphan] = "none"
        /\ starter[p].pc = "record" /\ starter[p].run \in Exclusive => Working(p) = {}
        /\ \A r, s \in Working(p) : r = s

LEMMA WorkingMoves ==
  ASSUME TypeInv, [Next]_vars, NEW p \in Procs
  PROVE  /\ ~ Launch(p) => Working(p)' \subseteq Working(p)
         /\ \A r \in Working(p)' : r \in Working(p) \/ Launched(p, r)
<1>1. ASSUME NEW r \in Working(p)' PROVE r \in Working(p) \/ Launched(p, r)
  <2>1. r \in Exclusive \ unowned /\ r \in Runs /\ worker'[p][r] \in {"begin", "body"}
    BY AliveMoves, RunsAssumption DEF Working
  <2>2. ASSUME Begin(p, r) PROVE worker[p][r] = "begin"
    BY <2>2 DEF Begin
  <2> QED
    BY <2>1, <2>2, ThreadMoves DEF Working
<1> QED
  BY <1>1 DEF Launched

LEMMA ScansStep ==
  ASSUME OneProcess, StateFollowsThread, ScansMissNothing, [Next]_vars, Retries = FALSE
  PROVE  ScansMissNothing'
<1> USE RunsAssumption DEF OneProcess
<1> SUFFICES ASSUME NEW p \in Procs
             PROVE  /\ starter'[p].pc \in {"scan", "recover"} => Working(p)' \subseteq starter'[p].todo
                    /\ starter'[p].pc = "recover" => worker'[p][starter'[p].orphan] = "none"
                    /\ starter'[p].pc = "record" /\ starter'[p].run \in Exclusive => Working(p)' = {}
                    /\ \A r, s \in Working(p)' : r = s
  BY DEF ScansMissNothing
<1>1. starter \in [Procs -> Starts]
  BY DEF TypeInv, TypeOK, Starts, Points
<1>2. \A r, s \in Working(p)' : r = s
  <2>1. ASSUME NEW r, Launched(p, r), r \in Exclusive PROVE Working(p) = {}
    BY <2>1 DEF Launched, Launch, ScansMissNothing
  <2>2. ASSUME NEW r \in Working(p)' PROVE r \in Exclusive
    BY DEF Working
  <2>3. \A r, s : Launched(p, r) /\ Launched(p, s) => r = s
    BY DEF Launched
  <2> QED
    BY <2>1, <2>2, <2>3, WorkingMoves DEF ScansMissNothing
<1>3. CASE starter'[p].run \notin Exclusive
  BY <1>2, <1>3, PathStep, StarterTyped DEF StartsKeepToTheirPath, CallsKnowTheirRun
<1>4. CASE starter'[p].run \in Exclusive
  <2>1. Working(p)' \subseteq Working(p) /\ ~ Launch(p)
    BY <1>4, WorkingMoves, ExclusiveStarts
  <2>2. \A r \in Runs : worker[p][r] = "none" => worker'[p][r] = "none"
    BY <2>1, ThreadMoves DEF Launched
  <2>3. CASE starter'[p] = starter[p]
    <3>1. starter[p].pc = "recover" => starter[p].orphan \in Runs
      BY DEF TypeInv, CallsKnowTheirRun
    <3> QED
      BY <1>2, <2>1, <2>2, <2>3, <3>1 DEF ScansMissNothing
  <2>4. ASSUME NEW r \in Runs, AskStart(p, r) PROVE FALSE
    BY <1>1, <1>4, <2>4 DEF AskStart, Start
  <2>5. ASSUME NEW r \in Runs, StartExclusive(p, r)
        PROVE  starter'[p].pc = "scan" /\ Working(p) \subseteq starter'[p].todo
    <3>1. starter'[p].pc = "scan" /\ starter'[p].todo = {x \in Exclusive : Active(x)}
      BY <1>1, <2>5 DEF StartExclusive, Start
    <3>2. \A x \in Working(p) : x \in Exclusive /\ Active(x)
      BY DEF Working, Active, StateFollowsThread
    <3> QED
      BY <3>1, <3>2
  <2>6. ASSUME NEW x \in Runs, JudgeOrphan(p, x)
        PROVE  /\ starter'[p].pc = "recover" /\ Working(p) \subseteq starter'[p].todo
               /\ starter'[p].orphan = x /\ worker[p][x] = "none"
    <3>1. /\ starter'[p].pc = "recover" /\ starter'[p].todo = starter[p].todo
          /\ starter'[p].orphan = x /\ worker[p][x] = "none" /\ starter[p].pc = "scan"
      BY <1>1, <2>6 DEF JudgeOrphan, Owned, Starts
    <3> QED
      BY <3>1 DEF ScansMissNothing
  <2>7. ASSUME LookUp(p) PROVE FALSE
    BY <1>1, <1>4, <2>7 DEF LookUp, Start, Leave, IdleStart, StartsKeepToTheirPath
  <2>8. ASSUME RecoverOrphan(p) PROVE starter'[p].pc = "scan" /\ Working(p) \subseteq starter'[p].todo
    <3>1. starter[p].pc = "recover" /\ starter'[p].pc = "scan"
          /\ starter'[p].todo = starter[p].todo \ {starter[p].orphan}
      BY <1>1, <1>4, <2>8 DEF RecoverOrphan, Start, Leave, IdleStart
    <3>2. starter[p].orphan \notin Working(p)
      BY <3>1 DEF Working, ScansMissNothing
    <3> QED
      BY <3>1, <3>2 DEF ScansMissNothing
  <2>9. ASSUME CreateRun(p) PROVE starter'[p].pc = "record" /\ Working(p) = {}
    <3>1. starter'[p].pc = "record" /\ starter'[p].run = starter[p].run
      BY <1>1, <2>9 DEF CreateRun, Start
    <3>2. starter[p].pc = "scan" /\ starter[p].todo = {}
      BY <1>4, <2>9, <3>1 DEF CreateRun, StartsKeepToTheirPath
    <3> QED
      BY <3>1, <3>2 DEF ScansMissNothing
  <2>10. starter'[p] # IdleStart
    BY <1>4 DEF IdleStart
  <2> QED
    BY <1>2, <2>1, <2>2, <2>3, <2>4, <2>5, <2>6, <2>7, <2>8, <2>9, <2>10, StartMoves DEF StartSteps
<1> QED
  BY <1>3, <1>4

LiveInv == OneProcess /\ RunsBeginOnce /\ StateFollowsThread /\ ScansMissNothing

LEMMA LiveInit == Init => LiveInv
  <1> SUFFICES ASSUME Init PROVE LiveInv
    OBVIOUS
  <1>1. RunsHaveOneProcess /\ OnlyOrphansAreTaken
    BY RunsAssumption DEF Init, RunsHaveOneProcess, OnlyOrphansAreTaken, Untouched, IdleStart
  <1>2. RunsBeginOnce /\ StateFollowsThread
    BY RunsAssumption DEF Init, RunsBeginOnce, StateFollowsThread, IdleStart
  <1>3. ScansMissNothing
    BY RunsAssumption DEF Init, ScansMissNothing, Working, IdleStart
  <1> QED
    BY <1>1, <1>2, <1>3, TypeInit, QuietInit DEF LiveInv, OneProcess

LEMMA LiveInductive ==
  ASSUME Retries = FALSE
  PROVE  Spec => []LiveInv
<1>1. ASSUME LiveInv, [Next]_vars PROVE LiveInv'
  <2>1. TypeInv' /\ StartsKeepToTheirPath'
    BY <1>1, TypeStep, PathStep DEF LiveInv, OneProcess
  <2>2. RunsHaveOneProcess' /\ OnlyOrphansAreTaken'
    BY <1>1, OneProcessStep, OrphansStep DEF LiveInv, OneProcess
  <2>3. RunsBeginOnce' /\ StateFollowsThread' /\ ScansMissNothing'
    BY <1>1, BeginsStep, FollowsStep, ScansStep DEF LiveInv
  <2> QED
    BY <2>1, <2>2, <2>3 DEF LiveInv, OneProcess
<1> QED
  BY LiveInit, <1>1, PTL DEF Spec

\* A run whose body a live process executes is not taken for an orphan, except in the
\* moment before its owner is recorded: starts and cancels of other processes leave it
\* running.
THEOREM LiveWorkIsLeftAlone ==
  ASSUME Retries = FALSE
  PROVE  Spec => []LiveWorkIsRunning
<1>1. LiveInv => LiveWorkIsRunning
  BY DEF LiveInv, StateFollowsThread, LiveWorkIsRunning
<1> QED
  BY <1>1, LiveInductive, PTL

\* Two starts of one process never have two threads work on the exclusive operation.
THEOREM StartsShareOneWorker ==
  ASSUME Retries = FALSE
  PROVE  Spec => []OneWorkerPerProcess
<1>1. LiveInv => OneWorkerPerProcess
  BY DEF LiveInv, ScansMissNothing, Working, OneWorkerPerProcess
<1> QED
  BY <1>1, LiveInductive, PTL
=============================================================================
