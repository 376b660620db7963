----------------------------- MODULE BlobSweep -----------------------------
(***************************************************************************)
(* maintenance_v2/blob_sweep.py: the deletion of content blobs that        *)
(* nothing refers to.  A sweep lives in two databases: the job, its two    *)
(* audit epochs and its candidates in the maintenance database, the blobs  *)
(* in the content database.  Intents are written before the one content    *)
(* transaction, and receipts after it, each in a transaction of its own;   *)
(* an identical request finds an ACTIVE job and tries to finish it.        *)
(*                                                                         *)
(* Nothing keeps two processes from working on the same request, and the   *)
(* writers of the content database are not stopped by this code: it asks a *)
(* safety port for that, which is not part of the repository.              *)
(***************************************************************************)
EXTENDS Naturals, Sequences

CONSTANTS Sweepers,   \* processes that execute requests
          Keys,       \* request keys
          Blobs,      \* blob ids, which a content always gets again
          MaxPins,    \* bound on changes of the lease or of the generation
          MaxWrites,  \* bound on the writes to the content database
          MaxFaults,  \* bound on errors and crashes
          NoKey

ASSUME NoKeyAssumption == NoKey \notin Keys
ASSUME BoundsAssumption == MaxPins \in Nat /\ MaxWrites \in Nat /\ MaxFaults \in Nat

VARIABLES blobs, refs,   \* content database: the rows, and those referred to or held
          pin,           \* the maintenance lease and the manifest generation in force
          jobs,          \* maintenance database
          pc, call,      \* where each process is, and what it has read
          removed,       \* history: the blobs whose last deletion was this job's
          disturbed,     \* history: an error came after the commit, or two processes met on one request
          writes, faults

content == <<blobs, refs>>
history == <<removed, disturbed>>
bounds == <<writes, faults>>
vars == <<content, pin, jobs, pc, call, history, bounds>>

NoJob == [state |-> "NONE", dry |-> FALSE, pin |-> 0, audits |-> <<>>,
          cands |-> [b \in Blobs |-> "none"], ready |-> FALSE]

NoCall == [key |-> NoKey, pin |-> 0, met |-> 0, first |-> {}, stable |-> {}, left |-> {},
           intents |-> {}, broken |-> FALSE, seen |-> [b \in Blobs |-> "none"]]

Init ==
    /\ blobs \in SUBSET Blobs
    /\ refs \in SUBSET blobs
    /\ pin = 0
    /\ jobs = [k \in Keys |-> NoJob]
    /\ pc = [s \in Sweepers |-> "idle"]
    /\ call = [s \in Sweepers |-> NoCall]
    /\ removed = [k \in Keys |-> {}]
    /\ disturbed = FALSE
    /\ writes = 0 /\ faults = 0

-----------------------------------------------------------------------------
(* The maintenance store: one transaction each.                            *)

Job(s) == jobs[call[s].key]
Pinned(s) == call[s].pin = pin

Moves == [PLANNED |-> {"AUDITING"}, AUDITING |-> {"READY", "FAILED"},
          READY |-> {"ACTIVE", "SUCCEEDED", "FAILED"}, ACTIVE |-> {"SUCCEEDED", "FAILED"},
          SUCCEEDED |-> {}, FAILED |-> {}]

MayMove(s, to) == to = Job(s).state \/ to \in Moves[Job(s).state]

Move(s, to) == jobs' = [jobs EXCEPT ![call[s].key].state = to]

\* A candidate changes only in an ACTIVE job, under the lease and the generation of the caller.
MayMark(s, b, from) == Pinned(s) /\ Job(s).state = "ACTIVE" /\ Job(s).cands[b] \in from

Mark(s, b, to) == jobs' = [jobs EXCEPT ![call[s].key].cands[b] = to]

Candidates == blobs \ refs

-----------------------------------------------------------------------------
(* The steps of a process.                                                 *)

At(s, place) == pc[s] = place
Goto(s, place) == pc' = [pc EXCEPT ![s] = place]
Leave(s) == Goto(s, "idle") /\ call' = [call EXCEPT ![s] = NoCall]

\* The request: a new job, or the one the same request has made before.
Ask(s, k, dry) ==
    /\ At(s, "idle")
    /\ \/ /\ jobs[k].state = "NONE"
          /\ jobs' = [jobs EXCEPT ![k].state = "PLANNED", ![k].dry = dry, ![k].pin = pin]
          /\ Goto(s, "planned")
       \/ /\ jobs[k].state \in {"PLANNED", "ACTIVE"} /\ jobs[k].pin = pin /\ jobs[k].dry = dry
          /\ Goto(s, IF jobs[k].state = "ACTIVE" THEN "recalling" ELSE "planned")
          /\ UNCHANGED jobs
    /\ call' = [call EXCEPT ![s] = [NoCall EXCEPT !.key = k, !.pin = pin]]
    /\ disturbed' = (disturbed \/ \E t \in Sweepers : call[t].key = k)
    /\ UNCHANGED <<content, pin, removed, bounds>>

Plan(s) ==
    /\ At(s, "planned")
    /\ \/ MayMove(s, "AUDITING") /\ Move(s, "AUDITING") /\ Goto(s, "epoch one")
          /\ call' = [call EXCEPT ![s].met = Len(Job(s).audits)]
       \/ ~ MayMove(s, "AUDITING") /\ Leave(s) /\ UNCHANGED jobs
    /\ UNCHANGED <<content, pin, history, bounds>>

\* An audit epoch is kept.  Another process may take it as well if it has found the same candidates before
\* the epoch was complete ("met" counts the epochs complete when it began), or if there are none.
Epoch(s, n) ==
    \/ /\ Job(s).state \in {"AUDITING", "READY"} /\ Len(Job(s).audits) = n - 1
       /\ jobs' = [jobs EXCEPT ![call[s].key].audits = Append(@, Candidates),
              ![call[s].key].cands = IF n = 1 THEN @
                  ELSE [b \in Blobs |-> IF b \notin Candidates THEN "none"
                                        ELSE IF b \in call[s].first THEN "confirmed" ELSE "marked"]]
    \/ /\ Len(Job(s).audits) >= n /\ Job(s).audits[n] = Candidates
       /\ call[s].met < n \/ (Candidates = {} /\ Job(s).state \in {"AUDITING", "READY"})
       /\ UNCHANGED jobs

EpochFails(s) == Goto(s, "failing") /\ UNCHANGED <<call, jobs>>

EpochOne(s) ==
    /\ At(s, "epoch one")
    /\ \/ Epoch(s, 1) /\ Goto(s, "epoch two") /\ call' = [call EXCEPT ![s].first = Candidates, ![s].met = Len(jobs'[call[s].key].audits)]
       \/ (Job(s).state \notin {"AUDITING", "READY"} \/ Job(s).audits # <<>>) /\ EpochFails(s)
    /\ UNCHANGED <<content, pin, history, bounds>>

EpochTwo(s) ==
    /\ At(s, "epoch two")
    /\ \/ /\ Epoch(s, 2) /\ Goto(s, "audited")
          /\ call' = [call EXCEPT ![s].stable = call[s].first \cap Candidates, ![s].first = {}, ![s].met = 0]
       \/ (Job(s).state \notin {"AUDITING", "READY"} \/ Len(Job(s).audits) = 2) /\ EpochFails(s)
    /\ UNCHANGED <<content, pin, history, bounds>>

Ready(s) ==
    /\ At(s, "audited")
    /\ \/ /\ MayMove(s, "READY") /\ Move(s, "READY")
          /\ Goto(s, IF Job(s).dry THEN "reporting" ELSE "ready")
       \/ ~ MayMove(s, "READY") /\ Goto(s, "failing") /\ UNCHANGED jobs
    /\ UNCHANGED <<content, pin, call, history, bounds>>

Activate(s) ==
    /\ At(s, "ready")
    /\ \/ /\ Job(s).state = "ACTIVE" \/ (Job(s).state = "READY" /\ Pinned(s))
          /\ Move(s, "ACTIVE") /\ Goto(s, "final audit")
       \/ /\ ~ (Job(s).state = "ACTIVE" \/ (Job(s).state = "READY" /\ Pinned(s)))
          /\ Goto(s, "failing") /\ UNCHANGED jobs
    /\ UNCHANGED <<content, pin, call, history, bounds>>

\* The third audit, between two looks at the safety port, and the report that goes before a deletion.
FinalAudit(s) ==
    /\ At(s, "final audit")
    /\ \/ /\ Pinned(s) /\ call[s].stable \subseteq Candidates
          /\ jobs' = [jobs EXCEPT ![call[s].key].ready = TRUE]
          /\ Goto(s, "intending") /\ call' = [call EXCEPT ![s].left = call[s].stable]
       \/ /\ ~ (Pinned(s) /\ call[s].stable \subseteq Candidates)
          /\ Goto(s, "failing") /\ UNCHANGED <<jobs, call>>
    /\ UNCHANGED <<content, pin, history, bounds>>

Undoing(s) == Goto(s, "undoing") /\ call' = [call EXCEPT ![s].left = call[s].intents]

\* Mutant: the intent is not kept.
IntendUnkept(s, b) ==
    /\ At(s, "intending") /\ b \in call[s].left
    /\ call' = [call EXCEPT ![s].left = @ \ {b}, ![s].intents = @ \cup {b}]
    /\ UNCHANGED <<content, pin, jobs, pc, history, bounds>>

Intend(s, b) ==
    /\ At(s, "intending") /\ b \in call[s].left
    /\ \/ /\ MayMark(s, b, {"confirmed", "deleting"}) /\ Mark(s, b, "deleting")
          /\ call' = [call EXCEPT ![s].left = @ \ {b}, ![s].intents = @ \cup {b}]
          /\ UNCHANGED pc
       \/ ~ MayMark(s, b, {"confirmed", "deleting"}) /\ Undoing(s) /\ UNCHANGED jobs
    /\ UNCHANGED <<content, pin, history, bounds>>

\* Mutant: the references are not looked at again.
StillThere(s) == call[s].stable \subseteq blobs

Unreferenced(s) == call[s].stable \subseteq blobs \ refs

\* The content transaction looks once more at every reference it knows of.
Commit(s) ==
    /\ blobs' = blobs \ call[s].stable
    /\ removed' = [k \in Keys |-> IF k = call[s].key THEN removed[k] \cup call[s].stable
                                                     ELSE removed[k] \ call[s].stable]
    /\ UNCHANGED refs

Delete(s) ==
    /\ At(s, "intending") /\ call[s].left = {}
    /\ \/ /\ Unreferenced(s) /\ Commit(s)
          /\ Goto(s, "marking") /\ call' = [call EXCEPT ![s].left = call[s].intents]
       \/ ~ Unreferenced(s) /\ Undoing(s) /\ UNCHANGED <<content, removed>>
    /\ UNCHANGED <<pin, jobs, disturbed, bounds>>

\* The file is looked at again inside of the same handler: an error there comes after the commit.
DeleteUnnoticed(s) ==
    /\ At(s, "intending") /\ call[s].left = {} /\ faults < MaxFaults
    /\ Unreferenced(s) /\ Commit(s) /\ Undoing(s)
    /\ disturbed' = TRUE /\ faults' = faults + 1
    /\ UNCHANGED <<pin, jobs, writes>>

\* Each intent is taken back by itself; those that resist are counted.
Undo(s, b) ==
    /\ At(s, "undoing") /\ b \in call[s].left
    /\ \/ /\ MayMark(s, b, {"deleting", "confirmed"}) /\ Mark(s, b, "confirmed")
          /\ call' = [call EXCEPT ![s].left = @ \ {b}]
       \/ /\ ~ MayMark(s, b, {"deleting", "confirmed"})
          /\ call' = [call EXCEPT ![s].left = @ \ {b}, ![s].broken = TRUE]
          /\ UNCHANGED jobs
    /\ UNCHANGED <<content, pin, pc, history, bounds>>

EndUndo(s) ==
    /\ At(s, "undoing") /\ call[s].left = {}
    /\ IF call[s].broken THEN Leave(s) ELSE Goto(s, "failing") /\ UNCHANGED call
    /\ UNCHANGED <<content, pin, jobs, history, bounds>>

\* Mutant: a receipt that fails goes the way of every other error.
ReceiptOrFailure(s, b) ==
    /\ At(s, "marking") /\ b \in call[s].left
    /\ \/ /\ MayMark(s, b, {"deleting", "swept"}) /\ Mark(s, b, "swept")
          /\ call' = [call EXCEPT ![s].left = @ \ {b}] /\ UNCHANGED pc
       \/ ~ MayMark(s, b, {"deleting", "swept"}) /\ Goto(s, "failing") /\ UNCHANGED <<jobs, call>>
    /\ UNCHANGED <<content, pin, history, bounds>>

\* The receipts.  Whatever goes wrong here leaves the job to an identical request.
Receipt(s, b) ==
    /\ At(s, "marking") /\ b \in call[s].left
    /\ \/ /\ MayMark(s, b, {"deleting", "swept"}) /\ Mark(s, b, "swept")
          /\ call' = [call EXCEPT ![s].left = @ \ {b}] /\ UNCHANGED pc
       \/ ~ MayMark(s, b, {"deleting", "swept"}) /\ Leave(s) /\ UNCHANGED jobs
    /\ UNCHANGED <<content, pin, history, bounds>>

EndReceipts(s) ==
    /\ At(s, "marking") /\ call[s].left = {}
    /\ Goto(s, "reporting")
    /\ UNCHANGED <<content, pin, jobs, call, history, bounds>>

\* The PASS report and the end of the job, of a sweep and of its recovery.
Succeed(s) ==
    /\ pc[s] \in {"reporting", "closing"}
    /\ \/ MayMove(s, "SUCCEEDED") /\ Move(s, "SUCCEEDED") /\ Leave(s)
       \/ /\ ~ MayMove(s, "SUCCEEDED") /\ UNCHANGED jobs
          /\ IF At(s, "closing") THEN Leave(s) ELSE Goto(s, "failing") /\ UNCHANGED call
    /\ UNCHANGED <<content, pin, history, bounds>>

\* The handler around all steps up to here.
EndFailed(s) ==
    /\ At(s, "failing")
    /\ IF Job(s).state \in {"AUDITING", "READY", "ACTIVE"} THEN Move(s, "FAILED") ELSE UNCHANGED jobs
    /\ Leave(s)
    /\ UNCHANGED <<content, pin, history, bounds>>

-----------------------------------------------------------------------------
(* The recovery of an ACTIVE job by an identical request.                  *)

Items(cands) == {b \in Blobs : cands[b] # "none"}

Recoverable(job) == job.ready /\ \A b \in Blobs : job.cands[b] # "marked"

Recall(s) ==
    /\ At(s, "recalling")
    /\ \/ /\ Recoverable(Job(s)) /\ Pinned(s)
          /\ Goto(s, "looking") /\ call' = [call EXCEPT ![s].seen = Job(s).cands]
       \/ ~ (Recoverable(Job(s)) /\ Pinned(s)) /\ Leave(s)
    /\ UNCHANGED <<content, pin, jobs, history, bounds>>

\* Mutant: the recovery takes the deletion for committed.
LookNowhere(s) ==
    /\ At(s, "looking") /\ Goto(s, "reconciling")
    /\ call' = [call EXCEPT ![s].left = Items(call[s].seen)]
    /\ UNCHANGED <<content, pin, jobs, history, bounds>>

\* All of the blobs are there, or none of them is.
Look(s) ==
    LET items == Items(call[s].seen)
    IN  /\ At(s, "looking")
        /\ \/ /\ items \cap blobs = {} /\ Goto(s, "reconciling")
              /\ call' = [call EXCEPT ![s].left = items]
           \/ /\ items \cap blobs = items /\ items # {} /\ Goto(s, "restoring")
              /\ call' = [call EXCEPT ![s].left = items]
           \/ items \cap blobs \notin {{}, items} /\ Leave(s)
        /\ UNCHANGED <<content, pin, jobs, history, bounds>>

\* A candidate in the loop of the recovery: "from" is turned into "to", "settled" passed over.
Recovered(s, b, from, to, settled) ==
    /\ b \in call[s].left
    /\ \/ /\ call[s].seen[b] = from /\ MayMark(s, b, {from, to}) /\ Mark(s, b, to)
          /\ call' = [call EXCEPT ![s].left = @ \ {b}] /\ UNCHANGED pc
       \/ /\ call[s].seen[b] = settled /\ call' = [call EXCEPT ![s].left = @ \ {b}]
          /\ UNCHANGED <<jobs, pc>>
       \/ /\ ~ (call[s].seen[b] = from /\ MayMark(s, b, {from, to})) /\ call[s].seen[b] # settled
          /\ Leave(s) /\ UNCHANGED jobs
    /\ UNCHANGED <<content, pin, history, bounds>>

PutBack(s, b) == At(s, "restoring") /\ Recovered(s, b, "deleting", "confirmed", "confirmed")

EndPutBack(s) ==
    /\ At(s, "restoring") /\ call[s].left = {}
    /\ IF MayMove(s, "FAILED") THEN Move(s, "FAILED") ELSE UNCHANGED jobs
    /\ Leave(s)
    /\ UNCHANGED <<content, pin, history, bounds>>

Reconcile(s, b) == At(s, "reconciling") /\ Recovered(s, b, "deleting", "swept", "swept")

EndReconcile(s) ==
    /\ At(s, "reconciling") /\ call[s].left = {}
    /\ Goto(s, "closing")
    /\ UNCHANGED <<content, pin, jobs, call, history, bounds>>

-----------------------------------------------------------------------------
(* Errors, crashes, and the rest of the world.                             *)

\* A step fails before it has any effect.
Fail(s) ==
    /\ faults < MaxFaults /\ faults' = faults + 1
    /\ \/ /\ pc[s] \in {"epoch one", "epoch two", "audited", "ready", "final audit"}
          /\ Goto(s, "failing") /\ UNCHANGED <<call, disturbed>>
       \/ /\ At(s, "reporting") /\ Goto(s, "failing")
          /\ disturbed' = TRUE /\ UNCHANGED call
       \/ At(s, "intending") /\ Undoing(s) /\ UNCHANGED disturbed
       \/ /\ At(s, "undoing") /\ call[s].left # {} /\ UNCHANGED <<pc, disturbed>>
          /\ \E b \in call[s].left : call' = [call EXCEPT ![s].left = @ \ {b}, ![s].broken = TRUE]
    /\ UNCHANGED <<content, pin, jobs, removed, writes>>

\* The process ends, or a step fails where nothing is there to handle it.
Crash(s) ==
    /\ ~ At(s, "idle") /\ faults < MaxFaults
    /\ faults' = faults + 1 /\ Leave(s)
    /\ UNCHANGED <<content, pin, jobs, history, writes>>

\* The lease expires and is taken anew, or the manifest moves on and comes back.
LosePin ==
    /\ pin < MaxPins /\ pin' = pin + 1
    /\ UNCHANGED <<content, jobs, pc, call, history, bounds>>

\* The content database: an occurrence, a hold or a record comes, goes, or brings its blob along.
Write ==
    /\ writes < MaxWrites /\ writes' = writes + 1
    /\ \E b \in Blobs :
        \/ b \in Candidates /\ refs' = refs \cup {b} /\ UNCHANGED blobs
        \/ b \in refs /\ refs' = refs \ {b} /\ UNCHANGED blobs
        \/ b \notin blobs /\ blobs' = blobs \cup {b} /\ refs' \in {refs, refs \cup {b}}
    /\ UNCHANGED <<pin, jobs, pc, call, history, faults>>

Step(s) ==
    \/ \E k \in Keys, dry \in BOOLEAN : Ask(s, k, dry)
    \/ Plan(s) \/ EpochOne(s) \/ EpochTwo(s) \/ Ready(s) \/ Activate(s) \/ FinalAudit(s)
    \/ Delete(s) \/ DeleteUnnoticed(s) \/ EndUndo(s) \/ EndReceipts(s) \/ Succeed(s) \/ EndFailed(s)
    \/ Recall(s) \/ Look(s) \/ EndPutBack(s) \/ EndReconcile(s)
    \/ \E b \in Blobs : Intend(s, b) \/ Undo(s, b) \/ Receipt(s, b) \/ PutBack(s, b) \/ Reconcile(s, b)
    \/ Fail(s) \/ Crash(s)

Next == (\E s \in Sweepers : Step(s)) \/ LosePin \/ Write

Spec == Init /\ [][Next]_vars

-----------------------------------------------------------------------------
(* Properties.                                                             *)

CandidateStates == {"none", "marked", "confirmed", "deleting", "swept"}

JobStates == {"NONE", "PLANNED", "AUDITING", "READY", "ACTIVE", "SUCCEEDED", "FAILED"}

JobRows == [state : JobStates, dry : BOOLEAN, pin : Nat, audits : Seq(SUBSET Blobs),
            cands : [Blobs -> CandidateStates], ready : BOOLEAN]

Calls == [key : Keys \cup {NoKey}, pin : Nat, met : Nat, first : SUBSET Blobs, stable : SUBSET Blobs,
          left : SUBSET Blobs, intents : SUBSET Blobs, broken : BOOLEAN, seen : [Blobs -> CandidateStates]]

Places == {"idle", "planned", "epoch one", "epoch two", "audited", "ready", "final audit", "intending",
           "undoing", "marking", "reporting", "failing", "recalling", "looking", "restoring",
           "reconciling", "closing"}

TypeOK ==
    /\ blobs \subseteq Blobs /\ refs \subseteq blobs
    /\ pin \in Nat
    /\ jobs \in [Keys -> JobRows]
    /\ pc \in [Sweepers -> Places]
    /\ call \in [Sweepers -> Calls]
    /\ \A s \in Sweepers : pc[s] # "idle" => call[s].key \in Keys /\ Job(s).state # "NONE"
    /\ removed \in [Keys -> SUBSET Blobs]
    /\ disturbed \in BOOLEAN
    /\ writes \in Nat /\ faults \in Nat

\* A blob is deleted when two audits of its job have found it unreferred to and nothing has come to refer
\* to it since, whatever writers and other sweeps did in between; and, unless two processes met on the
\* request, when the intent to delete it is on record ("Persist a deletion intent before touching the
\* authoritative Blob row", maintenance_v2/store.py:663).
DeletionsAreAnnounced ==
    [][\A k \in Keys : \A b \in removed'[k] \ removed[k] :
        /\ b \in Candidates
        /\ \A i \in {1, 2} : b \in jobs[k].audits[i]
        /\ jobs[k].cands[b] = "deleting" \/ disturbed]_vars

\* A receipt of a deletion is only written for a blob some sweep has deleted, and a job that
\* succeeds has settled every deletion it has announced.
SweptWereDeleted ==
    \A k \in Keys :
        /\ \A b \in Blobs : jobs[k].cands[b] = "swept" => \E j \in Keys : b \in removed[j]
        /\ jobs[k].state = "SUCCEEDED" /\ ~ jobs[k].dry =>
              \A b \in Blobs : jobs[k].cands[b] \notin {"confirmed", "deleting"}

\* Without an error after the commit, and without a second process on the same request, a job that
\* is given up has everything it could have deleted in place, and no announcement is left standing.
FailedKeepContent ==
    [][\A k \in Keys :
        jobs[k].state # "FAILED" /\ jobs'[k].state = "FAILED" /\ ~ disturbed =>
            /\ removed[k] \subseteq blobs
            /\ \A b \in Blobs : jobs[k].cands[b] \notin {"deleting", "swept"}]_vars
=============================================================================
