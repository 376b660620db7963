------------------------- MODULE ActivationManifest -------------------------
(***************************************************************************)
(* system/manifest.py with its drivers: the preparation of a V2 workspace  *)
(* (migration/workspace_prepare.py, v2_coordinator.py, ready_prepare.py),  *)
(* the activation (v2_cli.py) and the rollback (cutover_v2).               *)
(*                                                                         *)
(* The manifest is one row that every driver reads outside of any lock and *)
(* writes in a transaction.  The lock of the preparation is a file, which  *)
(* nobody removes when its creator is gone.  The legacy stores keep being  *)
(* written by programs that know nothing of the manifest.                  *)
(***************************************************************************)
EXTENDS Naturals, Sequences

CONSTANTS Drivers,        \* processes that prepare, activate or roll back
          Batches,        \* migration ids
          Contents,       \* what the legacy stores may hold
          Requests,       \* what is asked of each driver
          MaxGeneration,  \* bound on the transitions of the manifest
          MaxWrites,      \* bound on the writes to the legacy stores
          MaxFaults,      \* bound on failed migrations and crashes
          Nobody, Orphan, NoBatch, Nothing

ASSUME NamesAssumption ==
    Nobody \notin Drivers /\ Orphan \notin Drivers /\ NoBatch \notin Batches /\ Nothing \notin Contents
ASSUME RequestsAssumption == Requests \in [Drivers -> SUBSET {"prepare", "activate", "rollback"}]
ASSUME BoundsAssumption == MaxGeneration \in Nat /\ MaxWrites \in Nat /\ MaxFaults \in Nat

VARIABLES manifest,  \* state, generation, current batch and checkpoints
          ledger,    \* migration_ledger: batch and edge of each transition
          live,      \* the content of the legacy stores
          snapshot,  \* the frozen copy of each batch
          lock,      \* the creator of the lock file
          pc, job,   \* where each driver is, and what it has read
          matched,   \* history: the batch's copy has equalled the legacy stores in this generation
          writes, faults

system == <<manifest, ledger>>
disk == <<snapshot, lock>>
bounds == <<writes, faults>>
vars == <<system, live, disk, pc, job, matched, bounds>>

NoJob == [batch |-> NoBatch, generation |-> 0, marks |-> {}, seen |-> "V1_ACTIVE",
          token |-> NoBatch, ok |-> TRUE]

Init ==
    /\ manifest = [state |-> "V1_ACTIVE", generation |-> 0, batch |-> NoBatch, marks |-> {}]
    /\ ledger = <<>>
    /\ live \in Contents
    /\ snapshot = [b \in Batches |-> Nothing]
    /\ lock = Nobody
    /\ pc = [d \in Drivers |-> "idle"]
    /\ job = [d \in Drivers |-> NoJob]
    /\ matched = FALSE
    /\ writes = 0 /\ faults = 0

-----------------------------------------------------------------------------
(* ManifestManager: one transaction each.                                  *)

Transitions ==
    [V1_ACTIVE |-> {"V2_BUILDING"}, V2_BUILDING |-> {"V2_READY", "V1_ACTIVE"},
     V2_READY |-> {"V2_ACTIVE", "V1_ACTIVE"}, V2_ACTIVE |-> {"V1_ACTIVE"}]

Verdicts == {"PASS", "DRIFT"}
Checkpoints == {"migrated", "phase2_failed", "prepare_failed"} \cup Verdicts

Opened(b) == \E i \in DOMAIN ledger : ledger[i].batch = b

\* Mutant: an edge does not count.
TransitionUncounted(to, b, marks) ==
    /\ to \in Transitions[manifest.state] /\ manifest.generation < MaxGeneration
    /\ manifest' = [state |-> to, generation |-> manifest.generation, batch |-> b, marks |-> marks]
    /\ ledger' = Append(ledger, [batch |-> b, from |-> manifest.state, to |-> to])

\* The edge to state "to", taken in the name of batch b.
Transition(to, b, marks) ==
    /\ to \in Transitions[manifest.state] /\ manifest.generation < MaxGeneration
    /\ manifest' = [state |-> to, generation |-> manifest.generation + 1, batch |-> b, marks |-> marks]
    /\ ledger' = Append(ledger, [batch |-> b, from |-> manifest.state, to |-> to])

\* Mutant: a batch that failed may be opened again.
MayBeginAgain(b, generation) ==
    manifest.state = "V1_ACTIVE" /\ manifest.generation = generation

\* A batch is opened only if the ledger does not know it.
MayBegin(b, generation) ==
    manifest.state = "V1_ACTIVE" /\ manifest.generation = generation /\ ~Opened(b)

\* READY and ACTIVE take the verdict recorded for the batch and a comparison of
\* the caller's, made for the same batch.
Verified(token) == "PASS" \in manifest.marks /\ token = manifest.batch

\* A verdict stays once it is there: DRIFT is none of the failure states, and of
\* two results that both count as success the first is kept.
Recorded(marks, mark) ==
    IF mark \in Verdicts /\ marks \cap Verdicts # {} THEN marks ELSE marks \cup {mark}

MayRecord(b) == manifest.state \in {"V2_BUILDING", "V2_READY"} /\ manifest.batch = b

RecordAttempt(b, mark) ==
    /\ manifest' = IF MayRecord(b) THEN [manifest EXCEPT !.marks = Recorded(@, mark)] ELSE manifest
    /\ UNCHANGED ledger

-----------------------------------------------------------------------------
(* prepare_v2_workspace: what a driver does with the lock held.            *)

Goto(d, next) == pc' = [pc EXCEPT ![d] = next]

\* The end of a driver's call: it forgets what it has read.
Stop(d) == Goto(d, "idle") /\ job' = [job EXCEPT ![d] = NoJob]

\* The manifest is read; a batch that is being built is resumed, otherwise the
\* caller's or a fresh id is taken, which is not the one of the last batch.
AskPrepare(d, b) ==
    /\ "prepare" \in Requests[d] /\ pc[d] = "idle"
    /\ manifest.state \in {"V1_ACTIVE", "V2_BUILDING"}
    /\ IF manifest.state = "V2_BUILDING" THEN b = manifest.batch ELSE b # manifest.batch
    /\ Goto(d, "locking")
    /\ job' = [job EXCEPT ![d].batch = b, ![d].generation = manifest.generation]
    /\ UNCHANGED <<system, live, disk, bounds>>

Locked == lock # Nobody

TakeLock(d) ==
    /\ pc[d] = "locking"
    /\ IF Locked
       THEN Stop(d) /\ UNCHANGED lock
       ELSE lock' = d /\ Goto(d, "freezing") /\ UNCHANGED job
    /\ UNCHANGED <<system, live, snapshot, bounds>>

\* Under the lock the manifest must still be of the generation read before.  The
\* copy of a batch is made once and reused when the batch is resumed.
Freeze(d) ==
    LET b == job[d].batch IN
    /\ pc[d] = "freezing"
    /\ IF manifest.generation # job[d].generation
       THEN Stop(d) /\ lock' = Nobody /\ UNCHANGED snapshot
       ELSE /\ snapshot' = [snapshot EXCEPT ![b] = IF @ = Nothing THEN live ELSE @]
            /\ Goto(d, "beginning") /\ UNCHANGED <<job, lock>>
    /\ UNCHANGED <<system, live, bounds>>

\* V2MigrationCoordinator._ensure_building: open the batch, or resume it.
Begin(d) ==
    LET b == job[d].batch IN
    /\ pc[d] = "beginning"
    /\ \/ /\ MayBegin(b, job[d].generation)
          /\ Transition("V2_BUILDING", b, {})
          /\ Goto(d, "adopting") /\ UNCHANGED job
       \/ /\ manifest.state = "V2_BUILDING" /\ manifest.batch = b
          /\ Goto(d, "adopting")
          /\ UNCHANGED <<system, job>>
       \/ /\ ~MayBegin(b, job[d].generation)
          /\ ~(manifest.state = "V2_BUILDING" /\ manifest.batch = b)
          /\ Goto(d, "leaving") /\ job' = [job EXCEPT ![d].ok = FALSE]
          /\ UNCHANGED system
    /\ UNCHANGED <<live, disk, bounds>>

\* The generation for the checkpoints is read again.
Adopt(d) ==
    /\ pc[d] = "adopting"
    /\ job' = [job EXCEPT ![d].generation = manifest.generation]
    /\ Goto(d, "migrating")
    /\ UNCHANGED <<system, live, disk, bounds>>

\* V2MigrationCoordinator.run: every step ends with a checkpoint of its batch and
\* generation; the steps stand as one.
Migrate(d) ==
    LET b == job[d].batch IN
    /\ pc[d] = "migrating"
    /\ IF MayRecord(b) /\ manifest.generation = job[d].generation
       THEN RecordAttempt(b, "migrated") /\ Goto(d, "settling")
       ELSE Goto(d, "failing") /\ UNCHANGED system
    /\ UNCHANGED <<live, disk, job, bounds>>

MigrationFails(d) ==
    /\ pc[d] = "migrating" /\ faults < MaxFaults
    /\ Goto(d, "failing") /\ faults' = faults + 1
    /\ UNCHANGED <<system, live, disk, job, writes>>

\* At its end the coordinator wants the manifest to be where it began.
Settle(d) ==
    /\ pc[d] = "settling"
    /\ Goto(d, IF manifest.state = "V2_BUILDING" THEN "verifying" ELSE "failing")
    /\ UNCHANGED <<system, live, disk, job, bounds>>

\* The handler reads the state, and leaves a building manifest where it is ...
LookAtFailure(d) ==
    /\ pc[d] = "failing"
    /\ Goto(d, IF manifest.state = "V1_ACTIVE" THEN "verifying" ELSE "ending")
    /\ job' = [job EXCEPT ![d].seen = manifest.state, ![d].ok = FALSE]
    /\ UNCHANGED <<system, live, disk, bounds>>

\* ... and returns any other one to V1, in the name of its own batch, whatever
\* generation and batch it has by then.
EndFailed(d) ==
    LET b == job[d].batch IN
    /\ pc[d] = "ending"
    /\ \/ job[d].seen = "V2_BUILDING" /\ RecordAttempt(b, "phase2_failed")
       \/ job[d].seen # "V2_BUILDING" /\ Transition("V1_ACTIVE", b, manifest.marks)
       \/ job[d].seen # "V2_BUILDING" /\ manifest.state = "V1_ACTIVE" /\ UNCHANGED system
    /\ Goto(d, "verifying")
    /\ UNCHANGED <<live, disk, job, bounds>>

Verdict(b) == IF snapshot[b] = live THEN "PASS" ELSE "DRIFT"

\* _verify_live_source_snapshot, after a failed migration too.
VerifyLive(d) ==
    /\ pc[d] = "verifying"
    /\ job' = [job EXCEPT ![d].seen = Verdict(job[d].batch)]
    /\ Goto(d, "recording")
    /\ UNCHANGED <<system, live, disk, bounds>>

RecordVerdict(d) ==
    LET b == job[d].batch IN
    /\ pc[d] = "recording"
    /\ RecordAttempt(b, job[d].seen)
    /\ job' = [job EXCEPT ![d].ok = @ /\ MayRecord(b) /\ job[d].seen = "PASS"]
    /\ Goto(d, "leaving")
    /\ UNCHANGED <<live, disk, bounds>>

\* A failure is noted on a manifest that is being built; the lock is released.
LeavePrepare(d) ==
    LET b == job[d].batch IN
    /\ pc[d] = "leaving" /\ lock' = Nobody
    /\ IF manifest.state = "V2_BUILDING" /\ ~job[d].ok
       THEN RecordAttempt(b, "prepare_failed")
       ELSE UNCHANGED system
    /\ IF manifest.state = "V2_BUILDING" /\ job[d].ok
       THEN Goto(d, "assembling") /\ UNCHANGED job
       ELSE Stop(d)
    /\ UNCHANGED <<live, snapshot, bounds>>

-----------------------------------------------------------------------------
(* prepare_v2_ready after the build: without the lock.                     *)

\* ReadinessEvidenceAssembler: batch, generation and checkpoints of a migrated
\* build are the payload of the transition to come.
Assemble(d) ==
    /\ pc[d] = "assembling"
    /\ IF manifest.state = "V2_BUILDING" /\ "migrated" \in manifest.marks
       THEN /\ job' = [job EXCEPT ![d].batch = manifest.batch, ![d].generation = manifest.generation,
                                  ![d].marks = manifest.marks, ![d].token = manifest.batch]
            /\ Goto(d, "proving")
       ELSE Stop(d)
    /\ UNCHANGED <<system, live, disk, bounds>>

\* Mutant: the comparison blocks nothing.
CheckLiveInVain(d) ==
    /\ pc[d] \in {"proving", "checking", "confirming"}
    /\ Goto(d, CASE pc[d] = "proving" -> "marking" [] pc[d] = "checking" -> "readying"
                 [] OTHER -> "entering")
    /\ UNCHANGED <<system, live, disk, job, bounds>>

\* verify_v2_source_snapshot of the batch read before: for the evidence, for
\* mark_v2_ready, and for activate_v2.
CheckLive(d) ==
    /\ pc[d] \in {"proving", "checking", "confirming"}
    /\ IF Verdict(job[d].token) = "PASS"
       THEN /\ Goto(d, CASE pc[d] = "proving" -> "marking" [] pc[d] = "checking" -> "readying"
                         [] OTHER -> "entering")
            /\ UNCHANGED job
       ELSE Stop(d)
    /\ UNCHANGED <<system, live, disk, bounds>>

\* mark_v2_ready and activate_v2 read the manifest again; the comparison is of
\* the batch that they find.
ReadAgain(d) ==
    /\ pc[d] \in {"marking", "activating"}
    /\ IF manifest.state = (IF pc[d] = "marking" THEN "V2_BUILDING" ELSE "V2_READY")
       THEN /\ job' = [job EXCEPT ![d].token = manifest.batch]
            /\ Goto(d, IF pc[d] = "marking" THEN "checking" ELSE "confirming")
       ELSE Stop(d)
    /\ UNCHANGED <<system, live, disk, bounds>>

\* The checkpoints must be those of the evidence.
MayBeReady(d) ==
    /\ manifest.state = "V2_BUILDING" /\ manifest.generation = job[d].generation
    /\ Verified(job[d].token) /\ job[d].marks = manifest.marks

EnterReady(d) ==
    /\ pc[d] = "readying"
    /\ IF MayBeReady(d) THEN Transition("V2_READY", job[d].batch, manifest.marks) ELSE UNCHANGED system
    /\ Stop(d)
    /\ UNCHANGED <<live, disk, bounds>>

-----------------------------------------------------------------------------
(* The operator's activation and rollback.                                 *)

AskActivate(d) ==
    /\ "activate" \in Requests[d] /\ pc[d] = "idle" /\ manifest.state = "V2_READY"
    /\ job' = [job EXCEPT ![d].generation = manifest.generation]
    /\ Goto(d, "activating")
    /\ UNCHANGED <<system, live, disk, bounds>>

MayBeActive(d) ==
    /\ manifest.state = "V2_READY" /\ manifest.generation = job[d].generation
    /\ Verified(job[d].token)

\* READY's batch and evidence are carried over.
EnterActive(d) ==
    /\ pc[d] = "entering"
    /\ IF MayBeActive(d)
       THEN Transition("V2_ACTIVE", manifest.batch, manifest.marks) ELSE UNCHANGED system
    /\ Stop(d)
    /\ UNCHANGED <<live, disk, bounds>>

\* V2RuntimeFacade.rollback: the gate takes one snapshot of the manifest.
AskRollback(d) ==
    /\ "rollback" \in Requests[d] /\ pc[d] = "idle" /\ manifest.state # "V1_ACTIVE"
    /\ job' = [job EXCEPT ![d].generation = manifest.generation, ![d].batch = manifest.batch]
    /\ Goto(d, "reverting")
    /\ UNCHANGED <<system, live, disk, bounds>>

\* The checkpoints of the batch stay for a post-mortem.
Revert(d) ==
    /\ pc[d] = "reverting"
    /\ IF manifest.generation = job[d].generation
       THEN Transition("V1_ACTIVE", job[d].batch, manifest.marks) ELSE UNCHANGED system
    /\ Stop(d)
    /\ UNCHANGED <<live, disk, bounds>>

-----------------------------------------------------------------------------
(* What the drivers do not control.                                        *)

WriteLegacy ==
    /\ writes < MaxWrites /\ writes' = writes + 1
    /\ live' \in Contents \ {live}
    /\ UNCHANGED <<system, disk, pc, job, faults>>

Crash(d) ==
    /\ pc[d] # "idle" /\ faults < MaxFaults /\ faults' = faults + 1
    /\ Stop(d)
    /\ lock' = IF lock = d THEN Orphan ELSE lock
    /\ UNCHANGED <<system, live, snapshot, writes>>

-----------------------------------------------------------------------------
Prepare(d) ==
    \/ \E b \in Batches : AskPrepare(d, b)
    \/ TakeLock(d) \/ Freeze(d) \/ Begin(d) \/ Adopt(d) \/ Migrate(d) \/ MigrationFails(d)
    \/ Settle(d) \/ LookAtFailure(d) \/ EndFailed(d) \/ VerifyLive(d) \/ RecordVerdict(d)
    \/ LeavePrepare(d)

Operate(d) ==
    \/ Assemble(d) \/ CheckLive(d) \/ ReadAgain(d) \/ EnterReady(d)
    \/ AskActivate(d) \/ EnterActive(d) \/ AskRollback(d) \/ Revert(d)

Step == WriteLegacy \/ \E d \in Drivers : Prepare(d) \/ Operate(d) \/ Crash(d)

Matches == manifest.batch # NoBatch /\ snapshot[manifest.batch] = live

Watch == matched' = (Matches' \/ (matched /\ manifest'.generation = manifest.generation))

Next == Step /\ Watch

Spec == Init /\ [][Next]_vars

-----------------------------------------------------------------------------
PCs == {"idle", "locking", "freezing", "beginning", "adopting", "migrating", "settling", "failing",
        "ending", "verifying", "recording", "leaving", "assembling", "proving", "marking", "checking",
        "readying", "activating", "confirming", "entering", "reverting"}

ManifestStates == {"V1_ACTIVE", "V2_BUILDING", "V2_READY", "V2_ACTIVE"}
Rows == [batch : Batches, from : ManifestStates, to : ManifestStates]
Manifests == [state : ManifestStates, generation : 0..MaxGeneration,
              batch : Batches \cup {NoBatch}, marks : SUBSET Checkpoints]
Jobs == [batch : Batches \cup {NoBatch}, generation : 0..MaxGeneration, marks : SUBSET Checkpoints,
         seen : ManifestStates \cup Verdicts, token : Batches \cup {NoBatch}, ok : BOOLEAN]

\* What a driver is about to use it has: a batch, and a copy of it.
HasBatch == PCs \ {"idle", "activating", "confirming", "entering"}
HasToken == {"proving", "checking", "readying", "confirming", "entering"}

(* The types of the variables, with the generation as the length of the ledger *)
(* and a batch for each driver that is about to use one.                     *)
TypeOK ==
    /\ manifest \in Manifests /\ ledger \in Seq(Rows) /\ Len(ledger) = manifest.generation
    /\ live \in Contents /\ snapshot \in [Batches -> Contents \cup {Nothing}]
    /\ lock \in Drivers \cup {Nobody, Orphan}
    /\ pc \in [Drivers -> PCs] /\ job \in [Drivers -> Jobs]
    /\ \A d \in Drivers : /\ pc[d] \in HasBatch => job[d].batch \in Batches
                          /\ pc[d] \in HasToken => job[d].token \in Batches
    /\ matched \in BOOLEAN /\ writes \in 0..MaxWrites /\ faults \in 0..MaxFaults

(* The ledger tells of one batch after the other, each opened once and carried  *)
(* through its states by rows of its own id, and ends where the manifest is:   *)
(* whatever driver takes an edge, and however old what it has read.            *)
BatchesAreWhole ==
    /\ \A i \in DOMAIN ledger :
        IF ledger[i].to = "V2_BUILDING"
        THEN \A j \in 1..(i - 1) : ledger[j].batch # ledger[i].batch
        ELSE i > 1 /\ ledger[i].batch = ledger[i - 1].batch /\ ledger[i].from = ledger[i - 1].to
    /\ ledger # <<>> => /\ manifest.batch = ledger[Len(ledger)].batch
                        /\ manifest.state = ledger[Len(ledger)].to

(* V2 becomes ready, and then active, only if the frozen copy that the batch was  *)
(* built from has equalled the legacy stores at a moment since the manifest      *)
(* entered the state that it leaves.  (Not at the moment of the transition:      *)
(* the comparison is made before it.)                                            *)
CutoverOnMatch ==
    [][manifest'.state \in {"V2_READY", "V2_ACTIVE"} /\ manifest'.state # manifest.state
       => matched]_vars

(* docs/v2/phase2-migration.md: a migration error keeps the manifest in BUILDING. *)
FailuresKeepTheState ==
    [][\A d \in Drivers : EndFailed(d) => manifest'.state = manifest.state]_vars
=============================================================================
