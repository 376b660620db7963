---------------------- MODULE ActivationManifest_proofs ----------------------
(***************************************************************************)
(* Proofs about ActivationManifest, for every set of drivers and batches,  *)
(* whatever is asked of each driver, and every number of transitions,      *)
(* legacy writes, failures and crashes.                                    *)
(***************************************************************************)
EXTENDS ActivationManifest, SequenceTheorems, TLAPS

\* What a driver has read.
Reads(d, b, g, token) ==
    job'[d].batch = b /\ job'[d].generation = g /\ job'[d].token = token

Same(d) == Reads(d, job[d].batch, job[d].generation, job[d].token)

Goes(d, from, to) == pc[d] = from /\ pc'[d] = to

Ends(d) == pc[d] # "idle" /\ pc'[d] = "idle" /\ Reads(d, NoBatch, 0, NoBatch)

Unmoved == /\ ledger' = ledger
           /\ manifest'.state = manifest.state /\ manifest'.generation = manifest.generation
           /\ manifest'.batch = manifest.batch

-----------------------------------------------------------------------------
(* Types.                                                                  *)

\* A driver that stops forgets what it has read.
LEMMA StopForgets == ASSUME job \in [Drivers -> Jobs], NEW d \in Drivers, Stop(d)
                   PROVE  job' \in [Drivers -> Jobs] /\ Reads(d, NoBatch, 0, NoBatch)
<1>1. NoJob \in Jobs /\ NoJob.batch = NoBatch /\ NoJob.generation = 0 /\ NoJob.token = NoBatch
  BY BoundsAssumption DEF NoJob, Jobs, ManifestStates
<1>2. job' = [job EXCEPT ![d] = NoJob]
  BY DEF Stop
<1> QED
  BY <1>1, <1>2 DEF Reads

\* A manifest is changed by a transition, or by a mark.
LEMMA MarksTyped ==
  ASSUME TypeOK, NEW b, NEW mark \in Checkpoints, RecordAttempt(b, mark)
  PROVE  Unmoved /\ manifest' \in Manifests
<1>1. manifest \in Manifests /\ Recorded(manifest.marks, mark) \in SUBSET Checkpoints
  BY DEF TypeOK, Manifests, Recorded
<1>2. CASE manifest' = manifest
  BY <1>1, <1>2 DEF RecordAttempt, Unmoved
<1>3. CASE manifest' = [manifest EXCEPT !.marks = Recorded(@, mark)]
  BY <1>1, <1>3 DEF RecordAttempt, Unmoved, Manifests
<1> QED
  BY <1>2, <1>3 DEF RecordAttempt

\* An edge is one row of the ledger and one generation.
LEMMA TransitionTyped ==
  ASSUME TypeOK, NEW to \in ManifestStates, NEW b \in Batches, NEW marks \in SUBSET Checkpoints,
         Transition(to, b, marks)
  PROVE  /\ manifest' \in Manifests /\ ledger' \in Seq(Rows) /\ Len(ledger') = manifest'.generation
         /\ manifest'.state = to /\ manifest'.batch = b /\ manifest'.generation = manifest.generation + 1
<1>1. /\ manifest.state \in ManifestStates /\ manifest.generation \in 0..MaxGeneration
      /\ ledger \in Seq(Rows) /\ Len(ledger) = manifest.generation /\ MaxGeneration \in Nat
  BY BoundsAssumption DEF TypeOK, Manifests
<1>2. [batch |-> b, from |-> manifest.state, to |-> to] \in Rows
  BY <1>1 DEF Rows
<1>3. manifest' = [state |-> to, generation |-> manifest.generation + 1, batch |-> b, marks |-> marks]
  BY DEF Transition
<1>4. manifest.generation + 1 \in 0..MaxGeneration
  BY <1>1 DEF Transition
<1>5. manifest' \in Manifests
  BY <1>3, <1>4 DEF Manifests
<1>6. ledger' \in Seq(Rows) /\ Len(ledger') = Len(ledger) + 1
  BY <1>1, <1>2 DEF Transition
<1> QED
  BY <1>1, <1>3, <1>5, <1>6

\* What the other drivers have read is not touched.
Kept(d) == job' \in [Drivers -> Jobs] /\ \A e \in Drivers : e # d => job'[e] = job[e]

\* The ways in which the actions change what their driver has read.
LEMMA Updates ==
  ASSUME job \in [Drivers -> Jobs], NEW d \in Drivers
  PROVE  /\ job' = job => Kept(d) /\ Same(d)
         /\ Stop(d) => Kept(d) /\ Reads(d, NoBatch, 0, NoBatch)
         /\ \A b \in Batches \cup {NoBatch}, g \in 0..MaxGeneration :
              job' = [job EXCEPT ![d].batch = b, ![d].generation = g] => Kept(d) /\ Reads(d, b, g, job[d].token)
         /\ \A g \in 0..MaxGeneration :
              job' = [job EXCEPT ![d].generation = g] => Kept(d) /\ Reads(d, job[d].batch, g, job[d].token)
         /\ \A v \in BOOLEAN : job' = [job EXCEPT ![d].ok = v] => Kept(d) /\ Same(d)
         /\ \A x \in ManifestStates \cup Verdicts :
              /\ job' = [job EXCEPT ![d].seen = x] => Kept(d) /\ Same(d)
              /\ job' = [job EXCEPT ![d].seen = x, ![d].ok = FALSE] => Kept(d) /\ Same(d)
         /\ \A b \in Batches \cup {NoBatch} :
              job' = [job EXCEPT ![d].token = b] => Kept(d) /\ Reads(d, job[d].batch, job[d].generation, b)
         /\ \A b \in Batches \cup {NoBatch}, g \in 0..MaxGeneration, m \in SUBSET Checkpoints :
              job' = [job EXCEPT ![d].batch = b, ![d].generation = g, ![d].marks = m, ![d].token = b] =>
                Kept(d) /\ Reads(d, b, g, b)
<1>1. job[d] \in Jobs
  OBVIOUS
<1>2. ASSUME NEW r \in Jobs, job' = [job EXCEPT ![d] = r]
      PROVE  Kept(d) /\ job'[d] = r
  BY <1>2 DEF Kept
<1>3. job' = job => Kept(d) /\ Same(d)
  BY DEF Kept, Same, Reads
<1>4. Stop(d) => Kept(d) /\ Reads(d, NoBatch, 0, NoBatch)
  <2>1. Stop(d) => \A e \in Drivers : e # d => job'[e] = job[e]
    BY DEF Stop
  <2> QED
    BY <2>1, StopForgets DEF Kept
<1>5. ASSUME NEW b \in Batches \cup {NoBatch}, NEW g \in 0..MaxGeneration,
             job' = [job EXCEPT ![d].batch = b, ![d].generation = g]
      PROVE  Kept(d) /\ Reads(d, b, g, job[d].token)
  <2> DEFINE r == [job[d] EXCEPT !.batch = b, !.generation = g]
  <2>1. r \in Jobs /\ r.batch = b /\ r.generation = g /\ r.token = job[d].token
    BY <1>1 DEF Jobs
  <2>2. job' = [job EXCEPT ![d] = r]
    BY <1>5
  <2> QED
    BY <1>2, <2>1, <2>2 DEF Reads
<1>6. ASSUME NEW g \in 0..MaxGeneration, job' = [job EXCEPT ![d].generation = g]
      PROVE  Kept(d) /\ Reads(d, job[d].batch, g, job[d].token)
  <2> DEFINE r == [job[d] EXCEPT !.generation = g]
  <2>1. r \in Jobs /\ r.batch = job[d].batch /\ r.generation = g /\ r.token = job[d].token
    BY <1>1 DEF Jobs
  <2>2. job' = [job EXCEPT ![d] = r]
    BY <1>6
  <2> QED
    BY <1>2, <2>1, <2>2 DEF Reads
<1>7. ASSUME NEW v \in BOOLEAN, job' = [job EXCEPT ![d].ok = v] PROVE Kept(d) /\ Same(d)
  <2> DEFINE r == [job[d] EXCEPT !.ok = v]
  <2>1. r \in Jobs /\ r.batch = job[d].batch /\ r.generation = job[d].generation /\ r.token = job[d].token
    BY <1>1 DEF Jobs
  <2>2. job' = [job EXCEPT ![d] = r]
    BY <1>7
  <2> QED
    BY <1>2, <2>1, <2>2 DEF Reads, Same
<1>8. ASSUME NEW x \in ManifestStates \cup Verdicts, job' = [job EXCEPT ![d].seen = x] PROVE Kept(d) /\ Same(d)
  <2> DEFINE r == [job[d] EXCEPT !.seen = x]
  <2>1. r \in Jobs /\ r.batch = job[d].batch /\ r.generation = job[d].generation /\ r.token = job[d].token
    BY <1>1 DEF Jobs
  <2>2. job' = [job EXCEPT ![d] = r]
    BY <1>8
  <2> QED
    BY <1>2, <2>1, <2>2 DEF Reads, Same
<1>9. ASSUME NEW x \in ManifestStates \cup Verdicts, job' = [job EXCEPT ![d].seen = x, ![d].ok = FALSE]
      PROVE  Kept(d) /\ Same(d)
  <2> DEFINE r == [job[d] EXCEPT !.seen = x, !.ok = FALSE]
  <2>1. r \in Jobs /\ r.batch = job[d].batch /\ r.generation = job[d].generation /\ r.token = job[d].token
    BY <1>1 DEF Jobs
  <2>2. job' = [job EXCEPT ![d] = r]
    BY <1>9
  <2> QED
    BY <1>2, <2>1, <2>2 DEF Reads, Same
<1>10. ASSUME NEW b \in Batches \cup {NoBatch}, job' = [job EXCEPT ![d].token = b]
       PROVE  Kept(d) /\ Reads(d, job[d].batch, job[d].generation, b)
  <2> DEFINE r == [job[d] EXCEPT !.token = b]
  <2>1. r \in Jobs /\ r.batch = job[d].batch /\ r.generation = job[d].generation /\ r.token = b
    BY <1>1 DEF Jobs
  <2>2. job' = [job EXCEPT ![d] = r]
    BY <1>10
  <2> QED
    BY <1>2, <2>1, <2>2 DEF Reads
<1>11. ASSUME NEW b \in Batches \cup {NoBatch}, NEW g \in 0..MaxGeneration, NEW m \in SUBSET Checkpoints,
              job' = [job EXCEPT ![d].batch = b, ![d].generation = g, ![d].marks = m, ![d].token = b]
       PROVE  Kept(d) /\ Reads(d, b, g, b)
  <2> DEFINE r == [job[d] EXCEPT !.batch = b, !.generation = g, !.marks = m, !.token = b]
  <2>1. r \in Jobs /\ r.batch = b /\ r.generation = g /\ r.token = b
    BY <1>1 DEF Jobs
  <2>2. job' = [job EXCEPT ![d] = r]
    BY <1>11
  <2> QED
    BY <1>2, <2>1, <2>2 DEF Reads
<1> QED
  BY <1>3, <1>4, <1>5, <1>6, <1>7, <1>8, <1>9, <1>10, <1>11

-----------------------------------------------------------------------------
(* What each action does to the place of its driver and to what it has     *)
(* read, to the lock and to the copies.                                    *)

\* The actions of prepare_v2_workspace.
LEMMA PrepareSteps ==
  ASSUME TypeOK, NEW d \in Drivers
  PROVE  /\ \A b \in Batches : AskPrepare(d, b) =>
              Kept(d) /\ Goes(d, "idle", "locking") /\ Reads(d, b, manifest.generation, job[d].token)
         /\ TakeLock(d) =>
              /\ Kept(d) /\ pc[d] = "locking"
              /\ \/ Ends(d) /\ lock' = lock
                 \/ Goes(d, "locking", "freezing") /\ Same(d) /\ lock = Nobody /\ lock' = d
         /\ Freeze(d) =>
              /\ Kept(d) /\ pc[d] = "freezing"
              /\ \/ Ends(d) /\ lock' = Nobody /\ snapshot' = snapshot
                 \/ Goes(d, "freezing", "beginning") /\ Same(d) /\ lock' = lock
         /\ Begin(d) =>
              /\ Kept(d) /\ Same(d)
              /\ \/ /\ Goes(d, "beginning", "adopting")
                    /\ MayBegin(job[d].batch, job[d].generation) /\ Transition("V2_BUILDING", job[d].batch, {})
                 \/ Goes(d, "beginning", "adopting") /\ UNCHANGED system /\ manifest.batch = job[d].batch
                 \/ Goes(d, "beginning", "leaving") /\ UNCHANGED system
         /\ Adopt(d) =>
              /\ Kept(d) /\ Goes(d, "adopting", "migrating")
              /\ Reads(d, job[d].batch, manifest.generation, job[d].token)
         /\ Migrate(d) =>
              Kept(d) /\ Same(d) /\ (Goes(d, "migrating", "settling") \/ Goes(d, "migrating", "failing"))
         /\ MigrationFails(d) => Kept(d) /\ Same(d) /\ Goes(d, "migrating", "failing")
         /\ Settle(d) => Kept(d) /\ Same(d) /\ (Goes(d, "settling", "verifying") \/ Goes(d, "settling", "failing"))
         /\ LookAtFailure(d) =>
              Kept(d) /\ Same(d) /\ (Goes(d, "failing", "verifying") \/ Goes(d, "failing", "ending"))
         /\ EndFailed(d) => Kept(d) /\ Same(d) /\ Goes(d, "ending", "verifying")
         /\ VerifyLive(d) => Kept(d) /\ Same(d) /\ Goes(d, "verifying", "recording") /\ job'[d].seen \in Verdicts
         /\ RecordVerdict(d) => Kept(d) /\ Same(d) /\ Goes(d, "recording", "leaving")
         /\ LeavePrepare(d) =>
              /\ Kept(d) /\ pc[d] = "leaving" /\ lock' = Nobody
              /\ Ends(d) \/ (Goes(d, "leaving", "assembling") /\ Same(d))
<1> USE DEF Goes
<1>1. /\ pc \in [Drivers -> PCs] /\ job \in [Drivers -> Jobs] /\ job[d] \in Jobs
      /\ manifest.generation \in 0..MaxGeneration /\ manifest.state \in ManifestStates
  BY DEF TypeOK, Manifests
<1>2. \A place : Goto(d, place) => pc'[d] = place
  BY <1>1 DEF Goto
<1>3. ASSUME Stop(d), pc[d] # "idle" PROVE Kept(d) /\ Ends(d)
  BY <1>1, <1>2, <1>3, Updates DEF Stop, Ends
<1>4. job' = job => Kept(d) /\ Same(d)
  BY <1>1, Updates
<1>5. ASSUME NEW b \in Batches, AskPrepare(d, b)
      PROVE  Kept(d) /\ Goes(d, "idle", "locking") /\ Reads(d, b, manifest.generation, job[d].token)
  BY <1>1, <1>2, <1>5, Updates DEF AskPrepare
<1>6. ASSUME TakeLock(d)
      PROVE  /\ Kept(d) /\ pc[d] = "locking"
             /\ \/ Ends(d) /\ lock' = lock
                \/ Goes(d, "locking", "freezing") /\ Same(d) /\ lock = Nobody /\ lock' = d
  BY <1>2, <1>3, <1>4, <1>6 DEF TakeLock, Locked
<1>7. ASSUME Freeze(d)
      PROVE  /\ Kept(d) /\ pc[d] = "freezing"
             /\ \/ Ends(d) /\ lock' = Nobody /\ snapshot' = snapshot
                \/ Goes(d, "freezing", "beginning") /\ Same(d) /\ lock' = lock
  BY <1>2, <1>3, <1>4, <1>7 DEF Freeze
<1>8. ASSUME Begin(d)
      PROVE  /\ Kept(d) /\ Same(d)
             /\ \/ /\ Goes(d, "beginning", "adopting")
                   /\ MayBegin(job[d].batch, job[d].generation) /\ Transition("V2_BUILDING", job[d].batch, {})
                \/ Goes(d, "beginning", "adopting") /\ UNCHANGED system /\ manifest.batch = job[d].batch
                \/ Goes(d, "beginning", "leaving") /\ UNCHANGED system
  <2>1. job' = [job EXCEPT ![d].ok = FALSE] => Kept(d) /\ Same(d)
    BY <1>1, Updates
  <2> QED
    BY <1>2, <1>4, <1>8, <2>1 DEF Begin
<1>9. ASSUME Adopt(d)
      PROVE  /\ Kept(d) /\ Goes(d, "adopting", "migrating")
             /\ Reads(d, job[d].batch, manifest.generation, job[d].token)
  BY <1>1, <1>2, <1>9, Updates DEF Adopt
<1>10. ASSUME Migrate(d) \/ MigrationFails(d)
       PROVE  Kept(d) /\ Same(d) /\ pc[d] = "migrating" /\ ((Migrate(d) /\ pc'[d] = "settling") \/ pc'[d] = "failing")
  BY <1>2, <1>4, <1>10 DEF Migrate, MigrationFails
<1>11. ASSUME MigrationFails(d) PROVE pc'[d] = "failing"
  BY <1>2, <1>11 DEF MigrationFails
<1>12. ASSUME Settle(d)
       PROVE  Kept(d) /\ Same(d) /\ (Goes(d, "settling", "verifying") \/ Goes(d, "settling", "failing"))
  BY <1>2, <1>4, <1>12 DEF Settle
<1>13. ASSUME LookAtFailure(d)
       PROVE  Kept(d) /\ Same(d) /\ (Goes(d, "failing", "verifying") \/ Goes(d, "failing", "ending"))
  BY <1>1, <1>2, <1>13, Updates DEF LookAtFailure
<1>14. ASSUME EndFailed(d) PROVE Kept(d) /\ Same(d) /\ Goes(d, "ending", "verifying")
  BY <1>2, <1>4, <1>14 DEF EndFailed
<1>15. ASSUME VerifyLive(d)
       PROVE  Kept(d) /\ Same(d) /\ Goes(d, "verifying", "recording") /\ job'[d].seen \in Verdicts
  <2>1. Verdict(job[d].batch) \in Verdicts
    BY DEF Verdict, Verdicts
  <2>2. job'[d].seen = Verdict(job[d].batch)
    BY <1>1, <1>15 DEF VerifyLive, Jobs
  <2> QED
    BY <1>1, <1>2, <1>15, <2>1, <2>2, Updates DEF VerifyLive
<1>16. ASSUME RecordVerdict(d) PROVE Kept(d) /\ Same(d) /\ Goes(d, "recording", "leaving")
  <2>1. PICK v \in BOOLEAN : job' = [job EXCEPT ![d].ok = v]
    <3> DEFINE v == job[d].ok /\ MayRecord(job[d].batch) /\ job[d].seen = "PASS"
    <3>1. v \in BOOLEAN
      BY DEF MayRecord
    <3>2. job' = [job EXCEPT ![d].ok = v]
      BY <1>1, <1>16 DEF RecordVerdict
    <3> HIDE DEF v
    <3> QED
      BY <3>1, <3>2
  <2> QED
    BY <1>1, <1>2, <1>16, <2>1, Updates DEF RecordVerdict
<1>17. ASSUME LeavePrepare(d)
       PROVE  /\ Kept(d) /\ pc[d] = "leaving" /\ lock' = Nobody
              /\ Ends(d) \/ (Goes(d, "leaving", "assembling") /\ Same(d))
  BY <1>2, <1>3, <1>4, <1>17 DEF LeavePrepare
<1> QED
  BY <1>5, <1>6, <1>7, <1>8, <1>9, <1>10, <1>11, <1>12, <1>13, <1>14, <1>15, <1>16, <1>17

\* The actions of prepare_v2_ready, the activation, the rollback and a crash.
LEMMA OperateSteps ==
  ASSUME TypeOK, NEW d \in Drivers
  PROVE  /\ Assemble(d) =>
              /\ Kept(d) /\ pc[d] = "assembling"
              /\ \/ Ends(d)
                 \/ /\ Goes(d, "assembling", "proving") /\ manifest.state = "V2_BUILDING"
                    /\ Reads(d, manifest.batch, manifest.generation, manifest.batch)
         /\ CheckLive(d) =>
              /\ Kept(d)
              /\ \/ Ends(d)
                 \/ /\ Same(d) /\ snapshot[job[d].token] = live
                    /\ \/ Goes(d, "proving", "marking")
                       \/ Goes(d, "checking", "readying")
                       \/ Goes(d, "confirming", "entering")
         /\ ReadAgain(d) =>
              /\ Kept(d)
              /\ \/ Ends(d)
                 \/ /\ Reads(d, job[d].batch, job[d].generation, manifest.batch) /\ manifest.state # "V1_ACTIVE"
                    /\ Goes(d, "marking", "checking") \/ Goes(d, "activating", "confirming")
         /\ EnterReady(d) => Kept(d) /\ Ends(d) /\ pc[d] = "readying"
         /\ AskActivate(d) =>
              /\ Kept(d) /\ Goes(d, "idle", "activating")
              /\ Reads(d, job[d].batch, manifest.generation, job[d].token)
         /\ EnterActive(d) => Kept(d) /\ Ends(d) /\ pc[d] = "entering"
         /\ AskRollback(d) =>
              /\ Kept(d) /\ Goes(d, "idle", "reverting") /\ manifest.state # "V1_ACTIVE"
              /\ Reads(d, manifest.batch, manifest.generation, job[d].token)
         /\ Revert(d) => Kept(d) /\ Ends(d) /\ pc[d] = "reverting"
         /\ Crash(d) => Kept(d) /\ Ends(d) /\ lock' = (IF lock = d THEN Orphan ELSE lock)
<1> USE DEF Goes
<1>1. /\ pc \in [Drivers -> PCs] /\ job \in [Drivers -> Jobs] /\ job[d] \in Jobs
      /\ manifest.generation \in 0..MaxGeneration /\ manifest.batch \in Batches \cup {NoBatch}
      /\ manifest.marks \in SUBSET Checkpoints
  BY DEF TypeOK, Manifests
<1>2. \A place : Goto(d, place) => pc'[d] = place
  BY <1>1 DEF Goto
<1>3. ASSUME Stop(d), pc[d] # "idle" PROVE Kept(d) /\ Ends(d)
  BY <1>1, <1>2, <1>3, Updates DEF Stop, Ends
<1>4. job' = job => Kept(d) /\ Same(d)
  BY <1>1, Updates
<1>5. ASSUME Assemble(d)
      PROVE  /\ Kept(d) /\ pc[d] = "assembling"
             /\ \/ Ends(d)
                \/ /\ Goes(d, "assembling", "proving") /\ manifest.state = "V2_BUILDING"
                   /\ Reads(d, manifest.batch, manifest.generation, manifest.batch)
  <2>1. CASE Stop(d)
    BY <1>3, <1>5, <2>1 DEF Assemble
  <2>2. CASE job' = [job EXCEPT ![d].batch = manifest.batch, ![d].generation = manifest.generation,
                                ![d].marks = manifest.marks, ![d].token = manifest.batch]
    <3>1. Kept(d) /\ Reads(d, manifest.batch, manifest.generation, manifest.batch)
      BY <1>1, <2>2, Updates
    <3> QED
      BY <1>2, <1>3, <1>5, <3>1 DEF Assemble
  <2> QED
    BY <1>5, <2>1, <2>2 DEF Assemble
<1>6. ASSUME CheckLive(d)
      PROVE  /\ Kept(d)
             /\ \/ Ends(d)
                \/ /\ Same(d) /\ snapshot[job[d].token] = live
                   /\ \/ Goes(d, "proving", "marking")
                      \/ Goes(d, "checking", "readying")
                      \/ Goes(d, "confirming", "entering")
  <2>1. CASE Stop(d)
    BY <1>3, <1>6, <2>1 DEF CheckLive
  <2>2. CASE /\ Verdict(job[d].token) = "PASS" /\ UNCHANGED job
             /\ Goto(d, CASE pc[d] = "proving" -> "marking" [] pc[d] = "checking" -> "readying" [] OTHER -> "entering")
    <3>1. snapshot[job[d].token] = live
      BY <2>2 DEF Verdict
    <3>2. Goes(d, "proving", "marking") \/ Goes(d, "checking", "readying") \/ Goes(d, "confirming", "entering")
      BY <1>2, <1>6, <2>2 DEF CheckLive
    <3> QED
      BY <1>4, <2>2, <3>1, <3>2
  <2> QED
    BY <1>6, <2>1, <2>2 DEF CheckLive
<1>7. ASSUME ReadAgain(d)
      PROVE  /\ Kept(d)
             /\ \/ Ends(d)
                \/ /\ Reads(d, job[d].batch, job[d].generation, manifest.batch) /\ manifest.state # "V1_ACTIVE"
                   /\ Goes(d, "marking", "checking") \/ Goes(d, "activating", "confirming")
  <2>1. CASE Stop(d)
    BY <1>3, <1>7, <2>1 DEF ReadAgain
  <2>2. CASE job' = [job EXCEPT ![d].token = manifest.batch] /\ ~ Stop(d)
    <3>1. Kept(d) /\ Reads(d, job[d].batch, job[d].generation, manifest.batch)
      BY <1>1, <2>2, Updates
    <3> QED
      BY <1>2, <1>7, <2>2, <3>1 DEF ReadAgain
  <2> QED
    BY <1>7, <2>1, <2>2 DEF ReadAgain
<1>8. ASSUME EnterReady(d) \/ EnterActive(d) \/ Revert(d) PROVE Kept(d) /\ Ends(d)
  BY <1>3, <1>8 DEF EnterReady, EnterActive, Revert
<1>9. ASSUME AskActivate(d)
      PROVE  /\ Kept(d) /\ Goes(d, "idle", "activating")
             /\ Reads(d, job[d].batch, manifest.generation, job[d].token)
  BY <1>1, <1>2, <1>9, Updates DEF AskActivate
<1>10. ASSUME AskRollback(d)
       PROVE  /\ Kept(d) /\ Goes(d, "idle", "reverting") /\ manifest.state # "V1_ACTIVE"
              /\ Reads(d, manifest.batch, manifest.generation, job[d].token)
  <2>1. job' = [job EXCEPT ![d].batch = manifest.batch, ![d].generation = manifest.generation]
    BY <1>1, <1>10 DEF AskRollback
  <2>2. Kept(d) /\ Reads(d, manifest.batch, manifest.generation, job[d].token)
    BY <1>1, <2>1, Updates
  <2> QED
    BY <1>2, <1>10, <2>2 DEF AskRollback
<1>11. ASSUME Crash(d) PROVE Kept(d) /\ Ends(d) /\ lock' = (IF lock = d THEN Orphan ELSE lock)
  BY <1>3, <1>11 DEF Crash
<1>12. /\ EnterReady(d) => pc[d] = "readying"
       /\ EnterActive(d) => pc[d] = "entering"
       /\ Revert(d) => pc[d] = "reverting"
  BY DEF EnterReady, EnterActive, Revert
<1> QED
  BY <1>5, <1>6, <1>7, <1>8, <1>9, <1>10, <1>11, <1>12

-----------------------------------------------------------------------------
(* What a driver's step does to the rest.                                  *)

Drives(d) == Prepare(d) \/ Operate(d) \/ Crash(d)

\* The driver that is about to record a verdict has one.
HasVerdict == \A d \in Drivers : pc[d] = "recording" => job[d].seen \in Verdicts

\* The edges, and who takes them.
Takes(d) ==
    \/ /\ Begin(d) /\ MayBegin(job[d].batch, job[d].generation)
       /\ Transition("V2_BUILDING", job[d].batch, {})
    \/ EndFailed(d) /\ Transition("V1_ACTIVE", job[d].batch, manifest.marks)
    \/ EnterReady(d) /\ MayBeReady(d) /\ Transition("V2_READY", job[d].batch, manifest.marks)
    \/ EnterActive(d) /\ MayBeActive(d) /\ Transition("V2_ACTIVE", manifest.batch, manifest.marks)
    \/ Revert(d) /\ manifest.generation = job[d].generation /\ Transition("V1_ACTIVE", job[d].batch, manifest.marks)

\* A step either takes one of the five edges or leaves state, generation, batch
\* and ledger as they are.
LEMMA SystemMoves ==
  ASSUME TypeOK, HasVerdict, NEW d \in Drivers, Drives(d)
  PROVE  (Unmoved /\ manifest' \in Manifests) \/ Takes(d)
<1> DEFINE Still == Unmoved /\ manifest' \in Manifests
<1>1. ASSUME UNCHANGED system PROVE Still
  BY <1>1 DEF system, Unmoved, TypeOK
<1>2. ASSUME NEW b, NEW mark \in Checkpoints, RecordAttempt(b, mark) PROVE Still
  BY <1>2, MarksTyped
<1>3. Verdicts \subseteq Checkpoints /\ "migrated" \in Checkpoints /\ "phase2_failed" \in Checkpoints
      /\ "prepare_failed" \in Checkpoints
  BY DEF Checkpoints
<1>4. ASSUME NEW b \in Batches, AskPrepare(d, b) PROVE Still
  BY <1>1, <1>4 DEF AskPrepare
<1>5. ASSUME TakeLock(d) \/ Freeze(d) \/ Adopt(d) \/ MigrationFails(d) \/ Settle(d) \/ LookAtFailure(d) \/ VerifyLive(d)
      PROVE  Still
  BY <1>1, <1>5 DEF TakeLock, Freeze, Adopt, MigrationFails, Settle, LookAtFailure, VerifyLive
<1>6. ASSUME Begin(d) PROVE Still \/ Takes(d)
  BY <1>1, <1>6 DEF Begin, Takes
<1>7. ASSUME Migrate(d) PROVE Still
  BY <1>1, <1>2, <1>3, <1>7 DEF Migrate
<1>8. ASSUME EndFailed(d) PROVE Still \/ Takes(d)
  BY <1>1, <1>2, <1>3, <1>8 DEF EndFailed, Takes
<1>9. ASSUME RecordVerdict(d) PROVE Still
  <2>1. job[d].seen \in Checkpoints
    BY <1>3, <1>9 DEF RecordVerdict, HasVerdict
  <2> QED
    BY <1>2, <1>9, <2>1 DEF RecordVerdict
<1>10. ASSUME LeavePrepare(d) PROVE Still
  BY <1>1, <1>2, <1>3, <1>10 DEF LeavePrepare
<1>11. ASSUME Assemble(d) \/ CheckLive(d) \/ ReadAgain(d) \/ AskActivate(d) \/ AskRollback(d) \/ Crash(d)
       PROVE  Still
  BY <1>1, <1>11 DEF Assemble, CheckLive, ReadAgain, AskActivate, AskRollback, Crash
<1>12. ASSUME EnterReady(d) PROVE Still \/ Takes(d)
  BY <1>1, <1>12 DEF EnterReady, Takes
<1>13. ASSUME EnterActive(d) PROVE Still \/ Takes(d)
  BY <1>1, <1>13 DEF EnterActive, Takes
<1>14. ASSUME Revert(d) PROVE Still \/ Takes(d)
  BY <1>1, <1>14 DEF Revert, Takes
<1> QED
  BY <1>4, <1>5, <1>6, <1>7, <1>8, <1>9, <1>10, <1>11, <1>12, <1>13, <1>14 DEF Drives, Prepare, Operate

\* A driver's step keeps the types of all but the manifest, and the other drivers.
LEMMA DriverTyped ==
  ASSUME TypeOK, NEW d \in Drivers, Drives(d)
  PROVE  /\ Kept(d)
         /\ pc' \in [Drivers -> PCs] /\ \A e \in Drivers : e # d => pc'[e] = pc[e]
         /\ live' = live /\ snapshot' \in [Batches -> Contents \cup {Nothing}]
         /\ writes' \in 0..MaxWrites /\ faults' \in 0..MaxFaults
<1> DEFINE Placed == pc' \in [Drivers -> PCs] /\ \A e \in Drivers : e # d => pc'[e] = pc[e]
<1>1. pc \in [Drivers -> PCs] /\ snapshot \in [Batches -> Contents \cup {Nothing}] /\ live \in Contents
      /\ writes \in 0..MaxWrites /\ faults \in 0..MaxFaults
  BY DEF TypeOK
<1>2. ASSUME NEW place \in PCs, Goto(d, place) PROVE Placed
  BY <1>1, <1>2 DEF Goto
<1>3. ASSUME Stop(d) PROVE Placed
  BY <1>2, <1>3 DEF Stop, PCs
<1>4. ASSUME NEW b \in Batches, AskPrepare(d, b) PROVE Placed
  BY <1>2, <1>4 DEF AskPrepare, PCs
<1>5. ASSUME TakeLock(d) \/ Freeze(d) \/ Begin(d) \/ Adopt(d) \/ Migrate(d) \/ MigrationFails(d) PROVE Placed
  BY <1>2, <1>3, <1>5 DEF TakeLock, Freeze, Begin, Adopt, Migrate, MigrationFails, PCs
<1>6. ASSUME Settle(d) \/ LookAtFailure(d) \/ EndFailed(d) \/ VerifyLive(d) \/ RecordVerdict(d) \/ LeavePrepare(d)
      PROVE  Placed
  BY <1>2, <1>3, <1>6 DEF Settle, LookAtFailure, EndFailed, VerifyLive, RecordVerdict, LeavePrepare, PCs
<1>7. ASSUME Assemble(d) \/ CheckLive(d) \/ ReadAgain(d) \/ EnterReady(d) \/ AskActivate(d) \/ EnterActive(d)
             \/ AskRollback(d) \/ Revert(d) \/ Crash(d)
      PROVE  Placed
  <2>1. CASE CheckLive(d)
    <3>1. (CASE pc[d] = "proving" -> "marking" [] pc[d] = "checking" -> "readying" [] OTHER -> "entering") \in PCs
      BY DEF PCs
    <3> QED
      BY <1>2, <1>3, <2>1, <3>1 DEF CheckLive
  <2>2. CASE ReadAgain(d)
    BY <1>2, <1>3, <2>2 DEF ReadAgain, PCs
  <2> QED
    BY <1>2, <1>3, <1>7, <2>1, <2>2 DEF Assemble, EnterReady, AskActivate, EnterActive, AskRollback, Revert, Crash, PCs
<1>8. Placed
  BY <1>4, <1>5, <1>6, <1>7 DEF Drives, Prepare, Operate
<1>9. Kept(d)
  BY PrepareSteps, OperateSteps DEF Drives, Prepare, Operate
<1>10. live' = live /\ writes' = writes
  <2>1. ASSUME NEW b \in Batches, AskPrepare(d, b) PROVE live' = live /\ writes' = writes
    BY <2>1 DEF AskPrepare, bounds
  <2>2. ASSUME Prepare(d), \A b \in Batches : ~ AskPrepare(d, b) PROVE live' = live /\ writes' = writes
    BY <2>2 DEF Prepare, TakeLock, Freeze, Begin, Adopt, Migrate, MigrationFails, Settle, LookAtFailure, EndFailed,
                VerifyLive, RecordVerdict, LeavePrepare, bounds
  <2>3. ASSUME Operate(d) \/ Crash(d) PROVE live' = live /\ writes' = writes
    BY <2>3 DEF Operate, Assemble, CheckLive, ReadAgain, EnterReady, AskActivate, EnterActive, AskRollback, Revert,
                Crash, bounds
  <2> QED
    BY <2>1, <2>2, <2>3 DEF Drives
<1>11. faults' = faults \/ (faults < MaxFaults /\ faults' = faults + 1)
  <2>1. ASSUME NEW b \in Batches, AskPrepare(d, b) PROVE faults' = faults
    BY <2>1 DEF AskPrepare, bounds
  <2>2. ASSUME Prepare(d), \A b \in Batches : ~ AskPrepare(d, b)
        PROVE  faults' = faults \/ (faults < MaxFaults /\ faults' = faults + 1)
    BY <2>2 DEF Prepare, TakeLock, Freeze, Begin, Adopt, Migrate, MigrationFails, Settle, LookAtFailure, EndFailed,
                VerifyLive, RecordVerdict, LeavePrepare, bounds
  <2>3. ASSUME Operate(d) \/ Crash(d) PROVE faults' = faults \/ (faults < MaxFaults /\ faults' = faults + 1)
    BY <2>3 DEF Operate, Assemble, CheckLive, ReadAgain, EnterReady, AskActivate, EnterActive, AskRollback, Revert,
                Crash, bounds
  <2> QED
    BY <2>1, <2>2, <2>3 DEF Drives
<1>12. snapshot' = snapshot \/ (Freeze(d) /\ snapshot' = [snapshot EXCEPT ![job[d].batch] = IF @ = Nothing THEN live ELSE @])
  <2>1. ASSUME NEW b \in Batches, AskPrepare(d, b) PROVE snapshot' = snapshot
    BY <2>1 DEF AskPrepare, disk
  <2>2. CASE Freeze(d)
    BY <2>2 DEF Freeze
  <2>3. ASSUME Prepare(d), \A b \in Batches : ~ AskPrepare(d, b), ~ Freeze(d) PROVE snapshot' = snapshot
    BY <2>3 DEF Prepare, TakeLock, Begin, Adopt, Migrate, MigrationFails, Settle, LookAtFailure, EndFailed,
                VerifyLive, RecordVerdict, LeavePrepare, disk
  <2>4. ASSUME Operate(d) \/ Crash(d) PROVE snapshot' = snapshot
    BY <2>4 DEF Operate, Assemble, CheckLive, ReadAgain, EnterReady, AskActivate, EnterActive, AskRollback, Revert,
                Crash, disk
  <2> QED
    BY <2>1, <2>2, <2>3, <2>4 DEF Drives
<1>13. snapshot' \in [Batches -> Contents \cup {Nothing}]
  BY <1>1, <1>12
<1>14. faults' \in 0..MaxFaults
  BY <1>1, <1>11, BoundsAssumption
<1> QED
  BY <1>1, <1>8, <1>9, <1>10, <1>13, <1>14

-----------------------------------------------------------------------------
(* The invariants.                                                         *)

\* V1 has been left by an edge that is in the ledger.
Started == manifest.state # "V1_ACTIVE" => ledger # <<>>

\* Who works on a batch holds the lock.
Holding == {"freezing", "beginning", "adopting", "migrating", "settling", "failing", "ending", "verifying",
            "recording", "leaving"}

HoldersAlone == \A d \in Drivers : pc[d] \in Holding => lock = d

\* ... so that from its begin to its verdict the batch in force is its own.
Working == {"adopting", "migrating", "settling", "failing", "ending", "verifying", "recording"}

WorkIsCurrent == \A d \in Drivers : pc[d] \in Working => job[d].batch = manifest.batch

\* Who does not hold the lock knows the batch of the generation that it has read.
Carrying == {"proving", "marking", "checking", "readying", "reverting"}

KnowsGeneration(d) ==
    /\ job[d].generation <= manifest.generation
    /\ pc[d] \in Carrying /\ job[d].generation = manifest.generation => job[d].batch = manifest.batch

\* Who is about to enter READY or ACTIVE has seen the copy equal the legacy stores.
KnowsMatch(d) ==
    pc[d] \in {"readying", "entering"} /\ job[d].generation = manifest.generation /\ job[d].token = manifest.batch
      => matched

Knowledge == \A d \in Drivers : KnowsGeneration(d) /\ KnowsMatch(d)

ManifestInv ==
    /\ TypeOK /\ HasVerdict /\ Started /\ BatchesAreWhole
    /\ HoldersAlone /\ WorkIsCurrent /\ Knowledge

\* A manifest that has left V1 has a batch.
LEMMA BatchInForce ==
  ASSUME ManifestInv, manifest.state # "V1_ACTIVE"
  PROVE  manifest.batch \in Batches
<1>1. ledger \in Seq(Rows) /\ ledger # <<>>
  BY DEF ManifestInv, TypeOK, Started
<1>2. Len(ledger) \in 1..Len(ledger)
  BY <1>1
<1>3. ledger[Len(ledger)] \in Rows
  BY <1>1, <1>2
<1> QED
  BY <1>1, <1>3 DEF ManifestInv, BatchesAreWhole, Rows

\* A batch opened once, or an edge of the last one, keeps the ledger whole.
LEMMA LedgerGrows ==
  ASSUME TypeOK, BatchesAreWhole, NEW to \in ManifestStates, NEW b \in Batches, NEW marks \in SUBSET Checkpoints,
         Transition(to, b, marks),
         IF to = "V2_BUILDING" THEN ~ Opened(b) ELSE b = manifest.batch /\ ledger # <<>>
  PROVE  BatchesAreWhole' /\ ledger' # <<>>
<1> DEFINE n == Len(ledger)
           row == [batch |-> b, from |-> manifest.state, to |-> to]
<1>1. ledger \in Seq(Rows) /\ n \in Nat /\ manifest.state \in ManifestStates
  BY DEF TypeOK, Manifests
<1>2. row \in Rows /\ row.batch = b /\ row.from = manifest.state /\ row.to = to
  BY <1>1 DEF Rows
<1>3. ledger' = Append(ledger, row)
  BY DEF Transition
<1> HIDE DEF row
<1>4. /\ ledger' \in Seq(Rows) /\ Len(ledger') = n + 1 /\ ledger'[n + 1] = row
      /\ \A i \in 1..n : ledger'[i] = ledger[i]
  BY <1>1, <1>2, <1>3
<1>5. DOMAIN ledger' = 1..(n + 1) /\ DOMAIN ledger = 1..n
  BY <1>1, <1>4
<1>6. manifest'.state = to /\ manifest'.batch = b
  BY TransitionTyped
<1>7. ASSUME NEW i \in 1..(n + 1)
      PROVE  IF ledger'[i].to = "V2_BUILDING"
             THEN \A j \in 1..(i - 1) : ledger'[j].batch # ledger'[i].batch
             ELSE i > 1 /\ ledger'[i].batch = ledger'[i - 1].batch /\ ledger'[i].from = ledger'[i - 1].to
  <2>1. CASE i \in 1..n
    <3>1. IF ledger[i].to = "V2_BUILDING"
          THEN \A j \in 1..(i - 1) : ledger[j].batch # ledger[i].batch
          ELSE i > 1 /\ ledger[i].batch = ledger[i - 1].batch /\ ledger[i].from = ledger[i - 1].to
      BY <1>5, <2>1 DEF BatchesAreWhole
    <3>2. \A j \in 1..(i - 1) : j \in 1..n
      BY <1>1, <2>1
    <3>3. i > 1 => i - 1 \in 1..n
      BY <1>1, <2>1
    <3> QED
      BY <1>4, <2>1, <3>1, <3>2, <3>3
  <2>2. CASE i = n + 1 /\ to = "V2_BUILDING"
    <3>1. \A j \in 1..n : ledger[j].batch # b
      BY <1>5, <2>2 DEF Opened
    <3>2. i - 1 = n
      BY <1>1, <2>2
    <3> QED
      BY <1>2, <1>4, <2>2, <3>1, <3>2
  <2>3. CASE i = n + 1 /\ to # "V2_BUILDING"
    <3>1. n > 0 /\ i - 1 = n /\ n \in 1..n
      <4>1. n # 0
        BY <1>1, <2>3, EmptySeq
      <4> QED
        BY <1>1, <2>3, <4>1
    <3>2. manifest.batch = ledger[n].batch /\ manifest.state = ledger[n].to
      BY <2>3 DEF BatchesAreWhole
    <3>3. ledger'[i] = row /\ ledger'[i - 1] = ledger[n]
      BY <1>4, <2>3, <3>1
    <3>4. i > 1
      BY <1>1, <2>3, <3>1
    <3> QED
      BY <1>2, <2>3, <3>2, <3>3, <3>4
  <2> QED
    BY <1>1, <2>1, <2>2, <2>3
<1>8. ledger' # <<>>
  BY <1>1, <1>4
<1>9. manifest'.batch = ledger'[Len(ledger')].batch /\ manifest'.state = ledger'[Len(ledger')].to
  BY <1>2, <1>4, <1>6
<1> QED
  BY <1>5, <1>7, <1>8, <1>9 DEF BatchesAreWhole

-----------------------------------------------------------------------------
(* Every step keeps them.                                                  *)

\* The edges are of the batch in force, or open a new one.
LEMMA EdgesAreOfTheBatch ==
  ASSUME ManifestInv, NEW d \in Drivers, Takes(d)
  PROVE  /\ manifest' \in Manifests /\ ledger' \in Seq(Rows) /\ Len(ledger') = manifest'.generation
         /\ manifest'.generation = manifest.generation + 1
         /\ BatchesAreWhole' /\ ledger' # <<>>
         /\ (Begin(d) /\ manifest'.batch = job[d].batch) \/ manifest'.batch = manifest.batch
<1> USE DEF ManifestInv
<1>1. /\ job[d] \in Jobs /\ manifest.marks \in SUBSET Checkpoints /\ {} \in SUBSET Checkpoints
      /\ pc[d] \in HasBatch => job[d].batch \in Batches
      /\ manifest.state \in ManifestStates
  BY DEF TypeOK, Manifests
<1>2. ASSUME NEW to \in ManifestStates \ {"V2_BUILDING"}, NEW b, b = manifest.batch, Transition(to, b, manifest.marks)
      PROVE  /\ manifest' \in Manifests /\ ledger' \in Seq(Rows) /\ Len(ledger') = manifest'.generation
             /\ manifest'.generation = manifest.generation + 1 /\ manifest'.batch = manifest.batch
             /\ BatchesAreWhole' /\ ledger' # <<>>
  <2>1. manifest.state # "V1_ACTIVE"
    BY <1>2 DEF Transition, Transitions
  <2>2. b \in Batches /\ ledger # <<>>
    BY <1>2, <2>1, BatchInForce DEF Started
  <2>3. /\ manifest' \in Manifests /\ ledger' \in Seq(Rows) /\ Len(ledger') = manifest'.generation
        /\ manifest'.batch = b /\ manifest'.generation = manifest.generation + 1
    BY <1>1, <1>2, <2>2, TransitionTyped
  <2>4. BatchesAreWhole' /\ ledger' # <<>>
    BY <1>1, <1>2, <2>2, LedgerGrows
  <2> QED
    BY <1>2, <2>3, <2>4
<1>3. CASE Begin(d) /\ MayBegin(job[d].batch, job[d].generation) /\ Transition("V2_BUILDING", job[d].batch, {})
  <2>1. job[d].batch \in Batches /\ ~ Opened(job[d].batch) /\ "V2_BUILDING" \in ManifestStates
    BY <1>1, <1>3 DEF Begin, HasBatch, PCs, MayBegin, ManifestStates
  <2>2. /\ manifest' \in Manifests /\ ledger' \in Seq(Rows) /\ Len(ledger') = manifest'.generation
        /\ manifest'.batch = job[d].batch /\ manifest'.generation = manifest.generation + 1
    BY <1>1, <1>3, <2>1, TransitionTyped
  <2>3. BatchesAreWhole' /\ ledger' # <<>>
    BY <1>1, <1>3, <2>1, LedgerGrows
  <2> QED
    BY <1>3, <2>2, <2>3
<1>4. CASE EndFailed(d) /\ Transition("V1_ACTIVE", job[d].batch, manifest.marks)
  <2>1. job[d].batch = manifest.batch /\ "V1_ACTIVE" \in ManifestStates
    BY <1>4 DEF EndFailed, WorkIsCurrent, Working, ManifestStates
  <2> QED
    BY <1>2, <1>4, <2>1
<1>5. CASE EnterReady(d) /\ MayBeReady(d) /\ Transition("V2_READY", job[d].batch, manifest.marks)
  <2>1. job[d].batch = manifest.batch /\ "V2_READY" \in ManifestStates
    BY <1>5 DEF EnterReady, MayBeReady, Knowledge, KnowsGeneration, Carrying, ManifestStates
  <2> QED
    BY <1>2, <1>5, <2>1
<1>6. CASE EnterActive(d) /\ MayBeActive(d) /\ Transition("V2_ACTIVE", manifest.batch, manifest.marks)
  <2>1. "V2_ACTIVE" \in ManifestStates
    BY DEF ManifestStates
  <2> QED
    BY <1>2, <1>6, <2>1
<1>7. CASE Revert(d) /\ manifest.generation = job[d].generation /\ Transition("V1_ACTIVE", job[d].batch, manifest.marks)
  <2>1. job[d].batch = manifest.batch /\ "V1_ACTIVE" \in ManifestStates
    BY <1>7 DEF Revert, Knowledge, KnowsGeneration, Carrying, ManifestStates
  <2> QED
    BY <1>2, <1>7, <2>1
<1> QED
  BY <1>3, <1>4, <1>5, <1>6, <1>7 DEF Takes

\* The lock is left alone, taken, released by its holder, or orphaned.
LEMMA LockMoves ==
  ASSUME TypeOK, NEW d \in Drivers, Drives(d)
  PROVE  \/ lock' = lock /\ (pc'[d] \in Holding => pc[d] \in Holding)
         \/ lock = Nobody /\ lock' = d
         \/ pc[d] \in Holding /\ pc'[d] \notin Holding /\ lock' = Nobody
         \/ lock = d /\ lock' = Orphan /\ pc'[d] \notin Holding
<1> USE DEF Goes, Ends, Holding
<1>1. ASSUME NEW b \in Batches, AskPrepare(d, b)
      PROVE  lock' = lock /\ (pc'[d] \in Holding => pc[d] \in Holding)
  BY <1>1, PrepareSteps DEF AskPrepare, disk
<1>2. CASE TakeLock(d) \/ Freeze(d) \/ LeavePrepare(d) \/ Crash(d)
  BY <1>2, PrepareSteps, OperateSteps
<1>3. ASSUME Begin(d) \/ Adopt(d) \/ Migrate(d) \/ MigrationFails(d) \/ Settle(d) \/ LookAtFailure(d) \/ EndFailed(d)
             \/ VerifyLive(d) \/ RecordVerdict(d)
      PROVE  lock' = lock /\ (pc'[d] \in Holding => pc[d] \in Holding)
  <2>1. lock' = lock
    BY <1>3 DEF Begin, Adopt, Migrate, MigrationFails, Settle, LookAtFailure, EndFailed, VerifyLive, RecordVerdict, disk
  <2>2. pc[d] \in Holding
    BY <1>3 DEF Begin, Adopt, Migrate, MigrationFails, Settle, LookAtFailure, EndFailed, VerifyLive, RecordVerdict
  <2> QED
    BY <2>1, <2>2
<1>4. ASSUME Operate(d) PROVE lock' = lock /\ (pc'[d] \in Holding => pc[d] \in Holding)
  <2>1. lock' = lock
    BY <1>4 DEF Operate, Assemble, CheckLive, ReadAgain, EnterReady, AskActivate, EnterActive, AskRollback, Revert, disk
  <2>2. pc'[d] \notin Holding
    BY <1>4, OperateSteps DEF Operate
  <2> QED
    BY <2>1, <2>2
<1> QED
  BY <1>1, <1>2, <1>3, <1>4 DEF Drives, Prepare

\* The lock stays with who holds it.
LEMMA HoldersStep ==
  ASSUME ManifestInv, NEW d \in Drivers, Drives(d)
  PROVE  lock' \in Drivers \cup {Nobody, Orphan} /\ HoldersAlone'
<1> USE DEF ManifestInv
<1>1. lock \in Drivers \cup {Nobody, Orphan} /\ Nobody \notin Drivers /\ Orphan \notin Drivers
  BY NamesAssumption DEF TypeOK
<1>2. \A e \in Drivers : e # d => pc'[e] = pc[e]
  BY DriverTyped
<1> QED
  BY <1>1, <1>2, LockMoves DEF HoldersAlone

\* Where a driver's step takes it, and with what.
LEMMA DriverMoves ==
  ASSUME TypeOK, NEW d \in Drivers, Drives(d)
  PROVE  /\ pc'[d] \in Working =>
              /\ job'[d].batch = job[d].batch
              /\ \/ pc[d] \in Working
                 \/ Begin(d) /\ Transition("V2_BUILDING", job[d].batch, {})
                 \/ Begin(d) /\ UNCHANGED system /\ manifest.batch = job[d].batch
         /\ \/ job'[d].generation = job[d].generation \/ job'[d].generation = manifest.generation
            \/ job'[d].generation = 0
         /\ pc'[d] \in Carrying =>
              \/ pc[d] \in Carrying /\ job'[d].batch = job[d].batch /\ job'[d].generation = job[d].generation
              \/ job'[d].batch = manifest.batch /\ job'[d].generation = manifest.generation
         /\ pc'[d] \in {"readying", "entering"} =>
              /\ pc[d] \in {"checking", "confirming"} /\ Same(d) /\ snapshot[job[d].token] = live
              /\ snapshot' = snapshot /\ live' = live
         /\ pc'[d] = "recording" => job'[d].seen \in Verdicts
<1> USE DEF Goes, Ends, Reads, Same, Working, Carrying
<1>1. ASSUME NEW b \in Batches, AskPrepare(d, b)
      PROVE  /\ pc'[d] \notin Working \cup Carrying \cup {"readying", "entering", "recording"}
             /\ job'[d].generation = manifest.generation
  BY <1>1, PrepareSteps
<1>2. ASSUME TakeLock(d) \/ Freeze(d) \/ LeavePrepare(d)
      PROVE  /\ pc'[d] \notin Working \cup Carrying \cup {"readying", "entering", "recording"}
             /\ job'[d].generation = job[d].generation \/ job'[d].generation = 0
  BY <1>2, PrepareSteps
<1>3. ASSUME Begin(d)
      PROVE  /\ pc'[d] \notin Carrying \cup {"readying", "entering", "recording"} /\ Same(d)
             /\ pc'[d] \in Working =>
                  \/ Begin(d) /\ Transition("V2_BUILDING", job[d].batch, {})
                  \/ Begin(d) /\ UNCHANGED system /\ manifest.batch = job[d].batch
  BY <1>3, PrepareSteps
<1>4. ASSUME \/ Adopt(d) \/ Migrate(d) \/ MigrationFails(d) \/ Settle(d) \/ LookAtFailure(d) \/ EndFailed(d)
             \/ VerifyLive(d) \/ RecordVerdict(d)
      PROVE  /\ pc'[d] \notin Carrying \cup {"readying", "entering"} /\ pc[d] \in Working
             /\ job'[d].batch = job[d].batch
             /\ job'[d].generation = job[d].generation \/ job'[d].generation = manifest.generation
             /\ pc'[d] = "recording" => job'[d].seen \in Verdicts
  BY <1>4, PrepareSteps
<1>5. ASSUME Assemble(d) \/ AskActivate(d) \/ AskRollback(d)
      PROVE  /\ pc'[d] \notin Working \cup {"readying", "entering", "recording"}
             /\ job'[d].generation = manifest.generation \/ job'[d].generation = 0
             /\ pc'[d] \in Carrying => job'[d].batch = manifest.batch /\ job'[d].generation = manifest.generation
  BY <1>5, OperateSteps
<1>6. ASSUME CheckLive(d)
      PROVE  /\ pc'[d] \notin Working \cup {"recording"}
             /\ job'[d].generation = job[d].generation \/ job'[d].generation = 0
             /\ pc'[d] \in Carrying \cup {"entering"} => Same(d)
             /\ pc'[d] \in Carrying => pc[d] \in Carrying
             /\ pc'[d] \in {"readying", "entering"} =>
                  /\ pc[d] \in {"checking", "confirming"} /\ snapshot[job[d].token] = live
                  /\ snapshot' = snapshot /\ live' = live
  <2>1. snapshot' = snapshot /\ live' = live
    BY <1>6 DEF CheckLive, disk
  <2> QED
    BY <1>6, <2>1, OperateSteps
<1>7. ASSUME ReadAgain(d)
      PROVE  /\ pc'[d] \notin Working \cup {"readying", "entering", "recording"}
             /\ job'[d].generation = job[d].generation \/ job'[d].generation = 0
             /\ pc'[d] \in Carrying => /\ pc[d] \in Carrying /\ job'[d].batch = job[d].batch
                                       /\ job'[d].generation = job[d].generation
  BY <1>7, OperateSteps
<1>8. ASSUME EnterReady(d) \/ EnterActive(d) \/ Revert(d) \/ Crash(d)
      PROVE  pc'[d] = "idle" /\ job'[d].generation = 0
  BY <1>8, OperateSteps
<1> HIDE DEF Goes, Ends, Reads, Same, Working, Carrying
<1>9. CASE \E b \in Batches : AskPrepare(d, b)
  BY <1>1, <1>9
<1>10. CASE TakeLock(d) \/ Freeze(d) \/ LeavePrepare(d)
  BY <1>2, <1>10
<1>11. CASE Begin(d)
  BY <1>3, <1>11 DEF Same, Reads
<1>12. CASE \/ Adopt(d) \/ Migrate(d) \/ MigrationFails(d) \/ Settle(d) \/ LookAtFailure(d) \/ EndFailed(d)
            \/ VerifyLive(d) \/ RecordVerdict(d)
  BY <1>4, <1>12
<1>13. CASE Assemble(d) \/ AskActivate(d) \/ AskRollback(d)
  BY <1>5, <1>13
<1>14. CASE CheckLive(d)
  <2>1. "readying" \in Carrying
    BY DEF Carrying
  <2> QED
    BY <1>6, <1>14, <2>1 DEF Same, Reads
<1>15. CASE ReadAgain(d)
  BY <1>7, <1>15
<1>16. CASE EnterReady(d) \/ EnterActive(d) \/ Revert(d) \/ Crash(d)
  BY <1>8, <1>16 DEF Working, Carrying
<1> QED
  BY <1>9, <1>10, <1>11, <1>12, <1>13, <1>14, <1>15, <1>16 DEF Drives, Prepare, Operate

\* While one driver works on its batch no other opens one: it would need the lock.
LEMMA WorkStep ==
  ASSUME ManifestInv, NEW d \in Drivers, Drives(d)
  PROVE  WorkIsCurrent'
<1> USE DEF ManifestInv
<1> SUFFICES ASSUME NEW e \in Drivers, pc'[e] \in Working PROVE job'[e].batch = manifest'.batch
  BY DEF WorkIsCurrent
<1>1. e # d => pc'[e] = pc[e] /\ job'[e] = job[e]
  BY DriverTyped DEF Kept
<1>2. pc[e] \in Working => job[e].batch = manifest.batch
  BY DEF WorkIsCurrent
<1>3. CASE Unmoved
  <2>1. CASE e = d
    <3>1. pc[d] \in Working \/ (Begin(d) /\ UNCHANGED system /\ manifest.batch = job[d].batch)
      <4>1. ASSUME Transition("V2_BUILDING", job[d].batch, {}) PROVE FALSE
        <5>1. manifest'.generation = manifest.generation + 1 /\ manifest.generation \in Nat
          BY <4>1 DEF Transition, TypeOK, Manifests
        <5> QED
          BY <1>3, <5>1 DEF Unmoved
      <4> QED
        BY <2>1, <4>1, DriverMoves
    <3> QED
      BY <1>2, <1>3, <2>1, <3>1, DriverMoves DEF Unmoved
  <2> QED
    BY <1>1, <1>2, <1>3, <2>1 DEF Unmoved
<1>4. CASE Takes(d)
  <2>1. CASE e = d
    <3>1. job'[d].batch = job[d].batch
      BY <2>1, DriverMoves
    <3>2. Transition("V2_BUILDING", job[d].batch, {}) => manifest'.batch = job[d].batch
      BY DEF Transition
    <3>3. (Begin(d) /\ manifest'.batch = job[d].batch) \/ manifest'.batch = manifest.batch
      BY <1>4, EdgesAreOfTheBatch
    <3> QED
      BY <1>2, <2>1, <3>1, <3>2, <3>3, DriverMoves
  <2>2. CASE e # d
    <3>1. ~ Begin(d)
      <4>1. lock = e
        BY <1>1, <2>2 DEF HoldersAlone, Working, Holding
      <4>2. Begin(d) => lock = d
        BY DEF HoldersAlone, Begin, Holding
      <4> QED
        BY <2>2, <4>1, <4>2
    <3> QED
      BY <1>1, <1>2, <1>4, <2>2, <3>1, EdgesAreOfTheBatch
  <2> QED
    BY <2>1, <2>2
<1> QED
  BY <1>3, <1>4, SystemMoves

\* An edge makes everything read before it old; nothing else moves the manifest.
LEMMA KnowledgeStep ==
  ASSUME ManifestInv, NEW d \in Drivers, Drives(d), Watch
  PROVE  Knowledge'
<1> USE DEF ManifestInv
<1> SUFFICES ASSUME NEW e \in Drivers PROVE (KnowsGeneration(e) /\ KnowsMatch(e))'
  BY DEF Knowledge
<1>1. e # d => pc'[e] = pc[e] /\ job'[e] = job[e]
  BY DriverTyped DEF Kept
<1>2. KnowsGeneration(e) /\ KnowsMatch(e)
  BY DEF Knowledge
<1>3. manifest.generation \in Nat /\ job[e].generation \in Nat
  BY DEF TypeOK, Manifests, Jobs
<1>4. job'[e].generation <= manifest.generation
  BY <1>1, <1>2, <1>3, DriverMoves DEF KnowsGeneration
<1>5. CASE Takes(d)
  <2>1. manifest'.generation = manifest.generation + 1
    BY <1>5, EdgesAreOfTheBatch
  <2>2. job'[e].generation \in Nat
    BY DriverTyped, BoundsAssumption DEF Kept, Jobs
  <2>3. job'[e].generation <= manifest'.generation /\ job'[e].generation # manifest'.generation
    BY <1>3, <1>4, <2>1, <2>2
  <2> QED
    BY <2>3 DEF KnowsGeneration, KnowsMatch
<1>6. CASE Unmoved
  <2>1. manifest'.generation = manifest.generation /\ manifest'.batch = manifest.batch
    BY <1>6 DEF Unmoved
  <2>2. KnowsGeneration(e)'
    <3>1. CASE e = d
      BY <1>2, <1>4, <2>1, <3>1, DriverMoves DEF KnowsGeneration
    <3> QED
      BY <1>1, <1>2, <1>4, <2>1, <3>1 DEF KnowsGeneration
  <2>3. matched => matched'
    BY <2>1 DEF Watch
  <2>4. KnowsMatch(e)'
    <3>1. CASE e # d
      BY <1>1, <1>2, <2>1, <2>3, <3>1 DEF KnowsMatch
    <3>2. CASE e = d
      <4> SUFFICES ASSUME pc'[d] \in {"readying", "entering"}, job'[d].token = manifest'.batch PROVE matched'
        BY <3>2 DEF KnowsMatch
      <4>1. /\ pc[d] \in {"checking", "confirming"} /\ Same(d) /\ snapshot[job[d].token] = live
            /\ snapshot' = snapshot /\ live' = live
        BY DriverMoves
      <4>2. pc[d] \in HasToken
        BY <4>1 DEF HasToken
      <4>3. job[d].token \in Batches
        BY <4>2 DEF TypeOK
      <4>4. job[d].token = manifest'.batch
        BY <4>1 DEF Same, Reads
      <4>5. Matches'
        BY <4>1, <4>3, <4>4, NamesAssumption DEF Matches
      <4> QED
        BY <4>5 DEF Watch
    <3> QED
      BY <3>1, <3>2
  <2> QED
    BY <2>2, <2>4
<1> QED
  BY <1>5, <1>6, SystemMoves

\* What a driver is about to use it has.
LEMMA DriverHas ==
  ASSUME ManifestInv, NEW d \in Drivers, Drives(d)
  PROVE  /\ pc'[d] \in HasBatch => job'[d].batch \in Batches
         /\ pc'[d] \in HasToken => job'[d].token \in Batches
<1> USE DEF Goes, Ends, Reads, Same, HasBatch, HasToken, PCs
<1> DEFINE Has == /\ pc'[d] \in HasBatch => job'[d].batch \in Batches
                  /\ pc'[d] \in HasToken => job'[d].token \in Batches
<1>1. TypeOK /\ (manifest.state # "V1_ACTIVE" => manifest.batch \in Batches)
  BY BatchInForce DEF ManifestInv
<1>2. /\ pc[d] \in HasBatch => job[d].batch \in Batches
      /\ pc[d] \in HasToken => job[d].token \in Batches
  BY <1>1 DEF TypeOK
<1>3. CASE \E b \in Batches : AskPrepare(d, b)
  BY <1>1, <1>3, PrepareSteps
<1>4. CASE TakeLock(d) \/ Freeze(d) \/ Begin(d) \/ Adopt(d) \/ LeavePrepare(d)
  BY <1>1, <1>2, <1>4, PrepareSteps
<1>5. CASE \/ Migrate(d) \/ MigrationFails(d) \/ Settle(d) \/ LookAtFailure(d) \/ EndFailed(d)
           \/ VerifyLive(d) \/ RecordVerdict(d)
  BY <1>1, <1>2, <1>5, PrepareSteps
<1>6. CASE Assemble(d) \/ ReadAgain(d)
  BY <1>1, <1>2, <1>6, OperateSteps
<1>7. CASE CheckLive(d)
  <2>1. pc[d] \in {"proving", "checking", "confirming"}
    BY <1>7 DEF CheckLive
  <2> QED
    BY <1>1, <1>2, <1>7, <2>1, OperateSteps
<1>8. CASE AskActivate(d) \/ AskRollback(d)
  BY <1>1, <1>2, <1>8, OperateSteps
<1>9. CASE EnterReady(d) \/ EnterActive(d) \/ Revert(d) \/ Crash(d)
  BY <1>1, <1>9, OperateSteps
<1> HIDE DEF Goes, Ends, Reads, Same, HasBatch, HasToken, PCs
<1> QED
  BY <1>3, <1>4, <1>5, <1>6, <1>7, <1>8, <1>9 DEF Drives, Prepare, Operate

\* The types and the shape of the ledger after a driver's step.
LEMMA TypedStep ==
  ASSUME ManifestInv, NEW d \in Drivers, Drives(d), Watch
  PROVE  TypeOK' /\ HasVerdict' /\ Started' /\ BatchesAreWhole'
<1> USE DEF ManifestInv
<1>1. /\ manifest' \in Manifests /\ ledger' \in Seq(Rows) /\ Len(ledger') = manifest'.generation
      /\ Started' /\ BatchesAreWhole'
  <2>1. CASE Takes(d)
    BY <2>1, EdgesAreOfTheBatch DEF Started
  <2>2. CASE Unmoved /\ manifest' \in Manifests
    <3>1. ledger' = ledger /\ manifest'.state = manifest.state /\ manifest'.batch = manifest.batch
          /\ manifest'.generation = manifest.generation
      BY <2>2 DEF Unmoved
    <3>2. Started'
      BY <3>1 DEF Started
    <3>3. BatchesAreWhole'
      BY <3>1 DEF BatchesAreWhole
    <3>4. ledger' \in Seq(Rows) /\ Len(ledger') = manifest'.generation
      BY <3>1 DEF TypeOK
    <3> QED
      BY <2>2, <3>2, <3>3, <3>4
  <2> QED
    BY <2>1, <2>2, SystemMoves
<1>2. /\ pc' \in [Drivers -> PCs] /\ job' \in [Drivers -> Jobs]
      /\ \A e \in Drivers : e # d => pc'[e] = pc[e] /\ job'[e] = job[e]
      /\ live' \in Contents /\ snapshot' \in [Batches -> Contents \cup {Nothing}]
      /\ writes' \in 0..MaxWrites /\ faults' \in 0..MaxFaults
  BY DriverTyped DEF Kept, TypeOK
<1>3. HasVerdict'
  BY <1>2, DriverMoves DEF HasVerdict
<1>4. \A e \in Drivers : /\ pc'[e] \in HasBatch => job'[e].batch \in Batches
                         /\ pc'[e] \in HasToken => job'[e].token \in Batches
  <2> SUFFICES ASSUME NEW e \in Drivers
               PROVE  /\ pc'[e] \in HasBatch => job'[e].batch \in Batches
                      /\ pc'[e] \in HasToken => job'[e].token \in Batches
    OBVIOUS
  <2>1. CASE e = d
    BY <2>1, DriverHas
  <2>2. CASE e # d
    BY <1>2, <2>2 DEF TypeOK
  <2> QED
    BY <2>1, <2>2
<1>5. lock' \in Drivers \cup {Nobody, Orphan}
  BY HoldersStep
<1>6. matched' \in BOOLEAN
  <2>1. Matches' \in BOOLEAN /\ (matched /\ manifest'.generation = manifest.generation) \in BOOLEAN
    BY DEF Matches
  <2> QED
    BY <2>1 DEF Watch
<1>7. TypeOK'
  BY <1>1, <1>2, <1>4, <1>5, <1>6 DEF TypeOK
<1> QED
  BY <1>1, <1>3, <1>7

\* A write to the legacy stores, and a step in which nothing happens.
LEMMA UndrivenStep ==
  ASSUME ManifestInv, (WriteLegacy /\ Watch) \/ UNCHANGED vars
  PROVE  ManifestInv'
<1> USE DEF ManifestInv
<1>1. /\ manifest' = manifest /\ ledger' = ledger /\ snapshot' = snapshot /\ lock' = lock /\ pc' = pc /\ job' = job
      /\ faults' = faults
  BY DEF WriteLegacy, system, disk, bounds, vars
<1>2. live' \in Contents /\ writes' \in 0..MaxWrites
  BY BoundsAssumption DEF WriteLegacy, vars, bounds, TypeOK
<1>3. matched' \in BOOLEAN /\ (matched => matched')
  <2>1. CASE Watch
    <3>1. Matches' \in BOOLEAN /\ (matched /\ manifest'.generation = manifest.generation) \in BOOLEAN
      BY DEF Matches
    <3> QED
      BY <1>1, <2>1, <3>1 DEF Watch
  <2>2. CASE UNCHANGED vars
    BY <2>2 DEF vars, TypeOK
  <2> QED
    BY <2>1, <2>2
<1>4. TypeOK'
  BY <1>1, <1>2, <1>3 DEF TypeOK
<1>5. HasVerdict' /\ HoldersAlone' /\ WorkIsCurrent'
  BY <1>1 DEF HasVerdict, HoldersAlone, WorkIsCurrent
<1>6. Started' /\ BatchesAreWhole'
  BY <1>1 DEF Started, BatchesAreWhole
<1>7. Knowledge'
  BY <1>1, <1>3 DEF Knowledge, KnowsGeneration, KnowsMatch
<1> QED
  BY <1>4, <1>5, <1>6, <1>7

\* The first state.
LEMMA InitInv == Init => ManifestInv
<1> SUFFICES ASSUME Init PROVE ManifestInv
  OBVIOUS
<1>1. NoJob \in Jobs /\ "idle" \in PCs /\ "idle" \notin HasBatch \cup HasToken
  BY BoundsAssumption DEF NoJob, Jobs, ManifestStates, PCs, HasBatch, HasToken
<1>2. \A d \in Drivers : pc[d] = "idle" /\ job[d].generation = 0
  BY DEF Init, NoJob
<1>3. manifest.state = "V1_ACTIVE" /\ manifest.generation = 0 /\ manifest \in Manifests
  BY BoundsAssumption DEF Init, Manifests, ManifestStates
<1>4. ledger \in Seq(Rows) /\ Len(ledger) = 0 /\ DOMAIN ledger = {}
  BY DEF Init
<1>5. TypeOK
  <2>1. pc \in [Drivers -> PCs] /\ job \in [Drivers -> Jobs]
    BY <1>1 DEF Init
  <2>2. snapshot \in [Batches -> Contents \cup {Nothing}] /\ live \in Contents /\ lock \in Drivers \cup {Nobody, Orphan}
    BY DEF Init
  <2>3. matched \in BOOLEAN /\ writes \in 0..MaxWrites /\ faults \in 0..MaxFaults
    <3>1. matched = FALSE /\ writes = 0 /\ faults = 0
      BY DEF Init
    <3>2. matched \in BOOLEAN
      BY <3>1
    <3>3. 0 \in 0..MaxWrites /\ 0 \in 0..MaxFaults
      BY BoundsAssumption
    <3> QED
      BY <3>1, <3>2, <3>3
  <2>4. \A d \in Drivers : pc[d] \notin HasBatch /\ pc[d] \notin HasToken
    BY <1>1, <1>2
  <2> QED
    BY <1>3, <1>4, <2>1, <2>2, <2>3, <2>4 DEF TypeOK
<1>6. HasVerdict /\ Started /\ HoldersAlone /\ WorkIsCurrent
  BY <1>2, <1>3 DEF HasVerdict, Started, HoldersAlone, WorkIsCurrent, Holding, Working
<1>7. BatchesAreWhole
  BY <1>4 DEF Init, BatchesAreWhole
<1>8. Knowledge
  <2> SUFFICES ASSUME NEW d \in Drivers PROVE KnowsGeneration(d) /\ KnowsMatch(d)
    BY DEF Knowledge
  <2>1. pc[d] \notin Carrying /\ pc[d] \notin {"readying", "entering"}
    BY <1>2 DEF Carrying
  <2>2. job[d].generation <= manifest.generation
    BY <1>2, <1>3
  <2> QED
    BY <2>1, <2>2 DEF KnowsGeneration, KnowsMatch
<1> QED
  BY <1>5, <1>6, <1>7, <1>8 DEF ManifestInv

\* The invariants are inductive.
LEMMA Inductive == ManifestInv /\ [Next]_vars => ManifestInv'
<1> SUFFICES ASSUME ManifestInv, [Next]_vars PROVE ManifestInv'
  OBVIOUS
<1>1. CASE UNCHANGED vars
  BY <1>1, UndrivenStep
<1>2. CASE WriteLegacy /\ Watch
  BY <1>2, UndrivenStep
<1>3. ASSUME NEW d \in Drivers, Drives(d), Watch PROVE ManifestInv'
  BY <1>3, TypedStep, HoldersStep, WorkStep, KnowledgeStep DEF ManifestInv
<1> QED
  BY <1>1, <1>2, <1>3 DEF Next, Step, Drives

-----------------------------------------------------------------------------
(* The theorems.                                                           *)

\* Every variable has its type, the generation is the length of the ledger, and
\* no driver is ever about to use a batch, or a copy, that it does not have.
THEOREM TypeCorrect == Spec => []TypeOK
<1>1. ManifestInv => TypeOK
  BY DEF ManifestInv
<1> QED
  BY InitInv, Inductive, <1>1, PTL DEF Spec

\* Whatever drivers prepare, activate, roll back, fail and crash, and however old
\* what they have read: the ledger tells of one batch after the other, each opened
\* once and carried through its states by edges of its own (manifest.py,
\* v2_coordinator.py).
THEOREM BatchesStayWhole == Spec => []BatchesAreWhole
<1>1. ManifestInv => BatchesAreWhole
  BY DEF ManifestInv
<1> QED
  BY InitInv, Inductive, <1>1, PTL DEF Spec

\* Only EnterReady and EnterActive lead to READY and ACTIVE, on a match.
LEMMA CutoverStep ==
  ASSUME ManifestInv, [Next]_vars,
         manifest'.state \in {"V2_READY", "V2_ACTIVE"}, manifest'.state # manifest.state
  PROVE  matched
<1>1. PICK d \in Drivers : Drives(d)
  <2>1. ~ UNCHANGED vars /\ ~ WriteLegacy
    BY DEF vars, system, WriteLegacy
  <2> QED
    BY <2>1 DEF Next, Step, Drives
<1>2. Takes(d)
  BY <1>1, SystemMoves DEF ManifestInv, Unmoved
<1>3. (EnterReady(d) /\ MayBeReady(d)) \/ (EnterActive(d) /\ MayBeActive(d))
  BY <1>2 DEF Takes, Transition
<1>4. pc[d] \in {"readying", "entering"} /\ job[d].generation = manifest.generation /\ job[d].token = manifest.batch
  BY <1>3 DEF EnterReady, EnterActive, MayBeReady, MayBeActive, Verified
<1> QED
  BY <1>4 DEF ManifestInv, Knowledge, KnowsMatch

\* V2 becomes ready, and then active, only if the frozen copy of the batch has
\* equalled the legacy stores at a moment since the manifest entered the state that
\* it leaves (mark_v2_ready, activate_v2).
THEOREM NoCutoverUnseen == Spec => CutoverOnMatch
<1>1. ManifestInv /\ [Next]_vars
        => [manifest'.state \in {"V2_READY", "V2_ACTIVE"} /\ manifest'.state # manifest.state => matched]_vars
  BY CutoverStep
<1> QED
  BY InitInv, Inductive, <1>1, PTL DEF Spec, CutoverOnMatch
=============================================================================
