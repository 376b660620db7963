-------------------------- MODULE BlobSweep_proofs --------------------------
(***************************************************************************)
(* Proofs about BlobSweep, for every set of processes, requests and blobs  *)
(* and every number of writes, errors, crashes and changes of the lease.   *)
(***************************************************************************)
EXTENDS BlobSweep, TLAPS

-----------------------------------------------------------------------------
(* Types.                                                                  *)

CallsOK == call \in [Sweepers -> Calls]
JobsOK == jobs \in [Keys -> JobRows]

\* What a process has read stays its own, and of its type.
LEMMA CallTyped ==
  ASSUME TypeOK, NEW s \in Sweepers, Step(s)
  PROVE  /\ CallsOK'
         /\ \A t \in Sweepers : t # s => call'[t] = call[t]
<1> DEFINE Goal == /\ call' \in [Sweepers -> Calls]
                   /\ \A t \in Sweepers : t # s => call'[t] = call[t]
<1>1. /\ call \in [Sweepers -> Calls] /\ call[s] \in Calls
      /\ call[s].left \subseteq Blobs /\ call[s].intents \subseteq Blobs /\ call[s].stable \subseteq Blobs
      /\ call[s].first \subseteq Blobs /\ call[s].seen \in [Blobs -> CandidateStates]
      /\ Candidates \subseteq Blobs /\ pin \in Nat
  BY DEF TypeOK, Calls, Candidates
<1>2. ASSUME call' = call PROVE Goal
  BY <1>1, <1>2
<1>3. ASSUME Leave(s) PROVE Goal
  BY <1>1, <1>3 DEF Leave, NoCall, Calls, CandidateStates
<1>4. ASSUME NEW l \in SUBSET Blobs, call' = [call EXCEPT ![s].left = l] PROVE Goal
  BY <1>1, <1>4 DEF Calls
<1>5. ASSUME NEW b \in Blobs, call' = [call EXCEPT ![s].left = @ \ {b}, ![s].intents = @ \cup {b}] PROVE Goal
  <2>1. [call[s] EXCEPT !.left = @ \ {b}, !.intents = @ \cup {b}] \in Calls
    BY <1>1 DEF Calls
  <2>2. call' = [call EXCEPT ![s] = [call[s] EXCEPT !.left = @ \ {b}, !.intents = @ \cup {b}]]
    BY <1>1, <1>5
  <2> QED
    BY <1>1, <2>1, <2>2
<1>6. ASSUME NEW b, call' = [call EXCEPT ![s].left = @ \ {b}, ![s].broken = TRUE] PROVE Goal
  <2>1. [call[s] EXCEPT !.left = @ \ {b}, !.broken = TRUE] \in Calls
    BY <1>1 DEF Calls
  <2>2. call' = [call EXCEPT ![s] = [call[s] EXCEPT !.left = @ \ {b}, !.broken = TRUE]]
    BY <1>1, <1>6
  <2> QED
    BY <1>1, <2>1, <2>2
<1>7. ASSUME NEW k \in Keys, call' = [call EXCEPT ![s] = [NoCall EXCEPT !.key = k, !.pin = pin]] PROVE Goal
  BY <1>1, <1>7 DEF Calls, NoCall, CandidateStates
<1>8. ASSUME NEW n \in Nat, call' = [call EXCEPT ![s].met = n] PROVE Goal
  BY <1>1, <1>8 DEF Calls
<1>9. ASSUME NEW f \in SUBSET Blobs, NEW n \in Nat, call' = [call EXCEPT ![s].first = f, ![s].met = n] PROVE Goal
  <2>1. [call[s] EXCEPT !.first = f, !.met = n] \in Calls
    BY <1>1 DEF Calls
  <2>2. call' = [call EXCEPT ![s] = [call[s] EXCEPT !.first = f, !.met = n]]
    BY <1>1, <1>9
  <2> QED
    BY <1>1, <2>1, <2>2
<1>10. ASSUME NEW x \in SUBSET Blobs, call' = [call EXCEPT ![s].stable = x, ![s].first = {}, ![s].met = 0] PROVE Goal
  <2>1. [call[s] EXCEPT !.stable = x, !.first = {}, !.met = 0] \in Calls
    BY <1>1 DEF Calls
  <2>2. call' = [call EXCEPT ![s] = [call[s] EXCEPT !.stable = x, !.first = {}, !.met = 0]]
    BY <1>1, <1>10
  <2> QED
    BY <1>1, <2>1, <2>2
<1>11. ASSUME NEW v \in [Blobs -> CandidateStates], call' = [call EXCEPT ![s].seen = v] PROVE Goal
  BY <1>1, <1>11 DEF Calls
<1>12. ASSUME Undoing(s) PROVE Goal
  BY <1>1, <1>4, <1>12 DEF Undoing
<1>13. ASSUME NEW k \in Keys, NEW dry \in BOOLEAN, Ask(s, k, dry) PROVE Goal
  BY <1>7, <1>13 DEF Ask
<1>14. ASSUME NEW b \in Blobs, Intend(s, b) PROVE Goal
  BY <1>1, <1>5, <1>12, <1>14 DEF Intend
<1>15. ASSUME NEW b \in Blobs, Undo(s, b) PROVE Goal
  BY <1>1, <1>4, <1>6, <1>15 DEF Undo
<1>16. ASSUME NEW b \in Blobs, Receipt(s, b) PROVE Goal
  <2>1. call[s].left \ {b} \in SUBSET Blobs
    BY <1>1
  <2>2. Leave(s) \/ call' = [call EXCEPT ![s].left = @ \ {b}]
    BY <1>16 DEF Receipt
  <2> QED
    BY <1>3, <1>4, <2>1, <2>2
<1>17. ASSUME NEW b \in Blobs, PutBack(s, b) \/ Reconcile(s, b) PROVE Goal
  BY <1>1, <1>3, <1>4, <1>17 DEF PutBack, Reconcile, Recovered
<1>18. ASSUME Plan(s) \/ EpochOne(s) PROVE Goal
  <2>1. Job(s) \in JobRows /\ Len(Job(s).audits) \in Nat
    <3>1. pc[s] # "idle"
      BY <1>18 DEF Plan, EpochOne, At
    <3>2. Job(s) \in JobRows
      BY <3>1 DEF Job, TypeOK
    <3>3. Job(s).audits \in Seq(SUBSET Blobs)
      BY <3>2 DEF JobRows
    <3> QED
      BY <3>2, <3>3
  <2>2. CASE Plan(s)
    BY <1>3, <1>8, <2>1, <2>2 DEF Plan
  <2>3. CASE EpochOne(s)
    <3>1. ASSUME Epoch(s, 1) PROVE Len(jobs'[call[s].key].audits) \in Nat
      <4>1. call[s].key \in Keys /\ Job(s).audits \in Seq(SUBSET Blobs)
        BY <2>1, <2>3 DEF EpochOne, At, TypeOK, JobRows
      <4>2. CASE UNCHANGED jobs
        BY <2>1, <4>2 DEF Job
      <4>3. CASE jobs' = [jobs EXCEPT ![call[s].key].audits = Append(@, Candidates),
                                      ![call[s].key].cands = @]
        BY <1>1, <4>1, <4>3 DEF TypeOK, JobRows, Job
      <4> QED
        BY <3>1, <4>2, <4>3 DEF Epoch
    <3> QED
      BY <1>1, <1>2, <1>9, <2>3, <3>1 DEF EpochOne, EpochFails
  <2> QED
    BY <1>18, <2>2, <2>3
<1>19. ASSUME EpochTwo(s) PROVE Goal
  <2>1. call[s].first \cap Candidates \in SUBSET Blobs
    BY <1>1
  <2>2. \/ call' = call
        \/ call' = [call EXCEPT ![s].stable = call[s].first \cap Candidates, ![s].first = {}, ![s].met = 0]
    BY <1>19 DEF EpochTwo, EpochFails
  <2> QED
    BY <1>2, <1>10, <2>1, <2>2
<1>20. ASSUME FinalAudit(s) PROVE Goal
  BY <1>1, <1>2, <1>4, <1>20 DEF FinalAudit
<1>21. ASSUME Delete(s) \/ DeleteUnnoticed(s) PROVE Goal
  BY <1>1, <1>4, <1>12, <1>21 DEF Delete, DeleteUnnoticed
<1>22. ASSUME Ready(s) \/ Activate(s) \/ EndReceipts(s) \/ EndReconcile(s) PROVE Goal
  BY <1>2, <1>22 DEF Ready, Activate, EndReceipts, EndReconcile
<1>23. ASSUME EndUndo(s) \/ Succeed(s) \/ EndFailed(s) \/ EndPutBack(s) \/ Crash(s) PROVE Goal
  BY <1>2, <1>3, <1>23 DEF EndUndo, Succeed, EndFailed, EndPutBack, Crash
<1>24. ASSUME Recall(s) PROVE Goal
  BY <1>3, <1>11, <1>24 DEF Recall, Job, At, TypeOK, JobRows
<1>25. ASSUME Look(s) PROVE Goal
  <2>1. Items(call[s].seen) \subseteq Blobs
    BY DEF Items
  <2> QED
    BY <1>3, <1>4, <1>25, <2>1 DEF Look
<1>26. ASSUME Fail(s) PROVE Goal
  BY <1>1, <1>2, <1>6, <1>12, <1>26 DEF Fail
<1> QED
  BY <1>13, <1>14, <1>15, <1>16, <1>17, <1>18, <1>19, <1>20, <1>21, <1>22, <1>23, <1>24, <1>25, <1>26
  DEF Step, CallsOK

\* The steps that move the state of a job, and to which state.
MovesTo(s, to) ==
    \/ Plan(s) /\ to = "AUDITING"
    \/ Ready(s) /\ to = "READY"
    \/ Activate(s) /\ to = "ACTIVE"
    \/ Succeed(s) /\ to = "SUCCEEDED"
    \/ (EndFailed(s) \/ EndPutBack(s)) /\ to = "FAILED"

\* The steps that mark a candidate, from which marks and with which.
Marks(s, b, from, to) ==
    \/ Intend(s, b) /\ from = {"confirmed", "deleting"} /\ to = "deleting"
    \/ Undo(s, b) /\ from = {"deleting", "confirmed"} /\ to = "confirmed"
    \/ Receipt(s, b) /\ from = {"deleting", "swept"} /\ to = "swept"
    \/ PutBack(s, b) /\ from = {"deleting", "confirmed"} /\ to = "confirmed"
    \/ Reconcile(s, b) /\ from = {"deleting", "swept"} /\ to = "swept"

Kept(k) == jobs'[k].audits = jobs[k].audits /\ jobs'[k].cands = jobs[k].cands

Asked(s, k) ==
    /\ pc[s] = "idle" /\ jobs[k].state = "NONE" /\ jobs'[k].state = "PLANNED" /\ Kept(k)

Moved(s, k) ==
    /\ Kept(k) /\ jobs'[k].dry = jobs[k].dry
    /\ jobs'[k].state = jobs[k].state \/ MovesTo(s, jobs'[k].state)

Audited(s, k) ==
    /\ jobs[k].state \in {"AUDITING", "READY"}
    /\ jobs'[k].state = jobs[k].state /\ jobs'[k].dry = jobs[k].dry
    /\ jobs'[k].audits = Append(jobs[k].audits, Candidates)
    /\ \/ EpochOne(s) /\ Len(jobs[k].audits) = 0 /\ jobs'[k].cands = jobs[k].cands
       \/ /\ EpochTwo(s) /\ Len(jobs[k].audits) = 1
          /\ jobs'[k].cands = [b \in Blobs |-> IF b \notin Candidates THEN "none"
                                               ELSE IF b \in call[s].first THEN "confirmed" ELSE "marked"]

Marked(s, k) ==
    /\ jobs[k].state = "ACTIVE"
    /\ jobs'[k].state = "ACTIVE" /\ jobs'[k].dry = jobs[k].dry /\ jobs'[k].audits = jobs[k].audits
    /\ \E b \in Blobs, from \in SUBSET CandidateStates, to \in CandidateStates :
        /\ Marks(s, b, from, to) /\ jobs[k].cands[b] \in from
        /\ jobs'[k].cands = [jobs[k].cands EXCEPT ![b] = to]

\* What a step does to the jobs.
LEMMA JobTyped ==
  ASSUME TypeOK, NEW s \in Sweepers, Step(s)
  PROVE  /\ JobsOK'
         /\ \A k \in Keys :
              \/ jobs'[k] = jobs[k]
              \/ Asked(s, k)
              \/ k = call[s].key /\ pc[s] # "idle" /\ (Moved(s, k) \/ Audited(s, k) \/ Marked(s, k))
<1> DEFINE Goal == /\ jobs' \in [Keys -> JobRows]
                   /\ \A k \in Keys :
                        \/ jobs'[k] = jobs[k]
                        \/ Asked(s, k)
                        \/ k = call[s].key /\ pc[s] # "idle" /\ (Moved(s, k) \/ Audited(s, k) \/ Marked(s, k))
<1>1. jobs \in [Keys -> JobRows] /\ Candidates \in SUBSET Blobs
  BY DEF TypeOK, Candidates
<1>2. ASSUME jobs' = jobs PROVE Goal
  BY <1>1, <1>2
<1>3. ASSUME NEW r \in JobRows, NEW k \in Keys, jobs' = [jobs EXCEPT ![k] = r],
             \/ Asked(s, k)
             \/ k = call[s].key /\ pc[s] # "idle" /\ (Moved(s, k) \/ Audited(s, k) \/ Marked(s, k))
      PROVE  Goal
  BY <1>1, <1>3
<1>4. ASSUME NEW k \in Keys, NEW dry \in BOOLEAN, Ask(s, k, dry) PROVE Goal
  <2> DEFINE r == [jobs[k] EXCEPT !.state = "PLANNED", !.dry = dry, !.pin = pin]
  <2>1. CASE UNCHANGED jobs
    BY <1>2, <2>1
  <2>2. CASE /\ jobs[k].state = "NONE"
             /\ jobs' = [jobs EXCEPT ![k].state = "PLANNED", ![k].dry = dry, ![k].pin = pin]
    <3>1. jobs[k] \in JobRows /\ pin \in Nat
      BY <1>1 DEF TypeOK
    <3>2. r \in JobRows /\ r.state = "PLANNED" /\ r.audits = jobs[k].audits /\ r.cands = jobs[k].cands
      BY <3>1 DEF JobRows, JobStates
    <3>3. jobs' = [jobs EXCEPT ![k] = r]
      BY <1>1, <2>2
    <3>4. jobs'[k] = r /\ pc[s] = "idle"
      BY <1>1, <1>4, <3>3 DEF Ask, At
    <3>5. Asked(s, k)
      BY <2>2, <3>2, <3>4 DEF Asked, Kept
    <3> QED
      BY <1>3, <3>2, <3>3, <3>5
  <2> QED
    BY <1>4, <2>1, <2>2 DEF Ask
<1>5. ASSUME pc[s] # "idle", NEW to \in JobStates, Move(s, to), MovesTo(s, to) PROVE Goal
  <2> DEFINE k == call[s].key
  <2> DEFINE r == [jobs[k] EXCEPT !.state = to]
  <2>1. k \in Keys /\ jobs[k] \in JobRows
    BY <1>1, <1>5 DEF TypeOK
  <2>2. r \in JobRows /\ r.state = to /\ r.audits = jobs[k].audits /\ r.cands = jobs[k].cands /\ r.dry = jobs[k].dry
    BY <2>1 DEF JobRows
  <2>3. jobs' = [jobs EXCEPT ![k] = r]
    BY <1>1, <1>5, <2>1 DEF Move
  <2>4. jobs'[k] = r
    BY <1>1, <2>1, <2>3
  <2>5. Moved(s, k)
    BY <1>5, <2>2, <2>4 DEF Moved, Kept
  <2> QED
    BY <1>3, <1>5, <2>1, <2>2, <2>3, <2>5
<1>6. ASSUME pc[s] # "idle", NEW b \in Blobs, NEW from \in SUBSET CandidateStates, NEW to \in CandidateStates,
             MayMark(s, b, from), Mark(s, b, to), Marks(s, b, from, to)
      PROVE  Goal
  <2> DEFINE k == call[s].key
  <2> DEFINE r == [jobs[k] EXCEPT !.cands[b] = to]
  <2>1. k \in Keys /\ jobs[k] \in JobRows /\ jobs[k].cands \in [Blobs -> CandidateStates]
    BY <1>1, <1>6 DEF TypeOK, JobRows
  <2>2. /\ r \in JobRows /\ r.state = jobs[k].state /\ r.audits = jobs[k].audits /\ r.dry = jobs[k].dry
        /\ r.cands = [jobs[k].cands EXCEPT ![b] = to]
    BY <1>6, <2>1 DEF JobRows
  <2>3. jobs' = [jobs EXCEPT ![k] = r]
    BY <1>1, <1>6, <2>1 DEF Mark
  <2>4. jobs'[k] = r
    BY <1>1, <2>1, <2>3
  <2>5. Marked(s, k)
    BY <1>6, <2>2, <2>4 DEF Marked, MayMark, Job
  <2> QED
    BY <1>3, <1>6, <2>1, <2>2, <2>3, <2>5
<1>7. ASSUME EpochOne(s), Epoch(s, 1) PROVE Goal
  <2> DEFINE k == call[s].key
  <2> DEFINE r == [jobs[k] EXCEPT !.audits = Append(@, Candidates), !.cands = @]
  <2>1. k \in Keys /\ jobs[k] \in JobRows /\ pc[s] # "idle" /\ jobs[k].audits \in Seq(SUBSET Blobs)
    BY <1>1, <1>7 DEF TypeOK, EpochOne, At, JobRows
  <2>2. CASE UNCHANGED jobs
    BY <1>2, <2>2
  <2>3. CASE /\ Job(s).state \in {"AUDITING", "READY"} /\ Len(Job(s).audits) = 0
             /\ jobs' = [jobs EXCEPT ![k].audits = Append(@, Candidates), ![k].cands = @]
    <3>1. Append(jobs[k].audits, Candidates) \in Seq(SUBSET Blobs)
      BY <1>1, <2>1
    <3>2. /\ r \in JobRows /\ r.state = jobs[k].state /\ r.dry = jobs[k].dry /\ r.cands = jobs[k].cands
          /\ r.audits = Append(jobs[k].audits, Candidates)
      BY <2>1, <3>1 DEF JobRows
    <3>3. jobs' = [jobs EXCEPT ![k] = r]
      BY <1>1, <2>1, <2>3
    <3>4. jobs'[k] = r
      BY <1>1, <2>1, <3>3
    <3>5. Audited(s, k)
      BY <1>7, <2>3, <3>2, <3>4 DEF Audited, Job
    <3> QED
      BY <1>3, <2>1, <3>2, <3>3, <3>5
  <2> QED
    BY <1>7, <2>2, <2>3 DEF Epoch
<1>8. ASSUME EpochTwo(s), Epoch(s, 2) PROVE Goal
  <2> DEFINE k == call[s].key
  <2> DEFINE v == [b \in Blobs |-> IF b \notin Candidates THEN "none"
                                   ELSE IF b \in call[s].first THEN "confirmed" ELSE "marked"]
  <2> DEFINE r == [jobs[k] EXCEPT !.audits = Append(@, Candidates), !.cands = v]
  <2>1. k \in Keys /\ jobs[k] \in JobRows /\ pc[s] # "idle" /\ jobs[k].audits \in Seq(SUBSET Blobs)
    BY <1>1, <1>8 DEF TypeOK, EpochTwo, At, JobRows
  <2>2. CASE UNCHANGED jobs
    BY <1>2, <2>2
  <2>3. CASE /\ Job(s).state \in {"AUDITING", "READY"} /\ Len(Job(s).audits) = 1
             /\ jobs' = [jobs EXCEPT ![k].audits = Append(@, Candidates), ![k].cands = v]
    <3>1. Append(jobs[k].audits, Candidates) \in Seq(SUBSET Blobs) /\ v \in [Blobs -> CandidateStates]
      BY <1>1, <2>1 DEF CandidateStates
    <3> HIDE DEF v
    <3>2. /\ r \in JobRows /\ r.state = jobs[k].state /\ r.dry = jobs[k].dry /\ r.cands = v
          /\ r.audits = Append(jobs[k].audits, Candidates)
      BY <2>1, <3>1 DEF JobRows
    <3>3. jobs' = [jobs EXCEPT ![k] = r]
      BY <1>1, <2>1, <2>3
    <3>4. jobs'[k] = r
      BY <1>1, <2>1, <3>3
    <3>5. Audited(s, k)
      BY <1>8, <2>3, <3>2, <3>4 DEF Audited, Job, v
    <3> QED
      BY <1>3, <2>1, <3>2, <3>3, <3>5
  <2> QED
    BY <1>8, <2>2, <2>3 DEF Epoch
<1>9. ASSUME EpochOne(s) \/ EpochTwo(s) PROVE Goal
  BY <1>2, <1>7, <1>8, <1>9 DEF EpochOne, EpochTwo, EpochFails
<1>10. ASSUME Plan(s) \/ Ready(s) \/ Activate(s) \/ Succeed(s) \/ EndFailed(s) \/ EndPutBack(s) PROVE Goal
  <2>1. pc[s] # "idle"
    BY <1>10 DEF Plan, Ready, Activate, Succeed, EndFailed, EndPutBack, At
  <2>2. jobs' = jobs \/ \E to \in JobStates : Move(s, to) /\ MovesTo(s, to)
    BY <1>10 DEF Plan, Ready, Activate, Succeed, EndFailed, EndPutBack, MovesTo, JobStates
  <2> QED
    BY <1>2, <1>5, <2>1, <2>2
<1>11. ASSUME NEW b \in Blobs,
              Intend(s, b) \/ Undo(s, b) \/ Receipt(s, b) \/ PutBack(s, b) \/ Reconcile(s, b)
       PROVE  Goal
  <2>1. pc[s] # "idle"
    BY <1>11 DEF Intend, Undo, Receipt, PutBack, Reconcile, At
  <2>2. \/ jobs' = jobs
        \/ \E from \in SUBSET CandidateStates, to \in CandidateStates :
             MayMark(s, b, from) /\ Mark(s, b, to) /\ Marks(s, b, from, to)
    <3>1. {"confirmed", "deleting"} \subseteq CandidateStates /\ {"deleting", "swept"} \subseteq CandidateStates
      BY DEF CandidateStates
    <3>2. "deleting" \in CandidateStates /\ "confirmed" \in CandidateStates /\ "swept" \in CandidateStates
      BY DEF CandidateStates
    <3>3. CASE Intend(s, b)
      BY <3>1, <3>2, <3>3 DEF Intend, Marks
    <3>4. CASE Undo(s, b)
      BY <3>1, <3>2, <3>4 DEF Undo, Marks
    <3>5. CASE Receipt(s, b)
      BY <3>1, <3>2, <3>5 DEF Receipt, Marks
    <3>6. CASE PutBack(s, b)
      BY <3>1, <3>2, <3>6 DEF PutBack, Recovered, Marks
    <3>7. CASE Reconcile(s, b)
      BY <3>1, <3>2, <3>7 DEF Reconcile, Recovered, Marks
    <3> QED
      BY <1>11, <3>3, <3>4, <3>5, <3>6, <3>7
  <2> QED
    BY <1>2, <1>6, <2>1, <2>2
<1>12. ASSUME FinalAudit(s) PROVE Goal
  <2> DEFINE k == call[s].key
  <2> DEFINE r == [jobs[k] EXCEPT !.ready = TRUE]
  <2>1. k \in Keys /\ jobs[k] \in JobRows /\ pc[s] # "idle"
    BY <1>1, <1>12 DEF TypeOK, FinalAudit, At
  <2>2. CASE UNCHANGED jobs
    BY <1>2, <2>2
  <2>3. CASE jobs' = [jobs EXCEPT ![k].ready = TRUE]
    <3>1. /\ r \in JobRows /\ r.state = jobs[k].state /\ r.dry = jobs[k].dry /\ r.cands = jobs[k].cands
          /\ r.audits = jobs[k].audits
      BY <2>1 DEF JobRows
    <3>2. jobs' = [jobs EXCEPT ![k] = r]
      BY <1>1, <2>1, <2>3
    <3>3. jobs'[k] = r
      BY <1>1, <2>1, <3>2
    <3>4. Moved(s, k)
      BY <3>1, <3>3 DEF Moved, Kept
    <3> QED
      BY <1>3, <2>1, <3>1, <3>2, <3>4
  <2> QED
    BY <1>12, <2>2, <2>3 DEF FinalAudit
<1>13. ASSUME Delete(s) \/ DeleteUnnoticed(s) \/ EndUndo(s) \/ EndReceipts(s) \/ Recall(s) \/ Look(s)
              \/ EndReconcile(s) \/ Fail(s) \/ Crash(s)
       PROVE  jobs' = jobs
  BY <1>13 DEF Delete, DeleteUnnoticed, EndUndo, EndReceipts, Recall, Look, EndReconcile, Fail, Crash
<1> QED
  BY <1>2, <1>4, <1>9, <1>10, <1>11, <1>12, <1>13 DEF Step, JobsOK

-----------------------------------------------------------------------------
(* What a process knows after each of its steps, field by field.           *)

Fields(s, left, intents, stable, first, seen, broken) ==
    /\ call'[s].key = call[s].key
    /\ call'[s].left = left /\ call'[s].intents = intents /\ call'[s].stable = stable
    /\ call'[s].first = first /\ call'[s].seen = seen /\ call'[s].broken = broken

Left(s, left) ==
    Fields(s, left, call[s].intents, call[s].stable, call[s].first, call[s].seen, call[s].broken)

LEMMA Updates ==
  ASSUME call \in [Sweepers -> Calls], NEW s \in Sweepers
  PROVE  /\ call' = call => Left(s, call[s].left)
         /\ \A l : call' = [call EXCEPT ![s].left = l] => Left(s, l)
         /\ \A n : call' = [call EXCEPT ![s].met = n] => Left(s, call[s].left)
         /\ \A b : call' = [call EXCEPT ![s].left = @ \ {b}, ![s].intents = @ \cup {b}] =>
              Fields(s, call[s].left \ {b}, call[s].intents \cup {b}, call[s].stable, call[s].first, call[s].seen,
                     call[s].broken)
         /\ \A b : call' = [call EXCEPT ![s].left = @ \ {b}, ![s].broken = TRUE] =>
              Fields(s, call[s].left \ {b}, call[s].intents, call[s].stable, call[s].first, call[s].seen, TRUE)
         /\ \A f, n : call' = [call EXCEPT ![s].first = f, ![s].met = n] =>
              Fields(s, call[s].left, call[s].intents, call[s].stable, f, call[s].seen, call[s].broken)
         /\ \A x : call' = [call EXCEPT ![s].stable = x, ![s].first = {}, ![s].met = 0] =>
              Fields(s, call[s].left, call[s].intents, x, {}, call[s].seen, call[s].broken)
         /\ \A v : call' = [call EXCEPT ![s].seen = v] =>
              Fields(s, call[s].left, call[s].intents, call[s].stable, call[s].first, v, call[s].broken)
<1>1. call[s] \in Calls
  OBVIOUS
<1>2. call' = call => Left(s, call[s].left)
  BY DEF Left, Fields
<1>3. ASSUME NEW l, call' = [call EXCEPT ![s].left = l] PROVE Left(s, l)
  BY <1>1, <1>3 DEF Left, Fields, Calls
<1>4. ASSUME NEW n, call' = [call EXCEPT ![s].met = n] PROVE Left(s, call[s].left)
  BY <1>1, <1>4 DEF Left, Fields, Calls
<1>5. ASSUME NEW b, call' = [call EXCEPT ![s].left = @ \ {b}, ![s].intents = @ \cup {b}]
      PROVE  Fields(s, call[s].left \ {b}, call[s].intents \cup {b}, call[s].stable, call[s].first, call[s].seen,
                    call[s].broken)
  <2>1. call'[s] = [call[s] EXCEPT !.left = @ \ {b}, !.intents = @ \cup {b}]
    BY <1>5
  <2> QED
    BY <1>1, <2>1 DEF Fields, Calls
<1>6. ASSUME NEW b, call' = [call EXCEPT ![s].left = @ \ {b}, ![s].broken = TRUE]
      PROVE  Fields(s, call[s].left \ {b}, call[s].intents, call[s].stable, call[s].first, call[s].seen, TRUE)
  <2>1. call'[s] = [call[s] EXCEPT !.left = @ \ {b}, !.broken = TRUE]
    BY <1>6
  <2> QED
    BY <1>1, <2>1 DEF Fields, Calls
<1>7. ASSUME NEW f, NEW n, call' = [call EXCEPT ![s].first = f, ![s].met = n]
      PROVE  Fields(s, call[s].left, call[s].intents, call[s].stable, f, call[s].seen, call[s].broken)
  <2>1. call'[s] = [call[s] EXCEPT !.first = f, !.met = n]
    BY <1>7
  <2> QED
    BY <1>1, <2>1 DEF Fields, Calls
<1>8. ASSUME NEW x, call' = [call EXCEPT ![s].stable = x, ![s].first = {}, ![s].met = 0]
      PROVE  Fields(s, call[s].left, call[s].intents, x, {}, call[s].seen, call[s].broken)
  <2>1. call'[s] = [call[s] EXCEPT !.stable = x, !.first = {}, !.met = 0]
    BY <1>8
  <2> QED
    BY <1>1, <2>1 DEF Fields, Calls
<1>9. ASSUME NEW v, call' = [call EXCEPT ![s].seen = v]
      PROVE  Fields(s, call[s].left, call[s].intents, call[s].stable, call[s].first, v, call[s].broken)
  BY <1>1, <1>9 DEF Fields, Calls
<1> QED
  BY <1>2, <1>3, <1>4, <1>5, <1>6, <1>7, <1>8, <1>9

\* The steps between two places, and what they take along.
Goes(s, from, to) == pc[s] = from /\ pc'[s] = to

Loops(s, b, place) == b \in call[s].left /\ Goes(s, place, place) /\ Left(s, call[s].left \ {b})

Ends(s) == pc[s] # "idle" /\ pc'[s] = "idle"

LEMMA Steps ==
  ASSUME TypeOK, NEW s \in Sweepers
  PROVE  /\ Plan(s) => Ends(s) \/ (Goes(s, "planned", "epoch one") /\ Left(s, call[s].left))
         /\ EpochOne(s) =>
              \/ /\ Goes(s, "epoch one", "epoch two") /\ Epoch(s, 1)
                 /\ Fields(s, call[s].left, call[s].intents, call[s].stable, Candidates, call[s].seen, call[s].broken)
              \/ Goes(s, "epoch one", "failing") /\ jobs' = jobs /\ Left(s, call[s].left)
         /\ EpochTwo(s) =>
              \/ /\ Goes(s, "epoch two", "audited") /\ Epoch(s, 2)
                 /\ Fields(s, call[s].left, call[s].intents, call[s].first \cap Candidates, {}, call[s].seen,
                           call[s].broken)
              \/ Goes(s, "epoch two", "failing") /\ jobs' = jobs /\ Left(s, call[s].left)
         /\ Ready(s) =>
              /\ Left(s, call[s].left)
              /\ \/ Goes(s, "audited", "reporting") /\ Job(s).dry
                 \/ Goes(s, "audited", "ready") \/ Goes(s, "audited", "failing")
         /\ Activate(s) =>
              /\ Left(s, call[s].left)
              /\ \/ Goes(s, "ready", "final audit") /\ Move(s, "ACTIVE") /\ Job(s).state \in {"READY", "ACTIVE"}
                 \/ Goes(s, "ready", "failing") /\ jobs' = jobs
         /\ FinalAudit(s) =>
              \/ Goes(s, "final audit", "intending") /\ Left(s, call[s].stable)
              \/ Goes(s, "final audit", "failing") /\ Left(s, call[s].left) /\ jobs' = jobs
         /\ Delete(s) =>
              /\ call[s].left = {} /\ Left(s, call[s].intents)
              /\ \/ Goes(s, "intending", "marking") /\ Unreferenced(s) /\ Commit(s)
                 \/ Goes(s, "intending", "undoing") /\ blobs' = blobs /\ removed' = removed
         /\ DeleteUnnoticed(s) =>
              /\ call[s].left = {} /\ Left(s, call[s].intents) /\ disturbed'
              /\ Goes(s, "intending", "undoing") /\ Unreferenced(s) /\ Commit(s)
         /\ EndUndo(s) =>
              \/ Ends(s)
              \/ /\ Goes(s, "undoing", "failing") /\ Left(s, call[s].left)
                 /\ call[s].left = {} /\ ~ call[s].broken
         /\ EndReceipts(s) => Goes(s, "marking", "reporting") /\ call[s].left = {} /\ Left(s, call[s].left)
         /\ Succeed(s) =>
              /\ pc[s] \in {"reporting", "closing"}
              /\ Ends(s) \/ (Goes(s, "reporting", "failing") /\ jobs' = jobs /\ Left(s, call[s].left)
                             /\ ~ MayMove(s, "SUCCEEDED"))
         /\ EndFailed(s) => Ends(s) /\ pc[s] = "failing"
         /\ Recall(s) =>
              \/ Ends(s)
              \/ /\ Goes(s, "recalling", "looking") /\ Recoverable(Job(s)) 
                 /\ Fields(s, call[s].left, call[s].intents, call[s].stable, call[s].first, Job(s).cands,
                           call[s].broken)
         /\ Look(s) =>
              \/ Ends(s)
              \/ /\ Left(s, Items(call[s].seen)) /\ Goes(s, "looking", "reconciling")
                 /\ Items(call[s].seen) \cap blobs = {}
              \/ /\ Left(s, Items(call[s].seen)) /\ Goes(s, "looking", "restoring")
                 /\ Items(call[s].seen) \subseteq blobs
         /\ EndPutBack(s) => Ends(s) /\ pc[s] = "restoring" /\ call[s].left = {}
         /\ EndReconcile(s) => Goes(s, "reconciling", "closing") /\ call[s].left = {} /\ Left(s, call[s].left)
<1> USE DEF Goes, Ends
<1>1. pc \in [Sweepers -> Places] /\ call \in [Sweepers -> Calls]
  BY DEF TypeOK
<1>2. \A place : Goto(s, place) => pc'[s] = place
  BY <1>1 DEF Goto
<1>3. Leave(s) => pc'[s] = "idle"
  BY <1>2 DEF Leave
<1>4. Undoing(s) => pc'[s] = "undoing" /\ Left(s, call[s].intents)
  BY <1>1, <1>2, Updates DEF Undoing
<1>5. Plan(s) => Ends(s) \/ (Goes(s, "planned", "epoch one") /\ Left(s, call[s].left))
  BY <1>1, <1>2, <1>3, Updates DEF Plan, At
<1>6. EpochOne(s) =>
        \/ /\ Goes(s, "epoch one", "epoch two") /\ Epoch(s, 1)
           /\ Fields(s, call[s].left, call[s].intents, call[s].stable, Candidates, call[s].seen, call[s].broken)
        \/ Goes(s, "epoch one", "failing") /\ jobs' = jobs /\ Left(s, call[s].left)
  BY <1>1, <1>2, Updates DEF EpochOne, EpochFails, At
<1>7. EpochTwo(s) =>
        \/ /\ Goes(s, "epoch two", "audited") /\ Epoch(s, 2)
           /\ Fields(s, call[s].left, call[s].intents, call[s].first \cap Candidates, {}, call[s].seen, call[s].broken)
        \/ Goes(s, "epoch two", "failing") /\ jobs' = jobs /\ Left(s, call[s].left)
  BY <1>1, <1>2, Updates DEF EpochTwo, EpochFails, At
<1>8. Ready(s) =>
        /\ Left(s, call[s].left)
        /\ \/ Goes(s, "audited", "reporting") /\ Job(s).dry
           \/ Goes(s, "audited", "ready") \/ Goes(s, "audited", "failing")
  BY <1>1, <1>2, Updates DEF Ready, At
<1>9. Activate(s) =>
        /\ Left(s, call[s].left)
        /\ \/ Goes(s, "ready", "final audit") /\ Move(s, "ACTIVE") /\ Job(s).state \in {"READY", "ACTIVE"}
           \/ Goes(s, "ready", "failing") /\ jobs' = jobs
  BY <1>1, <1>2, Updates DEF Activate, At
<1>10. FinalAudit(s) =>
        \/ Goes(s, "final audit", "intending") /\ Left(s, call[s].stable)
        \/ Goes(s, "final audit", "failing") /\ Left(s, call[s].left) /\ jobs' = jobs
  BY <1>1, <1>2, Updates DEF FinalAudit, At
<1>11. Delete(s) =>
        /\ call[s].left = {} /\ Left(s, call[s].intents)
        /\ \/ Goes(s, "intending", "marking") /\ Unreferenced(s) /\ Commit(s)
           \/ Goes(s, "intending", "undoing") /\ blobs' = blobs /\ removed' = removed
  BY <1>1, <1>2, <1>4, Updates DEF Delete, At, content
<1>12. DeleteUnnoticed(s) =>
        /\ call[s].left = {} /\ Left(s, call[s].intents) /\ disturbed'
        /\ Goes(s, "intending", "undoing") /\ Unreferenced(s) /\ Commit(s)
  BY <1>4 DEF DeleteUnnoticed, At
<1>13. EndUndo(s) =>
        \/ Ends(s)
        \/ Goes(s, "undoing", "failing") /\ Left(s, call[s].left) /\ call[s].left = {} /\ ~ call[s].broken
  BY <1>1, <1>2, <1>3, Updates DEF EndUndo, At
<1>14. EndReceipts(s) => Goes(s, "marking", "reporting") /\ call[s].left = {} /\ Left(s, call[s].left)
  BY <1>1, <1>2, Updates DEF EndReceipts, At
<1>15. Succeed(s) =>
        /\ pc[s] \in {"reporting", "closing"}
        /\ Ends(s) \/ (Goes(s, "reporting", "failing") /\ jobs' = jobs /\ Left(s, call[s].left)
                       /\ ~ MayMove(s, "SUCCEEDED"))
  BY <1>1, <1>2, <1>3, Updates DEF Succeed, At
<1>16. EndFailed(s) => Ends(s) /\ pc[s] = "failing"
  BY <1>3 DEF EndFailed, At
<1>17. Recall(s) =>
        \/ Ends(s)
        \/ /\ Goes(s, "recalling", "looking") /\ Recoverable(Job(s))
           /\ Fields(s, call[s].left, call[s].intents, call[s].stable, call[s].first, Job(s).cands, call[s].broken)
  BY <1>1, <1>2, <1>3, Updates DEF Recall, At
<1>18. Look(s) =>
        \/ Ends(s)
        \/ /\ Left(s, Items(call[s].seen)) /\ Goes(s, "looking", "reconciling")
           /\ Items(call[s].seen) \cap blobs = {}
        \/ /\ Left(s, Items(call[s].seen)) /\ Goes(s, "looking", "restoring")
           /\ Items(call[s].seen) \subseteq blobs
  BY <1>1, <1>2, <1>3, Updates DEF Look, At
<1>19. EndPutBack(s) => Ends(s) /\ pc[s] = "restoring" /\ call[s].left = {}
  BY <1>3 DEF EndPutBack, At
<1>20. EndReconcile(s) => Goes(s, "reconciling", "closing") /\ call[s].left = {} /\ Left(s, call[s].left)
  BY <1>1, <1>2, Updates DEF EndReconcile, At
<1> QED
  BY <1>5, <1>6, <1>7, <1>8, <1>9, <1>10, <1>11, <1>12, <1>13, <1>14, <1>15, <1>16, <1>17, <1>18, <1>19, <1>20

LEMMA CandidateSteps ==
  ASSUME TypeOK, NEW s \in Sweepers, NEW b \in Blobs
  PROVE  /\ Intend(s, b) =>
              \/ /\ Goes(s, "intending", "intending") /\ b \in call[s].left
                 /\ MayMark(s, b, {"confirmed", "deleting"}) /\ Mark(s, b, "deleting")
                 /\ Fields(s, call[s].left \ {b}, call[s].intents \cup {b}, call[s].stable, call[s].first,
                           call[s].seen, call[s].broken)
              \/ Goes(s, "intending", "undoing") /\ Left(s, call[s].intents) /\ jobs' = jobs
         /\ Undo(s, b) =>
              \/ /\ Loops(s, b, "undoing") /\ MayMark(s, b, {"deleting", "confirmed"}) /\ Mark(s, b, "confirmed")
              \/ /\ Goes(s, "undoing", "undoing") /\ jobs' = jobs
                 /\ Fields(s, call[s].left \ {b}, call[s].intents, call[s].stable, call[s].first, call[s].seen, TRUE)
         /\ Receipt(s, b) =>
              \/ Ends(s) /\ jobs' = jobs
              \/ Loops(s, b, "marking") /\ MayMark(s, b, {"deleting", "swept"}) /\ Mark(s, b, "swept")
         /\ PutBack(s, b) =>
              \/ Ends(s) /\ jobs' = jobs
              \/ /\ Loops(s, b, "restoring") /\ call[s].seen[b] = "deleting"
                 /\ MayMark(s, b, {"deleting", "confirmed"}) /\ Mark(s, b, "confirmed")
              \/ Loops(s, b, "restoring") /\ call[s].seen[b] = "confirmed" /\ jobs' = jobs
         /\ Reconcile(s, b) =>
              \/ Ends(s) /\ jobs' = jobs
              \/ /\ Loops(s, b, "reconciling") /\ call[s].seen[b] = "deleting"
                 /\ MayMark(s, b, {"deleting", "swept"}) /\ Mark(s, b, "swept")
              \/ Loops(s, b, "reconciling") /\ call[s].seen[b] = "swept" /\ jobs' = jobs
<1> USE DEF Goes, Ends, Loops
<1>1. pc \in [Sweepers -> Places] /\ call \in [Sweepers -> Calls]
  BY DEF TypeOK
<1>2. \A place : Goto(s, place) => pc'[s] = place
  BY <1>1 DEF Goto
<1>3. Leave(s) => pc'[s] = "idle"
  BY <1>2 DEF Leave
<1>4. Undoing(s) => pc'[s] = "undoing" /\ Left(s, call[s].intents)
  BY <1>1, <1>2, Updates DEF Undoing
<1>5. call' = [call EXCEPT ![s].left = @ \ {b}] => Left(s, call[s].left \ {b})
  BY <1>1, Updates
<1>6. call' = [call EXCEPT ![s].left = @ \ {b}, ![s].broken = TRUE] =>
        Fields(s, call[s].left \ {b}, call[s].intents, call[s].stable, call[s].first, call[s].seen, TRUE)
  BY <1>1, Updates
<1>7. ASSUME Intend(s, b)
      PROVE  \/ /\ Goes(s, "intending", "intending") /\ b \in call[s].left
                /\ MayMark(s, b, {"confirmed", "deleting"}) /\ Mark(s, b, "deleting")
                /\ Fields(s, call[s].left \ {b}, call[s].intents \cup {b}, call[s].stable, call[s].first,
                          call[s].seen, call[s].broken)
             \/ Goes(s, "intending", "undoing") /\ Left(s, call[s].intents) /\ jobs' = jobs
  <2>1. call' = [call EXCEPT ![s].left = @ \ {b}, ![s].intents = @ \cup {b}] =>
          Fields(s, call[s].left \ {b}, call[s].intents \cup {b}, call[s].stable, call[s].first, call[s].seen,
                 call[s].broken)
    BY <1>1, Updates
  <2> QED
    BY <1>4, <1>7, <2>1 DEF Intend, At
<1>8. ASSUME Undo(s, b)
      PROVE  \/ /\ Loops(s, b, "undoing") /\ MayMark(s, b, {"deleting", "confirmed"}) /\ Mark(s, b, "confirmed")
             \/ /\ Goes(s, "undoing", "undoing") /\ jobs' = jobs
                /\ Fields(s, call[s].left \ {b}, call[s].intents, call[s].stable, call[s].first, call[s].seen, TRUE)
  BY <1>5, <1>6, <1>8 DEF Undo, At
<1>9. ASSUME Receipt(s, b)
      PROVE  \/ Ends(s) /\ jobs' = jobs
             \/ Loops(s, b, "marking") /\ MayMark(s, b, {"deleting", "swept"}) /\ Mark(s, b, "swept")
  BY <1>3, <1>5, <1>9 DEF Receipt, At
<1>10. ASSUME PutBack(s, b)
       PROVE  \/ Ends(s) /\ jobs' = jobs
              \/ /\ Loops(s, b, "restoring") /\ call[s].seen[b] = "deleting"
                 /\ MayMark(s, b, {"deleting", "confirmed"}) /\ Mark(s, b, "confirmed")
              \/ Loops(s, b, "restoring") /\ call[s].seen[b] = "confirmed" /\ jobs' = jobs
  BY <1>3, <1>5, <1>10 DEF PutBack, Recovered, At
<1>11. ASSUME Reconcile(s, b)
       PROVE  \/ Ends(s) /\ jobs' = jobs
              \/ /\ Loops(s, b, "reconciling") /\ call[s].seen[b] = "deleting"
                 /\ MayMark(s, b, {"deleting", "swept"}) /\ Mark(s, b, "swept")
              \/ Loops(s, b, "reconciling") /\ call[s].seen[b] = "swept" /\ jobs' = jobs
  BY <1>3, <1>5, <1>11 DEF Reconcile, Recovered, At
<1> QED
  BY <1>7, <1>8, <1>9, <1>10, <1>11

LEMMA FaultSteps ==
  ASSUME TypeOK, NEW s \in Sweepers
  PROVE  /\ Crash(s) => Ends(s) /\ jobs' = jobs
         /\ Fail(s) =>
              /\ jobs' = jobs
              /\ \/ /\ pc[s] \in {"epoch one", "epoch two", "audited", "ready", "final audit"}
                    /\ pc'[s] = "failing" /\ Left(s, call[s].left)
                 \/ Goes(s, "reporting", "failing") /\ disturbed' /\ Left(s, call[s].left)
                 \/ Goes(s, "intending", "undoing") /\ Left(s, call[s].intents)
                 \/ /\ Goes(s, "undoing", "undoing")
                    /\ \E b \in call[s].left : Fields(s, call[s].left \ {b}, call[s].intents, call[s].stable,
                                                      call[s].first, call[s].seen, TRUE)
<1> USE DEF Goes, Ends
<1>1. pc \in [Sweepers -> Places] /\ call \in [Sweepers -> Calls] /\ jobs \in [Keys -> JobRows]
  BY DEF TypeOK
<1>2. \A place : Goto(s, place) => pc'[s] = place
  BY <1>1 DEF Goto
<1>3. Undoing(s) => pc'[s] = "undoing" /\ Left(s, call[s].intents)
  BY <1>1, <1>2, Updates DEF Undoing
<1>4. Crash(s) => Ends(s) /\ jobs' = jobs
  BY <1>2 DEF Crash, Leave, At
<1>5. ASSUME Fail(s)
      PROVE  /\ jobs' = jobs
             /\ \/ /\ pc[s] \in {"epoch one", "epoch two", "audited", "ready", "final audit"}
                   /\ pc'[s] = "failing" /\ Left(s, call[s].left)
                \/ Goes(s, "reporting", "failing") /\ disturbed' /\ Left(s, call[s].left)
                \/ Goes(s, "intending", "undoing") /\ Left(s, call[s].intents)
                \/ /\ Goes(s, "undoing", "undoing")
                   /\ \E b \in call[s].left : Fields(s, call[s].left \ {b}, call[s].intents, call[s].stable,
                                                     call[s].first, call[s].seen, TRUE)
  <2>1. call' = call => Left(s, call[s].left)
    BY <1>1, Updates
  <2>2. \A b : call' = [call EXCEPT ![s].left = @ \ {b}, ![s].broken = TRUE] =>
          Fields(s, call[s].left \ {b}, call[s].intents, call[s].stable, call[s].first, call[s].seen, TRUE)
    BY <1>1, Updates
  <2> QED
    BY <1>2, <1>3, <1>5, <2>1, <2>2 DEF Fail, At
<1> QED
  BY <1>4, <1>5

\* A request starts a new job, or finds the one it has made before.
Asks(s, k) ==
    /\ pc[s] = "idle" /\ call'[s].key = k /\ call'[s].intents = {} /\ call'[s].broken = FALSE
    /\ \/ jobs[k].state = "NONE" /\ jobs'[k].state = "PLANNED" /\ pc'[s] = "planned"
       \/ jobs[k].state = "PLANNED" /\ jobs' = jobs /\ pc'[s] = "planned"
       \/ jobs[k].state = "ACTIVE" /\ jobs' = jobs /\ pc'[s] = "recalling"
    /\ disturbed' \/ \A t \in Sweepers : call[t].key # k

LEMMA AskSteps ==
  ASSUME TypeOK, NEW s \in Sweepers, NEW k \in Keys, NEW dry, Ask(s, k, dry)
  PROVE  Asks(s, k)
<1>1. pc \in [Sweepers -> Places] /\ call \in [Sweepers -> Calls] /\ jobs \in [Keys -> JobRows]
  BY DEF TypeOK
<1>2. \A place : Goto(s, place) => pc'[s] = place
  BY <1>1 DEF Goto
<1>3. call'[s] = [NoCall EXCEPT !.key = k, !.pin = pin] /\ pc[s] = "idle"
  BY <1>1 DEF Ask, At
<1>4. call'[s].key = k /\ call'[s].intents = {} /\ call'[s].broken = FALSE
  BY <1>3 DEF NoCall
<1>5. ASSUME jobs' = [jobs EXCEPT ![k].state = "PLANNED", ![k].dry = dry, ![k].pin = pin]
      PROVE  jobs'[k].state = "PLANNED"
  BY <1>1, <1>5 DEF JobRows
<1>6. disturbed' \/ \A t \in Sweepers : call[t].key # k
  BY DEF Ask
<1> QED
  BY <1>2, <1>3, <1>4, <1>5, <1>6 DEF Ask, Asks


\* The place of a process, the content and the histories.
LEMMA PlaceTyped ==
  ASSUME TypeOK, NEW s \in Sweepers, Step(s)
  PROVE  /\ pc' \in [Sweepers -> Places]
         /\ \A t \in Sweepers : t # s => pc'[t] = pc[t]
<1> DEFINE Goal == /\ pc' \in [Sweepers -> Places]
                   /\ \A t \in Sweepers : t # s => pc'[t] = pc[t]
<1>1. pc \in [Sweepers -> Places]
  BY DEF TypeOK
<1>2. ASSUME pc' = pc PROVE Goal
  BY <1>1, <1>2
<1>3. ASSUME NEW place \in Places, Goto(s, place) PROVE Goal
  BY <1>1, <1>3 DEF Goto
<1>4. ASSUME Leave(s) PROVE Goal
  BY <1>3, <1>4 DEF Leave, Places
<1>5. ASSUME Undoing(s) PROVE Goal
  BY <1>3, <1>5 DEF Undoing, Places
<1>6. ASSUME NEW k \in Keys, NEW dry \in BOOLEAN, Ask(s, k, dry) PROVE Goal
  BY <1>3, <1>6 DEF Ask, Places
<1>7. ASSUME Plan(s) \/ EpochOne(s) \/ EpochTwo(s) \/ Ready(s) \/ Activate(s) \/ FinalAudit(s) PROVE Goal
  BY <1>3, <1>4, <1>7 DEF Plan, EpochOne, EpochTwo, EpochFails, Ready, Activate, FinalAudit, Places
<1>8. ASSUME Delete(s) \/ DeleteUnnoticed(s) \/ EndUndo(s) \/ EndReceipts(s) \/ Succeed(s) \/ EndFailed(s) PROVE Goal
  BY <1>3, <1>4, <1>5, <1>8 DEF Delete, DeleteUnnoticed, EndUndo, EndReceipts, Succeed, EndFailed, Places
<1>9. ASSUME Recall(s) \/ Look(s) \/ EndPutBack(s) \/ EndReconcile(s) \/ Fail(s) \/ Crash(s) PROVE Goal
  BY <1>2, <1>3, <1>4, <1>5, <1>9 DEF Recall, Look, EndPutBack, EndReconcile, Fail, Crash, Places
<1>10. ASSUME NEW b \in Blobs,
              Intend(s, b) \/ Undo(s, b) \/ Receipt(s, b) \/ PutBack(s, b) \/ Reconcile(s, b)
       PROVE  Goal
  BY <1>2, <1>4, <1>5, <1>10 DEF Intend, Undo, Receipt, PutBack, Reconcile, Recovered
<1> QED
  BY <1>6, <1>7, <1>8, <1>9, <1>10 DEF Step

Deletes(s) == (Delete(s) \/ DeleteUnnoticed(s)) /\ Unreferenced(s) /\ Commit(s)

LEMMA ContentMoves ==
  ASSUME TypeOK, NEW s \in Sweepers, Step(s)
  PROVE  /\ UNCHANGED <<refs, pin, writes>>
         /\ UNCHANGED <<blobs, removed>> \/ Deletes(s)
<1>1. ASSUME NEW k \in Keys, NEW dry \in BOOLEAN, Ask(s, k, dry)
      PROVE  UNCHANGED <<refs, pin, writes, blobs, removed>>
  BY <1>1 DEF Ask, content, bounds
<1>2. ASSUME Plan(s) \/ EpochOne(s) \/ EpochTwo(s) \/ Ready(s) \/ Activate(s) \/ FinalAudit(s)
             \/ EndUndo(s) \/ EndReceipts(s) \/ Succeed(s) \/ EndFailed(s)
      PROVE  UNCHANGED <<refs, pin, writes, blobs, removed>>
  BY <1>2 DEF Plan, EpochOne, EpochTwo, Ready, Activate, FinalAudit, EndUndo, EndReceipts, Succeed, EndFailed,
              content, history, bounds
<1>3. ASSUME Recall(s) \/ Look(s) \/ EndPutBack(s) \/ EndReconcile(s) \/ Fail(s) \/ Crash(s)
      PROVE  UNCHANGED <<refs, pin, writes, blobs, removed>>
  BY <1>3 DEF Recall, Look, EndPutBack, EndReconcile, Fail, Crash, content, history, bounds
<1>4. ASSUME NEW b \in Blobs,
             Intend(s, b) \/ Undo(s, b) \/ Receipt(s, b) \/ PutBack(s, b) \/ Reconcile(s, b)
      PROVE  UNCHANGED <<refs, pin, writes, blobs, removed>>
  BY <1>4 DEF Intend, Undo, Receipt, PutBack, Reconcile, Recovered, content, history, bounds
<1>5. ASSUME Delete(s) \/ DeleteUnnoticed(s)
      PROVE  UNCHANGED <<refs, pin, writes>> /\ (UNCHANGED <<blobs, removed>> \/ Deletes(s))
  BY <1>5 DEF Delete, DeleteUnnoticed, Commit, Deletes, content, bounds
<1> QED
  BY <1>1, <1>2, <1>3, <1>4, <1>5 DEF Step

\* The bounds and the flag.
LEMMA FlagTyped ==
  ASSUME TypeOK, NEW s \in Sweepers, Step(s)
  PROVE  disturbed' \in BOOLEAN /\ faults' \in Nat /\ (disturbed => disturbed')
<1> USE DEF TypeOK
<1> DEFINE Goal == disturbed' \in BOOLEAN /\ faults' \in Nat /\ (disturbed => disturbed')
<1>1. ASSUME NEW k \in Keys, NEW dry \in BOOLEAN, Ask(s, k, dry)
      PROVE  Goal
  BY <1>1 DEF Ask, bounds
<1>2. ASSUME Plan(s) \/ EpochOne(s) \/ EpochTwo(s) \/ Ready(s) \/ Activate(s) \/ FinalAudit(s)
             \/ EndUndo(s) \/ EndReceipts(s) \/ Succeed(s) \/ EndFailed(s)
      PROVE  Goal
  BY <1>2 DEF Plan, EpochOne, EpochTwo, Ready, Activate, FinalAudit, EndUndo, EndReceipts, Succeed, EndFailed,
              history, bounds
<1>3. ASSUME Recall(s) \/ Look(s) \/ EndPutBack(s) \/ EndReconcile(s) PROVE Goal
  BY <1>3 DEF Recall, Look, EndPutBack, EndReconcile, history, bounds
<1>4. ASSUME NEW b \in Blobs,
             Intend(s, b) \/ Undo(s, b) \/ Receipt(s, b) \/ PutBack(s, b) \/ Reconcile(s, b)
      PROVE  Goal
  BY <1>4 DEF Intend, Undo, Receipt, PutBack, Reconcile, Recovered, history, bounds
<1>5. ASSUME Delete(s) PROVE Goal
  BY <1>5 DEF Delete, bounds
<1>6. ASSUME DeleteUnnoticed(s) PROVE Goal
  BY <1>6 DEF DeleteUnnoticed
<1>7. ASSUME Crash(s) PROVE Goal
  BY <1>7 DEF Crash, history
<1>8. ASSUME Fail(s) PROVE Goal
  <2>1. faults' = faults + 1
    BY <1>8 DEF Fail
  <2>2. CASE disturbed' = disturbed
    BY <2>1, <2>2
  <2>3. CASE disturbed' = TRUE
    BY <2>1, <2>3
  <2> QED
    BY <1>8, <2>2, <2>3, Zenon DEF Fail
<1> QED
  BY <1>1, <1>2, <1>3, <1>4, <1>5, <1>6, <1>7, <1>8 DEF Step

\* The world moves its own variables.
LEMMA WorldMoves ==
  ASSUME TypeOK, LosePin \/ Write \/ UNCHANGED vars
  PROVE  /\ UNCHANGED <<jobs, pc, call, history>>
         /\ blobs \subseteq blobs' /\ blobs' \subseteq Blobs /\ refs' \subseteq blobs'
         /\ pin' \in Nat /\ writes' \in Nat /\ faults' \in Nat
<1>1. CASE LosePin
  BY <1>1 DEF LosePin, TypeOK, content, history, bounds
<1>2. CASE Write
  BY <1>2 DEF Write, Candidates, TypeOK, history
<1>3. CASE UNCHANGED vars
  BY <1>3 DEF vars, TypeOK, content, history, bounds
<1> QED
  BY <1>1, <1>2, <1>3

\* A process keeps to its request.
LEMMA KeyKept ==
  ASSUME TypeOK, NEW s \in Sweepers, Step(s)
  PROVE  \/ pc'[s] = "idle"
         \/ pc[s] # "idle" /\ call'[s].key = call[s].key
         \/ \E k \in Keys, dry \in BOOLEAN : Ask(s, k, dry)
<1> DEFINE Same == pc'[s] = "idle" \/ (pc[s] # "idle" /\ call'[s].key = call[s].key)
<1> USE DEF Left, Fields, Goes, Loops, Ends
<1>1. ASSUME Plan(s) \/ EpochOne(s) \/ EpochTwo(s) \/ Ready(s) \/ Activate(s) \/ FinalAudit(s) PROVE Same
  BY <1>1, Steps
<1>2. ASSUME Delete(s) \/ DeleteUnnoticed(s) \/ EndUndo(s) \/ EndReceipts(s) \/ Succeed(s) \/ EndFailed(s) PROVE Same
  BY <1>2, Steps
<1>3. ASSUME Recall(s) \/ Look(s) \/ EndPutBack(s) \/ EndReconcile(s) PROVE Same
  BY <1>3, Steps
<1>4. ASSUME Fail(s) \/ Crash(s) PROVE Same
  BY <1>4, FaultSteps
<1>5. ASSUME NEW b \in Blobs,
             Intend(s, b) \/ Undo(s, b) \/ Receipt(s, b) \/ PutBack(s, b) \/ Reconcile(s, b)
      PROVE  Same
  BY <1>5, CandidateSteps
<1> QED
  BY <1>1, <1>2, <1>3, <1>4, <1>5 DEF Step

\* A process that is under way has a request that has been made.
LEMMA KeysTyped ==
  ASSUME TypeOK, NEW s \in Sweepers, Step(s)
  PROVE  \A t \in Sweepers : pc'[t] # "idle" => call'[t].key \in Keys /\ Job(t)'.state # "NONE"
<1>1. \A k \in Keys : jobs[k].state # "NONE" => jobs'[k].state # "NONE"
  BY JobTyped DEF Asked, Moved, Audited, Marked, MovesTo
<1>2. ASSUME NEW t \in Sweepers, t # s, pc'[t] # "idle" PROVE call'[t].key \in Keys /\ Job(t)'.state # "NONE"
  BY <1>1, <1>2, CallTyped, PlaceTyped DEF TypeOK, Job
<1>3. ASSUME pc[s] # "idle", call'[s].key = call[s].key PROVE call'[s].key \in Keys /\ Job(s)'.state # "NONE"
  BY <1>1, <1>3 DEF TypeOK, Job
<1>4. ASSUME NEW k \in Keys, NEW dry, Ask(s, k, dry) PROVE call'[s].key \in Keys /\ Job(s)'.state # "NONE"
  <2>1. Asks(s, k)
    BY <1>4, AskSteps
  <2>2. jobs'[k].state # "NONE"
    BY <2>1 DEF Asks
  <2>3. call'[s].key = k
    BY <2>1 DEF Asks
  <2> QED
    BY <2>2, <2>3 DEF Job
<1> QED
  BY <1>2, <1>3, <1>4, KeyKept

LEMMA TypeInit == Init => TypeOK
<1> SUFFICES ASSUME Init PROVE TypeOK
  OBVIOUS
<1>1. NoCall \in Calls /\ NoJob \in JobRows
  <2>1. <<>> \in Seq(SUBSET Blobs) /\ [b \in Blobs |-> "none"] \in [Blobs -> CandidateStates]
    BY DEF CandidateStates
  <2> QED
    BY <2>1 DEF NoCall, NoJob, Calls, JobRows, JobStates
<1> QED
  BY <1>1 DEF Init, TypeOK, Places

LEMMA TypeStep == TypeOK /\ [Next]_vars => TypeOK'
<1> SUFFICES ASSUME TypeOK, [Next]_vars PROVE TypeOK'
  OBVIOUS
<1>1. ASSUME NEW s \in Sweepers, Step(s) PROVE TypeOK'
  <2>1. /\ pc' \in [Sweepers -> Places] /\ call' \in [Sweepers -> Calls] /\ jobs' \in [Keys -> JobRows]
        /\ disturbed' \in BOOLEAN /\ faults' \in Nat
        /\ \A t \in Sweepers : pc'[t] # "idle" => call'[t].key \in Keys /\ Job(t)'.state # "NONE"
    BY <1>1, PlaceTyped, CallTyped, JobTyped, FlagTyped, KeysTyped DEF CallsOK, JobsOK
  <2>2. /\ blobs' \subseteq Blobs /\ refs' \subseteq blobs' /\ pin' \in Nat /\ writes' \in Nat
        /\ removed' \in [Keys -> SUBSET Blobs]
    <3>1. CASE UNCHANGED <<blobs, removed>>
      BY <1>1, <3>1, ContentMoves DEF TypeOK
    <3>2. CASE Deletes(s)
      <4>1. call[s].stable \subseteq Blobs \ refs
        BY <3>2 DEF Deletes, Unreferenced, TypeOK
      <4> QED
        BY <1>1, <3>2, <4>1, ContentMoves DEF TypeOK, Deletes, Commit
    <3> QED
      BY <1>1, <3>1, <3>2, ContentMoves
  <2> QED
    BY <2>1, <2>2 DEF TypeOK
<1>2. ASSUME LosePin \/ Write \/ UNCHANGED vars PROVE TypeOK'
  BY <1>2, WorldMoves DEF TypeOK, Job, history
<1> QED
  BY <1>1, <1>2 DEF Next

\* The type invariant.
THEOREM TypeCorrect == Spec => []TypeOK
  BY TypeInit, TypeStep, PTL DEF Spec

-----------------------------------------------------------------------------
(* Audits: what a job and the processes on it know of the references.      *)

\* A candidate is what the second audit has found, and was confirmed by the first.
JobAudits(k) ==
    /\ Len(jobs[k].audits) \in 0..2
    /\ jobs[k].state \in {"READY", "ACTIVE", "SUCCEEDED"} => Len(jobs[k].audits) = 2
    /\ \A b \in Blobs :
        /\ jobs[k].cands[b] # "none" <=> Len(jobs[k].audits) = 2 /\ b \in jobs[k].audits[2]
        /\ jobs[k].cands[b] \notin {"none", "marked"} => b \in jobs[k].audits[1]

KnowsAudits(s) ==
    /\ pc[s] = "epoch two" => Len(Job(s).audits) >= 1 /\ call[s].first = Job(s).audits[1]
    /\ pc[s] \in {"audited", "ready", "final audit", "intending", "undoing", "marking", "reporting"} =>
          Len(Job(s).audits) = 2 /\ call[s].stable = Job(s).audits[1] \cap Job(s).audits[2]
    /\ pc[s] \in {"recalling", "looking", "restoring", "reconciling", "closing"} => Len(Job(s).audits) = 2
    /\ pc[s] \in {"looking", "restoring", "reconciling", "closing"} =>
          \A b \in Blobs : call[s].seen[b] # "none" <=> b \in Job(s).audits[2]

Audits == (\A k \in Keys : JobAudits(k)) /\ \A s \in Sweepers : KnowsAudits(s)

\* Audits are kept.
LEMMA AuditsStay ==
  ASSUME TypeOK, NEW s \in Sweepers, Step(s), NEW k \in Keys
  PROVE  /\ jobs'[k].audits \in Seq(SUBSET Blobs) /\ jobs[k].audits \in Seq(SUBSET Blobs)
         /\ Len(jobs[k].audits) <= Len(jobs'[k].audits)
         /\ \A i \in 1..Len(jobs[k].audits) : jobs'[k].audits[i] = jobs[k].audits[i]
<1>1. jobs[k] \in JobRows /\ jobs'[k] \in JobRows
  BY JobTyped DEF JobsOK, TypeOK
<1>2. jobs[k].audits \in Seq(SUBSET Blobs) /\ jobs'[k].audits \in Seq(SUBSET Blobs)
  BY <1>1 DEF JobRows
<1>3. jobs'[k].audits = jobs[k].audits \/ jobs'[k].audits = Append(jobs[k].audits, Candidates)
  BY JobTyped DEF Asked, Moved, Audited, Marked, Kept
<1>4. Candidates \in SUBSET Blobs
  BY DEF TypeOK, Candidates
<1> QED
  BY <1>2, <1>3, <1>4

\* An epoch leaves its audit with the job.
LEMMA EpochKept ==
  ASSUME TypeOK, NEW s \in Sweepers, pc[s] # "idle", NEW n \in {1, 2}, Epoch(s, n)
  PROVE  LET audits == jobs'[call[s].key].audits IN Len(audits) >= n /\ audits[n] = Candidates
<1> DEFINE k == call[s].key
<1>1. k \in Keys /\ jobs[k] \in JobRows /\ jobs[k].audits \in Seq(SUBSET Blobs) /\ Candidates \in SUBSET Blobs
  BY DEF TypeOK, JobRows, Candidates
<1>0. \A seq \in Seq(SUBSET Blobs), e \in SUBSET Blobs :
        Len(Append(seq, e)) = Len(seq) + 1 /\ Append(seq, e)[Len(seq) + 1] = e
  OBVIOUS
<1>2. CASE Len(jobs[k].audits) >= n /\ jobs[k].audits[n] = Candidates /\ jobs' = jobs
  BY <1>2
<1>3. ASSUME Len(jobs[k].audits) = n - 1, NEW v,
             jobs' = [jobs EXCEPT ![k].audits = Append(@, Candidates), ![k].cands = v]
      PROVE  Len(jobs'[k].audits) >= n /\ jobs'[k].audits[n] = Candidates
  <2>1. jobs'[k].audits = Append(jobs[k].audits, Candidates)
    <3>1. jobs'[k] = [jobs[k] EXCEPT !.audits = Append(@, Candidates), !.cands = v]
      BY <1>1, <1>3 DEF TypeOK
    <3> QED
      BY <1>1, <3>1 DEF JobRows
  <2> QED
    <3>1. Len(jobs[k].audits) + 1 = n
      BY <1>1, <1>3
    <3>2. Len(jobs'[k].audits) = n /\ jobs'[k].audits[n] = Candidates
      BY <1>0, <1>1, <2>1, <3>1
    <3> QED
      BY <3>2
<1>4. CASE n = 1
  <2>1. ASSUME jobs' = [jobs EXCEPT ![k].audits = Append(@, Candidates), ![k].cands = @], Len(jobs[k].audits) = 0
        PROVE  Len(jobs'[k].audits) >= n /\ jobs'[k].audits[n] = Candidates
    <3>1. jobs'[k].audits = Append(jobs[k].audits, Candidates)
      <4>1. jobs'[k] = [jobs[k] EXCEPT !.audits = Append(@, Candidates), !.cands = @]
        BY <1>1, <2>1 DEF TypeOK
      <4> QED
        BY <1>1, <4>1 DEF JobRows
    <3> QED
      <4>1. Len(jobs[k].audits) + 1 = n
        BY <1>1, <1>4, <2>1
      <4>2. Len(jobs'[k].audits) = n /\ jobs'[k].audits[n] = Candidates
        BY <1>0, <1>1, <3>1, <4>1
      <4> QED
        BY <4>2
  <2> QED
    BY <1>2, <1>4, <2>1 DEF Epoch, Job
<1>5. CASE n = 2
  BY <1>2, <1>3, <1>5 DEF Epoch, Job
<1> QED
  BY <1>4, <1>5

LEMMA JobAuditsStep ==
  ASSUME TypeOK, Audits, NEW s \in Sweepers, Step(s), NEW k \in Keys
  PROVE  JobAudits(k)'
<1> USE DEF Audits
<1>1. /\ jobs[k] \in JobRows /\ jobs[k].audits \in Seq(SUBSET Blobs) /\ jobs[k].cands \in [Blobs -> CandidateStates]
      /\ Candidates \in SUBSET Blobs
  BY DEF TypeOK, JobRows, Candidates
<1>2. CASE jobs'[k] = jobs[k]
  BY <1>2 DEF JobAudits
<1>3. CASE Asked(s, k)
  BY <1>3 DEF Asked, Kept, JobAudits
<1>4. CASE k = call[s].key /\ pc[s] # "idle" /\ Moved(s, k)
  <2>1. jobs'[k].audits = jobs[k].audits /\ jobs'[k].cands = jobs[k].cands
    BY <1>4 DEF Moved, Kept
  <2>2. CASE jobs'[k].state = jobs[k].state \/ jobs'[k].state \in {"AUDITING", "FAILED"}
    BY <2>1, <2>2 DEF JobAudits
  <2>3. CASE Ready(s) \/ Succeed(s)
    <3>1. Len(jobs[k].audits) = 2
      BY <1>4, <2>3, Steps DEF Goes, KnowsAudits, Job
    <3> QED
      BY <2>1, <3>1 DEF JobAudits
  <2>4. CASE Activate(s)
    <3>1. jobs' = jobs \/ jobs[k].state \in {"READY", "ACTIVE"}
      BY <1>4, <2>4, Steps DEF Job
    <3> QED
      BY <1>2, <2>1, <3>1 DEF JobAudits
  <2> QED
    BY <1>4, <2>2, <2>3, <2>4 DEF Moved, MovesTo
<1>5. CASE k = call[s].key /\ pc[s] # "idle" /\ Audited(s, k)
  <2>1. /\ jobs'[k].audits = Append(jobs[k].audits, Candidates) /\ jobs'[k].state = jobs[k].state
        /\ jobs[k].state \in {"AUDITING", "READY"}
    BY <1>5 DEF Audited
  <2>2. CASE Len(jobs[k].audits) = 0 /\ jobs'[k].cands = jobs[k].cands
    <3>1. Len(jobs'[k].audits) = 1 /\ jobs[k].state = "AUDITING"
      BY <1>1, <2>1, <2>2 DEF JobAudits
    <3> QED
      BY <2>1, <2>2, <3>1 DEF JobAudits
  <2>3. CASE /\ EpochTwo(s) /\ Len(jobs[k].audits) = 1
             /\ jobs'[k].cands = [b \in Blobs |-> IF b \notin Candidates THEN "none"
                                                  ELSE IF b \in call[s].first THEN "confirmed" ELSE "marked"]
    <3>1. Len(jobs'[k].audits) = 2 /\ jobs'[k].audits[2] = Candidates /\ jobs'[k].audits[1] = jobs[k].audits[1]
      BY <1>1, <2>1, <2>3
    <3>2. call[s].first = jobs[k].audits[1]
      BY <1>5, <2>3, Steps DEF Goes, KnowsAudits, Job
    <3> QED
      BY <2>3, <3>1, <3>2 DEF JobAudits
  <2> QED
    BY <1>5, <2>2, <2>3 DEF Audited
<1>6. CASE k = call[s].key /\ pc[s] # "idle" /\ Marked(s, k)
  <2>1. PICK b \in Blobs, from \in SUBSET CandidateStates, to \in CandidateStates :
          /\ Marks(s, b, from, to) /\ jobs[k].cands[b] \in from
          /\ jobs'[k].cands = [jobs[k].cands EXCEPT ![b] = to]
    BY <1>6 DEF Marked
  <2>2. jobs[k].cands[b] \notin {"none", "marked"} /\ to \notin {"none", "marked"}
    BY <2>1 DEF Marks
  <2>3. \A x \in Blobs : /\ jobs'[k].cands[x] # "none" <=> jobs[k].cands[x] # "none"
                         /\ jobs'[k].cands[x] \notin {"none", "marked"} <=> jobs[k].cands[x] \notin {"none", "marked"}
    BY <1>1, <2>1, <2>2
  <2>4. jobs'[k].audits = jobs[k].audits /\ jobs'[k].state = jobs[k].state
    BY <1>6 DEF Marked
  <2> QED
    BY <2>3, <2>4 DEF JobAudits
<1> QED
  BY <1>2, <1>3, <1>4, <1>5, <1>6, JobTyped

\* The knowledge of a process survives the steps of all others, and of its own.
LEMMA KnowsAuditsStep ==
  ASSUME TypeOK, Audits, NEW s \in Sweepers, Step(s), NEW t \in Sweepers
  PROVE  KnowsAudits(t)'
<1> USE DEF Audits
<1>1. \A k \in Keys : JobAudits(k) /\ JobAudits(k)'
  BY JobAuditsStep
<1>2. ASSUME NEW k \in Keys
      PROVE  /\ Len(jobs[k].audits) >= 1 => Len(jobs'[k].audits) >= 1 /\ jobs'[k].audits[1] = jobs[k].audits[1]
             /\ Len(jobs[k].audits) = 2 => /\ Len(jobs'[k].audits) = 2
                                           /\ jobs'[k].audits[1] = jobs[k].audits[1]
                                           /\ jobs'[k].audits[2] = jobs[k].audits[2]
  BY <1>1, AuditsStay DEF JobAudits
<1>3. CASE t # s
  <2>1. pc'[t] = pc[t] /\ call'[t] = call[t]
    BY <1>3, PlaceTyped, CallTyped
  <2>2. CASE pc[t] = "idle"
    BY <2>1, <2>2 DEF KnowsAudits
  <2>3. ASSUME NEW k \in Keys, k = call[t].key PROVE KnowsAudits(t)'
    <3>1. Job(t) = jobs[k] /\ Job(t)' = jobs'[k]
      BY <2>1, <2>3 DEF Job
    <3>2. KnowsAudits(t)
      OBVIOUS
    <3>3. /\ Len(jobs[k].audits) >= 1 => Len(jobs'[k].audits) >= 1 /\ jobs'[k].audits[1] = jobs[k].audits[1]
          /\ Len(jobs[k].audits) = 2 => /\ Len(jobs'[k].audits) = 2
                                        /\ jobs'[k].audits[1] = jobs[k].audits[1]
                                        /\ jobs'[k].audits[2] = jobs[k].audits[2]
      BY <1>2
    <3> HIDE <1>1, <1>2
    <3> QED
      BY <2>1, <3>1, <3>2, <3>3 DEF KnowsAudits
  <2> QED
    BY <2>2, <2>3 DEF TypeOK
<1>4. KnowsAudits(s)'
  <2> DEFINE k == call[s].key
  <2>2. ASSUME pc'[s] \in {"idle", "planned", "epoch one", "failing"} PROVE KnowsAudits(s)'
    BY <2>2 DEF KnowsAudits
  <2>3. ASSUME NEW j \in Keys, NEW dry, Ask(s, j, dry) PROVE KnowsAudits(s)'
    <3>1. CASE pc'[s] = "planned"
      BY <2>2, <3>1
    <3>2. CASE pc'[s] = "recalling" /\ jobs[j].state = "ACTIVE" /\ jobs' = jobs /\ call'[s].key = j
      BY <1>1, <3>2 DEF KnowsAudits, JobAudits, Job
    <3>3. Asks(s, j)
      BY <2>3, AskSteps
    <3> QED
      BY <3>1, <3>2, <3>3 DEF Asks
  <2>4. CASE EpochOne(s)
    <3>1. CASE Goes(s, "epoch one", "failing")
      BY <2>2, <3>1 DEF Goes
    <3>2. CASE Goes(s, "epoch one", "epoch two") /\ Epoch(s, 1) /\ call'[s].first = Candidates /\ call'[s].key = k
      <4>1. Len(jobs'[k].audits) >= 1 /\ jobs'[k].audits[1] = Candidates
        BY <3>2, EpochKept DEF Goes
      <4> QED
        BY <3>2, <4>1 DEF Goes, KnowsAudits, Job
    <3> QED
      BY <2>4, <3>1, <3>2, Steps DEF Fields
  <2>5. CASE EpochTwo(s)
    <3>1. CASE Goes(s, "epoch two", "failing")
      BY <2>2, <3>1 DEF Goes
    <3>2. CASE /\ Goes(s, "epoch two", "audited") /\ Epoch(s, 2) /\ call'[s].stable = call[s].first \cap Candidates
               /\ call'[s].key = k
      <4>1. Len(jobs'[k].audits) >= 2 /\ jobs'[k].audits[2] = Candidates
        BY <3>2, EpochKept DEF Goes
      <4>2. k \in Keys /\ Len(jobs[k].audits) >= 1 /\ call[s].first = jobs[k].audits[1]
        BY <3>2 DEF Goes, TypeOK, KnowsAudits, Job
      <4>3. Len(jobs'[k].audits) = 2
        BY <1>1, <4>1, <4>2 DEF JobAudits
      <4> QED
        BY <1>2, <3>2, <4>1, <4>2, <4>3 DEF Goes, KnowsAudits, Job
    <3> QED
      BY <2>5, <3>1, <3>2, Steps DEF Fields
  <2>6. CASE Recall(s)
    <3>1. CASE Ends(s)
      BY <2>2, <3>1 DEF Ends
    <3>2. CASE Goes(s, "recalling", "looking") /\ call'[s].seen = Job(s).cands /\ call'[s].key = k
      <4>1. k \in Keys /\ Len(jobs[k].audits) = 2
        BY <3>2 DEF Goes, TypeOK, KnowsAudits, Job
      <4> QED
        <5>1. Job(s)' = jobs'[k] /\ Job(s) = jobs[k]
          BY <3>2 DEF Job
        <5>2. Len(jobs'[k].audits) = 2 /\ jobs'[k].audits[2] = jobs[k].audits[2]
          BY <1>2, <4>1
        <5>3. \A b \in Blobs : call'[s].seen[b] # "none" <=> b \in jobs'[k].audits[2]
          BY <1>1, <3>2, <4>1, <5>1, <5>2 DEF JobAudits
        <5> QED
          BY <3>2, <5>1, <5>2, <5>3 DEF Goes, KnowsAudits
    <3> QED
      BY <2>6, <3>1, <3>2, Steps DEF Fields
  <2>7. CASE Plan(s) \/ Crash(s) \/ EndFailed(s) \/ EndPutBack(s)
    BY <2>2, <2>7, Steps, FaultSteps DEF Goes, Ends
  <2> HIDE DEF k
  <2>8. ASSUME pc[s] # "idle", call'[s].key = call[s].key, call'[s].stable = call[s].stable, call'[s].seen = call[s].seen,
               \/ pc'[s] \in {"failing", "idle"}
               \/ /\ pc[s] \in {"audited", "ready", "final audit", "intending", "undoing", "marking", "reporting"}
                  /\ pc'[s] \in {"audited", "ready", "final audit", "intending", "undoing", "marking", "reporting"}
               \/ /\ pc[s] \in {"looking", "restoring", "reconciling", "closing"}
                  /\ pc'[s] \in {"looking", "restoring", "reconciling", "closing"}
        PROVE  KnowsAudits(s)'
    <3>1. call[s].key \in Keys
      BY <2>8 DEF TypeOK
    <3>2. ASSUME NEW j \in Keys, j = call[s].key PROVE KnowsAudits(s)'
      <4>1. Job(s) = jobs[j] /\ Job(s)' = jobs'[j]
        BY <2>8, <3>2 DEF Job
      <4>2. KnowsAudits(s)
        OBVIOUS
      <4>3. Len(jobs[j].audits) = 2 => /\ Len(jobs'[j].audits) = 2
                                       /\ jobs'[j].audits[1] = jobs[j].audits[1]
                                       /\ jobs'[j].audits[2] = jobs[j].audits[2]
        BY <1>2
      <4> QED
        BY <2>8, <4>1, <4>2, <4>3 DEF KnowsAudits
    <3> QED
      BY <3>1, <3>2
  <2>9. CASE Ready(s) \/ Activate(s) \/ FinalAudit(s) \/ Delete(s) \/ DeleteUnnoticed(s) \/ EndReceipts(s)
    BY <2>8, <2>9, Steps DEF Goes, Left, Fields
  <2>10. CASE EndUndo(s) \/ Succeed(s) \/ Look(s) \/ EndReconcile(s)
    BY <2>2, <2>8, <2>10, Steps DEF Goes, Ends, Left, Fields
  <2>11. CASE Fail(s)
    BY <2>2, <2>8, <2>11, FaultSteps DEF Goes, Left, Fields
  <2>12. ASSUME NEW b \in Blobs,
                Intend(s, b) \/ Undo(s, b) \/ Receipt(s, b) \/ PutBack(s, b) \/ Reconcile(s, b)
         PROVE  KnowsAudits(s)'
    BY <2>2, <2>8, <2>12, CandidateSteps DEF Goes, Ends, Loops, Left, Fields
  <2> QED
    BY <2>3, <2>4, <2>5, <2>6, <2>7, <2>9, <2>10, <2>11, <2>12 DEF Step
<1> QED
  BY <1>3, <1>4

LEMMA AuditsStep == TypeOK /\ Audits /\ [Next]_vars => Audits'
<1> SUFFICES ASSUME TypeOK, Audits, [Next]_vars PROVE Audits'
  OBVIOUS
<1>1. ASSUME NEW s \in Sweepers, Step(s) PROVE Audits'
  BY <1>1, JobAuditsStep, KnowsAuditsStep DEF Audits
<1>2. ASSUME LosePin \/ Write \/ UNCHANGED vars PROVE Audits'
  <2>1. jobs' = jobs /\ pc' = pc /\ call' = call
    BY <1>2, WorldMoves
  <2>2. \A k \in Keys : JobAudits(k)'
    BY <2>1 DEF Audits, JobAudits
  <2>3. \A s \in Sweepers : KnowsAudits(s)'
    BY <2>1 DEF Audits, KnowsAudits, Job
  <2> QED
    BY <2>2, <2>3 DEF Audits
<1> QED
  BY <1>1, <1>2 DEF Next

LEMMA AuditsInit == Init => Audits
<1> SUFFICES ASSUME Init PROVE Audits
  OBVIOUS
<1>1. \A k \in Keys : jobs[k] = NoJob
  BY DEF Init
<1>2. \A s \in Sweepers : pc[s] = "idle"
  BY DEF Init
<1> QED
  <2>1. ASSUME NEW k \in Keys PROVE JobAudits(k)
    <3>1. jobs[k].audits = <<>> /\ jobs[k].state = "NONE" /\ \A b \in Blobs : jobs[k].cands[b] = "none"
      BY <1>1 DEF NoJob
    <3>2. Len(<<>>) = 0
      OBVIOUS
    <3> QED
      BY <3>1, <3>2 DEF JobAudits
  <2>2. ASSUME NEW s \in Sweepers PROVE KnowsAudits(s)
    BY <1>2 DEF KnowsAudits
  <2> QED
    BY <2>1, <2>2 DEF Audits

-----------------------------------------------------------------------------
(* Receipts: what is gone, and who knows it.                               *)

Gone(b) == \E k \in Keys : b \in removed[k]

\* A candidate is there or has been deleted, a receipt is for the latter, and a job
\* that has succeeded has no deletion left to settle.
JobReceipts(k) ==
    /\ \A b \in Blobs :
        /\ jobs[k].cands[b] # "none" => b \in blobs \/ Gone(b)
        /\ jobs[k].cands[b] = "swept" => Gone(b)
    /\ jobs[k].state = "SUCCEEDED" /\ ~ jobs[k].dry =>
          \A b \in Blobs : jobs[k].cands[b] \notin {"confirmed", "deleting"}

Early == {"planned", "epoch one", "epoch two", "audited", "ready", "final audit"}

\* What a process still has to mark, it knows to be gone; what it has done with is marked.
KnowsReceipts(s) ==
    /\ pc[s] \in Early => call[s].intents = {}
    /\ pc[s] = "intending" => call[s].left \cup call[s].intents = call[s].stable
    /\ pc[s] = "marking" =>
          /\ call[s].left \subseteq call[s].stable
          /\ \A b \in call[s].stable : Gone(b) /\ (b \in call[s].left \/ Job(s).cands[b] = "swept")
    /\ pc[s] = "reporting" /\ ~ Job(s).dry => \A b \in call[s].stable : Job(s).cands[b] = "swept"
    /\ pc[s] \in {"looking", "reconciling"} =>
          \A b \in Blobs : call[s].seen[b] = "swept" => Job(s).cands[b] = "swept"
    /\ pc[s] = "reconciling" =>
          /\ \A b \in call[s].left : Gone(b)
          /\ \A b \in Blobs : call[s].seen[b] # "none" => b \in call[s].left \/ Job(s).cands[b] = "swept"
    /\ pc[s] = "closing" => \A b \in Blobs : call[s].seen[b] # "none" => Job(s).cands[b] = "swept"

Receipts == (\A k \in Keys : JobReceipts(k)) /\ \A s \in Sweepers : KnowsReceipts(s)

\* What is gone may come back, but its deletion stays on record.
LEMMA GoneStays ==
  ASSUME TypeOK, NEW s \in Sweepers, Step(s), NEW b \in Blobs
  PROVE  /\ Gone(b) => Gone(b)'
         /\ b \in blobs => b \in blobs' \/ Gone(b)'
         /\ Deletes(s) /\ b \in call[s].stable => Gone(b)'
<1>1. CASE UNCHANGED <<blobs, removed>> /\ ~ Deletes(s)
  BY <1>1 DEF Gone
<1>2. CASE Deletes(s)
  <2>1. call[s].key \in Keys
    BY <1>2 DEF Deletes, Delete, DeleteUnnoticed, At, TypeOK
  <2>2. /\ blobs' = blobs \ call[s].stable
        /\ removed' = [k \in Keys |-> IF k = call[s].key THEN removed[k] \cup call[s].stable
                                                         ELSE removed[k] \ call[s].stable]
    BY <1>2 DEF Deletes, Commit
  <2>3. b \in call[s].stable => Gone(b)'
    BY <2>1, <2>2 DEF Gone
  <2>4. b \notin call[s].stable => (Gone(b) => Gone(b)') /\ (b \in blobs => b \in blobs')
    BY <2>2 DEF Gone
  <2> QED
    BY <2>3, <2>4
<1> QED
  BY <1>1, <1>2, ContentMoves

\* A receipt stays, and a job remains a dry run or a real one.
LEMMA ReceiptsStay ==
  ASSUME TypeOK, Audits, NEW s \in Sweepers, Step(s), NEW k \in Keys
  PROVE  /\ \A b \in Blobs : jobs[k].cands[b] = "swept" => jobs'[k].cands[b] = "swept"
         /\ jobs[k].state # "NONE" => jobs'[k].dry = jobs[k].dry
<1>1. JobAudits(k) /\ jobs[k].cands \in [Blobs -> CandidateStates]
  BY DEF Audits, TypeOK, JobRows
<1>2. CASE jobs'[k] = jobs[k] \/ Asked(s, k) \/ Moved(s, k)
  BY <1>2 DEF Asked, Moved, Kept
<1>3. CASE Audited(s, k)
  BY <1>1, <1>3 DEF Audited, JobAudits
<1>4. CASE Marked(s, k)
  <2>1. PICK b \in Blobs, from \in SUBSET CandidateStates, to \in CandidateStates :
          /\ Marks(s, b, from, to) /\ jobs[k].cands[b] \in from
          /\ jobs'[k].cands = [jobs[k].cands EXCEPT ![b] = to]
    BY <1>4 DEF Marked
  <2>2. jobs[k].cands[b] = "swept" => to = "swept"
    BY <2>1 DEF Marks
  <2> QED
    BY <1>1, <1>4, <2>1, <2>2 DEF Marked
<1> QED
  BY <1>2, <1>3, <1>4, JobTyped

LEMMA MarkIsKept ==
  ASSUME TypeOK, NEW s \in Sweepers, pc[s] # "idle", NEW b \in Blobs, NEW to, Mark(s, b, to)
  PROVE  jobs'[call[s].key].cands = [jobs[call[s].key].cands EXCEPT ![b] = to]
<1>1. call[s].key \in Keys /\ jobs[call[s].key] \in JobRows
  BY DEF TypeOK
<1> QED
  BY <1>1 DEF Mark, TypeOK, JobRows

LEMMA MarkIsMade ==
  ASSUME TypeOK, NEW s \in Sweepers, pc[s] # "idle", NEW b \in Blobs, NEW to, Mark(s, b, to)
  PROVE  jobs'[call[s].key].cands[b] = to
<1>1. call[s].key \in Keys /\ jobs[call[s].key] \in JobRows
  BY DEF TypeOK
<1> QED
  BY <1>1 DEF Mark, TypeOK, JobRows

LEMMA MarkKeepsState ==
  ASSUME TypeOK, NEW s \in Sweepers, pc[s] # "idle", NEW b \in Blobs, NEW to, Mark(s, b, to)
  PROVE  jobs'[call[s].key].state = jobs[call[s].key].state
<1>1. call[s].key \in Keys /\ jobs[call[s].key] \in JobRows
  BY DEF TypeOK
<1> QED
  BY <1>1 DEF Mark, TypeOK, JobRows


LEMMA JobReceiptsStep ==
  ASSUME TypeOK, Audits, Receipts, NEW s \in Sweepers, Step(s), NEW k \in Keys
  PROVE  JobReceipts(k)'
<1>1. /\ JobReceipts(k) /\ JobAudits(k) /\ KnowsReceipts(s) /\ KnowsAudits(s)
      /\ jobs[k].cands \in [Blobs -> CandidateStates] /\ call[s] \in Calls
  BY DEF Receipts, Audits, TypeOK, JobRows
<1>2. \A b \in Blobs : /\ Gone(b) => Gone(b)'
                       /\ b \in blobs \/ Gone(b) => b \in blobs' \/ Gone(b)'
  BY GoneStays
<1>3. ASSUME jobs'[k].cands = jobs[k].cands,
             jobs'[k].state = "SUCCEEDED" /\ ~ jobs'[k].dry =>
                \A b \in Blobs : jobs[k].cands[b] \notin {"confirmed", "deleting"}
      PROVE  JobReceipts(k)'
  BY <1>1, <1>2, <1>3 DEF JobReceipts
<1>4. CASE jobs'[k] = jobs[k]
  BY <1>1, <1>3, <1>4 DEF JobReceipts
<1>5. CASE Asked(s, k)
  BY <1>3, <1>5 DEF Asked, Kept
<1>6. CASE k = call[s].key /\ pc[s] # "idle" /\ Moved(s, k)
  <2>1. jobs'[k].cands = jobs[k].cands /\ jobs'[k].dry = jobs[k].dry
    BY <1>6 DEF Moved, Kept
  <2>2. CASE jobs'[k].state = jobs[k].state
    BY <1>1, <1>3, <2>1, <2>2 DEF JobReceipts
  <2>3. CASE jobs'[k].state = "SUCCEEDED" /\ Succeed(s)
    <3>1. CASE pc[s] = "reporting" /\ ~ jobs[k].dry
      <4>1. \A b \in Blobs : jobs[k].cands[b] \in {"confirmed", "deleting"} => b \in call[s].stable
        BY <1>1, <1>6, <3>1 DEF JobAudits, KnowsAudits, Job
      <4>2. \A b \in call[s].stable : jobs[k].cands[b] = "swept"
        BY <1>1, <1>6, <3>1 DEF KnowsReceipts, Job
      <4> QED
        BY <1>3, <2>1, <4>1, <4>2
    <3>2. CASE pc[s] = "closing"
      <4>1. \A b \in Blobs : jobs[k].cands[b] # "none" => call[s].seen[b] # "none"
        BY <1>1, <1>6, <3>2 DEF JobAudits, KnowsAudits, Job
      <4>2. \A b \in Blobs : call[s].seen[b] # "none" => jobs[k].cands[b] = "swept"
        BY <1>1, <1>6, <3>2 DEF KnowsReceipts, Job
      <4> QED
        BY <1>3, <2>1, <4>1, <4>2
    <3> QED
      BY <1>3, <2>1, <2>3, <3>1, <3>2, Steps
  <2>4. CASE jobs'[k].state \in {"AUDITING", "READY", "ACTIVE", "FAILED"}
    BY <1>3, <2>1, <2>4
  <2> QED
    BY <1>6, <2>2, <2>3, <2>4 DEF Moved, MovesTo
<1>7. CASE Audited(s, k)
  <2>1. jobs'[k].state \in {"AUDITING", "READY"}
    BY <1>7 DEF Audited
  <2>2. CASE jobs'[k].cands = jobs[k].cands
    BY <1>3, <2>1, <2>2
  <2>3. CASE jobs'[k].cands = [b \in Blobs |-> IF b \notin Candidates THEN "none"
                                               ELSE IF b \in call[s].first THEN "confirmed" ELSE "marked"]
    <3>1. \A b \in Blobs : /\ jobs'[k].cands[b] # "swept"
                           /\ jobs'[k].cands[b] # "none" => b \in blobs
      BY <2>3 DEF Candidates
    <3> QED
      BY <1>2, <2>1, <3>1 DEF JobReceipts
  <2> QED
    BY <1>7, <2>2, <2>3 DEF Audited
<1>8. CASE k = call[s].key /\ pc[s] # "idle" /\ Marked(s, k)
  <2>1. PICK b \in Blobs, from \in SUBSET CandidateStates, to \in CandidateStates :
          /\ Marks(s, b, from, to) /\ jobs[k].cands[b] \in from
          /\ jobs'[k].cands = [jobs[k].cands EXCEPT ![b] = to]
    BY <1>8 DEF Marked
  <2>2. jobs'[k].state = "ACTIVE"
    BY <1>8 DEF Marked
  <2>3. jobs[k].cands[b] # "none"
    BY <2>1 DEF Marks
  <2>4. to = "swept" => Gone(b)
    <3>1. CASE Receipt(s, b)
      BY <1>1, <3>1 DEF KnowsReceipts, Receipt, At
    <3>2. CASE Reconcile(s, b)
      BY <1>1, <3>2 DEF KnowsReceipts, Reconcile, Recovered, At
    <3> QED
      BY <2>1, <3>1, <3>2 DEF Marks
  <2>5. ASSUME NEW x \in Blobs
        PROVE  /\ jobs'[k].cands[x] # "none" => x \in blobs' \/ Gone(x)'
               /\ jobs'[k].cands[x] = "swept" => Gone(x)'
    <3>1. CASE x = b
      BY <1>1, <1>2, <2>1, <2>3, <2>4, <3>1 DEF JobReceipts
    <3>2. CASE x # b
      <4>1. jobs'[k].cands[x] = jobs[k].cands[x]
        BY <1>1, <2>1, <3>2
      <4> QED
        BY <1>1, <1>2, <4>1 DEF JobReceipts
    <3> QED
      BY <3>1, <3>2
  <2> QED
    BY <2>2, <2>5 DEF JobReceipts
<1> QED
  BY <1>4, <1>5, <1>6, <1>7, <1>8, JobTyped

\* What a process knows of receipts survives the steps of all others, and its own.
LEMMA KnowsReceiptsStep ==
  ASSUME TypeOK, Audits, Receipts, NEW s \in Sweepers, Step(s), NEW t \in Sweepers
  PROVE  KnowsReceipts(t)'
<1>1. \A b \in Blobs : Gone(b) => Gone(b)'
  BY GoneStays
<1>2. \A k \in Keys : /\ \A b \in Blobs : jobs[k].cands[b] = "swept" => jobs'[k].cands[b] = "swept"
                      /\ jobs[k].state # "NONE" => jobs'[k].dry = jobs[k].dry
  BY ReceiptsStay
<1>3. ASSUME NEW u \in Sweepers
      PROVE  /\ KnowsReceipts(u) /\ KnowsAudits(u)
             /\ call[u].stable \subseteq Blobs /\ call[u].left \subseteq Blobs
             /\ pc[u] # "idle" => call[u].key \in Keys /\ jobs[call[u].key].state # "NONE"
  BY DEF Receipts, Audits, TypeOK, Calls, Job
<1>4. CASE t # s
  <2>1. pc'[t] = pc[t] /\ call'[t] = call[t]
    BY <1>4, PlaceTyped, CallTyped
  <2>2. Job(t) = jobs[call[t].key] /\ Job(t)' = jobs'[call[t].key]
    BY <2>1 DEF Job
  <2>3. ASSUME pc[t] # "idle"
        PROVE  /\ \A b \in Blobs : Job(t).cands[b] = "swept" => Job(t)'.cands[b] = "swept"
               /\ Job(t)'.dry = Job(t).dry
    BY <1>2, <1>3, <2>2, <2>3
  <2>4. CASE pc[t] \notin {"marking", "reporting", "looking", "reconciling", "closing"}
    BY <1>3, <2>1, <2>4 DEF KnowsReceipts
  <2>5. CASE pc[t] \in {"marking", "reporting"}
    BY <1>1, <1>3, <2>1, <2>3, <2>5 DEF KnowsReceipts, Early
  <2>6. CASE pc[t] \in {"looking", "reconciling", "closing"}
    <3>1. \A b \in Blobs : Job(t).cands[b] = "swept" => Job(t)'.cands[b] = "swept"
      BY <2>3, <2>6
    <3>2. CASE pc[t] = "looking"
      BY <1>3, <2>1, <3>1, <3>2 DEF KnowsReceipts, Early
    <3>3. CASE pc[t] = "reconciling"
      <4>1. \A b \in call[t].left : Gone(b)'
        BY <1>1, <1>3, <3>3 DEF KnowsReceipts
      <4>2. \A b \in Blobs : /\ call[t].seen[b] # "none" => b \in call[t].left \/ Job(t)'.cands[b] = "swept"
                             /\ call[t].seen[b] = "swept" => Job(t)'.cands[b] = "swept"
        BY <1>3, <3>1, <3>3 DEF KnowsReceipts
      <4> QED
        BY <2>1, <3>3, <4>1, <4>2 DEF KnowsReceipts, Early
    <3>4. CASE pc[t] = "closing"
      BY <1>3, <2>1, <3>1, <3>4 DEF KnowsReceipts, Early
    <3> QED
      BY <2>6, <3>2, <3>3, <3>4
  <2> QED
    BY <2>4, <2>5, <2>6
<1>5. KnowsReceipts(s)'
  <2>1. ASSUME pc'[s] \in {"idle", "undoing", "failing", "recalling", "restoring"} PROVE KnowsReceipts(s)'
    BY <2>1 DEF KnowsReceipts, Early
  <2>2. ASSUME pc'[s] \in Early, call'[s].intents = {} PROVE KnowsReceipts(s)'
    BY <2>2 DEF KnowsReceipts, Early
  <2>3. ASSUME pc[s] \in Early, pc'[s] \in Early, call'[s].intents = call[s].intents PROVE KnowsReceipts(s)'
    BY <1>3, <2>2, <2>3 DEF KnowsReceipts
  <2>4. ASSUME NEW j \in Keys, NEW dry, Ask(s, j, dry) PROVE KnowsReceipts(s)'
    <3>1. pc'[s] \in {"planned", "recalling"} /\ call'[s].intents = {}
      <4>1. Asks(s, j)
        BY <2>4, AskSteps
      <4> QED
        BY <4>1 DEF Asks
    <3> QED
      BY <2>1, <2>2, <3>1 DEF Early
  <2>5. CASE Plan(s) \/ EpochOne(s) \/ EpochTwo(s) \/ Activate(s)
    BY <2>1, <2>3, <2>5, Steps DEF Goes, Ends, Left, Fields, Early
  <2>6. CASE EndUndo(s) \/ Succeed(s) \/ EndFailed(s) \/ EndPutBack(s) \/ Crash(s)
    BY <2>1, <2>6, Steps, FaultSteps DEF Goes, Ends
  <2>7. CASE Ready(s)
    <3>1. CASE Goes(s, "audited", "reporting") /\ Job(s).dry /\ call'[s].key = call[s].key
      <4>1. Job(s)'.dry
        BY <1>2, <1>3, <3>1 DEF Goes, Job
      <4> QED
        BY <3>1, <4>1 DEF Goes, KnowsReceipts, Early
    <3> QED
      BY <2>1, <2>3, <2>7, <3>1, Steps DEF Goes, Left, Fields, Early
  <2>8. CASE FinalAudit(s)
    <3>1. CASE Goes(s, "final audit", "intending") /\ Left(s, call[s].stable)
      BY <1>3, <3>1 DEF Goes, Left, Fields, KnowsReceipts, Early
    <3> QED
      BY <2>1, <2>8, <3>1, Steps DEF Goes
  <2>9. CASE Delete(s)
    <3>1. CASE Goes(s, "intending", "marking") /\ Unreferenced(s) /\ Commit(s) /\ call[s].left = {} /\ Left(s, call[s].intents)
      <4>1. call[s].intents = call[s].stable
        BY <1>3, <3>1 DEF Goes, KnowsReceipts
      <4>2. \A b \in call[s].stable : Gone(b)'
        BY <1>3, <2>9, <3>1, GoneStays DEF Deletes
      <4> QED
        BY <3>1, <4>1, <4>2 DEF Goes, Left, Fields, KnowsReceipts, Early
    <3> QED
      BY <2>1, <2>9, <3>1, Steps DEF Goes
  <2>10. CASE DeleteUnnoticed(s)
    BY <2>1, <2>10, Steps DEF Goes
  <2>11. CASE EndReceipts(s)
    <3>1. /\ pc[s] = "marking" /\ pc'[s] = "reporting" /\ call[s].left = {}
          /\ call'[s].key = call[s].key /\ call'[s].stable = call[s].stable
      BY <2>11, Steps DEF Goes, Left, Fields
    <3>2. \A b \in call[s].stable : jobs'[call[s].key].cands[b] = "swept"
      BY <1>2, <1>3, <3>1 DEF KnowsReceipts, Job
    <3> QED
      BY <3>1, <3>2 DEF KnowsReceipts, Job, Early
  <2>12. CASE Recall(s)
    <3>1. CASE /\ pc[s] = "recalling" /\ pc'[s] = "looking" /\ call'[s].key = call[s].key
               /\ call'[s].seen = jobs[call[s].key].cands
      <4>1. \A b \in Blobs : call'[s].seen[b] = "swept" => Job(s)'.cands[b] = "swept"
        BY <1>2, <1>3, <3>1 DEF Job
      <4> QED
        BY <3>1, <4>1 DEF KnowsReceipts, Early
    <3> QED
      BY <2>1, <2>12, <3>1, Steps DEF Goes, Ends, Fields, Job
  <2>13. CASE Look(s)
    <3>1. CASE /\ pc[s] = "looking" /\ pc'[s] = "reconciling" /\ call'[s].key = call[s].key
               /\ call'[s].seen = call[s].seen /\ call'[s].left = Items(call[s].seen)
               /\ Items(call[s].seen) \cap blobs = {}
      <4>1. call[s].key \in Keys /\ JobAudits(call[s].key) /\ JobReceipts(call[s].key)
        BY <1>3, <3>1 DEF Audits, Receipts
      <4>2. \A b \in Items(call[s].seen) : Gone(b)
        BY <1>3, <3>1, <4>1 DEF Items, JobAudits, KnowsAudits, JobReceipts, Job
      <4>3. \A b \in Blobs : call[s].seen[b] # "none" => b \in Items(call[s].seen)
        BY DEF Items
      <4>4. \A b \in Items(call[s].seen) : b \in Blobs
        BY DEF Items
      <4>5. \A b \in Blobs : call[s].seen[b] = "swept" => Job(s)'.cands[b] = "swept"
        BY <1>2, <1>3, <3>1 DEF KnowsReceipts, Job
      <4>6. \A b \in call'[s].left : Gone(b)'
        BY <1>1, <3>1, <4>2, <4>4
      <4> QED
        BY <3>1, <4>3, <4>5, <4>6 DEF KnowsReceipts, Early
    <3> QED
      BY <2>1, <2>13, <3>1, Steps DEF Goes, Ends, Left, Fields
  <2>14. CASE EndReconcile(s)
    <3>1. /\ pc[s] = "reconciling" /\ pc'[s] = "closing" /\ call[s].left = {}
          /\ call'[s].key = call[s].key /\ call'[s].seen = call[s].seen
      BY <2>14, Steps DEF Goes, Left, Fields
    <3>2. \A b \in Blobs : call'[s].seen[b] # "none" => Job(s)'.cands[b] = "swept"
      BY <1>2, <1>3, <3>1 DEF KnowsReceipts, Job
    <3> QED
      BY <3>1, <3>2 DEF KnowsReceipts, Early
  <2>15. CASE Fail(s)
    BY <2>1, <2>15, FaultSteps DEF Goes
  <2>16. ASSUME NEW b \in Blobs, Undo(s, b) \/ PutBack(s, b) PROVE KnowsReceipts(s)'
    BY <2>1, <2>16, CandidateSteps DEF Goes, Ends, Loops
  <2>17. ASSUME NEW b \in Blobs, Intend(s, b) PROVE KnowsReceipts(s)'
    <3>1. CASE /\ pc[s] = "intending" /\ pc'[s] = "intending" /\ b \in call[s].left
               /\ call'[s].left = call[s].left \ {b} /\ call'[s].intents = call[s].intents \cup {b}
               /\ call'[s].stable = call[s].stable
      BY <1>3, <3>1 DEF KnowsReceipts, Early
    <3> QED
      BY <2>1, <2>17, <3>1, CandidateSteps DEF Goes, Fields
  <2>18. ASSUME NEW b \in Blobs, Receipt(s, b) PROVE KnowsReceipts(s)'
    <3>1. CASE /\ pc[s] = "marking" /\ pc'[s] = "marking" /\ b \in call[s].left /\ Mark(s, b, "swept")
               /\ call'[s].left = call[s].left \ {b} /\ call'[s].key = call[s].key
               /\ call'[s].stable = call[s].stable
      <4>1. jobs'[call[s].key].cands[b] = "swept"
        BY <1>3, <3>1, MarkIsMade
      <4>2. /\ \A x \in call[s].stable : Gone(x)' /\ (x \in call[s].left \/ Job(s)'.cands[x] = "swept")
            /\ call[s].left \subseteq call[s].stable
        BY <1>1, <1>2, <1>3, <3>1 DEF KnowsReceipts, Job
      <4>3. Job(s)'.cands[b] = "swept"
        BY <3>1, <4>1 DEF Job
      <4> QED
        BY <3>1, <4>2, <4>3 DEF KnowsReceipts, Early
    <3> QED
      BY <2>1, <2>18, <3>1, CandidateSteps DEF Goes, Ends, Loops, Left, Fields
  <2>19. ASSUME NEW b \in Blobs, Reconcile(s, b) PROVE KnowsReceipts(s)'
    <3>1. CASE /\ pc[s] = "reconciling" /\ pc'[s] = "reconciling" /\ b \in call[s].left
               /\ Mark(s, b, "swept") \/ call[s].seen[b] = "swept"
               /\ call'[s].left = call[s].left \ {b} /\ call'[s].key = call[s].key
               /\ call'[s].seen = call[s].seen
      <4>1. jobs'[call[s].key].cands[b] = "swept"
        <5>1. CASE Mark(s, b, "swept")
          BY <1>3, <3>1, <5>1, MarkIsMade
        <5>2. CASE call[s].seen[b] = "swept"
          BY <1>2, <1>3, <3>1, <5>2 DEF KnowsReceipts, Job
        <5> QED
          BY <3>1, <5>1, <5>2
      <4>2. /\ \A x \in Blobs : call[s].seen[x] = "swept" => Job(s)'.cands[x] = "swept"
            /\ \A x \in call[s].left : Gone(x)'
            /\ \A x \in Blobs : call[s].seen[x] # "none" => x \in call[s].left \/ Job(s)'.cands[x] = "swept"
        BY <1>1, <1>2, <1>3, <3>1 DEF KnowsReceipts, Job
      <4>3. Job(s)'.cands[b] = "swept"
        BY <3>1, <4>1 DEF Job
      <4> QED
        BY <3>1, <4>2, <4>3 DEF KnowsReceipts, Early
    <3> QED
      BY <2>1, <2>19, <3>1, CandidateSteps DEF Goes, Ends, Loops, Left, Fields
  <2> QED
    BY <2>4, <2>5, <2>6, <2>7, <2>8, <2>9, <2>10, <2>11, <2>12, <2>13, <2>14, <2>15, <2>16, <2>17, <2>18, <2>19
    DEF Step
<1> QED
  BY <1>4, <1>5

LEMMA ReceiptsStep == TypeOK /\ Audits /\ Receipts /\ [Next]_vars => Receipts'
<1> SUFFICES ASSUME TypeOK, Audits, Receipts, [Next]_vars PROVE Receipts'
  OBVIOUS
<1>1. ASSUME NEW s \in Sweepers, Step(s) PROVE Receipts'
  BY <1>1, JobReceiptsStep, KnowsReceiptsStep DEF Receipts
<1>2. ASSUME LosePin \/ Write \/ UNCHANGED vars PROVE Receipts'
  <2>1. jobs' = jobs /\ pc' = pc /\ call' = call /\ removed' = removed /\ blobs \subseteq blobs'
    BY <1>2, WorldMoves DEF history
  <2>2. \A k \in Keys : JobReceipts(k)'
    BY <2>1 DEF Receipts, JobReceipts, Gone
  <2>3. \A s \in Sweepers : KnowsReceipts(s)'
    BY <2>1 DEF Receipts, KnowsReceipts, Job, Gone
  <2> QED
    BY <2>2, <2>3 DEF Receipts
<1> QED
  BY <1>1, <1>2 DEF Next

LEMMA ReceiptsInit == Init => Receipts
<1> SUFFICES ASSUME Init PROVE Receipts
  OBVIOUS
<1>1. ASSUME NEW k \in Keys PROVE JobReceipts(k)
  <2>1. jobs[k].state = "NONE" /\ \A b \in Blobs : jobs[k].cands[b] = "none"
    BY DEF Init, NoJob
  <2> QED
    BY <2>1 DEF JobReceipts
<1>2. ASSUME NEW s \in Sweepers PROVE KnowsReceipts(s)
  BY DEF Init, KnowsReceipts, Early
<1> QED
  BY <1>1, <1>2 DEF Receipts

SweepInv == TypeOK /\ Audits /\ Receipts

LEMMA SweepInductive == Spec => []SweepInv
<1>1. Init => SweepInv
  BY TypeInit, AuditsInit, ReceiptsInit DEF SweepInv
<1>2. SweepInv /\ [Next]_vars => SweepInv'
  BY TypeStep, AuditsStep, ReceiptsStep DEF SweepInv
<1> QED
  BY <1>1, <1>2, PTL DEF Spec

\* A receipt is only written for a blob that a sweep has deleted, and a job that has
\* succeeded has no deletion left to settle: through crashes, errors, second processes on
\* the same request and the recovery.
THEOREM ReceiptsAreOfDeletions == Spec => []SweptWereDeleted
<1>1. SweepInv => SweptWereDeleted
  BY DEF SweepInv, Receipts, JobReceipts, Gone, SweptWereDeleted
<1> QED
  BY <1>1, SweepInductive, PTL

-----------------------------------------------------------------------------
(* One process on a request: while nobody disturbs it, it knows the job.   *)

Settled(k) == \A b \in Blobs : jobs[k].cands[b] \notin {"deleting", "swept"}

Untouched(k) == removed[k] = {} /\ Settled(k)

Unique == \A s, t \in Sweepers : pc[s] # "idle" /\ pc[t] # "idle" /\ call[s].key = call[t].key => s = t

\* What a job has removed were candidates of it.
RemovedKnown == \A k \in Keys : \A b \in removed[k] : jobs[k].cands[b] # "none"

\* Nothing is deleted or marked before the job is ACTIVE.
JobAlone(k) == jobs[k].state \in {"NONE", "PLANNED", "AUDITING", "READY"} => Untouched(k)

Sweeping == {"final audit", "intending", "undoing", "marking", "recalling", "looking", "restoring",
             "reconciling", "closing"}

KnowsJob(s) ==
    /\ pc[s] = "planned" => Job(s).state = "PLANNED"
    /\ pc[s] \in {"epoch one", "epoch two", "audited"} => Job(s).state = "AUDITING"
    /\ pc[s] = "ready" => Job(s).state = "READY"
    /\ pc[s] = "reporting" => Job(s).state \in {"READY", "ACTIVE"}
    /\ pc[s] \in Sweeping => Job(s).state = "ACTIVE"

KnowsMarks(s) ==
    /\ pc[s] \in {"final audit", "failing"} => Untouched(call[s].key)
    /\ pc[s] \in {"intending", "undoing"} =>
          removed[call[s].key] = {} /\ \A b \in Blobs : Job(s).cands[b] # "swept"
    /\ pc[s] = "intending" => \A b \in Blobs : Job(s).cands[b] = "deleting" <=> b \in call[s].intents
    /\ pc[s] = "undoing" /\ ~ call[s].broken =>
          \A b \in Blobs : b \notin call[s].left => Job(s).cands[b] # "deleting"
    /\ pc[s] = "looking" => \A b \in Blobs : call[s].seen[b] = Job(s).cands[b]
    /\ pc[s] = "restoring" =>
          /\ removed[call[s].key] \subseteq blobs
          /\ \A b \in Blobs : IF b \in call[s].left THEN call[s].seen[b] = Job(s).cands[b]
                              ELSE Job(s).cands[b] \notin {"deleting", "swept"}

Alone ==
    ~ disturbed =>
        /\ Unique
        /\ \A k \in Keys : JobAlone(k)
        /\ \A s \in Sweepers : KnowsJob(s) /\ KnowsMarks(s)

\* Which steps leave which part of their job alone.
LEMMA JobKept ==
  ASSUME TypeOK, NEW s \in Sweepers, Step(s), pc[s] # "idle"
  PROVE  LET k == call[s].key
         IN  /\ pc[s] \notin {"planned", "audited", "ready", "reporting", "closing", "failing", "restoring"} =>
                   jobs'[k].state = jobs[k].state
             /\ pc[s] \notin {"epoch two", "intending", "undoing", "marking", "restoring", "reconciling"} =>
                   jobs'[k].cands = jobs[k].cands
             /\ pc[s] # "intending" => removed' = removed /\ blobs' = blobs
<1> DEFINE k == call[s].key
<1>1. k \in Keys
  BY DEF TypeOK
<1>2. ASSUME pc[s] \notin {"planned", "audited", "ready", "reporting", "closing", "failing", "restoring"}
      PROVE  jobs'[k].state = jobs[k].state
  <2>1. ~ MovesTo(s, jobs'[k].state)
    BY <1>2 DEF MovesTo, Plan, Ready, Activate, Succeed, EndFailed, EndPutBack, At
  <2> QED
    BY <1>1, <2>1, JobTyped, ZenonT(30) DEF Asked, Moved, Audited, Marked
<1>3. ASSUME pc[s] \notin {"epoch two", "intending", "undoing", "marking", "restoring", "reconciling"}
      PROVE  jobs'[k].cands = jobs[k].cands
  <2>1. ~ Marked(s, k)
    BY <1>3, ZenonT(30) DEF Marked, Marks, Intend, Undo, Receipt, PutBack, Reconcile, At
  <2>2. ~ EpochTwo(s)
    BY <1>3 DEF EpochTwo, At
  <2> QED
    BY <1>1, <2>1, <2>2, JobTyped DEF Asked, Moved, Audited, Kept
<1>4. ASSUME pc[s] # "intending" PROVE removed' = removed /\ blobs' = blobs
  BY <1>4, ContentMoves DEF Deletes, Delete, DeleteUnnoticed, At
<1> QED
  BY <1>2, <1>3, <1>4

LEMMA MoveIsMade ==
  ASSUME TypeOK, NEW s \in Sweepers, pc[s] # "idle", NEW to, Move(s, to)
  PROVE  jobs'[call[s].key].state = to
<1>1. call[s].key \in Keys /\ jobs[call[s].key] \in JobRows
  BY DEF TypeOK
<1> QED
  BY <1>1 DEF Move, TypeOK, JobRows

\* Plan and Ready move the job, or end what the process does.
LEMMA MovesOn ==
  ASSUME TypeOK, NEW s \in Sweepers
  PROVE  /\ Plan(s) /\ pc'[s] = "epoch one" => jobs'[call[s].key].state = "AUDITING"
         /\ Ready(s) /\ pc'[s] # "failing" => jobs'[call[s].key].state = "READY"
         /\ Activate(s) /\ pc'[s] # "failing" => jobs'[call[s].key].state = "ACTIVE"
<1>1. \A place : Goto(s, place) => pc'[s] = place
  BY DEF Goto, TypeOK
<1>2. ASSUME Plan(s), pc'[s] = "epoch one" PROVE jobs'[call[s].key].state = "AUDITING"
  <2>1. Move(s, "AUDITING") /\ pc[s] # "idle"
    BY <1>1, <1>2 DEF Plan, Leave, At
  <2> QED
    BY <2>1, MoveIsMade
<1>3. ASSUME Ready(s), pc'[s] # "failing" PROVE jobs'[call[s].key].state = "READY"
  <2>1. Move(s, "READY") /\ pc[s] # "idle"
    BY <1>1, <1>3 DEF Ready, At
  <2> QED
    BY <2>1, MoveIsMade
<1>4. ASSUME Activate(s), pc'[s] # "failing" PROVE jobs'[call[s].key].state = "ACTIVE"
  <2>1. Move(s, "ACTIVE") /\ pc[s] # "idle"
    BY <1>1, <1>4 DEF Activate, At
  <2> QED
    BY <2>1, MoveIsMade
<1> QED
  BY <1>2, <1>3, <1>4

\* What the others of a request see: nobody else moves their job or deletes in its name.
LEMMA OthersKeep ==
  ASSUME TypeOK, Unique, NEW s \in Sweepers, Step(s), NEW t \in Sweepers, t # s, pc[t] # "idle"
  PROVE  LET k == call[t].key
         IN  /\ k \in Keys /\ jobs'[k] = jobs[k]
             /\ removed'[k] \subseteq removed[k]
             /\ removed[k] \subseteq blobs => removed'[k] \subseteq blobs'
<1> DEFINE k == call[t].key
<1>1. k \in Keys /\ jobs[k].state # "NONE"
  BY DEF TypeOK, Job
<1>2. pc[s] # "idle" => k # call[s].key
  BY DEF Unique
<1>3. jobs'[k] = jobs[k]
  BY <1>1, <1>2, JobTyped DEF Asked
<1>4. removed'[k] \subseteq removed[k] /\ (removed[k] \subseteq blobs => removed'[k] \subseteq blobs')
  <2>1. CASE UNCHANGED <<blobs, removed>>
    BY <2>1
  <2>2. CASE Deletes(s)
    <3>1. pc[s] # "idle"
      BY <2>2 DEF Deletes, Delete, DeleteUnnoticed, At
    <3> QED
      BY <1>1, <1>2, <2>2, <3>1 DEF Deletes, Commit
  <2> QED
    BY <2>1, <2>2, ContentMoves
<1> QED
  BY <1>1, <1>3, <1>4

LEMMA RemovedKnownStep ==
  ASSUME TypeOK, Audits, RemovedKnown, NEW s \in Sweepers, Step(s)
  PROVE  RemovedKnown'
<1> SUFFICES ASSUME NEW k \in Keys, NEW b \in removed'[k] PROVE jobs'[k].cands[b] # "none"
  BY DEF RemovedKnown
<1>1. b \in Blobs /\ JobAudits(k) /\ JobAudits(k)'
  BY JobAuditsStep, TypeStep DEF Audits, TypeOK, Next
<1>2. jobs[k].cands[b] # "none"
  <2>1. CASE b \in removed[k]
    BY <2>1 DEF RemovedKnown
  <2>2. CASE b \notin removed[k]
    <3>1. Deletes(s) /\ pc[s] = "intending"
      BY <2>2, ContentMoves DEF Deletes, Delete, DeleteUnnoticed, At
    <3>2. k = call[s].key /\ b \in call[s].stable
      BY <2>2, <3>1 DEF Deletes, Commit
    <3>3. KnowsAudits(s)
      BY DEF Audits
    <3> QED
      BY <1>1, <3>1, <3>2, <3>3 DEF KnowsAudits, JobAudits, Job
  <2> QED
    BY <2>1, <2>2
<1>3. Len(jobs[k].audits) = 2 /\ b \in jobs[k].audits[2]
  BY <1>1, <1>2 DEF JobAudits
<1>4. Len(jobs'[k].audits) = 2 /\ jobs'[k].audits[2] = jobs[k].audits[2]
  BY <1>1, <1>3, AuditsStay DEF JobAudits
<1> QED
  BY <1>1, <1>3, <1>4 DEF JobAudits

LEMMA UniqueStep ==
  ASSUME TypeOK, Unique, NEW s \in Sweepers, Step(s), ~ disturbed'
  PROVE  Unique'
<1>1. ASSUME NEW t \in Sweepers, t # s, pc'[s] # "idle", pc'[t] # "idle" PROVE call'[s].key # call'[t].key
  <2>1. pc[t] # "idle" /\ call'[t].key = call[t].key
    BY <1>1, PlaceTyped, CallTyped
  <2>2. CASE pc[s] # "idle" /\ call'[s].key = call[s].key
    BY <1>1, <2>1, <2>2 DEF Unique
  <2>3. ASSUME NEW k \in Keys, NEW dry, Ask(s, k, dry) PROVE call'[s].key # call'[t].key
    <3>1. Asks(s, k)
      BY <2>3, AskSteps
    <3> QED
      BY <2>1, <3>1 DEF Asks
  <2> QED
    BY <1>1, <2>2, <2>3, KeyKept
<1>2. \A t \in Sweepers : t # s => pc'[t] = pc[t] /\ call'[t] = call[t]
  BY PlaceTyped, CallTyped
<1> QED
  BY <1>1, <1>2 DEF Unique

LEMMA JobAloneStep ==
  ASSUME TypeOK, Audits, NEW s \in Sweepers, Step(s), KnowsJob(s), NEW k \in Keys, JobAlone(k)
  PROVE  JobAlone(k)'
<1> SUFFICES ASSUME jobs'[k].state \in {"NONE", "PLANNED", "AUDITING", "READY"} PROVE Untouched(k)'
  BY DEF JobAlone
<1>1. CASE Untouched(k)
  <2>1. removed'[k] = {}
    <3>1. CASE Deletes(s)
      <4>1. pc[s] = "intending"
        BY <3>1 DEF Deletes, Delete, DeleteUnnoticed, At
      <4>2. jobs[call[s].key].state = "ACTIVE" /\ jobs'[call[s].key].state = jobs[call[s].key].state
        BY <4>1, JobKept DEF KnowsJob, Sweeping, Job
      <4> QED
        BY <1>1, <3>1, <4>2 DEF Untouched, Deletes, Commit
    <3> QED
      BY <1>1, <3>1, ContentMoves DEF Untouched
  <2>2. \A b \in Blobs : jobs'[k].cands[b] \notin {"deleting", "swept"}
    <3>1. CASE jobs'[k].cands = jobs[k].cands
      BY <1>1, <3>1 DEF Untouched, Settled
    <3>2. CASE Audited(s, k) /\ jobs'[k].cands # jobs[k].cands
      BY <3>2 DEF Audited
    <3>3. ~ Marked(s, k)
      BY DEF Marked
    <3> QED
      BY <3>1, <3>2, <3>3, JobTyped DEF Asked, Moved, Kept
  <2> QED
    BY <2>1, <2>2 DEF Untouched, Settled
<1>2. CASE ~ Untouched(k)
  <2>1. jobs[k].state \notin {"NONE", "PLANNED", "AUDITING", "READY"}
    BY <1>2 DEF JobAlone
  <2>2. k = call[s].key /\ pc[s] # "idle" /\ MovesTo(s, jobs'[k].state)
    BY <2>1, JobTyped DEF Asked, Moved, Audited, Marked
  <2>3. Plan(s) \/ Ready(s)
    BY <2>2 DEF MovesTo
  <2>4. pc[s] \in {"planned", "audited"}
    BY <2>3 DEF Plan, Ready, At
  <2> QED
    BY <2>1, <2>2, <2>4 DEF KnowsJob, Job
<1> QED
  BY <1>1, <1>2

LEMMA KnowsJobStep ==
  ASSUME TypeOK, NEW s \in Sweepers, Step(s), KnowsJob(s)
  PROVE  KnowsJob(s)'
<1>1. ASSUME pc'[s] \in {"idle", "failing"} PROVE KnowsJob(s)'
  BY <1>1 DEF KnowsJob, Sweeping
<1>2. ASSUME NEW j \in Keys, NEW dry, Ask(s, j, dry) PROVE KnowsJob(s)'
  <2>1. /\ call'[s].key = j
        /\ \/ pc'[s] = "planned" /\ jobs'[j].state = "PLANNED"
           \/ pc'[s] = "recalling" /\ jobs'[j].state = "ACTIVE"
    <3>1. Asks(s, j)
      BY <1>2, AskSteps
    <3> QED
      BY <3>1 DEF Asks
  <2> QED
    BY <2>1 DEF KnowsJob, Sweeping, Job
<1>3. CASE Plan(s)
  <2>1. CASE pc'[s] = "epoch one" /\ call'[s].key = call[s].key
    BY <1>3, <2>1, MovesOn DEF KnowsJob, Sweeping, Job
  <2> QED
    BY <1>1, <1>3, <2>1, Steps DEF Goes, Ends, Left, Fields
<1>4. CASE EpochOne(s) \/ EpochTwo(s)
  <2>1. CASE pc[s] \in {"epoch one", "epoch two"} /\ pc'[s] \in {"epoch two", "audited"} /\ call'[s].key = call[s].key
    <3>1. jobs'[call[s].key].state = "AUDITING"
      BY <2>1, JobKept DEF KnowsJob, Job
    <3> QED
      BY <2>1, <3>1 DEF KnowsJob, Sweeping, Job
  <2> QED
    BY <1>1, <1>4, <2>1, Steps DEF Goes, Fields
<1>5. CASE Ready(s)
  <2>1. CASE pc'[s] \in {"ready", "reporting"} /\ call'[s].key = call[s].key
    BY <1>5, <2>1, MovesOn DEF KnowsJob, Sweeping, Job
  <2> QED
    BY <1>1, <1>5, <2>1, Steps DEF Goes, Left, Fields
<1>6. CASE Activate(s)
  <2>1. CASE pc'[s] = "final audit" /\ call'[s].key = call[s].key
    BY <1>6, <2>1, MovesOn DEF KnowsJob, Sweeping, Job
  <2> QED
    BY <1>1, <1>6, <2>1, Steps DEF Goes, Left, Fields
<1>7. ASSUME pc[s] \in Sweeping, pc'[s] \in Sweeping \cup {"reporting", "failing", "idle"},
             call'[s].key = call[s].key \/ pc'[s] = "idle",
             jobs'[call[s].key].state = jobs[call[s].key].state
      PROVE  KnowsJob(s)'
  <2>1. jobs'[call[s].key].state = "ACTIVE"
    BY <1>7 DEF KnowsJob, Job
  <2> QED
    BY <1>1, <1>7, <2>1 DEF KnowsJob, Sweeping, Job
<1>8. ASSUME pc[s] \in Sweeping \ {"restoring", "closing"}, pc'[s] \in Sweeping \cup {"reporting", "failing", "idle"},
             call'[s].key = call[s].key \/ pc'[s] = "idle"
      PROVE  KnowsJob(s)'
  BY <1>7, <1>8, JobKept DEF Sweeping
<1>9. CASE FinalAudit(s) \/ Delete(s) \/ DeleteUnnoticed(s) \/ EndReceipts(s) \/ EndReconcile(s)
  BY <1>8, <1>9, Steps DEF Goes, Left, Fields, Sweeping
<1>10. CASE EndUndo(s) \/ Recall(s) \/ Look(s)
  BY <1>1, <1>8, <1>10, Steps DEF Goes, Ends, Left, Fields, Sweeping
<1>11. CASE Succeed(s) \/ EndFailed(s) \/ EndPutBack(s) \/ Crash(s)
  BY <1>1, <1>11, Steps, FaultSteps DEF Goes, Ends
<1>12. CASE Fail(s)
  BY <1>1, <1>8, <1>12, FaultSteps DEF Goes, Left, Fields, Sweeping
<1>13. ASSUME NEW b \in Blobs, Intend(s, b) \/ Undo(s, b) \/ Receipt(s, b) \/ Reconcile(s, b) PROVE KnowsJob(s)'
  BY <1>1, <1>8, <1>13, CandidateSteps DEF Goes, Ends, Loops, Left, Fields, Sweeping
<1>14. ASSUME NEW b \in Blobs, PutBack(s, b) PROVE KnowsJob(s)'
  <2>1. CASE pc[s] = "restoring" /\ pc'[s] = "restoring" /\ call'[s].key = call[s].key /\ Mark(s, b, "confirmed")
    BY <1>7, <2>1, MarkKeepsState DEF Sweeping
  <2>2. CASE pc[s] = "restoring" /\ pc'[s] = "restoring" /\ call'[s].key = call[s].key /\ jobs' = jobs
    BY <1>7, <2>2 DEF Sweeping
  <2> QED
    BY <1>1, <1>14, <2>1, <2>2, CandidateSteps DEF Goes, Ends, Loops, Left, Fields
<1> QED
  BY <1>2, <1>3, <1>4, <1>5, <1>6, <1>9, <1>10, <1>11, <1>12, <1>13, <1>14 DEF Step

LEMMA KnowsMarksStep ==
  ASSUME TypeOK, Audits, Receipts, RemovedKnown, NEW s \in Sweepers, Step(s), KnowsJob(s), KnowsMarks(s),
         pc[s] # "idle" => JobAlone(call[s].key), ~ disturbed'
  PROVE  KnowsMarks(s)'
<1>1. ASSUME pc'[s] \notin {"final audit", "failing", "intending", "undoing", "looking", "restoring"}
      PROVE  KnowsMarks(s)'
  BY <1>1 DEF KnowsMarks
<1>2. ASSUME pc'[s] \in {"final audit", "failing"}, call'[s].key = call[s].key, pc[s] # "idle",
             pc[s] \notin {"epoch two", "intending", "undoing", "marking", "restoring", "reconciling"},
             Untouched(call[s].key)
      PROVE  KnowsMarks(s)'
  <2>1. jobs'[call[s].key].cands = jobs[call[s].key].cands /\ removed' = removed
    BY <1>2, JobKept
  <2>2. Untouched(call[s].key)'
    BY <1>2, <2>1 DEF Untouched, Settled
  <2> QED
    BY <1>2, <2>2 DEF KnowsMarks
<1>3. ASSUME pc[s] \in {"epoch one", "audited", "ready"} PROVE Untouched(call[s].key)
  BY <1>3 DEF KnowsJob, JobAlone, Job
<1>4. CASE pc[s] \in {"epoch one", "audited", "ready"} /\ pc'[s] = "failing" /\ call'[s].key = call[s].key
  BY <1>2, <1>3, <1>4
<1>5. CASE pc[s] = "epoch two" /\ pc'[s] = "failing" /\ call'[s].key = call[s].key /\ jobs' = jobs
  <2>1. Untouched(call[s].key) /\ removed' = removed
    BY <1>5, JobKept DEF KnowsJob, JobAlone, Job
  <2>2. Untouched(call[s].key)'
    BY <1>5, <2>1 DEF Untouched, Settled
  <2> QED
    BY <1>5, <2>2 DEF KnowsMarks
<1>6. ASSUME NEW k \in Keys, NEW dry, Ask(s, k, dry) PROVE KnowsMarks(s)'
  <2>1. pc'[s] \in {"planned", "recalling"}
    <3>1. Asks(s, k)
      BY <1>6, AskSteps
    <3> QED
      BY <3>1 DEF Asks
  <2> QED
    BY <1>1, <2>1
<1>7. CASE Plan(s)
  BY <1>1, <1>7, Steps DEF Goes, Ends
<1>8. CASE EpochOne(s) \/ EpochTwo(s)
  BY <1>1, <1>4, <1>5, <1>8, Steps DEF Goes, Left, Fields
<1>9. CASE Ready(s)
  BY <1>1, <1>4, <1>9, Steps DEF Goes, Left, Fields
<1>10. CASE Activate(s)
  <2>1. pc[s] = "ready" /\ pc'[s] \in {"final audit", "failing"} /\ call'[s].key = call[s].key
    BY <1>10, Steps DEF Goes, Left, Fields
  <2> QED
    BY <1>2, <1>3, <2>1
<1>11. CASE FinalAudit(s)
  <2>1. pc[s] = "final audit" /\ Untouched(call[s].key) /\ call[s].intents = {}
    BY <1>11 DEF FinalAudit, At, KnowsMarks, Receipts, KnowsReceipts, Early
  <2>2. CASE pc'[s] = "failing" /\ call'[s].key = call[s].key
    BY <1>2, <2>1, <2>2
  <2>3. CASE pc'[s] = "intending" /\ call'[s].key = call[s].key /\ call'[s].intents = call[s].intents
    <3>1. jobs'[call[s].key].cands = jobs[call[s].key].cands /\ removed' = removed
      BY <2>1, JobKept
    <3>2. /\ removed'[call'[s].key] = {}
          /\ \A b \in Blobs : Job(s)'.cands[b] \notin {"deleting", "swept"}
      BY <2>1, <2>3, <3>1 DEF Untouched, Settled, Job
    <3> QED
      BY <2>1, <2>3, <3>2 DEF KnowsMarks
  <2> QED
    BY <1>11, <2>2, <2>3, Steps DEF Goes, Left, Fields
<1>12. ASSUME pc[s] = "intending", pc'[s] = "undoing", call'[s].key = call[s].key, call'[s].left = call[s].intents,
              jobs' = jobs, removed' = removed
       PROVE  KnowsMarks(s)'
  <2>1. /\ removed[call[s].key] = {} /\ \A b \in Blobs : Job(s).cands[b] # "swept"
        /\ \A b \in Blobs : Job(s).cands[b] = "deleting" <=> b \in call[s].intents
    BY <1>12 DEF KnowsMarks
  <2>2. Job(s)' = Job(s)
    BY <1>12 DEF Job
  <2> QED
    BY <1>12, <2>1, <2>2 DEF KnowsMarks
<1>13. CASE Delete(s)
  <2>1. jobs' = jobs
    BY <1>13 DEF Delete
  <2> QED
    BY <1>1, <1>12, <1>13, <2>1, Steps DEF Goes, Left, Fields
<1>14. CASE EndUndo(s)
  <2>1. CASE pc[s] = "undoing" /\ pc'[s] = "failing" /\ call'[s].key = call[s].key
             /\ call[s].left = {} /\ ~ call[s].broken
    <3>1. /\ removed[call[s].key] = {} /\ \A b \in Blobs : Job(s).cands[b] # "swept"
          /\ \A b \in Blobs : Job(s).cands[b] # "deleting"
      BY <2>1 DEF KnowsMarks
    <3>2. jobs' = jobs /\ removed' = removed
      BY <1>14, <2>1, JobKept DEF EndUndo
    <3>3. Untouched(call[s].key)'
      BY <3>1, <3>2, <2>1 DEF Untouched, Settled, Job
    <3> QED
      BY <2>1, <3>3 DEF KnowsMarks
  <2> QED
    BY <1>1, <1>14, <2>1, Steps DEF Goes, Ends, Left, Fields
<1>15. CASE Succeed(s)
  <2>1. pc[s] = "reporting" => MayMove(s, "SUCCEEDED")
    BY DEF KnowsJob, MayMove, Moves
  <2> QED
    BY <1>1, <1>15, <2>1, Steps DEF Goes, Ends
<1>16. CASE EndReceipts(s) \/ EndFailed(s) \/ EndPutBack(s) \/ EndReconcile(s) \/ Crash(s)
  BY <1>1, <1>16, Steps, FaultSteps DEF Goes, Ends
<1>17. CASE Recall(s)
  <2>1. CASE pc[s] = "recalling" /\ pc'[s] = "looking" /\ call'[s].key = call[s].key /\ call'[s].seen = Job(s).cands
    <3>1. Job(s)' = Job(s)
      BY <1>17, <2>1 DEF Recall, Job
    <3> QED
      BY <2>1, <3>1 DEF KnowsMarks
  <2> QED
    BY <1>1, <1>17, <2>1, Steps DEF Goes, Ends, Fields
<1>18. CASE Look(s)
  <2>1. CASE /\ pc[s] = "looking" /\ pc'[s] = "restoring" /\ call'[s].key = call[s].key
             /\ call'[s].left = Items(call[s].seen) /\ call'[s].seen = call[s].seen
             /\ Items(call[s].seen) \subseteq blobs
    <3> DEFINE k == call[s].key
    <3>1. k \in Keys /\ removed' = removed /\ blobs' = blobs /\ jobs' = jobs
      BY <1>18, <2>1, JobKept DEF Look, TypeOK
    <3>2. \A b \in Blobs : call[s].seen[b] = jobs[k].cands[b]
      BY <2>1 DEF KnowsMarks, Job
    <3>3. removed[k] \subseteq blobs
      <4>1. \A b \in removed[k] : b \in Blobs /\ call[s].seen[b] # "none"
        BY <3>1, <3>2 DEF RemovedKnown, TypeOK
      <4> QED
        BY <2>1, <4>1 DEF Items
    <3>4. \A b \in Blobs : b \notin call'[s].left => jobs[k].cands[b] = "none"
      BY <2>1, <3>2 DEF Items
    <3>5. Job(s)' = jobs[k]
      BY <2>1, <3>1 DEF Job
    <3> QED
      BY <2>1, <3>1, <3>2, <3>3, <3>4, <3>5 DEF KnowsMarks
  <2> QED
    BY <1>1, <1>18, <2>1, Steps DEF Goes, Ends, Left, Fields
<1>19. CASE Fail(s)
  <2>1. jobs' = jobs
    BY <1>19, FaultSteps
  <2>2. CASE pc[s] \in {"epoch one", "epoch two", "audited", "ready"} /\ pc'[s] = "failing" /\ call'[s].key = call[s].key
    BY <1>4, <1>5, <2>1, <2>2
  <2>3. CASE pc[s] = "final audit" /\ pc'[s] = "failing" /\ call'[s].key = call[s].key
    BY <1>2, <2>3 DEF KnowsMarks
  <2>4. CASE pc[s] = "intending" /\ pc'[s] = "undoing" /\ call'[s].key = call[s].key /\ call'[s].left = call[s].intents
    <3>1. removed' = removed
      BY <1>19 DEF Fail
    <3> QED
      BY <1>12, <2>1, <2>4, <3>1
  <2>5. CASE pc[s] = "undoing" /\ pc'[s] = "undoing" /\ call'[s].key = call[s].key /\ call'[s].broken = TRUE
    <3>1. removed' = removed
      BY <1>19 DEF Fail
    <3>2. /\ removed[call[s].key] = {} /\ \A b \in Blobs : Job(s).cands[b] # "swept"
      BY <2>5 DEF KnowsMarks
    <3>3. Job(s)' = Job(s)
      BY <2>1, <2>5 DEF Job
    <3> QED
      BY <2>5, <3>1, <3>2, <3>3 DEF KnowsMarks
  <2> QED
    BY <1>19, <2>2, <2>3, <2>4, <2>5, FaultSteps DEF Goes, Left, Fields
<1>20. ASSUME NEW b \in Blobs, NEW to, Mark(s, b, to), pc[s] # "idle", call'[s].key = call[s].key
       PROVE  /\ Job(s)'.cands[b] = to
              /\ \A x \in Blobs : x # b => Job(s)'.cands[x] = Job(s).cands[x]
  <2>1. jobs[call[s].key].cands \in [Blobs -> CandidateStates]
    BY <1>20 DEF TypeOK, JobRows
  <2>2. jobs'[call[s].key].cands = [jobs[call[s].key].cands EXCEPT ![b] = to]
    BY <1>20, MarkIsKept
  <2>3. Job(s)'.cands = [Job(s).cands EXCEPT ![b] = to]
    BY <1>20, <2>2 DEF Job
  <2> QED
    BY <2>1, <2>3 DEF Job
<1>21. ASSUME NEW b \in Blobs, Intend(s, b) PROVE KnowsMarks(s)'
  <2>1. removed' = removed
    BY <1>21 DEF Intend, history
  <2>2. CASE /\ pc[s] = "intending" /\ pc'[s] = "intending" /\ Mark(s, b, "deleting")
             /\ call'[s].key = call[s].key /\ call'[s].intents = call[s].intents \cup {b}
    <3>1. /\ removed[call[s].key] = {} /\ \A x \in Blobs : Job(s).cands[x] # "swept"
          /\ \A x \in Blobs : Job(s).cands[x] = "deleting" <=> x \in call[s].intents
      BY <2>2 DEF KnowsMarks
    <3>2. /\ Job(s)'.cands[b] = "deleting"
          /\ \A x \in Blobs : x # b => Job(s)'.cands[x] = Job(s).cands[x]
      BY <1>20, <2>2
    <3> QED
      BY <2>1, <2>2, <3>1, <3>2 DEF KnowsMarks
  <2> QED
    BY <1>12, <1>21, <2>1, <2>2, CandidateSteps DEF Goes, Left, Fields
<1>22. ASSUME NEW b \in Blobs, Undo(s, b) PROVE KnowsMarks(s)'
  <2>1. removed' = removed
    BY <1>22 DEF Undo, history
  <2>2. CASE /\ pc[s] = "undoing" /\ pc'[s] = "undoing" /\ call'[s].key = call[s].key
             /\ \/ Mark(s, b, "confirmed") /\ call'[s].left = call[s].left \ {b} /\ call'[s].broken = call[s].broken
                \/ jobs' = jobs /\ call'[s].broken = TRUE
    <3>1. /\ removed[call[s].key] = {} /\ \A x \in Blobs : Job(s).cands[x] # "swept"
          /\ ~ call[s].broken => \A x \in Blobs : x \notin call[s].left => Job(s).cands[x] # "deleting"
      BY <2>2 DEF KnowsMarks
    <3>2. CASE Mark(s, b, "confirmed") /\ call'[s].left = call[s].left \ {b} /\ call'[s].broken = call[s].broken
      <4>1. /\ Job(s)'.cands[b] = "confirmed"
            /\ \A x \in Blobs : x # b => Job(s)'.cands[x] = Job(s).cands[x]
        BY <1>20, <2>2, <3>2
      <4> QED
        BY <2>1, <2>2, <3>1, <3>2, <4>1 DEF KnowsMarks
    <3>3. CASE jobs' = jobs /\ call'[s].broken = TRUE
      <4>1. Job(s)' = Job(s)
        BY <2>2, <3>3 DEF Job
      <4> QED
        BY <2>1, <2>2, <3>1, <3>3, <4>1 DEF KnowsMarks
    <3> QED
      BY <2>2, <3>2, <3>3
  <2> QED
    BY <1>22, <2>2, CandidateSteps DEF Goes, Loops, Left, Fields
<1>23. ASSUME NEW b \in Blobs, Receipt(s, b) \/ Reconcile(s, b) PROVE KnowsMarks(s)'
  BY <1>1, <1>23, CandidateSteps DEF Goes, Ends, Loops
<1>24. ASSUME NEW b \in Blobs, PutBack(s, b) PROVE KnowsMarks(s)'
  <2>1. CASE /\ pc[s] = "restoring" /\ pc'[s] = "restoring" /\ call'[s].key = call[s].key
             /\ call'[s].left = call[s].left \ {b} /\ call'[s].seen = call[s].seen
             /\ b \in call[s].left
             /\ Mark(s, b, "confirmed") \/ (jobs' = jobs /\ call[s].seen[b] = "confirmed")
    <3>1. removed' = removed /\ blobs' = blobs
      BY <2>1, JobKept
    <3>2. /\ removed[call[s].key] \subseteq blobs
          /\ \A x \in Blobs : /\ x \in call[s].left => call[s].seen[x] = Job(s).cands[x]
                              /\ x \notin call[s].left => Job(s).cands[x] \notin {"deleting", "swept"}
      BY <2>1 DEF KnowsMarks
    <3>3. /\ Job(s)'.cands[b] \notin {"deleting", "swept"}
          /\ \A x \in Blobs : x # b => Job(s)'.cands[x] = Job(s).cands[x]
      <4>1. CASE Mark(s, b, "confirmed")
        BY <1>20, <2>1, <4>1
      <4>2. CASE jobs' = jobs /\ call[s].seen[b] = "confirmed" /\ b \in call[s].left
        <5>1. Job(s)' = Job(s)
          BY <2>1, <4>2 DEF Job
        <5> QED
          BY <3>2, <4>2, <5>1
      <4> QED
        BY <2>1, <4>1, <4>2
    <3> QED
      BY <2>1, <3>1, <3>2, <3>3 DEF KnowsMarks
  <2> QED
    BY <1>1, <1>24, <2>1, CandidateSteps DEF Goes, Ends, Loops, Left, Fields
<1>25. ~ DeleteUnnoticed(s)
  BY Steps
<1> QED
  BY <1>6, <1>7, <1>8, <1>9, <1>10, <1>11, <1>13, <1>14, <1>15, <1>16, <1>17, <1>18, <1>19, <1>21, <1>22, <1>23,
     <1>24, <1>25 DEF Step

\* What another process knows stays true.
LEMMA OthersStillKnow ==
  ASSUME TypeOK, Unique, NEW s \in Sweepers, Step(s), NEW t \in Sweepers, t # s, KnowsJob(t), KnowsMarks(t)
  PROVE  KnowsJob(t)' /\ KnowsMarks(t)'
<1>1. pc'[t] = pc[t] /\ call'[t] = call[t]
  BY PlaceTyped, CallTyped
<1>2. CASE pc[t] = "idle"
  BY <1>1, <1>2 DEF KnowsJob, KnowsMarks, Sweeping
<1>3. ASSUME NEW k \in Keys, k = call[t].key, pc[t] # "idle" PROVE KnowsJob(t)' /\ KnowsMarks(t)'
  <2>1. /\ jobs'[k] = jobs[k] /\ removed'[k] \subseteq removed[k]
        /\ removed[k] \subseteq blobs => removed'[k] \subseteq blobs'
    BY <1>3, OthersKeep
  <2>2. Job(t)' = Job(t) /\ call'[t].key = k
    BY <1>1, <1>3, <2>1 DEF Job
  <2>3. Untouched(k) => Untouched(k)'
    BY <2>1 DEF Untouched, Settled
  <2>4. KnowsJob(t)'
    BY <1>1, <2>2 DEF KnowsJob
  <2>5. removed[k] = {} => removed'[k] = {}
    BY <2>1
  <2>6. pc'[t] \in {"final audit", "failing"} => Untouched(k)'
    BY <1>1, <1>3, <2>3 DEF KnowsMarks
  <2>7. pc'[t] \in {"final audit", "failing"} => Untouched(call[t].key)'
    BY <2>2, <2>6 DEF Untouched, Settled
  <2> QED
    BY <1>1, <1>3, <2>1, <2>2, <2>4, <2>5, <2>7 DEF KnowsMarks
<1> QED
  BY <1>2, <1>3 DEF TypeOK

AloneInv == SweepInv /\ RemovedKnown /\ Alone

LEMMA AloneStep == AloneInv /\ [Next]_vars => RemovedKnown' /\ Alone'
<1> SUFFICES ASSUME AloneInv, [Next]_vars PROVE RemovedKnown' /\ Alone'
  OBVIOUS
<1> USE DEF AloneInv, SweepInv
<1>1. ASSUME NEW s \in Sweepers, Step(s) PROVE RemovedKnown' /\ Alone'
  <2>1. RemovedKnown'
    BY <1>1, RemovedKnownStep
  <2>2. ASSUME ~ disturbed'
        PROVE  Unique' /\ (\A k \in Keys : JobAlone(k)') /\ \A t \in Sweepers : KnowsJob(t)' /\ KnowsMarks(t)'
    <3>1. Unique /\ (\A k \in Keys : JobAlone(k)) /\ \A t \in Sweepers : KnowsJob(t) /\ KnowsMarks(t)
      BY <1>1, <2>2, FlagTyped DEF Alone
    <3>2. Unique'
      BY <1>1, <2>2, <3>1, UniqueStep
    <3>3. \A k \in Keys : JobAlone(k)'
      BY <1>1, <3>1, JobAloneStep
    <3>4. pc[s] # "idle" => JobAlone(call[s].key)
      BY <3>1 DEF TypeOK
    <3>5. KnowsJob(s)' /\ KnowsMarks(s)'
      BY <1>1, <2>2, <3>1, <3>4, KnowsJobStep, KnowsMarksStep
    <3>6. \A t \in Sweepers : t # s => KnowsJob(t)' /\ KnowsMarks(t)'
      BY <1>1, <3>1, OthersStillKnow
    <3> QED
      BY <3>2, <3>3, <3>5, <3>6
  <2> QED
    BY <2>1, <2>2 DEF Alone
<1>2. ASSUME LosePin \/ Write \/ UNCHANGED vars PROVE RemovedKnown' /\ Alone'
  <2>1. UNCHANGED <<jobs, pc, call, removed, disturbed>> /\ blobs \subseteq blobs'
    BY <1>2, WorldMoves DEF history
  <2>2. Unique => Unique'
    BY <2>1 DEF Unique
  <2>3. ASSUME NEW k \in Keys, JobAlone(k) PROVE JobAlone(k)'
    BY <2>1, <2>3 DEF JobAlone, Untouched, Settled
  <2>4. ASSUME NEW s \in Sweepers, KnowsJob(s), KnowsMarks(s) PROVE KnowsJob(s)' /\ KnowsMarks(s)'
    <3>1. KnowsJob(s)'
      BY <2>1, <2>4 DEF KnowsJob, Job
    <3>2. Job(s)' = Job(s) /\ (Untouched(call[s].key) => Untouched(call[s].key)')
      BY <2>1 DEF Job, Untouched, Settled
    <3> QED
      BY <2>1, <2>4, <3>1, <3>2 DEF KnowsMarks
  <2>5. RemovedKnown'
    BY <2>1 DEF RemovedKnown
  <2> QED
    BY <2>1, <2>2, <2>3, <2>4, <2>5 DEF Alone
<1> QED
  BY <1>1, <1>2 DEF Next

LEMMA AloneInductive == Spec => []AloneInv
<1>1. Init => AloneInv
  <2> SUFFICES ASSUME Init PROVE AloneInv
    OBVIOUS
  <2>1. SweepInv
    BY TypeInit, AuditsInit, ReceiptsInit DEF SweepInv
  <2>2. /\ \A k \in Keys : removed[k] = {} /\ \A b \in Blobs : jobs[k].cands[b] = "none"
        /\ \A s \in Sweepers : pc[s] = "idle"
    BY DEF Init, NoJob
  <2>3. \A k \in Keys : Untouched(k)
    BY <2>2 DEF Untouched, Settled
  <2>4. Alone
    BY <2>2, <2>3 DEF Alone, Unique, JobAlone, KnowsJob, KnowsMarks, Sweeping
  <2> QED
    BY <2>1, <2>2, <2>4 DEF AloneInv, RemovedKnown
<1>2. AloneInv /\ [Next]_vars => AloneInv'
  BY TypeStep, AuditsStep, ReceiptsStep, AloneStep DEF AloneInv, SweepInv
<1> QED
  BY <1>1, <1>2, PTL DEF Spec

\* A deletion takes what two audits of the job and one more look have found unreferred to, and, unless two
\* processes met on the request or an error came too late, what it has announced.
THEOREM AnnouncedDeletions == Spec => DeletionsAreAnnounced
<1> DEFINE Announced == \A k \in Keys : \A b \in removed'[k] \ removed[k] :
                           /\ b \in Candidates
                           /\ \A i \in {1, 2} : b \in jobs[k].audits[i]
                           /\ jobs[k].cands[b] = "deleting" \/ disturbed
<1>1. AloneInv /\ [Next]_vars => [Announced]_vars
  <2> SUFFICES ASSUME AloneInv, Next, NEW k \in Keys, NEW b \in removed'[k] \ removed[k]
               PROVE  /\ b \in Candidates /\ (\A i \in {1, 2} : b \in jobs[k].audits[i])
                      /\ jobs[k].cands[b] = "deleting" \/ disturbed
    OBVIOUS
  <2> USE DEF AloneInv, SweepInv
  <2>1. ASSUME NEW s \in Sweepers, Step(s)
        PROVE  /\ b \in Candidates /\ (\A i \in {1, 2} : b \in jobs[k].audits[i])
               /\ jobs[k].cands[b] = "deleting" \/ disturbed
    <3>1. Deletes(s) /\ pc[s] = "intending" /\ call[s].left = {}
      BY <2>1, ContentMoves DEF Deletes, Delete, DeleteUnnoticed, At
    <3>2. k = call[s].key /\ b \in call[s].stable /\ b \in Blobs
      BY <3>1 DEF Deletes, Commit, TypeOK, Calls
    <3>3. b \in Candidates
      BY <3>1, <3>2 DEF Deletes, Unreferenced, Candidates
    <3>4. call[s].stable = jobs[k].audits[1] \cap jobs[k].audits[2]
      BY <3>1, <3>2 DEF Audits, KnowsAudits, Job
    <3>5. b \in call[s].intents
      BY <3>1, <3>2 DEF Receipts, KnowsReceipts
    <3>6. ~ disturbed => jobs[k].cands[b] = "deleting"
      BY <3>1, <3>2, <3>5 DEF Alone, KnowsMarks, Job
    <3> QED
      BY <3>2, <3>3, <3>4, <3>6
  <2>2. CASE LosePin \/ Write
    BY <2>2, WorldMoves DEF history
  <2> QED
    BY <2>1, <2>2 DEF Next
<1> QED
  BY <1>1, AloneInductive, PTL DEF Spec, DeletionsAreAnnounced

\* A job that is given up leaves its blobs in place and no announcement standing, as long as
\* no error comes after the commit and no two processes meet on the request.
THEOREM FailureKeepsContent == Spec => FailedKeepContent
<1> DEFINE Keeps == \A k \in Keys :
                      jobs[k].state # "FAILED" /\ jobs'[k].state = "FAILED" /\ ~ disturbed =>
                        /\ removed[k] \subseteq blobs
                        /\ \A b \in Blobs : jobs[k].cands[b] \notin {"deleting", "swept"}
<1>1. AloneInv /\ [Next]_vars => [Keeps]_vars
  <2> SUFFICES ASSUME AloneInv, Next, NEW k \in Keys, jobs[k].state # "FAILED", jobs'[k].state = "FAILED", ~ disturbed
               PROVE  removed[k] \subseteq blobs /\ Settled(k)
    BY DEF Settled
  <2> USE DEF AloneInv, SweepInv
  <2>1. ASSUME NEW s \in Sweepers, Step(s) PROVE removed[k] \subseteq blobs /\ Settled(k)
    <3>1. k = call[s].key /\ (EndFailed(s) \/ EndPutBack(s))
      BY <2>1, JobTyped DEF Asked, Moved, MovesTo, Audited, Marked
    <3>2. KnowsMarks(s)
      BY DEF Alone
    <3>3. CASE EndFailed(s)
      BY <3>1, <3>2, <3>3 DEF EndFailed, At, KnowsMarks, Untouched
    <3>4. CASE EndPutBack(s)
      BY <3>1, <3>2, <3>4 DEF EndPutBack, At, KnowsMarks, Settled, Job
    <3> QED
      BY <3>1, <3>3, <3>4
  <2>2. CASE LosePin \/ Write
    BY <2>2, WorldMoves
  <2> QED
    BY <2>1, <2>2 DEF Next
<1> QED
  BY <1>1, AloneInductive, PTL DEF Spec, FailedKeepContent
=============================================================================
