------------------------ MODULE GovernanceLock_proofs ------------------------
(***************************************************************************)
(* Proofs about GovernanceLock, for every set of processes and threads.    *)
(* Beyond the types and OwnerHoldsLock the inductive invariant says that   *)
(* an owner is inside a block, that a thread in acquire is not, and that   *)
(* acquiring_thread_id names the one thread of a process that polls.       *)
(***************************************************************************)
EXTENDS GovernanceLock, TLAPS

\* The owner of a process is one of its threads, inside a block.
OwnerInv ==
    \A p \in Processes : owner[p] # Nobody =>
        P(owner[p]) = p /\ held[owner[p]] > 0

\* A thread in acquire is inside no block.
OutsideInv == \A t \in Threads : at[t] # "out" => held[t] = 0

\* A thread that polls the OS lock is the one its process lets try.
AcquiringInv ==
    \A t \in Threads : at[t] \in {"polling", "locked"} =>
        acquiring[P(t)] = t /\ owner[P(t)] = Nobody

LockedInv == \A t \in Threads : at[t] = "locked" => osLock = t

IInv ==
    /\ TypeOK
    /\ OwnerHoldsLock
    /\ OwnerInv
    /\ OutsideInv
    /\ AcquiringInv
    /\ LockedInv

-----------------------------------------------------------------------------

LEMMA ProcessOfThread == \A t \in Threads : P(t) \in Processes /\ t # Nobody
  BY ThreadsAssumption DEF P

LEMMA InitIInv == Init => IInv
  BY ProcessOfThread, MaxDepthAssumption
  DEF Init, IInv, TypeOK, OwnerHoldsLock, OwnerInv, OutsideInv, AcquiringInv, LockedInv

\* Of an owner: it is outside acquire, as deep as its blocks, under the OS lock.
LEMMA OwnerInside ==
  ASSUME IInv, NEW t \in Threads, owner[P(t)] = t
  PROVE  /\ held[t] > 0 /\ at[t] = "out"
         /\ depth[P(t)] = held[t] /\ osLock = t
<1>1. P(t) \in Processes /\ t # Nobody
  BY ProcessOfThread
<1>2. held[t] > 0
  BY <1>1 DEF IInv, OwnerInv
<1>3. at[t] = "out"
  BY <1>2 DEF IInv, OutsideInv
<1> QED
  BY <1>2, <1>3 DEF IInv, OwnerHoldsLock

LEMMA NextIInv == IInv /\ [Next]_lockVars => IInv'
<1> SUFFICES ASSUME IInv, [Next]_lockVars PROVE IInv'
  OBVIOUS
<1> USE ProcessOfThread, MaxDepthAssumption
<1>1. ASSUME NEW t \in Threads, Reenter(t) PROVE IInv'
  <2>1. held[t] > 0 /\ depth[P(t)] = held[t] /\ osLock = t
    BY <1>1, OwnerInside DEF Reenter
  <2>2. TypeOK'
    BY <1>1, <2>1 DEF Reenter, IInv, TypeOK
  <2>3. OwnerHoldsLock'
    <3>1. ASSUME NEW s \in Threads, held'[s] > 0
          PROVE  owner'[P(s)] = s /\ depth'[P(s)] = held'[s] /\ osLock' = s
      BY <1>1, <2>1, <3>1 DEF Reenter, IInv, TypeOK, OwnerHoldsLock
    <3> QED
      BY <3>1 DEF OwnerHoldsLock, P
  <2>4. OwnerInv'
    BY <1>1, <2>1 DEF Reenter, IInv, TypeOK, OwnerInv, P
  <2>5. OutsideInv'
    BY <1>1 DEF Reenter, IInv, TypeOK, OutsideInv
  <2>6. AcquiringInv' /\ LockedInv'
    BY <1>1 DEF Reenter, IInv, AcquiringInv, LockedInv, P
  <2> QED
    BY <2>2, <2>3, <2>4, <2>5, <2>6 DEF IInv
<1>2. ASSUME NEW t \in Threads, Ask(t) PROVE IInv'
  <2>1. held[t] = 0
    BY <1>2 DEF Ask, IInv, TypeOK, OwnerHoldsLock
  <2> QED
    BY <1>2, <2>1 DEF Ask, IInv, TypeOK, OwnerHoldsLock, OwnerInv, OutsideInv,
                     AcquiringInv, LockedInv, P
<1>3. ASSUME NEW t \in Threads, WaitTimesOut(t) PROVE IInv'
  BY <1>3 DEF WaitTimesOut, IInv, TypeOK, OwnerHoldsLock, OwnerInv, OutsideInv,
              AcquiringInv, LockedInv, P
<1>4. ASSUME NEW t \in Threads, Claim(t) PROVE IInv'
  <2>1. AcquiringInv'
    <3>1. ASSUME NEW s \in Threads, at'[s] \in {"polling", "locked"}
          PROVE  acquiring'[P(s)] = s /\ owner'[P(s)] = Nobody
      <4>1. CASE s = t
        BY <1>4, <4>1 DEF Claim, IInv, TypeOK
      <4>2. CASE s # t
        <5>1. at[s] \in {"polling", "locked"}
          BY <1>4, <3>1, <4>2 DEF Claim, IInv, TypeOK
        <5>2. acquiring[P(s)] = s /\ owner[P(s)] = Nobody
          BY <5>1 DEF IInv, AcquiringInv
        <5>3. P(s) # P(t)
          BY <1>4, <5>2 DEF Claim
        <5> QED
          BY <1>4, <5>2, <5>3 DEF Claim, IInv, TypeOK
      <4> QED
        BY <4>1, <4>2
    <3> QED
      BY <3>1 DEF AcquiringInv, P
  <2>2. OutsideInv'
    BY <1>4 DEF Claim, IInv, TypeOK, OutsideInv
  <2> QED
    BY <1>4, <2>1, <2>2 DEF Claim, IInv, TypeOK, OwnerHoldsLock, OwnerInv, LockedInv, P
<1>5. ASSUME NEW t \in Threads, TryLock(t) PROVE IInv'
  <2>1. \A s \in Threads : held[s] = 0 /\ at[s] # "locked"
    BY <1>5 DEF TryLock, IInv, TypeOK, OwnerHoldsLock, LockedInv
  <2> QED
    BY <1>5, <2>1 DEF TryLock, IInv, TypeOK, OwnerHoldsLock, OwnerInv, OutsideInv,
                     AcquiringInv, LockedInv, P
<1>6. ASSUME NEW t \in Threads, GiveUp(t) PROVE IInv'
  <2>1. AcquiringInv'
    <3>1. acquiring[P(t)] = t
      BY <1>6 DEF GiveUp, IInv, AcquiringInv
    <3>2. ASSUME NEW s \in Threads, at'[s] \in {"polling", "locked"}
          PROVE  acquiring'[P(s)] = s /\ owner'[P(s)] = Nobody
      <4>1. s # t /\ at[s] \in {"polling", "locked"}
        BY <1>6, <3>2 DEF GiveUp, IInv, TypeOK
      <4>2. acquiring[P(s)] = s /\ owner[P(s)] = Nobody
        BY <4>1 DEF IInv, AcquiringInv
      <4>3. P(s) # P(t)
        BY <3>1, <4>1, <4>2
      <4> QED
        BY <1>6, <4>2, <4>3 DEF GiveUp, IInv, TypeOK
    <3> QED
      BY <3>2 DEF AcquiringInv, P
  <2> QED
    BY <1>6, <2>1 DEF GiveUp, IInv, TypeOK, OwnerHoldsLock, OwnerInv, OutsideInv, LockedInv, P
<1>7. ASSUME NEW t \in Threads, Own(t) PROVE IInv'
  <2>1. held[t] = 0 /\ osLock = t /\ acquiring[P(t)] = t /\ owner[P(t)] = Nobody
    BY <1>7 DEF Own, IInv, OutsideInv, LockedInv, AcquiringInv
  <2>2. \A s \in Threads : held[s] = 0
    BY <2>1 DEF IInv, TypeOK, OwnerHoldsLock
  <2>3. TypeOK'
    BY <1>7, <2>1 DEF Own, IInv, TypeOK
  <2>4. OwnerHoldsLock'
    BY <1>7, <2>1, <2>2 DEF Own, IInv, TypeOK, OwnerHoldsLock, P
  <2>5. OwnerInv'
    <3>1. ASSUME NEW p \in Processes, owner'[p] # Nobody
          PROVE  P(owner'[p]) = p /\ held'[owner'[p]] > 0
      <4>1. CASE p = P(t)
        BY <1>7, <2>1, <4>1 DEF Own, IInv, TypeOK
      <4>2. CASE p # P(t)
        <5>1. owner[p] # Nobody /\ owner[p] \in Threads
          BY <1>7, <3>1, <4>2 DEF Own, IInv, TypeOK
        <5> QED
          BY <2>2, <5>1 DEF IInv, OwnerInv
      <4> QED
        BY <4>1, <4>2
    <3> QED
      BY <3>1 DEF OwnerInv, P
  <2>6. OutsideInv'
    BY <1>7, <2>2 DEF Own, IInv, TypeOK, OutsideInv
  <2>7. AcquiringInv'
    <3>1. ASSUME NEW s \in Threads, at'[s] \in {"polling", "locked"}
          PROVE  acquiring'[P(s)] = s /\ owner'[P(s)] = Nobody
      <4>1. s # t /\ at[s] \in {"polling", "locked"}
        BY <1>7, <3>1 DEF Own, IInv, TypeOK
      <4>2. acquiring[P(s)] = s /\ owner[P(s)] = Nobody
        BY <4>1 DEF IInv, AcquiringInv
      <4>3. P(s) # P(t)
        BY <2>1, <4>1, <4>2
      <4> QED
        BY <1>7, <4>2, <4>3 DEF Own, IInv, TypeOK
    <3> QED
      BY <3>1 DEF AcquiringInv, P
  <2>8. LockedInv'
    BY <1>7 DEF Own, IInv, TypeOK, LockedInv
  <2> QED
    BY <2>3, <2>4, <2>5, <2>6, <2>7, <2>8 DEF IInv
<1>8. ASSUME NEW t \in Threads, Interrupt(t) PROVE IInv'
  <2>1. held[t] = 0
    BY <1>8 DEF Interrupt, IInv, OutsideInv
  <2>2. OwnerHoldsLock'
    BY <1>8, <2>1 DEF Interrupt, IInv, TypeOK, OwnerHoldsLock, P
  <2>3. LockedInv'
    BY <1>8 DEF Interrupt, IInv, TypeOK, LockedInv
  <2> QED
    BY <1>8, <2>2, <2>3 DEF Interrupt, IInv, TypeOK, OwnerInv, OutsideInv, AcquiringInv, P
<1>9. ASSUME NEW t \in Threads, Release(t) PROVE IInv'
  <2>1. held[t] > 0 /\ at[t] = "out" /\ depth[P(t)] = held[t] /\ osLock = t
    BY <1>9, OwnerInside DEF Release
  <2>2. \A s \in Threads : s # t => held[s] = 0 /\ at[s] # "locked"
    BY <2>1 DEF IInv, TypeOK, OwnerHoldsLock, LockedInv
  <2>3. owner[P(t)] = t
    BY <1>9 DEF Release
  <2>4. TypeOK'
    BY <1>9, <2>1 DEF Release, IInv, TypeOK
  <2>5. OwnerHoldsLock'
    <3>1. ASSUME NEW s \in Threads, held'[s] > 0
          PROVE  owner'[P(s)] = s /\ depth'[P(s)] = held'[s] /\ osLock' = s
      <4>1. s = t
        BY <1>9, <2>2, <3>1 DEF Release, IInv, TypeOK
      <4>2. held'[t] = held[t] - 1 /\ held[t] > 1
        BY <1>9, <2>1, <3>1, <4>1 DEF Release, IInv, TypeOK
      <4> QED
        BY <1>9, <2>1, <2>3, <4>1, <4>2 DEF Release, IInv, TypeOK
    <3> QED
      BY <3>1 DEF OwnerHoldsLock, P
  <2>6. OwnerInv'
    <3>1. ASSUME NEW p \in Processes, owner'[p] # Nobody
          PROVE  P(owner'[p]) = p /\ held'[owner'[p]] > 0
      <4>1. owner[p] = owner'[p] /\ owner[p] \in Threads
        BY <1>9, <3>1 DEF Release, IInv, TypeOK
      <4>2. owner[p] = t /\ p = P(t)
        BY <2>2, <3>1, <4>1 DEF IInv, OwnerInv
      <4>3. depth[P(t)] > 1
        BY <1>9, <3>1, <4>2 DEF Release, IInv, TypeOK
      <4> QED
        BY <1>9, <2>1, <4>1, <4>2, <4>3 DEF Release, IInv, TypeOK
    <3> QED
      BY <3>1 DEF OwnerInv, P
  <2>7. OutsideInv'
    BY <1>9, <2>1 DEF Release, IInv, TypeOK, OutsideInv
  <2>8. AcquiringInv'
    BY <1>9, <2>1 DEF Release, IInv, TypeOK, AcquiringInv, P
  <2>9. LockedInv'
    BY <1>9, <2>1, <2>2 DEF Release, IInv, TypeOK, LockedInv
  <2> QED
    BY <2>4, <2>5, <2>6, <2>7, <2>8, <2>9 DEF IInv
<1>10. ASSUME NEW p \in Processes, Crash(p) PROVE IInv'
  <2>1. TypeOK'
    BY <1>10 DEF Crash, IInv, TypeOK
  <2>2. OwnerHoldsLock'
    BY <1>10 DEF Crash, IInv, TypeOK, OwnerHoldsLock, P
  <2>3. OwnerInv'
    <3>1. ASSUME NEW q \in Processes, owner'[q] # Nobody
          PROVE  P(owner'[q]) = q /\ held'[owner'[q]] > 0
      <4>1. q # p /\ owner'[q] = owner[q] /\ owner[q] \in Threads
        BY <1>10, <3>1 DEF Crash, IInv, TypeOK
      <4>2. P(owner[q]) = q /\ held[owner[q]] > 0
        BY <3>1, <4>1 DEF IInv, OwnerInv
      <4> QED
        BY <1>10, <4>1, <4>2 DEF Crash
    <3> QED
      BY <3>1 DEF OwnerInv, P
  <2>4. OutsideInv' /\ AcquiringInv' /\ LockedInv'
    BY <1>10 DEF Crash, IInv, TypeOK, OutsideInv, AcquiringInv, LockedInv, P
  <2> QED
    BY <2>1, <2>2, <2>3, <2>4 DEF IInv
<1>11. CASE UNCHANGED lockVars
  BY <1>11 DEF lockVars, IInv, TypeOK, OwnerHoldsLock, OwnerInv, OutsideInv,
               AcquiringInv, LockedInv, P
<1> QED
  BY <1>1, <1>2, <1>3, <1>4, <1>5, <1>6, <1>7, <1>8, <1>9, <1>10, <1>11
  DEF Next, ThreadStep, Acquire

LEMMA SpecIInv == Spec => []IInv
  BY InitIInv, NextIInv, PTL DEF Spec

-----------------------------------------------------------------------------

\* Every variable of the lock keeps its type, the depths their bound.
THEOREM LockTypeCorrect == Spec => []TypeOK
<1>1. IInv => TypeOK
  BY DEF IInv
<1> QED
  BY <1>1, SpecIInv, PTL

\* acquire and release: a thread inside its with-block is the owner of its
\* process, as deep as its blocks are nested, and has the OS lock.
THEOREM OwnersHoldLock == Spec => []OwnerHoldsLock
<1>1. IInv => OwnerHoldsLock
  BY DEF IInv
<1> QED
  BY <1>1, SpecIInv, PTL

\* One thread of all processes at a time is inside the lock, whatever times
\* out, is interrupted or dies.
THEOREM LockIsExclusive == Spec => []MutualExclusion
<1>1. IInv => MutualExclusion
  BY DEF IInv, OwnerHoldsLock, MutualExclusion
<1> QED
  BY <1>1, SpecIInv, PTL
=============================================================================
