------------------------- MODULE RuntimeLease_proofs -------------------------
(***************************************************************************)
(* Proofs about RuntimeLease, for every set of processes and threads.  The *)
(* checks use the lock as any thread does, so what is proved of the lock   *)
(* holds here; under it a thread that has read the lease file and not yet  *)
(* written has read what the file holds, and no lease is lost.             *)
(***************************************************************************)
EXTENDS RuntimeLease, GovernanceLock_proofs

\* The steps that run inside the lock, and the steps of a check.
Inside == {"prune", "pruned", "check", "remove"}
Checking == {"identified", "prune", "pruned", "check"}

InsideInv == \A t \in Threads : step[t] \in Inside => held[t] > 0

\* A check is made by a live process, of one of the builds.
CheckInv == \A t \in Threads : step[t] \in Checking => P(t) \in alive /\ build[t] \in Builds

\* What a thread has read under the lock is what the file holds.
ReadInv == \A t \in Threads : step[t] \in {"prune", "check", "remove"} => read[t] = leases

LInv ==
    /\ IInv
    /\ LeaseTypeOK
    /\ InsideInv
    /\ CheckInv
    /\ ReadInv
    /\ GrantedHaveLeases

-----------------------------------------------------------------------------
(* The lock.                                                               *)

LEMMA LeaseInitLock == LeaseInit => Init
  BY DEF LeaseInit

\* Every step of the composed system is a step of the lock or leaves it alone.
LEMMA LeaseStepLock == [LeaseNext]_leaseVars => [Next]_lockVars
<1> SUFFICES ASSUME [LeaseNext]_leaseVars PROVE [Next]_lockVars
  OBVIOUS
<1>1. ASSUME NEW t \in Threads, UseLock(t) PROVE Next
  BY <1>1 DEF UseLock, OutsideCheck, Next
<1>2. ASSUME NEW p \in Processes, Die(p) PROVE Next
  BY <1>2 DEF Die, Next
<1>3. CASE UNCHANGED leaseVars
  BY <1>3 DEF leaseVars
<1> QED
  BY <1>1, <1>2, <1>3
  DEF LeaseNext, Identify, ReadToPrune, Prune, ReadToCheck, Refuse, Grant, ReadToRemove,
      Remove, CheckFails, ReadFile, Start, Upgrade

\* The lock keeps its promises to the checks.
THEOREM LeaseUsesLock == LeaseSpec => Spec
  BY LeaseInitLock, LeaseStepLock, PTL DEF LeaseSpec, Spec

LEMMA OthersStay ==
  ASSUME NEW t \in Threads, ThreadStep(t), TypeOK, NEW s \in Threads, s # t
  PROVE  held'[s] = held[s]
  BY DEF ThreadStep, Acquire, Reenter, Ask, WaitTimesOut, Claim, TryLock, GiveUp, Own,
         Interrupt, Release, TypeOK, lockVars

LEMMA OneInside ==
  ASSUME LInv, NEW s \in Threads, NEW t \in Threads, step[s] \in Inside, step[t] \in Inside
  PROVE  s = t
  BY DEF LInv, IInv, InsideInv, OwnerHoldsLock

-----------------------------------------------------------------------------
(* The invariant.                                                          *)

LEMMA InitLInv == LeaseInit => LInv
<1> SUFFICES ASSUME LeaseInit PROVE LInv
  OBVIOUS
<1>1. IInv
  BY LeaseInitLock, InitIInv
<1>2. LeaseTypeOK
  <2>1. \A p \in Processes : SiteOf[p] \in Sites
    BY DEF Sites
  <2>2. starts \in [Processes -> 1..MaxStarts]
    BY BoundsAssumption DEF LeaseInit
  <2>3. loaded \in [Processes -> Builds] /\ disk \in [Sites -> Builds]
    BY <2>1 DEF LeaseInit
  <2> QED
    BY <1>1, <2>2, <2>3 DEF LeaseInit, IInv, LeaseTypeOK
<1> QED
  BY <1>1, <1>2 DEF LeaseInit, LInv, InsideInv, CheckInv, ReadInv, Inside, Checking,
                    GrantedHaveLeases

LEMMA NextLInv == LInv /\ [LeaseNext]_leaseVars => LInv'
<1> SUFFICES ASSUME LInv, [LeaseNext]_leaseVars PROVE LInv'
  OBVIOUS
<1> USE ProcessOfThread, BoundsAssumption DEF Inside, Checking
<1>0. IInv' /\ TypeOK' /\ TypeOK
  <2>1. IInv
    BY DEF LInv
  <2>2. IInv'
    BY <2>1, LeaseStepLock, NextIInv
  <2> QED
    BY <2>1, <2>2 DEF IInv
<1> DEFINE Rest == LeaseTypeOK' /\ InsideInv' /\ CheckInv' /\ ReadInv' /\ GrantedHaveLeases'
<1>1. ASSUME NEW t \in Threads, Identify(t) PROVE Rest
  <2>1. LeaseTypeOK' /\ InsideInv' /\ CheckInv'
    BY <1>0, <1>1, SitesAssumption
    DEF Identify, Fingerprint, LInv, LeaseTypeOK, Sites, InsideInv, CheckInv, P, lockVars, siteVars, processVars
  <2>2. ReadInv' /\ GrantedHaveLeases'
    BY <1>1 DEF Identify, Fingerprint, LInv, LeaseTypeOK, ReadInv, GrantedHaveLeases, processVars
  <2> QED
    BY <2>1, <2>2
<1>2. ASSUME NEW t \in Threads, ReadToPrune(t) PROVE Rest
  <2>1. LeaseTypeOK' /\ InsideInv'
    BY <1>0, <1>2 DEF ReadToPrune, ReadFile, LInv, LeaseTypeOK, InsideInv, lockVars, siteVars, processVars
  <2>2. CheckInv'
    BY <1>2 DEF ReadToPrune, ReadFile, LInv, LeaseTypeOK, CheckInv, P, processVars
  <2>3. ReadInv' /\ GrantedHaveLeases'
    BY <1>2 DEF ReadToPrune, ReadFile, LInv, LeaseTypeOK, ReadInv, GrantedHaveLeases, processVars
  <2> QED
    BY <2>1, <2>2, <2>3
<1>3. ASSUME NEW t \in Threads, Prune(t) PROVE Rest
  <2>1. read[t] = leases /\ \A s \in Threads : step[s] \in Inside => s = t
    BY <1>3, OneInside DEF Prune, LInv, ReadInv
  <2>2. LeaseTypeOK' /\ InsideInv' /\ CheckInv'
    BY <1>0, <1>3, <2>1 DEF Prune, LInv, LeaseTypeOK, InsideInv, CheckInv, P, lockVars, siteVars, processVars
  <2>3. ReadInv'
    BY <1>3, <2>1 DEF Prune, LInv, LeaseTypeOK, ReadInv
  <2>4. GrantedHaveLeases'
    BY <1>3, <2>1 DEF Prune, LInv, LeaseTypeOK, GrantedHaveLeases, IsLive, processVars
  <2> QED
    BY <2>2, <2>3, <2>4
<1>4. ASSUME NEW t \in Threads, ReadToCheck(t) PROVE Rest
  <2>1. LeaseTypeOK' /\ InsideInv'
    BY <1>0, <1>4 DEF ReadToCheck, ReadFile, LInv, LeaseTypeOK, InsideInv, lockVars, siteVars, processVars
  <2>2. CheckInv'
    BY <1>4 DEF ReadToCheck, ReadFile, LInv, LeaseTypeOK, CheckInv, P, processVars
  <2>3. ReadInv' /\ GrantedHaveLeases'
    BY <1>4 DEF ReadToCheck, ReadFile, LInv, LeaseTypeOK, ReadInv, GrantedHaveLeases, processVars
  <2> QED
    BY <2>1, <2>2, <2>3
<1>5. ASSUME NEW t \in Threads, Refuse(t) PROVE Rest
  <2>1. LeaseTypeOK' /\ InsideInv' /\ CheckInv'
    BY <1>0, <1>5 DEF Refuse, Done, LInv, LeaseTypeOK, InsideInv, CheckInv, P, lockVars, siteVars, processVars
  <2>2. ReadInv' /\ GrantedHaveLeases'
    BY <1>5 DEF Refuse, Done, LInv, LeaseTypeOK, ReadInv, GrantedHaveLeases, processVars
  <2> QED
    BY <2>1, <2>2
<1>6. ASSUME NEW t \in Threads, Grant(t) PROVE Rest
  <2>1. read[t] = leases /\ \A s \in Threads : step[s] \in Inside => s = t
    BY <1>6, OneInside DEF Grant, LInv, ReadInv
  <2>2. P(t) \in alive /\ build[t] \in Builds
    BY <1>6 DEF Grant, LInv, CheckInv
  <2>3. OwnLease(t) \in Lease
    BY <2>2 DEF OwnLease, Lease, LInv, LeaseTypeOK
  <2>4. LeaseTypeOK' /\ InsideInv' /\ CheckInv'
    BY <1>0, <1>6, <2>1, <2>2, <2>3
    DEF Grant, Done, LInv, LeaseTypeOK, InsideInv, CheckInv, P, lockVars, siteVars, processVars
  <2>5. ReadInv'
    BY <1>6, <2>1 DEF Grant, Done, LInv, LeaseTypeOK, ReadInv
  <2>6. GrantedHaveLeases'
    <3>1. ASSUME NEW p \in granted' PROVE \E l \in leases' : l.pid = p /\ l.started = starts'[p]
      <4>1. CASE p = P(t)
        <5>1. OwnLease(t) \in leases' /\ OwnLease(t).pid = p /\ OwnLease(t).started = starts'[p]
          BY <1>6, <4>1 DEF Grant, OwnLease, processVars
        <5> QED
          BY <5>1
      <4>2. CASE p # P(t)
        <5>1. PICK l \in leases : l.pid = p /\ l.started = starts[p]
          BY <1>6, <3>1, <4>2 DEF Grant, LInv, GrantedHaveLeases
        <5>2. l \in leases'
          BY <1>6, <2>1, <4>2, <5>1 DEF Grant
        <5> QED
          BY <1>6, <5>1, <5>2 DEF Grant, processVars
      <4> QED
        BY <4>1, <4>2
    <3> QED
      BY <3>1 DEF GrantedHaveLeases
  <2> QED
    BY <2>4, <2>5, <2>6
<1>7. ASSUME NEW t \in Threads, ReadToRemove(t) PROVE Rest
  <2>1. LeaseTypeOK' /\ InsideInv'
    BY <1>0, <1>7 DEF ReadToRemove, ReadFile, LInv, LeaseTypeOK, InsideInv, lockVars, siteVars, processVars
  <2>2. CheckInv'
    BY <1>7 DEF ReadToRemove, ReadFile, LInv, LeaseTypeOK, CheckInv, P, processVars
  <2>3. ReadInv' /\ GrantedHaveLeases'
    BY <1>7 DEF ReadToRemove, ReadFile, LInv, LeaseTypeOK, ReadInv, GrantedHaveLeases, processVars
  <2> QED
    BY <2>1, <2>2, <2>3
<1>8. ASSUME NEW t \in Threads, Remove(t) PROVE Rest
  <2>1. read[t] = leases /\ \A s \in Threads : step[s] \in Inside => s = t
    BY <1>8, OneInside DEF Remove, LInv, ReadInv
  <2>2. LeaseTypeOK' /\ InsideInv' /\ CheckInv'
    BY <1>0, <1>8, <2>1
    DEF Remove, Done, LInv, LeaseTypeOK, InsideInv, CheckInv, P, lockVars, siteVars, processVars
  <2>3. ReadInv'
    BY <1>8, <2>1 DEF Remove, Done, LInv, LeaseTypeOK, ReadInv
  <2>4. GrantedHaveLeases'
    BY <1>8, <2>1 DEF Remove, LInv, GrantedHaveLeases, processVars
  <2> QED
    BY <2>2, <2>3, <2>4
<1>9. ASSUME NEW t \in Threads, CheckFails(t) PROVE Rest
  <2>1. LeaseTypeOK' /\ InsideInv' /\ CheckInv'
    BY <1>0, <1>9 DEF CheckFails, Done, LInv, LeaseTypeOK, InsideInv, CheckInv, P, lockVars, siteVars, processVars
  <2>2. ReadInv' /\ GrantedHaveLeases'
    BY <1>9 DEF CheckFails, Done, LInv, LeaseTypeOK, ReadInv, GrantedHaveLeases, processVars
  <2> QED
    BY <2>1, <2>2
<1>10. ASSUME NEW t \in Threads, UseLock(t) PROVE Rest
  <2>1. InsideInv'
    BY <1>0, <1>10, OthersStay DEF UseLock, OutsideCheck, LInv, InsideInv, fileVars
  <2> QED
    BY <1>0, <1>10, <2>1
    DEF UseLock, OutsideCheck, LInv, LeaseTypeOK, CheckInv, ReadInv, GrantedHaveLeases, P, fileVars, siteVars, processVars
<1>11. ASSUME NEW p \in Processes, Die(p) PROVE Rest
  <2>1. LeaseTypeOK' /\ CheckInv'
    BY <1>0, <1>11 DEF Die, LInv, LeaseTypeOK, CheckInv, P, siteVars
  <2>2. InsideInv'
    BY <1>0, <1>11 DEF Die, Crash, LInv, LeaseTypeOK, InsideInv
  <2>3. ReadInv' /\ GrantedHaveLeases'
    BY <1>11 DEF Die, LInv, LeaseTypeOK, ReadInv, GrantedHaveLeases
  <2> QED
    BY <2>1, <2>2, <2>3
<1>12. ASSUME NEW p \in Processes, Start(p) PROVE Rest
  <2>1. LeaseTypeOK'
    BY <1>0, <1>12 DEF Start, LInv, LeaseTypeOK, Sites, fileVars, siteVars, lockVars
  <2>2. InsideInv' /\ CheckInv' /\ ReadInv'
    BY <1>12 DEF Start, LInv, InsideInv, CheckInv, ReadInv, P, fileVars, lockVars
  <2>3. p \notin granted
    BY <1>12 DEF Start, LInv, LeaseTypeOK
  <2>4. GrantedHaveLeases'
    BY <1>12, <2>3 DEF Start, LInv, LeaseTypeOK, GrantedHaveLeases, fileVars
  <2> QED
    BY <2>1, <2>2, <2>4
<1>13. ASSUME NEW s \in Sites, NEW b \in Builds, Upgrade(s, b) PROVE Rest
  BY <1>0, <1>13 DEF Upgrade, LInv, LeaseTypeOK, InsideInv, CheckInv, ReadInv, GrantedHaveLeases, P,
     fileVars, lockVars, processVars
<1>14. ASSUME UNCHANGED leaseVars PROVE Rest
  BY <1>0, <1>14 DEF leaseVars, LInv, LeaseTypeOK, InsideInv, CheckInv, ReadInv, GrantedHaveLeases, P,
     fileVars, lockVars, processVars, siteVars
<1> HIDE DEF Rest
<1>15. Rest
  BY <1>1, <1>2, <1>3, <1>4, <1>5, <1>6, <1>7, <1>8, <1>9, <1>10, <1>11, <1>12, <1>13, <1>14
  DEF LeaseNext
<1> QED
  BY <1>0, <1>15 DEF LInv, Rest

LEMMA SpecLInv == LeaseSpec => []LInv
  BY InitLInv, NextLInv, PTL DEF LeaseSpec

-----------------------------------------------------------------------------

\* Every variable of the lease protocol keeps its type; only live processes
\* count as granted, and every lease in the file names its build.
THEOREM LeaseTypeCorrect == LeaseSpec => []LeaseTypeOK
<1>1. LInv => LeaseTypeOK
  BY DEF LInv
<1> QED
  BY <1>1, SpecLInv, PTL

\* RuntimeLeaseStore under the lock: no check, prune or release of another
\* process loses the lease of a process that was granted.
THEOREM GrantedKeepLeases == LeaseSpec => []GrantedHaveLeases
<1>1. LInv => GrantedHaveLeases
  BY DEF LInv
<1> QED
  BY <1>1, SpecLInv, PTL
-----------------------------------------------------------------------------
(* Builds.  If no installation is upgraded under a running process, a live *)
(* process runs what is on its disk, and its lease names that build.       *)

BInv ==
    /\ \A p \in alive : loaded[p] = disk[SiteOf[p]]
    /\ \A t \in Threads : step[t] \in Checking => build[t] = loaded[P(t)]
    /\ \A p \in granted : \E l \in leases :
          l.pid = p /\ l.started = starts[p] /\ l.build = loaded[p]
    /\ NoSplitBrain

LEMMA InitBInv == LeaseInit => BInv
  BY DEF LeaseInit, BInv, NoSplitBrain, Checking

LEMMA NextBInv ==
  ASSUME ~InPlace, LInv, BInv, [LeaseNext]_leaseVars
  PROVE  BInv'
<1> USE ProcessOfThread DEF BInv, NoSplitBrain, Checking
<1>1. ASSUME NEW t \in Threads, Identify(t) PROVE BInv'
  BY <1>1 DEF Identify, Fingerprint, LInv, LeaseTypeOK, P, processVars, siteVars
<1>2. ASSUME NEW t \in Threads, ReadToPrune(t) \/ ReadToCheck(t) \/ ReadToRemove(t) PROVE BInv'
  BY <1>2 DEF ReadToPrune, ReadToCheck, ReadToRemove, ReadFile, LInv, LeaseTypeOK, P,
              processVars, siteVars
<1>3. ASSUME NEW t \in Threads, Prune(t) PROVE BInv'
  <2>1. read[t] = leases /\ granted \subseteq alive
    BY <1>3 DEF Prune, LInv, LeaseTypeOK, ReadInv
  <2>2. \A p \in granted' : \E l \in leases' :
           l.pid = p /\ l.started = starts'[p] /\ l.build = loaded'[p]
    BY <1>3, <2>1 DEF Prune, IsLive, processVars
  <2> QED
    BY <1>3, <2>2 DEF Prune, LInv, LeaseTypeOK, P, processVars, siteVars
<1>4. ASSUME NEW t \in Threads, Refuse(t) PROVE BInv'
  BY <1>4 DEF Refuse, Done, LInv, LeaseTypeOK, P, processVars, siteVars
<1>5. ASSUME NEW t \in Threads, Grant(t) PROVE BInv'
  <2>1. read[t] = leases /\ build[t] = loaded[P(t)]
    BY <1>5 DEF Grant, LInv, ReadInv
  <2>2. granted \subseteq Processes
    BY DEF LInv, LeaseTypeOK
  <2>3. \A p \in granted : loaded[p] = loaded[P(t)]
    <3>1. ASSUME NEW p \in granted, p # P(t) PROVE loaded[p] = loaded[P(t)]
      <4>1. PICK l \in leases : l.pid = p /\ l.build = loaded[p]
        BY <3>1
      <4>2. l.build = build[t]
        BY <1>5, <2>1, <3>1, <4>1 DEF Grant, Conflicts
      <4> QED
        BY <2>1, <4>1, <4>2
    <3> QED
      BY <3>1
  <2>4. ASSUME NEW p \in granted'
        PROVE  \E l \in leases' : l.pid = p /\ l.started = starts'[p] /\ l.build = loaded'[p]
    <3>1. CASE p = P(t)
      <4>1. OwnLease(t) \in leases'
        BY <1>5 DEF Grant
      <4>2. OwnLease(t).pid = p /\ OwnLease(t).started = starts'[p] /\ OwnLease(t).build = loaded'[p]
        BY <1>5, <2>1, <3>1 DEF Grant, OwnLease, processVars
      <4> QED
        BY <4>1, <4>2
    <3>2. CASE p # P(t)
      <4>1. PICK l \in leases : l.pid = p /\ l.started = starts[p] /\ l.build = loaded[p]
        BY <1>5, <2>4, <3>2 DEF Grant
      <4>2. l \in leases'
        BY <1>5, <2>1, <3>2, <4>1 DEF Grant
      <4> QED
        BY <1>5, <4>1, <4>2 DEF Grant, processVars
    <3> QED
      BY <3>1, <3>2
  <2>5. NoSplitBrain'
    BY <1>5, <2>3 DEF Grant, processVars
  <2>6. \A s \in Threads : step'[s] \in Checking => build'[s] = loaded'[P(s)]
    BY <1>5 DEF Grant, Done, LInv, LeaseTypeOK, processVars
  <2> QED
    BY <1>5, <2>4, <2>5, <2>6 DEF Grant, P, processVars, siteVars
<1>6. ASSUME NEW t \in Threads, Remove(t) PROVE BInv'
  <2>1. read[t] = leases
    BY <1>6 DEF Remove, LInv, ReadInv
  <2>2. \A p \in granted' : \E l \in leases' :
           l.pid = p /\ l.started = starts'[p] /\ l.build = loaded'[p]
    BY <1>6, <2>1 DEF Remove, processVars
  <2> QED
    BY <1>6, <2>2 DEF Remove, Done, LInv, LeaseTypeOK, P, processVars, siteVars
<1>7. ASSUME NEW t \in Threads, CheckFails(t) PROVE BInv'
  BY <1>7 DEF CheckFails, Done, LInv, LeaseTypeOK, P, processVars, siteVars
<1>8. ASSUME NEW t \in Threads, UseLock(t) PROVE BInv'
  BY <1>8 DEF UseLock, OutsideCheck, P, fileVars, processVars, siteVars
<1>9. ASSUME NEW p \in Processes, Die(p) PROVE BInv'
  BY <1>9 DEF Die, LInv, LeaseTypeOK, P, siteVars
<1>10. ASSUME NEW p \in Processes, Start(p) PROVE BInv'
  <2>1. p \notin granted /\ granted \subseteq Processes
    BY <1>10 DEF Start, LInv, LeaseTypeOK
  <2>2. \A t \in Threads : step[t] \in Checking => P(t) # p
    BY <1>10 DEF Start, LInv, CheckInv
  <2>3. \A q \in Processes : q # p => loaded'[q] = loaded[q] /\ starts'[q] = starts[q]
    BY <1>10 DEF Start, LInv, LeaseTypeOK
  <2>4. loaded'[p] = disk[SiteOf[p]]
    BY <1>10 DEF Start, LInv, LeaseTypeOK
  <2>5. \A q \in granted' : \E l \in leases' :
           l.pid = q /\ l.started = starts'[q] /\ l.build = loaded'[q]
    BY <1>10, <2>1, <2>3 DEF Start, fileVars
  <2> QED
    BY <1>10, <2>1, <2>2, <2>3, <2>4, <2>5 DEF Start, P, fileVars, siteVars
<1>11. ASSUME NEW s \in Sites, NEW b \in Builds, Upgrade(s, b) PROVE BInv'
  <2>1. \A p \in alive : disk'[SiteOf[p]] = disk[SiteOf[p]]
    BY <1>11 DEF Upgrade, LInv, LeaseTypeOK
  <2> QED
    BY <1>11, <2>1 DEF Upgrade, P, fileVars, processVars
<1>12. CASE UNCHANGED leaseVars
  BY <1>12 DEF leaseVars, P, fileVars, processVars, siteVars
<1> QED
  BY <1>1, <1>2, <1>3, <1>4, <1>5, <1>6, <1>7, <1>8, <1>9, <1>10, <1>11, <1>12 DEF LeaseNext

\* check_runtime_lease: if no installation is upgraded under a running process,
\* the live processes that may write all run one build.
THEOREM OneBuildWrites ==
  ASSUME ~InPlace
  PROVE  LeaseSpec => []NoSplitBrain
<1>1. LInv /\ BInv /\ [LeaseNext]_leaseVars => BInv'
  BY NextBInv
<1>2. BInv => NoSplitBrain
  BY DEF BInv
<1> QED
  BY <1>1, <1>2, InitBInv, SpecLInv, PTL DEF LeaseSpec
=============================================================================
