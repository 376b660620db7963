--------------------------- MODULE MCRuntimeLease ---------------------------
(* Two processes on one workspace, the first with two threads.             *)
EXTENDS RuntimeLease, TLC

CONSTANTS p1, p2, t1, t2, t3, s1, s2, v1, v2

ThreadsOfProcesses == t1 :> p1 @@ t2 :> p1 @@ t3 :> p2

\* Each process has an installation of its own.
TwoSites == p1 :> s1 @@ p2 :> s2

\* Both processes start from one installation (with InPlace = TRUE, NoSplitBrain then fails).
OneSite == p1 :> s1 @@ p2 :> s1

\* Builds are interchangeable: the first installation starts with the first.
MCInit == LeaseInit /\ disk[s1] = v1

MCSpec == MCInit /\ [][LeaseNext]_leaseVars /\ LeaseFairness
=============================================================================
