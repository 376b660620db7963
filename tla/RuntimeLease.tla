---------------------------- MODULE RuntimeLease ----------------------------
(***************************************************************************)
(* runtime_lease.py under the governance lock, as mcp_server.py uses it:   *)
(* before every call that writes, a process checks the lease file, drops   *)
(* the leases of dead processes, and takes a lease unless a live process   *)
(* of another build has one.  The build is computed at each check from the *)
(* package files on disk; the code a process runs was loaded at its start. *)
(*                                                                         *)
(* The lease file is one JSON file: reading and replacing it are two       *)
(* steps.  A process that starts may get the pid of one that died.         *)
(***************************************************************************)
EXTENDS GovernanceLock

CONSTANTS Builds,         \* version and code fingerprint
          SiteOf,         \* the installation each process starts from
          MaxStarts,      \* bound on the processes that get one pid
          MaxUpgrades,    \* bound on the upgrades of installations
          InPlace         \* whether processes may run during an upgrade

Sites == {SiteOf[p] : p \in Processes}
ASSUME SitesAssumption == DOMAIN SiteOf = Processes
ASSUME BoundsAssumption == MaxStarts \in Nat \ {0} /\ MaxUpgrades \in Nat /\ InPlace \in BOOLEAN

VARIABLES leases,       \* the lease file
          read,         \* the leases each thread read last
          step,         \* what each thread is doing with them
          build,        \* the build each thread computed for its check
          starts,       \* process instances of each pid so far
          alive,        \* pids of live processes
          loaded,       \* the build each process runs
          disk,         \* the build in each installation
          granted,      \* processes whose last check was granted
          upgrades

fileVars == <<leases, read, step, build>>
processVars == <<starts, alive, loaded>>
siteVars == <<disk, upgrades>>
leaseVars == <<lockVars, fileVars, processVars, siteVars, granted>>

Lease == [pid: Processes, started: 1..MaxStarts, build: Builds]

LeaseInit ==
    /\ Init
    /\ leases = {} /\ granted = {} /\ upgrades = 0
    /\ read = [t \in Threads |-> {}]
    /\ step = [t \in Threads |-> "idle"]
    /\ build = [t \in Threads |-> Nobody]
    /\ starts = [p \in Processes |-> 1]
    /\ alive = Processes
    /\ disk \in [Sites -> Builds]
    /\ loaded = [p \in Processes |-> disk[SiteOf[p]]]

\* The pid names the process instance that took the lease.
IsLive(lease) == lease.pid \in alive /\ lease.started = starts[lease.pid]

-----------------------------------------------------------------------------
(* check_runtime_lease and release_runtime_lease, inside the lock.         *)

\* The build as the package files on disk have it.
Fingerprint(t) == disk[SiteOf[P(t)]]

\* The fingerprint is taken before the lock.
Identify(t) ==
    /\ P(t) \in alive /\ step[t] = "idle"
    /\ held[t] = 0 /\ at[t] = "out"
    /\ step' = [step EXCEPT ![t] = "identified"]
    /\ build' = [build EXCEPT ![t] = Fingerprint(t)]
    /\ UNCHANGED <<lockVars, leases, read, processVars, siteVars, granted>>

ReadFile(t, from, to) ==
    /\ held[t] > 0 /\ step[t] = from
    /\ read' = [read EXCEPT ![t] = leases]
    /\ step' = [step EXCEPT ![t] = to]
    /\ UNCHANGED <<lockVars, leases, build, processVars, siteVars, granted>>

Done(t) ==
    /\ step' = [step EXCEPT ![t] = "idle"]
    /\ read' = [read EXCEPT ![t] = {}]
    /\ build' = [build EXCEPT ![t] = Nobody]

ReadToPrune(t)  == ReadFile(t, "identified", "prune")
ReadToCheck(t)  == ReadFile(t, "pruned", "check")
ReadToRemove(t) == ReadFile(t, "idle", "remove")

Prune(t) ==
    /\ step[t] = "prune"
    /\ leases' = {l \in read[t] : IsLive(l)}
    /\ step' = [step EXCEPT ![t] = "pruned"]
    /\ UNCHANGED <<lockVars, read, build, processVars, siteVars, granted>>

\* Mutant: the lease does not say of which build it is.
OwnLeaseUnidentified(t) == [pid |-> P(t), started |-> starts[P(t)], build |-> Nobody]

OwnLease(t) == [pid |-> P(t), started |-> starts[P(t)], build |-> build[t]]

\* Leases of other processes with another build.
Conflicts(t) == {l \in read[t] : l.pid # P(t) /\ l.build # build[t]}

Refuse(t) ==
    /\ step[t] = "check" /\ Conflicts(t) # {}
    /\ granted' = granted \ {P(t)}
    /\ Done(t)
    /\ UNCHANGED <<lockVars, leases, processVars, siteVars>>

\* Mutant: only the first process takes a lease, later ones join it.
GrantJoining(t) ==
    /\ step[t] = "check" /\ Conflicts(t) = {}
    /\ leases' = IF read[t] = {} THEN {OwnLease(t)} ELSE leases
    /\ granted' = granted \cup {P(t)}
    /\ Done(t)
    /\ UNCHANGED <<lockVars, processVars, siteVars>>

\* Mutant: a conflict is reported by the diagnostics only.
GrantInConflict(t) ==
    /\ step[t] = "check"
    /\ leases' = {l \in read[t] : l.pid # P(t)} \cup {OwnLease(t)}
    /\ granted' = granted \cup {P(t)}
    /\ Done(t)
    /\ UNCHANGED <<lockVars, processVars, siteVars>>

Grant(t) ==
    /\ step[t] = "check" /\ Conflicts(t) = {}
    /\ leases' = {l \in read[t] : l.pid # P(t)} \cup {OwnLease(t)}
    /\ granted' = granted \cup {P(t)}
    /\ Done(t)
    /\ UNCHANGED <<lockVars, processVars, siteVars>>

Remove(t) ==
    /\ step[t] = "remove"
    /\ leases' = {l \in read[t] : l.pid # P(t)}
    /\ granted' = granted \ {P(t)}
    /\ Done(t)
    /\ UNCHANGED <<lockVars, processVars, siteVars>>

\* The lock times out, or the file cannot be written: the caller is told so.
CheckFails(t) ==
    /\ \/ step[t] = "identified" /\ held[t] = 0 /\ at[t] = "out"
       \/ step[t] \in {"prune", "check", "remove"}
    /\ granted' = IF step[t] = "remove" THEN granted ELSE granted \ {P(t)}
    /\ Done(t)
    /\ UNCHANGED <<lockVars, leases, processVars, siteVars>>

\* Any other use of the lock, by this code or another.
OutsideCheck(t) ==
    /\ P(t) \in alive
    /\ step[t] = "idle" \/ (step[t] = "identified" /\ held[t] = 0)

UseLock(t) ==
    /\ OutsideCheck(t) /\ ThreadStep(t)
    /\ UNCHANGED <<fileVars, processVars, siteVars, granted>>

\* What of it comes about without help of another thread.
KeepAcquiring(t) ==
    /\ OutsideCheck(t) /\ Acquire(t)
    /\ UNCHANGED <<fileVars, processVars, siteVars, granted>>

-----------------------------------------------------------------------------
(* Processes and installations.                                            *)

Die(p) ==
    /\ p \in alive
    /\ Crash(p)
    /\ alive' = alive \ {p} /\ granted' = granted \ {p}
    /\ step' = [t \in Threads |-> IF P(t) = p THEN "idle" ELSE step[t]]
    /\ read' = [t \in Threads |-> IF P(t) = p THEN {} ELSE read[t]]
    /\ build' = [t \in Threads |-> IF P(t) = p THEN Nobody ELSE build[t]]
    /\ UNCHANGED <<leases, starts, loaded, siteVars>>

Start(p) ==
    /\ p \notin alive /\ starts[p] < MaxStarts
    /\ starts' = [starts EXCEPT ![p] = @ + 1]
    /\ alive' = alive \cup {p}
    /\ loaded' = [loaded EXCEPT ![p] = disk[SiteOf[p]]]
    /\ UNCHANGED <<lockVars, fileVars, siteVars, granted>>

Upgrade(s, b) ==
    /\ upgrades < MaxUpgrades /\ disk[s] # b
    /\ InPlace \/ \A p \in alive : SiteOf[p] # s
    /\ disk' = [disk EXCEPT ![s] = b]
    /\ upgrades' = upgrades + 1
    /\ UNCHANGED <<lockVars, fileVars, processVars, granted>>

LeaseNext ==
    \/ \E t \in Threads :
        \/ Identify(t) \/ ReadToPrune(t) \/ Prune(t) \/ ReadToCheck(t) \/ Refuse(t) \/ Grant(t)
        \/ ReadToRemove(t) \/ Remove(t) \/ CheckFails(t) \/ UseLock(t)
    \/ \E p \in Processes : Die(p) \/ Start(p)
    \/ \E s \in Sites, b \in Builds : Upgrade(s, b)

\* Waiting and polling are bounded by a deadline.
LeaseFairness == \A t \in Threads : WF_leaseVars(KeepAcquiring(t))

LeaseSpec == LeaseInit /\ [][LeaseNext]_leaseVars
FairLeaseSpec == LeaseSpec /\ LeaseFairness

-----------------------------------------------------------------------------
(* Properties.                                                             *)

LeaseTypeOK ==
    /\ TypeOK
    /\ leases \subseteq Lease
    /\ read \in [Threads -> SUBSET Lease]
    /\ build \in [Threads -> Builds \cup {Nobody}]
    /\ step \in [Threads -> {"idle", "identified", "prune", "pruned", "check", "remove"}]
    /\ starts \in [Processes -> 1..MaxStarts]
    /\ alive \subseteq Processes /\ granted \subseteq alive
    /\ loaded \in [Processes -> Builds] /\ disk \in [Sites -> Builds]

\* runtime_lease.py:555 "two MCP processes acquiring concurrently never lose each
\* other's lease": a process that was granted has its lease in the file.
GrantedHaveLeases ==
    \A p \in granted : \E l \in leases : l.pid = p /\ l.started = starts[p]

\* runtime_lease.py:3 "When a live process already holds the same database set but
\* was built from a different memoryguard_version or code_fingerprint [...] the
\* newly arriving process must fail closed": live processes that may write run one
\* build.
NoSplitBrain == \A p, q \in granted : loaded[p] = loaded[q]

\* Every thread that asks for the lock gets it or is told that it does not.
AcquireEnds == \A t \in Threads : at[t] # "out" ~> at[t] = "out"
=============================================================================
