# MemoryGuard: verification project

MemoryGuard is a local memory service for coding agents (a Python package under
`src/src/memoryguard`). Several agent hosts — MCP servers, CLI calls, hook
processes, background workers, a GUI — share one workspace and write to the same
SQLite databases; no server serialises them. What must be right is therefore not
in any one function but in the protocols these processes follow *between*
transactions: claims, leases, outboxes, staged revisions, generations, locks.
That is what is modelled here in TLA+, model-checked with TLC and, for the core,
proved with TLAPS.

Paths below are relative to `src/src/memoryguard/` unless they say otherwise.

- [Inventory](#inventory)
- [The modules and the code](#the-modules-and-the-code)
- [What the runs check](#what-the-runs-check)
- [Disagreements found](#disagreements-found)
- [What is proved](#what-is-proved)
- [Abstractions and limits](#abstractions-and-limits)
- [Not modelled](#not-modelled)
- [Running it](#running-it)

## Inventory

### Components, their state and their operations

| Component | Source | State | Operations that change it | Status |
|---|---|---|---|---|
| Governance request fence | `governance_v2/boundary.py` | `decisions.db`: `request_ledger`, `decisions`, `decision_outbox` | claim, record, seal as failed | modelled but for the upgrade of old ledgers |
| Governance boundary | `governance_v2/boundary.py` | a call's own reads | put_atom, tombstone, restore, supersede, unlink, record_deduplication, undo | first four modelled |
| Memory atom store | `memory/store.py` | `memory.db`: atoms, revisions, deltas, supersession edges, outbox, receipts | put, delete, restore, supersede, set_visibility, replay, project_evidence | modelled but for migration and rebuild helpers |
| Evidence store | `evidence/store.py` | `evidence.db`: evidence, links, versions | project_batch, put_evidence, link, unlink | project_batch modelled |
| Governance lock | `governance_lock.py` | per process: owner, depth, acquiring thread; one OS file lock | acquire, release | modelled |
| Runtime lease | `runtime_lease.py` | a JSON lease file | check (prune, conflict, upsert), release | modelled but for pid probes and shared database files |
| Task coordinator | `runtime_v2/task_coordinator.py`, `runtime_v2/working_memory.py` | durable runs, owner checkpoints, answered keys; per process: handles, cancel events, closed flag, lock | start, start_scope_exclusive, worker thread, cancel, shutdown | modelled; of working memory only the runs |
| Activation manifest | `system/manifest.py`, `migration/`, `cutover_v2/`, `v2_cli.py` | one row: state, generation, batch; ledger, checkpoints; lock file, frozen copies | prepare, mark ready, activate, roll back | modelled; a migration is one step |
| Blob sweep | `maintenance_v2/` | jobs, epochs, candidates in the maintenance database; blobs in the content database | sweep, recover | the sweep is modelled; compaction and reports are not |
| Transactions | `storage/transaction.py` | per thread and connection: depth, rollback_only | nested enter, exit | not modelled |
| Rule reconciliation | `rule_reconciliation.py`, `rule_merge*.py`, `rules/v2_store.py` | jobs with status and phase, canonical layer | run or resume a saga | not modelled |
| Content, asset, skill, knowledge stores | `content/`, `assets_v2/`, `skills_v2/`, `knowledge_v2/` | databases with an outbox each | same pattern as the memory store | not modelled |
| V1 migration | `migration/` | batches | one-off import | when it runs and how it fails, not its content |
| Projections, retrieval, code graph | `projection_v2/`, `retrieval_v2/`, `codegraph_v2/` | derived read models | rebuild, rank | not modelled: derived data |
| Hosts, MCP, CLI, GUI | `mcp_server.py`, `host_hooks.py`, `cli.py`, ... | none of their own | dispatch | not modelled: I/O around the stores |

### How they interact

A governed write of an agent passes through all of the modelled parts:

```
 caller ──► check_runtime_lease ──(GovernanceLock)──► lease file
   │
   └─► boundary.put_atom ─ claim ──────────► decisions.db
                          ─ mutate ────────► memory.db ── outbox event
                          ─ record ────────► decisions.db
                          └ compensate ────► memory.db      (on failure)
 project_evidence ─ read outbox ── evidence.db commits ── memory.db: receipts,
                                                          staged revision shown
 set_visibility("active") ─────────────────► memory.db
```

Three databases and a file take part; no transaction spans two of them, every
arrow is a place where a process may die or another may come between, and the
rows a call read before an arrow may be stale behind it.

The other three modelled parts stand beside this path. The **task coordinator**
runs background operations of a GUI or CLI process as rows of a database that
all processes share, so that one process must judge from rows whether the
thread of another still lives. The **activation** moves a workspace from its V1
stores to the V2 databases: drivers read the manifest outside of any lock, and the
legacy stores keep being written by programs that know nothing of it. The
**blob sweep** deletes from the content database what its own database has
announced, and an identical request has to find out what an interrupted sweep did.

### What is hard, and what makes each part correct

- *Request fence.* A claim may be left by a dead owner; retries, conflicting
  reuses of an idempotency key and the owner itself race. Correct when one
  request mutates at most once, a receipt and its mutation come together, a
  claim is never taken over and every caller gets an answer.
- *Boundary over the store.* Mutation and receipt are in different databases, so
  a lost receipt has to be undone by a compensation which writes rows read
  earlier. Correct when a refused request leaves the atoms as they were, and an
  applied one is in the history.
- *Memory and evidence.* An evidenced update of a shown atom is staged in the
  revision ledger and shown when its evidence is durable in the other database.
  Correct when nothing is shown without evidence, no staged revision is
  forgotten, the history is append-only, and queued evidence arrives.
- *Lock.* Threads of one process share a re-entrant state, processes an OS lock.
  Correct when one thread of all is inside, and every wait ends.
- *Lease.* A read-modify-write file, pids that are reused, code that is upgraded
  under a running process. Correct when no lease is lost and all writers run one
  build.
- *Task coordinator.* The lock, the handles and the closed flag are of one
  process; the runs are of all. Correct when one thread of a process works on an
  exclusive operation, live work is not taken for an orphan, outcomes are final,
  nothing is launched after shutdown, and every run of a live process ends.
- *Activation.* Everything a driver knows it read before it writes. Correct when
  batches follow one another whole in the ledger, and V2 becomes ready and active
  only on a copy that has equalled the legacy stores in that state.
- *Blob sweep.* Intent, deletion and receipt are in two databases, and a job may
  be worked on twice. Correct when only announced orphans are deleted, receipts
  are written for deletions only, and a job given up has its blobs in place.

`PROJECT.json` lists these as hazards at the line where each bites.

## The modules and the code

| Module | Models | Extends |
|---|---|---|
| `GovernedRequest` | the promise of a governed mutation, without ledger, token or crash (abstract specification) | |
| `RequestFence` | the durable fence of `boundary.py` for any mutation | |
| `MemoryStore` | tables of `memory.db` and `evidence.db`, one operator per transaction of `memory/store.py` | |
| `MemoryPublication` | clients and projectors on that store, with what they read before | `MemoryStore` |
| `GovernanceBoundary` | `boundary.py` over the store: the fence with the real mutations and compensations | `RequestFence`, `MemoryStore` |
| `GovernanceLock` | `governance_lock.py` | |
| `RuntimeLease` | `runtime_lease.py` under the lock | `GovernanceLock` |
| `TaskCoordinator` | `task_coordinator.py` on the runs of `working_memory.py` | |
| `ActivationManifest` | `system/manifest.py` with prepare, activate and rollback | |
| `BlobSweep` | `maintenance_v2/blob_sweep.py` on its store and the content database | |
| `MC*` | small instances for TLC | the module named |
| `*_proofs` | theorems and their proofs | the module named |

Each definition's source lines are in `PROJECT.json` under `map`. Operators named
`...Takeover`, `...Unnoticed`, `...Never` and the like, marked "Mutant" in their
comment, are plausible bugs: each is put in place of the definition after it to
see that a property notices. They are not part of any specification.

**RequestFence.** A worker is one call of a boundary method in one process
(`pc`, `call`). `requestLedger`, `decisions`, `decisionOutbox` are the tables.
A call claims (`ClaimNew`, or answers `ClaimConflict`, `ClaimReplay`,
`ClaimRejected`, `ClaimTimeout`), mutates (`Mutate`, `MutateFails`), records
(`Record`, `RecordFails`), compensates and seals as failed (`Compensate`,
`Fail`); `Crash` is possible wherever the code holds nothing but committed rows.
The insertion of the decision, its outbox row and the guarded update of the claim
are one action because `_record` runs them in one transaction. `commits` and
`undone` are history variables: what the other database has seen.

**MemoryStore.** `atoms[a]` is the row, `ledger[a]` the rows of `atom_revisions`
with their delta at the index of their revision, `outstanding` the pending and
failed outbox events, `receipts` and `evidence` what was projected. `PutAtom`,
`Supersede`, `Restore`, `MarkBatch`, `MarkFailedBatch` and `Expose` are one
`BEGIN IMMEDIATE ... COMMIT` each. The staging rule (`Staged`, `Publication`,
`Stored`) and the promotion (`AppliedRevision`, `PublishedRow`) follow
`_put_atom_impl`, `_apply_staged_revision` and `_publish_evidenced_atoms` branch
by branch.

**MemoryPublication.** Clients first read and note what they will write
(`Import`, `Merge`, `Update`, `Lock`, `Delete`, `Enrich`, `Rollback`,
`ReadToSupersede`) and write it in a later step (`WritePut`, `WriteSupersede`),
because the code reads outside the writing transaction. `Merge` passes over an atom
that is locked or put away, as the organizer does when it looks for a candidate;
`Update` is the edit that names its atom and is made of any. `Workload` says which mutations an instance has.
Projectors read the outbox, commit `evidence.db`, then `memory.db`, and may fail
or die after each.

**GovernanceBoundary.** Every action is an action of the fence joined with what
it does to the atoms. `before` is what a call read, `todo` the rows its
compensation still writes, each in a transaction of its own (`CompensateAtom`).
The constant `Serial` only says of which requests `CompensationRestores` speaks; it
is in no action.

**GovernanceLock.** `owner`, `depth`, `acquiring` are `_LockState`; `osLock` the
`flock`. `Ask`, `WaitTimesOut`, `Claim` are the wait on the condition, `TryLock`,
`GiveUp`, `Own` the polling of the file. `Interrupt` is a `KeyboardInterrupt`,
which `except Exception` does not handle.

**RuntimeLease.** A check computes its fingerprint before the lock, then prunes
and upserts; `load` and `save` are separate steps. `loaded` is the code a process
runs, `disk` what is installed; `InPlace` says whether an installation may be
replaced while processes started from it are alive.

**TaskCoordinator.** `state`, `owner` and `answered` are rows: the run's state, its
last owner checkpoint and the idempotency keys already answered. `starter[p]` is
the one start in progress in process p (it holds `_lock` from `scan` on),
`worker[p][r]` the thread of a handle. `start` is `AskStart`, `LookUp` and then,
like an exclusive start, `CreateRun` and `Launch` (`StartFails` when the owner
cannot be recorded). `start_scope_exclusive` is `StartExclusive`, `Focus`,
`JudgeOrphan`, `RecoverOrphan`: the decision and the write are two steps, as in the
code. The thread is `Begin`, `Succeed` / `EndCancelled` / `Raise`, `EndFailed`,
`CleanUp`, which waits for the lock. `Retries` says whether an exclusive start may use the key of an earlier
one. `WriteFails` is a read or write that the database refuses. When a cleanup fails
(`CleanUpFails`, `FailCleanUp`) and the handler's own read or write is refused, the thread
dies before it drops its handle: the worker is "dead", later starts of its run are
answered by that handle, and `Live` leaves it out as `is_alive()` does.

**ActivationManifest.** `manifest` is the row, `ledger` its migration ledger,
`live` the content of the legacy stores and `snapshot[b]` the frozen copy of a
batch. The actions follow `prepare_v2_workspace` (`AskPrepare` to `LeavePrepare`),
the coordinator inside it (`Begin`, `Adopt`, `Migrate`, `Settle`, and the failure
handler `LookAtFailure`, `EndFailed`), `prepare_ready` (`Assemble`, `CheckLive`,
`ReadAgain`, `EnterReady`), the activation and the rollback. `job[d]` is what a
driver has read, and how old it is makes the interesting cases. `matched` is a
history variable.

**BlobSweep.** `jobs[k]` is the job of a request with its audits (`audits`, one set
of candidates per epoch) and candidates; `pin` stands for the maintenance lease
and the manifest generation, which the store compares in every transaction.
`execute` is `Ask` to `FinalAudit`, `_delete` is `Intend`, `Delete`, `Undo`,
`Receipt` — one candidate per step, as each is a transaction — and
`_recover_active_job` is `Recall`, `Look`, `PutBack` / `Reconcile`. `Delete` is one
transaction of the content database; `DeleteUnnoticed` is the error after its
commit that the same handler catches. `Epoch` says when a second process may share
an audit epoch (the store derives the identity of an epoch from its content).
`removed` and `disturbed` are history variables.

## What the runs check

| Run | Instance | Shows | Distinct states |
|---|---|---|---|
| `request_fence` | 2 callers, 2 keys, 2 intents, 2 tokens | types; at most one mutation; receipts are honest; claims final; implements `GovernedRequest`; every call returns | 76,025 |
| `memory` | three instances: 2 clients on 1 atom with 2 bodies, 3 revisions, 1 projector (put, lock, delete, restore); 2 atoms, 2 revisions (put, update, enrich, rollback, supersede); 1 atom under the same edits, 2 projectors, fair | types; receipts backed; nothing shown unprojected; imported content shown only with its own evidence; nothing staged behind; ledger agrees with row; history kept and revisions advance but for supersessions; evidence is projected in the end | 1,195,961 |
| `memory_history` | 2 atoms, put and supersede | *violation* of append-only history | |
| `memory_leak` | 1 atom, 2 bodies, 2 clients, 1 projector, 4 revisions; put, lock, delete, update | *violation*: content is shown ahead of its evidence | |
| `boundary` | either 1 caller with an import, a supersession and a restore, or 2 callers with a correction and a tombstone of one atom | compensation restores what a sole caller found; what has a receipt is in the history; the composed system is the fence | 230,881 |
| `boundary_correction` | 1 caller; a correction | *violation*: refused content is shown | |
| `runtime_lease` | 2 pids (2 threads and 1), 2 installations, 2 instances per pid, 1 upgrade | one thread inside; no lease lost; one build writes; every wait ends | 351,501 |
| `task_coordinator` | 2 processes (one is asked for everything, one for exclusive starts), 2 exclusive ids and 1 plain, 2 runs, 2 refused reads or writes, crashes | types; live work is not taken for an orphan; one worker per process; nothing after shutdown; bodies once; outcomes final; runs end | 268,395 |
| `task_retry` | 1 process, 1 exclusive id used again | *violation*: the body is executed twice | |
| `activation` | 2 drivers (prepare and activate; prepare and roll back), 2 batches, 2 contents, 5 transitions, 2 legacy writes, 1 fault | types; batches are whole in the ledger; V2 becomes ready and active only on a match | 742,570 |
| `activation_rerun` | 2 drivers that prepare, one that also activates, no faults | *violation*: a failing prepare returns a ready manifest to V1 | |
| `blob_sweep` | 2 processes, 2 requests, 2 blobs, two disturbances | types; receipts only for deletions; only announced orphans are deleted; jobs given up keep their content | 3,009,440 |

**Bounds.** They are constants of the modules. `MaxRev` bounds the revisions of
an atom: three are enough for a staged edit, an un-evidenced edit over it and the
promotion of either; two for a supersession over a staged edit; the boundary run
has room for a seed, the mutation and its compensation for each caller. Two
clients suffice for every stale read, as the interfering write is one; two
projectors for every overlap of batches. The two-atom instance of `memory` needs one
body, as a supersession changes statuses; two bodies are for the content that is shown,
and the first to be written may be called `b1`, since no definition tells them
apart (`FirstBody`). `Tokens` are as many as keys, since
a key is claimed once; in `boundary` each key draws a token fixed beforehand
(`Draws`). `MaxCommits` is 2 so that a second commit can be seen.
`MaxStarts = 2` gives one reuse of a pid, `MaxDepth = 2` one nesting,
`MaxUpgrades = 1` one change of code. `MaxRuns = 2` of the three ids of
`task_coordinator` come into being: two exclusive runs, of one process or of two,
or one of each kind. `MaxFaults = 2` is what it takes for a handle to outlive its thread
while the run is still active: the write that ends the run and the one after a failed
cleanup. `MaxGeneration = 5` lets a batch fail, be rolled back, and a
second one become active. In `blob_sweep` the constraint `Within` admits two
disturbances per behaviour — a write, a loss of the lease, an error or a crash —
and two of the last kind only to one sweep and its replays. Deadlock is not
checked where the bounds stop the system; the fence, whose callers always may
begin anew, has it checked.

Two runs hold several instances each, chosen in the initial state by the variable
`instance` of the MC module. In `boundary` `CompensationRestores` is said of the
requests in `Serial`, which are those of the instance with a sole caller: two callers may
legitimately change an atom between a read and its compensation. What a run takes from
its instance the theorem `CompensationUndoes` takes from a hypothesis, that calls take
turns, for any number of callers. In `memory` an instance lets the others' atoms, clients
and projectors rest. Fairness is asked only of the instance with two projectors, where
no bound refuses a projector's step: fairness of what a bound forbids would make
behaviours vanish. `OverlapIsProjected` speaks of that instance.

`ShownBodyIsEvidenced` does not hold of the code: `memory_leak` shows it. What holds is
`ImportedBodyIsEvidenced`, the same of the instance whose content is imported and merged
and whose atoms are locked, deleted and restored. Outside it are enrichment and rollback,
which write content without evidence by design; supersession, which may write over
what is staged; and updates that name their atom, which bring evidence and may yet show
content ahead of it. The theorem `ShownContentIsEvidenced` has the same
hypothesis, and says that the bounds of the run hide nothing.

The properties of the history leave out supersessions and nothing else: `HistoryIsKept` and
`RevisionsAdvance` the step that supersedes an atom, `LedgerAgreesWithRow` and
`NothingStagedBehind` the atoms that one has written.

**Symmetry** is used in runs with safety properties only; the symmetric constants
are not told apart by any definition.

**Fairness.**
- `RequestFence`: weak fairness of the steps of each call. A live thread runs
  straight-line code, and the poll of another's claim ends at a deadline of two
  seconds. Nothing is assumed of dead owners, and none of `Crash`.
- `MemoryPublication`: weak fairness of reading the outbox and recording a
  failure; strong fairness of the two commits, as a sink may fail and a projector
  die in between any number of times but not always. The code's comment on retries ("a later
  invocation may safely retry after a transient sink/schema failure") relies on
  the same: callers keep projecting and sinks recover.
- `RuntimeLease`: weak fairness of what a thread in `acquire` does by itself; both
  waits have deadlines. Nobody is assumed to release the lock.
- `TaskCoordinator`: weak fairness of the steps of each worker thread (`Work`),
  with the body given to it, which the coordinator assumes to return. Nothing is
  assumed of callers, crashes or refused reads and writes.

## Disagreements found

Each of these is a run that TLC finds violated, and quotes the line it contradicts.

1. **A supersession rewrites history** (`memory_history`, `memory/store.py:1565`).
   `supersede` numbers its revision from the row it read and writes it with
   `ON CONFLICT(atom_id, revision) DO UPDATE`. When an evidenced edit is staged
   under that number its body is overwritten, although "Revision history is
   append-only V2 state" (`memory/store.py:2017`).
2. **A refused correction is shown later** (`boundary_correction`,
   `governance_v2/boundary.py:425`). The compensation of a staged correction puts
   the row that is still visible, which is an identical payload and returns at
   once; the staged revision and its event stay and the next projection shows them.
3. **A repeated exclusive start executes its body again** (`task_retry`,
   `runtime_v2/task_coordinator.py:312`). When the run of the key has ended, every
   step of the second start is answered as a repetition and the body runs under a
   terminal run that no other start sees as active. "Callers that need retry
   deduplication supply an explicit request/idempotency key"
   (`runtime_v2/native_ports.py:3757`).
4. **A second prepare undoes a cutover** (`activation_rerun`,
   `migration/v2_coordinator.py:526`). The failure handler returns every manifest
   that is not `V2_BUILDING` to `V1_ACTIVE`, without a generation; a prepare that
   waited behind another driver's fails because that one has made the batch ready.
   "A migration or validator error keeps the manifest in `V2_BUILDING`"
   (`docs/v2/phase2-migration.md:49`).
5. **Content is shown ahead of its evidence** (`memory_leak`, `memory/store.py:832`).
   An edit with evidence is hidden until the evidence is durable only if the item it
   writes is active; of a row that is shown the edit is staged (`:830`), but the row
   that counts is that of the transaction, and the item is what was read before. An
   update of a tombstone read while it was shown, written after a stale write has
   returned the row to `building`, is neither staged nor hidden: its content is shown
   at once, and its evidence is still queued. It takes four revisions. "Evidence
   publication must not leak un-evidenced atoms."
   (`tests/test_evidence_publication_atomicity.py:1`). Automatic merges pass over such
   atoms (`runtime_v2/organizer.py:1436`), updates that name their atom do not
   (`runtime_v2/organizer.py:897`), nor would merges into atoms of low confidence or
   in conflict, statuses the model does not have.

Met while modelling, without a run of their own:

- *Memory.* `replay_revision` (`memory/store.py:1984`) serves a staged revision as
  soon as a write without evidence follows it, although its evidence may never be
  projected. A supersession that was compensated leaves its edge: requested again
  it meets the edge and returns as "an identical no-op" (`memory/store.py:1544`),
  with the old atom active. An event whose projection always fails keeps
  `set_visibility` refusing, for the whole database (`memory/store.py:1814`).
- *Boundary.* A failed restore writes back every atom that was active before, over
  a tombstone another caller has a receipt for (`governance_v2/boundary.py:734`).
  An atom that supersedes itself is not refused (`memory/store.py:1530`): both rows it
  read get the same next revision, the second is written over the first, and the
  history has no revision that says "superseded".
- *Lease.* The fingerprint of a check is that of the files on disk
  (`runtime_lease.py:677`): with an upgrade in place an old process identifies
  itself by the new files, and a new one is granted beside it. `RuntimeLease` with
  `InPlace = TRUE` and `OneSite` shows it.
- *Tasks.* Two processes that both find no active run both start one: the lock of
  `start_scope_exclusive` is of one process (`task_coordinator.py:279`). A run whose
  write to `running` is refused stays queued while its process lives, is focused
  by every later start and cannot be cancelled (`task_coordinator.py:389`).
- *Activation.* A verdict DRIFT is none of the failure states of
  `record_checkpoint_attempt`, so a later PASS of the same batch is dropped and the
  batch cannot become ready (`system/manifest.py:914`). A lock file left by a dead
  driver is removed by nobody (`migration/workspace_prepare.py:518`), so that every
  later prepare fails, while `docs/v2/phase2-migration.md:26` retains the state "so
  crash recovery can resume the same batch".
- *Sweep.* (a) An error after the content commit but inside its `try`
  (`blob_sweep.py:409`) takes the intents back and fails the job though the blobs
  are gone. (b) A failure to record the PASS report or the end of the job
  (`blob_sweep.py:588`) fails it, with a report that says nothing was deleted.
  (c) A blob that loses its last reference between the two epochs stays MARKED; a sweep
  interrupted after its commit can then never be reconciled
  (`blob_sweep.py:460`), against line 446: "so an identical replay can reconcile
  it". (d) A second process that replays the request of a
  job under way takes back intents or fails the job. (e) After the lease
  is taken anew, or the generation has moved, the identical request is refused and
  the ACTIVE job stays. (f) A content stored again before the replay makes the
  recovery conclude that the deletion was not committed. `SweptWereDeleted` and
  `DeletionsAreAnnounced` hold through all of these; `FailedKeepContent` names (a), (b)
  and (d) as its exception (`disturbed`).

## What is proved

All theorems are proved by TLAPS for every value of the constants, from the
named assumptions on them (finite instances are not used, and no fairness).

| Module | Theorem | Property |
|---|---|---|
| `RequestFence_proofs` | `TypeCorrect`, `MutatesAtMostOnce`, `ReceiptsAreHonest`, `RefusedHaveNoReceipt`, `HoldersAreAlone`, `ClaimsStayFinal` | `TypeOK`, `AtMostOneMutation`, `ReceiptMeansMutated`, `NoReceiptForRefused`, `OneHolder`, `ClaimsAreFinal` |
| `RequestFence_proofs` | `FenceImplementsPromise` | the fence refines `GovernedRequest` |
| `MemoryPublication_proofs` | `MemoryTypeCorrect`, `EvidenceBeforeReceipts`, `NothingShownUnprojected` | `TypeOK`, `ReceiptsAreBacked`, `ShownHasReceipt` |
| `MemoryPublication_proofs` | `HistoryKept`, `RevisionsGrow`, `LedgerHoldsTheRow`, `NewestIsPromoted` | `HistoryIsKept`, `RevisionsAdvance`, `LedgerAgreesWithRow`, `NothingStagedBehind` |
| `MemoryPublication_proofs` | `ShownContentIsEvidenced` (content changes by import and merge only) | `ShownBodyIsEvidenced`, of which `ImportedBodyIsEvidenced` is the instance |
| `GovernanceBoundary_proofs` | `BoundaryIsFenced`, `MutationsAreFenced` | `FencesRequests`; with it `AtMostOneMutation`, `ReceiptMeansMutated` and `ImplementsPromise` |
| `GovernanceBoundary_proofs` | `ReceiptsTellTheHistory` (no supersession among the requests) | `ReceiptsAreRecorded` |
| `GovernanceBoundary_proofs` | `ReceiptsInTurnTellTheHistory` (with supersession; calls take turns, puts import, no atom supersedes itself) | `ReceiptsAreRecorded` |
| `GovernanceBoundary_proofs` | `CompensationUndoes` (calls take turns, puts import) | `CompensationRestores` |
| `GovernanceLock_proofs` | `LockTypeCorrect`, `OwnersHoldLock`, `LockIsExclusive` | `TypeOK`, `OwnerHoldsLock`, `MutualExclusion` |
| `RuntimeLease_proofs` | `LeaseUsesLock`, `LeaseTypeCorrect`, `GrantedKeepLeases` | the lock's `Spec`, `LeaseTypeOK`, `GrantedHaveLeases` |
| `RuntimeLease_proofs` | `OneBuildWrites` (no upgrade in place) | `NoSplitBrain` |
| `TaskCoordinator_proofs` | `TypeCorrect`, `OutcomesStay`, `StoppedProcessesStartNothing` | `TypeOK`, `OutcomesAreFinal`, `ShutdownStopsWork` |
| `TaskCoordinator_proofs` | `BodiesRunOnce`, `LiveWorkIsLeftAlone`, `StartsShareOneWorker` (no repeated exclusive start) | `ExecutedOnce`, `LiveWorkIsRunning`, `OneWorkerPerProcess` |
| `BlobSweep_proofs` | `TypeCorrect`, `ReceiptsAreOfDeletions` | `TypeOK`, `SweptWereDeleted` |
| `BlobSweep_proofs` | `AnnouncedDeletions`, `FailureKeepsContent` | `DeletionsAreAnnounced`, `FailedKeepContent` |
| `ActivationManifest_proofs` | `TypeCorrect`, `BatchesStayWhole`, `NoCutoverUnseen` | `TypeOK`, `BatchesAreWhole`, `CutoverOnMatch` |

**Why the invariants need strengthening.**

- *Fence.* "At most one mutation" is not inductive: a caller at `claimed` could
  commit a second time. `HolderInv` says that a caller past its claim owns the
  claimed row with its own token, so by `OneHolder` no second caller stands there;
  `HistoryInv` says how often the key was committed at each point. The refinement
  maps every step to a step of `GovernedRequest` or to a stutter.
- *Memory.* A client writes a row it read long ago. `ClientInv` says that an
  intention that would show an atom is of an atom that has a receipt (and receipts
  are never taken back, `Grows`), `StoreInv` that the ledger of an atom numbers
  its revisions from 1 and that the row is one of them; `ProjectorInv` that
  between the two commits the evidence is durable. Supersession needs that the
  rows it read are not ahead of the ledger (`ReadRow`). A supersession rewrites
  revisions of the two atoms it writes (run `memory_history`), so `Kept` says of a step
  that it keeps the ledger of every atom that it does not supersede, and the invariants
  below speak of atoms that no supersession has written. `Aligned` is the pair `LedgerAgreesWithRow` and
  `NothingStagedBehind`, which only hold together: the promotion writes the newest
  revision of an atom whose last link is settled, so the row is the newest where
  nothing is outstanding, and what was staged on the way left its link in the outbox
  (`Links`). For the evidence of what is shown, `BodyInv` follows each body from
  where it is noted: an intention either brings evidence and is active, or its body is
  queued already, and evidenced if the item is shown (`IntentionsBacked`); the same
  then is said of the ledger and of the rows. No step takes back evidence, or
  a link whose evidence is not durable (`Backs`). The intermediate claim that the
  *status* of a row says whether its body waits is false with named updates; looking for
  a proof is what found the leak that `memory_leak` shows.
- *Boundary.* `BoundaryIsFenced` is the composition argument: each step joined with a
  memory mutation is still a step of the fence, and the projector leaves the fence
  alone, so its theorems carry over. A receipt is written after its mutation, when
  others may have written the atom; that it is told by the history needs that ledgers only
  grow (`Follows`), which supersession, rewriting revisions, does not keep. And a put
  that changes nothing writes no revision: `StoreGood` says that the row of an
  atom is put together from revisions of its ledger, so that even such a put is told
  by an earlier one. `CallerInv` says of a caller that what it read still
  exists, that what it is to write back exists, and that from its mutation to its
  receipt the ledger tells of what it asked.

  The other two theorems assume that a call begins when no other is under way
  (`TakeTurns`; calls may still die anywhere, and projections come at any time) and
  that a put imports a new atom (`OnlyImports`; `boundary_correction` shows what a
  correction does). Then nothing is ever staged, `StoreSound`: a row is the newest
  revision of its atom, so that a projection changes visibilities only and a
  supersession appends. `TurnInv` goes along the call: what was read still is there
  until the mutation (`Unmoved`); after it every atom is as it was, but for those that
  the compensation writes (`AllBut`), and of these writing the row that was read restores
  body and status (`Undoable`) — of a restore, which writes back the status only, because the
  body never changed. For supersessions `EdgesTold` is needed besides: one that
  finds its edge writes nothing, so the edge itself must say that some revision
  tells of it.
- *Lock.* `AcquiringInv` ties the thread that polls the file to
  `acquiring_thread_id` of its process, `LockedInv` to the OS lock; with
  `OwnerInv` an owner's depth is its nesting.
- *Lease.* `LeaseUsesLock` is the composition argument: each step of the lease is
  a step of the lock or leaves it alone, so exclusion carries over. Under it
  `ReadInv` holds — what a thread has read inside the lock is what the file
  holds — and no upsert loses a lease. `OneBuildWrites` adds that a process's
  computed build is the one it runs, which is what an upgrade in place breaks.
- *Tasks.* That shutdown stops exclusive starts needs `StoppedAreQuiet`: in a
  stopped process no exclusive start is behind the check of the closed flag. That
  live work is left alone goes in four layers. `RunsHaveOneProcess`: from the start to
  the end of its thread an exclusive run belongs to one live process, its owner.
  `OnlyOrphansAreTaken`: who is about to cancel a run saw it before its owner was
  recorded, or its owner is dead, and stays so. `RunsBeginOnce`: the key of the
  transition to running is not answered before the thread has asked, so that
  `StateFollowsThread`: the state of the run is the one its thread has written.
  `ScansMissNothing` then says that a scan under the lock still has the working run of
  its process before it. All of these rest on ids that are not used again, `Retries =
  FALSE`; with retries `task_retry` shows `ExecutedOnce` to fail.
- *Sweep.* What a process did is in two databases, and another process may have read
  it in between. `Audits` says what is kept of the two epochs: the candidates are those
  of the second audit, the confirmed among them were in the first, and a process past
  both works on their intersection, which a recovery reads back from the candidates.
  `Receipts` goes on: a candidate is there or some sweep has deleted it; what a process
  still has to mark it knows to be gone, what it is done with is marked; and a receipt is
  never taken back. These hold whatever goes wrong, and give `SweptWereDeleted`. The
  other two theorems need `Alone`, which is claimed only while nothing has `disturbed` the
  requests: one process works on a request (`Unique`), so that it knows the state of the
  job (`KnowsJob`) and its marks (`KnowsMarks`) — while it announces, the announced are its
  `intents`, while it takes them back, those it is done with are no longer announced —
  and no job has deleted or marked anything before it is ACTIVE (`JobAlone`).
- *Activation.* An edge is safe when the batch that its driver names is the batch in
  force. Of a driver inside the preparation that holds because of the lock file:
  who is past `TakeLock` holds it (`HoldersAlone`, which an orphaned file does not
  weaken: nobody gets in), so between a begin and its verdict no other driver opens a
  batch (`WorkIsCurrent`). This is what makes the failure handler, which asks for no
  generation, name the right batch. The drivers without the lock are covered by the
  generation: who has read the one in force knows its batch (`KnowsGeneration`), and
  every edge makes older readings harmless by raising it. `KnowsMatch` says the same
  of the comparison: a driver about to enter READY or ACTIVE in the generation and
  for the batch in force has seen the copy equal the legacy stores.

**Model-checked only:** liveness (`EveryCallReturns`, `OverlapIsProjected`,
`AcquireEnds`, `RunsEnd`), which needs fairness and ENABLED. Every safety property of
the passing runs is stated by a theorem, some of them under the hypothesis that the
table names.

## Abstractions and limits

- Columns of an atom that no property tells apart stand behind `body`. An edit
  of any of them is an edit of the body. Every content comes with evidence of its
  own, so evidence is identified by the event that asked for it.
- Scope, ownership and access checks of the stores are left out: an instance is
  one scope whose callers may do what they ask.
- `Compensate` in `RequestFence` may or may not succeed, as its exception is
  swallowed; in `GovernanceBoundary` it is a write per atom, and the re-read of the row
  it edits is part of that write.
- `project_evidence` is split where the code commits. `project_batch` is one
  transaction that makes all of a batch durable or none.
- An evidenced edit that is staged and then followed by a plain edit of the shown
  row loses the plain edit when it is promoted, and the reverse: the newest
  revision wins whole. The model does this too; it is stated of no property, as
  no line of the repository promises otherwise.
- The lease file can always be read. A file that cannot counts as empty in the
  code (`runtime_lease.py:585`) and would lose leases.
- Whether a pid is alive, and whether it was reused, is decided correctly
  (`IsLive`); the platform probes behind it are not modelled. The two builds
  of an instance are interchangeable, so TLC starts the first installation with the first.
- A `KeyboardInterrupt` while `acquire` polls leaves `acquiring_thread_id` set;
  from then on no thread of that process acquires the lock, each is told at its
  deadline. The model shows both.
- A process of `TaskCoordinator` is an instance: a pid is not reused, and
  `_owner_is_live` answers correctly. Nodes, blockers and tool references of working
  memory are not written by the coordinator and left out; so is progress, whose
  writes change no state of the run.
- The migration of a batch is one step that succeeds or fails; its checkpoints are
  those the drivers read. Digests are identified with the content they are of.
- An audit epoch of the sweep is one step: the scan of all databases reads one
  state of the content database, and what is found is compared in the deleting
  transaction again. The safety port (quiescence, backups) is an interface without an
  implementation in the repository; writers are not stopped in the model.
- `decision_outbox` is written and never read in the repository
  (`governance_v2/boundary.py:367`), so there is no progress to state of it.

## Not modelled

The package has 242 implementation files, most of which transform data or talk to
a host. The models cover the protocols *between* transactions; they therefore
touch a small share of the lines, in the files that hold the protocols.

- **Transactions** (`storage/transaction.py`): nesting and rollback-only marks of one
  connection. Sequential; the stores of the models enter one transaction at a time.
  The hazard at line 127 (a nested failure in a borrowed transaction is forgotten)
  stays uncovered.
- **Rule reconciliation and merge**: scoring, normalisation and formatting of rules
  around a job queue. The queue (`rule_reconciliation.py:357`) is what a
  model would be worth; its hazard is listed without a property.
- **Further stores** (content, assets, skills, knowledge): the outbox pattern of
  `memory/store.py` again, without staging or supersession.
- **V1 migration content, projections, retrieval, code graph**: one-off or
  derived data, computed sequentially.
- **Hosts, MCP, CLI, GUI**: dispatch and formatting around the stores, without durable
  state of their own.
- Of the modelled parts: undo, unlink and deduplication of the boundary (undo checks
  the state, mutates and updates the decision in three transactions without a claim,
  `governance_v2/boundary.py:864`); direct evidence operations; migrations of old
  schemas; the compaction and the reports of maintenance; pid probes.

## Running it

In this directory: `tlc -config RequestFence.cfg MCRequestFence` and likewise for
the runs that `PROJECT.json` lists; `tlapm RequestFence_proofs.tla` for the
proofs.
