# Flair: specifications, model checks and proofs

Flair is a memory server for agents: resources of a Harper component
(`resources/`), a command line and daemons (`src/`), and client packages
(`packages/`). Its hard part is that many writers meet on the same rows of a
store without compare-and-set: requests on several worker threads, maintenance
jobs, federation peers and whole processes that may die at any step. This
directory models that part in TLA+, checks it with TLC on small instances and
proves its main properties with TLAPS for every instance.

## 1. Inventory

| Part | State it keeps | Operations | Interacts with |
|---|---|---|---|
| Memory write lock (`resources/memory-write-lock.ts`) | per-id keys in Harper's primary store; token registry; per-worker unknown-outcome markers | `withMemoryWriteLock`, `...Once`, `admitLockedScope`, `markMemoryWriteOutcomeUnknown` | every writer of Memory |
| Locked transactions (`resources/memory-write-transaction.ts`, `request-transaction.ts`) | scope phase, admitted writes, confirmations, gates, one Harper transaction | `withLockedMemoryTransaction`, `admitLockedMemoryWrite` | opened on a lock token; used by Memory |
| Memory resource (`resources/Memory.ts`) | the Memory rows | PUT, PATCH, POST, DELETE, checked writes | both of the above, usage, dedup, embedding |
| Write-back (`resources/write-back.ts`) | none; one row per call | `writeBackCommittedRow` | usage, backfills, federation merge |
| Usage ledger (`resources/usage-recording.ts`) | MemoryUsage rows, `usageCount` | `recordUsageContribution`, batches, citations | write lock, key lock, write-back |
| Instance identity (`resources/instance-create-lock.ts`) | lock directory of claim files, Instance rows, keystore | `acquireInstanceCreateLock`, `findOrCreateInstance` | GET /FederationInstance on all workers and processes |
| Replay store (`resources/replay-store.ts`) | ReplayNonce rows with expiration, per-key locks, per-thread memory | `knownReplay`, `claim`, `recordOnce` | agent auth, federation, OAuth, XAA |
| OAuth (`resources/OAuth.ts`, `XAA.ts`) | codes, tokens, clients | authorize, redeem, rotate, revoke | single-use claims of the replay store |
| Migration lock (`resources/migrations/lock.ts`) | lock file, guard directory, per-process maps of owned and abandoned records | acquire, recover, take over, touch, release | boot of every process on every host that shares the data directory |
| Migration runner (`resources/migrations/runner.ts`, `state.ts`, `visibility-backfill.ts`) | state file, unconfirmed ids, ledger events, rows without the migrated value | detect, batches, completion gate, guarded state write | migration lock, write lock, write-back |
| Federation sync (`src/commands/federation.ts`, `src/lib/federation-retry-queue.ts`, `resources/Federation.ts`) | peers, cursor (`lastSyncAt`), retry rows | pair, push, split, merge | Memory rows of spoke and hub, write lock, write-back |
| Config critical section (`src/lib/config-critical-section.ts`) | lock file, temp file, config | `atomicReplace` under a lock | CLI, doctor |
| Capture spool (`packages/flair-mcp/src/capture-spool.ts`) | bounded spool file, lock with stale takeover | append, flush | hooks of several processes |
| Skill and instruction versions, candidate promotion | version chains, candidate status | version write, promote | locked transactions |
| Retrieval, embedding, presence, events, MCP/A2A surfaces, CLI | indexes, rows | queries, simple row writes | Memory |

Behaviours that are hard here, with the lines where they bite, are the
`hazards` of `PROJECT.json`: overlapping id sets, scopes that nobody awaits, a
commit that resolves but does not land, crashes between two transactions,
directory listings that are stale when read, requests delayed between a check
and a claim, eviction racing a late request, a lock taken over from a process
that still runs, a success recorded on an old count, a row that commits below a
cursor, a merge that ends after its sender has given up, a PUT that commits
after the lock it took is free again.

What makes the parts correct: a group of writes is atomic and no other group
comes between its decision and its commit; an answer tells the truth about the
store; a use is counted once; one identity is minted; a signed request passes once; a migration that is
recorded as done is done; a memory that is shared reaches the hub, a private one
does not, and an old version never replaces a new one; nothing waits for ever.

## 2. Modules

| Module | Models | Composition |
|---|---|---|
| `MemoryWriteLock` | the lock: one action per step of `acquire`, token, scope bookkeeping, markers, restart | |
| `AtomicMemory` | abstract: a group of writes applied in one step, each decided on a row no other group has replaced since; single puts from outside land at any moment | |
| `LockedTransaction` | scopes, admission, gates, commit, confirmations | extends `MemoryWriteLock`, implements `AtomicMemory` |
| `WriteBack` | `writeBackCommittedRow` on one row against writers without a lock | |
| `UsageLedger` | contributions: lock, ledger row, count | extends `WriteBack` |
| `InstanceCreateLock` | file ticket lock, critical section, process deaths | |
| `ReplayStore` | window check, guard memory, check-and-record, eviction, restart | |
| `MigrationLock` | the lock file and its guard, one action per file-system call | |
| `MigrationRunner` | the cycle, the visibility backfill, the state file | extends `MigrationLock` |
| `FederationSync` | the push of memories from a spoke and their merge at the hub | |
| `MC*` | constants for TLC | |
| `*Proofs` | theorems | |

Actions correspond to the code between two points where another actor can run:
an `await`, a directory listing or file operation of another process, a commit.
`map` in `PROJECT.json` names the lines of every definition. Operators called
"Mutant of X" just before X are X with a plausible mistake; each property is
violated when the mutant takes X's place.

### Abstractions
* Row contents are reduced to what the properties tell apart: which write a row
  holds (`LockedTransaction`), its incarnation, count, marker and stamp
  (`WriteBack`).
* JavaScript runs to completion. The synchronous part of `acquire` excludes
  calls of the same worker (`LoopFree`), not those of other workers.
* The embedding call made under the lock is part of the running callback.
* `LockedTransaction` is not closed to the locked scopes: a `Puts` commit stands for
  the writers the lock does not hold back. A put composed into its caller's
  transaction commits after its key is released, and other Memory writers do not
  take the lock yet (`resources/memory-write-lock.ts:23-33`). Such a commit may
  land at any step. Where it lands between the begin and the commit of a scope's
  transaction, Harper keeps either row and the commit resolves. `AtomicMemory`
  has these puts too, and promises against them only that a group's row is kept
  out by nothing but a put its writes were not decided on.
* One Harper transaction is stored as a whole or not at all. That is assumed, and
  nothing here shows it.
* `usageCount` is an ordinary attribute of the row for every writer but usage
  recording: it is neither server-stamped nor an authority field, a PUT stores
  its body as the whole row (`resources/Memory.ts:3871`), and a merge copies the
  peer's count (`resources/Federation.ts:210`), although `schemas/memory.graphql:95`
  calls `recordUsageContribution` its only writer. `OwnerPut` and `ComposedCommit`
  therefore store any of `Counts`, 0 standing for a body without one, and the
  properties of the count are relative: `given` is the largest count such a write
  has stored, `start` the last one stored under the lock and the bumps that were
  in the row by then.
* In `UsageLedger` the ledger key lock is not a variable: the code takes it
  inside the memory id's lock, so it is never contended there.
* In `WriteBack` the other writers (a composed PUT with the count it read or
  another, a delete, a same-id replacement) may commit between any two steps. When one of them commits after
  the confirmation, the call's own commit resolves and either write is kept.
* A Harper commit that throws has stored nothing in `LockedTransaction` and
  `WriteBack`, as their callers assume; `ReplayStore` and `InstanceCreateLock`
  also allow that it was stored all the same.
* In `InstanceCreateLock` a listing of the directory is atomic (a concurrent
  rename shows the old or the new name) and the claims it named are read one by
  one. A pid is not reused while its claims exist. `flair init --remote`, which
  writes the row without the lock, is not modelled, and a dead claim is
  unlinked by whoever reads it.
* In `ReplayStore` signature verification is a nondeterministic outcome that
  takes at most `MaxDelay`. The code refuses `Retention <= 2 * Window`; the
  specification assumes `Retention > 2 * Window + MaxDelay`, because the window
  is not checked again when the nonce is claimed. With the shipped values (120 s
  and 30 s) a request may take up to 60 s between the two. What happens beyond
  that (`resources/agent-auth.ts:172`) is thus assumed away, not checked. The
  answer `replay` of a claim that lost the key's lock (`replay-store.ts:265`) is
  the state "contended"; `ReplayWasRecorded` is about remembered and recorded
  replays only.
* In `MigrationLock` age is not a clock: a file is fresh when written or touched
  and may grow stale at any later moment. Generations and inode numbers are
  small numbers that a new entry may take again once nothing names them, so that
  an inode that is reused is met too only after everybody has forgotten it. The
  history variable `stolen` records that a file of a live process was taken over
  by its age from another host, which the code documents as unfenced.
* In `MigrationRunner` the migration is the visibility backfill, whose gate counts
  and compares no envelope. A row is pending or not; its write is the write-back
  of `WriteBack` reduced to what a caller can learn: done, skipped, unconfirmed
  or thrown. Snapshots and ledger events have no effect on the cycle. The state
  file has one entry and is always readable: that a corrupt one is read as empty
  (`state.ts:65-79`), after which the next write replaces it, is left out.
* In `FederationSync` a version of a memory is its stamp, its kind (shared,
  private, or one the hub refuses for good) and the instance that wrote it.
  Whether two versions of one memory have the same content, which only decides
  between two terminal answers, is left open. The merge has the steps of its
  write-back: read and decision, lock and whole-row confirmation, commit. The
  lock does not keep out a put that joined another transaction
  (`resources/Federation.ts:1651`), so the hub's puts and deletes (`HubWrite`) come
  between any two of them, and after a crossing Harper keeps either row. Most
  writers of the hub do hold the lock until they commit; the model lets all of
  them cross. The read that verifies the commit is one step with it: a hub write
  between the two, like every retryable refusal and the failures behind them,
  like a conflict on fields outside the version and like a stamp more than five
  minutes ahead (`resources/federation-classify.ts:375`), is an outcome of
  `MergeUndecided`.
* There are two clocks: `now` is the spoke's, read by its server and its command
  line, which run on one host. The hub's writers stamp with theirs, so their
  stamps are arbitrary. They store shared versions only, so that a private one at
  the hub could only have come from the spoke (`PrivateStays`).
* `had` and `crossed` are histories: the memories whose version, or a later one,
  the hub has stored (its own writers may replace or delete it afterwards), and
  those a writer of the hub has committed between the confirmation of a merge
  and its commit.
* The order and the size of batches and halves are arbitrary. Stamps are ticks:
  several writes may share one. One run at a time, as under `flair federation
  watch`; the code says that runs in parallel are not serialised. Malformed retry
  rows, which the code reports and leaves as they are
  (`src/commands/federation.ts:1010-1019`), are left out.

## 3. Runs

| Run | Instance | Checks | Distinct states |
|---|---|---|---|
| `lock` | 3 calls sharing 2 ids, 2 workers, up to 2 attempts, 1 restart | type, `OpenScopeHoldsKeys`, `NoHoldAndWait`, `MarkedIdNotEntered`, `EveryCallAnswered` | 33 000 |
| `locked_tx` | 2 calls, 2 scopes, 3 writes, 1 put outside the lock | type, `AllOrNothing`, `UnawaitedFailureSurfaces`, `MismatchHasCause`, `ImplementsAtomicMemory` | 811 000 |
| `locked_tx_live` | 2 calls, 1 scope that writes one row twice and is given a write its token does not cover, 1 restart, fairness | `EveryScopeSettles`, `MismatchHasCause` with the scope's own overwrite, `CommitUnderKeys` | 137 000 |
| `write_back` | a counting and a stamping call, 2 other writes | type, `AnswerTellsStored`, `LandsAtMostOnce`, `EveryCallAnswers` | 786 000 |
| `usage` | 2 agents, one reporting twice, crashes, 1 owner's write or merge and 1 write without the lock, either with a count of 2 | type, `CountedOncePerAgent`, `CountWithinLedger`, `NoLostBump`, `LockIsReleased` | 1 129 000 |
| `instance_lock` | 3 GETs, 2 processes, any deaths | `OneHolder`, `TicketOrder`, `OneIdentity` | 1 680 000 |
| `instance_live` | 2 GETs, 1 failed listing, fairness | type, `EveryGetEnds` | 15 500 |
| `instance_fault` | 2 GETs, 1 failed listing | `OneRowMinted`: violated, see below | |
| `replay` | 1 request presented 3 times on 2 threads, a second request, eviction, 1 restart | type, `AcceptedOnce`, `ReplayWasRecorded`, `KeyLockReleased` | 450 000 |
| `migration` | 2 processes on 1 or 2 hosts, 2 cycles, 1 death, 2 failing calls, 1 ageing, 1 arriving row | type, `HandleOwnsPath`, `SuccessCovers`, `NoLostEntry` | 736 000 |
| `federation_sync` | 2 memories, 2 writes at the spoke or the hub, 2 ticks, 2 failures, fairness | type, `CursorCovers`, `PrivateStays`, `HubNeverGoesBack`, `EventuallyDelivered` | 1 039 000 |
| `federation_gap` | the same without failures | `NoMiss`: violated, see below | |

Why the bounds are enough to meet the interesting cases: two calls with
overlapping id sets of sizes one and two meet every partial acquisition; two
writes in a scope are the least that can be half stored; two attempts give one
retry and one exhaustion; three GETs allow a third to number itself between two
others; a request presented three times can win, contend and come late, and the
clock reaches the first tick at which its row may be evicted
(`Window = 1`, `MaxDelay = 1`, `Retention = 4`). Two processes are the least that
can take a file over from each other, and with one death, one ageing and two
failing calls a process meets what it or the other has left behind at every
step; two attempts at the guard are one recovery and one publication after it.
The same invariants were also checked once with three cycles (one failure, 2.2
million states) and with two rows (1.5 million). One put outside the lock comes
before, between or after the commits of both scopes and their confirmations; the
scope that writes a row twice, in `locked_tx_live`, is the other way to a mismatch.
With the uncovered write and all properties in the instance of `locked_tx` as well
(4 writes) the run was checked once (2.1 million states).
A count of 2 overshoots the ledger and overwrites bumps; a body that clears the
count as well (`Counts = {0, 2}`) was checked once (2.1 million states). Two memories are the least batch
that can be halved; two writes make a memory newer, private or gone while a run
is under way, and two ticks put a stamp below, at and above a cursor; a put or a
delete of the hub is one of the two, before, across or after a merge. The bounds
are `Attempts`, `MaxRestarts`, `MaxRaw`, `MaxPuts`, `Counts`, `Puts`, `MaxListFailures`, `MaxTime`,
`GuardAttempts`, `LockRounds`, `MaxCrashes`, `MaxFaults`, `MaxAges`, `MaxCycles`,
`MaxArrivals`, `MaxWrites`, and the sizes of the constant sets; the theorems hold
without them.

### Fairness
* Lock and scopes: a started call takes its next step and its callback
  settles: timers fire, the provider call is bounded (`boundLockedProviderCall`),
  Harper's commits settle. No call has to start and no restart has to happen.
* Write-back and usage: each started call runs on. Other writers need not.
* Instance lock: started GETs run on and deadlines pass (`LOCK_DEADLINE_MS`).
* Replay store: a request that arrived runs on.
* Federation: `runFederationWatch` starts one run after the other and every call
  of a run has a timeout (`SenderStep`), the hub works on the requests it has
  (`HubStep`), and a backoff passes (`BackoffEnds`). Requests may be lost and runs
  may stop up to `MaxFaults` times; a merge nobody waits for goes on and ends
  (`LateStep`), its calls being those of a request that is waited for. The hub's
  and the spoke's writers need not write, and a write that has begun need not commit.
* Migrations: none. A cycle that is refused is not repeated before the next boot,
  so the code promises no progress, and nothing is claimed.

`CHECK_DEADLOCK FALSE` is set in every configuration but those of federation,
whose runs never end, because each system may
stop: every call has been answered, every GET has ended or died, and no bound
allows another restart or another writer. That nothing stops earlier is what the
liveness properties say.

### What the violation runs show
`instance_fault`: `nextTicket` answers 1 when the directory cannot be listed
(`resources/instance-create-lock.ts:215`). A contender that numbers itself while
another holds the lock with ticket 1 or more then gets a ticket that may sort
first, holds the lock too and mints a second Instance row, against the comments
at lines 208 and 381. `listClaims` handles the same failure safely: the poll does
not find the contender's own claim and waits. All other properties of the lock
are stated for `listFailures = 0`.

`federation_gap`: the comment at `src/commands/federation.ts:842` says that taking
`queriedAt` before the queries misses nothing, because what is written during the
run is stamped later. `Memory.post` and `Memory.put` stamp `updatedAt` first
(`resources/Memory.ts:2557`, `3585`) and commit after the authorisation, the scan
and the embedding. A memory stamped before `queriedAt` and committed after the
query is below the cursor the run stores, and is not selected again until it is
updated. `CursorCovers` says that this is the only way to miss one: the variable
`late` names the memories it happened to.

## 4. Proofs

All proofs are for arbitrary constants under the named `ASSUME`s.

* `MemoryWriteLockProofs`: `LockInv` adds to `OpenScopeHoldsKeys` that a call in
  its critical section holds every key it names under a live token, that a scope
  is open only while its callback runs or settles, that only calls inside hold
  keys, and that the marker check of a running attempt is not stale.
* `LockedTransactionProofs`: every step of the composition is a lock step, so
  `LockInv` carries over. An active scope keeps its keys, hence since its
  transaction began its rows have changed by puts only (`SnapshotHeld`), and what
  it decided on is that snapshot or its own staged row (`DecidedOnSnapshot`). So
  no other group wrote between the decision and the commit, which is the
  refinement `LockedScopesAreAtomic` (`Spec => Atomic!Spec`). The same holds of the
  confirmations, which come before the keys are released (`CommittedRowsStay`):
  a mismatch has one of the two causes `MismatchesHaveCauses` names.
  `ScopesAreAllOrNothing` and `RowsChangeUnderKeys` need no assumption about puts.
* `UsageLedgerProofs`: `CountWithinLedger` is not inductive because a composed PUT
  holds an older row. `UsageInv` bounds every copy of the count that anyone may
  still write, and says that one call at a time is past the lock and that a call
  past the claim owns its agent's ledger row. `BumpsAreNotLost` adds that the row a
  bump is planned on is the stored one while nothing bypasses the lock
  (`StagedOnCurrent`), and that the bumps in `start` have been stored
  (`StartStored`).
* `InstanceCreateLockProofs`: exclusion is proved from what looking at a claim is
  for: once `c` has passed `d` in its listing, `d`'s number comes after `c`'s or
  `d` has yet to take one and will see `c`'s ticket (`OrderOK`). Two holders
  would each come before the other. `StoreOK` follows the rows through the
  critical section and gives `IdentityIsUnique`, deaths included.
* `ReplayStoreProofs`: until a key's row may be evicted the row refuses the second
  presentation; when it may be, no presentation of the key can still be between
  the check and the claim (`KeptOK`, `ClaimsOK`).
* `FederationSyncProofs`: `HubIsNeverSetBack` needs that one merge at a time has a
  memory's lock (`LockAlone`) and that a confirmed merge finds the row it was
  decided on unless a writer of the hub has crossed it (`RowsConfirmed`). `PrivateMemoriesStay` follows a version from the query
  over the offer to every merge the hub may still hold (`OnTheWay`).
  `CursorCovers` is not inductive: `SyncInv` adds that a memory the query found
  and that is neither at the hub nor pending is still on offer (`Selected`), in
  the version the spoke has (`OfferCurrent`), that an answer that ends an offer
  means the hub has stored it (`Answers`, `HubHad`), and that what was committed since the query
  is above the cursor or late (`FreshCovered`). So when nothing is on offer any
  more, the cursor may move.
* `WriteBackProofs`: a call learns from the row whether its write was stored, and
  a composed PUT writes back a row it read earlier, marker included. `StoreInv`
  therefore follows the marker through every copy that may still be written
  (`MarkerTells`), and says that a counting call comes back to its next attempt
  only while it has stored nothing (`NothingStoredYet`). From it follow
  `AnswersTellTheStore` and `CountingWritesLandOnce`.
* `UnawaitedFailuresSurface` (in `LockedTransactionProofs`) needs that the failure of
  a scope left open stays with its call from the scope's settlement to the
  answer (`FailureIsKept`).
* `MigrationProofs`: `HandleOwnsPath` is not inductive, because the process that
  changes the lock file judged it in an earlier step. The judgement holds
  (`PathJudged`) because its process owns the guard meanwhile (`GuardOwned`), and
  the guard of a live process is not taken because an entry that is nobody's
  generation never becomes one again, as new entries are fresh also after a
  boot under the same pid (`UnlinkJudged`). `stolen` is the only exception, and all
  of this is claimed until then. One process at a time is then in a cycle
  (`CyclesAreExclusive`), so nobody writes the state file between another's read
  and rename (`EntriesAreNotLost`). `SuccessIsTrue` uses none of it: what a success
  counted is no longer pending and what is pending has arrived since, for every
  process that has a success still to record (`SuccessToCome`), so it also holds
  after a theft, with two cycles at once.

Every invariant and action property of the runs that pass, and the refinement of
`AtomicMemory`, is a theorem. Only model-checked are the liveness properties
(`EveryCallAnswered`, `EveryScopeSettles`, `EveryCallAnswers`, `LockIsReleased`,
`EveryGetEnds`, `KeyLockReleased`, `EventuallyDelivered`): the prover has neither
fairness nor `ENABLED` reasoning. The inductive invariants of `MigrationProofs` were
checked by TLC on the instance of its run before they were proved.

## 5. Plan

Done: `MemoryWriteLock`, `LockedTransaction`, `AtomicMemory`, `WriteBack`,
`UsageLedger`, `InstanceCreateLock`, `ReplayStore`, `MigrationLock`,
`MigrationRunner` and `FederationSync`, with runs and proofs.

1. OAuth on top of `ReplayStore`: code redemption, refresh rotation and revocation
   racing each other, a crash between claim and issue.
2. `ConfigCriticalSection`, `CaptureSpool`, version chains, candidate promotion.

## 6. Not modelled

Ranking, tokenising and embedding (numeric data), HTTP and MCP translation, the
command line's host I/O, client packages: listed in `PROJECT.json` with reasons.
The integrity-state custody code is not reachable from a command yet. Of the
migrations, the embedding stamp, the envelope gates, cycles of several
migrations and the ledger are left out; of federation, the other tables,
presence, pairing and signatures. The parts planned above are listed in
`PROJECT.json` as not modelled until their module exists.
