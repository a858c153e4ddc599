# A verification project for the self-codex orchestrator

The repository is an MCP server that orchestrates child processes, plans,
graphs, coordination primitives and a search pipeline (`src/src`, TypeScript,
one Node.js process). This directory holds TLA+ models of its stateful parts,
TLC configurations that check them on small instances, and proofs that TLAPS
checks for all instances. Paths below are relative to the repository's root,
`src/`; so `src/graph/tx.ts` is `src/src/graph/tx.ts` in `PROJECT.json`.

1. The system
2. What is modelled, and how it corresponds to the code
3. What is checked, and on which instances
4. What is proved
5. What the checks found
6. What is not modelled, and the plan

---

## 1. The system

### How it runs

Everything runs on one event loop. A handler that does not `await` is atomic;
interleavings happen at awaits (worker threads, child processes, files, timers)
and, above all, between calls: a client's session is a sequence of calls, and
nothing prevents another client from calling in between. A synchronous handler
is therefore one action here, a handler with an await is one action per stretch
between awaits, and a session is as many actions as it has calls.

### Components

| component | code | state | operations | what is hard | what makes it correct |
|---|---|---|---|---|---|
| graph locks | `graph/locks.ts` | locks by graph and by identifier | acquire, release, refresh, assertCanMutate, describe | lazy expiry; two indexes | indexes agree; unexpired leases exclude each other; the gate enforces them |
| graph transactions | `graph/tx.ts` | committed states, live transactions, snapshot trackers | begin, setWorkingCopy, commit, rollback, reads | optimistic concurrency, expiry, retries | first committer wins; retired once; the disk lags within the policy |
| graph tools | `tools/txTools.ts`, `graphBatchTools.ts`, `graphDiffTools.ts`, `graphLockTools.ts`, `graph_apply_change_set.ts`, `graph_snapshot_time_travel.ts`, and `graph_mutate`, `graph_rewrite_apply` in `orchestrator/runtime.ts` | none of their own | one handler each | sessions, an await inside a transaction, every failure path | locks shield the graph; no transaction is left behind; the resources tell the truth |
| resources | `resources/registry.ts` | graph versions, transaction snapshots, run and child histories, watches | record…, mark…, read, watch | bounded histories, watch cursors | published follows committed; a watch misses nothing it does not announce |
| worker pool | `infra/workerPool.ts` | active workers, availability, statistics | execute, destroy | timeouts, late messages | at most max workers; every call is answered once |
| idempotency | `infra/idempotency*.ts` | entries, pending promises, ledger, offsets | remember, get, set, purge, load | concurrent joiners, crash and reload, compaction | one execution per key; a replay answers what the execution answered |
| breaker and restart policy | `infra/circuitBreaker.ts`, `children/supervisionStrategy.ts` | breaker state, back-off, restart times | tryAcquire, succeed, fail, acquire, recordCrash | results that settle in another state; sleeps | half-open bound; quota per minute |
| child supervisor | `children/supervisor.ts`, `childRuntime.ts` | runtimes, index, watchdogs, exits | create, register, send, cancel, kill, gc | checks before awaits; exit racing readiness | limit respected; states follow the process |
| plans | `executor/planLifecycle.ts`, `cancel.ts`, `loop.ts`, `reactiveScheduler.ts`, `bt/` | run snapshots, cancellation handles, queue of events | pause, resume, cancel, tick, emit | control callbacks awaited; re-entrant ticks | a finished run stays finished; cancellation reaches everyone |
| events | `events/`, `eventStore.ts` | history, sequence, stream buffers | publish, list, subscribe | bounded buffers, nested publication | order by sequence; loss only by overflow |
| coordination | `coord/` | entries with ttl, calls and bids, field | set, bid, award, vote, mark, evaporate | expiry, ties, batch rollback | one award per call; batches are atomic |
| search jobs | `search/jobStore*.ts` | jobs, journal, index | create, update, list, gc | journal and lock file across restarts | a job never moves back |
| transport | `httpServer.ts`, `http/`, `rpc/`, `mcp/`, `infra/budget.ts` | token buckets, budgets, sessions | one per request | refunds, timeouts racing answers | nothing is consumed below zero or refunded twice |
| the rest | `agents`, `knowledge`, `values`, `learning`, `memory`, `monitor`, `planner`, `validation`… | data and metrics | | little concurrency | data-dependent |

The graph subsystem is the core that most tools reach: it has the sessions, the
locks, the versions and the audit trail, and its rules are spread over a dozen
handlers. The components whose rules cross an await come next: the idempotency
ledger, the child supervisor with its restart policy, the reactive plans, and the
event feeds that clients read back.

### How the graph parts interact

A tool asks `GraphLockManager.assertCanMutate`, calls
`GraphTransactionManager.begin` on a descriptor (the caller's or the committed
one), records a pending snapshot in `ResourceRegistry`, edits a copy, validates
it, asks the lock manager again, commits, marks the snapshot and records the
version; on any failure it rolls back and marks the snapshot. The managers know
nothing of each other or of the registry: the consistency of the three is the
tools' work, which is why it is checked there.

### How the other parts interact

* `httpServer.ts` asks `FileIdempotencyStore` for an answer, hands a miss to the
  orchestrator, writes the answer to the socket and then stores it. The store is
  ahead of its file by a queue of writes; a compaction is one more write in the
  queue; a restart reads the file back.
* `ChildSupervisor.createChild` prepares a sandbox, asks
  `OneForOneSupervisor.acquire` for a ticket (which consults the circuit breaker
  and may sleep), starts the process, registers it and waits for its ready
  message. Meanwhile the runtime's listeners report messages and exits to
  `ChildrenIndex`, an idle watchdog runs, and tools send, cancel, kill and collect.
* `plan_run_reactive` builds a `ReactiveScheduler` (events to ticks of the
  behaviour tree, drained by a microtask), an `ExecutionLoop` (an interval that
  awaits `runUntilSettled`), a cancellation handle and an entry of
  `PlanLifecycleRegistry`, whose pause and resume call back into the loop.
* `pushEvent` numbers an event in `EventStore`, publishes it on `EventBus` (which
  has numbers of its own), records it in the run's history of `ResourceRegistry`
  and in the run's bucket of the `LogJournal`. Each has a bounded window and a
  reader that pages with a cursor.

---

## 2. What is modelled

| module | stands for |
|---|---|
| `GraphContext` | clock, deadlines and graph identifiers, shared by the two managers |
| `GraphLocks` | `GraphLockManager` |
| `GraphTransactions` | `GraphTransactionManager` |
| `VersionedStore` | abstract: what optimistic transactions promise |
| `GraphTools` | the tools, composing the two managers and the registry |
| `IdempotencyStore` | `FileIdempotencyStore`, with crashes and reload |
| `HttpIdempotency` | the idempotent part of the HTTP handler, over the store |
| `CircuitBreaker` | `CircuitBreaker`, as functions of its state |
| `RestartSupervision` | `OneForOneSupervisor` for one key, over the breaker |
| `ChildSupervisor` | `ChildSupervisor`, `ChildrenIndex` and the child runtimes, over the restart supervision |
| `ReactiveScheduler` | `ReactiveScheduler` over any behaviour tree |
| `PlanLifecycle` | `PlanLifecycleRegistry` for one run |
| `ReactivePlan` | `plan_run_reactive`: the two above with the loop, the time limit and the cancellation |
| `CursorFeed` | abstract: what a feed paged by a cursor promises |
| `EventFeeds` | `EventStore`, `EventBus`, run histories, log buckets and their readers |
| `GraphLocksProofs`, `GraphTransactionsProofs`, `GraphToolsProofs`, `IdempotencyProofs`, `LedgerProofs`, `ChildSupervisorProofs`, `ReactivePlanProofs`, `EventFeedsProofs` | theorems |
| `MCGraphLocks`, `MCGraphTransactions`, `MCGraphTools`, `MCHttpIdempotency`, `MCChildSupervisor`, `MCReactivePlan`, `MCEventFeeds` | instances for TLC |

`GraphTools` extends the two managers' modules, so their variables are shared and
their actions are used as they are. So do `HttpIdempotency`, `ChildSupervisor` and
`ReactivePlan` with what they compose. `GraphTransactions` instantiates
`VersionedStore`, and `EventFeeds` instantiates `CursorFeed`, under a refinement
mapping.

### State

* `locksByGraphId`, `locksById` are the two maps of the manager. `NoLock` is an
  absent key. `acquiredAt` and `refreshedAt` are only reported and left out.
  `issuedLocks` and `openedTx` are what `randomUUID` has returned: it does not
  repeat itself. `leases` is history: what each holder was last told.
* `states`, `transactions`, `snapshotTrackers` are the three maps of the
  transaction manager. A descriptor is a version and an opaque *content*. The
  code compares descriptors by their JSON text, so two layouts of one graph (the
  same keys in another order) are two contents; `Canonical` is what sorting the
  attributes makes of a content, `Stamp` what adding the commit time to its
  metadata makes of it. `commits` and `persisted` are histories: the commits that
  changed a graph, the versions handed to `snapshotTake`.
* `snapshots` and `published` are the registry's `graphSnapshots` and the
  versions of `graphHistories`. `inFlight` is the continuation of a handler that
  awaits. `calls` is history: which tool opened a transaction, and whether it
  reported a change.
* Idempotency: `entries` and `methodKeyIndex` are the store's maps, `writeQueue` the
  chain of promises behind `writeQueue`, `ledger` the file line by line, and
  `unterminated` says that its last line lacks a newline. `phase` and `offset` are
  the loop of `loadFromDisk`. `promised` and `durable` are histories: what callers
  were answered, and the part of it whose write was reported done. `damaged`
  records that a crash cost the file an answer as fresh as the durable one, which a
  truncating rewrite can, or that an append spoiled a line without its newline.
  `FileAfter` is the file once some of the queued writes are done.
* Children: a creation is one call of `createChild` or `registerHttpChild` and
  names the process it starts; `creations` says at which await it stands.
  `runtimes`, `logicalChildren`, `index`, `keyed` and `watchdogs` are the maps of the
  supervisor and of `ChildrenIndex`, and `ended` the children whose record there has an
  `endedAt`. `forced` are live processes being killed by force. A process is `"unread"`
  when it has exited in the middle of a line, which its runtime keeps in `stdoutBuffer`
  until a tool flushes it. `down` is an uncaught error that ends the process,
  `collectedAlive` a history of what `gc` removed.
* Breaker and restarts: `breaker` and `backoff` are records with the fields of the
  code; `restarts` is the list of restart times.
* Plans: `queue` is a number of events, as ageing lets any of them go first;
  `waiter` is the promise of `runUntilSettled`; `loop` and `loopTick` are the
  execution loop; `outcome` is `runPromise`; `calls` are the pauses and resumes that
  await their control.
* Feeds: `seq`, `busSeq`, `runLast` and `lastSeq` are the four numberings;
  `perJob`, `history`, `runHistory` and `bucket` the four windows, as sets of
  numbered entries. `cursor`, `got`, `published` and `caughtUp` belong to the
  readers; `stream` is the iterator of `watchStream`.

### Actions

Each public method is an action of its manager's module and each handler an
action of `GraphTools`. A call that is refused changes what its checks changed
before they refused: the lock manager prunes an expired lock (`Inspect`,
`RefusedCall`), the transaction manager drops an expired transaction
(`DropExpired`, `ExpiredCall`); else it changes nothing and is a stutter.

One-call tools (`graph_mutate`, `graph_rewrite_apply`, `graph_patch`,
`graph_batch_mutate`, restore) begin and commit or roll back with nothing in
between, and are one action, `OpenAndClose`, whose second branch is the failure.
The edit itself is any content (`target`), so that every outcome of the
operations, patches or rewrite rules is covered; what is kept of it is how it moves
the version and the layout, which is where the tools differ:
`handleGraphMutate` and the rewriter sort and add one to the version when
something changed, `graph_patch` leaves the version to the commit,
`graph_apply_change_set` keeps the layout the patch left.

`graph_apply_change_set` is split at the await of its worker
(`ChangeSetBegin`; then `ChangeSetCommit` or `ChangeSetRollBack`), and restore at
the await of its log append (`RestoreLogged`). Between the two halves any other
call may run, including `tx_commit`, `tx_apply` and `tx_rollback` on the very
transaction, whose identifier `sc://snapshots` shows.

The store's actions follow its queue: `Set` publishes in memory and queues an
append, `AppendDone` and `RewriteDone` take the head of the queue and do what the
awaiting code does next (counting, and asking for a compaction). `Crash` ends the
process at any point of the write in progress, and leaves of it nothing, all, all
but the newline, or a part (`CrashLeavesFile`); `ReadLine` and `ParseLine` are one turn of the loading
loop. A failed append is a crash: its rejection is not handled, and Node ends the
process.

A creation has one action per stretch between awaits: `CreateChild`, `Acquire`
(ask the breaker, compute the wait), `Start` (wake up, record the restart), then
`SpawnFails`, `SpawnedDuplicate` or `Spawned`, then `Ready` or `ReadyTimeout`, then
`TornDown`. An HTTP child takes `RegisterHttpChild`, `IndexHttpChild` and
`OpenHttpChild`, and `PreparationFails` is a sandbox, a directory or a manifest that
cannot be written. `Message` and `Exit` are the listeners, `ReadLate` the flush of
`child_collect` or `child_stream` on a child that has exited, which reaches the same
listener. `Sent` is the end of a send, whose beginning changes nothing; `Stop` is cancel
and kill, `Gc` the collection. Any of them may come at any await of any creation.

In `ReactivePlan` a microtask is an action that is enabled until it has run, and the
macrotasks (`LoopTimer`, `Timeout`) wait for `NoMicrotask`. Tools and reconcilers,
which do I/O, may end at any time. `LoopTimer`, `LoopTickContinues` and
`LoopTickEnds` are a tick of the loop, `TreeTickBegins` and `TreeTickEnds` one of the
tree, `Cancel`, `Pause`, `Resume` and `ControlAnswered` the control tools,
`CallReports` and `CallReturns` the end of the call with its finally block.

In `EventFeeds` a publication (`PushEvent`, `LogJsonRpc`) and a page (`Watch`,
`Tail`, `ReplayPage`) run without interruption, as the code does; `StreamTurn` is a
turn of the iterator's loop, which waits between `StreamNext` and `StreamResumes`.

### Abstractions

* A handler reads `Date.now()` several times; within an action `now` is one
  instant.
* Identifiers and holders are trimmed and non-empty, as the schemas demand.
  ttls are integers: the schemas refuse fractions.
* Idempotency keys of `tx_begin` and of the batch replay a stored answer without
  touching this state; the in-memory idempotency registry is in the plan.
* The logs (`recordGraphWal`, `recordOperation`) are written and never read; only
  the append that restore awaits inside its `try` can change what follows, and is
  modelled. The same append awaited in `graph_batch_mutate` and
  `graph_apply_change_set` after a commit changes no state when it fails: their
  rollback finds no transaction and throws before marking the snapshot.
* The cache of graph computations is invalidated by edits and read by none of
  these handlers: left out.
* A cache key of the ledger is one of a few, told apart by its idempotency key
  (`MethodKey`) and its payload; an answer is opaque. The offset index beside the
  ledger is written and never read.
* One supervision key: `createChild` derives it from the command, and the breakers
  of different commands share nothing. A process that exits before its runtime is
  attached is recorded when it is, the same as exiting just after.
* A tick of a behaviour tree has an outcome: it throws, ends the tree, or leaves it
  running. Which one is any, so that every tree is covered.
* Of an event only its level is kept, "info" or not, as the bus tells no more
  apart when it evicts; the readers filter on it.

---

## 3. What is checked

### Fairness and deadlock

The locks and transactions never make anyone wait: an operation that cannot
proceed is refused at once, so nothing is owed eventually and no fairness is
assumed there. Elsewhere:

* `HttpIdempotency`: weak fairness of `ReadLine` and `ParseLine`. Loading is
  synchronous; nothing can preempt it.
* `ReactivePlan`: weak fairness of the microtasks, of the continuations, and of the
  ends of ticks and reconcilers (a tool that never ends is not the scheduler's
  fault). Strong fairness of `LoopTimer`: the timer is disabled while a microtask is
  pending, but the event loop drains them again and again. Events, controls,
  cancellations and the time limit get none. In particular `plan_cancel`
  does not rest on a timer that never fires: its run has no time limit.
* `EventFeeds`: weak fairness of `StreamResumes`. The resolved promise is awaited by
  the iterator and always continues; nobody owes a publication or a request.

Deadlock checking is on where the system never stops (`locks`, `transactions`,
`tools`, `idempotency`, `preview`, `batch_noop`, `ledger_reload`). It is off for
`children` and `child_limit` (creations are finite, and an uncaught error ends
the process), for `plans` and `plan_cancel` (a run ends), and for `feeds` (events
are bounded and an iterator may be over).

### Runs

| run | question | instance |
|---|---|---|
| `locks` | do the indexes, the leases and the gate agree? | 2 graphs, 2 holders, 3 identifiers, ttls absent, 1 and 3 capped to 2, clock 1..5 |
| `transactions` | is optimistic concurrency right, and does it refine the store? | 1 graph, 3 transactions, 2 contents, ttl 2, snapshots every 2 commits or 2 instants, begins at versions 1..3, clock 1..3 |
| `tools` | do the tools keep the three components consistent? | 1 graph, 2 holders and anonymous callers, 1 lock, 2 transactions, 3 contents of which one is invalid and one unsorted, clock 1..2 |
| `preview` | is `preview_version` reachable? (no) | 1 holder, 1 transaction, 4 contents |
| `batch_noop` | does a no-op batch keep the version? (no) | 1 holder, 2 transactions, 4 contents |
| `idempotency` | is what was answered replayed, through compactions and a crash? | 2 handlers, 3 cache keys of 2 idempotency keys, 2 answers, ttl 2, compaction every 2 appends, clock 1..3, 1 crash |
| `ledger_reload` | does loading end? (no) | 1 handler, 1 key, 1 answer |
| `children` | does the breaker keep its slots, the index the truth, and the process its life? | 3 creations under 1 identifier, no limit, every threshold 1, quota 1; time passes only while somebody sleeps (`MaxNow` 1) |
| `child_limit` | does the limit hold? (no) | 2 creations, 2 identifiers, limit 1, the rest as in `children` |
| `plans` | do the scheduler, the loop and the lifecycle agree, and does a run end? | 3 queued events, 3 controls under way, a time limit |
| `plan_cancel` | does a cancelled run without a time limit return? (no) | as `plans`, without the time limit |
| `feeds` | do the readers lose only what is announced, and wake? | 4 events, windows of 2, pages of 1, filters on errors, on everything and on infos |

Bounds, and why they suffice:

* `MaxNow` bounds the clock. Two instants let a lock or a transaction of ttl 1 be
  live and expired; five let a lock be granted, expire, be refreshed late with a
  capped ttl, and expire again.
* `LockIds`, `TxIds` bound the identifiers, and so the number of acquisitions
  and of transactions. Three locks are a past holder, the present one and a bystander
  on another graph. Three transactions are two that race and one that
  follows the winner. With two in `tools`, one is the session or change set
  in flight and the other whatever interferes.
* `MaxVersion` bounds the version a client may bring to `begin` and the working
  copies that can still be edited; commits go one further.
* Locks and transactions of different graphs share only their identifiers, so one
  graph is enough where identifiers are not the point; `locks`, where they are,
  has two, and `VersionsMoveByCommit` is proved for any number.
* `idempotency`: two payloads under one key are a conflict and a bystander; two
  appends reach the threshold, and the clock lets an answer expire between being
  stored and being compacted. Two handlers are what it takes to execute one key
  twice. One crash is followed by a load, whose result must be as good as the
  memory before it; a second crash would begin from a store that the first left.
* `children`: three creations under one identifier are a winner, a loser whose
  catch block reaches for the winner, and a third that comes after. With a
  threshold of one every failure opens the breaker and every success closes it, so
  all its states are met in few steps; the theorems hold for any thresholds.
* `plans`: three events are one being processed, one that the loop's tick brings
  and one that arrives meanwhile; with three controls a pause, a resume and another
  pause overlap.
* `feeds`: with windows of two, four events push out read and unread entries,
  infos and errors; pages of one make every reader turn twice. One client at a time
  suffices, as clients only read.
* Symmetry: holders, graphs, locks, transactions, requests, answers, creations and
  child identifiers are interchangeable, as no operator compares them but for
  equality; contents are not, being told apart by `Stamp` and `Canonical`. No run
  that checks liveness uses it.

Properties:

* `LocksTypeOK`, `TxTypeOK`, `ToolsTypeOK`: types, with what is not obvious in
  them: a ttl within the cap, a commit time for every seated graph, a final
  version exactly on the snapshots shown as committed.
* `IndexesAgree`, `LeaseExclusion`, `GateMatchesLeases`: the lock manager.
* `OneWriterPerVersion`, `CommitRetires`, `VersionsMoveByCommit`, `SnapshotLag`,
  `ImplementsStore`: the transaction manager.
* `LockShield`: while a graph is locked its committed descriptor changes only in
  the holder's name, even through sessions opened and change sets started before
  the lock was taken. `graph_rewrite_apply` is exempt, because the code never asks
  the lock there.
* `AuditTrail`: what `sc://snapshots` says of a transaction is what became of it.
  A restore whose log append fails is exempt: its handler marks the snapshot as
  rolled back after the commit.
* `NoOrphanTransaction`: a live transaction belongs to a session or to a change
  set in flight.
* `PublishedFollowsHead`: every committed version can be read, none above the
  committed one can.
* `RetryIsReplayed`, `MemoryKeepsPromises`: a retry is not executed while its answer
  lives, and is replayed as it was answered, across compactions and restarts.
  `LedgerCatchesUp`: when its queue has drained, the file says what the memory says.
  `FingerprintsMatch`: a key is bound to one payload exactly while an answer is held.
  A loss that a truncating rewrite or a torn append causes (`damaged`) is exempt.
* `SlotsAreHeld`: a half-open breaker counts no slot that nobody holds.
  `DeathIsOnRecord`: a record without an end belongs to a live process that is listened
  to, or to an HTTP child open, being opened or left without its manifest.
  `OnlyCollectionKills`: no listener throws, unless `gc` took a live child away.
* `NoLostWaiter`, `NoTickOnceOver`, `PausedMeansStopped`: a tick that waits is
  remembered, a run that is over is still, a paused run has no timer.
  `SettledRunReturns`, `TerminalIsReported` are its liveness.
* `LosslessPaging`: three readers of two histories refine `CursorFeed`.
  `ReplayIsComplete`: a finished replay holds what the job's window holds.
  `ErrorsOutliveInfo`: the bus loses an error only when it holds nothing else.
  `StreamIsWoken`: an iterator never sleeps on an entry it could give.

Each property of a passing run has a mutant: a plausible mistake in a definition
under which TLC finds the property violated (`PROJECT.json`, `mutants`; the
mutated forms stand before the definitions they vary).

---

## 4. What is proved

For every set of graphs, holders, identifiers, ttls and contents, any policy and
unbounded versions and clocks (the bounds `MaxNow` and `MaxVersion` are
constants the theorems do not depend on):

`GraphLocksProofs`
* `LocksTyping`, `LocksIndexesAgree`, `LocksExclusion`, `LocksGate`, each
  `LocksSpec => []P`.
* The inductive invariant is `LockInv`: types, `IndexesAgree`, and `LeasesFiled`
  (every lease that is still live is the lock filed under its identifier).
  `LeaseExclusion` is not inductive: it says nothing of the
  maps, and it is the maps that decide who acquires. From `LeasesFiled` a live lease
  is in the identifier index, by `IndexesAgree` it is then the entry of its
  graph, and a graph has one entry. The gate follows the same way.
* The step splits on the action; acquire, re-acquire and refresh share the lemma
  `FileKeepsInv`, acquire and inspect the lemma `PruneKeepsInv`.

`GraphTransactionsProofs`
* `TxTyping`, `TxOneWriter`, `TxCommitRetires` from `TxInv`: types,
  `RecordsGrounded` (a live record stands on a seated graph, at or below its
  version, and has an issued identifier), and the two properties. An active record
  is what a commit starts from, so without `RecordsGrounded` the step of
  `Commit` cannot be made.
* `TxSnapshotLag` from `LagInv`, which adds `TrackersGrounded` (a graph with a
  tracker is seated, and its last snapshot is not in the future).
* `TxVersionsMove`: `TxSpec => VersionsMoveByCommit`.
* `TxRefinement`: `TxSpec => ImplementsStore`, by the mapping at the end
  of `GraphTransactions`: every action maps to a step of the store or to a stutter.

`GraphToolsProofs`, the composition
* `ToolsTyping`, `ToolsAudit`, `ToolsNoOrphan`, `ToolsPublished` from `ToolsInvariant`.
  `ToolsInv` is both managers' invariants and `AuditInv`, which says of each
  transaction (`Session`) that a live record has a pending snapshot with its graph,
  base and owner, that an unissued identifier has none, and who attends to it: an
  open session or the handler that awaits. The audit trail alone says nothing of what a
  handler finds when it resumes, so it is not inductive.
* The argument is about a transaction, not about a tool. The lemma `StepKinds` sorts
  the handlers into a few kinds of step (open, open and close, edit, commit, retire,
  idle); each kind is shown once to keep `Session` of the transaction it touches and
  to leave the others alone.
* `ToolsImplementLocks`: `ToolsSpec => LocksSpec`, by a step or a stutter each. What was
  proved of the lock manager so holds of the tools without another proof
  (`ToolsLeases`). The transaction manager cannot be reused that way, since a handler
  that begins and commits is two of its steps: `ToolsOneWriter` is proved on `ToolsInv`.
* `ToolsShield`: `ToolsSpec => LockShield`. A step that changes a committed descriptor
  names the transaction whose snapshot changes with it, and whose owner passed the gate.

`IdempotencyProofs`, for any keys, payloads, answers, lifetimes, thresholds, number of
handlers and of restarts
* `HttpTyping`, `OnePayloadPerKey` from `Typed`, which adds that a load has the store to
  itself and that one compaction at most is queued.
* `HeldAnswersAreGiven`, `RetriesAreReplayed` from `HttpInvariant`. The first is not
  inductive: a crash empties the memory, and what comes back is what the file holds.
  The invariant is about lines. Of two lines of a key, in the file, in the queue and in
  memory, the later lives longer and repeats the answer of the earlier one as long as
  that lives (`Behind`, `OrderInv`); no line is fresher than the memory (`FreshInv`); a
  queued rewrite carries every durable live answer, and those of the appends queued
  before it (`RewritesCover`); a load reads lines that agree with what is durable
  (`LoadInv`). A step takes lines from one place to the next and keeps their order.

`LedgerProofs`
* `FileFollowsMemory`: `HttpSpec => []LedgerCatchesUp`, from that invariant and `HeldInv`:
  the line of every live entry is in the file or in the queue, with no rewrite after it.
* The property speaks of `FileAfter`, a recursive function of the queue. That the function
  exists (`FileAfterIs`), and that its value is an ordered file of exactly the lines that
  reach the end of the queue (`FileSettles`), is by induction on the number of writes.
  The library's induction takes an operator; here a set of numbers that holds 0 and the
  successor of each of its members is shown to be the whole interval
  (`NaturalInduction`), from the least number outside it.

`ChildSupervisorProofs`, for any number of creations and identifiers, any thresholds,
back-off, quota, limit and clock
* `NoDeathIsMissed`, `OnlyCollectionEnds` from `ChildrenInv`. It adds to the two
  properties what they rest on: a creation is listened to from `Spawned` on, and a
  child that lives and is listened to is in the index unless it was collected
  (`ListedInv`); a ticket is held only between `Acquire` and the end of its creation
  (`CreationsInv`). The lemma `GoesOn` covers the steps that touch neither a process
  nor the index, `OtherStates` those that change a state or record an end and nothing
  else, `ReportStep` what a child says, alive or read late.
* `NoSlotIsLost` from `SlotsInv`, which counts holders: `OneMoreHolder` when an
  attempt is admitted, `OneHolderLess` when its ticket settles, `SameHolders`
  otherwise. Under them are lemmas about the breaker's functions: none makes it
  half-open with a slot taken, and a half-open success gives back at least one.
* `ChildrenTyping` from `ChildTypesInv`: each function of the breaker gives a breaker that
  counts within its thresholds, a delay doubles within its bounds, and pruning the
  restart times leaves times that have passed.

`ReactivePlanProofs`, for any queue and any number of controls, with or without a
time limit
* `PlanTypeCorrect`, `WaiterNeverLost`, `OverRunIsStill` from `RunInv`. It says
  when a drain may be scheduled, and that a tree that ended, a settled promise and a
  cancellation each imply a stopped scheduler; the last is what refuses the events.
* `PausedRunStopped` from `ControlInv`. While controls overlap, it is the one
  called last that says what the timer does; the property alone, which speaks
  only of no control under way, is not inductive.

`EventFeedsProofs`, for any windows, page sizes and filters
* `FeedsAreLossless`: `FeedsSpec => LosslessPaging`. A step is a publication, a page
  of one reader, or a stutter of the feed (`Published`, `Reads`). The invariant
  `NumbersInv` says that every number given out, read or not, is at most the last of
  its history, so a new entry comes after everything; a window that slides loses
  what precedes all it keeps.
* `BusKeepsErrors` from `HistoryInv`: as soon as an error is missing, the history
  is errors only, and full. The second half is what makes it inductive.
* `ReplaysAreComplete` from `ReplayInv`: all that the window holds up to the cursor has been
  given. A page is a least set of entries after the cursor; that it exists and is the only
  one comes from the least number of a set of numbers.
* `FeedsTyping` from `LogsInv` and `ClientsInv`: a window that drops its oldest entry when it
  overflows stays within its limit, with distinct numbers.

Assumptions: those named in the modules (`ClockAssumption`, `LockAssumption`,
`NoLockAssumption`, `ContentAssumption`, `TxAssumption`, `NullAssumption`,
`ToolsAssumption`, `StoreAssumption`, `BreakerAssumption`, `RestartAssumption`, `ChildAssumption`, `QueueAssumption`, `CallsAssumption`, `TimeoutAssumption`,
`LimitsAssumption`): bounds and durations are numbers, creations are finitely many,
a null differs from what it stands in for, and a lifetime is not zero. TLC evaluates each on the instances
above.

Model-checked only: the liveness properties (`SettledRunReturns`, `TerminalIsReported`,
`StreamIsWoken`), as fairness and `ENABLED` are out of this prover's reach, and the
violations, each of which is one behaviour. Every other property of a passing run is
stated by a theorem.

Strengthening the invariants corrected the model twice. `damaged` missed, after
several restarts, the loss of a line fresher than the one reported written: it now asks
whether the file still gives an answer as fresh as the durable one (`Keeps`).
`pruneRestartHistory` drops old restarts from the front until it meets a recent one,
where the model filtered the list.

---

## 5. What the checks found

* `preview`: two `tx_apply` calls that change something leave a working copy at
  base + 2, because each adds one to the version of the copy it is given, and
  `commit` refuses anything above base + 1. The session can only be rolled back,
  while `tx_apply` answers `preview_version` = base + 1, "the optimistic version
  the graph would reach if committed" (`src/tools/txTools.ts:117`).
* `batch_noop`: a `graph_batch_mutate` of no-ops may publish a new version,
  against `docs/mcp-api.md:633`. It compares JSON text with a descriptor that it
  has sorted, and committed descriptors are not always sorted.

* `ledger_reload`: `loadFromDisk` continues without moving its offset past a line it
  cannot use, and reads it for ever, against the comment of
  `src/infra/idempotencyStore.file.ts:289`. A torn, an expired or a conflicting line
  suffices.
* `child_limit`: creations under way at once all pass the check of `maxChildren`
  before any of them counts, against `src/children/supervisor.ts:144`.
* `plan_cancel`: a run without a time limit that is cancelled between two ticks of
  its loop has nobody left to settle its promise; the call never returns and its
  operation stays registered, against `src/executor/cancel.ts:8`.

Some behaviours are kept in the model and are not called errors, as nothing in the
repository promises otherwise: `begin` replaces the committed content by the
caller's at the same version, even if the transaction is rolled back;
`graph_rewrite_apply` writes to locked graphs; a compaction truncates the ledger
before it writes it; two calls with one idempotency key both execute when neither
has answered yet; a creation that loses its identifier lets go of the winner's
runtime; collecting a live child lets its next message end the process; one crash
during a creation is counted twice against the breaker; callers that slept together
restart together, over the quota; the last line of a child that has exited, read late,
shows it as ready or idle again, while its record keeps its end; an HTTP child whose
manifest cannot be written leaves a record that says ready, with no session behind it
and no end; a tree that throws in a tick nobody waits for
leaves the run going; a pause that continues after the end shows a finished run as
paused.

---

## 6. What is not modelled, and the plan

`PROJECT.json` lists every component with its reason, and every known hazard with
the properties that watch it or the module of this plan that will.

1. *Idempotency in memory.* `IdempotencyRegistry` (entries, shared promises, expiry
   during a pending call) and `withIdempotency`.
2. *Plans.* `plan_run_bt` and `plan_fanout` over the same lifecycle and cancellation;
   the nodes of behaviour trees as recursive functions over small trees.
3. *Events.* `events_subscribe`, the bus's live streams and the SSE buffers over the
   windows of `EventFeeds`.
4. *Coordination.* `ContractNet`, `Blackboard`; consensus rules as operators
   checked against a definition.
5. *Pools and counters.* `GraphWorkerPool`, budgets, token buckets, search jobs.

The map covers a small share of the repository's lines because most of them are
tool façades, schemas, dashboards, text processing and scripts, which hold no
protocol; the plan takes the parts that do.

Out of reach or of little use here: parsing and extraction, scoring and learning,
metrics and dashboards, schema validation, process spawning and the network.
