# A TLA+ model of postgres-rs

This directory holds TLA+ modules that model the concurrent and the durable
parts of postgres-rs, TLC configurations that check them on small instances, and
TLAPS proofs of the properties that hold for instances of any size. Definitions
are translated from the code under `src/`; `PROJECT.json` gives, for each of
them, the lines it stands for.

Run everything from this directory:

    tlc -workers 2 -config Locks.cfg MCLockServer
    tlapm LockServerProofs.tla

## The system

postgres-rs is a PostgreSQL-compatible server. Each connection is a thread that
runs a synchronous message loop (`crates/server/src/server.rs`); all threads
share one `Shared` structure with a mutex for each of: the database, the logical
WAL, the disk store, the backend registry, the listeners and the lock manager.

| component | state | operations | interacts with |
|---|---|---|---|
| lock manager (`engine/lock.rs`) | holders and waiters per object | try, grant, release, cycle search | called by backends under the lock mutex; a condition variable wakes waiters |
| backends (`server.rs`) | block status, cancel flag, running statement | LOCK TABLE, FOR UPDATE/SHARE, COMMIT, ROLLBACK, cancel, timeouts, disconnect | lock manager; the cancel flag is set by other threads |
| transactions (`server.rs`, `engine/storage.rs`) | private clone, buffered SQL, write set, savepoints; commit version and table stamps | BEGIN, statements, savepoints, COMMIT, PREPARE, autocommit | database mutex, then WAL mutex |
| logical WAL (`engine/wal.rs`) | one file of SQL text | append, open, replay | written by COMMIT and autocommit, read at start-up |
| physical WAL (`engine/disk/pwal.rs`) | segment files, next LSN | append, sync, roll, truncate, open, replay | written by CHECKPOINT |
| buffer manager (`engine/disk/buffer.rs`) | pool of frames, clock | get, new, mark dirty, evict, flush | heap file below, checkpoint above |
| disk store (`engine/disk/mod.rs`) | heap files, catalog | checkpoint, recover | CHECKPOINT statement, start-up |
| pages and heap (`disk/page.rs`, `disk/heap.rs`) | slots, free space, checksum | insert, delete, read, write | buffer manager |
| session loop (`server.rs`, `protocol`) | prepared statements, portals, skip-until-sync | simple and extended query, COPY | everything above |
| LISTEN/NOTIFY (`server.rs`) | listeners, notification queues | listen, unlisten, notify, deliver | three mutexes, disconnect |
| tables and indexes (`engine/storage.rs`, `index.rs`) | rows, ids, indexes, TOAST, sequences | insert, update, delete, truncate, vacuum | executor, autovacuum thread |
| executor (`engine/executor.rs`, `plpgsql.rs`) | none of its own | statements, constraints, triggers, queries | tables |
| SQL front end (`crates/sql`) | none | lexer, parser, serializer | WAL replay depends on the round trip |
| types, auth, bind, native | none, or one connection's | arithmetic, SCRAM, HBA, parameters, C calls | session loop, executor |

What is hard here: threads that interleave between two mutexes (COMMIT), waits
that can become circular (locks), events that arrive at any moment (cancel,
watchdog, disconnect), crashes between or inside writes (both WALs, checkpoints),
statements that fail half way (triggers), and long sequences of legal statements
(savepoints, failed blocks). The list with lines is in `PROJECT.json` under
`hazards`.

What makes each component correct: held locks never conflict, waits end and
never form a cycle; a block publishes exactly what it logs, undone work appears
nowhere, concurrent commits are not overwritten silently; what was acknowledged
survives a crash, in order, and nothing else does; the page cache is invisible;
a checkpoint is recovered exactly; later: rows and indexes agree, every request
gets exactly one ReadyForQuery, notifications go to the listeners.

## Modules

| module | models | checked by |
|---|---|---|
| `LockManager` | `lock.rs`: lock tables and the operations on them | through `LockServer` |
| `LockServer` (extends it) | backends as users of the lock manager | `Locks`, `LockLiveness` |
| `LockHistory` | `LockServer` and a record of what was granted | `LockCovering` |
| `CycleSearch` | `has_cycle` step by step | `CycleSearch` |
| `Transactions` | blocks, commits, autocommit, restart | `TxnBlocks`, `TxnDurability`, `TxnLostCommit` |
| `LogicalWal` | the bytes of the logical WAL as tokens; recovery | `LogicalWal`, `LogicalWalReopen` |
| `PhysicalWal` | segments, LSNs, truncation, reopening | `PhysicalWal` |
| `PageStore` | what a page cache promises (abstract) | refinement target |
| `BufferManager` | the LRU cache | `Buffer` |
| `DiskStore` | checkpoint, recovery, start-up | `Disk` |
| `LockServerProofs`, `BufferManagerProofs` | theorems | `tlapm` |
| `MC*` | constants and symmetry sets for TLC | |

**Locks.** `holders[o][p]` and `waiters[o][p]` are the mode of a backend on an
object, or `None`; the code's vectors hold at most one entry per backend, and
their order decides nothing. One turn of the loop in `acquire_lock` runs under
the mutex and is one action: `LockGranted`, `LockFailed` or `LockParked`.
A thread that is parked is woken by a notification or after 50 ms, so a retry is
always possible. `HasCycle` states what `has_cycle` decides; that the depth-first
search of the code, which may expand a node several times, decides just that is
checked in `CycleSearch` on every graph of four nodes.

**Transactions.** A writing statement is a number, and a table is the sequence of
the statements that were applied to it, which is enough to tell any two orders
and any lost statement apart. `Publish` is the part of COMMIT under the database
mutex; `AppendRecord` and `CommitReturns` are the part under the WAL mutex, which
is taken after the first was released. `Side` says which tables a statement
changes besides the one it names, by triggers or partition routing.
`PartialEffects` switches on statements that fail after they changed rows, and
`WalFails` appends that fail. The variables from `acked` on are history: no guard
reads them.

**Logical WAL.** The file is a sequence of tokens (SQL text, a fragment, semicolon,
newline). Recovery is what `parse_wal_statements` does: the whole file as a script
or, if that does not parse, the terminated records up to the first malformed one.

**Physical WAL.** A segment is a sequence of records and fragments; `Crash` loses
any part of what was not synced. That a created file stays in its directory is
assumed (the code does not sync directories).

**Buffer manager and page store.** `BufferManager` implements `PageStore` under the
mapping that shows a page as its frame, if it is resident, and as its page of the
file otherwise. `PageStore` changes a page only in `Modify`, which flips `parity`:
without it, a page that the cache lost could pass for an edit of the caller. The
first I/O error ends the use of the pool, as it does in `checkpoint`.

**Disk store.** CHECKPOINT rewrites heap files in place, one table after the other,
and then the catalog; a crash or an error can come between any two steps. A file
that is not finished holds some of its rows, or a page that fails its checksum.

## Runs

Runs that pass:

| run | bounds | shows |
|---|---|---|
| `Locks` | 2 backends, a table in 3 modes, a row, 3 wait policies, savepoints, cancel, timeout | held locks never conflict; no circular wait; no stale queue entry; a lock leaves an open block only if the block fails or ends, and table locks never outlive it |
| `LockLiveness` | 2 backends, 1 table, 1 row | a cancelled wait returns; every wait returns, if clients leave |
| `CycleSearch` | every graph of 4 nodes, every order | the search is right and ends |
| `TxnBlocks` | 2 sessions, 2 tables, 2 levels, 2 savepoint names, a trigger, late failures, 4 clock ticks | copy, buffer and write set agree; undone work is nowhere |
| `TxnDurability` | 2 sessions, 2 levels, PREPARE, autocommit, failing appends, late failures, 1 crash, 4 ticks | no unseen update of a block is overwritten; what was reported is logged; blocks are logged contiguously and in order |
| `LogicalWal` | 5 statements, 3 crashes, split literals, both kinds of fragment | acknowledged statements survive up to the first damage; nothing is invented |
| `PhysicalWal` | 5 records of 3 sizes, segments of 4 units, failing writes, 2 crashes that tear records | what was readable when synced replays, in order; its LSNs are not reused; segments are bounded |
| `Buffer` | 2 frames, 3 pages, 3 contents, failing writes | the cache implements the page store; pool bound, clean frames, distinct ticks |
| `Disk` | 3 tables of which 2 share a file, 4 statements, 2 crashes, failing checkpoints | recovery gives the last checkpoint exactly; without checkpoints all that was committed |

The bounds let each mechanism happen at least once together with what can disturb
it: a pool that evicts a dirty page and reads it again, a record that exactly
overflows a segment and one that alone exceeds it, two savepoints with a repeated
name, a block of two statements and an autocommit statement that overlap, two blocks
of one snapshot that write the same table. A clock tick is a writing statement or a
BEGIN. Cycles through more than two backends are left to the proof of `DeadlockFree`
and to `CycleSearch`.

Three runs end in a violation. They show where the code and what the repository says
of it differ; `PROJECT.json` quotes the text under `findings`.

| run | what happens |
|---|---|
| `LockCovering` | one mode per backend is kept, so a second mode can uncover the first |
| `TxnLostCommit` | COMMIT puts back its snapshot of tables it did not write |
| `LogicalWalReopen` | a record appended behind a torn one is lost at the restart after the next |

## What the properties leave out

The passing properties are stated as exactly as the code allows. Each of the following
is part of a model, and a property says less than one might hope because of it:

* A lock request that fails releases all locks of its backend, and ROLLBACK TO then
  revives the block without them: `LocksStayInBlock` lets a failing step release.
* FOR UPDATE outside a block leaves its row locks behind: `TableLocksInBlock` is about
  tables only.
* Autocommit statements leave no stamp, and tables changed by triggers or partition
  routing are not in the write set: `NoLostUpdate` is about statements of blocks that
  name the same table.
* COMMIT releases the database mutex before it takes the WAL mutex, so a statement that
  ran later can be logged earlier: no property states WAL order across sessions.
* A block has no commit record, so a crash in COMMIT recovers a part of it:
  `RecoveredPrefix` says which.
* ROLLBACK PREPARED undoes nothing, so its work is not in `undone`.
* Rows of a statement that failed in its triggers stay in the working copy, or in the
  shared database outside blocks, and are never logged: `partial` sets them aside.
* A failed append is acknowledged all the same: `unlogged` sets it aside.
* A literal that holds the separator stops prefix recovery, and a fragment that is a
  statement is executed: `Damaged` and `NothingInvented` name both.
* Records of the physical WAL behind a torn one are never read and their LSNs are given
  out again: `durable` holds what could be read when the sync returned.
* A victim whose write fails is lost: `PageStore` promises nothing after an error.
* A checkpoint replaces what the logical WAL gave even if it is older; one that fails or
  is cut short has already damaged the previous one: `CommittedRestored` and
  `CheckpointRecovered` say when they apply. Tables whose names differ only in
  characters that `heap_file_name` replaces share a file: `Alone`.

## Fairness

Only the lock runs use it. `Scheduling` is weak fairness of a thread that executes a
statement: the operating system runs it, and `wait_timeout` wakes it after 50 ms even
if a notification is missed (the NOWAIT and cancel paths notify nobody).
`ClientsLeave` is strong fairness of disconnecting; it is an assumption about clients,
not about the server, and only `EveryWaitReturns` uses it. `CycleSearch` assumes that
the loop runs.

## Proofs

`LockServerProofs` (any number of backends and objects). The inductive invariant `Inv`
is the conjunction of types, compatible holders, live queue entries, and the absence of
a cycle. Live queue entries are needed because a grant can add edges towards the backend
that is granted: it must be known that this backend is not queued elsewhere, so that no
new edge leaves it and no cycle can pass through it. From `Inv`: `HeldLocksCompatible`,
`DeadlockFree`, `QueueEntriesLive`; and the action property `LocksKept`. `TableLocksEnd`
adds to the types the fact that a statement with tables still to lock runs in an open
block (`TablesNeedBlock`): without it a grant could give a table lock to a session that
has no block to release it.

`BufferManagerProofs` (any pool size, page count and contents). `CleanFramesCurrent`:
clean frames equal the file, also after failed writes. From it `CacheRefinesStore`:
initial states map to initial states and each step to a step of `PageStore` or to a
stutter, the eviction of a clean frame being a stutter because of the invariant, and a
step that returns an error being its `Fail`. `PoolWithinCapacity` needs finiteness of the
pool.

Only model-checked: liveness (fairness and ENABLED are outside the prover), the
transactions, the two WALs, the disk store and `CycleSearch`.

## Plan

1. Slotted pages and the heap file: slots, free space, reuse; `BufferManager` with them.
2. Session loop: simple and extended query, skip until Sync, COPY, cancel and watchdog
   with the effect of the statement; one ReadyForQuery for each request.
3. LISTEN/NOTIFY, the backend registry and ConnGuard; the order of the mutexes.
4. Table storage: rows, stable ids, indexes, unique keys, TOAST, vacuum; an abstract
   table that it implements. Sequences and advisory locks.
5. Executor: INSERT, UPDATE, DELETE, ON CONFLICT, MERGE with their checks; joins, set
   operations, grouping, windows and recursive queries against reference definitions.
6. Row codec and catalog text, COPY text and CSV, numeric arithmetic, serializer round
   trip, SCRAM and HBA, PL/pgSQL control flow.
7. Composition of locks and transactions (FOR UPDATE returns rows read before the wait).
8. Proofs: types, `CopyMatchesBuffer`, `NoUndoneWork` and `NoLostUpdate` of
   `Transactions`; `SyncedReplays` and `ReplayInLsnOrder` of `PhysicalWal`;
   `CheckpointRecovered` of `DiskStore`; the table refinement.

## Not modelled

Native C functions (memory shared through unsafe pointers), text, JSON, date and regular
expression functions (no state), the grammar of the parser beyond what recovery needs,
the command line and the benchmark. `base_backup` copies files only and so skips the
`pwal` directory; the catalog is written without a sync. Both are noted here and not
modelled.
