# TLA+ models of minidb

minidb is a small relational database in Go. It has a SQL front end, MVCC
snapshot isolation, a slotted-page heap behind an LRU buffer pool, a write-ahead
log, and ARIES crash recovery. This directory holds TLA+ models of its parts,
the TLC configurations that check them, and `PROJECT.json`. That file maps every
model definition to the source lines it translates, and lists the runs,
mutants, findings and hazards.

## 1. The system

| Component | Source | State | Operations |
|---|---|---|---|
| Transaction manager | `src/unnamed/part_006` (`txn.Manager`) | `nextTxnID` (atomic), `activeTxns`, `globalXmin`, per-transaction status, snapshot and command id | `Begin`, `Commit`, `Rollback`, `createSnapshotLocked`, `updateGlobalXmin`, `NextCommandID` |
| Snapshot visibility | `src/internal/txn/mvcc.go` | Snapshot `{Xmin, Xmax, ActiveTxns}` | `isTxnVisible`, `IsVisible`, `IsVisibleForUpdate` (never called); `MVCCStore` is an in-memory copy that the executor writes and never reads |
| SQL executor | `src/internal/sql/executor.go` | `currentTxn` per executor | `Execute`, `executeBegin`, `executeCommit`, `executeRollback`, `executeInsert`, `executeSelect`, `executeUpdate`, `executeDelete`, `getTransaction` (autocommit) |
| Table heap and catalog | `src/internal/storage/heap.go` | first and last page per table, the catalog page | `Insert`, `Get`, `Update`, `Delete`, `Scan`, `CreateTable`, catalog `serialize`/`deserialize` |
| Slotted page | `src/internal/storage/page.go` | 4 KiB page: header, slot directory, tuple data | `InsertTuple`, `GetTuple`, `UpdateTuple`, `DeleteTuple`, `GetAllTuples` |
| Buffer pool | `src/internal/storage/buffer.go` | frames with pin count, dirty flag, LRU list | `FetchPage`, `NewPage`, `UnpinPage`, `FlushPage`, `FlushAllPages`, `evictOne` |
| WAL writer | `src/internal/wal/log.go` | `currentLSN`, `flushedLSN`, buffer, `txnLastLSN` | `Append`, `Force`, `Flush`, `LogBegin/Commit/Abort/Insert/Update/Delete/CLR/Checkpoint`, reopen (`findLastLSN`) |
| ARIES recovery | `src/internal/wal/recovery.go` | ATT, DPT | `analysisPhase`, `redoPhase`, `undoPhase` |
| Disk manager | `src/unnamed/part_003` (`DiskManager`, after the page tests) | file header with `numPages` | `AllocatePage`, `ReadPage`, `WritePage`, `readHeader` |
| Engine | `src/internal/storage/disk_test.go` (`Engine`, beside the disk tests) | the pool, WAL writer, manager, catalog and indexes it owns | `recover` with the `applyRedo`/`applyUndo` callbacks, `Checkpoint`, `Vacuum`, `CreateIndex`, `Execute`, `Close` |
| B-tree index | `src/internal/index/btree_test.go` (`BTree`, beside its tests) | nodes on buffer-pool pages, the root page id | `NewBTree`, `Insert` (with leaf and internal splits), `Search`, `Delete`, `RangeScan`, `ScanAll` |

**How the parts interact.** The shell feeds SQL text to one Executor. Each
statement runs in the current explicit transaction, or in an autocommit
transaction that `getTransaction` begins. A statement scans the table heap
through the buffer pool and filters the tuples with the transaction's snapshot.
A write inserts a version with `xmin = txn`, or sets `xmax = txn` on an old
version. Commit first flushes the data pages, then writes and forces a commit
record. Rollback marks the transaction aborted and leaves the heap alone.
Vacuum removes versions whose deleter committed below `globalXmin`. Recovery
replays the WAL into the heap through callbacks of the engine.

**Hard behaviours.**
- Concurrent `Begin`s: the id is taken before the manager's lock.
- Two writers on one version: there is no write-write check.
- Aborted writes that stay in the heap.
- Autocommit statements that fail halfway.
- Vacuum's horizon.
- The order of data-page writes and log forces.
- A crash at any point, including during recovery.
- Checkpoint-seeded recovery state.
- Failed or partial log flushes, and a flush no caller asked for when the
  WAL buffer fills.
- B-tree splits that cascade to a new root, and deletes that never merge.

**What makes each part correct.**
- **Transaction manager and snapshots:**
  - snapshot isolation: no dirty reads, and repeatable reads;
  - first writer wins;
  - aborted writes invisible;
  - every running transaction held by a session.
- **Executor:** one visible version per row.
- **Vacuum:** it never removes a version a running transaction sees.
- **WAL:**
  - the durable log is a prefix of the appended log;
  - a commit is durable when Commit returns;
  - the prevLSN chain;
  - the WAL rule (a page is written only after its log records).
- **Recovery:**
  - committed transactions survive;
  - losers are undone exactly once, including across crashes during recovery.
- **Buffer pool:** pin balance, and no pinned page is evicted.
- **Heap and page:**
  - a scan returns exactly the table's live tuples;
  - slot and data areas do not overlap.
- **B-tree:** balanced and ordered after every operation; a search finds
  exactly what was last inserted under a key and not deleted since.

## 2. Modules

1. **`Mvcc`** (with `MCMvcc`): manager, visibility, executor and vacuum over one
   table, with sessions as threads or serialized. Section 3.
2. **`WalRecovery`** (with `MCWalRecovery`): the WAL writer, the buffer pool's
   fetch, eviction and flushes, the commit path, a checkpoint, crashes at any
   step, and ARIES analysis, redo and undo. Sections 4 and 5.
3. **`Heap`** (with `MCHeap`): the slotted page's byte layout, the table heap's
   page growth and scan over two tables, and the catalog across a restart.
   Section 6.
4. **`MvccStore`** (with `MCMvccStore`) and **`AbstractStore`**: the
   multi-version store `txn.MVCCStore` under the manager's snapshots, and
   the abstract committed-state store it is checked to implement. Section 7.
5. **`BTree`** (with `MCBTree`) and **`AbstractIndex`**: the B-tree's insert
   with splits, delete, search and scan, and the key-to-row-id map it is
   checked to implement. Section 8.

Not yet modelled, in the order they would be worth doing: the link between
heap and index (`CreateIndex`, Vacuum's index rebuild, lookups by key in the
executor); `RestoreTuple` in `MvccStore`, with the recovery that calls it.

## 3. `Mvcc`: what is modelled

- **Constants:**
  - `Sessions`: executors sharing one manager and heap.
  - `TxnIdBound`: the largest id allocated.
  - `MaxTuples`: the heap size.
  - `StatementLock`: when TRUE, statements are serialized as spec section 5
    requires. When FALSE, sessions are threads and only each statement body is
    atomic.
  - `VacuumEnabled`.
- **State:**
  - the manager's `nextTxnID` and `activeTxns`;
  - every id's status and snapshot;
  - the heap as a sequence of tuples `[xmin, xmax, live, row]`, where `row` is a
    ghost naming the logical row a version belongs to;
  - per session, `currentTxn`, a `pc`, and the transaction being begun or
    autocommitted.
- **Actions:**
  - `Manager.Begin` is split into `ExecBegin`/`AutoBegin`, which take the id
    with the atomic add, and `BeginLocked`, which takes the snapshot under
    `m.mu`.
  - A statement body is one action: `ExecInsert`, `ExecSelect`, `ExecUpdate`,
    `UpdateFails` (heap.Insert failing at the k-th match), `ExecDelete` and
    `StatementError` (an error return after `getTransaction`). The autocommit
    `Commit` at the end is part of the action (`Finish`).
  - `ExecCommit` and `ExecRollback`.
  - `Rejected`: parse errors, unknown tables, BEGIN twice, COMMIT or ROLLBACK
    without a transaction; it changes nothing.
  - `Vacuum`: the reclaim loop of `Engine.Vacuum` (disk_test.go). Its index
    rebuild is not modelled here; `IsTxnCommitted`, which it calls, is
    defined nowhere under `src/`, and the model reads the status the manager
    keeps.
- **Abstractions:**
  - A WHERE clause is any subset of the visible tuples.
  - Page and slot positions are the tuple's index.
  - WAL and buffer-pool calls made inside these handlers do not change
    visibility, and are left to `Wal`.

### Runs

| Run | Config | Result | What it shows |
|---|---|---|---|
| `vacuum_xmin` | 2 sessions, ids 2..5, 3 tuples, serialized, vacuum | violation of `VacuumKeepsVisible` | VACUUM tombstones a version that a running transaction's snapshot still returns |
| `ww_conflict` | 2 sessions, no vacuum | violation of `RepeatableRead` | DELETE has no conflict check: an older transaction overwrites a committed newer deletion's xmax, and a third transaction sees the row come back |

**`vacuum_xmin` in detail.** `Engine.Vacuum` reclaims a tuple whose xmax
committed and is below `GetGlobalXmin()`. Its comment reads "invisible to
all active txns". `globalXmin` is the oldest *running* id, though, not the
oldest snapshot horizon. In the counterexample:
1. T3 and T4 begin, so T3 is in T4's active set.
2. T3 deletes the row and commits.
3. `globalXmin` is now 4 and the tuple's xmax is 3 < 4, so VACUUM
   tombstones the version that T4 still reads.

Spec 4.7 states the same rule, so the code and the spec share the gap.
`MvccStore`'s `GarbageCollect` uses the same horizon (section 7).

**No passing run.** `Mvcc` has no passing run in the manifest. The
isolation properties of spec 4.5 are each violated by the code:
- repeatable read, by `ww_conflict`;
- rollback, by `MCMvcc_rollback.cfg`;
- one version per row, by `MCMvcc_update_versions.cfg`.

A no-dirty-reads invariant that held would only say that a running
transaction's id is never visible to another snapshot. The dirty read of
the `ww_conflict` trace is an overwritten xmax, and is caught there.

**Further configurations.** Four cfgs are kept beside the runs of the
manifest. Three of them violate a property of `Mvcc.tla` after one or two
statements, which a short unit test would also show:
- `MCMvcc_rollback.cfg` violates `RollbackInvisible`. A rolled-back INSERT
  is visible to the next transaction: no snapshot remembers aborted ids, and
  the heap is not undone.
- `MCMvcc_single.cfg` (one session, the configuration the shell builds, with
  VACUUM) passes `TypeOK` and `RepeatableRead`. With one session, only leaked
  transactions run concurrently.
- `MCMvcc_update_versions.cfg` violates `OneVersionPerRow`. UPDATE never
  writes the old version's xmax back, so every UPDATE duplicates the row.
- `MCMvcc_orphan.cfg` violates `NoOrphanTxn`. An autocommit INSERT with a
  column count mismatch leaves its transaction active forever, which pins
  `globalXmin`.

Every cfg sets `StatementLock` TRUE. Spec 1 makes concurrent client threads
a non-goal, and the shell runs one statement at a time. With FALSE, the
model also allows `Begin`'s id allocation, which happens outside `m.mu`, to
interleave with another session's statement.

**Bounds.**
- Four or five transaction ids and three tuple slots are enough for every
  counterexample above. The longest needs five transactions in two sessions
  (`ww_conflict`, 13 states).
- With these bounds, UPDATE copies a row twice and the heap still has room.

**Fairness.** There is none: every property is a safety property.

**Deadlock.** Deadlock is checked. `Rejected` is always enabled, because the
shell can always receive a statement that fails before touching a transaction.

**Not modelled in `Mvcc`.**
- Command ids: no visibility rule reads them.
- `MVCCStore`: the executor only calls `RestoreTuple` and
  `RollbackTransaction`, and nothing reads the store. Section 7 models it on
  its own.
- The committed-txns set's pruning: vacuum here consults the transactions'
  statuses.

**Observed but not run.** The transaction's own writes are invisible to
itself, because Xmax equals its own id. Spec 4.5 promises read-your-own-writes.

## 4. `WalRecovery`: what is modelled

One table of fixed pages, one shell session (cmd/minidb is single-threaded),
the WAL file and its writer, the buffer pool and the data files, and a process
that may crash at any step, recovery included.

- **Constants:**
  - `Pages` (model values, symmetric), `Capacity` (buffer frames).
  - `TxnIdBound`, `MaxChanges` (rows written in the whole behaviour).
  - `MaxCrashes`, `MaxCheckpoints`, `MaxFlushFaults` (failed commit forces).
  - `ShortWrites`: whether a failed flush may leave a prefix of the buffer in
    the file, torn or at a record boundary, instead of the whole buffer.
  - `BeforeImages`: which writes occur. FALSE is an INSERT, whose record has
    no before image; TRUE is an UPDATE or DELETE, which logs the old row.
  - `AutoFlush`: whether an `Append` may be the one that fills the 64 KiB
    buffer and flushes it. Record sizes are abstracted, so with TRUE any
    append may flush.
- **State:**
  - `file`: the WAL file as a sequence of records; `Torn` is a record that does
    not parse.
  - `wal`: the `Writer`: buffer, `currentLSN`, `flushedLSN`, `txnLastLSN`,
    `maxTxnID`.
  - `store`: buffer frames (resident, dirty, page content, page LSN), the LRU
    list, and the data files' pages. A page's content is the set of change ids
    written to it.
  - `nextTxnID`, `cur` (the shell's current transaction), `phase` (run,
    analysis, redo, undo).
  - `att`, `dpt`, `rlog`, `toUndo`: the recovery manager's tables, the records
    it read, and undoPhase's worklist.
  - Ghosts for the properties: the `fate` of each incarnation of a transaction
    (running, committing, acked, failed, rolledback, crashed), the id of each
    incarnation, and the incarnation that wrote each change. Ids are reused
    after a crash, so the ghosts are indexed by incarnation.
- **Actions:**
  - `Begin` (`Manager.Begin` and `LogBegin`); `Write(p, img)` (heap write
    through the buffer pool, then the unforced `LogInsert`, or a record with
    a before image); `Select` (a table scan,
    fetching every page in some order, which is what drives eviction).
  - Commit is two actions, because `executeCommit` calls `FlushAllPages` and
    only then `Manager.Commit`: `CommitFlush`, and `CommitLog`, which appends
    COMMIT and forces it. The force either succeeds, or fails (a `Sync` error,
    or with `ShortWrites` a short write) and leaves the buffer in place; the
    transaction stays Running, and an explicit transaction stays current.
  - `Rollback` appends an unforced ABORT and leaves the heap alone, as the
    code does.
  - `Checkpoint`: `Engine.Checkpoint`. It flushes the WAL and all pages, then
    appends and forces the checkpoint record.
  - `Crash`: the restart builds a new `Manager`, so `nextTxnID` is 1 again.
  - `AnalysisPhase`; `RedoPhase` (redo and the undo worklist); `UndoStep`
    (one iteration of undoPhase's loop).
  - `RecoveryDone`: the final ABORTs, then the engine's post-recovery
    flush, then the id bump in `Engine.recover` (`RecoveredNextTxnID`). The
    bump calls `SetNextTxnID(max + 1)` and `Begin` pre-increments, so the
    first id after a recovery is max + 2, and id max + 1 is never used.
  - Redo's page-LSN test goes through the callback `Engine.recover`
    installs (`PageLSNCallback`). The callback calls `FetchPage`, so reading
    a page's LSN can evict the LRU frame and write it back if it is dirty.
    This happens before the redo itself.
  - Every append of `Begin`, `Write`, `Rollback`, `UndoStep` and
    `RecoveryDone` goes through `Appended`, `Append` with its auto-flush. The
    appends of `CommitLog` and `Checkpoint` are forced in the same step
    anyway.
  - `Idle`: a statement rejected before storage. It keeps the system from
    deadlocking when every bound is spent, which is what the shell does.
- **Abstractions:**
  - A log record keeps type, LSN, PrevLSN, transaction, page, change,
    UndoNextLSN, and whether it carries a before image. Image bytes and
    serialization are left out.
  - `RedoApply` is `Engine.applyRedo`. A data record adds its change. A CLR
    carries the before image of the record it compensates (`LogCLR`'s `data`)
    and removes the change only when it has one. Either way the page is
    unpinned dirty with the record's LSN. The executor never calls
    `SetPageLSN`, so a page's LSN changes only through redo.
  - `Write` assumes each change is logged with its page. The executor's
    calls `LogInsert`, `LogUpdate` and `LogDelete` (executor.go:213, 374,
    440) pass fewer arguments than log.go's signatures take, so the sources
    as given do not compile. The model logs what the signatures carry.
  - The undo of an UPDATE (the new version deleted, the old version's xmax
    cleared) is the removal of its change. A CLR redo of an UPDATE writes
    the old row's image into the new version's slot; the model does not
    tell the two slots apart.
  - **Fairness.** `FairSpec` adds weak fairness to `AnalysisPhase`,
    `RedoPhase`, `UndoStep` and `RecoveryDone`, and to nothing else.
    `Recover` runs the three phases in sequence on the starting goroutine,
    before the engine accepts a statement. Once a recovery step is enabled,
    only a crash can stop it from being taken. Crashes are bounded by
    `MaxCrashes`. Statements, commits and checkpoints get no fairness: a
    user may stop typing.

## 5. `WalRecovery`: runs and what they show

| Run | Expect | Properties | What it shows |
|---|---|---|---|
| `wal_recovery` | pass | `TypeOK`, `CompensatedOnce`, `CommittedSurvive` | With whole-buffer flush failures, up to two crashes (one may hit recovery) and a checkpoint: no change is compensated by two CLRs; after recovery every change of an acknowledged commit is on its page. |
| `recovery_live` | pass | `RecoveryTerminates` | Under `FairSpec`, every crash is followed by the end of recovery. This includes a crash during recovery and a crash after a checkpoint that seeds the ATT. Every LSN the undo worklist pushes (a PrevLSN) is below the one it popped. |
| `wal_rule` | violation | `RecoveryAtomic` | A crash between `FlushAllPages` and the COMMIT force leaves an uncommitted row on disk with no log record to undo it. |
| `checkpoint_loser` | violation | `UndoComplete` | A transaction active at a checkpoint and silent after it is seeded with LastLSN 0, so undo never reaches its flushed change. |
| `torn_log` | violation | `CommittedSurvive` | A short WAL write leaves a torn record; the retry appends after it, recovery stops at it and undoes an acknowledged commit. |
| `clr_redo` | violation | `UndoComplete` | Recovery undoes an INSERT and appends its CLR, which has no image. An auto-flush makes the CLR durable and the process crashes again. The next recovery redoes the INSERT, redoes the CLR as a no-op, and follows the CLR's UndoNextLSN past the INSERT, so the row of a transaction that never committed stays (11 steps). |

**Bounds.** `wal_recovery` uses two pages, one frame, ids 2 and 3 (and reuse
after a crash), two changes, two crashes, one checkpoint and one flush fault:
about 1.5 million distinct states in about a minute and a half. With id 3
the bound, a transaction begins after a recovery only when the log held no
id. The id bump skips one id, so a second transaction after recovery needs
id 5, which is out of the time budget. Its writes carry before images; with
INSERTs as well the run takes more than four minutes, so INSERT's image-less CLR is left to
`recovery_live` (INSERTs only) and `clr_redo`. One frame and a scan are
what make `FetchPage` evict a dirty page; two crashes let the second one land
in recovery or reread CLRs the first recovery wrote and a later force made
durable; the flush fault makes a COMMIT durable that the caller was told
failed. The violation runs use one change and one crash: their traces are
5 to 10 steps.

`recovery_live` has the same bounds with one change instead of two, and
without the flush fault or symmetry, since symmetry is not sound for
liveness: about 86,000 distinct states in 15 seconds. With two changes it
takes more than four minutes. Neither passing run enables `AutoFlush`: with it
`recovery_live` took 20 minutes. `clr_redo` enables it, with two crashes and
no checkpoint, so the checkpoint seeding of `checkpoint_loser` plays no part.

**Checked outside the runs.** `UndoComplete` holds when checkpoints and the
auto-flush are disabled (same bounds otherwise, both kinds of write), so
`checkpoint_loser` isolates the checkpoint seeding and `clr_redo` the
image-less CLR. Without the auto-flush that CLR is harmless: nothing forces
it before `RecoveryDone` has flushed the page it compensates. `RecoveryAtomic` cannot be checked in a passing run while
the WAL rule is broken; the pass run checks the weaker `CommittedSurvive`.

**Mutants.** `FetchPage` evicting only above capacity breaks `TypeOK`;
analysis keeping committed transactions in the ATT breaks `CommittedSurvive`;
undo following the record's own LSN instead of its PrevLSN breaks
`CompensatedOnce`; a BEGIN that sends undo to its own LSN (`NonDataNextSelf`)
keeps the worklist from draining and breaks `RecoveryTerminates`.

**Not modelled.** Record serialization and checksums (there are none; a torn
record is modelled by what the reader does with it); a failing auto-flush,
whose error `Append` drops; pin counts; `NewPage` and table growth; the
index calls of the executor (section 8 models the B-tree on its own); the MVCC side of the same statements (section 3
models it); the `UndoStep` branches for an LSN not in the log and for a CLR
met in the worklist, which these bounds do not reach.

## 6. `Heap`: the slotted page, the table heap and the catalog

**Constants.**
- `Tables`: model values, with symmetry.
- `PageSize`: 144 instead of 4096, so that two tuples fill a page.
- `DataLens`: the serialized lengths a row can have.
- `MaxPages`: disk pages, page 0 included.
- `MaxWrites` and `MaxRestarts` bound the counters.

The code's constants are kept: a page header of 28 bytes, slot entries of 4
bytes, and a tuple header of 36 bytes (`Tuple.Serialize`).

**State.**
- `pages[p]`: the slot directory as a sequence of `[off, len, ver]`, plus
  `freeOff` and `freeEnd`.
- `log`: the page's bytes, abstracted to a log of writes `[lo, hi, tag]`. A
  tuple payload is tagged `<<"tuple", ver>>` and a slot entry `<<"slot", n>>`.
  A range reads back what was written to it when no later write overlaps it
  (`Intact`). This keeps exactly what the properties need: whether a read
  returns what was stored.
- `numPages`: the disk manager's page count.
- `cat` and `catDisk`: the in-memory catalog, and the copy on the catalog
  page. Each holds `ids`, `next` and first/last page per table.
- `owner[p]`: the table a page was allocated for.

**Actions.**
- `CreateTable`: `Catalog.CreateTable` with `NewTableHeap`. It allocates one
  page and writes the catalog page (`serialize`).
- `Insert`: `TableHeap.Insert`. When `FreeSpace` of the last page is too small
  it allocates a new page, which moves `lastPage` in memory only.
- `Update`: `TableHeap.Update` and `Page.UpdateTuple`, either in place or
  relocating with a tombstone.
- `Delete`: `TableHeap.Delete` and `Page.DeleteTuple`.
- `Scan`: `TableHeap.Scan`, which walks page ids `first..last` by +1.
- `Restart`: close and reopen after a clean flush. `LoadCatalog` and
  `deserialize` replace the catalog with the catalog page. Pages are written
  back by `FlushAllPages`, so they survive.

**Runs.**

| Run | Result | What it shows |
|---|---|---|
| `heap` | pass (about 96,000 states) | `TypeOK`. `PayloadsDisjoint`: live payloads never overlap and lie in `[freeEnd, PageSize)`, across in-place and relocating updates. `DistinctTableIds`: table ids stay distinct across a restart that reloads `nextTableID` |
| `heap_scan` | violation of `ScanExact` | After table A's third insert moves it to page 2, a restart restores `lastPage = 1`, so the row on page 2 is lost to SELECT. With restarts disabled, two tables growing alternately make Scan return the other table's rows |

**Further configuration.** `MCHeap_slots.cfg` violates `SlotsReadable`. The
slot directory is at the page tail, where payloads are also allocated.
Rewriting the first tuple in place, as `executeDelete` does to set xmax,
overwrites slot 1's entry (page.go:212). Spec 3 says the directory grows
forward from the header. Two inserts and one update reach it, which a unit
test would too, so the manifest spends no run on it.

**Bounds.** Five pages and five writes are enough for every case:
- two tables, each overflowing onto a second page;
- a relocation (a longer row does not fit in place);
- a restart between any two steps.

**Fairness and deadlock.** The properties are safety properties, so there is
no fairness. `Scan` is always enabled once a table exists, and `CreateTable`
before that, so deadlock checking is kept.

**Mutants.**
- `FreeSpaceNoHeader`, which forgets the page header, breaks `TypeOK`.
- `UpdateTupleNoAlloc`, which relocates without moving `freeEnd`, breaks
  `PayloadsDisjoint`.
- `CreateTableSerializeFirst`, which writes the catalog page before
  incrementing `nextTableID`, breaks `DistinctTableIds`.

**Observed but not run.** `InsertTuple` writes the new slot entry at
`PageSize-4(n+1)`, which is inside the payload of tuple 0. The second insert
on a page therefore corrupts the last bytes of the first tuple. A test that
reads back both tuples would show this.

**Not modelled.**
- `SetLSN` and `SetNextPageID`: the heap never calls them.
- The raw page `Serialize`/`Deserialize`.
- Crashes without a flush: section 4 models the WAL side.
- Index roots.
- The tuple header (`XMin`, `XMax`, `RowID`). `executeInsert` assigns
  `RowID` only after `TableHeap.Insert` has serialized the tuple
  (executor.go:206, heap.go:58). The copy on disk therefore carries RowID 0,
  and UPDATE and DELETE log the RowID they read back from disk. This is
  listed as a hazard. No property covers it, because a tuple here is a tag
  and a byte range.

## 7. `MvccStore`: the multi-version store, and what it promises

**Abstract specification.** `AbstractStore` is what a row store with
transactions promises, with no versions in it:
- `db[r]` holds the committed contents of each row.
- `wset[t]` holds each transaction's private writes.
- `Write` records an insert, update or delete.
- `Commit` applies the writes all at once; `Abort` drops them.

**Detailed model.** `MvccStore` models the code:
- The state is `versions[r]`, the chain of `[xmin, xmax, data]` of
  `MVCCStore.versions`, newest first, and `nextRowID`.
- Transactions are the manager's: `nextTxnID`, `activeTxns`, status, and
  the snapshot (`Xmax`, `ActiveTxns`) taken in `Begin`.
- `Insert`, `Update` and `Delete` search for the first visible version
  (`FirstVisible`, the loop the code repeats in each). `Update` and `Delete`
  refuse a version whose xmax is another transaction's (`WriteConflictError`).
- A call that finds nothing or conflicts changes nothing and is not a step.
- `Rollback` is `executeRollback`: `RollbackTransaction`, then
  `Manager.Rollback`.
- `GarbageCollect` is called with the manager's global xmin, as VACUUM
  (spec 4.7) uses it.
- `Read` stands for `Read` and `Scan`, which change nothing.

**Refinement.** `Abs == INSTANCE AbstractStore WITH db <- FreshView, wset <- ghostWs`.
`FreshView` is what `Read` returns to a transaction beginning now, the
committed state as a caller observes it. `ghostWs` is a history variable:
what each running transaction last asked the store to write. `AbstractSpec`
(`Abs!Spec`) is checked as a temporal property. Every step of the store must
then leave the observed committed state alone, unless it is a commit that
applies exactly that transaction's writes.

| Run | Config | Result | What it shows |
|---|---|---|---|
| `store` | 4 transactions, 2 rows, 2 values, chains up to 3, each row written at most once per transaction | pass (about 116,000 states) | `TypeOK`. `NoConcurrentWriters`: two transactions that are not in each other's snapshot never both write a row; the first updater wins. `AbstractSpec`: with such callers the store implements `AbstractStore`, across rollbacks and garbage collection |

**Further configuration.** `MCMvccStore_refine.cfg` (3 transactions, callers
that may write a row twice) violates `AbstractSpec`. `createSnapshotLocked`
makes a transaction's own versions invisible to it (mvcc.go:266). An UPDATE
followed by a DELETE of the same row in one transaction marks the old
version twice; after commit the updated row is still there. Spec 4.5
promises read-your-own-writes. The executor never reads this store, and two
calls of one transaction reach the case, so the manifest spends no run on it.

**Bounds.** Four transactions allow a writer and a concurrent second writer,
each with a committed predecessor. Two rows allow an insert next to an update.
Chains of three versions allow an update of an updated row.

**Fairness and deadlock.** The properties are safety properties, so there is
no fairness. `Read` is always enabled, so deadlock checking is kept.

**Mutants.**
- `CommitKeepsActive`, which leaves a committed transaction in `activeTxns`,
  breaks `TypeOK`.
- `UpdateNoConflictCheck`, which drops the write-write check, breaks
  `NoConcurrentWriters`.
- `RollbackChainKeepXmax`, which does not clear the rolled-back
  transaction's xmax, breaks `AbstractSpec`: the row stays deleted.

**Not modelled.**
- `RestoreTuple` and `SetNextRowID`: recovery, and not part of the store's
  promise to running transactions.
- `IsVisibleForUpdate`: never called.
- Command ids.
- Tables: one table, since row chains of different tables never interact.
- Under `GarbageCollect`, a running transaction can lose the version its
  snapshot reads. This is the horizon of `MCMvcc_vacuum_xmin.cfg`. `AbstractSpec` is
  about the committed state, so it does not see it.

## 8. `BTree`: the index, and what it promises

**Abstract specification.** `AbstractIndex` is a map `index` from key to row
id (`NoRID` when absent), and `op`, the call a step answers: `Insert(k, r)`
sets `op` to `<<"insert", k, r>>` and `index[k]` to `r`; `Delete(k)` sets `op`
to `<<"delete", k>>` and `index[k]` to `NoRID`.

**Detailed model.** `BTree` models `btree_test.go`'s `BTree`:
- **Constants:** `Keys` (normalized keys, a small ordered set of naturals),
  `RIDs` (model values, symmetric), `Order` (keys per node plus one, as in
  the code), `MaxPages`.
- **State:** `nodes[p]`, a `BTreeNode` per page: `leaf`, `keys`, `vals` (leaf
  row ids) and `children` (internal pages); `root`; `nextPage`, the next page
  `NewPage` hands out. `lastOp` is a history variable: the last call and its
  arguments. It holds no code state and constrains no step.
- **Reads:** `findLeaf` descends with `ChildIndex`, which goes right on a key
  equal to a separator, as the code's `>=` loop does. `Search` looks in the
  leaf. `ScanAll` is `scanNode`, a recursive walk over the children in order.
- **`Insert(k, r)`:** one action for the whole call. `insertIntoLeaf`
  overwrites the row id of a present key (an upsert) or inserts in order.
  An overfull leaf is split by `splitLeaf`: the right half gets keys
  `mid+1..`, and its first key is copied up. `insertIntoParent` makes a new
  root when the path is empty. Otherwise it places the separator by key
  comparison (`ParentInsert`) and calls `splitInternal` when the parent is
  overfull, which promotes the middle key. The two are mutually recursive
  operators over the descent path. The guard `nextPage <= MaxPages` stands
  for `NewPage` succeeding.
- **`Delete(k)`:** removes the key and row id from its leaf, and never
  merges, as the code does.

**Refinement.** `Abs == INSTANCE AbstractIndex WITH index <- [k \in Keys |->
Search(k)], op <- lastOp`. The index a caller sees is what `Search` answers
for every key. `AbstractSpec` (`Abs!Spec`) is checked as a temporal property.
Because `op` names the call, every step must be the abstract step for its
own arguments. After `Insert(k, r)`, `Search(k)` must be `r`. After
`Delete(k)`, `k` must be absent. Every other key's result must be unchanged.
A split that loses or moves another key therefore breaks the property.

| Run | Config | Result | What it shows |
|---|---|---|---|
| `btree` | 5 keys, 2 row ids, order 3, 10 pages | pass (about 4,100 states, 20 s) | `TypeOK`. `WellFormed`: every leaf is at the same depth, a node holds at most `Order-1` ascending keys (a leaf emptied by Delete is allowed), an internal node has one more child than keys, and every key of a subtree lies between the separators around it. `ScanAllInKeyOrder`: `ScanAll` returns the row ids of the held keys in key order. `AbstractSpec`: every call changes exactly its own key's search result, to the value the call names |

**Bounds.** Order 3 splits a leaf at its third key. Five keys reach a root
split, then an internal-node split and a tree of height 2, with deletes
between them. With the history variable, six keys take more than three
minutes. `MaxPages = 10` never
binds: 8, 9 and 10 pages give the same state count.

**Fairness and deadlock.** The properties are safety properties, so there is
no fairness. `Delete` is always enabled, so deadlock checking is kept.

**Mutants.**
- `DeleteKeepsVal`, which removes the key but not its row id, breaks `TypeOK`.
- `splitLeafSepLeft`, which copies up the left half's last key, breaks
  `WellFormed`.
- `ParentInsertRightFirst`, which puts the new child before the separator,
  breaks `ScanAllInKeyOrder`.
- `ChildIndexStrict`, which descends left on a key equal to a separator,
  breaks `AbstractSpec`: the key just copied up can no longer be found.

**Not modelled.**
- `RangeScan`: a read. It stops at its start leaf (the code has a TODO for
  following sibling links), which a property of reads could state.
- `EncodeKey` and `normalizeKey`: keys are already normalized and ordered.
- Page serialization, pins, `LoadBTree`, and a failing `NewPage`, whose
  error `insertIntoParent` drops while the split halves are already written
  (a hazard).
- The executor's and engine's use of the index (`CreateIndex`, Vacuum's
  rebuild).
