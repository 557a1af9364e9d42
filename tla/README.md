# A TLA+ model of sam-lmdb-rs

`sam-lmdb-rs` is a Rust interface to LMDB, with the C library vendored under
`lmdb-sys/lmdb/libraries/liblmdb`. On top of LMDB it adds one thing of its own:
the memory map grows by itself, safely, while other threads use the
environment. This directory models that addition and the parts of LMDB that the
safety of every user rests on: snapshots, page reuse and commit, the lock file
shared by processes, nested transactions, the B-tree with its cursors, the
handles of named databases, and the compacting copy.

Paths below are relative to the repository; `mdb.c` and `lmdb.h` are those of
`liblmdb`.

## Inventory

| Component | State | Operations | What makes it correct |
|---|---|---|---|
| Transaction guard, blocker (`transaction_guard.rs`) | `tx_count`, `tx_blocker_count` | guard new / drop, blocker new / drop, wait | no transaction is live while the map is replaced; every guard counted once; nobody waits for ever |
| Transaction objects (`transaction.rs`) | `MDB_txn`, guard | begin, commit, abort, drop, reset, renew, nested begin, read and write calls | the guard lives as long as the handle on every path, failures included |
| Environment (`environment.rs`) | `db_resize_lock`, `dbi_open_mutex`, callback, `MDB_env` | open_db, create_db, begin_*_txn, set_map_size, do_resize, sync, info, stat | one resize at a time; only the documented dead-locks; a panic leaks nothing |
| Resize policy (`environment.rs`, `resize/mod.rs`) | map size, settings | needs_resize, the resize loop | used pages stay mapped; the headroom is granted; the loop ends; no overflow |
| MVCC core (`mdb.c`) | meta pages, freeDB, reader ids, `mti_txnid`, writer mutex, `me_pgoldest` | reader begin / end, page_touch, page_alloc, freelist_save, commit, sync, recovery | a reader keeps one committed state; no page lost or reused too early; a crash leaves a committed state |
| Reader table (`mdb.c`) | slots with pid, thread, txnid; `mti_numreaders` | claim, release, thread exit, reader_check | a slot has one owner; slots of the dead come back |
| Nested transactions, dirty list, spilling, loose pages (`mdb.c`) | dirty, spill and free lists, cursor shadows, `me_pgstate` | begin / commit / abort of a child, spill, unspill, loose | an aborted child leaves no trace; each page in one list |
| Named-database handles (`mdb.c`, `database.rs`) | `me_dbxs`, `me_dbflags`, `me_dbiseqs` | dbi_open, dbi_close, dbis_update, drop | a handle never denotes another database |
| B-tree and cursors (`mdb.c`) | pages, cursor stacks | get, put, del, split, merge, rebalance, cursor moves | keys sorted, pages filled, tracked cursors keep their position |
| Rust cursors and iterators (`cursor.rs`) | cursor, next operation | iter variants | each pair once, in order |
| Open, lock file, close (`mdb.c`) | file locks, lock-file header | env_open, setup_locks, env_close0 | one initialiser |
| ID lists (`midl.c`) | sorted arrays | search, append, merge, sort | set semantics |
| Environment copy (`mdb.c`) | two buffers, mutex, condition variable | copythr, cwalk | no buffer lost or reused before it is written |
| Tools, error codes, flags, FFI bindings | - | - | formatting, constants, generated code |

How they interact. The Rust `Environment` is shared by threads. Every
transaction object holds a guard, published in `tx_count`; a resize takes
`db_resize_lock`, publishes a blocker, waits until `tx_count` is zero and calls
`mdb_env_set_mapsize`, which unmaps and maps the file. `begin_rw_txn` resizes on
its own before it begins, and goes on to wait for LMDB's writer mutex with
`db_resize_lock` held. `open_db` and `create_db` run a transaction under
`dbi_open_mutex`. The resize callback runs inside the locked region, after the
blocker is gone. In LMDB, processes share the data file and the lock file:
readers publish the id of their snapshot, without a lock, in a table that the
one writer scans to find out which freed pages it may use again; a commit writes
its pages, syncs, writes the meta page that is two commits old, and publishes
its id. The rest of the interplay is failure: a process may die holding the
writer mutex or a reader slot, and a machine may stop with any part of the
unsynced writes on disk.

`PROJECT.json` lists the hazards at their lines.

## Modules

| Module | Models | Composes |
|---|---|---|
| `EnvTxns` | guards, transaction objects, map replacement, the two mutexes, callback, panic | `MapAccess` (refinement) |
| `MapAccess` | the promise: the map is replaced only while nobody reads | |
| `EnvTxnsProofs` | theorems: counters, exclusion, `MapAccess` implemented | extends `EnvTxns` |
| `EnvWaitProofs` | theorems: panics, circular waits | extends `EnvTxnsProofs` |
| `ResizePolicy` | when and how far the map grows, in the arithmetic of usize | |
| `ResizePolicyProofs` | theorems: used pages stay mapped, growth, headroom, panics | extends `ResizePolicy` |
| `Mvcc` | readers, copy on write, freeDB, meta pages, commit, sync, crashes | `SnapshotStore` (refinement) |
| `MvccProofs` | theorems: oldest reader, page accounting, crashes, `SnapshotStore` implemented | extends `Mvcc` |
| `SnapshotStore` | the promise: a log of states, and readers that see one of them | |
| `NestedTxn` | nested write transactions: dirty, spill, loose and free lists, reclaimed pages | `NestedStore` (refinement) |
| `NestedStore` | the promise: a stack of copies of the state | |
| `NestedTxnProofs` | theorems: room, lists, page accounting, commit, `NestedStore` implemented | extends `NestedTxn` |
| `BTree` | one database in a write transaction: pages, `MDB_db`, tracked cursors | `OrderedMap` (refinement) |
| `OrderedMap` | the promise: a map in key order, with cursors that keep their place | |
| `LockFile` | open and close of the environment, reader table, dead processes, both mutexes | |
| `LockFileProofs` | theorems: slots, orphans, the id in the lock file, `mdb_reader_check` | extends `LockFile` |
| `OrderLemmas` | lemmas on minimum, maximum and parity | |
| `DbiHandles` | numbers, names, flags and sequence numbers of database handles | |
| `DbiHandlesProofs` | theorems: handles denote, handles usable, commits exact | extends `DbiHandles` |
| `EnvCopy` | the compacting copy: walk, two buffers, writing thread | |
| `MC...` | one instance of each for TLC | |

`Mvcc` has readers without slots, and `LockFile` readers without pages: the id
that a reader publishes is what they share. `LockFile.ReadersProtected` is the
assumption under which `Mvcc` scans its readers. Likewise `NestedTxn` has pages
without a tree above them and `BTree` a tree whose pages are all dirty, and what
`EnvTxns` has of a database is the mutex under which it is opened, the rest being
in `DbiHandles`.

### EnvTxns

A thread is in at most one public method (`call`), at a point of it (`pc`), and
in at most one resize callback (`cb`). Handles are pairs of a thread and a slot;
`obj` is the Rust object behind a handle, `mdb` its `MDB_txn`, which becomes
`"dangling"` when the map it reads is replaced or absent. Each action is one
SeqCst access to a counter, one mutex operation or one call into LMDB. The Drop
of a guard and of a blocker are Release in the code: they only leave a counter
larger for longer, so they are single steps here too. `wchain` is the
writer mutex with the nested transactions of its owner. The resize arithmetic is
a free choice here (`NeedsResize`, `CheckSpace`), so `EnvTxns` allows every
sequence of resizes that `ResizePolicy` allows.

A panic is possible where the code can panic under the lock: arithmetic and
assertions before the blocker exists, and the callback after it is gone. It
poisons `db_resize_lock`, which panics every later locker.

`Overlap` says whether a thread may open or resize while it holds a
transaction, which the documentation of `set_map_size` forbids on pain of
dead-lock; `MapCanFail` whether `mmap` may fail; `CallbackOpensDb` whether the
callback may call `open_db`. It never calls what its documentation forbids.

### ResizePolicy

One caller at a time runs the policy, under `db_resize_lock`; a write
transaction of another thread may be open meanwhile, allocate pages and commit
at any step. usize has `Word` values; the additions that the code checks panic,
the others wrap, as in a release build. `resize_trigger_fraction`, an f32, is an
exact ratio.

### Mvcc

A key stands for a sub-tree that fits in a page, and the content of a page is a
mark of the transaction that wrote it. The freeDB is a set of (txnid, page)
pairs carried by the meta page; its own pages are left out. The file is kept
twice: as processes see it (`page`, `metas`), and as the set of contents each
page may have on disk. Readers load, publish, check again and copy in separate
steps; the writer scans the reader table slot by slot; a commit flushes, syncs,
writes the meta page, publishes the id and returns in separate steps, and can
die between any two. `log`, `returned` and `durable` are history variables for
`SnapshotStore`.

The transaction flags give three commit modes: sync, nometasync, nosync. A crash
of the machine is not modelled after a nosync commit that no sync followed: the
documentation waives recovery there. `MetaWriteCanFail` says whether the write of a
meta page may fail, `RestoreCanFail` whether the write that puts the old id back,
whose result the code ignores (`mdb.c:4342`), may fail too; see `MvccRestoreFails`.

### NestedTxn

`txns` is the stack of open write transactions of the one writer; each record has
the lists of `MDB_txn`. `map` is the file as it is mapped, `pgstate` the reclaimed
pages of the environment, `db` what the newest meta page says. A key stands for
one page, a leaf or a one-page overflow; the pages above are a table that goes
with `mt_dbs` and takes no room. The code runs in one thread, so an operation is
one action: it starts with `mdb_page_spill` (`AfterSpill`, for every position the
other cursors may have), goes on with `mdb_page_touch`, `mdb_page_new`,
`mdb_page_loose` or `mdb_ovpage_free`, and may leave the transaction failed.
`mdb_txn_commit` of a parent commits its child first, which is two steps here, as
`mdb_txn_abort` is. With no reader around, the freeDB is a record that may be
reclaimed and the pages the last transaction freed; reclaiming in the presence
of readers is in `Mvcc`. Every branch page is taken to be dirty once a
transaction has written, which is when a commit has something to write.

### BTree

A call of the API is one action, as the code runs in one thread: `MdbGet`, `MdbPut`,
`MdbDel`, the drop of the database, the moves of a cursor, put and delete through
it. The operators behind it have the names of the C functions (`PageSearch`,
`NodeAdd`, `PageSplit`, `Rebalance`, `NodeMove`, `PageMerge`, `CursorDel0`, ...) and
transform one record that holds pages, `MDB_db`, cursors and result. A node has
the size the code gives it: header of 8 bytes, slot of 2, lengths rounded to even
numbers; of a value only the length is kept. Keys are numbers with a length each.

The behaviours start with an empty tree or with one of `Loads`, sequences of puts
and deletes run through the same operators, so that every initial tree is one the
code builds. The pages may be clean or dirty, and a cursor may be open, at first.
`view` holds items and places of cursors as the refinement sees them.

`MissedStays` says whether an item may be deleted while another cursor rests where
a search for a missing key left it; see `BTreeMissedCursor` below.
`OrderedMap` says what the cursors promise, with the three states a place has
beside its key: before the key (`gap`), its item deleted (`del`), the end met
(`eof`).

### LockFile

One step is one access to the lock file, a lock or an unlock, of one thread of one
process; opening is done by a process before it has threads. The header has the
magic number, `mti_txnid` and `mti_numreaders`, a slot has `mr_pid` and `mr_txnid`.
Locks of the file are POSIX record locks: a process that dies loses them at once.
The mutexes are robust: the next locker of one whose owner died is told so and
runs `mdb_mutex_failed`. After a death another process may have the same pid.
`Tls` gives each process one of the two ways to own a slot (`MDB_NOTLS` or not).
A thread whose key cannot be set after it has claimed a slot gives the slot back
(`RdKeyFails`). What a commit does to the data file is the id of the meta page it writes.
`OpenBreaks` says whether an open may fail, or its process die, with the exclusive
lock in hand while another process waits; see `LockFileOpenBreaks`.

### DbiHandles

A thread has at most one transaction, a stack of levels with `mt_numdbs`,
`mt_dbflags`, `mt_dbs` and the main database each; `mt_dbiseqs` is shared by the
levels. `mdb_txn_begin` copies the sequence numbers in one step and flags in another.
The application keeps the documented rules: a transaction that opens databases is
the only one that does (`lmdb.h`, `mdb_dbi_open`), and, unless `DropRaces`, a
database is dropped only when no other open transaction has used it and none
opens databases, which is more than the documentation asks for. `close_db` borrows
the environment, so that no transaction is open. `mdb_drop` is `DropDb` when it deletes
the database and `ClearDb` when it only empties it; `MaxClearDepth` bounds the nesting
at which a run empties one. `OpenDuringBegin` says whether a commit may publish a handle
between the two steps of a begin; see `DbiBeginRace`.

### EnvCopy

A snapshot is a fixed tree given by `Nodes`; buffers and writes count in pages. The
caller's walk, one node a step, and the thread's writes, one page a step,
interleave freely except where `mc_mutex` forbids it; `mc_error`, `mc_wlen`,
`mc_olen` and `mc_toggle` are read and written outside it as in the code. Both
may fail at every call that can, and a wait may end without a signal. `Leaks` are
pages that are in no tree and not free, which `mdb_env_copyfd1` has to notice.

## Runs

| Run | Bounds | Shows |
|---|---|---|
| `EnvSafety` | 2 threads, 2 objects each, rule broken at will, callback opens databases | the map is replaced only while no transaction is open; both counters are exact; panics leak nothing; every dead-lock has a holder of a transaction, or `open_db` in a callback, in it; `MapAccess` is implemented |
| `EnvLiveness` | 2 threads, rule kept, `mmap` may fail | no dead-lock at all; blockers are lifted, guards are admitted |
| `ResizeLoop` | pages of 4 bytes, 6-bit usize, several initial sizes, headrooms, free spaces | used pages stay mapped; the headroom is free when the loop ends; growth by whole pages; panics only on overflow; termination |
| `MvccSnapshots` | 1 reader, 2 writing processes, 1 key, 4 commits, 2 faults | snapshots, both meta pages, page accounting, `me_pgoldest`, `SnapshotStore` |
| `MvccCrash` | 2 writing processes, 2 keys, 4 commits in 3 sync modes, 1 fault | every crash leaves a committed state, whole, no older than promised; a failed write of a meta page harms no committed state, if the old id is put back |
| `NestedTxns` | 3 levels, 1 leaf and 1 overflow key, 4 pages, a dirty list of 2, 4 writing operations | every level sees its own state, aborts leave no trace, room and pages are exact, `NestedStore` is implemented |
| `BTreeOps` | pages of 80 bytes, 14 keys, values of 2 lengths, trees of 1 to 3 levels, 1 cursor, 2 calls on 4 of the keys | the tree is a search tree of uniform depth, no page too full, with exact counters; no page lost; the cursor on its path; no error but the documented ones; `OrderedMap` is implemented |
| `LockFileReaders` | 2 processes, one with 2 threads, 2 slots, both kinds of slot ownership, 2 deaths, 1 commit | a read transaction keeps its slot, no slot is lost, a check frees the slots of the dead, the file has the newest id |
| `DbiHandles` | 1 writing and 1 reading thread, 2 names, 2 numbers, 2 levels, 3 changes of a sequence number | an accepted handle is the database it was opened for; committed handles are usable; a commit saves each database under its name |
| `EnvCopyCompact` | buffers of 2 pages, values of 1 to 3 pages, a sub-database, an empty one, a lost page | the file is a faithful copy or the result is an error; the call returns |

Why the bounds are enough. Two threads with two objects reach every pair of
steps of the guard / blocker handshake, nested transactions, a reset object
beside an active one and both documented dead-locks. `ResizeLoop` has headrooms below,
between and above the step limits, map sizes that are no multiple of a page, and
sizes that reach the end of usize. Four commits are two rounds of the two meta
pages, which is what it takes to free a page, see it become reclaimable, reuse
it and overwrite the meta page that referred to it. In
`NestedTxns` the list is full after two pages, so from the second write on every
operation spills; four writes are what it takes to spill in a transaction, take
the page back in a nested one and fill its list again, and the environment may
start with both keys stored and a page to reclaim. `BTreeOps` takes pages in which
two to four items fit, the keys of different lengths, so that every way to split,
to borrow from the left or the right, to merge and to collapse the root happens
on each level; two calls let a cursor be moved by the first and used by the
second, and `Loads` replace longer sequences. In `LockFileReaders` two slots are too
few for the three threads, two deaths let a pid die, come back and die again while
a check is under way, and a commit is what makes an id old; 869,851 states. In
`DbiHandles` three changes close a number twice and give it to the other name;
emptying a database differs from a put only in what it checks first, and is left to the
outermost transaction (`MaxClearDepth`), the theorems having it at every depth. Two
pages are the least a buffer holds, the two meta pages, so every further page
meets a full buffer; `EnvCopyCompact` passes with three as well.
`CHECK_DEADLOCK FALSE`
stands where the system really stops: a dead-locked application, a poisoned
lock, the bound on transaction ids.

### Violations

Two runs show a disagreement of the code with its documentation or with itself.

- `EnvSyncRace`: `sync` "is independent from the transactions machinery"
  (`environment.rs:211`), but `mdb_env_sync` reads the meta page unguarded, and
  another thread may have the map unmapped. `info` and `stat` read it the same
  way.
- `LockFileOpenBreaks`: a process that initialises the lock file sets `mti_txnid` to
  0 and stores the newest id only when it hands over its exclusive lock. If it
  fails or dies before that, a process that waits for the shared lock
  (`mdb.c:5115`) finds the magic number and goes on with id 0: its readers and its
  commits start from the wrong meta page. Seen with the compiled library, where
  a reader got commit 4 instead of 5 and a later commit was lost.

Further counterexamples are kept as configurations, each with one property that a
comment or a document states and TLC refutes:

- `EnvCallbackOpensDb` (`MCEnvTxns`): the callback holds `db_resize_lock` and
  `open_db` takes `dbi_open_mutex`; `create_db` takes them in the other order. The
  list of calls that dead-lock in the callback (`environment.rs:748`) leaves
  `open_db` out.
- `ResizeStaleUse` (`MCResizePolicy`): the used size is read before the writer mutex
  is taken, and a commit of another thread can use the headroom before the
  transaction begins.
- `MvccReaderId` (`MCMvcc`): a reader that is overtaken by two commits between
  checking its id and copying the meta page reads a newer state than its id says.
  It is safe, since an older id only protects more pages (`MvccSnapshots`).
- `MvccRestoreFails` (`MCMvcc`): after a failed write of a meta page the old id is
  written back "to prevent it from being used" (`mdb.c:4323`), and whether that works
  is not looked at (`mdb.c:4342`). If it fails too, the meta page of the failed commit
  stays the newer one, and when a writer of another process dies later,
  `mdb_mutex_failed` takes its id over: the failed commit becomes the state that
  transactions begin with. `MvccCrash` has a write back that succeeds
  (`RestoreCanFail`).
- `NestedSpillFails` (`MCNestedTxn`): when writing spilled pages fails in a child,
  `mdb_page_spill` returns with `P_KEEP` still set on the pages under the child's
  cursors, which may belong to the parent's dirty list. The parent is not marked
  failed by the abort of the child, and its commit leaves the flagged pages out:
  the committed tree refers to a page that was never written. `NestedTxns` has
  such failures at the outermost level only (`SpillFailsAt`).
- `BTreeSplitFull` (`MCBTree`): a page of at least 32 keys is split in the middle
  without a look at the sizes if the new node is small (`mdb.c:9717`); with small nodes
  on one side and large ones on the other the new node does not fit and a legal
  put fails with `MDB_PAGE_FULL`, where `mdb.c:8219` says "This error should never
  happen". Seen with the compiled library. The pages of `BTreeOps` have fewer keys,
  for which the split point is always searched.
- `BTreeMissedCursor` (`MCBTree`): `mdb_node_move` adjusts the cursors that are on the
  node it moves (`mdb.c:8923`), not one past the last node, where a search for a
  missing key leaves a cursor; that cursor then has a page that is not below the
  parent entry in its stack. Seen with the compiled library. `BTreeOps` leaves this
  case out (`MissedStays`).
- `DbiBeginRace` (`MCDbiHandles`): a write transaction copies `me_dbiseqs`
  (`mdb.c:3095`) before it reads `me_numdbs` and `me_dbflags` (`mdb.c:3110`). A handle
  committed in between is refused with `MDB_BAD_DBI`, where `lmdb.h:1115` says that it
  "may be used by other transactions". `DbiHandles` leaves this case out
  (`OpenDuringBegin`).

Other observations made while modelling, without a configuration of their own:

- With `DropRaces`, the properties of `DbiHandles` are false: `mdb_drop` closes the
  handle at once (`mdb.c:10990`), before its transaction commits. A database of that
  name that another thread opens meanwhile leaves a handle without a record;
  `mdb_dbi_open` with `MDB_CREATE` then returns it and creates nothing
  (`mdb.c:10735`), and a reader may read an older record under a number that is used
  again.
- With `MDB_PREVSNAPSHOT` the first opener does not store an id (`mdb.c:5593`), so
  `mti_txnid` is 0 until the first commit.
- The end of the data is remembered in a cursor (`C_EOF`): after a next that met the
  end, items put behind it are not seen by another next, which `OrderedMap` admits.
- `mdb_cursor_put` with `MDB_CURRENT` does not check that the cursor is on an item.
- A parent that commits after its child dropped a handle the parent had opened marks
  a number without a name as valid; nothing uses it.
- With `MapCanFail`, `TxnOnLiveMap` is false: `mdb_env_set_mapsize` has unmapped
  the file when `mdb_env_map` fails, and later transactions read the old meta
  pointers.
- `open_db` succeeds under an open write transaction of the same thread, where
  `environment.rs:87` announces `Error::BadRslot`.
- `map_occupied_size_inner` multiplies by `last_pgno`, one less than the number
  of pages in use.
- A resize step can exceed `max_resize_step` by its rounding to a page.
- After a failed write of a meta page only the id and the last page are put back
  (`mdb.c:4335`); a reader that has already chosen this meta page can copy the
  roots of the failed commit.

## Fairness

`EnvLiveness` assumes weak fairness of every step of a thread inside a call
(threads are scheduled; spin loops yield) and that an application ends the
transactions it holds, which the documentation asks for. Both counters are
polled, so weak fairness is enough for `GuardAdmitted` only once resizes stop:
under an endless sequence of resizes a guard may be overtaken for ever, and so
it may in the code. Lock acquisition is weakly fair, so starvation by a barging
thread is not excluded and no property claims it. `ResizeLoop` assumes that the
holder of the lock runs and that write transactions end. `EnvCopyCompact` assumes
that both threads run; a wait may end without a signal but need not. The other
runs check safety only.

## Proofs

Every theorem holds for all values of the constants that satisfy the module's
`ConstantsAssumption`, so for any number of threads, processes, slots, readers,
keys and pages. A further assumption is named in the theorem; each one is a switch
of the model that leaves out one kind of failure or of misuse. Each inductive
invariant was checked by TLC on the instances of the runs before it was proved.

| Theorem | States | Assumes |
|---|---|---|
| `TypeCorrect`, `CountCorrect`, `RemapSafe`, `BlockerCorrect` | `TypeOK`, `TxCountExact`, `RemapExclusive`, `BlockerSingleOwner` | |
| `LiveMapSafe`, `Refinement` | `TxnOnLiveMap`; `EnvTxns` implements `MapAccess` | `mmap` does not fail |
| `PanicSafe`, `DeadlocksExplained` | `PanicLeaksNothing`, `DeadlockExplained` | |
| `DeadlockFree` | `NoDeadlock` | `~Overlap`, `~CallbackOpensDb` |
| `UsedStaysMapped`, `LoopGrows`, `LoopGrantsHeadroom`, `PanicsOnlyOnOverflow` | `UsedFitsMap`, `ResizeGrows`, `HeadroomChecked`, `PanicOnlyOnOverflow` | |
| `ReadersSafe`, `SlotsNeverLost`, `ChecksFreeDead` | `ReadersProtected`, `SlotsAccounted`, `CheckFreesDead` | |
| `RegionStaysCurrent` | `RegionCurrent` | `~OpenBreaks` |
| `OldestNeverAhead` | `OldestIsOld` | |
| `BothMetasIntact`, `CrashSafe`, `NoPageLost` | `MetasIntact`, `CrashConsistent`, `PagesAccounted` | `~MetaWriteCanFail` |
| `StoreImplemented` | `Mvcc` implements `SnapshotStore` | `~MetaWriteCanFail` |
| `RoomTheorem`, `ListsTheorem`, `PagesTheorem` | `RoomExact`, `ListsConsistent`, `PagesAccounted` | |
| `NestedStoreImplemented`, `CommitTheorem` | `NestedTxn` implements `NestedStore`; `CommitSavesAll` | `SpillFailsAt \subseteq {0, 1}` |
| `TablesAgree`, `HandlesDenote`, `HandlesUsable`, `CommitsExact` | the inductive invariant; `HandleDenotes`, `HandleUsable`, `CommitExact` | `~DropRaces`, `~OpenDuringBegin` |

`EnvCallbackOpensDb`, `LockFileOpenBreaks`, `NestedSpillFails` and `DbiBeginRace` (see
Violations) show what happens without `~CallbackOpensDb`, without `~OpenBreaks`, when a
nested transaction may fail to spill, and without `~OpenDuringBegin`; what happens with
`DropRaces` is described below them.

### EnvTxnsProofs

None of the invariants is inductive as it stands. `RemapExclusive` needs that a
resizer that has seen zero is not overtaken: a guard counted after that sees the
blocker and backs out (`RemapInv`), which needs that the blocker is there whenever
its owner is between `Block` and `Unblock` and that this owner holds
`db_resize_lock` (`BlockerInv`, `LockInv`). A write transaction begins before its
guard, so it is covered by the lock instead: its opener holds `db_resize_lock`
until the guard exists; a nested one is covered by its parent's guard
(`OpenInv`). `TxCountExact` makes "the counter is zero" mean "no guard exists",
and needs the correspondence of `pc`, `slot` and `obj` (`SlotInv`, `CallInv`).
`IInv` is the conjunction. Preservation is proved conjunct by conjunct
(`TypeStep`, `SlotStep`, ..., `CountStep`), each by cases on the actions; the
cardinality of the set of guards is handled by three lemmas on adding and
removing one element. For the refinement every step is one of Enter, Leave,
Unmap, Map or a stutter (`RefineStep`).

### EnvWaitProofs

`WInv` adds to `IInv` who has which of the other locks: the owner of
`dbi_open_mutex` is inside `open_db` or `create_db`, its own or its callback's
(`StageInv`, `MutexInv`); the writer mutex belongs to the outermost write
transaction, a complete object or one whose guard is being taken under
`db_resize_lock` (`WriterInv`); without overlap a thread that waits holds no
transaction (`LoneInv`). A cycle of waiting threads has then an edge that leaves a
thread which waits while it holds something: the proofs go through the resources
in the order in which they are taken, and find either a holder that is not waiting
or one that the documentation forbids.

### ResizePolicyProofs

`UsedFitsMap` needs that while `begin_rw_txn` loops nobody else begins a write
transaction, and that a transaction open at the start of the loop fits in the map
the loop began with, which `do_resize_locked` never goes below (`LoopInv`); and
that the size kept in the meta page is a value of usize, because `set_map_size(0)`
maps it (`PersistedInv`). The rest is arithmetic with wrap-around: rounding up to a
page gives whole pages, less than a page further.

### LockFileProofs

Thirteen conjuncts. The lock on the file separates the stages of `mdb_env_open` and
`mdb_env_close` (`FileInv`, `ActiveInv`); the mutex of the table has one owner, so
does that of the writer (`TableInv`, `WriterInv`); a process has locked its byte of
the file before it has a slot (`LiveInv`), which is why a check that finds the byte
free may clear the slots of that pid. `SlotInv` and `OwnInv` say what a thread's slot
contains at each step of taking it, and that nobody else has it; `AccountInv` is the
other direction: a taken slot has a thread, or a close that will clear it, or is an
orphan. `RegionInv` is only claimed while no open fails half-way. `CheckInv` follows a
check of the readers through the table: the slots behind it hold no pid that was
dead when it began and has been since. `ChecksFreeDead` is an action property and
follows from it at the step that ends the check.

### MvccProofs

`OldestNeverAhead` needs no assumption. `OInv` follows a scan of the readers: what it
has found so far is not ahead of a reader it has passed, nor of one that settled
since, because such a reader compared its slot with an id the scan began at
(`ScanInv`).

The snapshot argument is about the pages that may be overwritten. `Saved` is the
freeDB that the open transaction will leave; reading records of it into memory does
not change it. The pages of a tree and of its freeDB are all pages, each once
(`Accounted`), for the newest meta page and for what the transaction will leave. A page
of an older state that is free was freed by a later transaction (`Guarded`), for both
meta pages and for every active reader. The pages held for reuse were freed before
every one of these states (`HeadInv`, where `OldestIsOld` enters), so the dirty pages
belong to nobody else (`FreshInv`) and writing them changes no state that can be seen.
`MetaInv` is the relation of the two meta pages to the id in the lock file, which a
writer that dies between writing and publishing leaves one behind. `LogInv` says that
the meta pages show the states of the log with their ids.

With crashes the older meta page need not be whole after one: the machine may have
lost pages it refers to. `LogInv` claims it only for those that are `Needed`: the newest,
that of the id in the lock file, and one that a reader is about to copy. `DiskInv`
says that any two meta pages the disk may hold are `Recoverable`: of consecutive
commits, the newer one whole on disk, accounted for, and not older than what is
durable. `SyncedInv` is what has reached the disk at each stage of a commit that
syncs, in each sync mode. `CInv` is the conjunction.

In the refinement `ReaderLoad` is Begin, `ReaderCopyMeta` is TakeSnapshot, the end or
the death of a reader is End, `WriteMeta` is Commit, `CommitReturns` is Return, a sync of
the file is Persist, `Crash` is Crash, and everything else is a stutter: in particular
`Flush`, which overwrites pages.

### NestedTxnProofs

What the properties say of the i-th transaction depends on all those below it, and an
operation changes only the last one. So the invariant is stated for one transaction
above others, of which it has to know seven sets of pages (`Frame`): those they have
freed, hold loose, find in memory, list, have spilled, use, and use as committed
(`clean`). `FramePush` says how the sets grow by a transaction, `GetInFrame` that
`mdb_page_get` can be answered from them. `Level` is the invariant, in three parts:

- `Placed`: each page below `mt_next_pgno` is used by one key, freed, loose, reusable or
  in the record of the last commit, and only one of these; a page just allocated is a
  place of its own until a key has it.
- `ListsOK`, unless the transaction failed: `ListsConsistent`, no page twice among the
  loose ones, no loose page of an ancestor in a list, and `mt_dirty_room` exact.
- `Apart`: the pages that are in some list are not read as committed by anyone, and
  neither are pages to be reused in a list or in use. `PagesAccounted` does not
  imply this, and without it writing a spilled page could change what an ancestor or a
  new reader sees.

`LevelInv` has `Level` for every transaction of the stack with the reclaimed pages that
an abort of those above would restore (`PgAt`), so that an abort needs no argument and
the commit of a child is one lemma (`LevelMerged`). Each helper of the code
(`PageAlloc`, `PageTouch`, `Unspill`, `PageLoose`, `OvpageFree`, `Spill`, ...) has
a lemma that it keeps `Level` and touches the page of one key only (`Step`), and the
operations are put together from these.

`NestedStore` is implemented by `States`: a writing operation is Update or, when it fails,
Fail; the pages a spill, a failed spill or a failed commit writes are read from the map by
none below and by no reader (`BelowKept`, from `Apart`); a child's lists merged into its
parent's give every page the value the child saw (`MergedFinds`); the outermost commit
writes every dirty page in use (`CommitWrites`, from `Placed` and from `KeepInv`: no
transaction that goes on has a page flagged `P_KEEP`). `KeepInv` is what a failed spill of
a nested transaction breaks, and the only use of the assumption.

### DbiHandlesProofs

A number means something different in each place that keeps it: the environment's
table, the table of each level of each transaction, the records in the main database
as each level sees it, and the handles of the application. `Shared` is what all
transactions have in common; `TxnOK` relates one transaction to it, so that a step has to
be considered only for its own transaction and, by one of a few lemmas, for all others.

- `TableInv`: a number that is valid has a name and a committed record, no two numbers
  have the same name, and a number that has a name without being valid is new in some
  transaction.
- `KnownOK`: a level of a write transaction that has read the record of a number has, with
  it, all levels above; the sequence number is unchanged and the record is what the
  application expects. `StaleOK`: of a number whose record has not been read this
  is only known while the sequence number is unchanged and no level above has opened the
  number anew. `RecordsOK`: a record in the main database that is not yet what the
  application expects belongs to a dirty number that still has its name; this is why a
  commit saves each database under its own name (`CommitExact`).
- `OpenOK`, `SeesOK`: what is valid in the environment a transaction that opens databases
  has too, in the same meaning, so that the slot it chooses (`SlotIs`) is free everywhere
  and the name it does not find has no number.
- `MineOK`, `OfferedOK`: the handles that the application has from this transaction, or
  had when it began, are accepted on every level that has to.
- `SoleInv`: the transaction that uses `mdb_dbi_open` is alone, and every other open
  transaction is marked as overlapping it; an overlapping transaction opens nothing, so
  that less has to hold of it. `MutexInv`: the writer mutex and `dbi_open_mutex`.

None of the three properties is inductive. `HandleDenotes` speaks of the last level,
and after an abort the level below is the last one: this is why the invariant has to
speak of all levels, and why it needs the sequence numbers there. `HandleUsable`
needs that a begin never reads a number as valid whose sequence number it copied
earlier (`RwOK` at `"begin"`): `OpenNewStep` is the only use of `~OpenDuringBegin`.
`~DropRaces` is used only in `DropDbStep`: when a number is closed before its
transaction ends, no other transaction (`Drops`) and no other level (`OnlyLast`) has
read its record.

### Only model-checked

- Liveness (`GuardAdmitted`, the termination of the resize loop and of the copy): the
  provers have no fairness reasoning.
- `Mvcc` after a failed write of a meta page: only the id and the last page are put
  back (`mdb.c:4335`), so that a meta page is then neither of the two commits, which
  `MetaInv`, `GuardInv` and `Recoverable` exclude. `MvccCrash` checks it for a write
  back that succeeds.
- `BTree`: its operators are recursive, like the functions they model, and what a
  recursive definition computes for every input is out of the prover's reach.
- `EnvCopy`: not proved yet.

## Not modelled

- Memory ordering: the model is sequentially consistent. The SeqCst pairs of the
  guard justify it in Rust; `mr_txnid` in LMDB is a plain volatile store, and on a
  weakly ordered processor the check after it (`mdb.c:3062`) may overtake it.
- Torn reads of a meta page (`mdb.c:3099`), and meta pages torn on disk.
- `MDB_WRITEMAP`, `MDB_NOLOCK`, `MDB_PREVSNAPSHOT`, `MDB_VL32`, Windows, System V
  semaphores.
- A thread that dies holding a mutex while its process lives.
- In nested transactions: overflow pages of several pages, the shadow cursors of a
  child, failing allocations of memory.
- In the B-tree: `MDB_DUPSORT` with its sub-pages and sub-databases, `MDB_DUPFIXED`,
  values on overflow pages, `MDB_RESERVE`, `MDB_MULTIPLE`.
- The unnamed database and the flags of a database in `DbiHandles`.
- The copy as-is (`mdb_env_copyfd0`): one thread and no buffer.
- In the resize policy: that `required_space + initial_map_size` may wrap
  (`environment.rs:157`) and the step limit beside its rounding (`environment.rs:425`)
  are observations, no property says otherwise.
- The Rust iterators, the ID lists, the tools, error codes and bindings, as
  "components" in `PROJECT.json` says.

## Plan

Done: `EnvTxns` with `MapAccess`, `ResizePolicy`, `Mvcc` with `SnapshotStore`,
`LockFile`, `NestedTxn` with `NestedStore`, `DbiHandles`, all with proofs; `BTree` with
`OrderedMap`, `EnvCopy`. Next:

1. Proofs. `EnvCopy`: that a buffer in the thread's hands is not the caller's.
2. `CursorIter` for the Rust iterators on top of `OrderedMap`.
3. `Midl`: search, append and merge of sorted ID lists against set definitions.
4. Duplicates in `BTree`, where the sub-cursor has to follow its node.
