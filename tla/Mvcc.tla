-------------------------------- MODULE Mvcc --------------------------------
(* Multi-version concurrency in mdb.c: readers that publish a transaction id  *)
(* in the shared reader table, one writer at a time that copies pages on      *)
(* write and reuses the pages no reader can see, the two meta pages, and what *)
(* a crash of a process or of the machine leaves behind.                      *)
(*                                                                            *)
(* Sources: mdb_txn_renew0, mdb_txn_end, mdb_find_oldest, mdb_page_alloc,     *)
(* mdb_page_touch, mdb_freelist_save, mdb_page_flush, mdb_txn_commit,         *)
(* mdb_env_sync, mdb_env_write_meta, mdb_env_pick_meta, mdb_env_read_header,  *)
(* mdb_mutex_failed, mdb_reader_check0.                                       *)
(*                                                                            *)
(* A key stands for a sub-tree that is one page; the page's content is the    *)
(* transaction that wrote it.  The freeDB is a set of (txnid, page) pairs     *)
(* carried by the meta page, its own pages left out.  The map is not a        *)
(* writemap; a meta page is written atomically (external: the disk).          *)
EXTENDS Naturals, FiniteSets, FiniteSetsExt, Sequences

CONSTANTS
    Readers, Writers,   \* reader slots; processes that write
    Keys,
    MaxPg,              \* me_maxpg
    MaxTxnId,           \* bound on transaction ids
    MaxFaults,          \* bound on failed commits and crashes
    MachineCanCrash,    \* may the whole machine stop
    Modes,              \* subset of {"sync", "nometasync", "nosync"}
    MetaWriteCanFail,   \* may the write of a meta page fail
    RestoreCanFail,     \* may the write that puts the old id back fail too
    NoWriter, NoKey, NoPage, Blank, NoView

ASSUME ConstantsAssumption ==
    /\ MaxPg \in Nat /\ MaxTxnId \in Nat /\ MaxFaults \in Nat
    /\ Modes \subseteq {"sync", "nometasync", "nosync"}
    /\ {MachineCanCrash, MetaWriteCanFail, RestoreCanFail} \subseteq BOOLEAN
    /\ NoWriter \notin Writers /\ NoKey \notin Keys /\ NoPage \notin Nat

VARIABLES
    page, metas,          \* the file as processes see it (the page cache)
    pageDisk, metaDisk,   \* for each page, the contents the disk may have
    mti_txnid,            \* id of the last commit, in the lock file
    mr_txnid,             \* the reader table
    rd,                   \* each reader's progress: pc, id read, root pages
    wmutex, owner_dead,   \* the writer mutex; did its last owner die with it
    txn,                  \* the write transaction
    me_pgoldest,          \* each process's cached oldest reader
    fatal,                \* processes with MDB_FATAL_ERROR set
    unsynced,             \* has MDB_NOSYNC left the disk behind
    faults,               \* failed commits and crashes so far
    log, returned, durable  \* history: committed states; how many of them had
                            \* returned, and must survive a crash

file == <<page, metas, pageDisk, metaDisk>>
history == <<log, returned, durable>>
lockfile == <<mti_txnid, mr_txnid, wmutex, owner_dead>>
vars == <<file, lockfile, rd, txn, me_pgoldest, fatal, unsynced, faults, history>>

Pages == 2..(MaxPg - 1)
NoTxn == MaxTxnId + 1   \* (txnid_t)-1, above every id

\* The state of the database that a set of root pages stands for.
View(root) == [k \in Keys |-> IF root[k] = NoPage THEN Blank ELSE page[root[k]]]

FirstMeta == [txnid |-> 0, root |-> [k \in Keys |-> NoPage], last_pg |-> 1, freedb |-> {}]
Idle == [pc |-> "none"]
IdleReader == [pc |-> "idle", id |-> 0, root |-> FirstMeta.root]

\* mdb_env_pick_meta and mdb_env_read_header
Newer(m0, m1) == IF m0.txnid < m1.txnid THEN m1 ELSE m0
Newest == Newer(metas[0], metas[1])

\* A failed commit or a crash; its number tells apart what is written before
\* and after it.
Fault == faults < MaxFaults /\ faults' = faults + 1

Init ==
    /\ page = [p \in Pages |-> Blank]
    /\ metas = [i \in 0..1 |-> FirstMeta]
    /\ pageDisk = [p \in Pages |-> {Blank}]
    /\ metaDisk = [i \in 0..1 |-> {FirstMeta}]
    /\ mti_txnid = 0
    /\ mr_txnid = [r \in Readers |-> NoTxn]
    /\ rd = [r \in Readers |-> IdleReader]
    /\ wmutex = NoWriter
    /\ owner_dead = FALSE
    /\ txn = Idle
    /\ me_pgoldest = [w \in Writers |-> 0]
    /\ fatal = {}
    /\ unsynced = FALSE
    /\ faults = 0
    /\ log = <<View(FirstMeta.root)>>
    /\ returned = 1
    /\ durable = 1

-----------------------------------------------------------------------------
(* Readers: mdb_txn_renew0 with the reader's own slot, mdb_txn_end. *)

ReaderStep(r, from, to) ==
    /\ rd[r].pc = from
    /\ rd' = [rd EXCEPT ![r].pc = to]
    /\ UNCHANGED <<file, wmutex, owner_dead, mti_txnid, txn, me_pgoldest, fatal,
                   unsynced, faults, history>>

\* do r->mr_txnid = ti->mti_txnid; while (r->mr_txnid != ti->mti_txnid)
ReaderLoad(r) ==
    /\ rd[r].pc = "idle"
    /\ rd' = [rd EXCEPT ![r].pc = "loaded", ![r].id = mti_txnid]
    /\ UNCHANGED <<file, lockfile, txn, me_pgoldest, fatal, unsynced, faults, history>>

ReaderPublish(r) ==
    /\ ReaderStep(r, "loaded", "published")
    /\ mr_txnid' = [mr_txnid EXCEPT ![r] = rd[r].id]

\* Mutant: the id is published and not compared again.
SlotNotRechecked(r) == TRUE
SlotCurrent(r) == mr_txnid[r] = mti_txnid

ReaderRecheck(r) ==
    /\ SlotCurrent(r)
    /\ ReaderStep(r, "published", "checked")
    /\ UNCHANGED mr_txnid

ReaderRetry(r) ==
    /\ ~SlotCurrent(r)
    /\ ReaderStep(r, "published", "idle")
    /\ UNCHANGED mr_txnid

\* The meta page is chosen by the id and copied, with no lock held.
ReaderCopyMeta(r) ==
    /\ rd[r].pc = "checked"
    /\ rd' = [rd EXCEPT ![r].pc = "active", ![r].root = metas[mr_txnid[r] % 2].root]
    /\ UNCHANGED <<file, lockfile, txn, me_pgoldest, fatal, unsynced, faults, history>>

\* The slot gives up its id.
ClearSlot(r) == /\ mr_txnid' = [mr_txnid EXCEPT ![r] = NoTxn]
                /\ rd' = [rd EXCEPT ![r] = IdleReader]
                /\ UNCHANGED <<file, wmutex, owner_dead, mti_txnid, txn, me_pgoldest,
                               fatal, unsynced, faults, history>>

ReaderEnd(r) == rd[r].pc = "active" /\ ClearSlot(r)

\* The reader's process dies; its slot stays until somebody checks the table.
ReaderDies(r) ==
    /\ Fault
    /\ rd[r].pc \notin {"idle", "dead"}
    /\ rd' = [rd EXCEPT ![r] = [IdleReader EXCEPT !.pc = "dead"]]
    /\ UNCHANGED <<file, lockfile, txn, me_pgoldest, fatal, unsynced, history>>

\* mdb_reader_check0 of one slot; the next owner of the slot starts afresh.
ReaderCheck(r) == rd[r].pc = "dead" /\ ClearSlot(r)

-----------------------------------------------------------------------------
(* The writer: mdb_txn_begin up to mdb_txn_commit. *)

\* A step of the open write transaction that touches nothing shared.
Private(w) ==
    /\ wmutex = w /\ w # NoWriter
    /\ UNCHANGED <<file, lockfile, rd, fatal, unsynced, faults, history>>

BeginWrite(w) ==
    /\ wmutex = NoWriter /\ ~owner_dead
    /\ w \notin fatal
    /\ mti_txnid < MaxTxnId
    /\ wmutex' = w
    /\ LET meta == metas[mti_txnid % 2]
       IN  txn' = [pc |-> "body", id |-> mti_txnid + 1, root |-> meta.root,
                   next |-> meta.last_pg + 1, freedb |-> meta.freedb,
                   free |-> {}, head |-> {}, pglast |-> 0, dirty |-> {},
                   want |-> NoKey, found_old |-> FALSE, scan |-> {}, oldest |-> 0,
                   mode |-> "sync"]
    /\ UNCHANGED <<file, mti_txnid, mr_txnid, owner_dead, rd, me_pgoldest, fatal,
                   unsynced, faults, history>>

\* mdb_page_touch of a page that is not dirty yet calls mdb_page_alloc.
Touch(w, k) ==
    /\ Private(w)
    /\ txn.pc = "body" /\ k \notin txn.dirty
    /\ txn' = [txn EXCEPT !.pc = "alloc", !.want = k, !.found_old = FALSE]
    /\ UNCHANGED me_pgoldest

\* The new page takes the place of the old one, which is freed.
PlacePage(p, t) ==
    LET k == txn.want
    IN  [t EXCEPT !.pc = "body", !.want = NoKey, !.root[k] = p,
                  !.dirty = @ \cup {k}, !.free = @ \cup ({txn.root[k]} \ {NoPage})]

\* Records of the freeDB that the transaction has not read yet.
Records == {e[1] : e \in {e \in txn.freedb : e[1] > txn.pglast}}

\* Mutant: pages freed by the oldest snapshot itself are taken as well.
ReclaimableOffByOne(t, oldest) == t <= oldest
\* if (oldest <= last) break;
Reclaimable(t, oldest) == t < oldest

AllocReuse(w) ==
    /\ Private(w)
    /\ txn.pc = "alloc" /\ txn.head # {}
    /\ txn' = PlacePage(Min(txn.head), [txn EXCEPT !.head = @ \ {Min(@)}])
    /\ UNCHANGED me_pgoldest

CanFetch(w) == /\ Reclaimable(txn.pglast + 1, me_pgoldest[w])
               /\ Records # {} => Reclaimable(Min(Records), me_pgoldest[w])

AllocFetch(w) ==
    /\ Private(w)
    /\ txn.pc = "alloc" /\ txn.head = {}
    /\ CanFetch(w) /\ Records # {}
    /\ LET last == Min(Records)
       IN  txn' = [txn EXCEPT !.pglast = last,
                              !.head = {e[2] : e \in {e \in txn.freedb : e[1] = last}}]
    /\ UNCHANGED me_pgoldest

\* mdb_find_oldest, once per allocation, reads the table slot by slot.
FindOldest(w) ==
    /\ Private(w)
    /\ txn.pc = "alloc" /\ txn.head = {}
    /\ ~CanFetch(w) /\ ~txn.found_old
    /\ txn' = [txn EXCEPT !.pc = "scan", !.scan = Readers, !.oldest = txn.id - 1]
    /\ UNCHANGED me_pgoldest

\* if (oldest > mr) oldest = mr;
OlderOf(r) == IF txn.oldest > mr_txnid[r] THEN mr_txnid[r] ELSE txn.oldest

ScanReader(w, r) ==
    /\ Private(w)
    /\ txn.pc = "scan" /\ r \in txn.scan
    /\ txn' = [txn EXCEPT !.scan = @ \ {r}, !.oldest = OlderOf(r)]
    /\ UNCHANGED me_pgoldest

OldestFound(w) ==
    /\ Private(w)
    /\ txn.pc = "scan" /\ txn.scan = {}
    /\ me_pgoldest' = [me_pgoldest EXCEPT ![w] = txn.oldest]
    /\ txn' = [txn EXCEPT !.pc = "alloc", !.found_old = TRUE]

\* Nothing to reclaim: a new page of the map, or MDB_MAP_FULL, after which the
\* transaction can only abort.
AllocNew(w) ==
    /\ Private(w)
    /\ txn.pc = "alloc" /\ txn.head = {}
    /\ IF CanFetch(w) THEN Records = {} ELSE txn.found_old
    /\ IF txn.next + 1 >= MaxPg
       THEN txn' = [txn EXCEPT !.pc = "error"]
       ELSE txn' = PlacePage(txn.next, [txn EXCEPT !.next = @ + 1])
    /\ UNCHANGED me_pgoldest

\* Mutant: the records that were read are kept.
FreelistKept == txn.freedb \cup {<<txn.id, p>> : p \in txn.free}
\* mdb_freelist_save: delete the records that were read, return what is left of
\* them under the last of their ids, and add the pages freed here.
SavedFreelist == {e \in txn.freedb : e[1] > txn.pglast}
                 \cup {<<txn.pglast, p>> : p \in txn.head}
                 \cup {<<txn.id, p>> : p \in txn.free}

\* mdb_txn_commit: freelist, then the dirty pages.
Flush(w, m) ==
    /\ wmutex = w /\ txn.pc = "body" /\ txn.dirty # {}
    /\ txn' = [txn EXCEPT !.pc = "flushed", !.freedb = SavedFreelist, !.mode = m]
    /\ LET written == [p \in {txn.root[k] : k \in txn.dirty} |->
                          <<CHOOSE k \in txn.dirty : txn.root[k] = p, faults, txn.id>>]
       IN  /\ page' = [p \in Pages |-> IF p \in DOMAIN written THEN written[p] ELSE page[p]]
           /\ pageDisk' = [p \in Pages |-> IF p \in DOMAIN written
                                           THEN pageDisk[p] \cup {written[p]} ELSE pageDisk[p]]
    /\ UNCHANGED <<metas, metaDisk, lockfile, rd, me_pgoldest, fatal, unsynced,
                   faults, history>>

\* fdatasync: everything written so far is on disk.
SyncFile == /\ pageDisk' = [p \in Pages |-> {page[p]}]
            /\ metaDisk' = [i \in 0..1 |-> {metas[i]}]
            /\ unsynced' = FALSE
            /\ durable' = Newest.txnid + 1
            /\ UNCHANGED <<page, metas, log, returned>>

\* Mutant: a commit without MDB_NOSYNC does not wait for its pages either.
NeverSyncs(m) == FALSE
SyncsData(m) == m # "nosync"

SyncData(w) ==
    /\ wmutex = w /\ txn.pc = "flushed"
    /\ txn' = [txn EXCEPT !.pc = "synced"]
    /\ IF SyncsData(txn.mode) THEN SyncFile
       ELSE UNCHANGED <<file, unsynced, history>>
    /\ UNCHANGED <<lockfile, rd, me_pgoldest, fatal, faults>>

\* mdb_txn_end of a write transaction: the writer mutex is released.
Release == txn' = Idle /\ wmutex' = NoWriter

\* mdb_txn_abort, by the application or after an error in the body.
AbortWrite(w) ==
    /\ wmutex = w /\ txn.pc \in {"body", "error"}
    /\ Release
    /\ UNCHANGED <<file, mti_txnid, mr_txnid, owner_dead, rd, me_pgoldest, fatal,
                   unsynced, faults, history>>

\* Flushing or syncing fails.
CommitFails(w) ==
    /\ Fault
    /\ wmutex = w /\ txn.pc = "flushed"
    /\ Release
    /\ UNCHANGED <<file, mti_txnid, mr_txnid, owner_dead, rd, me_pgoldest, fatal,
                   unsynced, history>>

\* Mutant: the newer meta page is overwritten.
SameToggle(id) == (id + 1) % 2
Toggle(id) == id % 2

NewMeta == [txnid |-> txn.id, root |-> txn.root, last_pg |-> txn.next - 1,
            freedb |-> txn.freedb]

WriteMeta(w) ==
    /\ wmutex = w /\ txn.pc = "synced"
    /\ txn' = [txn EXCEPT !.pc = "written"]
    /\ metas' = [metas EXCEPT ![Toggle(txn.id)] = NewMeta]
    /\ metaDisk' = [metaDisk EXCEPT ![Toggle(txn.id)] = @ \cup {NewMeta}]
    /\ unsynced' = (unsynced \/ txn.mode = "nosync")
    /\ log' = Append(log, View(txn.root))
    /\ UNCHANGED <<page, pageDisk, lockfile, rd, me_pgoldest, fatal, faults,
                   returned, durable>>

\* The write fails: the old id and last page are put back, the rest stays, and
\* this process may not write again.  Whether they were put back is not looked
\* at; if not, the page has the old or the new contents.  The two writes are one
\* step: to die between them is WriteMeta, then WriterDies.
WriteMetaFails(w) ==
    /\ MetaWriteCanFail
    /\ Fault
    /\ wmutex = w /\ txn.pc = "synced"
    /\ LET i == Toggle(txn.id)
           restored == [NewMeta EXCEPT !.txnid = metas[i].txnid, !.last_pg = metas[i].last_pg]
       IN  /\ \E m \in {restored} \cup {x \in {metas[i], NewMeta} : RestoreCanFail} :
                 metas' = [metas EXCEPT ![i] = m]
           /\ metaDisk' = [metaDisk EXCEPT ![i] = @ \cup {NewMeta, restored}]
    /\ fatal' = fatal \cup {w}
    /\ Release
    /\ UNCHANGED <<page, pageDisk, mti_txnid, mr_txnid, owner_dead, rd, me_pgoldest,
                   unsynced, history>>

\* The meta page is on disk, unless its sync was waived, and readers get the id.
PublishTxn(w) ==
    /\ wmutex = w /\ txn.pc = "written"
    /\ txn' = [txn EXCEPT !.pc = "done"]
    /\ metaDisk' = IF txn.mode = "sync"
                   THEN [metaDisk EXCEPT ![Toggle(txn.id)] = {metas[Toggle(txn.id)]}]
                   ELSE metaDisk
    /\ mti_txnid' = txn.id
    /\ UNCHANGED <<page, metas, pageDisk, mr_txnid, wmutex, owner_dead, rd,
                   me_pgoldest, fatal, unsynced, faults, history>>

CommitReturns(w) ==
    /\ wmutex = w /\ txn.pc = "done"
    /\ Release
    /\ returned' = Len(log)
    /\ durable' = IF txn.mode = "sync" THEN Len(log) ELSE durable
    /\ UNCHANGED <<file, mti_txnid, mr_txnid, owner_dead, rd, me_pgoldest, fatal,
                   unsynced, faults, log>>

\* mdb_env_sync(force) by any process at any time.
EnvSync ==
    /\ SyncFile
    /\ UNCHANGED <<lockfile, rd, txn, me_pgoldest, fatal, faults>>

-----------------------------------------------------------------------------
(* Crashes. *)

\* The writing process dies wherever it is; another takes its place.
WriterDies(w) ==
    /\ Fault
    /\ wmutex = w /\ w # NoWriter
    /\ Release
    /\ owner_dead' = TRUE
    /\ me_pgoldest' = [me_pgoldest EXCEPT ![w] = 0]
    /\ UNCHANGED <<file, mti_txnid, mr_txnid, rd, fatal, unsynced, history>>

\* Mutant: the id in the lock file is left alone.
RecoveredIdStale == mti_txnid
RecoveredId == Newest.txnid

\* mdb_mutex_failed: the next locker repairs the lock file and the table.
MutexFailed ==
    /\ owner_dead
    /\ owner_dead' = FALSE
    /\ mti_txnid' = RecoveredId
    /\ LET dead == {r \in Readers : rd[r].pc = "dead"}
       IN  /\ mr_txnid' = [r \in Readers |-> IF r \in dead THEN NoTxn ELSE mr_txnid[r]]
           /\ rd' = [r \in Readers |-> IF r \in dead THEN IdleReader ELSE rd[r]]
    /\ UNCHANGED <<file, wmutex, txn, me_pgoldest, fatal, unsynced, faults, history>>

\* The machine stops: of every page the disk has one of the contents written
\* since the last sync.  The environment is opened again from the newer meta
\* page.  Not modelled after an MDB_NOSYNC commit, which waives recovery, nor
\* after a failed write of a meta page, whose commit may be on disk or not.
\* A page that is uncertain reads as Blank.
Crash ==
    /\ MachineCanCrash /\ ~unsynced /\ fatal = {}
    /\ Fault
    /\ \E m0 \in metaDisk[0], m1 \in metaDisk[1] :
          LET id == Newer(m0, m1).txnid
          IN  /\ metas' = [i \in 0..1 |-> IF i = 0 THEN m0 ELSE m1]
              /\ metaDisk' = [i \in 0..1 |-> IF i = 0 THEN {m0} ELSE {m1}]
              /\ mti_txnid' = id
              /\ log' = SubSeq(log, 1, id + 1)
              /\ returned' = id + 1
              /\ durable' = id + 1
    /\ page' = [p \in Pages |-> IF Cardinality(pageDisk[p]) = 1
                                THEN CHOOSE c \in pageDisk[p] : TRUE ELSE Blank]
    /\ pageDisk' = [p \in Pages |-> {page'[p]}]
    /\ mr_txnid' = [r \in Readers |-> NoTxn]
    /\ rd' = [r \in Readers |-> IdleReader]
    /\ Release
    /\ owner_dead' = FALSE
    /\ me_pgoldest' = [w \in Writers |-> 0]
    /\ fatal' = {}
    /\ UNCHANGED unsynced

ReaderNext(r) ==
    \/ ReaderLoad(r) \/ ReaderPublish(r) \/ ReaderRecheck(r) \/ ReaderRetry(r)
    \/ ReaderCopyMeta(r) \/ ReaderEnd(r) \/ ReaderDies(r) \/ ReaderCheck(r)

WriterNext(w) ==
    \/ BeginWrite(w) \/ AllocReuse(w) \/ AllocFetch(w) \/ FindOldest(w)
    \/ OldestFound(w) \/ AllocNew(w) \/ SyncData(w) \/ AbortWrite(w)
    \/ CommitFails(w)
    \/ WriteMeta(w) \/ WriteMetaFails(w) \/ PublishTxn(w) \/ CommitReturns(w)
    \/ WriterDies(w)
    \/ \E k \in Keys : Touch(w, k)
    \/ \E r \in Readers : ScanReader(w, r)
    \/ \E m \in Modes : Flush(w, m)

Next == \/ \E r \in Readers : ReaderNext(r)
        \/ \E w \in Writers : WriterNext(w)
        \/ EnvSync \/ MutexFailed \/ Crash

Spec == Init /\ [][Next]_vars
-----------------------------------------------------------------------------
\* Neither meta page ever refers to a page that was overwritten: the newest
\* state and, unless the machine may crash or the write of a meta page fail, the
\* one before it are whole at every step of a commit.
MetasIntact ==
    \A i \in 0..1 : metas[i] = Newest \/ ~(MachineCanCrash \/ MetaWriteCanFail) =>
        View(metas[i].root) = log[metas[i].txnid + 1]

\* Whatever part of the unsynced writes a crash of the machine keeps, the newer
\* of the two meta pages on disk is a committed state, whole, and no older than
\* what a synced commit or mdb_env_sync promised (not stated after an
\* MDB_NOSYNC commit or a failed write of a meta page).
CrashConsistent ==
    ~unsynced /\ fatal = {} =>
        \A m0 \in metaDisk[0], m1 \in metaDisk[1] :
            LET m == Newer(m0, m1)
            IN  /\ m.txnid + 1 \in durable..Len(log)
                /\ \A k \in Keys : m.root[k] # NoPage =>
                       pageDisk[m.root[k]] = {log[m.txnid + 1][k]}

\* The used and the free pages of the newest state are all the pages below its
\* last one, each once: no page is lost and none is both used and free.
PagesAccounted ==
    LET used == {Newest.root[k] : k \in Keys} \ {NoPage}
        free == {e[2] : e \in Newest.freedb}
    IN  /\ used \cup free = 2..Newest.last_pg
        /\ used \cap free = {}
        /\ Cardinality(Newest.freedb) = Cardinality(free)
        /\ Cardinality(used) = Cardinality({k \in Keys : Newest.root[k] # NoPage})

\* "Write some old data back, to prevent it from being used" (mdb.c:4323): the
\* id that transactions start from is never that of a commit that failed.
FailedCommitUnused == mti_txnid < Len(log)

\* A cached or fresh idea of the oldest reader is never ahead of a reader.
OldestIsOld ==
    \A r \in Readers : rd[r].pc \in {"checked", "active"} =>
        \A w \in Writers : me_pgoldest[w] <= mr_txnid[r]

\* "For a read-only transaction, this corresponds to the snapshot being read"
\* (mdb_txn_id, lmdb.h:1027).
ReaderIdIsSnapshot ==
    \A r \in Readers : rd[r].pc = "active" => View(rd[r].root) = log[mr_txnid[r] + 1]

\* Readers and commits implement the snapshot store: every reader sees one
\* committed state, recent enough, for as long as it is active.
Store == INSTANCE SnapshotStore WITH
    First <- [k \in Keys |-> Blank],
    from <- [r \in Readers |-> rd[r].id + 1],
    view <- [r \in Readers |-> IF rd[r].pc = "active" THEN View(rd[r].root) ELSE NoView]

\* The abstract specification as a property.
ImplementsSnapshotStore == Store!Spec
=============================================================================
