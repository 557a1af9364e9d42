------------------------------ MODULE EnvTxns ------------------------------
(* The transaction machinery of Environment: how threads of one process open *)
(* and close transactions while another thread replaces the memory map.      *)
(*                                                                           *)
(* Sources: transaction_guard.rs (the tx_count / tx_blocker_count handshake),*)
(* transaction.rs (transaction objects), environment.rs (open_db, create_db, *)
(* begin_rw_txn_generic, set_map_size, do_resize and its callback, sync) and *)
(* the part of mdb.c they reach: mdb_env_set_mapsize and the writer mutex.   *)
(*                                                                           *)
(* Each action is one atomic step of one thread: one SeqCst access to a      *)
(* counter, one mutex operation, or one call into LMDB.  A thread is at most *)
(* in one API call, plus the resize callback that the call may run.          *)
EXTENDS Naturals, FiniteSets, Sequences

CONSTANTS
    Threads,          \* threads that share one Environment
    Slots,            \* transaction objects a thread can hold at once (bound)
    NoThread, NoSlot, \* "nobody" and "no object under construction"
    Overlap,          \* may a thread open or resize while it holds a transaction
    MapCanFail,       \* may mmap fail once the old map is gone
    CallbackOpensDb   \* may the resize callback call open_db

ASSUME ConstantsAssumption ==
    /\ IsFiniteSet(Threads) /\ NoThread \notin Threads
    /\ IsFiniteSet(Slots) /\ NoSlot \notin Slots
    /\ {Overlap, MapCanFail, CallbackOpensDb} \subseteq BOOLEAN

VARIABLES
    pc,               \* where each thread is
    call,             \* the public method it is in
    cb,               \* what its resize callback is doing
    slot,             \* the transaction object it is opening or closing
    obj,              \* the Rust object behind each handle
    mdb,              \* the MDB_txn behind each handle
    tx_count, tx_blocker_count,
    db_resize_lock, poisoned, dbi_open_mutex,
    wchain,           \* owner of the writer mutex and its nested transactions
    mapped            \* is env->me_map a live mapping

vars == <<pc, call, cb, slot, obj, mdb, tx_count, tx_blocker_count,
          db_resize_lock, poisoned, dbi_open_mutex, wchain, mapped>>

Handles == Threads \X Slots
H(t) == <<t, slot[t]>>
Held(t) == {h \in Handles : h[1] = t /\ obj[h] # "free"}
FreeSlots(t) == {s \in Slots : obj[<<t, s>>] = "free"}

Calls == {"none", "begin_ro", "begin_rw", "begin_nested", "open_db",
          "create_db", "set_map_size", "do_resize", "sync"}
GuardLocs == {"g_inc", "g_check", "g_backout", "g_poll"}
BlockerLocs == {"rs_drain", "rs_unmap", "rs_map", "rs_unblock", "rs_unblock_err"}
ResizeLocs == {"rs_need", "rs_size", "rs_block", "rs_cb", "rs_ret", "rw_begin",
               "rs_unlock"} \cup BlockerLocs
Locs == {"idle", "dbi_lock", "dbi_unlock", "rs_lock", "ro_begin", "use",
         "g_drop", "sync"} \cup GuardLocs \cup ResizeLocs

\* The handles whose guard is published in tx_count: every object holds one,
\* and so does a guard between its increment and its decrement.
Counted == {h \in Handles : \/ obj[h] # "free"
                            \/ /\ slot[h[1]] = h[2]
                               /\ pc[h[1]] \in {"g_check", "g_backout", "ro_begin", "g_drop"}}

\* What the call (or the callback it is running) opens.
Kind(t) == IF cb[t] = "none" /\ call[t] \in {"begin_rw", "create_db"} THEN "rw"
           ELSE IF cb[t] = "none" /\ call[t] = "begin_nested" THEN "nested"
           ELSE "ro"

\* An MDB_txn begun now reads env->me_metas: it is dangling if nothing is mapped.
Opened == IF mapped THEN "open" ELSE "dangling"

Goto(t, l) == pc' = [pc EXCEPT ![t] = l]

\* The public method returns to the application.
Return(t) == /\ Goto(t, "idle")
             /\ slot' = [slot EXCEPT ![t] = NoSlot]
             /\ call' = [call EXCEPT ![t] = "none"]

-----------------------------------------------------------------------------
Init ==
    /\ pc = [t \in Threads |-> "idle"]
    /\ call = [t \in Threads |-> "none"]
    /\ cb = [t \in Threads |-> "none"]
    /\ slot = [t \in Threads |-> NoSlot]
    /\ obj = [h \in Handles |-> "free"]
    /\ mdb = [h \in Handles |-> "closed"]
    /\ tx_count = 0
    /\ tx_blocker_count = 0
    /\ db_resize_lock = NoThread
    /\ poisoned = FALSE
    /\ dbi_open_mutex = NoThread
    /\ wchain = <<>>
    /\ mapped = TRUE

(* Calls from the application. *)

\* TransactionGuard::new is about to run for a new object of the thread.
StartGuard(t) ==
    \E s \in FreeSlots(t) : slot' = [slot EXCEPT ![t] = s] /\ Goto(t, "g_inc")

MayCall(t) == pc[t] = "idle" /\ FreeSlots(t) # {} /\ (Overlap \/ Held(t) = {})

BeginRo(t) ==
    /\ MayCall(t)
    /\ call' = [call EXCEPT ![t] = "begin_ro"]
    /\ StartGuard(t)
    /\ UNCHANGED <<cb, obj, mdb, tx_count, tx_blocker_count, db_resize_lock,
                   poisoned, dbi_open_mutex, wchain, mapped>>

CallMethod(t, c, l) ==
    /\ MayCall(t)
    /\ call' = [call EXCEPT ![t] = c]
    /\ Goto(t, l)
    /\ UNCHANGED <<cb, slot, obj, mdb, tx_count, tx_blocker_count,
                   db_resize_lock, poisoned, dbi_open_mutex, wchain, mapped>>

\* Mutant: set_map_size without the resize lock.
SetMapSizeUnlocked(t) == CallMethod(t, "set_map_size", "rs_block")

BeginRw(t) == CallMethod(t, "begin_rw", "rs_lock")
OpenDb(t) == CallMethod(t, "open_db", "dbi_lock")
CreateDb(t) == CallMethod(t, "create_db", "dbi_lock")
SetMapSize(t) == CallMethod(t, "set_map_size", "rs_lock")
DoResize(t) == CallMethod(t, "do_resize", "rs_lock")
Sync(t) == CallMethod(t, "sync", "sync")

\* begin_nested_txn: the MDB_txn is begun first, with no lock held, and the
\* guard is taken afterwards.  The parent is the innermost write transaction.
BeginNested(t) ==
    /\ MayCall(t)
    /\ wchain # <<>>
    /\ wchain[Len(wchain)] \in Held(t)
    /\ call' = [call EXCEPT ![t] = "begin_nested"]
    /\ StartGuard(t)
    /\ mdb' = [mdb EXCEPT ![<<t, slot'[t]>>] = Opened]
    /\ wchain' = Append(wchain, <<t, slot'[t]>>)
    /\ UNCHANGED <<cb, obj, tx_count, tx_blocker_count, db_resize_lock,
                   poisoned, dbi_open_mutex, mapped>>

\* mdb_env_sync: mdb_env_pick_meta dereferences env->me_metas, unguarded.
SyncReadsMeta(t) ==
    /\ pc[t] = "sync"
    /\ Return(t)
    /\ UNCHANGED <<cb, obj, mdb, tx_count, tx_blocker_count, db_resize_lock,
                   poisoned, dbi_open_mutex, wchain, mapped>>

-----------------------------------------------------------------------------
(* TransactionGuard. *)

\* Mutant: the guard is taken without looking for a pending resize.
BlockerIgnored == FALSE
\* The load of tx_blocker_count that follows the increment of tx_count.
BlockerSeen == tx_blocker_count # 0

GuardIncr(t) ==
    /\ pc[t] = "g_inc"
    /\ tx_count' = tx_count + 1
    /\ Goto(t, "g_check")
    /\ UNCHANGED <<call, cb, slot, obj, mdb, tx_blocker_count, db_resize_lock,
                   poisoned, dbi_open_mutex, wchain, mapped>>

\* A resize is pending: the increment is backed out below.
GuardBlocked(t) ==
    /\ pc[t] = "g_check"
    /\ BlockerSeen
    /\ Goto(t, "g_backout")
    /\ UNCHANGED <<call, cb, slot, obj, mdb, tx_count, tx_blocker_count,
                   db_resize_lock, poisoned, dbi_open_mutex, wchain, mapped>>

\* No blocker, so the guard exists.  A read-only transaction is begun under it;
\* a write transaction has been begun already and its object is now complete.
GuardAdmitsRo(t) ==
    /\ pc[t] = "g_check"
    /\ ~BlockerSeen
    /\ Kind(t) = "ro"
    /\ Goto(t, "ro_begin")
    /\ UNCHANGED <<call, cb, slot, obj, mdb, tx_count, tx_blocker_count,
                   db_resize_lock, poisoned, dbi_open_mutex, wchain, mapped>>

GuardAdmitsRw(t) ==
    /\ pc[t] = "g_check"
    /\ ~BlockerSeen
    /\ Kind(t) = "rw"
    /\ obj' = [obj EXCEPT ![H(t)] = "rw"]
    /\ Goto(t, "rs_unlock")
    /\ UNCHANGED <<call, cb, slot, mdb, tx_count, tx_blocker_count,
                   db_resize_lock, poisoned, dbi_open_mutex, wchain, mapped>>

GuardAdmitsNested(t) ==
    /\ pc[t] = "g_check"
    /\ ~BlockerSeen
    /\ Kind(t) = "nested"
    /\ obj' = [obj EXCEPT ![H(t)] = "nested"]
    /\ Return(t)
    /\ UNCHANGED <<cb, mdb, tx_count, tx_blocker_count, db_resize_lock,
                   poisoned, dbi_open_mutex, wchain, mapped>>

\* Mutant: the count stays published while the guard waits for the resize.
GuardBackOutKeepsCount(t) ==
    /\ pc[t] = "g_backout"
    /\ Goto(t, "g_poll")
    /\ UNCHANGED <<call, cb, slot, obj, mdb, tx_count, tx_blocker_count,
                   db_resize_lock, poisoned, dbi_open_mutex, wchain, mapped>>

GuardBackOut(t) ==
    /\ pc[t] = "g_backout"
    /\ tx_count' = tx_count - 1
    /\ Goto(t, "g_poll")
    /\ UNCHANGED <<call, cb, slot, obj, mdb, tx_blocker_count, db_resize_lock,
                   poisoned, dbi_open_mutex, wchain, mapped>>

\* Mutant: the wait watches the wrong counter.
ResizeOverMutant == tx_count = 0
\* The polled condition of the back-off loop.
ResizeOver == tx_blocker_count = 0

GuardPoll(t) ==
    /\ pc[t] = "g_poll"
    /\ ResizeOver
    /\ Goto(t, "g_inc")
    /\ UNCHANGED <<call, cb, slot, obj, mdb, tx_count, tx_blocker_count,
                   db_resize_lock, poisoned, dbi_open_mutex, wchain, mapped>>

\* The guard's Drop: the last field of a transaction object to go.  Control
\* returns to the callback, to open_db / create_db, or to the application.
GuardDrop(t) ==
    /\ pc[t] = "g_drop"
    /\ tx_count' = tx_count - 1
    /\ slot' = [slot EXCEPT ![t] = NoSlot]
    /\ LET inDb == cb[t] = "open_db" \/ (cb[t] = "none" /\ call[t] \in {"open_db", "create_db"})
           l == IF inDb THEN "dbi_unlock" ELSE IF cb[t] # "none" THEN "rs_ret" ELSE "idle"
       IN  /\ Goto(t, l)
           /\ call' = [call EXCEPT ![t] = IF l = "idle" THEN "none" ELSE @]
    /\ UNCHANGED <<cb, obj, mdb, tx_blocker_count, db_resize_lock, poisoned,
                   dbi_open_mutex, wchain, mapped>>

-----------------------------------------------------------------------------
(* Transaction objects. *)

\* mdb_txn_begin(MDB_RDONLY) under the guard.  A thread whose reader slot is in
\* use gets MDB_BAD_RSLOT; any begin may fail (readers full, map resized).
HasActiveReader(t) == \E h \in Held(t) : obj[h] = "ro"

RoBegin(t) ==
    /\ pc[t] = "ro_begin"
    /\ ~HasActiveReader(t)
    /\ mdb' = [mdb EXCEPT ![H(t)] = Opened]
    /\ obj' = [obj EXCEPT ![H(t)] = "ro"]
    /\ IF cb[t] = "none" /\ call[t] = "begin_ro"
       THEN Return(t)
       ELSE Goto(t, "use") /\ UNCHANGED <<slot, call>>
    /\ UNCHANGED <<cb, tx_count, tx_blocker_count, db_resize_lock, poisoned,
                   dbi_open_mutex, wchain, mapped>>

RoBeginFails(t) ==
    /\ pc[t] = "ro_begin"
    /\ Goto(t, "g_drop")
    /\ UNCHANGED <<call, cb, slot, obj, mdb, tx_count, tx_blocker_count,
                   db_resize_lock, poisoned, dbi_open_mutex, wchain, mapped>>

\* mdb_txn_commit or mdb_txn_abort of a handle; a write transaction leaves the
\* chain, and the outermost one releases the writer mutex.
EndTxn(h) ==
    /\ obj' = [obj EXCEPT ![h] = "free"]
    /\ mdb' = [mdb EXCEPT ![h] = "closed"]
    /\ wchain' = IF wchain # <<>> /\ wchain[Len(wchain)] = h
                 THEN SubSeq(wchain, 1, Len(wchain) - 1) ELSE wchain

\* The transaction that open_db, create_db or the callback opened for itself.
FinishInternal(t) ==
    /\ pc[t] = "use"
    /\ EndTxn(H(t))
    /\ Goto(t, "g_drop")
    /\ UNCHANGED <<call, cb, slot, tx_count, tx_blocker_count, db_resize_lock,
                   poisoned, dbi_open_mutex, mapped>>

\* commit, abort or drop by the application.  A parent is borrowed by its
\* nested transaction, so only the innermost write transaction can end.
Close(t, h) ==
    /\ pc[t] = "idle"
    /\ h \in Held(t)
    /\ (\E i \in 1..Len(wchain) : wchain[i] = h) => wchain[Len(wchain)] = h
    /\ EndTxn(h)
    /\ slot' = [slot EXCEPT ![t] = h[2]]
    /\ Goto(t, "g_drop")
    /\ UNCHANGED <<call, cb, tx_count, tx_blocker_count, db_resize_lock,
                   poisoned, dbi_open_mutex, mapped>>

\* Mutant: reset copies the guard out and also lets the old object drop it.
ResetDropsGuard(t, h) ==
    /\ pc[t] = "idle"
    /\ h \in Held(t) /\ obj[h] = "ro"
    /\ obj' = [obj EXCEPT ![h] = "inactive"]
    /\ mdb' = [mdb EXCEPT ![h] = "closed"]
    /\ tx_count' = tx_count - 1
    /\ UNCHANGED <<pc, call, cb, slot, tx_blocker_count, db_resize_lock,
                   poisoned, dbi_open_mutex, wchain, mapped>>

\* RoTransaction::reset carries the guard over to the InactiveTransaction.
Reset(t, h) ==
    /\ pc[t] = "idle"
    /\ h \in Held(t) /\ obj[h] = "ro"
    /\ obj' = [obj EXCEPT ![h] = "inactive"]
    /\ mdb' = [mdb EXCEPT ![h] = "closed"]
    /\ UNCHANGED <<pc, call, cb, slot, tx_count, tx_blocker_count,
                   db_resize_lock, poisoned, dbi_open_mutex, wchain, mapped>>

\* Mutant: renew takes a second guard for the same transaction.
RenewCountsTwice(t, h) ==
    /\ pc[t] = "idle"
    /\ h \in Held(t) /\ obj[h] = "inactive"
    /\ ~HasActiveReader(t)
    /\ obj' = [obj EXCEPT ![h] = "ro"]
    /\ mdb' = [mdb EXCEPT ![h] = Opened]
    /\ tx_count' = tx_count + 1
    /\ UNCHANGED <<pc, call, cb, slot, tx_blocker_count, db_resize_lock,
                   poisoned, dbi_open_mutex, wchain, mapped>>

\* InactiveTransaction::renew reuses that guard; on failure the handle is
\* aborted and the guard dropped.
Renew(t, h) ==
    /\ pc[t] = "idle"
    /\ h \in Held(t) /\ obj[h] = "inactive"
    /\ ~HasActiveReader(t)
    /\ obj' = [obj EXCEPT ![h] = "ro"]
    /\ mdb' = [mdb EXCEPT ![h] = Opened]
    /\ UNCHANGED <<pc, call, cb, slot, tx_count, tx_blocker_count,
                   db_resize_lock, poisoned, dbi_open_mutex, wchain, mapped>>

RenewFails(t, h) ==
    /\ pc[t] = "idle"
    /\ h \in Held(t) /\ obj[h] = "inactive"
    /\ obj' = [obj EXCEPT ![h] = "free"]
    /\ slot' = [slot EXCEPT ![t] = h[2]]
    /\ Goto(t, "g_drop")
    /\ UNCHANGED <<call, cb, mdb, tx_count, tx_blocker_count, db_resize_lock,
                   poisoned, dbi_open_mutex, wchain, mapped>>

-----------------------------------------------------------------------------
(* open_db and create_db: the handle mutex around a transaction. *)

OpenDbLock(t) ==
    /\ pc[t] = "dbi_lock" /\ Kind(t) = "ro"
    /\ dbi_open_mutex = NoThread
    /\ dbi_open_mutex' = t
    /\ StartGuard(t)
    /\ UNCHANGED <<call, cb, obj, mdb, tx_count, tx_blocker_count,
                   db_resize_lock, poisoned, wchain, mapped>>

CreateDbLock(t) ==
    /\ pc[t] = "dbi_lock" /\ Kind(t) = "rw"
    /\ dbi_open_mutex = NoThread
    /\ dbi_open_mutex' = t
    /\ Goto(t, "rs_lock")
    /\ UNCHANGED <<call, cb, slot, obj, mdb, tx_count, tx_blocker_count,
                   db_resize_lock, poisoned, wchain, mapped>>

DbiUnlock(t) ==
    /\ pc[t] = "dbi_unlock"
    /\ dbi_open_mutex' = NoThread
    /\ IF cb[t] = "none"
       THEN Goto(t, "idle") /\ call' = [call EXCEPT ![t] = "none"]
       ELSE Goto(t, "rs_ret") /\ UNCHANGED call
    /\ UNCHANGED <<cb, slot, obj, mdb, tx_count, tx_blocker_count,
                   db_resize_lock, poisoned, wchain, mapped>>

-----------------------------------------------------------------------------
(* Replacing the map, always under db_resize_lock. *)

\* Where a call continues once it has given db_resize_lock back.
AfterResize(t) == IF call[t] # "create_db" THEN "idle"
                  ELSE IF slot[t] # NoSlot THEN "use" ELSE "dbi_unlock"

LeaveResize(t) ==
    /\ Goto(t, AfterResize(t))
    /\ slot' = [slot EXCEPT ![t] = IF AfterResize(t) = "use" THEN @ ELSE NoSlot]
    /\ call' = [call EXCEPT ![t] = IF AfterResize(t) = "idle" THEN "none" ELSE @]

\* Mutant: the lock is taken even when an earlier resize panicked.
PoisonIgnored == FALSE
\* What lock() reports once a holder has panicked.
LockIsPoisoned == poisoned

\* lock().expect(..): a poisoned lock panics and the guard inside the error is
\* dropped at once.
ResizeLockPanics(t) ==
    /\ pc[t] = "rs_lock"
    /\ db_resize_lock = NoThread
    /\ LockIsPoisoned
    /\ LeaveResize(t)
    /\ UNCHANGED <<cb, obj, mdb, tx_count, tx_blocker_count, db_resize_lock,
                   poisoned, dbi_open_mutex, wchain, mapped>>

ResizeLock(t) ==
    /\ pc[t] = "rs_lock"
    /\ db_resize_lock = NoThread
    /\ ~LockIsPoisoned
    /\ db_resize_lock' = t
    /\ Goto(t, IF call[t] = "set_map_size" THEN "rs_block"
               ELSE IF call[t] = "do_resize" THEN "rs_size" ELSE "rs_need")
    /\ UNCHANGED <<call, cb, slot, obj, mdb, tx_count, tx_blocker_count,
                   poisoned, dbi_open_mutex, wchain, mapped>>

\* resize_db_if_necessary: any number of resizes before the transaction begins
\* (module ResizePolicy has the arithmetic).
NeedsResize(t) ==
    /\ pc[t] = "rs_need"
    /\ Goto(t, "rs_size") \/ Goto(t, "rw_begin")
    /\ UNCHANGED <<call, cb, slot, obj, mdb, tx_count, tx_blocker_count,
                   db_resize_lock, poisoned, dbi_open_mutex, wchain, mapped>>

\* do_resize_locked up to the free-space check, which may return an error.
CheckSpace(t) ==
    /\ pc[t] = "rs_size"
    /\ Goto(t, "rs_block") \/ Goto(t, "rs_unlock")
    /\ UNCHANGED <<call, cb, slot, obj, mdb, tx_count, tx_blocker_count,
                   db_resize_lock, poisoned, dbi_open_mutex, wchain, mapped>>

\* A panic while the lock is held: checked arithmetic, assertions, the callback.
Panic(t) ==
    /\ pc[t] \in {"rs_need", "rs_size", "rs_cb"}
    /\ poisoned' = TRUE
    /\ Goto(t, "rs_unlock")
    /\ UNCHANGED <<call, cb, slot, obj, mdb, tx_count, tx_blocker_count,
                   db_resize_lock, dbi_open_mutex, wchain, mapped>>

Block(t) ==
    /\ pc[t] = "rs_block"
    /\ tx_blocker_count' = tx_blocker_count + 1
    /\ Goto(t, "rs_drain")
    /\ UNCHANGED <<call, cb, slot, obj, mdb, tx_count, db_resize_lock,
                   poisoned, dbi_open_mutex, wchain, mapped>>

\* Mutant: off by one in the wait for live transactions.
DrainedToOne == tx_count <= 1
\* wait_for_transactions_to_finish has seen the last guard go.
Drained == tx_count = 0

Drain(t) ==
    /\ pc[t] = "rs_drain"
    /\ Drained
    /\ Goto(t, "rs_unmap")
    /\ UNCHANGED <<call, cb, slot, obj, mdb, tx_count, tx_blocker_count,
                   db_resize_lock, poisoned, dbi_open_mutex, wchain, mapped>>

\* mdb_env_set_mapsize: refuses while a write transaction is open; leaves an
\* absent map absent (and reports success); otherwise unmaps the file.
Unmap(t) ==
    /\ pc[t] = "rs_unmap"
    /\ IF mapped /\ wchain # <<>>
       THEN Goto(t, "rs_unblock_err") /\ UNCHANGED <<mapped, mdb>>
       ELSE IF mapped
       THEN /\ mapped' = FALSE
            /\ mdb' = [h \in Handles |-> IF mdb[h] = "open" THEN "dangling" ELSE mdb[h]]
            /\ Goto(t, "rs_map")
       ELSE Goto(t, "rs_unblock") /\ UNCHANGED <<mapped, mdb>>
    /\ UNCHANGED <<call, cb, slot, obj, tx_count, tx_blocker_count,
                   db_resize_lock, poisoned, dbi_open_mutex, wchain>>

\* Mutant: the callback runs while the blocker is still alive.
MapThenCallback(t) ==
    /\ pc[t] = "rs_map"
    /\ mapped' = TRUE
    /\ Goto(t, "rs_cb")
    /\ UNCHANGED <<call, cb, slot, obj, mdb, tx_count, tx_blocker_count,
                   db_resize_lock, poisoned, dbi_open_mutex, wchain>>

\* mdb_env_map: on failure me_map is NULL and nothing restores the old mapping.
Map(t) ==
    /\ pc[t] = "rs_map"
    /\ \/ mapped' = TRUE /\ Goto(t, "rs_unblock")
       \/ MapCanFail /\ Goto(t, "rs_unblock_err") /\ UNCHANGED mapped
    /\ UNCHANGED <<call, cb, slot, obj, mdb, tx_count, tx_blocker_count,
                   db_resize_lock, poisoned, dbi_open_mutex, wchain>>

\* The blocker's Drop, on the normal and on the error return.
Unblock(t) ==
    /\ pc[t] \in {"rs_unblock", "rs_unblock_err"}
    /\ tx_blocker_count' = tx_blocker_count - 1
    /\ Goto(t, IF pc[t] = "rs_unblock" /\ call[t] # "set_map_size"
               THEN "rs_cb" ELSE "rs_unlock")
    /\ UNCHANGED <<call, cb, slot, obj, mdb, tx_count, db_resize_lock,
                   poisoned, dbi_open_mutex, wchain, mapped>>

\* The resize callback, if there is one, may open a read-only transaction, or
\* a database handle, before it returns.
NoCallback(t) ==
    /\ pc[t] = "rs_cb"
    /\ Goto(t, "rs_ret")
    /\ UNCHANGED <<call, cb, slot, obj, mdb, tx_count, tx_blocker_count,
                   db_resize_lock, poisoned, dbi_open_mutex, wchain, mapped>>

CallbackBeginsRo(t) ==
    /\ pc[t] = "rs_cb"
    /\ cb' = [cb EXCEPT ![t] = "begin_ro"]
    /\ StartGuard(t)
    /\ UNCHANGED <<call, obj, mdb, tx_count, tx_blocker_count, db_resize_lock,
                   poisoned, dbi_open_mutex, wchain, mapped>>

CallbackOpens(t) ==
    /\ pc[t] = "rs_cb"
    /\ CallbackOpensDb
    /\ cb' = [cb EXCEPT ![t] = "open_db"]
    /\ Goto(t, "dbi_lock")
    /\ UNCHANGED <<call, slot, obj, mdb, tx_count, tx_blocker_count,
                   db_resize_lock, poisoned, dbi_open_mutex, wchain, mapped>>

CallbackReturn(t) ==
    /\ pc[t] = "rs_ret"
    /\ cb' = [cb EXCEPT ![t] = "none"]
    /\ Goto(t, IF call[t] = "do_resize" THEN "rs_unlock" ELSE "rs_need")
    /\ UNCHANGED <<call, slot, obj, mdb, tx_count, tx_blocker_count,
                   db_resize_lock, poisoned, dbi_open_mutex, wchain, mapped>>

\* RwTransaction::new: mdb_txn_begin waits for the writer mutex while
\* db_resize_lock is held; the guard follows.
RwBegin(t) ==
    /\ pc[t] = "rw_begin"
    /\ wchain = <<>>
    /\ StartGuard(t)
    /\ mdb' = [mdb EXCEPT ![<<t, slot'[t]>>] = Opened]
    /\ wchain' = Append(wchain, <<t, slot'[t]>>)
    /\ UNCHANGED <<call, cb, obj, tx_count, tx_blocker_count, db_resize_lock,
                   poisoned, dbi_open_mutex, mapped>>

RwBeginFails(t) ==
    /\ pc[t] = "rw_begin"
    /\ wchain = <<>>
    /\ Goto(t, "rs_unlock")
    /\ UNCHANGED <<call, cb, slot, obj, mdb, tx_count, tx_blocker_count,
                   db_resize_lock, poisoned, dbi_open_mutex, wchain, mapped>>

ResizeUnlock(t) ==
    /\ pc[t] = "rs_unlock"
    /\ db_resize_lock' = NoThread
    /\ LeaveResize(t)
    /\ UNCHANGED <<cb, obj, mdb, tx_count, tx_blocker_count, poisoned,
                   dbi_open_mutex, wchain, mapped>>

-----------------------------------------------------------------------------
AppCall(t) == \/ BeginRo(t) \/ BeginRw(t) \/ BeginNested(t) \/ OpenDb(t)
              \/ CreateDb(t) \/ SetMapSize(t) \/ DoResize(t) \/ Sync(t)

GuardStep(t) == \/ GuardIncr(t) \/ GuardBlocked(t) \/ GuardAdmitsRo(t)
                \/ GuardAdmitsRw(t) \/ GuardAdmitsNested(t)
                \/ GuardBackOut(t) \/ GuardPoll(t) \/ GuardDrop(t)

TxnStep(t) == \/ RoBegin(t) \/ RoBeginFails(t) \/ FinishInternal(t)
              \/ OpenDbLock(t) \/ CreateDbLock(t) \/ DbiUnlock(t)
              \/ RwBegin(t) \/ RwBeginFails(t) \/ SyncReadsMeta(t)

ResizeStep(t) == \/ ResizeLock(t) \/ ResizeLockPanics(t) \/ NeedsResize(t)
                 \/ CheckSpace(t) \/ Panic(t) \/ Block(t) \/ Drain(t)
                 \/ Unmap(t) \/ Map(t) \/ Unblock(t) \/ NoCallback(t)
                 \/ CallbackBeginsRo(t) \/ CallbackOpens(t)
                 \/ CallbackReturn(t) \/ ResizeUnlock(t)

CallStep(t) == GuardStep(t) \/ TxnStep(t) \/ ResizeStep(t)

AppStep(t, h) == Close(t, h) \/ Reset(t, h) \/ Renew(t, h) \/ RenewFails(t, h)

Next == \E t \in Threads :
            \/ AppCall(t)
            \/ CallStep(t)
            \/ \E h \in Handles : AppStep(t, h)

Spec == Init /\ [][Next]_vars

\* A thread inside a call keeps running, and an application that holds a
\* transaction ends it at some point (the documented duty of its owner).
Fairness == \A t \in Threads :
                /\ WF_vars(CallStep(t))
                /\ \A h \in Handles : WF_vars(Close(t, h))

FairSpec == Spec /\ Fairness
-----------------------------------------------------------------------------
(* Properties. *)

\* Every variable has its type; the counters, unsigned in the code, never wrap.
TypeOK ==
    /\ pc \in [Threads -> Locs]
    /\ call \in [Threads -> Calls]
    /\ cb \in [Threads -> {"none", "begin_ro", "open_db"}]
    /\ slot \in [Threads -> Slots \cup {NoSlot}]
    /\ obj \in [Handles -> {"free", "ro", "inactive", "rw", "nested"}]
    /\ mdb \in [Handles -> {"closed", "open", "dangling"}]
    /\ tx_count \in Nat
    /\ tx_blocker_count \in Nat
    /\ db_resize_lock \in Threads \cup {NoThread}
    /\ poisoned \in BOOLEAN
    /\ dbi_open_mutex \in Threads \cup {NoThread}
    /\ wchain \in Seq(Handles)
    /\ mapped \in BOOLEAN

\* The interlock of set_map_size_locked: while a thread is inside
\* mdb_env_set_mapsize no transaction of the process is open, however guards,
\* resets, renewals, nested transactions and failed begins interleave with it.
RemapExclusive ==
    \A t \in Threads : pc[t] \in {"rs_unmap", "rs_map"} =>
        \A h \in Handles : mdb[h] = "closed"

\* No transaction reads through a mapping that has been replaced or is absent.
TxnOnLiveMap == \A h \in Handles : mdb[h] # "dangling"

\* tx_count is exactly the number of guards that exist: none is leaked or
\* counted twice on any path, reset / renew and failed begins included.
TxCountExact == tx_count = Cardinality(Counted)

\* Every blocker is created under db_resize_lock: there is at most one, and it
\* is alive exactly while its owner is between Block and Unblock.
BlockerSingleOwner ==
    tx_blocker_count = Cardinality({t \in Threads : pc[t] \in BlockerLocs})
    /\ tx_blocker_count <= 1

\* A panic during a resize leaks nothing that others wait for: the blocker is
\* gone, and the lock is on its way out and never used again.
PanicLeaksNothing ==
    poisoned => /\ tx_blocker_count = 0
                /\ db_resize_lock # NoThread => pc[db_resize_lock] = "rs_unlock"

\* The threads whose progress a blocked thread needs.
WaitsFor(t) ==
    CASE pc[t] = "g_poll" /\ tx_blocker_count # 0 -> {db_resize_lock}
      [] pc[t] = "dbi_lock" /\ dbi_open_mutex # NoThread -> {dbi_open_mutex}
      [] pc[t] = "rs_lock" /\ db_resize_lock # NoThread -> {db_resize_lock}
      [] pc[t] = "rs_drain" /\ tx_count # 0 -> {h[1] : h \in Counted}
      [] pc[t] = "rw_begin" /\ wchain # <<>> -> {wchain[1][1]}
      [] OTHER -> {}

DeadlockedSet(S) == S # {} /\ \A t \in S : WaitsFor(t) \cap S # {}

\* The two dead-locks that set_map_size and do_resize document both need a
\* thread that opens or resizes while it holds a transaction; the callback adds
\* those of open_db (see DeadlockIsDocumented).  No other circular wait between
\* the guards, the two mutexes and the writer mutex exists.
DeadlockExplained ==
    \A S \in SUBSET Threads :
        DeadlockedSet(S) => \E t \in S : Held(t) # {} \/ cb[t] = "open_db"

\* The callback's documentation (environment.rs:748) names the calls that
\* dead-lock in it: set_map_size, do_resize and begin_rw_txn, which the model
\* never makes there.  With those avoided, only a thread that holds a
\* transaction can be part of a dead-lock.
DeadlockIsDocumented ==
    \A S \in SUBSET Threads : DeadlockedSet(S) => \E t \in S : Held(t) # {}

\* A thread that never opens or resizes while it holds a transaction is never
\* part of a circular wait: the documented rule is all an application needs.
NoDeadlock == \A S \in SUBSET Threads : ~DeadlockedSet(S)

\* sync "can be called concurrently with transaction creation"
\* (environment.rs:211): the meta page it reads is mapped when it reads it.
SyncReadsLiveMap == \A t \in Threads : pc[t] = "sync" => mapped

\* A resize that has begun to wait always finishes with its blocker, so
\* transactions are never shut out for good.
BlockerLifted == (tx_blocker_count # 0) ~> (tx_blocker_count = 0)

\* Once resizes stop, every guard that was backing off is admitted.
GuardAdmitted ==
    <>[](tx_blocker_count = 0) =>
        \A t \in Threads : (pc[t] = "g_poll") ~> (pc[t] \notin GuardLocs)

\* The guards and the blocker implement exclusive access to the map.
MA == INSTANCE MapAccess WITH
          Readers <- Handles,
          live <- {h \in Handles : mdb[h] # "closed"},
          mapped <- mapped

\* The abstract specification as a property: a transaction begins only on a
\* live map, and the map is replaced only between transactions.
ImplementsMapAccess == MA!Spec
=============================================================================
