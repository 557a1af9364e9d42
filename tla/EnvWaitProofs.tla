--------------------------- MODULE EnvWaitProofs ---------------------------
(* Who waits for whom in EnvTxns: panics leave nothing behind, and a cycle of *)
(* waiting threads needs a thread that waits while it holds a transaction, or *)
(* a resize callback that opens a database.                                   *)
EXTENDS EnvTxnsProofs

\* Where a thread and its callback are when the handle mutex is concerned.
StageInv == \A t \in Threads :
    /\ pc[t] = "idle" => call[t] = "none"
    /\ pc[t] = "sync" => call[t] = "sync"
    /\ pc[t] = "dbi_lock" /\ cb[t] = "none" => call[t] \in {"open_db", "create_db"}
    /\ cb[t] = "begin_ro" => pc[t] \notin {"dbi_lock", "dbi_unlock"}
    /\ cb[t] = "open_db" => CallbackOpensDb

\* The owner of dbi_open_mutex is inside open_db or create_db, its own or its
\* callback's; it waits for the mutex again only in the callback of create_db.
MutexInv == \A t \in Threads : dbi_open_mutex = t =>
    /\ cb[t] = "none" => /\ call[t] \in {"open_db", "create_db"}
                         /\ pc[t] # "dbi_lock"
    /\ cb[t] = "begin_ro" => call[t] = "create_db"
    /\ cb[t] = "open_db" => /\ pc[t] # "rs_ret"
                            /\ pc[t] = "dbi_lock" => call[t] = "create_db"

\* The writer mutex belongs to the outermost write transaction: a complete
\* object, or one whose guard is being taken under db_resize_lock; nested
\* transactions exist only once it is complete and its owner idle.
WriterInv == wchain # <<>> =>
    /\ \/ obj[wchain[1]] = "rw"
       \/ /\ obj[wchain[1]] = "free"
          /\ pc[wchain[1][1]] \in GuardLocs
          /\ slot[wchain[1][1]] = wchain[1][2]
          /\ Kind(wchain[1][1]) = "rw"
    /\ slot[wchain[1][1]] = wchain[1][2] => Len(wchain) = 1
    /\ \A i \in 2..Len(wchain) : wchain[i] # wchain[1]

\* Without overlap a thread that is about to wait holds no transaction, and no
\* thread holds two.
LoneOK(t) ==
    \A h \in Handles : h[1] = t /\ obj[h] # "free" =>
        /\ pc[t] \in {"idle", "use", "rs_unlock"}
        /\ pc[t] \in {"use", "rs_unlock"} => slot[t] = h[2]
        /\ pc[t] = "idle" => \A k \in Handles : k[1] = t /\ obj[k] # "free" => k = h

LoneInv == ~Overlap => \A t \in Threads : LoneOK(t)

WInv == IInv /\ PanicLeaksNothing /\ StageInv /\ MutexInv /\ WriterInv /\ LoneInv

-----------------------------------------------------------------------------
(* Every step preserves every part of the invariant. *)

\* Every step preserves PanicLeaksNothing: the panicking thread owns the lock,
\* so nobody is in the blocked region, and nobody gets the lock afterwards.
LEMMA PanicStep == WInv /\ [Next]_vars => PanicLeaksNothing'
<1> SUFFICES ASSUME WInv, [Next]_vars PROVE PanicLeaksNothing'
  OBVIOUS
<1> USE ConstantsAssumption DEF WInv, IInv, TypeOK, LockInv, HoldsResizeLock, BlockerInv,
      PanicLeaksNothing, GuardLocs, ResizeLocs, BlockerLocs
<1>1. CASE UNCHANGED vars
  BY <1>1 DEF vars
<1>2. ASSUME NEW t \in Threads, AppCall(t) PROVE PanicLeaksNothing'
  <2>1. CASE BeginRo(t)
    BY <2>1 DEF BeginRo, Goto, MayCall, StartGuard, FreeSlots
  <2>2. CASE BeginRw(t)
    BY <2>2 DEF BeginRw, Goto, CallMethod, MayCall
  <2>3. CASE BeginNested(t)
    BY <2>3 DEF BeginNested, Goto, MayCall, Held, Opened, StartGuard,
       FreeSlots
  <2>4. CASE OpenDb(t)
    BY <2>4 DEF OpenDb, Goto, CallMethod, MayCall
  <2>5. CASE CreateDb(t)
    BY <2>5 DEF CreateDb, Goto, CallMethod, MayCall
  <2>6. CASE SetMapSize(t)
    BY <2>6 DEF SetMapSize, Goto, CallMethod, MayCall
  <2>7. CASE DoResize(t)
    BY <2>7 DEF DoResize, Goto, CallMethod, MayCall
  <2>8. CASE Sync(t)
    BY <2>8 DEF Sync, Goto, CallMethod, MayCall
  <2> QED BY <1>2, <2>1, <2>2, <2>3, <2>4, <2>5, <2>6, <2>7, <2>8 DEF
     AppCall
<1>3. ASSUME NEW t \in Threads, GuardStep(t) PROVE PanicLeaksNothing'
  <2>1. CASE GuardIncr(t)
    BY <2>1 DEF GuardIncr, Goto
  <2>2. CASE GuardBlocked(t)
    BY <2>2 DEF GuardBlocked, Goto
  <2>3. CASE GuardAdmitsRo(t)
    BY <2>3 DEF GuardAdmitsRo, Goto, Kind
  <2>4. CASE GuardAdmitsRw(t)
    BY <2>4 DEF GuardAdmitsRw, Goto, Kind, H
  <2>5. CASE GuardAdmitsNested(t)
    BY <2>5 DEF GuardAdmitsNested, Goto, Return, Kind, H
  <2>6. CASE GuardBackOut(t)
    BY <2>6 DEF GuardBackOut, Goto
  <2>7. CASE GuardPoll(t)
    BY <2>7 DEF GuardPoll, Goto
  <2>8. CASE GuardDrop(t)
    BY <2>8 DEF GuardDrop, Goto
  <2> QED BY <1>3, <2>1, <2>2, <2>3, <2>4, <2>5, <2>6, <2>7, <2>8 DEF
     GuardStep
<1>4. ASSUME NEW t \in Threads, TxnStep(t) PROVE PanicLeaksNothing'
  <2>1. CASE RoBegin(t)
    BY <2>1 DEF RoBegin, Goto, Return, H
  <2>2. CASE RoBeginFails(t)
    BY <2>2 DEF RoBeginFails, Goto
  <2>3. CASE FinishInternal(t)
    BY <2>3 DEF FinishInternal, Goto, EndTxn, H
  <2>4. CASE OpenDbLock(t)
    BY <2>4 DEF OpenDbLock, Goto, Kind, StartGuard, FreeSlots
  <2>5. CASE CreateDbLock(t)
    BY <2>5 DEF CreateDbLock, Goto, Kind
  <2>6. CASE DbiUnlock(t)
    BY <2>6 DEF DbiUnlock, Goto
  <2>7. CASE RwBegin(t)
    BY <2>7 DEF RwBegin, Goto, StartGuard, FreeSlots
  <2>8. CASE RwBeginFails(t)
    BY <2>8 DEF RwBeginFails, Goto
  <2>9. CASE SyncReadsMeta(t)
    BY <2>9 DEF SyncReadsMeta, Goto, Return
  <2> QED BY <1>4, <2>1, <2>2, <2>3, <2>4, <2>5, <2>6, <2>7, <2>8, <2>9 DEF
     TxnStep
<1>5. ASSUME NEW t \in Threads, ResizeStep(t) PROVE PanicLeaksNothing'
  <2>1. CASE ResizeLock(t)
    BY <2>1 DEF ResizeLock, Goto, LockIsPoisoned
  <2>2. CASE ResizeLockPanics(t)
    BY <2>2 DEF ResizeLockPanics, Goto, LeaveResize, AfterResize
  <2>3. CASE NeedsResize(t)
    BY <2>3 DEF NeedsResize, Goto
  <2>4. CASE CheckSpace(t)
    BY <2>4 DEF CheckSpace, Goto
  <2>5. CASE Panic(t)
    BY <2>5 DEF Panic, Goto
  <2>6. CASE Block(t)
    BY <2>6 DEF Block, Goto
  <2>7. CASE Drain(t)
    BY <2>7 DEF Drain, Goto
  <2>8. CASE Unmap(t)
    BY <2>8 DEF Unmap, Goto
  <2>9. CASE Map(t)
    BY <2>9 DEF Map, Goto
  <2>10. CASE Unblock(t)
    BY <2>10 DEF Unblock, Goto
  <2>11. CASE NoCallback(t)
    BY <2>11 DEF NoCallback, Goto
  <2>12. CASE CallbackBeginsRo(t)
    BY <2>12 DEF CallbackBeginsRo, Goto, StartGuard, FreeSlots
  <2>13. CASE CallbackOpens(t)
    BY <2>13 DEF CallbackOpens, Goto
  <2>14. CASE CallbackReturn(t)
    BY <2>14 DEF CallbackReturn, Goto
  <2>15. CASE ResizeUnlock(t)
    BY <2>15 DEF ResizeUnlock, Goto, LeaveResize, AfterResize
  <2> QED BY <1>5, <2>1, <2>2, <2>3, <2>4, <2>5, <2>6, <2>7, <2>8, <2>9,
     <2>10, <2>11, <2>12, <2>13, <2>14, <2>15 DEF ResizeStep
<1>6. ASSUME NEW t \in Threads, NEW h \in Handles, AppStep(t, h) PROVE PanicLeaksNothing'
  <2>1. CASE Close(t, h)
    BY <2>1 DEF Close, Goto, EndTxn, Held
  <2>2. CASE Reset(t, h)
    BY <2>2 DEF Reset, Held
  <2>3. CASE Renew(t, h)
    BY <2>3 DEF Renew, Held
  <2>4. CASE RenewFails(t, h)
    BY <2>4 DEF RenewFails, Goto, Held
  <2> QED BY <1>6, <2>1, <2>2, <2>3, <2>4 DEF AppStep
<1> QED BY <1>1, <1>2, <1>3, <1>4, <1>5, <1>6 DEF Next, CallStep

\* Every step preserves StageInv.
LEMMA StageStep == WInv /\ [Next]_vars => StageInv'
<1> SUFFICES ASSUME WInv, [Next]_vars PROVE StageInv'
  OBVIOUS
<1> USE DEF WInv, IInv, TypeOK, StageInv, CallInv, ResizeCalls, Calls,
      GuardLocs, ResizeLocs, BlockerLocs
<1>1. CASE UNCHANGED vars
  BY <1>1 DEF vars
<1>2. ASSUME NEW t \in Threads, AppCall(t) PROVE StageInv'
  <2>1. CASE BeginRo(t)
    BY <2>1 DEF BeginRo, Goto, MayCall, StartGuard, FreeSlots
  <2>2. CASE BeginRw(t)
    BY <2>2 DEF BeginRw, Goto, CallMethod, MayCall
  <2>3. CASE BeginNested(t)
    BY <2>3 DEF BeginNested, Goto, MayCall, Held, Opened, StartGuard,
       FreeSlots
  <2>4. CASE OpenDb(t)
    BY <2>4 DEF OpenDb, Goto, CallMethod, MayCall
  <2>5. CASE CreateDb(t)
    BY <2>5 DEF CreateDb, Goto, CallMethod, MayCall
  <2>6. CASE SetMapSize(t)
    BY <2>6 DEF SetMapSize, Goto, CallMethod, MayCall
  <2>7. CASE DoResize(t)
    BY <2>7 DEF DoResize, Goto, CallMethod, MayCall
  <2>8. CASE Sync(t)
    BY <2>8 DEF Sync, Goto, CallMethod, MayCall
  <2> QED BY <1>2, <2>1, <2>2, <2>3, <2>4, <2>5, <2>6, <2>7, <2>8 DEF
     AppCall
<1>3. ASSUME NEW t \in Threads, GuardStep(t) PROVE StageInv'
  <2>1. CASE GuardIncr(t)
    BY <2>1 DEF GuardIncr, Goto
  <2>2. CASE GuardBlocked(t)
    BY <2>2 DEF GuardBlocked, Goto
  <2>3. CASE GuardAdmitsRo(t)
    BY <2>3 DEF GuardAdmitsRo, Goto, Kind
  <2>4. CASE GuardAdmitsRw(t)
    BY <2>4 DEF GuardAdmitsRw, Goto, Kind, H
  <2>5. CASE GuardAdmitsNested(t)
    BY <2>5 DEF GuardAdmitsNested, Goto, Return, Kind, H
  <2>6. CASE GuardBackOut(t)
    BY <2>6 DEF GuardBackOut, Goto
  <2>7. CASE GuardPoll(t)
    BY <2>7 DEF GuardPoll, Goto
  <2>8. CASE GuardDrop(t)
    BY <2>8 DEF GuardDrop, Goto
  <2> QED BY <1>3, <2>1, <2>2, <2>3, <2>4, <2>5, <2>6, <2>7, <2>8 DEF
     GuardStep
<1>4. ASSUME NEW t \in Threads, TxnStep(t) PROVE StageInv'
  <2>1. CASE RoBegin(t)
    BY <2>1 DEF RoBegin, Goto, Return, H
  <2>2. CASE RoBeginFails(t)
    BY <2>2 DEF RoBeginFails, Goto
  <2>3. CASE FinishInternal(t)
    BY <2>3 DEF FinishInternal, Goto, EndTxn, H
  <2>4. CASE OpenDbLock(t)
    BY <2>4 DEF OpenDbLock, Goto, Kind, StartGuard, FreeSlots
  <2>5. CASE CreateDbLock(t)
    BY <2>5 DEF CreateDbLock, Goto, Kind
  <2>6. CASE DbiUnlock(t)
    BY <2>6 DEF DbiUnlock, Goto
  <2>7. CASE RwBegin(t)
    BY <2>7 DEF RwBegin, Goto, StartGuard, FreeSlots
  <2>8. CASE RwBeginFails(t)
    BY <2>8 DEF RwBeginFails, Goto
  <2>9. CASE SyncReadsMeta(t)
    BY <2>9 DEF SyncReadsMeta, Goto, Return
  <2> QED BY <1>4, <2>1, <2>2, <2>3, <2>4, <2>5, <2>6, <2>7, <2>8, <2>9 DEF
     TxnStep
<1>5. ASSUME NEW t \in Threads, ResizeStep(t) PROVE StageInv'
  <2>1. CASE ResizeLock(t)
    BY <2>1 DEF ResizeLock, Goto, LockIsPoisoned
  <2>2. CASE ResizeLockPanics(t)
    BY <2>2 DEF ResizeLockPanics, Goto, LeaveResize, AfterResize
  <2>3. CASE NeedsResize(t)
    BY <2>3 DEF NeedsResize, Goto
  <2>4. CASE CheckSpace(t)
    BY <2>4 DEF CheckSpace, Goto
  <2>5. CASE Panic(t)
    BY <2>5 DEF Panic, Goto
  <2>6. CASE Block(t)
    BY <2>6 DEF Block, Goto
  <2>7. CASE Drain(t)
    BY <2>7 DEF Drain, Goto
  <2>8. CASE Unmap(t)
    BY <2>8 DEF Unmap, Goto
  <2>9. CASE Map(t)
    BY <2>9 DEF Map, Goto
  <2>10. CASE Unblock(t)
    BY <2>10 DEF Unblock, Goto
  <2>11. CASE NoCallback(t)
    BY <2>11 DEF NoCallback, Goto
  <2>12. CASE CallbackBeginsRo(t)
    BY <2>12 DEF CallbackBeginsRo, Goto, StartGuard, FreeSlots
  <2>13. CASE CallbackOpens(t)
    BY <2>13 DEF CallbackOpens, Goto
  <2>14. CASE CallbackReturn(t)
    BY <2>14 DEF CallbackReturn, Goto
  <2>15. CASE ResizeUnlock(t)
    BY <2>15 DEF ResizeUnlock, Goto, LeaveResize, AfterResize
  <2> QED BY <1>5, <2>1, <2>2, <2>3, <2>4, <2>5, <2>6, <2>7, <2>8, <2>9,
     <2>10, <2>11, <2>12, <2>13, <2>14, <2>15 DEF ResizeStep
<1>6. ASSUME NEW t \in Threads, NEW h \in Handles, AppStep(t, h) PROVE StageInv'
  <2>1. CASE Close(t, h)
    BY <2>1 DEF Close, Goto, EndTxn, Held
  <2>2. CASE Reset(t, h)
    BY <2>2 DEF Reset, Held
  <2>3. CASE Renew(t, h)
    BY <2>3 DEF Renew, Held
  <2>4. CASE RenewFails(t, h)
    BY <2>4 DEF RenewFails, Goto, Held
  <2> QED BY <1>6, <2>1, <2>2, <2>3, <2>4 DEF AppStep
<1> QED BY <1>1, <1>2, <1>3, <1>4, <1>5, <1>6 DEF Next, CallStep

\* Every step preserves MutexInv: create_db keeps the handle mutex across its
\* resizes, and open_db gives it back before the callback returns.
LEMMA MutexStep == WInv /\ [Next]_vars => MutexInv'
<1> SUFFICES ASSUME WInv, [Next]_vars PROVE MutexInv'
  OBVIOUS
<1> USE ConstantsAssumption DEF WInv, IInv, TypeOK, StageInv, CallInv, MutexInv, ResizeCalls,
      Calls, Kind, GuardLocs, ResizeLocs, BlockerLocs
<1>1. CASE UNCHANGED vars
  BY <1>1 DEF vars
<1>2. ASSUME NEW t \in Threads, AppCall(t) PROVE MutexInv'
  <2>1. CASE BeginRo(t)
    BY <2>1 DEF BeginRo, Goto, MayCall, StartGuard, FreeSlots
  <2>2. CASE BeginRw(t)
    BY <2>2 DEF BeginRw, Goto, CallMethod, MayCall
  <2>3. CASE BeginNested(t)
    BY <2>3 DEF BeginNested, Goto, MayCall, Held, Opened, StartGuard,
       FreeSlots
  <2>4. CASE OpenDb(t)
    BY <2>4 DEF OpenDb, Goto, CallMethod, MayCall
  <2>5. CASE CreateDb(t)
    BY <2>5 DEF CreateDb, Goto, CallMethod, MayCall
  <2>6. CASE SetMapSize(t)
    BY <2>6 DEF SetMapSize, Goto, CallMethod, MayCall
  <2>7. CASE DoResize(t)
    BY <2>7 DEF DoResize, Goto, CallMethod, MayCall
  <2>8. CASE Sync(t)
    BY <2>8 DEF Sync, Goto, CallMethod, MayCall
  <2> QED BY <1>2, <2>1, <2>2, <2>3, <2>4, <2>5, <2>6, <2>7, <2>8 DEF
     AppCall
<1>3. ASSUME NEW t \in Threads, GuardStep(t) PROVE MutexInv'
  <2>1. CASE GuardIncr(t)
    BY <2>1 DEF GuardIncr, Goto
  <2>2. CASE GuardBlocked(t)
    BY <2>2 DEF GuardBlocked, Goto
  <2>3. CASE GuardAdmitsRo(t)
    BY <2>3 DEF GuardAdmitsRo, Goto
  <2>4. CASE GuardAdmitsRw(t)
    BY <2>4 DEF GuardAdmitsRw, Goto, H
  <2>5. CASE GuardAdmitsNested(t)
    BY <2>5 DEF GuardAdmitsNested, Goto, Return, H
  <2>6. CASE GuardBackOut(t)
    BY <2>6 DEF GuardBackOut, Goto
  <2>7. CASE GuardPoll(t)
    BY <2>7 DEF GuardPoll, Goto
  <2>8. CASE GuardDrop(t)
    BY <2>8 DEF GuardDrop, Goto
  <2> QED BY <1>3, <2>1, <2>2, <2>3, <2>4, <2>5, <2>6, <2>7, <2>8 DEF
     GuardStep
<1>4. ASSUME NEW t \in Threads, TxnStep(t) PROVE MutexInv'
  <2>1. CASE RoBegin(t)
    BY <2>1 DEF RoBegin, Goto, Return, H
  <2>2. CASE RoBeginFails(t)
    BY <2>2 DEF RoBeginFails, Goto
  <2>3. CASE FinishInternal(t)
    BY <2>3 DEF FinishInternal, Goto, EndTxn, H
  <2>4. CASE OpenDbLock(t)
    BY <2>4 DEF OpenDbLock, Goto, StartGuard, FreeSlots
  <2>5. CASE CreateDbLock(t)
    BY <2>5 DEF CreateDbLock, Goto
  <2>6. CASE DbiUnlock(t)
    BY <2>6 DEF DbiUnlock, Goto
  <2>7. CASE RwBegin(t)
    BY <2>7 DEF RwBegin, Goto, StartGuard, FreeSlots
  <2>8. CASE RwBeginFails(t)
    BY <2>8 DEF RwBeginFails, Goto
  <2>9. CASE SyncReadsMeta(t)
    BY <2>9 DEF SyncReadsMeta, Goto, Return
  <2> QED BY <1>4, <2>1, <2>2, <2>3, <2>4, <2>5, <2>6, <2>7, <2>8, <2>9 DEF
     TxnStep
<1>5. ASSUME NEW t \in Threads, ResizeStep(t) PROVE MutexInv'
  <2>1. CASE ResizeLock(t)
    BY <2>1 DEF ResizeLock, Goto, LockIsPoisoned
  <2>2. CASE ResizeLockPanics(t)
    BY <2>2 DEF ResizeLockPanics, Goto, LeaveResize, AfterResize
  <2>3. CASE NeedsResize(t)
    BY <2>3 DEF NeedsResize, Goto
  <2>4. CASE CheckSpace(t)
    BY <2>4 DEF CheckSpace, Goto
  <2>5. CASE Panic(t)
    BY <2>5 DEF Panic, Goto
  <2>6. CASE Block(t)
    BY <2>6 DEF Block, Goto
  <2>7. CASE Drain(t)
    BY <2>7 DEF Drain, Goto
  <2>8. CASE Unmap(t)
    BY <2>8 DEF Unmap, Goto
  <2>9. CASE Map(t)
    BY <2>9 DEF Map, Goto
  <2>10. CASE Unblock(t)
    BY <2>10 DEF Unblock, Goto
  <2>11. CASE NoCallback(t)
    BY <2>11 DEF NoCallback, Goto
  <2>12. CASE CallbackBeginsRo(t)
    BY <2>12 DEF CallbackBeginsRo, Goto, StartGuard, FreeSlots
  <2>13. CASE CallbackOpens(t)
    BY <2>13 DEF CallbackOpens, Goto
  <2>14. CASE CallbackReturn(t)
    BY <2>14 DEF CallbackReturn, Goto
  <2>15. CASE ResizeUnlock(t)
    BY <2>15 DEF ResizeUnlock, Goto, LeaveResize, AfterResize
  <2> QED BY <1>5, <2>1, <2>2, <2>3, <2>4, <2>5, <2>6, <2>7, <2>8, <2>9,
     <2>10, <2>11, <2>12, <2>13, <2>14, <2>15 DEF ResizeStep
<1>6. ASSUME NEW t \in Threads, NEW h \in Handles, AppStep(t, h) PROVE MutexInv'
  <2>1. CASE Close(t, h)
    BY <2>1 DEF Close, Goto, EndTxn, Held
  <2>2. CASE Reset(t, h)
    BY <2>2 DEF Reset, Held
  <2>3. CASE Renew(t, h)
    BY <2>3 DEF Renew, Held
  <2>4. CASE RenewFails(t, h)
    BY <2>4 DEF RenewFails, Goto, Held
  <2> QED BY <1>6, <2>1, <2>2, <2>3, <2>4 DEF AppStep
<1> QED BY <1>1, <1>2, <1>3, <1>4, <1>5, <1>6 DEF Next, CallStep

\* A slot that a thread takes for a new object is not the one that owns the
\* writer mutex.
LEMMA FreshSlot ==
    ASSUME WInv, wchain # <<>>, NEW t \in Threads, NEW s \in FreeSlots(t),
           pc[t] \notin GuardLocs
    PROVE  /\ wchain[1] \in Handles /\ wchain[1] # <<t, s>>
           /\ wchain[1][1] = t => wchain[1][2] # s
<1>1. wchain[1] \in Threads \X Slots
  BY DEF WInv, IInv, TypeOK, Handles
<1>2. obj[<<t, s>>] = "free"
  BY DEF FreeSlots
<1>3. wchain[1] # <<t, s>>
  BY <1>1, <1>2 DEF WInv, WriterInv
<1> QED BY <1>1, <1>3 DEF Handles

\* Every step preserves WriterInv.
LEMMA WriterStep == WInv /\ [Next]_vars => WriterInv'
<1> SUFFICES ASSUME WInv, [Next]_vars PROVE WriterInv'
  OBVIOUS
<1> USE ConstantsAssumption DEF WInv, IInv, TypeOK, WriterInv, SlotInv, SlotOK, CallInv, Kind, H,
      Handles, GuardLocs, ResizeLocs, BlockerLocs
<1>1. CASE UNCHANGED vars
  BY <1>1 DEF vars
<1>2. ASSUME NEW t \in Threads, AppCall(t) PROVE WriterInv'
  <2>1. CASE BeginRo(t)
    <3>1. PICK s \in FreeSlots(t) : slot' = [slot EXCEPT ![t] = s] /\ Goto(t, "g_inc")
      BY <2>1 DEF BeginRo, StartGuard
    <3>2. pc[t] \notin GuardLocs /\ UNCHANGED <<obj, wchain>>
      BY <2>1 DEF BeginRo, MayCall
    <3>3. wchain # <<>> => wchain[1] # <<t, s>> /\ (wchain[1][1] = t => wchain[1][2] # s)
      BY <3>2, FreshSlot
    <3> QED BY <2>1, <3>1, <3>2, <3>3 DEF BeginRo, Goto
  <2>2. CASE BeginRw(t)
    BY <2>2 DEF BeginRw, Goto, CallMethod, MayCall
  <2>3. CASE BeginNested(t)
    <3>1. PICK s \in FreeSlots(t) : slot' = [slot EXCEPT ![t] = s] /\ Goto(t, "g_inc")
      BY <2>3 DEF BeginNested, StartGuard
    <3>2. /\ pc[t] = "idle" /\ wchain # <<>> /\ UNCHANGED <<obj, cb>>
          /\ wchain' = Append(wchain, <<t, s>>)
      BY <2>3, <3>1 DEF BeginNested, MayCall
    <3>3. wchain[1] # <<t, s>> /\ (wchain[1][1] = t => wchain[1][2] # s)
      BY <3>1, <3>2, FreshSlot
    <3>4. slot'[wchain[1][1]] # wchain[1][2]
      <4>1. wchain[1] \in Threads \X Slots
        BY <3>2
      <4>2. Len(wchain) = 1 => wchain[1][1] = t
        BY <2>3, <3>2 DEF BeginNested, Held
      <4> QED BY <3>1, <3>2, <3>3, <4>1, <4>2
    <3>6. obj[wchain[1]] = "rw" \/ wchain[1][1] # t
      BY <3>2
    <3>5. /\ Len(wchain') = Len(wchain) + 1 /\ wchain'[1] = wchain[1]
          /\ \A i \in 2..Len(wchain') : wchain'[i] = IF i = Len(wchain') THEN <<t, s>> ELSE wchain[i]
      BY <3>2
    <3>7. wchain[1] \in Threads \X Slots
      BY <3>2
    <3> QED BY <2>3, <3>1, <3>2, <3>3, <3>4, <3>5, <3>6, <3>7 DEF BeginNested, Goto
  <2>4. CASE OpenDb(t)
    BY <2>4 DEF OpenDb, Goto, CallMethod, MayCall
  <2>5. CASE CreateDb(t)
    BY <2>5 DEF CreateDb, Goto, CallMethod, MayCall
  <2>6. CASE SetMapSize(t)
    BY <2>6 DEF SetMapSize, Goto, CallMethod, MayCall
  <2>7. CASE DoResize(t)
    BY <2>7 DEF DoResize, Goto, CallMethod, MayCall
  <2>8. CASE Sync(t)
    BY <2>8 DEF Sync, Goto, CallMethod, MayCall
  <2> QED BY <1>2, <2>1, <2>2, <2>3, <2>4, <2>5, <2>6, <2>7, <2>8 DEF
     AppCall
<1>3. ASSUME NEW t \in Threads, GuardStep(t) PROVE WriterInv'
  <2>1. CASE GuardIncr(t)
    BY <2>1 DEF GuardIncr, Goto
  <2>2. CASE GuardBlocked(t)
    BY <2>2 DEF GuardBlocked, Goto
  <2>3. CASE GuardAdmitsRo(t)
    BY <2>3 DEF GuardAdmitsRo, Goto
  <2>4. CASE GuardAdmitsRw(t)
    BY <2>4 DEF GuardAdmitsRw, Goto
  <2>5. CASE GuardAdmitsNested(t)
    BY <2>5 DEF GuardAdmitsNested, Goto, Return
  <2>6. CASE GuardBackOut(t)
    BY <2>6 DEF GuardBackOut, Goto
  <2>7. CASE GuardPoll(t)
    BY <2>7 DEF GuardPoll, Goto
  <2>8. CASE GuardDrop(t)
    BY <2>8 DEF GuardDrop, Goto
  <2> QED BY <1>3, <2>1, <2>2, <2>3, <2>4, <2>5, <2>6, <2>7, <2>8 DEF
     GuardStep
<1>4. ASSUME NEW t \in Threads, TxnStep(t) PROVE WriterInv'
  <2>1. CASE RoBegin(t)
    BY <2>1 DEF RoBegin, Goto, Return
  <2>2. CASE RoBeginFails(t)
    BY <2>2 DEF RoBeginFails, Goto
  <2>3. CASE FinishInternal(t)
    BY <2>3 DEF FinishInternal, Goto, EndTxn
  <2>4. CASE OpenDbLock(t)
    <3>1. PICK s \in FreeSlots(t) : slot' = [slot EXCEPT ![t] = s] /\ Goto(t, "g_inc")
      BY <2>4 DEF OpenDbLock, StartGuard
    <3>2. pc[t] \notin GuardLocs /\ UNCHANGED <<obj, wchain>>
      BY <2>4 DEF OpenDbLock, MayCall
    <3>3. wchain # <<>> => wchain[1] # <<t, s>> /\ (wchain[1][1] = t => wchain[1][2] # s)
      BY <3>2, FreshSlot
    <3> QED BY <2>4, <3>1, <3>2, <3>3 DEF OpenDbLock, Goto
  <2>5. CASE CreateDbLock(t)
    BY <2>5 DEF CreateDbLock, Goto
  <2>6. CASE DbiUnlock(t)
    BY <2>6 DEF DbiUnlock, Goto
  <2>7. CASE RwBegin(t)
    BY <2>7 DEF RwBegin, Goto, StartGuard, FreeSlots
  <2>8. CASE RwBeginFails(t)
    BY <2>8 DEF RwBeginFails, Goto
  <2>9. CASE SyncReadsMeta(t)
    BY <2>9 DEF SyncReadsMeta, Goto, Return
  <2> QED BY <1>4, <2>1, <2>2, <2>3, <2>4, <2>5, <2>6, <2>7, <2>8, <2>9 DEF
     TxnStep
<1>5. ASSUME NEW t \in Threads, ResizeStep(t) PROVE WriterInv'
  <2>1. CASE ResizeLock(t)
    BY <2>1 DEF ResizeLock, Goto, LockIsPoisoned
  <2>2. CASE ResizeLockPanics(t)
    BY <2>2 DEF ResizeLockPanics, Goto, LeaveResize, AfterResize
  <2>3. CASE NeedsResize(t)
    BY <2>3 DEF NeedsResize, Goto
  <2>4. CASE CheckSpace(t)
    BY <2>4 DEF CheckSpace, Goto
  <2>5. CASE Panic(t)
    BY <2>5 DEF Panic, Goto
  <2>6. CASE Block(t)
    BY <2>6 DEF Block, Goto
  <2>7. CASE Drain(t)
    BY <2>7 DEF Drain, Goto
  <2>8. CASE Unmap(t)
    BY <2>8 DEF Unmap, Goto
  <2>9. CASE Map(t)
    BY <2>9 DEF Map, Goto
  <2>10. CASE Unblock(t)
    BY <2>10 DEF Unblock, Goto
  <2>11. CASE NoCallback(t)
    BY <2>11 DEF NoCallback, Goto
  <2>12. CASE CallbackBeginsRo(t)
    <3>1. PICK s \in FreeSlots(t) : slot' = [slot EXCEPT ![t] = s] /\ Goto(t, "g_inc")
      BY <2>12 DEF CallbackBeginsRo, StartGuard
    <3>2. pc[t] \notin GuardLocs /\ UNCHANGED <<obj, wchain>>
      BY <2>12 DEF CallbackBeginsRo, MayCall
    <3>3. wchain # <<>> => wchain[1] # <<t, s>> /\ (wchain[1][1] = t => wchain[1][2] # s)
      BY <3>2, FreshSlot
    <3> QED BY <2>12, <3>1, <3>2, <3>3 DEF CallbackBeginsRo, Goto
  <2>13. CASE CallbackOpens(t)
    BY <2>13 DEF CallbackOpens, Goto
  <2>14. CASE CallbackReturn(t)
    BY <2>14 DEF CallbackReturn, Goto
  <2>15. CASE ResizeUnlock(t)
    BY <2>15 DEF ResizeUnlock, Goto, LeaveResize, AfterResize
  <2> QED BY <1>5, <2>1, <2>2, <2>3, <2>4, <2>5, <2>6, <2>7, <2>8, <2>9,
     <2>10, <2>11, <2>12, <2>13, <2>14, <2>15 DEF ResizeStep
<1>6. ASSUME NEW t \in Threads, NEW h \in Handles, AppStep(t, h) PROVE WriterInv'
  <2>1. CASE Close(t, h)
    <3>1. /\ h[1] = t /\ h[2] \in Slots /\ h = <<t, h[2]>> /\ pc[t] = "idle"
          /\ slot' = [slot EXCEPT ![t] = h[2]] /\ Goto(t, "g_drop")
          /\ obj' = [obj EXCEPT ![h] = "free"] /\ UNCHANGED <<call, cb>>
      BY <2>1 DEF Close, EndTxn, Held
    <3>2. CASE wchain # <<>> /\ wchain[1] = h
      <4>1. wchain[Len(wchain)] = h
        BY <2>1, <3>2 DEF Close
      <4>2. Len(wchain) = 1
        <5>1. Len(wchain) \in Nat /\ Len(wchain) # 0
          BY <3>2
        <5>2. \A i \in 2..Len(wchain) : wchain[i] # wchain[1]
          BY <3>2
        <5>3. Len(wchain) < 2
          BY <3>2, <4>1, <5>1, <5>2
        <5>4. \A n \in Nat : n # 0 /\ n < 2 => n = 1
          OBVIOUS
        <5> HIDE DEF WInv
        <5> QED BY <5>1, <5>3, <5>4
      <4>3. wchain' = <<>>
        BY <2>1, <3>2, <4>1, <4>2 DEF Close, EndTxn
      <4> QED BY <4>3
    <3>3. CASE wchain # <<>> /\ wchain[1] # h /\ wchain[Len(wchain)] = h
      <4>1. Len(wchain) > 1 /\ Len(wchain) \in Nat
        BY <3>3
      <4>2. wchain' = SubSeq(wchain, 1, Len(wchain) - 1)
        BY <2>1, <3>3 DEF Close, EndTxn
      <4>3. Len(wchain') = Len(wchain) - 1 /\ \A i \in 1..Len(wchain) - 1 : wchain'[i] = wchain[i]
        BY <4>1, <4>2
      <4>4. wchain[1] \in Threads \X Slots /\ (wchain[1][1] = t => wchain[1][2] # h[2])
        <5>1. wchain[1] \in Threads \X Slots
          BY <4>1
        <5> QED BY <3>1, <3>3, <5>1
      <4>5. obj[wchain[1]] = "rw" \/ wchain[1][1] # t
        BY <3>1, <3>3
      <4> QED BY <3>1, <3>3, <4>1, <4>3, <4>4, <4>5 DEF Goto
    <3>4. CASE wchain = <<>> \/ wchain[Len(wchain)] # h
      <4>1. wchain' = wchain
        BY <2>1, <3>4 DEF Close, EndTxn
      <4>2. wchain # <<>> => wchain[1] # h
        <5>1. wchain # <<>> => 1 \in 1..Len(wchain)
          OBVIOUS
        <5> QED BY <2>1, <3>4, <5>1 DEF Close
      <4>3. wchain # <<>> => wchain[1] \in Threads \X Slots /\ (wchain[1][1] = t => wchain[1][2] # h[2])
        BY <3>1, <4>2
      <4> QED BY <3>1, <4>1, <4>2, <4>3 DEF Goto
    <3> QED BY <3>2, <3>3, <3>4
  <2>2. CASE Reset(t, h)
    BY <2>2 DEF Reset, Held
  <2>3. CASE Renew(t, h)
    BY <2>3 DEF Renew, Held
  <2>4. CASE RenewFails(t, h)
    BY <2>4 DEF RenewFails, Goto, Held
  <2> QED BY <1>6, <2>1, <2>2, <2>3, <2>4 DEF AppStep
<1> QED BY <1>1, <1>2, <1>3, <1>4, <1>5, <1>6 DEF Next, CallStep

\* Every step preserves LoneInv.
LEMMA LoneStep == WInv /\ [Next]_vars => LoneInv'
<1> SUFFICES ASSUME WInv, [Next]_vars PROVE LoneInv'
  OBVIOUS
<1> USE ConstantsAssumption DEF WInv, IInv, TypeOK, LoneInv, LoneOK, SlotInv, SlotOK, H, Handles,
      Held, GuardLocs, ResizeLocs, BlockerLocs
<1>1. CASE UNCHANGED vars
  BY <1>1 DEF vars
<1>2. ASSUME NEW t \in Threads, AppCall(t) PROVE LoneInv'
  <2>1. CASE BeginRo(t)
    BY <2>1 DEF BeginRo, Goto, MayCall, StartGuard, FreeSlots
  <2>2. CASE BeginRw(t)
    BY <2>2 DEF BeginRw, Goto, CallMethod, MayCall
  <2>3. CASE BeginNested(t)
    BY <2>3 DEF BeginNested, Goto, MayCall, Opened, StartGuard, FreeSlots
  <2>4. CASE OpenDb(t)
    BY <2>4 DEF OpenDb, Goto, CallMethod, MayCall
  <2>5. CASE CreateDb(t)
    BY <2>5 DEF CreateDb, Goto, CallMethod, MayCall
  <2>6. CASE SetMapSize(t)
    BY <2>6 DEF SetMapSize, Goto, CallMethod, MayCall
  <2>7. CASE DoResize(t)
    BY <2>7 DEF DoResize, Goto, CallMethod, MayCall
  <2>8. CASE Sync(t)
    BY <2>8 DEF Sync, Goto, CallMethod, MayCall
  <2> QED BY <1>2, <2>1, <2>2, <2>3, <2>4, <2>5, <2>6, <2>7, <2>8 DEF
     AppCall
<1>3. ASSUME NEW t \in Threads, GuardStep(t) PROVE LoneInv'
  <2>1. CASE GuardIncr(t)
    BY <2>1 DEF GuardIncr, Goto
  <2>2. CASE GuardBlocked(t)
    BY <2>2 DEF GuardBlocked, Goto
  <2>3. CASE GuardAdmitsRo(t)
    BY <2>3 DEF GuardAdmitsRo, Goto, Kind
  <2>4. CASE GuardAdmitsRw(t)
    BY <2>4 DEF GuardAdmitsRw, Goto, Kind
  <2>5. CASE GuardAdmitsNested(t)
    BY <2>5 DEF GuardAdmitsNested, Goto, Return, Kind
  <2>6. CASE GuardBackOut(t)
    BY <2>6 DEF GuardBackOut, Goto
  <2>7. CASE GuardPoll(t)
    BY <2>7 DEF GuardPoll, Goto
  <2>8. CASE GuardDrop(t)
    BY <2>8 DEF GuardDrop, Goto
  <2> QED BY <1>3, <2>1, <2>2, <2>3, <2>4, <2>5, <2>6, <2>7, <2>8 DEF
     GuardStep
<1>4. ASSUME NEW t \in Threads, TxnStep(t) PROVE LoneInv'
  <2>1. CASE RoBegin(t)
    BY <2>1 DEF RoBegin, Goto, Return
  <2>2. CASE RoBeginFails(t)
    BY <2>2 DEF RoBeginFails, Goto
  <2>3. CASE FinishInternal(t)
    BY <2>3 DEF FinishInternal, Goto, EndTxn
  <2>4. CASE OpenDbLock(t)
    BY <2>4 DEF OpenDbLock, Goto, Kind, StartGuard, FreeSlots
  <2>5. CASE CreateDbLock(t)
    BY <2>5 DEF CreateDbLock, Goto, Kind
  <2>6. CASE DbiUnlock(t)
    BY <2>6 DEF DbiUnlock, Goto
  <2>7. CASE RwBegin(t)
    BY <2>7 DEF RwBegin, Goto, StartGuard, FreeSlots
  <2>8. CASE RwBeginFails(t)
    BY <2>8 DEF RwBeginFails, Goto
  <2>9. CASE SyncReadsMeta(t)
    BY <2>9 DEF SyncReadsMeta, Goto, Return
  <2> QED BY <1>4, <2>1, <2>2, <2>3, <2>4, <2>5, <2>6, <2>7, <2>8, <2>9 DEF
     TxnStep
<1>5. ASSUME NEW t \in Threads, ResizeStep(t) PROVE LoneInv'
  <2>1. CASE ResizeLock(t)
    BY <2>1 DEF ResizeLock, Goto, LockIsPoisoned
  <2>2. CASE ResizeLockPanics(t)
    BY <2>2 DEF ResizeLockPanics, Goto, LeaveResize, AfterResize
  <2>3. CASE NeedsResize(t)
    BY <2>3 DEF NeedsResize, Goto
  <2>4. CASE CheckSpace(t)
    BY <2>4 DEF CheckSpace, Goto
  <2>5. CASE Panic(t)
    BY <2>5 DEF Panic, Goto
  <2>6. CASE Block(t)
    BY <2>6 DEF Block, Goto
  <2>7. CASE Drain(t)
    BY <2>7 DEF Drain, Goto
  <2>8. CASE Unmap(t)
    BY <2>8 DEF Unmap, Goto
  <2>9. CASE Map(t)
    BY <2>9 DEF Map, Goto
  <2>10. CASE Unblock(t)
    BY <2>10 DEF Unblock, Goto
  <2>11. CASE NoCallback(t)
    BY <2>11 DEF NoCallback, Goto
  <2>12. CASE CallbackBeginsRo(t)
    BY <2>12 DEF CallbackBeginsRo, Goto, StartGuard, FreeSlots
  <2>13. CASE CallbackOpens(t)
    BY <2>13 DEF CallbackOpens, Goto
  <2>14. CASE CallbackReturn(t)
    BY <2>14 DEF CallbackReturn, Goto
  <2>15. CASE ResizeUnlock(t)
    BY <2>15 DEF ResizeUnlock, Goto, LeaveResize, AfterResize
  <2> QED BY <1>5, <2>1, <2>2, <2>3, <2>4, <2>5, <2>6, <2>7, <2>8, <2>9,
     <2>10, <2>11, <2>12, <2>13, <2>14, <2>15 DEF ResizeStep
<1>6. ASSUME NEW t \in Threads, NEW h \in Handles, AppStep(t, h) PROVE LoneInv'
  <2>1. CASE Close(t, h)
    BY <2>1 DEF Close, Goto, EndTxn
  <2>2. CASE Reset(t, h)
    BY <2>2 DEF Reset
  <2>3. CASE Renew(t, h)
    BY <2>3 DEF Renew
  <2>4. CASE RenewFails(t, h)
    BY <2>4 DEF RenewFails, Goto
  <2> QED BY <1>6, <2>1, <2>2, <2>3, <2>4 DEF AppStep
<1> QED BY <1>1, <1>2, <1>3, <1>4, <1>5, <1>6 DEF Next, CallStep

-----------------------------------------------------------------------------
(* The theorems. *)

\* The new environment satisfies the invariant.
LEMMA InitWaits == Init => WInv
<1> SUFFICES ASSUME Init PROVE WInv
  OBVIOUS
<1>1. IInv
  BY InitInv
<1>2. PanicLeaksNothing /\ WriterInv
  BY DEF Init, PanicLeaksNothing, WriterInv
<1>3. StageInv /\ LoneInv
  BY DEF Init, StageInv, LoneInv, LoneOK, Handles
<1>4. MutexInv
  BY ConstantsAssumption DEF Init, MutexInv
<1> QED BY <1>1, <1>2, <1>3, <1>4 DEF WInv

\* The invariant about waiting threads holds in every reachable state.
THEOREM WaitInvariance == Spec => []WInv
<1>1. IInv /\ [Next]_vars => IInv'
  BY TypeStep, SlotStep, CallsStep, LockStep, BlockerStep, CountStep,
     RemapStep, OpenStep, MapStep DEF IInv
<1>2. WInv /\ [Next]_vars => WInv'
  BY <1>1, PanicStep, StageStep, MutexStep, WriterStep, LoneStep DEF WInv
<1> QED BY InitWaits, <1>2, PTL DEF Spec

\* A panic while db_resize_lock is held, in checked arithmetic, an assertion or
\* the callback, leaves no blocker behind and a lock that is only given back.
THEOREM PanicSafe == Spec => []PanicLeaksNothing
<1>1. WInv => PanicLeaksNothing
  BY DEF WInv
<1> QED BY WaitInvariance, <1>1, PTL

\* No thread waits in a cycle unless one of them holds a transaction or runs a
\* callback that opens a database.  The waits are followed one by one: draining
\* ends at a thread that is about to give its count back, the writer mutex at
\* the lock's own holder, the lock at neither, the handle mutex at none of them.
LEMMA CycleExplained == WInv => DeadlockExplained
<1> SUFFICES ASSUME WInv, NEW S \in SUBSET Threads, DeadlockedSet(S),
                    \A t \in S : Held(t) = {} /\ cb[t] # "open_db"
             PROVE  FALSE
  BY DEF DeadlockExplained
<1>1. \A t \in S : /\ t \in Threads
                   /\ pc[t] \in {"g_poll", "dbi_lock", "rs_lock", "rs_drain", "rw_begin"}
  BY DEF DeadlockedSet, WaitsFor
<1>2. \A t \in S : pc[t] # "rs_drain"
  <2> SUFFICES ASSUME NEW t \in S, pc[t] = "rs_drain" PROVE FALSE
    OBVIOUS
  <2>1. PICK h \in Counted : h[1] \in S
    BY DEF DeadlockedSet, WaitsFor
  <2>2. h \in Handles /\ obj[h] = "free"
    BY <2>1 DEF Counted, Held
  <2>3. pc[h[1]] \in {"g_check", "g_backout", "ro_begin", "g_drop"}
    BY <2>1, <2>2 DEF Counted
  <2> QED BY <1>1, <2>1, <2>3
<1>3. \A t \in S : pc[t] # "g_poll"
  <2> SUFFICES ASSUME NEW t \in S, pc[t] = "g_poll" PROVE FALSE
    OBVIOUS
  <2>1. tx_blocker_count # 0 /\ db_resize_lock \in S
    BY DEF DeadlockedSet, WaitsFor
  <2>2. PICK u \in Threads : pc[u] \in BlockerLocs
    BY <2>1 DEF WInv, IInv, BlockerInv
  <2>3. db_resize_lock = u
    BY <2>2 DEF WInv, IInv, LockInv, HoldsResizeLock, ResizeLocs
  <2> QED BY <1>1, <1>2, <2>1, <2>2, <2>3 DEF BlockerLocs
<1>4. \A t \in S : pc[t] # "rw_begin"
  <2> SUFFICES ASSUME NEW t \in S, pc[t] = "rw_begin" PROVE FALSE
    OBVIOUS
  <2>1. wchain # <<>> /\ wchain[1][1] \in S
    BY DEF DeadlockedSet, WaitsFor
  <2>2. wchain[1] \in Threads \X Slots
    BY <2>1 DEF WInv, IInv, TypeOK, Handles
  <2>3. obj[wchain[1]] = "free"
    BY <2>1, <2>2 DEF Held, Handles
  <2>4. pc[wchain[1][1]] \in GuardLocs /\ Kind(wchain[1][1]) = "rw"
    BY <2>1, <2>3 DEF WInv, WriterInv
  <2>5. wchain[1][1] = t
    BY <1>1, <2>1, <2>4 DEF WInv, IInv, LockInv, HoldsResizeLock, ResizeLocs
  <2> QED BY <2>4, <2>5 DEF GuardLocs
<1>5. \A t \in S : pc[t] # "rs_lock"
  <2> SUFFICES ASSUME NEW t \in S, pc[t] = "rs_lock" PROVE FALSE
    OBVIOUS
  <2>1. db_resize_lock \in S
    BY DEF DeadlockedSet, WaitsFor
  <2>2. PICK u \in S : db_resize_lock = u
    BY <2>1
  <2>3. HoldsResizeLock(u) /\ u \in Threads
    BY <2>2, <1>1 DEF WInv, IInv, LockInv
  <2>4. pc[u] \in {"dbi_lock", "rs_lock"}
    BY <1>1, <1>2, <1>3, <1>4
  <2>5. cb[u] = "begin_ro"
    BY <2>3, <2>4 DEF HoldsResizeLock, ResizeLocs, BlockerLocs, GuardLocs, WInv, IInv, TypeOK
  <2> QED BY <2>3, <2>4, <2>5 DEF WInv, IInv, StageInv, CallInv, GuardLocs
<1>6. \A t \in S : pc[t] = "dbi_lock"
  BY <1>1, <1>2, <1>3, <1>4, <1>5
<1>7. PICK t \in S : TRUE
  BY DEF DeadlockedSet
<1>8. dbi_open_mutex \in S
  BY <1>6, <1>7 DEF DeadlockedSet, WaitsFor
<1>9. PICK u \in S : dbi_open_mutex = u
  BY <1>8
<1>10. pc[u] = "dbi_lock" /\ u \in Threads /\ cb[u] \in {"none", "begin_ro"}
  BY <1>6 DEF WInv, IInv, TypeOK
<1> QED BY <1>9, <1>10 DEF WInv, MutexInv, StageInv

\* Every circular wait between the guards, the blocker, the two mutexes and the
\* writer mutex contains a thread that holds a transaction, or one whose resize
\* callback opens a database: the dead-locks the documentation warns of.
THEOREM DeadlocksExplained == Spec => []DeadlockExplained
BY WaitInvariance, CycleExplained, PTL

\* An application whose threads never open or resize while they hold a
\* transaction, and whose callback opens no database, never dead-locks in a
\* circular wait, for any number of threads.
THEOREM DeadlockFree ==
    ASSUME ~Overlap, ~CallbackOpensDb PROVE Spec => []NoDeadlock
<1>1. WInv => NoDeadlock
  <2> SUFFICES ASSUME WInv, NEW S \in SUBSET Threads, DeadlockedSet(S) PROVE FALSE
    BY DEF NoDeadlock
  <2>1. PICK t \in S : Held(t) # {} \/ cb[t] = "open_db"
    BY CycleExplained DEF DeadlockExplained
  <2>2. Held(t) # {}
    BY <2>1 DEF WInv, StageInv
  <2>3. pc[t] \in {"idle", "use", "rs_unlock"}
    BY <2>2 DEF WInv, LoneInv, LoneOK, Held
  <2>4. WaitsFor(t) = {}
    BY <2>3 DEF WaitsFor
  <2> QED BY <2>4 DEF DeadlockedSet
<1> QED BY WaitInvariance, <1>1, PTL

=============================================================================
