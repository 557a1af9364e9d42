--------------------------- MODULE EnvTxnsProofs ---------------------------
(* Proofs about EnvTxns, for any number of threads and transaction objects.  *)
EXTENDS EnvTxns, FiniteSetTheorems, TLAPS

ResizeCalls == {"begin_rw", "create_db", "set_map_size", "do_resize"}

\* The threads that own db_resize_lock, read off their control state: inside
\* the resize, beginning a write transaction, or in the callback.
HoldsResizeLock(t) == \/ pc[t] \in ResizeLocs
                      \/ pc[t] \in GuardLocs /\ Kind(t) = "rw"
                      \/ cb[t] # "none"

\* Which object a thread works on, and in which state that object is.
SlotOK(t) ==
    /\ pc[t] \in GuardLocs \cup {"ro_begin", "g_drop"} => slot[t] \in Slots /\ obj[H(t)] = "free"
    /\ pc[t] = "use" => slot[t] \in Slots /\ obj[H(t)] # "free"
    /\ pc[t] = "rs_unlock" /\ slot[t] # NoSlot => obj[H(t)] # "free"
    /\ pc[t] \notin GuardLocs \cup {"ro_begin", "g_drop", "use", "rs_unlock"} => slot[t] = NoSlot

SlotInv == \A t \in Threads : SlotOK(t)

\* Which calls can be at which step.
CallInv == \A t \in Threads :
    /\ pc[t] \in ResizeLocs \cup {"rs_lock"} => call[t] \in ResizeCalls
    /\ pc[t] \in {"rs_need", "rw_begin"} => call[t] \in {"begin_rw", "create_db"}
    /\ pc[t] \in {"rs_cb", "rs_ret"} \/ cb[t] # "none" => call[t] \in ResizeCalls \ {"set_map_size"}
    /\ cb[t] # "none" => pc[t] \in GuardLocs \cup {"ro_begin", "use", "g_drop", "dbi_lock", "dbi_unlock", "rs_ret"}

\* db_resize_lock has one owner, and the control state agrees with it.
LockInv == \A t \in Threads : HoldsResizeLock(t) <=> db_resize_lock = t

\* The blocker exists exactly while some thread is in the blocked region.
BlockerInv == tx_blocker_count = IF \E t \in Threads : pc[t] \in BlockerLocs THEN 1 ELSE 0

\* While the map is being replaced, the only published guards are those of
\* threads that have not looked at the blocker yet, or are backing out.
RemapInv == \A t \in Threads : pc[t] \in {"rs_unmap", "rs_map"} =>
    \A h \in Counted : pc[h[1]] \in {"g_check", "g_backout"} /\ obj[h] = "free"

\* An open MDB_txn belongs to a complete object, or to a write transaction
\* whose guard is still being taken: under the lock, or under its parent.
OpenInv == \A h \in Handles : mdb[h] # "closed" =>
    \/ obj[h] \in {"ro", "rw", "nested"}
    \/ /\ pc[h[1]] \in GuardLocs
       /\ slot[h[1]] = h[2]
       /\ \/ Kind(h[1]) = "rw"
          \/ Kind(h[1]) = "nested" /\ \E p \in Handles : p[1] = h[1] /\ obj[p] # "free"

\* With mmap that does not fail, the map is absent only during a replacement,
\* and no transaction is left behind on an old one.
MapInv == ~MapCanFail => /\ \A h \in Handles : mdb[h] # "dangling"
                         /\ ~mapped => \E t \in Threads : pc[t] = "rs_map"

IInv == /\ TypeOK /\ SlotInv /\ CallInv /\ LockInv /\ BlockerInv
        /\ TxCountExact /\ RemapInv /\ OpenInv /\ MapInv

-----------------------------------------------------------------------------
(* tx_count and the set of published guards. *)

\* The published guards are finitely many.
LEMMA CountedFinite == IsFiniteSet(Counted)
<1>1. IsFiniteSet(Handles)
  BY ConstantsAssumption, FS_Product DEF Handles
<1> QED BY <1>1, FS_Subset DEF Counted

\* A published guard can be taken back out of tx_count without wrapping it.
LEMMA CountPositive ==
    ASSUME TxCountExact, NEW h \in Counted
    PROVE  /\ tx_count \in Nat /\ tx_count # 0 /\ tx_count - 1 \in Nat
           /\ Cardinality(Counted \ {h}) = tx_count - 1
<1>1. IsFiniteSet(Counted) BY CountedFinite
<1>2. /\ IsFiniteSet(Counted \ {h})
      /\ Cardinality(Counted \ {h}) = Cardinality(Counted) - 1
  BY <1>1, FS_RemoveElement
<1>3. Cardinality(Counted) \in Nat /\ Cardinality(Counted \ {h}) \in Nat
  BY <1>1, <1>2, FS_CardinalityType
<1> QED BY <1>2, <1>3 DEF TxCountExact

\* A drained counter means that no guard is published.
LEMMA DrainedIsEmpty == TxCountExact /\ tx_count = 0 => Counted = {}
BY CountedFinite, FS_EmptySet DEF TxCountExact

\* A thread that took a guard and has not dropped it is counted.
LEMMA GuardIsCounted ==
    ASSUME SlotInv, NEW t \in Threads,
           pc[t] \in {"g_check", "g_backout", "ro_begin", "g_drop"}
    PROVE  H(t) \in Counted
BY DEF SlotInv, SlotOK, Counted, Handles, H, GuardLocs

-----------------------------------------------------------------------------
(* Every step preserves every part of the invariant. *)

\* No step of a thread takes a variable out of its type; the counters stay
\* natural because a guard that is dropped was counted.
LEMMA TypeStep == IInv /\ [Next]_vars => TypeOK'
<1> SUFFICES ASSUME IInv, [Next]_vars PROVE TypeOK'
  OBVIOUS
<1> USE DEF IInv, TypeOK, Locs, Calls, GuardLocs, ResizeLocs, BlockerLocs,
      Handles
<1>1. CASE UNCHANGED vars
  BY <1>1 DEF vars
<1>2. ASSUME NEW t \in Threads, AppCall(t) PROVE TypeOK'
  <2>1. CASE BeginRo(t)
    BY <2>1 DEF BeginRo, Goto, StartGuard, FreeSlots, MayCall
  <2>2. CASE BeginRw(t) BY <2>2 DEF BeginRw, Goto, CallMethod, MayCall
  <2>3. CASE BeginNested(t)
    BY <2>3 DEF BeginNested, Goto, StartGuard, FreeSlots, MayCall, Held, Opened
  <2>4. CASE OpenDb(t) BY <2>4 DEF OpenDb, Goto, CallMethod, MayCall
  <2>5. CASE CreateDb(t) \/ SetMapSize(t) \/ DoResize(t) \/ Sync(t)
    BY <2>5 DEF CreateDb, Goto, CallMethod, MayCall, SetMapSize, DoResize, Sync
  <2> QED BY <1>2, <2>1, <2>2, <2>3, <2>4, <2>5 DEF AppCall
<1>3. ASSUME NEW t \in Threads, GuardStep(t) PROVE TypeOK'
  <2>1. CASE GuardIncr(t) BY <2>1 DEF GuardIncr, Goto
  <2>2. CASE GuardBlocked(t) BY <2>2 DEF GuardBlocked, Goto, BlockerSeen
  <2>3. CASE GuardAdmitsRo(t) BY <2>3 DEF GuardAdmitsRo, Goto, BlockerSeen
  <2>4. CASE GuardAdmitsRw(t)
    BY <2>4 DEF GuardAdmitsRw, Goto, BlockerSeen, Kind, H
  <2>5. CASE GuardAdmitsNested(t)
    BY <2>5 DEF GuardAdmitsNested, Goto, BlockerSeen, H, Return
  <2>6. CASE GuardBackOut(t)
    <3>1. tx_count - 1 \in Nat
      BY <2>6, GuardIsCounted, CountPositive DEF GuardBackOut
    <3> QED BY <2>6, <3>1 DEF GuardBackOut, Goto
  <2>7. CASE GuardPoll(t) BY <2>7 DEF GuardPoll, Goto, ResizeOver
  <2>8. CASE GuardDrop(t)
    <3>1. tx_count - 1 \in Nat
      BY <2>8, GuardIsCounted, CountPositive DEF GuardDrop
    <3> QED BY <2>8, <3>1 DEF GuardDrop, Goto
  <2> QED BY <1>3, <2>1, <2>2, <2>3, <2>4, <2>5, <2>6, <2>7, <2>8 DEF GuardStep
<1>4. ASSUME NEW t \in Threads, TxnStep(t) PROVE TypeOK'
  <2>1. CASE RoBegin(t)
    <3>1. H(t) \in Handles
      BY <2>1 DEF RoBegin, SlotInv, SlotOK, H
    <3>2. mdb' \in [Handles -> {"closed", "open", "dangling"}]
      BY <2>1, <3>1 DEF RoBegin, Opened
    <3>3. obj' \in [Handles -> {"free", "ro", "inactive", "rw", "nested"}]
      BY <2>1, <3>1 DEF RoBegin
    <3>4. CASE cb[t] = "none" /\ call[t] = "begin_ro"
      BY <2>1, <3>2, <3>3, <3>4 DEF RoBegin, Goto, Return
    <3>5. CASE ~(cb[t] = "none" /\ call[t] = "begin_ro")
      BY <2>1, <3>2, <3>3, <3>5 DEF RoBegin, Goto
    <3> QED BY <3>4, <3>5
  <2>2. CASE RoBeginFails(t) BY <2>2 DEF RoBeginFails, Goto
  <2>3. CASE FinishInternal(t)
    <3>1. H(t) \in Handles
      BY <2>3 DEF FinishInternal, SlotInv, SlotOK, H
    <3> QED BY <2>3, <3>1 DEF FinishInternal, Goto, EndTxn
  <2>4. CASE OpenDbLock(t) BY <2>4 DEF OpenDbLock, Goto, StartGuard, FreeSlots
  <2>5. CASE CreateDbLock(t) BY <2>5 DEF CreateDbLock, Goto, Kind
  <2>6. CASE DbiUnlock(t) BY <2>6 DEF DbiUnlock, Goto
  <2>7. CASE RwBegin(t)
    BY <2>7 DEF RwBegin, Goto, StartGuard, FreeSlots, Opened
  <2>8. CASE RwBeginFails(t) \/ SyncReadsMeta(t)
    BY <2>8 DEF RwBeginFails, Goto, SyncReadsMeta, Return
  <2> QED BY <1>4, <2>1, <2>2, <2>3, <2>4, <2>5, <2>6, <2>7, <2>8 DEF TxnStep
<1>5. ASSUME NEW t \in Threads, ResizeStep(t) PROVE TypeOK'
  <2>1. CASE ResizeLock(t) \/ ResizeLockPanics(t) \/ NeedsResize(t) \/
     CheckSpace(t)
    BY <2>1 DEF ResizeLock, Goto, ResizeLockPanics, LeaveResize, AfterResize,
       NeedsResize, CheckSpace
  <2>2. CASE Panic(t) BY <2>2 DEF Panic, Goto
  <2>3. CASE Block(t) BY <2>3 DEF Block, Goto
  <2>4. CASE Drain(t) BY <2>4 DEF Drain, Goto, Drained
  <2>5. CASE Unmap(t)
    <3>1. mdb' \in [Handles -> {"closed", "open", "dangling"}]
      BY <2>5 DEF Unmap
    <3>2. mapped' \in BOOLEAN
      BY <2>5 DEF Unmap
    <3>3. pc' \in [Threads -> Locs]
      BY <2>5 DEF Unmap, Goto
    <3> QED BY <2>5, <3>1, <3>2, <3>3 DEF Unmap
  <2>6. CASE Map(t) BY <2>6 DEF Map, Goto
  <2>7. CASE Unblock(t)
    <3>1. tx_blocker_count - 1 \in Nat
      BY <2>7 DEF Unblock, BlockerInv
    <3> QED BY <2>7, <3>1 DEF Unblock, Goto
  <2>8. CASE NoCallback(t) \/ CallbackBeginsRo(t) \/ CallbackOpens(t) \/
     CallbackReturn(t)
    BY <2>8 DEF NoCallback, Goto, CallbackBeginsRo, StartGuard, FreeSlots,
       CallbackOpens, CallbackReturn
  <2>9. CASE ResizeUnlock(t)
    BY <2>9 DEF ResizeUnlock, Goto, LeaveResize, AfterResize
  <2> QED BY <1>5, <2>1, <2>2, <2>3, <2>4, <2>5, <2>6, <2>7, <2>8, <2>9 DEF ResizeStep
<1>6. ASSUME NEW t \in Threads, NEW h \in Handles, AppStep(t, h) PROVE TypeOK'
  <2>1. CASE Close(t, h) BY <2>1 DEF Close, Goto, EndTxn, Held
  <2>2. CASE Reset(t, h) BY <2>2 DEF Reset, Goto, Held
  <2>3. CASE Renew(t, h) BY <2>3 DEF Renew, Goto, Held, Opened
  <2>4. CASE RenewFails(t, h) BY <2>4 DEF RenewFails, Goto, Held
  <2> QED BY <1>6, <2>1, <2>2, <2>3, <2>4 DEF AppStep
<1> QED BY <1>1, <1>2, <1>3, <1>4, <1>5, <1>6 DEF Next, CallStep

\* Every step preserves SlotInv: a guard under construction belongs to a free
\* object, a transaction in use to a live one.
LEMMA SlotStep == IInv /\ [Next]_vars => SlotInv'
<1> SUFFICES ASSUME IInv, [Next]_vars PROVE SlotInv'
  OBVIOUS
<1> USE DEF IInv, TypeOK, SlotInv, SlotOK, CallInv, Locs, GuardLocs,
      ResizeLocs, BlockerLocs, Handles, H
<1>1. CASE UNCHANGED vars
  BY <1>1 DEF vars
<1>2. ASSUME NEW t \in Threads, AppCall(t) PROVE SlotInv'
  <2>1. CASE BeginRo(t)
    BY <2>1 DEF BeginRo, Goto, StartGuard, FreeSlots, MayCall
  <2>2. CASE BeginRw(t) BY <2>2 DEF BeginRw, Goto, CallMethod, MayCall
  <2>3. CASE BeginNested(t)
    <3>1. PICK s \in FreeSlots(t) : slot' = [slot EXCEPT ![t] = s] /\ Goto(t, "g_inc")
      BY <2>3 DEF BeginNested, StartGuard
    <3>2. /\ slot'[t] = s /\ s \in Slots /\ pc'[t] = "g_inc"
          /\ obj[<<t, s>>] = "free" /\ obj' = obj
      BY <2>3, <3>1 DEF BeginNested, Goto, FreeSlots
    <3>3. \A u \in Threads \ {t} : pc'[u] = pc[u] /\ slot'[u] = slot[u]
      BY <3>1 DEF Goto
    <3>4. SlotOK(t)'
      BY <3>2
    <3>5. \A u \in Threads \ {t} : SlotOK(u)'
      <4> TAKE u \in Threads \ {t}
      <4>1. H(u)' = H(u) /\ obj'[H(u)] = obj[H(u)]
        BY <3>2, <3>3
      <4> QED BY <3>3, <4>1
    <3> QED BY <3>4, <3>5
  <2>4. CASE OpenDb(t) \/ CreateDb(t) \/ SetMapSize(t) \/ DoResize(t)
    BY <2>4 DEF OpenDb, Goto, CallMethod, MayCall, CreateDb, SetMapSize,
       DoResize
  <2>5. CASE Sync(t) BY <2>5 DEF Sync, Goto, CallMethod, MayCall
  <2> QED BY <1>2, <2>1, <2>2, <2>3, <2>4, <2>5 DEF AppCall
<1>3. ASSUME NEW t \in Threads, GuardStep(t) PROVE SlotInv'
  <2>1. CASE GuardIncr(t) BY <2>1 DEF GuardIncr, Goto
  <2>2. CASE GuardBlocked(t) BY <2>2 DEF GuardBlocked, Goto, BlockerSeen
  <2>3. CASE GuardAdmitsRo(t) BY <2>3 DEF GuardAdmitsRo, Goto, BlockerSeen
  <2>4. CASE GuardAdmitsRw(t)
    BY <2>4 DEF GuardAdmitsRw, Goto, BlockerSeen, Kind
  <2>5. CASE GuardAdmitsNested(t) \/ GuardBackOut(t) \/ GuardPoll(t) \/
     GuardDrop(t)
    BY <2>5 DEF GuardAdmitsNested, Goto, BlockerSeen, Return, GuardBackOut,
       GuardPoll, ResizeOver, GuardDrop
  <2> QED BY <1>3, <2>1, <2>2, <2>3, <2>4, <2>5 DEF GuardStep
<1>4. ASSUME NEW t \in Threads, TxnStep(t) PROVE SlotInv'
  <2>1. CASE RoBegin(t) BY <2>1 DEF RoBegin, Goto, Opened, Return
  <2>2. CASE RoBeginFails(t) BY <2>2 DEF RoBeginFails, Goto
  <2>3. CASE FinishInternal(t) BY <2>3 DEF FinishInternal, Goto, EndTxn
  <2>4. CASE OpenDbLock(t)
    <3>1. PICK s \in FreeSlots(t) : slot' = [slot EXCEPT ![t] = s] /\ Goto(t, "g_inc")
      BY <2>4 DEF OpenDbLock, StartGuard
    <3>2. /\ slot'[t] = s /\ s \in Slots /\ pc'[t] = "g_inc"
          /\ obj[<<t, s>>] = "free" /\ obj' = obj
      BY <2>4, <3>1 DEF OpenDbLock, Goto, FreeSlots
    <3>3. \A u \in Threads \ {t} : pc'[u] = pc[u] /\ slot'[u] = slot[u]
      BY <3>1 DEF Goto
    <3>4. SlotOK(t)'
      BY <3>2
    <3>5. \A u \in Threads \ {t} : SlotOK(u)'
      <4> TAKE u \in Threads \ {t}
      <4>1. H(u)' = H(u) /\ obj'[H(u)] = obj[H(u)]
        BY <3>2, <3>3
      <4> QED BY <3>3, <4>1
    <3> QED BY <3>4, <3>5
  <2>5. CASE CreateDbLock(t) BY <2>5 DEF CreateDbLock, Goto, Kind
  <2>6. CASE DbiUnlock(t) BY <2>6 DEF DbiUnlock, Goto
  <2>7. CASE RwBegin(t)
    BY <2>7 DEF RwBegin, Goto, StartGuard, FreeSlots, Opened
  <2>8. CASE RwBeginFails(t) BY <2>8 DEF RwBeginFails, Goto
  <2>9. CASE SyncReadsMeta(t) BY <2>9 DEF SyncReadsMeta, Goto, Return
  <2> QED BY <1>4, <2>1, <2>2, <2>3, <2>4, <2>5, <2>6, <2>7, <2>8, <2>9 DEF TxnStep
<1>5. ASSUME NEW t \in Threads, ResizeStep(t) PROVE SlotInv'
  <2>1. CASE ResizeLock(t) \/ ResizeLockPanics(t) \/ NeedsResize(t) \/
     CheckSpace(t)
    BY <2>1 DEF ResizeLock, Goto, ResizeLockPanics, LeaveResize, AfterResize,
       NeedsResize, CheckSpace
  <2>2. CASE Panic(t) \/ Block(t) \/ Drain(t) \/ Unmap(t)
    BY <2>2 DEF Panic, Goto, Block, Drain, Drained, Unmap
  <2>3. CASE Map(t) BY <2>3 DEF Map, Goto
  <2>4. CASE Unblock(t) BY <2>4 DEF Unblock, Goto
  <2>5. CASE NoCallback(t) BY <2>5 DEF NoCallback, Goto
  <2>6. CASE CallbackBeginsRo(t)
    BY <2>6 DEF CallbackBeginsRo, Goto, StartGuard, FreeSlots
  <2>7. CASE CallbackOpens(t) \/ CallbackReturn(t) \/ ResizeUnlock(t)
    BY <2>7 DEF CallbackOpens, Goto, CallbackReturn, ResizeUnlock, LeaveResize,
       AfterResize
  <2> QED BY <1>5, <2>1, <2>2, <2>3, <2>4, <2>5, <2>6, <2>7 DEF ResizeStep
<1>6. ASSUME NEW t \in Threads, NEW h \in Handles, AppStep(t, h) PROVE SlotInv'
  <2>1. CASE Close(t, h) BY <2>1 DEF Close, Goto, EndTxn, Held
  <2>2. CASE Reset(t, h) BY <2>2 DEF Reset, Goto, Held
  <2>3. CASE Renew(t, h) BY <2>3 DEF Renew, Goto, Held, Opened
  <2>4. CASE RenewFails(t, h) BY <2>4 DEF RenewFails, Goto, Held
  <2> QED BY <1>6, <2>1, <2>2, <2>3, <2>4 DEF AppStep
<1> QED BY <1>1, <1>2, <1>3, <1>4, <1>5, <1>6 DEF Next, CallStep

\* Every step preserves CallInv: each location belongs to the methods that
\* reach it.
LEMMA CallsStep == IInv /\ [Next]_vars => CallInv'
<1> SUFFICES ASSUME IInv, [Next]_vars PROVE CallInv'
  OBVIOUS
<1> USE DEF IInv, TypeOK, CallInv, ResizeCalls, Calls, GuardLocs, ResizeLocs,
      BlockerLocs
<1>1. CASE UNCHANGED vars
  BY <1>1 DEF vars
<1>2. ASSUME NEW t \in Threads, AppCall(t) PROVE CallInv'
  <2>1. CASE BeginRo(t)
    BY <2>1 DEF BeginRo, Goto, StartGuard, FreeSlots, MayCall
  <2>2. CASE BeginRw(t) BY <2>2 DEF BeginRw, Goto, CallMethod, MayCall
  <2>3. CASE BeginNested(t)
    BY <2>3 DEF BeginNested, Goto, StartGuard, FreeSlots, MayCall, Held, Opened
  <2>4. CASE OpenDb(t) BY <2>4 DEF OpenDb, Goto, CallMethod, MayCall
  <2>5. CASE CreateDb(t) \/ SetMapSize(t) \/ DoResize(t) \/ Sync(t)
    BY <2>5 DEF CreateDb, Goto, CallMethod, MayCall, SetMapSize, DoResize, Sync
  <2> QED BY <1>2, <2>1, <2>2, <2>3, <2>4, <2>5 DEF AppCall
<1>3. ASSUME NEW t \in Threads, GuardStep(t) PROVE CallInv'
  <2>1. CASE GuardIncr(t) \/ GuardBlocked(t) \/ GuardAdmitsRo(t) \/
     GuardAdmitsRw(t)
    BY <2>1 DEF GuardIncr, Goto, GuardBlocked, BlockerSeen, GuardAdmitsRo,
       GuardAdmitsRw, Kind, H
  <2>2. CASE GuardAdmitsNested(t)
    BY <2>2 DEF GuardAdmitsNested, Goto, Return, Kind
  <2>3. CASE GuardBackOut(t) \/ GuardPoll(t) \/ GuardDrop(t)
    BY <2>3 DEF GuardBackOut, Goto, GuardPoll, ResizeOver, GuardDrop
  <2> QED BY <1>3, <2>1, <2>2, <2>3 DEF GuardStep
<1>4. ASSUME NEW t \in Threads, TxnStep(t) PROVE CallInv'
  <2>1. CASE RoBegin(t) BY <2>1 DEF RoBegin, Goto, H, Opened, Return
  <2>2. CASE RoBeginFails(t) BY <2>2 DEF RoBeginFails, Goto
  <2>3. CASE FinishInternal(t) BY <2>3 DEF FinishInternal, Goto, EndTxn, H
  <2>4. CASE OpenDbLock(t) BY <2>4 DEF OpenDbLock, Goto, StartGuard, FreeSlots
  <2>5. CASE CreateDbLock(t) BY <2>5 DEF CreateDbLock, Goto, Kind
  <2>6. CASE DbiUnlock(t) BY <2>6 DEF DbiUnlock, Goto
  <2>7. CASE RwBegin(t)
    BY <2>7 DEF RwBegin, Goto, StartGuard, FreeSlots, Opened
  <2>8. CASE RwBeginFails(t) BY <2>8 DEF RwBeginFails, Goto
  <2>9. CASE SyncReadsMeta(t) BY <2>9 DEF SyncReadsMeta, Goto, Return
  <2> QED BY <1>4, <2>1, <2>2, <2>3, <2>4, <2>5, <2>6, <2>7, <2>8, <2>9 DEF TxnStep
<1>5. ASSUME NEW t \in Threads, ResizeStep(t) PROVE CallInv'
  <2>1. CASE ResizeLock(t) \/ ResizeLockPanics(t) \/ NeedsResize(t) \/
     CheckSpace(t)
    BY <2>1 DEF ResizeLock, Goto, ResizeLockPanics, LeaveResize, AfterResize,
       NeedsResize, CheckSpace
  <2>2. CASE Panic(t) \/ Block(t) \/ Drain(t) \/ Unmap(t)
    BY <2>2 DEF Panic, Goto, Block, Drain, Drained, Unmap
  <2>3. CASE Map(t)
    <3>1. PICK l \in {"rs_unblock", "rs_unblock_err"} : Goto(t, l)
      BY <2>3 DEF Map
    <3> QED BY <2>3, <3>1 DEF Map, Goto
  <2>4. CASE Unblock(t) BY <2>4 DEF Unblock, Goto
  <2>5. CASE NoCallback(t) BY <2>5 DEF NoCallback, Goto
  <2>6. CASE CallbackBeginsRo(t)
    BY <2>6 DEF CallbackBeginsRo, Goto, StartGuard, FreeSlots
  <2>7. CASE CallbackOpens(t) BY <2>7 DEF CallbackOpens, Goto
  <2>8. CASE CallbackReturn(t) \/ ResizeUnlock(t)
    BY <2>8 DEF CallbackReturn, Goto, ResizeUnlock, LeaveResize, AfterResize
  <2> QED BY <1>5, <2>1, <2>2, <2>3, <2>4, <2>5, <2>6, <2>7, <2>8 DEF ResizeStep
<1>6. ASSUME NEW t \in Threads, NEW h \in Handles, AppStep(t, h) PROVE CallInv'
  <2>1. CASE Close(t, h) \/ Reset(t, h) \/ Renew(t, h) \/ RenewFails(t, h)
    BY <2>1 DEF Close, Goto, EndTxn, Held, Reset, Renew, Opened, RenewFails
  <2> QED BY <1>6, <2>1 DEF AppStep
<1> QED BY <1>1, <1>2, <1>3, <1>4, <1>5, <1>6 DEF Next, CallStep

\* Every step preserves LockInv: db_resize_lock is owned by exactly the thread
\* that is inside its critical section.
LEMMA LockStep == IInv /\ [Next]_vars => LockInv'
<1> SUFFICES ASSUME IInv, [Next]_vars PROVE LockInv'
  OBVIOUS
<1> USE DEF IInv, TypeOK, LockInv, HoldsResizeLock, Kind, CallInv, ResizeCalls,
      Calls, GuardLocs, ResizeLocs, BlockerLocs
<1>1. CASE UNCHANGED vars
  BY <1>1 DEF vars
<1>2. ASSUME NEW t \in Threads, AppCall(t) PROVE LockInv'
  <2>1. CASE BeginRo(t)
    BY <2>1 DEF BeginRo, Goto, StartGuard, FreeSlots, MayCall
  <2>2. CASE BeginRw(t) BY <2>2 DEF BeginRw, Goto, CallMethod, MayCall
  <2>3. CASE BeginNested(t)
    BY <2>3 DEF BeginNested, Goto, StartGuard, FreeSlots, MayCall, Held, Opened
  <2>4. CASE OpenDb(t) BY <2>4 DEF OpenDb, Goto, CallMethod, MayCall
  <2>5. CASE CreateDb(t) \/ SetMapSize(t) \/ DoResize(t) \/ Sync(t)
    BY <2>5 DEF CreateDb, Goto, CallMethod, MayCall, SetMapSize, DoResize, Sync
  <2> QED BY <1>2, <2>1, <2>2, <2>3, <2>4, <2>5 DEF AppCall
<1>3. ASSUME NEW t \in Threads, GuardStep(t) PROVE LockInv'
  <2>1. CASE GuardIncr(t) \/ GuardBlocked(t) \/ GuardAdmitsRo(t) \/
     GuardAdmitsRw(t)
    BY <2>1 DEF GuardIncr, Goto, GuardBlocked, BlockerSeen, GuardAdmitsRo,
       GuardAdmitsRw, H
  <2>2. CASE GuardAdmitsNested(t) \/ GuardBackOut(t) \/ GuardPoll(t) \/
     GuardDrop(t)
    BY <2>2 DEF GuardAdmitsNested, Goto, BlockerSeen, H, Return, GuardBackOut,
       GuardPoll, ResizeOver, GuardDrop
  <2> QED BY <1>3, <2>1, <2>2 DEF GuardStep
<1>4. ASSUME NEW t \in Threads, TxnStep(t) PROVE LockInv'
  <2>1. CASE RoBegin(t) BY <2>1 DEF RoBegin, Goto, H, Opened, Return
  <2>2. CASE RoBeginFails(t) BY <2>2 DEF RoBeginFails, Goto
  <2>3. CASE FinishInternal(t) BY <2>3 DEF FinishInternal, Goto, EndTxn, H
  <2>4. CASE OpenDbLock(t) BY <2>4 DEF OpenDbLock, Goto, StartGuard, FreeSlots
  <2>5. CASE CreateDbLock(t) BY <2>5 DEF CreateDbLock, Goto
  <2>6. CASE DbiUnlock(t) BY <2>6 DEF DbiUnlock, Goto
  <2>7. CASE RwBegin(t)
    BY <2>7 DEF RwBegin, Goto, StartGuard, FreeSlots, Opened
  <2>8. CASE RwBeginFails(t) BY <2>8 DEF RwBeginFails, Goto
  <2>9. CASE SyncReadsMeta(t) BY <2>9 DEF SyncReadsMeta, Goto, Return
  <2> QED BY <1>4, <2>1, <2>2, <2>3, <2>4, <2>5, <2>6, <2>7, <2>8, <2>9 DEF TxnStep
<1>5. ASSUME NEW t \in Threads, ResizeStep(t) PROVE LockInv'
  <2>1. CASE ResizeLock(t) \/ ResizeLockPanics(t) \/ NeedsResize(t) \/
     CheckSpace(t)
    BY <2>1, ConstantsAssumption DEF ResizeLock, Goto, ResizeLockPanics,
       LeaveResize, AfterResize, NeedsResize, CheckSpace
  <2>2. CASE Panic(t) \/ Block(t) \/ Drain(t) \/ Unmap(t)
    BY <2>2 DEF Panic, Goto, Block, Drain, Drained, Unmap
  <2>3. CASE Map(t) BY <2>3 DEF Map, Goto
  <2>4. CASE Unblock(t) BY <2>4 DEF Unblock, Goto
  <2>5. CASE NoCallback(t) BY <2>5 DEF NoCallback, Goto
  <2>6. CASE CallbackBeginsRo(t)
    BY <2>6 DEF CallbackBeginsRo, Goto, StartGuard, FreeSlots
  <2>7. CASE CallbackOpens(t) \/ CallbackReturn(t) \/ ResizeUnlock(t)
    BY <2>7, ConstantsAssumption DEF CallbackOpens, Goto, CallbackReturn,
       ResizeUnlock, LeaveResize, AfterResize
  <2> QED BY <1>5, <2>1, <2>2, <2>3, <2>4, <2>5, <2>6, <2>7 DEF ResizeStep
<1>6. ASSUME NEW t \in Threads, NEW h \in Handles, AppStep(t, h) PROVE LockInv'
  <2>1. CASE Close(t, h) \/ Reset(t, h) \/ Renew(t, h) \/ RenewFails(t, h)
    BY <2>1 DEF Close, Goto, EndTxn, Held, Reset, Renew, Opened, RenewFails
  <2> QED BY <1>6, <2>1 DEF AppStep
<1> QED BY <1>1, <1>2, <1>3, <1>4, <1>5, <1>6 DEF Next, CallStep

\* Every step preserves BlockerInv: Block and Unblock run under the lock.
LEMMA BlockerStep == IInv /\ [Next]_vars => BlockerInv'
<1> SUFFICES ASSUME IInv, [Next]_vars PROVE BlockerInv'
  OBVIOUS
<1> USE DEF IInv, TypeOK, LockInv, HoldsResizeLock, BlockerInv, GuardLocs,
      ResizeLocs, BlockerLocs
<1>1. CASE UNCHANGED vars
  BY <1>1 DEF vars
<1>2. ASSUME NEW t \in Threads, AppCall(t) PROVE BlockerInv'
  <2>1. CASE BeginRo(t)
    BY <2>1 DEF BeginRo, Goto, StartGuard, FreeSlots, MayCall
  <2>2. CASE BeginRw(t) BY <2>2 DEF BeginRw, Goto, CallMethod, MayCall
  <2>3. CASE BeginNested(t)
    BY <2>3 DEF BeginNested, Goto, StartGuard, FreeSlots, MayCall, Held, Opened
  <2>4. CASE OpenDb(t) BY <2>4 DEF OpenDb, Goto, CallMethod, MayCall
  <2>5. CASE CreateDb(t) \/ SetMapSize(t) \/ DoResize(t) \/ Sync(t)
    BY <2>5 DEF CreateDb, Goto, CallMethod, MayCall, SetMapSize, DoResize, Sync
  <2> QED BY <1>2, <2>1, <2>2, <2>3, <2>4, <2>5 DEF AppCall
<1>3. ASSUME NEW t \in Threads, GuardStep(t) PROVE BlockerInv'
  <2>1. CASE GuardIncr(t) \/ GuardBlocked(t) \/ GuardAdmitsRo(t) \/
     GuardAdmitsRw(t)
    BY <2>1 DEF GuardIncr, Goto, GuardBlocked, BlockerSeen, GuardAdmitsRo,
       GuardAdmitsRw, Kind, H
  <2>2. CASE GuardAdmitsNested(t) \/ GuardBackOut(t) \/ GuardPoll(t) \/
     GuardDrop(t)
    BY <2>2 DEF GuardAdmitsNested, Goto, BlockerSeen, H, Return, GuardBackOut,
       GuardPoll, ResizeOver, GuardDrop
  <2> QED BY <1>3, <2>1, <2>2 DEF GuardStep
<1>4. ASSUME NEW t \in Threads, TxnStep(t) PROVE BlockerInv'
  <2>1. CASE RoBegin(t) BY <2>1 DEF RoBegin, Goto, H, Opened, Return
  <2>2. CASE RoBeginFails(t) BY <2>2 DEF RoBeginFails, Goto
  <2>3. CASE FinishInternal(t) BY <2>3 DEF FinishInternal, Goto, EndTxn, H
  <2>4. CASE OpenDbLock(t) BY <2>4 DEF OpenDbLock, Goto, StartGuard, FreeSlots
  <2>5. CASE CreateDbLock(t) \/ DbiUnlock(t) \/ RwBegin(t) \/ RwBeginFails(t)
    BY <2>5 DEF CreateDbLock, Goto, Kind, DbiUnlock, RwBegin, StartGuard,
       FreeSlots, Opened, RwBeginFails
  <2>6. CASE SyncReadsMeta(t) BY <2>6 DEF SyncReadsMeta, Goto, Return
  <2> QED BY <1>4, <2>1, <2>2, <2>3, <2>4, <2>5, <2>6 DEF TxnStep
<1>5. ASSUME NEW t \in Threads, ResizeStep(t) PROVE BlockerInv'
  <2>1. CASE ResizeLock(t) \/ ResizeLockPanics(t) \/ NeedsResize(t) \/
     CheckSpace(t)
    BY <2>1 DEF ResizeLock, Goto, ResizeLockPanics, LeaveResize, AfterResize,
       NeedsResize, CheckSpace
  <2>2. CASE Panic(t) \/ Block(t) \/ Drain(t) \/ Unmap(t)
    BY <2>2 DEF Panic, Goto, Block, Drain, Drained, Unmap
  <2>3. CASE Map(t) BY <2>3 DEF Map, Goto
  <2>4. CASE Unblock(t) BY <2>4 DEF Unblock, Goto
  <2>5. CASE NoCallback(t) BY <2>5 DEF NoCallback, Goto
  <2>6. CASE CallbackBeginsRo(t)
    BY <2>6 DEF CallbackBeginsRo, Goto, StartGuard, FreeSlots
  <2>7. CASE CallbackOpens(t) \/ CallbackReturn(t) \/ ResizeUnlock(t)
    BY <2>7 DEF CallbackOpens, Goto, CallbackReturn, ResizeUnlock, LeaveResize,
       AfterResize
  <2> QED BY <1>5, <2>1, <2>2, <2>3, <2>4, <2>5, <2>6, <2>7 DEF ResizeStep
<1>6. ASSUME NEW t \in Threads, NEW h \in Handles, AppStep(t, h) PROVE BlockerInv'
  <2>1. CASE Close(t, h) \/ Reset(t, h) \/ Renew(t, h) \/ RenewFails(t, h)
    BY <2>1 DEF Close, Goto, EndTxn, Held, Reset, Renew, Opened, RenewFails
  <2> QED BY <1>6, <2>1 DEF AppStep
<1> QED BY <1>1, <1>2, <1>3, <1>4, <1>5, <1>6 DEF Next, CallStep

\* Every step preserves RemapInv: a guard taken after the drain sees the
\* blocker and backs out.
LEMMA RemapStep == IInv /\ [Next]_vars => RemapInv'
<1> SUFFICES ASSUME IInv, [Next]_vars PROVE RemapInv'
  OBVIOUS
<1> USE DEF IInv, TypeOK, LockInv, HoldsResizeLock, BlockerInv, SlotInv,
      SlotOK, RemapInv, Counted, GuardLocs, ResizeLocs, BlockerLocs, Handles,
      H
<1>1. CASE UNCHANGED vars
  BY <1>1 DEF vars
<1>2. ASSUME NEW t \in Threads, AppCall(t) PROVE RemapInv'
  <2>1. CASE BeginRo(t)
    <3>1. PICK s \in FreeSlots(t) : slot' = [slot EXCEPT ![t] = s] /\ Goto(t, "g_inc")
      BY <2>1 DEF BeginRo, StartGuard
    <3>2. Counted' = Counted
      BY <2>1, <3>1 DEF BeginRo, MayCall, Goto
    <3> QED BY <2>1, <3>1, <3>2 DEF BeginRo, MayCall, Goto
  <2>2. CASE BeginRw(t) BY <2>2 DEF BeginRw, Goto, CallMethod, MayCall
  <2>3. CASE BeginNested(t)
    BY <2>3 DEF BeginNested, Goto, StartGuard, FreeSlots, MayCall, Held, Opened
  <2>4. CASE OpenDb(t) BY <2>4 DEF OpenDb, Goto, CallMethod, MayCall
  <2>5. CASE CreateDb(t) BY <2>5 DEF CreateDb, Goto, CallMethod, MayCall
  <2>6. CASE SetMapSize(t) \/ DoResize(t) \/ Sync(t)
    BY <2>6 DEF SetMapSize, Goto, CallMethod, MayCall, DoResize, Sync
  <2> QED BY <1>2, <2>1, <2>2, <2>3, <2>4, <2>5, <2>6 DEF AppCall
<1>3. ASSUME NEW t \in Threads, GuardStep(t) PROVE RemapInv'
  <2>1. CASE GuardIncr(t) BY <2>1 DEF GuardIncr, Goto
  <2>2. CASE GuardBlocked(t) BY <2>2 DEF GuardBlocked, Goto, BlockerSeen
  <2>3. CASE GuardAdmitsRo(t) BY <2>3 DEF GuardAdmitsRo, Goto, BlockerSeen
  <2>4. CASE GuardAdmitsRw(t)
    BY <2>4 DEF GuardAdmitsRw, Goto, BlockerSeen, Kind
  <2>5. CASE GuardAdmitsNested(t) \/ GuardBackOut(t) \/ GuardPoll(t)
    BY <2>5 DEF GuardAdmitsNested, Goto, BlockerSeen, Return, GuardBackOut,
       GuardPoll, ResizeOver
  <2>6. CASE GuardDrop(t)
    <3>1. H(t) \in Counted /\ pc[t] = "g_drop"
      BY <2>6, GuardIsCounted DEF GuardDrop
    <3>2. \A u \in Threads : pc[u] \notin {"rs_unmap", "rs_map"}
      BY <3>1
    <3> QED BY <2>6, <3>2 DEF GuardDrop, Goto
  <2> QED BY <1>3, <2>1, <2>2, <2>3, <2>4, <2>5, <2>6 DEF GuardStep
<1>4. ASSUME NEW t \in Threads, TxnStep(t) PROVE RemapInv'
  <2>1. CASE RoBegin(t)
    <3>1. H(t) \in Counted /\ pc[t] = "ro_begin"
      BY <2>1, GuardIsCounted DEF RoBegin
    <3>2. \A u \in Threads : pc[u] \notin {"rs_unmap", "rs_map"}
      BY <3>1
    <3>3. \A u \in Threads : pc'[u] \notin {"rs_unmap", "rs_map"}
      BY <2>1, <3>2 DEF RoBegin, Goto, Return
    <3> QED BY <3>3
  <2>2. CASE RoBeginFails(t) BY <2>2 DEF RoBeginFails, Goto
  <2>3. CASE FinishInternal(t) BY <2>3 DEF FinishInternal, Goto, EndTxn
  <2>4. CASE OpenDbLock(t) BY <2>4 DEF OpenDbLock, Goto, StartGuard, FreeSlots
  <2>5. CASE CreateDbLock(t) BY <2>5 DEF CreateDbLock, Goto, Kind
  <2>6. CASE DbiUnlock(t) BY <2>6 DEF DbiUnlock, Goto
  <2>7. CASE RwBegin(t)
    BY <2>7 DEF RwBegin, Goto, StartGuard, FreeSlots, Opened
  <2>8. CASE RwBeginFails(t) BY <2>8 DEF RwBeginFails, Goto
  <2>9. CASE SyncReadsMeta(t) BY <2>9 DEF SyncReadsMeta, Goto, Return
  <2> QED BY <1>4, <2>1, <2>2, <2>3, <2>4, <2>5, <2>6, <2>7, <2>8, <2>9 DEF TxnStep
<1>5. ASSUME NEW t \in Threads, ResizeStep(t) PROVE RemapInv'
  <2>1. CASE ResizeLock(t) \/ ResizeLockPanics(t) \/ NeedsResize(t) \/
     CheckSpace(t)
    BY <2>1 DEF ResizeLock, Goto, ResizeLockPanics, LeaveResize, AfterResize,
       NeedsResize, CheckSpace
  <2>2. CASE Panic(t) \/ Block(t) \/ Drain(t) \/ Unmap(t)
    BY <2>2, DrainedIsEmpty DEF Panic, Goto, Block, Drain, Drained, Unmap
  <2>3. CASE Map(t) BY <2>3 DEF Map, Goto
  <2>4. CASE Unblock(t) BY <2>4 DEF Unblock, Goto
  <2>5. CASE NoCallback(t) BY <2>5 DEF NoCallback, Goto
  <2>6. CASE CallbackBeginsRo(t)
    BY <2>6 DEF CallbackBeginsRo, Goto, StartGuard, FreeSlots
  <2>7. CASE CallbackOpens(t) \/ CallbackReturn(t) \/ ResizeUnlock(t)
    BY <2>7 DEF CallbackOpens, Goto, CallbackReturn, ResizeUnlock, LeaveResize,
       AfterResize
  <2> QED BY <1>5, <2>1, <2>2, <2>3, <2>4, <2>5, <2>6, <2>7 DEF ResizeStep
<1>6. ASSUME NEW t \in Threads, NEW h \in Handles, AppStep(t, h) PROVE RemapInv'
  <2>1. CASE Close(t, h) \/ Reset(t, h) \/ Renew(t, h) \/ RenewFails(t, h)
    BY <2>1 DEF Close, Goto, EndTxn, Held, Reset, Renew, Opened, RenewFails
  <2> QED BY <1>6, <2>1 DEF AppStep
<1> QED BY <1>1, <1>2, <1>3, <1>4, <1>5, <1>6 DEF Next, CallStep

\* Every step preserves OpenInv: an open MDB_txn is covered by an object, by
\* the lock, or by its parent.
LEMMA OpenStep == IInv /\ [Next]_vars => OpenInv'
<1> SUFFICES ASSUME IInv, [Next]_vars PROVE OpenInv'
  OBVIOUS
<1> USE DEF IInv, TypeOK, SlotInv, SlotOK, OpenInv, Kind, CallInv, GuardLocs,
      ResizeLocs, BlockerLocs, Handles, H
<1>1. CASE UNCHANGED vars
  BY <1>1 DEF vars
<1>2. ASSUME NEW t \in Threads, AppCall(t) PROVE OpenInv'
  <2>1. CASE BeginRo(t)
    BY <2>1 DEF BeginRo, Goto, StartGuard, FreeSlots, MayCall
  <2>2. CASE BeginRw(t) BY <2>2 DEF BeginRw, Goto, CallMethod, MayCall
  <2>3. CASE BeginNested(t)
    BY <2>3 DEF BeginNested, Goto, StartGuard, FreeSlots, MayCall, Held, Opened
  <2>4. CASE OpenDb(t) BY <2>4 DEF OpenDb, Goto, CallMethod, MayCall
  <2>5. CASE CreateDb(t) \/ SetMapSize(t) \/ DoResize(t) \/ Sync(t)
    BY <2>5 DEF CreateDb, Goto, CallMethod, MayCall, SetMapSize, DoResize, Sync
  <2> QED BY <1>2, <2>1, <2>2, <2>3, <2>4, <2>5 DEF AppCall
<1>3. ASSUME NEW t \in Threads, GuardStep(t) PROVE OpenInv'
  <2>1. CASE GuardIncr(t) BY <2>1 DEF GuardIncr, Goto
  <2>2. CASE GuardBlocked(t) BY <2>2 DEF GuardBlocked, Goto, BlockerSeen
  <2>3. CASE GuardAdmitsRo(t) BY <2>3 DEF GuardAdmitsRo, Goto, BlockerSeen
  <2>4. CASE GuardAdmitsRw(t) BY <2>4 DEF GuardAdmitsRw, Goto, BlockerSeen
  <2>5. CASE GuardAdmitsNested(t)
    BY <2>5 DEF GuardAdmitsNested, Goto, BlockerSeen, Return
  <2>6. CASE GuardBackOut(t) BY <2>6 DEF GuardBackOut, Goto
  <2>7. CASE GuardPoll(t) BY <2>7 DEF GuardPoll, Goto, ResizeOver
  <2>8. CASE GuardDrop(t) BY <2>8 DEF GuardDrop, Goto
  <2> QED BY <1>3, <2>1, <2>2, <2>3, <2>4, <2>5, <2>6, <2>7, <2>8 DEF GuardStep
<1>4. ASSUME NEW t \in Threads, TxnStep(t) PROVE OpenInv'
  <2>1. CASE RoBegin(t) BY <2>1 DEF RoBegin, Goto, Opened, Return
  <2>2. CASE RoBeginFails(t) BY <2>2 DEF RoBeginFails, Goto
  <2>3. CASE FinishInternal(t) BY <2>3 DEF FinishInternal, Goto, EndTxn
  <2>4. CASE OpenDbLock(t) BY <2>4 DEF OpenDbLock, Goto, StartGuard, FreeSlots
  <2>5. CASE CreateDbLock(t) BY <2>5 DEF CreateDbLock, Goto
  <2>6. CASE DbiUnlock(t) BY <2>6 DEF DbiUnlock, Goto
  <2>7. CASE RwBegin(t)
    BY <2>7 DEF RwBegin, Goto, StartGuard, FreeSlots, Opened
  <2>8. CASE RwBeginFails(t) BY <2>8 DEF RwBeginFails, Goto
  <2>9. CASE SyncReadsMeta(t) BY <2>9 DEF SyncReadsMeta, Goto, Return
  <2> QED BY <1>4, <2>1, <2>2, <2>3, <2>4, <2>5, <2>6, <2>7, <2>8, <2>9 DEF TxnStep
<1>5. ASSUME NEW t \in Threads, ResizeStep(t) PROVE OpenInv'
  <2>1. CASE ResizeLock(t) \/ ResizeLockPanics(t) \/ NeedsResize(t) \/
     CheckSpace(t)
    BY <2>1 DEF ResizeLock, Goto, ResizeLockPanics, LeaveResize, AfterResize,
       NeedsResize, CheckSpace
  <2>2. CASE Panic(t) \/ Block(t) \/ Drain(t) \/ Unmap(t)
    BY <2>2 DEF Panic, Goto, Block, Drain, Drained, Unmap
  <2>3. CASE Map(t) BY <2>3 DEF Map, Goto
  <2>4. CASE Unblock(t) BY <2>4 DEF Unblock, Goto
  <2>5. CASE NoCallback(t) BY <2>5 DEF NoCallback, Goto
  <2>6. CASE CallbackBeginsRo(t)
    BY <2>6 DEF CallbackBeginsRo, Goto, StartGuard, FreeSlots
  <2>7. CASE CallbackOpens(t) BY <2>7 DEF CallbackOpens, Goto
  <2>8. CASE CallbackReturn(t) BY <2>8 DEF CallbackReturn, Goto
  <2>9. CASE ResizeUnlock(t)
    BY <2>9 DEF ResizeUnlock, Goto, LeaveResize, AfterResize
  <2> QED BY <1>5, <2>1, <2>2, <2>3, <2>4, <2>5, <2>6, <2>7, <2>8, <2>9 DEF ResizeStep
<1>6. ASSUME NEW t \in Threads, NEW h \in Handles, AppStep(t, h) PROVE OpenInv'
  <2>1. CASE Close(t, h) \/ Reset(t, h) \/ Renew(t, h) \/ RenewFails(t, h)
    BY <2>1 DEF Close, Goto, EndTxn, Held, Reset, Renew, Opened, RenewFails
  <2> QED BY <1>6, <2>1 DEF AppStep
<1> QED BY <1>1, <1>2, <1>3, <1>4, <1>5, <1>6 DEF Next, CallStep

\* A live object keeps every thread out of the replacement of the map.
LEMMA HeldPinsMap ==
    ASSUME IInv, NEW h \in Handles, obj[h] # "free"
    PROVE  \A u \in Threads : pc[u] \notin {"rs_unmap", "rs_map"}
BY DEF IInv, RemapInv, Counted

\* So does a guard whose transaction is about to begin.
LEMMA AdmittedPinsMap ==
    ASSUME IInv, NEW t \in Threads, pc[t] \in {"ro_begin", "g_drop"}
    PROVE  \A u \in Threads : pc[u] \notin {"rs_unmap", "rs_map"}
BY GuardIsCounted DEF IInv, RemapInv, H

\* The invariant excludes open transactions from the replacement of the map.
LEMMA RemapExcludesOpen == IInv => RemapExclusive
<1> SUFFICES ASSUME IInv, NEW t \in Threads, pc[t] \in {"rs_unmap", "rs_map"},
                    NEW h \in Handles, mdb[h] # "closed"
             PROVE  FALSE
  BY DEF RemapExclusive
<1>1. CASE obj[h] \in {"ro", "rw", "nested"}
  BY <1>1, HeldPinsMap
<1>2. CASE pc[h[1]] \in GuardLocs /\ Kind(h[1]) = "rw"
  <2>1. h[1] \in Threads
    BY DEF Handles
  <2>2. db_resize_lock = t /\ db_resize_lock = h[1]
    BY <1>2, <2>1 DEF IInv, LockInv, HoldsResizeLock, ResizeLocs, BlockerLocs
  <2> QED BY <1>2, <2>2 DEF GuardLocs
<1>3. CASE \E p \in Handles : p[1] = h[1] /\ obj[p] # "free"
  BY <1>3, HeldPinsMap
<1> QED BY <1>1, <1>2, <1>3 DEF IInv, OpenInv

\* Every step preserves MapInv: nothing is open when the file is unmapped, and
\* nothing opens before it is mapped again.
LEMMA MapStep == IInv /\ [Next]_vars => MapInv'
<1> SUFFICES ASSUME IInv, [Next]_vars PROVE MapInv'
  OBVIOUS
<1> USE DEF IInv, TypeOK, MapInv
<1>1. CASE UNCHANGED vars
  BY <1>1 DEF vars
<1>2. ASSUME NEW t \in Threads, AppCall(t) PROVE MapInv'
  <2>1. CASE BeginRo(t) \/ BeginRw(t)
    BY <2>1 DEF BeginRo, Goto, StartGuard, FreeSlots, MayCall, BeginRw,
       CallMethod
  <2>2. CASE BeginNested(t)
    <3>1. \A u \in Threads : pc[u] \notin {"rs_unmap", "rs_map"}
      BY <2>2, HeldPinsMap DEF BeginNested, Held
    <3> QED BY <2>2, <3>1 DEF BeginNested, Opened, StartGuard, Goto
  <2>3. CASE OpenDb(t) \/ CreateDb(t) \/ SetMapSize(t) \/ DoResize(t)
    BY <2>3 DEF OpenDb, Goto, CallMethod, MayCall, CreateDb, SetMapSize,
       DoResize
  <2>4. CASE Sync(t) BY <2>4 DEF Sync, Goto, CallMethod, MayCall
  <2> QED BY <1>2, <2>1, <2>2, <2>3, <2>4 DEF AppCall
<1>3. ASSUME NEW t \in Threads, GuardStep(t) PROVE MapInv'
  <2>1. CASE GuardIncr(t) \/ GuardBlocked(t) \/ GuardAdmitsRo(t) \/
     GuardAdmitsRw(t)
    BY <2>1 DEF GuardIncr, Goto, GuardBlocked, BlockerSeen, GuardAdmitsRo,
       GuardAdmitsRw, Kind, H
  <2>2. CASE GuardAdmitsNested(t) \/ GuardBackOut(t) \/ GuardPoll(t) \/
     GuardDrop(t)
    BY <2>2 DEF GuardAdmitsNested, Goto, BlockerSeen, H, Return, GuardBackOut,
       GuardPoll, ResizeOver, GuardDrop
  <2> QED BY <1>3, <2>1, <2>2 DEF GuardStep
<1>4. ASSUME NEW t \in Threads, TxnStep(t) PROVE MapInv'
  <2>1. CASE RoBegin(t)
    <3>1. \A u \in Threads : pc[u] \notin {"rs_unmap", "rs_map"}
      BY <2>1, AdmittedPinsMap DEF RoBegin
    <3> QED BY <2>1, <3>1 DEF RoBegin, Opened, Return, Goto
  <2>2. CASE RoBeginFails(t) \/ FinishInternal(t) \/ OpenDbLock(t) \/
     CreateDbLock(t)
    BY <2>2 DEF RoBeginFails, Goto, FinishInternal, EndTxn, H, OpenDbLock,
       StartGuard, FreeSlots, CreateDbLock, Kind
  <2>3. CASE DbiUnlock(t) BY <2>3 DEF DbiUnlock, Goto
  <2>4. CASE RwBegin(t)
    <3>1. \A u \in Threads : pc[u] \notin {"rs_unmap", "rs_map"}
      BY <2>4 DEF RwBegin, LockInv, HoldsResizeLock, ResizeLocs, BlockerLocs
    <3> QED BY <2>4, <3>1 DEF RwBegin, Opened, StartGuard, Goto
  <2>5. CASE RwBeginFails(t) \/ SyncReadsMeta(t)
    BY <2>5 DEF RwBeginFails, Goto, SyncReadsMeta, Return
  <2> QED BY <1>4, <2>1, <2>2, <2>3, <2>4, <2>5 DEF TxnStep
<1>5. ASSUME NEW t \in Threads, ResizeStep(t) PROVE MapInv'
  <2>1. CASE ResizeLock(t) \/ ResizeLockPanics(t) \/ NeedsResize(t) \/
     CheckSpace(t)
    BY <2>1 DEF ResizeLock, Goto, ResizeLockPanics, LeaveResize, AfterResize,
       NeedsResize, CheckSpace
  <2>2. CASE Panic(t) \/ Block(t) \/ Drain(t)
    BY <2>2 DEF Panic, Goto, Block, Drain, Drained
  <2>3. CASE Unmap(t)
    <3>1. \A h \in Handles : mdb[h] = "closed"
      BY <2>3, RemapExcludesOpen DEF Unmap, RemapExclusive
    <3>2. \A h \in Handles : mdb'[h] # "dangling"
      BY <2>3, <3>1 DEF Unmap
    <3> QED BY <2>3, <3>2 DEF Unmap, Goto
  <2>4. CASE Map(t)
    BY <2>4 DEF Map, Goto, LockInv, HoldsResizeLock, ResizeLocs, BlockerLocs
  <2>5. CASE Unblock(t) \/ NoCallback(t) \/ CallbackBeginsRo(t) \/
     CallbackOpens(t)
    BY <2>5 DEF Unblock, Goto, NoCallback, CallbackBeginsRo, StartGuard,
       FreeSlots, CallbackOpens
  <2>6. CASE CallbackReturn(t) \/ ResizeUnlock(t)
    BY <2>6 DEF CallbackReturn, Goto, ResizeUnlock, LeaveResize, AfterResize
  <2> QED BY <1>5, <2>1, <2>2, <2>3, <2>4, <2>5, <2>6 DEF ResizeStep
<1>6. ASSUME NEW t \in Threads, NEW h \in Handles, AppStep(t, h) PROVE MapInv'
  <2>1. CASE Close(t, h) \/ Reset(t, h)
    BY <2>1 DEF Close, Goto, EndTxn, Held, Reset
  <2>2. CASE Renew(t, h)
    <3>1. \A u \in Threads : pc[u] \notin {"rs_unmap", "rs_map"}
      BY <2>2, HeldPinsMap DEF Renew, Held
    <3> QED BY <2>2, <3>1 DEF Renew, Opened
  <2>3. CASE RenewFails(t, h) BY <2>3 DEF RenewFails, Goto, Held
  <2> QED BY <1>6, <2>1, <2>2, <2>3 DEF AppStep
<1> QED BY <1>1, <1>2, <1>3, <1>4, <1>5, <1>6 DEF Next, CallStep

\* Every step preserves TxCountExact: fetch_add and fetch_sub go with the
\* appearance and the disappearance of exactly one guard.
LEMMA CountStep == IInv /\ [Next]_vars => TxCountExact'
<1> SUFFICES ASSUME IInv, [Next]_vars PROVE TxCountExact'
  OBVIOUS
<1> USE DEF IInv, TypeOK, TxCountExact, SlotInv, SlotOK, Counted, GuardLocs,
      Handles, H
<1>1. CASE UNCHANGED vars
  BY <1>1 DEF vars
<1>2. ASSUME NEW t \in Threads, AppCall(t) PROVE TxCountExact'
  <2>1. CASE BeginRo(t)
    <3>1. Counted' = Counted /\ tx_count' = tx_count
      BY <2>1 DEF BeginRo, Goto, StartGuard, FreeSlots, MayCall
    <3> QED BY <3>1
  <2>2. CASE BeginRw(t)
    <3>1. Counted' = Counted /\ tx_count' = tx_count
      BY <2>2 DEF BeginRw, Goto, CallMethod, MayCall
    <3> QED BY <3>1
  <2>3. CASE BeginNested(t)
    <3>1. Counted' = Counted /\ tx_count' = tx_count
      BY <2>3 DEF BeginNested, Goto, StartGuard, FreeSlots, MayCall, Held,
         Opened
    <3> QED BY <3>1
  <2>4. CASE OpenDb(t)
    <3>1. Counted' = Counted /\ tx_count' = tx_count
      BY <2>4 DEF OpenDb, Goto, CallMethod, MayCall
    <3> QED BY <3>1
  <2>5. CASE CreateDb(t)
    <3>1. Counted' = Counted /\ tx_count' = tx_count
      BY <2>5 DEF CreateDb, Goto, CallMethod, MayCall
    <3> QED BY <3>1
  <2>6. CASE SetMapSize(t)
    <3>1. Counted' = Counted /\ tx_count' = tx_count
      BY <2>6 DEF SetMapSize, Goto, CallMethod, MayCall
    <3> QED BY <3>1
  <2>7. CASE DoResize(t)
    <3>1. Counted' = Counted /\ tx_count' = tx_count
      BY <2>7 DEF DoResize, Goto, CallMethod, MayCall
    <3> QED BY <3>1
  <2>8. CASE Sync(t)
    <3>1. Counted' = Counted /\ tx_count' = tx_count
      BY <2>8 DEF Sync, Goto, CallMethod, MayCall
    <3> QED BY <3>1
  <2> QED BY <1>2, <2>1, <2>2, <2>3, <2>4, <2>5, <2>6, <2>7, <2>8 DEF AppCall
<1>3. ASSUME NEW t \in Threads, GuardStep(t) PROVE TxCountExact'
  <2>1. CASE GuardIncr(t)
    <3>1. H(t) \notin Counted /\ Counted' = Counted \cup {H(t)}
      BY <2>1 DEF GuardIncr, Goto
    <3>2. Cardinality(Counted \cup {H(t)}) = Cardinality(Counted) + 1
      BY <3>1, CountedFinite, FS_AddElement
    <3> QED BY <2>1, <3>1, <3>2 DEF GuardIncr, TxCountExact
  <2>2. CASE GuardBlocked(t)
    <3>1. Counted' = Counted /\ tx_count' = tx_count
      BY <2>2 DEF GuardBlocked, Goto, BlockerSeen
    <3> QED BY <3>1
  <2>3. CASE GuardAdmitsRo(t)
    <3>1. Counted' = Counted /\ tx_count' = tx_count
      BY <2>3 DEF GuardAdmitsRo, Goto, BlockerSeen
    <3> QED BY <3>1
  <2>4. CASE GuardAdmitsRw(t)
    <3>1. Counted' = Counted /\ tx_count' = tx_count
      BY <2>4 DEF GuardAdmitsRw, Goto, BlockerSeen, Kind
    <3> QED BY <3>1
  <2>5. CASE GuardAdmitsNested(t)
    <3>1. Counted' = Counted /\ tx_count' = tx_count
      BY <2>5 DEF GuardAdmitsNested, Goto, BlockerSeen, Return
    <3> QED BY <3>1
  <2>6. CASE GuardBackOut(t)
    <3>1. H(t) \in Counted /\ Counted' = Counted \ {H(t)}
      BY <2>6 DEF GuardBackOut, Goto
    <3> HIDE DEF Counted
    <3>2. Cardinality(Counted \ {H(t)}) = tx_count - 1
      BY <3>1, CountPositive
    <3> QED BY <2>6, <3>1, <3>2 DEF GuardBackOut, TxCountExact
  <2>7. CASE GuardPoll(t) BY <2>7 DEF GuardPoll, Goto, ResizeOver
  <2>8. CASE GuardDrop(t)
    <3>1. H(t) \in Counted /\ Counted' = Counted \ {H(t)}
      BY <2>8 DEF GuardDrop, Goto
    <3> HIDE DEF Counted
    <3>2. Cardinality(Counted \ {H(t)}) = tx_count - 1
      BY <3>1, CountPositive
    <3> QED BY <2>8, <3>1, <3>2 DEF GuardDrop, TxCountExact
  <2> QED BY <1>3, <2>1, <2>2, <2>3, <2>4, <2>5, <2>6, <2>7, <2>8 DEF GuardStep
<1>4. ASSUME NEW t \in Threads, TxnStep(t) PROVE TxCountExact'
  <2>1. CASE RoBegin(t)
    <3>1. Counted' = Counted /\ tx_count' = tx_count
      BY <2>1 DEF RoBegin, Goto, Opened, Return
    <3> QED BY <3>1
  <2>2. CASE RoBeginFails(t)
    <3>1. Counted' = Counted /\ tx_count' = tx_count
      BY <2>2 DEF RoBeginFails, Goto
    <3> QED BY <3>1
  <2>3. CASE FinishInternal(t)
    <3>1. Counted' = Counted /\ tx_count' = tx_count
      BY <2>3 DEF FinishInternal, Goto, EndTxn
    <3> QED BY <3>1
  <2>4. CASE OpenDbLock(t)
    <3>1. Counted' = Counted /\ tx_count' = tx_count
      BY <2>4 DEF OpenDbLock, Goto, StartGuard, FreeSlots
    <3> QED BY <3>1
  <2>5. CASE CreateDbLock(t)
    <3>1. Counted' = Counted /\ tx_count' = tx_count
      BY <2>5 DEF CreateDbLock, Goto, Kind
    <3> QED BY <3>1
  <2>6. CASE DbiUnlock(t)
    <3>1. Counted' = Counted /\ tx_count' = tx_count
      BY <2>6 DEF DbiUnlock, Goto
    <3> QED BY <3>1
  <2>7. CASE RwBegin(t)
    <3>1. Counted' = Counted /\ tx_count' = tx_count
      BY <2>7 DEF RwBegin, Goto, StartGuard, FreeSlots, Opened
    <3> QED BY <3>1
  <2>8. CASE RwBeginFails(t)
    <3>1. Counted' = Counted /\ tx_count' = tx_count
      BY <2>8 DEF RwBeginFails, Goto
    <3> QED BY <3>1
  <2>9. CASE SyncReadsMeta(t) BY <2>9 DEF SyncReadsMeta, Goto, Return
  <2> QED BY <1>4, <2>1, <2>2, <2>3, <2>4, <2>5, <2>6, <2>7, <2>8, <2>9 DEF TxnStep
<1>5. ASSUME NEW t \in Threads, ResizeStep(t) PROVE TxCountExact'
  <2>1. CASE ResizeLock(t)
    <3>1. Counted' = Counted /\ tx_count' = tx_count
      BY <2>1 DEF ResizeLock, Goto
    <3> QED BY <3>1
  <2>2. CASE ResizeLockPanics(t)
    <3>1. Counted' = Counted /\ tx_count' = tx_count
      BY <2>2 DEF ResizeLockPanics, Goto, LeaveResize, AfterResize
    <3> QED BY <3>1
  <2>3. CASE NeedsResize(t)
    <3>1. Counted' = Counted /\ tx_count' = tx_count
      BY <2>3 DEF NeedsResize, Goto
    <3> QED BY <3>1
  <2>4. CASE CheckSpace(t)
    <3>1. Counted' = Counted /\ tx_count' = tx_count
      BY <2>4 DEF CheckSpace, Goto
    <3> QED BY <3>1
  <2>5. CASE Panic(t)
    <3>1. Counted' = Counted /\ tx_count' = tx_count
      BY <2>5 DEF Panic, Goto
    <3> QED BY <3>1
  <2>6. CASE Block(t)
    <3>1. Counted' = Counted /\ tx_count' = tx_count
      BY <2>6 DEF Block, Goto
    <3> QED BY <3>1
  <2>7. CASE Drain(t)
    <3>1. Counted' = Counted /\ tx_count' = tx_count
      BY <2>7 DEF Drain, Goto, Drained
    <3> QED BY <3>1
  <2>8. CASE Unmap(t)
    <3>1. Counted' = Counted /\ tx_count' = tx_count
      BY <2>8 DEF Unmap, Goto
    <3> QED BY <3>1
  <2>9. CASE Map(t)
    <3>1. Counted' = Counted /\ tx_count' = tx_count
      BY <2>9 DEF Map, Goto
    <3> QED BY <3>1
  <2>10. CASE Unblock(t)
    <3>1. Counted' = Counted /\ tx_count' = tx_count
      BY <2>10 DEF Unblock, Goto
    <3> QED BY <3>1
  <2>11. CASE NoCallback(t)
    <3>1. Counted' = Counted /\ tx_count' = tx_count
      BY <2>11 DEF NoCallback, Goto
    <3> QED BY <3>1
  <2>12. CASE CallbackBeginsRo(t)
    <3>1. Counted' = Counted /\ tx_count' = tx_count
      BY <2>12 DEF CallbackBeginsRo, Goto, StartGuard, FreeSlots
    <3> QED BY <3>1
  <2>13. CASE CallbackOpens(t)
    <3>1. Counted' = Counted /\ tx_count' = tx_count
      BY <2>13 DEF CallbackOpens, Goto
    <3> QED BY <3>1
  <2>14. CASE CallbackReturn(t)
    <3>1. Counted' = Counted /\ tx_count' = tx_count
      BY <2>14 DEF CallbackReturn, Goto
    <3> QED BY <3>1
  <2>15. CASE ResizeUnlock(t)
    <3>1. Counted' = Counted /\ tx_count' = tx_count
      BY <2>15 DEF ResizeUnlock, Goto, LeaveResize, AfterResize
    <3> QED BY <3>1
  <2> QED BY <1>5, <2>1, <2>2, <2>3, <2>4, <2>5, <2>6, <2>7, <2>8, <2>9, <2>10,
     <2>11, <2>12, <2>13, <2>14, <2>15 DEF ResizeStep
<1>6. ASSUME NEW t \in Threads, NEW h \in Handles, AppStep(t, h) PROVE TxCountExact'
  <2>1. CASE Close(t, h)
    <3>1. h[1] = t /\ h[2] \in Slots /\ h = <<t, h[2]>> /\ h \in Counted
      BY <2>1 DEF Close, Held
    <3>2. slot'[t] = h[2]
      BY <2>1 DEF Close
    <3>3. \A k \in Handles : slot'[k[1]] = k[2] /\ k[1] = t => k = h
      BY <3>1, <3>2
    <3>4. \A k \in Handles : k \in Counted' <=> k \in Counted
      BY <2>1, <3>1, <3>3 DEF Close, Goto, EndTxn, Held
    <3>5. Counted' = Counted /\ tx_count' = tx_count
      BY <2>1, <3>4 DEF Close
    <3> QED BY <3>5 DEF TxCountExact
  <2>2. CASE Reset(t, h)
    <3>1. Counted' = Counted /\ tx_count' = tx_count
      BY <2>2 DEF Reset, Goto, Held
    <3> QED BY <3>1
  <2>3. CASE Renew(t, h)
    <3>1. Counted' = Counted /\ tx_count' = tx_count
      BY <2>3 DEF Renew, Goto, Held, Opened
    <3> QED BY <3>1
  <2>4. CASE RenewFails(t, h)
    <3>1. h[1] = t /\ h[2] \in Slots /\ h = <<t, h[2]>> /\ h \in Counted
      BY <2>4 DEF RenewFails, Held
    <3>2. slot'[t] = h[2]
      BY <2>4 DEF RenewFails
    <3>3. \A k \in Handles : slot'[k[1]] = k[2] /\ k[1] = t => k = h
      BY <3>1, <3>2
    <3>4. \A k \in Handles : k \in Counted' <=> k \in Counted
      BY <2>4, <3>1, <3>3 DEF RenewFails, Goto, Held
    <3>5. Counted' = Counted /\ tx_count' = tx_count
      BY <2>4, <3>4 DEF RenewFails
    <3> QED BY <3>5 DEF TxCountExact
  <2> QED BY <1>6, <2>1, <2>2, <2>3, <2>4 DEF AppStep
<1> QED BY <1>1, <1>2, <1>3, <1>4, <1>5, <1>6 DEF Next, CallStep

-----------------------------------------------------------------------------
(* The theorems. *)

\* The new environment satisfies the invariant.
LEMMA InitInv == Init => IInv
<1> SUFFICES ASSUME Init PROVE IInv
  OBVIOUS
<1> USE DEF Init, Handles
<1>1. TypeOK
  <2>1. wchain \in Seq(Threads \X Slots)
    OBVIOUS
  <2> QED BY <2>1 DEF TypeOK, Locs, Calls
<1>2. Counted = {}
  BY DEF Counted
<1>3. TxCountExact
  BY <1>2, FS_EmptySet DEF TxCountExact
<1>4. SlotInv /\ CallInv /\ BlockerInv /\ RemapInv
  BY DEF SlotInv, SlotOK, CallInv, BlockerInv, RemapInv, GuardLocs, ResizeLocs, BlockerLocs
<1>5. LockInv
  BY ConstantsAssumption DEF LockInv, HoldsResizeLock, GuardLocs, ResizeLocs, BlockerLocs
<1>6. OpenInv /\ MapInv
  BY DEF OpenInv, MapInv
<1> QED BY <1>1, <1>3, <1>4, <1>5, <1>6 DEF IInv

\* The inductive invariant holds in every reachable state of the transaction
\* machinery.
THEOREM Invariance == Spec => []IInv
<1>1. IInv /\ [Next]_vars => IInv'
  BY TypeStep, SlotStep, CallsStep, LockStep, BlockerStep, CountStep,
     RemapStep, OpenStep, MapStep DEF IInv
<1> QED BY InitInv, <1>1, PTL DEF Spec

\* No variable leaves its type; in particular fetch_sub never wraps tx_count or
\* tx_blocker_count below zero.
THEOREM TypeCorrect == Spec => []TypeOK
<1>1. IInv => TypeOK
  BY DEF IInv
<1> QED BY Invariance, <1>1, PTL

\* tx_count equals the number of guards that exist, on every path through
\* TransactionGuard::new, its Drop, reset, renew and failed begins.
THEOREM CountCorrect == Spec => []TxCountExact
<1>1. IInv => TxCountExact
  BY DEF IInv
<1> QED BY Invariance, <1>1, PTL

\* set_map_size_locked reaches mdb_env_set_mapsize only while no transaction of
\* the process is open, for any number of threads and transactions.
THEOREM RemapSafe == Spec => []RemapExclusive
BY Invariance, RemapExcludesOpen, PTL

\* There is at most one ScopedTransactionBlocker, and it lives exactly as long
\* as its owner is in the blocked region.
THEOREM BlockerCorrect == Spec => []BlockerSingleOwner
<1>1. IInv => BlockerSingleOwner
  <2> SUFFICES ASSUME IInv PROVE BlockerSingleOwner
    OBVIOUS
  <2> DEFINE S == {t \in Threads : pc[t] \in BlockerLocs}
  <2>1. CASE S = {}
    BY <2>1, FS_EmptySet DEF IInv, BlockerInv, BlockerSingleOwner
  <2>2. CASE S # {}
    <3>1. PICK t \in Threads : pc[t] \in BlockerLocs
      BY <2>2
    <3>2. \A u \in S : u = t
      BY <3>1 DEF IInv, LockInv, HoldsResizeLock, ResizeLocs
    <3>3. S = {t}
      BY <3>1, <3>2
    <3>4. Cardinality(S) = 1
      BY <3>3, FS_Singleton
    <3> QED BY <3>1, <3>4 DEF IInv, BlockerInv, BlockerSingleOwner
  <2> QED BY <2>1, <2>2
<1> QED BY Invariance, <1>1, PTL

\* If mmap does not fail, no transaction ever reads through a mapping that has
\* been replaced or is absent.
THEOREM LiveMapSafe == ASSUME ~MapCanFail PROVE Spec => []TxnOnLiveMap
<1>1. IInv => TxnOnLiveMap
  BY DEF IInv, MapInv, TxnOnLiveMap
<1> QED BY Invariance, <1>1, PTL

-----------------------------------------------------------------------------
(* EnvTxns implements MapAccess. *)

Live == {h \in Handles : mdb[h] # "closed"}
AbstractStep == [MA!Next]_(MA!mvars)

\* Beginning a transaction on a live map is the abstract Enter.
LEMMA EnterStep ==
    ASSUME TypeOK, mapped, UNCHANGED mapped, NEW h \in Handles,
           mdb[h] = "closed", mdb' = [mdb EXCEPT ![h] = Opened]
    PROVE  AbstractStep
<1>1. h \notin Live /\ Live' = Live \cup {h}
  BY DEF TypeOK, Live, Opened
<1>2. MA!Enter(h)
  BY <1>1 DEF MA!Enter, Live
<1> QED BY <1>2 DEF AbstractStep, MA!Next

\* Ending or resetting a transaction is the abstract Leave, or changes nothing.
LEMMA LeaveStep ==
    ASSUME TypeOK, UNCHANGED mapped, NEW h \in Handles,
           mdb' = [mdb EXCEPT ![h] = "closed"]
    PROVE  AbstractStep
<1>1. Live' = Live \ {h}
  BY DEF TypeOK, Live
<1>2. CASE h \in Live
  <2>1. MA!Leave(h)
    BY <1>1, <1>2 DEF MA!Leave, Live
  <2> QED BY <2>1 DEF AbstractStep, MA!Next
<1>3. CASE h \notin Live
  BY <1>1, <1>3 DEF AbstractStep, MA!mvars, Live
<1> QED BY <1>2, <1>3

\* A step that touches neither transactions nor the map is invisible.
LEMMA StutterStep == ASSUME UNCHANGED <<mdb, mapped>> PROVE AbstractStep
BY DEF AbstractStep, MA!mvars

\* Every step maps to an abstract step or a stutter.
LEMMA RefineStep ==
    ASSUME ~MapCanFail PROVE IInv /\ [Next]_vars => AbstractStep
<1> SUFFICES ASSUME IInv, [Next]_vars PROVE AbstractStep
  OBVIOUS
<1> USE DEF IInv, TypeOK
<1>1. CASE UNCHANGED vars
  BY <1>1, StutterStep DEF vars
<1>2. ASSUME NEW t \in Threads, AppCall(t) PROVE AbstractStep
  <2>1. CASE BeginRo(t) \/ BeginRw(t)
    BY <2>1, StutterStep DEF BeginRo, Goto, StartGuard, FreeSlots, MayCall,
       BeginRw, CallMethod
  <2>2. CASE BeginNested(t)
    <3>1. \A u \in Threads : pc[u] \notin {"rs_unmap", "rs_map"}
      BY <2>2, HeldPinsMap DEF BeginNested, Held
    <3>2. mapped
      BY <3>1 DEF MapInv
    <3>3. PICK s \in FreeSlots(t) : slot' = [slot EXCEPT ![t] = s]
      BY <2>2 DEF BeginNested, StartGuard
    <3>4. obj[<<t, s>>] = "free" /\ s \in Slots /\ slot'[t] = s
      BY <2>2, <3>3 DEF FreeSlots
    <3>5. pc[t] \notin GuardLocs
      BY <2>2 DEF BeginNested, MayCall, GuardLocs
    <3>6. <<t, s>> \in Handles /\ mdb[<<t, s>>] = "closed"
      BY <3>4, <3>5 DEF OpenInv, Handles
    <3> QED BY <2>2, <3>2, <3>4, <3>6, EnterStep DEF BeginNested
  <2>3. CASE OpenDb(t) \/ CreateDb(t) \/ SetMapSize(t) \/ DoResize(t) \/
     Sync(t)
    BY <2>3, StutterStep DEF OpenDb, Goto, CallMethod, MayCall, CreateDb,
       SetMapSize, DoResize, Sync
  <2> QED BY <1>2, <2>1, <2>2, <2>3 DEF AppCall
<1>3. ASSUME NEW t \in Threads, GuardStep(t) PROVE AbstractStep
  <2>1. CASE GuardIncr(t) \/ GuardBlocked(t) \/ GuardAdmitsRo(t) \/
     GuardAdmitsRw(t) \/ GuardAdmitsNested(t) \/ GuardBackOut(t) \/
     GuardPoll(t) \/ GuardDrop(t)
    BY <2>1, StutterStep DEF GuardIncr, Goto, GuardBlocked, BlockerSeen,
       GuardAdmitsRo, GuardAdmitsRw, Kind, H, GuardAdmitsNested, Return,
       GuardBackOut, GuardPoll, ResizeOver, GuardDrop
  <2> QED BY <1>3, <2>1 DEF GuardStep
<1>4. ASSUME NEW t \in Threads, TxnStep(t) PROVE AbstractStep
  <2>1. CASE RoBegin(t)
    <3>1. \A u \in Threads : pc[u] \notin {"rs_unmap", "rs_map"}
      BY <2>1, AdmittedPinsMap DEF RoBegin
    <3>2. mapped
      BY <3>1 DEF MapInv
    <3>3. H(t) \in Handles /\ mdb[H(t)] = "closed"
      <4>1. slot[t] \in Slots /\ obj[H(t)] = "free" /\ pc[t] \notin GuardLocs
        BY <2>1 DEF RoBegin, SlotInv, SlotOK, GuardLocs
      <4> QED BY <4>1 DEF OpenInv, H, Handles
    <3> QED BY <2>1, <3>2, <3>3, EnterStep DEF RoBegin
  <2>2. CASE RoBeginFails(t) BY <2>2, StutterStep DEF RoBeginFails, Goto
  <2>3. CASE FinishInternal(t)
    <3>1. H(t) \in Handles
      BY <2>3 DEF FinishInternal, SlotInv, SlotOK, H, Handles
    <3> QED BY <2>3, <3>1, LeaveStep DEF FinishInternal, EndTxn
  <2>4. CASE OpenDbLock(t) \/ CreateDbLock(t) \/ DbiUnlock(t)
    BY <2>4, StutterStep DEF OpenDbLock, Goto, StartGuard, FreeSlots,
       CreateDbLock, Kind, DbiUnlock
  <2>5. CASE RwBegin(t)
    <3>1. \A u \in Threads : pc[u] \notin {"rs_unmap", "rs_map"}
      BY <2>5 DEF RwBegin, LockInv, HoldsResizeLock, ResizeLocs, BlockerLocs
    <3>2. mapped
      BY <3>1 DEF MapInv
    <3>3. PICK s \in FreeSlots(t) : slot' = [slot EXCEPT ![t] = s]
      BY <2>5 DEF RwBegin, StartGuard
    <3>4. obj[<<t, s>>] = "free" /\ s \in Slots /\ slot'[t] = s
      BY <2>5, <3>3 DEF FreeSlots
    <3>5. pc[t] \notin GuardLocs
      BY <2>5 DEF RwBegin, MayCall, GuardLocs
    <3>6. <<t, s>> \in Handles /\ mdb[<<t, s>>] = "closed"
      BY <3>4, <3>5 DEF OpenInv, Handles
    <3> QED BY <2>5, <3>2, <3>4, <3>6, EnterStep DEF RwBegin
  <2>6. CASE RwBeginFails(t) \/ SyncReadsMeta(t)
    BY <2>6, StutterStep DEF RwBeginFails, Goto, SyncReadsMeta, Return
  <2> QED BY <1>4, <2>1, <2>2, <2>3, <2>4, <2>5, <2>6 DEF TxnStep
<1>5. ASSUME NEW t \in Threads, ResizeStep(t) PROVE AbstractStep
  <2>1. CASE ResizeLock(t) \/ ResizeLockPanics(t) \/ NeedsResize(t) \/
     CheckSpace(t) \/ Panic(t) \/ Block(t) \/ Drain(t)
    BY <2>1, StutterStep DEF ResizeLock, Goto, ResizeLockPanics, LeaveResize,
       AfterResize, NeedsResize, CheckSpace, Panic, Block, Drain, Drained
  <2>2. CASE Unmap(t)
    <3>1. \A h \in Handles : mdb[h] = "closed"
      BY <2>2, RemapExcludesOpen DEF Unmap, RemapExclusive
    <3>2. Live = {} /\ Live' = {}
      BY <2>2, <3>1 DEF Unmap, Live
    <3>3. CASE mapped /\ mapped' = FALSE
      BY <3>2, <3>3 DEF AbstractStep, MA!Next, MA!Unmap, Live
    <3>4. CASE UNCHANGED <<mdb, mapped>>
      BY <3>4, StutterStep
    <3> QED BY <2>2, <3>3, <3>4 DEF Unmap
  <2>3. CASE Map(t)
    <3>1. Live' = Live
      BY <2>3 DEF Map, Live
    <3>2. CASE mapped
      BY <2>3, <3>2, StutterStep DEF Map
    <3>3. CASE ~mapped
      BY <2>3, <3>1, <3>3 DEF Map, AbstractStep, MA!Next, MA!Map, Live
    <3> QED BY <3>2, <3>3
  <2>4. CASE Unblock(t) \/ NoCallback(t) \/ CallbackBeginsRo(t) \/
     CallbackOpens(t) \/ CallbackReturn(t) \/ ResizeUnlock(t)
    BY <2>4, StutterStep DEF Unblock, Goto, NoCallback, CallbackBeginsRo,
       StartGuard, FreeSlots, CallbackOpens, CallbackReturn, ResizeUnlock,
       LeaveResize, AfterResize
  <2> QED BY <1>5, <2>1, <2>2, <2>3, <2>4 DEF ResizeStep
<1>6. ASSUME NEW t \in Threads, NEW h \in Handles, AppStep(t, h) PROVE AbstractStep
  <2>1. CASE Close(t, h)
    BY <2>1, LeaveStep DEF Close, EndTxn
  <2>2. CASE Reset(t, h)
    BY <2>2, LeaveStep DEF Reset
  <2>3. CASE Renew(t, h)
    <3>1. \A u \in Threads : pc[u] \notin {"rs_unmap", "rs_map"}
      BY <2>3, HeldPinsMap DEF Renew, Held
    <3>2. mapped
      BY <3>1 DEF MapInv
    <3>3. mdb[h] = "closed"
      BY <2>3 DEF Renew, Held, OpenInv, GuardLocs
    <3> QED BY <2>3, <3>2, <3>3, EnterStep DEF Renew
  <2>4. CASE RenewFails(t, h) BY <2>4, StutterStep DEF RenewFails, Goto, Held
  <2> QED BY <1>6, <2>1, <2>2, <2>3, <2>4 DEF AppStep
<1> QED BY <1>1, <1>2, <1>3, <1>4, <1>5, <1>6 DEF Next, CallStep

\* The guards, the blocker and the locks implement exclusive access to the map:
\* transactions begin only on a live map, which is replaced only between them.
THEOREM Refinement == ASSUME ~MapCanFail PROVE Spec => ImplementsMapAccess
<1>1. Init => MA!Init
  BY DEF Init, MA!Init
<1>2. IInv /\ [Next]_vars => [MA!Next]_(MA!mvars)
  BY RefineStep DEF AbstractStep
<1> QED BY Invariance, <1>1, <1>2, PTL DEF Spec, ImplementsMapAccess, MA!Spec

=============================================================================
