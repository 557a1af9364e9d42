------------------------------ MODULE LockFile ------------------------------
(* The lock file of an LMDB environment: who initialises it, the table of     *)
(* readers in it, its two mutexes, and what is done about processes that die. *)
(*                                                                            *)
(* Processes open and close the environment, their threads claim and give     *)
(* back slots of the table, look for the slots of dead processes, and commit. *)
(* Most of this happens outside the mutexes, so a step is one access to the   *)
(* lock file.  A process is named by its pid; after its death another one may *)
(* have the same pid.  This is the POSIX build: record locks on the file,     *)
(* robust mutexes.  What a reader's id protects is in module Mvcc.            *)
EXTENDS Integers, FiniteSets, FiniteSetsExt

CONSTANTS
    Procs,         \* the pids
    Threads,       \* the threads of each process
    Managers,      \* the threads that commit and check the readers too
    Slots,         \* size of the table of readers: me_maxreaders
    Tls,           \* whether a slot belongs to the thread, or, with MDB_NOTLS,
                   \* to its transaction object, in each process
    OpenBreaks,    \* whether an open that holds the exclusive lock may fail,
                   \* or its process die, while another process waits for it
    MaxDeaths,     \* bound on the number of processes that die
    MaxCommits,    \* bound on the number of commits
    Nobody         \* no pid

ASSUME SlotsAssumption == Slots \in Nat \ {0} /\ Nobody \notin Procs

VARIABLES
    region,        \* the header of the lock file: magic, txnid, numreaders
    readers,       \* the slots: mr_pid and mr_txnid
    rmutex,        \* the mutex of the table
    wmutex,        \* the mutex of the writer
    flock,         \* the lock each process has on the first byte of the file
    pidlock,       \* the pids whose byte of the file is locked
    metas,         \* the ids of the two meta pages of the data file
    env,           \* MDB_env of each process
    th,            \* where each thread is, and its transaction
    orphans,       \* the slots whose process died (not in the code)
    deaths         \* number of processes that died

vars == <<region, readers, rmutex, wmutex, flock, pidlock, metas, env, th, orphans, deaths>>

----------------------------------------------------------------------------
(* The lock file and its users. *)

Idle == "idle"
NoTxn == -1                                     \* (txnid_t)-1
FreeMutex == [by |-> Nobody, dead |-> FALSE]
ClosedEnv == [pc |-> "closed", live |-> FALSE, close |-> 0]
\* slot: the slot in the thread's key or in its transaction, r: the one it is
\* claiming, txn: the id of its read transaction; the others belong to a check
\* of the readers: next slot, number of slots, pids seen, the dead pid, what
\* follows it, and (not in the code) the pids that were dead all along.
IdleThread == [pc |-> Idle, slot |-> 0, r |-> 0, txn |-> NoTxn, i |-> 0, rdrs |-> 0,
               pids |-> {}, pid |-> Nobody, then |-> Idle, dead |-> {}]

T(p, t) == th[p][t]
At(p, t, pc) == env[p].pc = "open" /\ T(p, t).pc = pc
Move(p, t, rec) == th' = [th EXCEPT ![p][t] = rec]
Goto(p, t, pc) == Move(p, t, [T(p, t) EXCEPT !.pc = pc])
Return(p, t) == Move(p, t, [IdleThread EXCEPT !.slot = T(p, t).slot, !.txn = T(p, t).txn])
OpenPc(p, pc) == env' = [env EXCEPT ![p].pc = pc]
Newest == Max({metas[0], metas[1]})             \* mdb_env_pick_meta

FreeSlots(S) ==
    /\ readers' = [i \in 1..Slots |-> IF i \in S THEN [readers[i] EXCEPT !.pid = Nobody] ELSE readers[i]]
    /\ orphans' = orphans \ S

----------------------------------------------------------------------------
(* mdb_env_open: the exclusive lock, or a shared one; who has the exclusive   *)
(* lock initialises the file.                                                 *)

OpenTryExcl(p) ==
    LET free == \A q \in Procs \ {p} : flock[q] = "none"
    IN /\ env[p].pc = "closed"
       /\ OpenPc(p, IF free THEN "mutexes" ELSE "wait")
       /\ flock' = [flock EXCEPT ![p] = IF free THEN "excl" ELSE "none"]
       /\ UNCHANGED <<region, readers, rmutex, wmutex, pidlock, metas, th, orphans, deaths>>

OpenInitMutexes(p) ==
    /\ env[p].pc = "mutexes"
    /\ rmutex' = FreeMutex /\ wmutex' = FreeMutex
    /\ OpenPc(p, "header")
    /\ UNCHANGED <<region, readers, flock, pidlock, metas, th, orphans, deaths>>

\* The slots stay as they are; those past mti_numreaders count for nothing.
OpenInitHeader(p) ==
    /\ env[p].pc = "header"
    /\ region' = [magic |-> TRUE, txnid |-> 0, num |-> 0]
    /\ OpenPc(p, "file")
    /\ UNCHANGED <<readers, rmutex, wmutex, flock, pidlock, metas, th, orphans, deaths>>

MayBreak(p) == flock[p] = "excl" => OpenBreaks \/ \A q \in Procs : env[q].pc # "wait"

\* mdb_env_close0: the process leaves, its locks on the file go with it.
Leave(p) ==
    /\ env' = [env EXCEPT ![p] = ClosedEnv]
    /\ flock' = [flock EXCEPT ![p] = "none"]
    /\ pidlock' = pidlock \ {p}

\* The others must find the lock file initialised.
OpenWait(p) ==
    /\ env[p].pc = "wait"
    /\ \A q \in Procs \ {p} : flock[q] # "excl"
    /\ IF region.magic
       THEN /\ OpenPc(p, "file")
            /\ flock' = [flock EXCEPT ![p] = "shared"]
            /\ UNCHANGED pidlock
       ELSE Leave(p)
    /\ UNCHANGED <<region, readers, rmutex, wmutex, metas, th, orphans, deaths>>

OpenFails(p) ==
    /\ env[p].pc = "file"
    /\ MayBreak(p)
    /\ Leave(p)
    /\ UNCHANGED <<region, readers, rmutex, wmutex, metas, th, orphans, deaths>>

\* mdb_env_open2 is done.  The exclusive lock becomes a shared one when the
\* lock file has the id of the newest meta page.
OpenDone(p) ==
    /\ env[p].pc = "file"
    /\ OpenPc(p, "open")
    /\ IF flock[p] = "excl"
       THEN region' = [region EXCEPT !.txnid = Newest] /\ flock' = [flock EXCEPT ![p] = "shared"]
       ELSE UNCHANGED <<region, flock>>
    /\ UNCHANGED <<readers, rmutex, wmutex, pidlock, metas, th, orphans, deaths>>

----------------------------------------------------------------------------
(* mdb_env_close.  The application's threads are done; from here on none of   *)
(* them has a slot in its key.  The slots of this process are cleared one by  *)
(* one, without the mutex.                                                    *)

CloseStart(p) ==
    /\ env[p].pc = "open"
    /\ \A t \in Threads[p] : T(p, t).pc = Idle /\ T(p, t).txn = NoTxn
    /\ OpenPc(p, "close")
    /\ th' = [th EXCEPT ![p] = [t \in Threads[p] |-> IdleThread]]
    /\ UNCHANGED <<region, readers, rmutex, wmutex, flock, pidlock, metas, orphans, deaths>>

CloseSlot(p) ==
    LET i == env[p].close
    IN /\ env[p].pc = "close" /\ i > 0
       /\ FreeSlots(IF readers[i].pid = p THEN {i} ELSE {})
       /\ env' = [env EXCEPT ![p].close = i - 1]
       /\ UNCHANGED <<region, rmutex, wmutex, flock, pidlock, metas, th, deaths>>

CloseEnd(p) ==
    /\ env[p].pc = "close" /\ env[p].close = 0
    /\ Leave(p)
    /\ UNCHANGED <<region, readers, rmutex, wmutex, metas, th, orphans, deaths>>

----------------------------------------------------------------------------
(* Mutexes.  After the death of its owner a mutex is dead until somebody who  *)
(* locked it made it consistent.                                              *)

MayLock(m) == m.by = Nobody
Locked(m, p) == [m EXCEPT !.by = p]
Unlocked(m) == [m EXCEPT !.by = Nobody]
Consistent(m) == [m EXCEPT !.dead = FALSE]
AfterDeath(m, p) == IF m.by = p THEN [by |-> Nobody, dead |-> TRUE] ELSE m

----------------------------------------------------------------------------
(* Read transactions: mdb_txn_renew0, mdb_txn_end, mdb_env_reader_dest. *)

\* Process p is not dead (not in the code).
SeenAlive(p, threads) ==
    [q \in Procs |-> [t \in Threads[q] |-> [threads[q][t] EXCEPT !.dead = @ \ {p}]]]

\* A thread, or a transaction with MDB_NOTLS, that has a slot uses it again;
\* otherwise the process shows that it lives, and a slot is claimed.
RdBegin(p, t) ==
    LET x == T(p, t) IN
    /\ At(p, t, Idle) /\ x.txn = NoTxn
    /\ x.slot # 0 => readers[x.slot] = [pid |-> p, txnid |-> NoTxn]
    /\ th' = SeenAlive(p, [th EXCEPT ![p][t].pc = IF x.slot # 0 THEN "id" ELSE "rlock"])
    /\ env' = [env EXCEPT ![p].live = @ \/ x.slot = 0]
    /\ pidlock' = IF x.slot = 0 /\ ~env[p].live THEN pidlock \cup {p} ELSE pidlock
    /\ UNCHANGED <<region, readers, rmutex, wmutex, flock, metas, orphans, deaths>>

\* The state of a check of the readers that begins with thread record x.
CheckFrom(x, pc, then) ==
    [x EXCEPT !.pc = pc, !.i = 1, !.rdrs = region.num, !.pids = {}, !.pid = Nobody,
              !.then = then, !.dead = Procs \ pidlock]

RdLock(p, t) ==
    /\ At(p, t, "rlock") /\ MayLock(rmutex)
    /\ rmutex' = Locked(rmutex, p)
    /\ Move(p, t, IF rmutex.dead THEN CheckFrom(T(p, t), "locked", "scan")
                  ELSE [T(p, t) EXCEPT !.pc = "scan"])
    /\ UNCHANGED <<region, readers, wmutex, flock, pidlock, metas, env, orphans, deaths>>

\* The slot to claim: the first free one, or one more.
FirstFree == Min({i \in 1..region.num : readers[i].pid = Nobody} \cup {region.num + 1})

TableFull == FirstFree > Slots

\* A claimed slot is reset before the table shows it.
RdScan(p, t) ==
    /\ At(p, t, "scan") /\ ~TableFull
    /\ readers' = [readers EXCEPT ![FirstFree] = [pid |-> Nobody, txnid |-> NoTxn]]
    /\ orphans' = orphans \ {FirstFree}
    /\ Move(p, t, [T(p, t) EXCEPT !.pc = "publish", !.r = FirstFree])
    /\ UNCHANGED <<region, rmutex, wmutex, flock, pidlock, metas, env, deaths>>

RdFull(p, t) ==
    /\ At(p, t, "scan") /\ TableFull
    /\ rmutex' = Unlocked(rmutex)
    /\ Return(p, t)
    /\ UNCHANGED <<region, readers, wmutex, flock, pidlock, metas, env, orphans, deaths>>

RdPublish(p, t) ==
    LET nr == Max({region.num, T(p, t).r})
    IN /\ At(p, t, "publish")
       /\ region' = [region EXCEPT !.num = nr]
       /\ env' = [env EXCEPT ![p].close = nr]
       /\ Goto(p, t, "take")
       /\ UNCHANGED <<readers, rmutex, wmutex, flock, pidlock, metas, orphans, deaths>>

RdTake(p, t) ==
    /\ At(p, t, "take")
    /\ readers' = [readers EXCEPT ![T(p, t).r].pid = p]
    /\ Goto(p, t, "unlock")
    /\ UNCHANGED <<region, rmutex, wmutex, flock, pidlock, metas, env, orphans, deaths>>

\* The slot goes to the thread's key, which may fail, or to the transaction.
RdUnlock(p, t) ==
    /\ At(p, t, "unlock")
    /\ rmutex' = Unlocked(rmutex)
    /\ \E pc \in {"id"} \cup {u \in {"unset"} : Tls[p]} :
          Move(p, t, [T(p, t) EXCEPT !.pc = pc, !.slot = T(p, t).r, !.r = 0])
    /\ UNCHANGED <<region, readers, wmutex, flock, pidlock, metas, env, orphans, deaths>>

\* pthread_setspecific failed: the slot is given back, without the mutex.
RdKeyFails(p, t) ==
    /\ At(p, t, "unset")
    /\ FreeSlots({T(p, t).slot})
    /\ Move(p, t, IdleThread)
    /\ UNCHANGED <<region, rmutex, wmutex, flock, pidlock, metas, env, deaths>>

\* The id is stored and compared until it is current (module Mvcc).
RdId(p, t) ==
    LET x == T(p, t) IN
    /\ At(p, t, "id")
    /\ readers' = [readers EXCEPT ![x.slot].txnid = region.txnid]
    /\ Move(p, t, [x EXCEPT !.pc = Idle, !.txn = region.txnid])
    /\ UNCHANGED <<region, rmutex, wmutex, flock, pidlock, metas, env, orphans, deaths>>

\* mdb_txn_reset, or the end of a transaction without MDB_NOTLS.
RdReset(p, t) ==
    LET x == T(p, t) IN
    /\ At(p, t, Idle) /\ x.txn # NoTxn
    /\ readers' = [readers EXCEPT ![x.slot].txnid = NoTxn]
    /\ Move(p, t, [x EXCEPT !.txn = NoTxn])
    /\ UNCHANGED <<region, rmutex, wmutex, flock, pidlock, metas, env, orphans, deaths>>

\* Mutant: the slot is kept although the transaction forgets it
RdAbortKeeps(p, t) ==
    LET x == T(p, t) IN
    /\ At(p, t, Idle) /\ x.slot # 0 /\ ~Tls[p]
    /\ readers' = [readers EXCEPT ![x.slot].txnid = NoTxn]
    /\ Move(p, t, IdleThread)
    /\ UNCHANGED <<region, rmutex, wmutex, flock, pidlock, metas, env, orphans, deaths>>

\* mdb_txn_abort with MDB_NOTLS: the slot goes with the transaction.
RdAbort(p, t) ==
    LET x == T(p, t) IN
    /\ At(p, t, Idle) /\ x.slot # 0 /\ ~Tls[p]
    /\ readers' = [readers EXCEPT ![x.slot] = [pid |-> Nobody, txnid |-> NoTxn]]
    /\ Move(p, t, IdleThread)
    /\ UNCHANGED <<region, rmutex, wmutex, flock, pidlock, metas, env, orphans, deaths>>

\* A thread ends: the destructor of its key gives the slot back.
ThreadExit(p, t) ==
    LET x == T(p, t) IN
    /\ At(p, t, Idle) /\ x.slot # 0 /\ x.txn = NoTxn /\ Tls[p]
    /\ FreeSlots(IF readers[x.slot].pid = p THEN {x.slot} ELSE {})
    /\ Move(p, t, IdleThread)
    /\ UNCHANGED <<region, rmutex, wmutex, flock, pidlock, metas, env, deaths>>

----------------------------------------------------------------------------
(* mdb_reader_check0, called by the application ("check") or by the recovery  *)
(* of the writer mutex, both without the mutex of the table, or by the        *)
(* recovery of that mutex ("locked").                                         *)

CheckStart(p, t) ==
    /\ At(p, t, Idle) /\ t \in Managers
    /\ Move(p, t, CheckFrom(T(p, t), "check", Idle))
    /\ UNCHANGED <<region, readers, rmutex, wmutex, flock, pidlock, metas, env, orphans, deaths>>

\* Slot x.i has the pid of another process, seen for the first time.
NewPid(x, p) == readers[x.i].pid \notin {Nobody, p} \cup x.pids

CheckSkip(p, t) ==
    LET x == T(p, t) IN
    /\ \E pc \in {"check", "locked"} : At(p, t, pc)
    /\ x.i <= x.rdrs
    /\ NewPid(x, p) => readers[x.i].pid \in pidlock
    /\ Move(p, t, [x EXCEPT !.i = @ + 1,
                            !.pids = IF NewPid(x, p) THEN @ \cup {readers[x.i].pid} ELSE @])
    /\ UNCHANGED <<region, readers, rmutex, wmutex, flock, pidlock, metas, env, orphans, deaths>>

\* Mutant: the last slot is left out
StaleSlotsShort(x, pid) == {j \in x.i..(x.rdrs - 1) : readers[j].pid = pid}

\* The slots of a dead process from the one where it was seen.
StaleSlots(x, pid) == {j \in x.i..x.rdrs : readers[j].pid = pid}

CheckDead(p, t) ==
    LET x == T(p, t) IN
    /\ At(p, t, "check") /\ x.i <= x.rdrs
    /\ NewPid(x, p) /\ readers[x.i].pid \notin pidlock
    /\ Move(p, t, [x EXCEPT !.pc = "chklock", !.pid = readers[x.i].pid,
                            !.pids = @ \cup {readers[x.i].pid}])
    /\ UNCHANGED <<region, readers, rmutex, wmutex, flock, pidlock, metas, env, orphans, deaths>>

CheckDeadLocked(p, t) ==
    LET x == T(p, t) IN
    /\ At(p, t, "locked") /\ x.i <= x.rdrs
    /\ NewPid(x, p) /\ readers[x.i].pid \notin pidlock
    /\ FreeSlots(StaleSlots(x, readers[x.i].pid))
    /\ Move(p, t, [x EXCEPT !.i = @ + 1, !.pids = @ \cup {readers[x.i].pid}])
    /\ UNCHANGED <<region, rmutex, wmutex, flock, pidlock, metas, env, deaths>>

\* The pid is looked at again with the mutex: a new process may have it.
\* A dead mutex is recovered first, which checks all slots.
CheckLock(p, t) ==
    LET x == T(p, t) IN
    /\ At(p, t, "chklock") /\ MayLock(rmutex)
    /\ rmutex' = Locked(rmutex, p)
    /\ Move(p, t, IF rmutex.dead THEN [CheckFrom(x, "locked", x.then) EXCEPT !.pid = x.pid]
                  ELSE [x EXCEPT !.pc = "recheck"])
    /\ UNCHANGED <<region, readers, wmutex, flock, pidlock, metas, env, orphans, deaths>>

\* Mutant: the pid is not looked at again
StillDeadUnchecked(x) == TRUE
StillDead(x) == x.pid \notin pidlock

CheckClear(p, t) ==
    LET x == T(p, t) IN
    /\ At(p, t, "recheck")
    /\ FreeSlots(IF StillDead(x) THEN StaleSlots(x, x.pid) ELSE {})
    /\ rmutex' = Unlocked(rmutex)
    /\ Move(p, t, [x EXCEPT !.pc = "check", !.i = @ + 1, !.pid = Nobody])
    /\ UNCHANGED <<region, wmutex, flock, pidlock, metas, env, deaths>>

CheckEnd(p, t) ==
    LET x == T(p, t) IN
    /\ At(p, t, "check") /\ x.i > x.rdrs
    /\ IF x.then = Idle THEN Return(p, t) /\ UNCHANGED wmutex
       ELSE /\ wmutex' = Consistent(wmutex)
            /\ Move(p, t, [IdleThread EXCEPT !.slot = x.slot, !.txn = x.txn, !.pc = x.then])
    /\ UNCHANGED <<region, readers, rmutex, flock, pidlock, metas, env, orphans, deaths>>

\* The mutex of the table is recovered: go on claiming a slot, or end the check
\* that found it dead.
LockedEnd(p, t) ==
    LET x == T(p, t) IN
    /\ At(p, t, "locked") /\ x.i > x.rdrs
    /\ IF x.then = "scan"
       THEN /\ rmutex' = Consistent(rmutex)
            /\ Move(p, t, [IdleThread EXCEPT !.slot = x.slot, !.pc = "scan"])
       ELSE /\ rmutex' = Unlocked(Consistent(rmutex))
            /\ Move(p, t, [x EXCEPT !.pc = "check", !.pid = Nobody])
    /\ UNCHANGED <<region, readers, wmutex, flock, pidlock, metas, env, orphans, deaths>>

----------------------------------------------------------------------------
(* Write transactions. *)

\* Mutant: the id is left as it was
RecoveredNot == region

\* mdb_mutex_failed: the dead owner may have written a meta page.
Recovered == [region EXCEPT !.txnid = Newest]

WrLock(p, t) ==
    LET x == T(p, t) IN
    /\ At(p, t, Idle) /\ t \in Managers /\ x.txn = NoTxn /\ MayLock(wmutex)
    /\ wmutex' = Locked(wmutex, p)
    /\ region' = IF wmutex.dead THEN Recovered ELSE region
    /\ Move(p, t, IF wmutex.dead THEN CheckFrom(x, "check", "write") ELSE [x EXCEPT !.pc = "write"])
    /\ UNCHANGED <<readers, rmutex, flock, pidlock, metas, env, orphans, deaths>>

\* mdb_env_write_meta: the page, then the id in the lock file.
WrMeta(p, t) ==
    LET id == region.txnid + 1
    IN /\ At(p, t, "write") /\ id <= MaxCommits
       /\ metas' = [metas EXCEPT ![id % 2] = id]
       /\ Goto(p, t, "wrote")
       /\ UNCHANGED <<region, readers, rmutex, wmutex, flock, pidlock, env, orphans, deaths>>

WrPublish(p, t) ==
    /\ At(p, t, "wrote")
    /\ region' = [region EXCEPT !.txnid = @ + 1]
    /\ wmutex' = Unlocked(wmutex)
    /\ Return(p, t)
    /\ UNCHANGED <<readers, rmutex, flock, pidlock, metas, env, orphans, deaths>>

WrAbort(p, t) ==
    /\ At(p, t, "write")
    /\ wmutex' = Unlocked(wmutex)
    /\ Return(p, t)
    /\ UNCHANGED <<region, readers, rmutex, flock, pidlock, metas, env, orphans, deaths>>

----------------------------------------------------------------------------
(* A process dies: the system drops its locks on the file and marks the       *)
(* mutexes it held; its slots stay.                                           *)

Die(p) ==
    /\ env[p].pc # "closed"
    /\ MayBreak(p)
    /\ deaths < MaxDeaths
    /\ deaths' = deaths + 1
    /\ Leave(p)
    /\ th' = [th EXCEPT ![p] = [t \in Threads[p] |-> IdleThread]]
    /\ rmutex' = AfterDeath(rmutex, p)
    /\ wmutex' = AfterDeath(wmutex, p)
    /\ orphans' = orphans \cup {i \in 1..Slots : readers[i].pid = p}
    /\ UNCHANGED <<region, readers, metas>>

----------------------------------------------------------------------------
Init ==
    /\ region = [magic |-> FALSE, txnid |-> 0, num |-> 0]
    /\ readers = [i \in 1..Slots |-> [pid |-> Nobody, txnid |-> 0]]
    /\ rmutex = FreeMutex /\ wmutex = FreeMutex
    /\ flock = [p \in Procs |-> "none"]
    /\ pidlock = {}
    /\ metas = [i \in {0, 1} |-> 0]
    /\ env = [p \in Procs |-> ClosedEnv]
    /\ th = [p \in Procs |-> [t \in Threads[p] |-> IdleThread]]
    /\ orphans = {}
    /\ deaths = 0

ProcStep(p) ==
    \/ OpenTryExcl(p) \/ OpenInitMutexes(p) \/ OpenInitHeader(p) \/ OpenWait(p)
    \/ OpenFails(p) \/ OpenDone(p)
    \/ CloseStart(p) \/ CloseSlot(p) \/ CloseEnd(p) \/ Die(p)

ThreadStep(p, t) ==
    \/ RdBegin(p, t) \/ RdLock(p, t) \/ RdScan(p, t) \/ RdFull(p, t) \/ RdPublish(p, t)
    \/ RdTake(p, t) \/ RdUnlock(p, t) \/ RdKeyFails(p, t) \/ RdId(p, t) \/ RdReset(p, t)
    \/ RdAbort(p, t) \/ ThreadExit(p, t)
    \/ CheckStart(p, t) \/ CheckSkip(p, t) \/ CheckDead(p, t) \/ CheckDeadLocked(p, t)
    \/ CheckLock(p, t) \/ CheckClear(p, t) \/ CheckEnd(p, t) \/ LockedEnd(p, t)
    \/ WrLock(p, t) \/ WrMeta(p, t) \/ WrPublish(p, t) \/ WrAbort(p, t)

Next == \E p \in Procs : ProcStep(p) \/ \E t \in Threads[p] : ThreadStep(p, t)

Spec == Init /\ [][Next]_vars

----------------------------------------------------------------------------
(* Properties. *)

\* The table shows every read transaction to the writers (mdb_find_oldest): the
\* slot in a thread's key, or in a transaction, is in the table under the pid
\* of the process with the id of the transaction, and nobody else has it or is
\* about to claim it, whoever dies, checks the readers or reuses a pid.
ReadersProtected ==
    \A p \in Procs : \A t \in Threads[p] :
        LET x == T(p, t)
        IN x.slot # 0 =>
               /\ x.slot <= region.num
               /\ readers[x.slot] = [pid |-> p, txnid |-> x.txn]
               /\ \A q \in Procs : \A u \in Threads[q] :
                      <<q, u>> # <<p, t>> => x.slot \notin {T(q, u).slot, T(q, u).r}

\* No slot is lost: one that is taken is in the hands of a thread, will be
\* cleared by the mdb_env_close0 that is under way, or its process died.
SlotsAccounted ==
    \A i \in (1..region.num) \ orphans :
        LET p == readers[i].pid
        IN p # Nobody =>
               \/ env[p].pc = "open" /\ \E t \in Threads[p] : i \in {T(p, t).slot, T(p, t).r}
               \/ env[p].pc = "close" /\ i <= env[p].close

\* A check of the readers that ends (mdb_reader_check0) has given back the
\* slots of every process that was dead all the time, whatever the other
\* processes did meanwhile and whether or not it had to recover the mutex.
CheckFreesDead ==
    [][\A p \in Procs : \A t \in Threads[p] :
          T(p, t).pc = "check" /\ T(p, t)'.pc # "check" /\ env'[p].pc = "open"
              /\ T(p, t)'.pc # "chklock"
          => \A i \in 1..region.num : readers[i].pid \notin T(p, t).dead \ {p}]_vars

\* Whoever has opened the environment finds the id of the newest meta page in
\* the lock file (mtb_txnid, "The ID of the last transaction committed"), but
\* for the moment between the two in a commit or after a death in between.
RegionCurrent ==
    (\E p \in Procs : env[p].pc = "open") =>
        /\ region.magic
        /\ \/ region.txnid = Newest
           \/ /\ region.txnid + 1 = Newest
              /\ wmutex.dead \/ \E p \in Procs : \E t \in Threads[p] : T(p, t).pc = "wrote"
=============================================================================
