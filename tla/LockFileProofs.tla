--------------------------- MODULE LockFileProofs ---------------------------
(* Proofs about LockFile, for any number of processes, threads and slots.     *)
EXTENDS LockFile, OrderLemmas, TLAPS

\* The steps a thread takes while it owns the mutex of the table, and the ones
\* at which it owns a slot that is not in its key yet.
TablePcs == {"scan", "publish", "take", "unlock", "locked", "recheck"}
ClaimPcs == {"publish", "take", "unlock"}
CheckPcs == {"check", "chklock", "recheck", "locked"}
ThreadPcs == {Idle, "rlock", "id", "unset", "write", "wrote"} \cup TablePcs \cup CheckPcs

ThreadRecord ==
    [pc : ThreadPcs, slot : 0..Slots, r : 0..Slots, txn : Nat \cup {NoTxn}, i : Nat,
     rdrs : 0..Slots, pids : SUBSET Procs, pid : Procs \cup {Nobody},
     then : {Idle, "scan", "write"}, dead : SUBSET Procs]

Mutexes == [by : Procs \cup {Nobody}, dead : BOOLEAN]

ThType == /\ th = [p \in Procs |-> th[p]]
          /\ \A p \in Procs : th[p] \in [Threads[p] -> ThreadRecord]

TypeInv ==
    /\ region \in [magic : BOOLEAN, txnid : Nat, num : 0..Slots]
    /\ readers \in [1..Slots -> [pid : Procs \cup {Nobody}, txnid : Nat \cup {NoTxn}]]
    /\ rmutex \in Mutexes /\ wmutex \in Mutexes
    /\ flock \in [Procs -> {"none", "shared", "excl"}]
    /\ pidlock \in SUBSET Procs
    /\ metas \in [{0, 1} -> Nat]
    /\ env \in [Procs -> [pc : {"closed", "wait", "mutexes", "header", "file", "open", "close"},
                          live : BOOLEAN, close : 0..Slots]]
    /\ ThType

\* The lock on the file that each stage of mdb_env_open and mdb_env_close has;
\* an exclusive one excludes every other process.  From the header on, the file
\* is initialised.
FileInv ==
    /\ \A p \in Procs :
           /\ env[p].pc \in {"closed", "wait"} => flock[p] = "none"
           /\ env[p].pc \in {"mutexes", "header"} => flock[p] = "excl"
           /\ env[p].pc = "file" => flock[p] # "none"
           /\ env[p].pc \in {"open", "close"} => flock[p] = "shared"
           /\ env[p].pc \in {"file", "open", "close"} => region.magic
    /\ \A p, q \in Procs : flock[p] = "excl" /\ q # p => flock[q] = "none"

\* The threads of a process run between mdb_env_open and mdb_env_close.
ActiveInv == \A p \in Procs : env[p].pc # "open" => \A t \in Threads[p] : T(p, t) = IdleThread

\* Where a thread has which fields.
StageOK(x) ==
    /\ x.r # 0 <=> x.pc \in ClaimPcs
    /\ x.pc \in {"rlock", "scan"} \cup ClaimPcs \/ x.then = "scan" => x.slot = 0
    /\ x.slot = 0 \/ x.pc \in {"id", "unset"} => x.txn = NoTxn
    /\ x.pc \in {"id", "unset"} => x.slot # 0
    /\ x.then = "scan" => x.pc = "locked"
    /\ x.then = "write" => x.pc \in CheckPcs
    /\ x.pc \notin CheckPcs => x.dead = {}
    /\ x.pc \in CheckPcs => x.i \in Nat \ {0}

StageInv == \A p \in Procs : \A t \in Threads[p] : StageOK(T(p, t))

\* Before it has a slot, a process has locked its byte of the file.
NeedsLive(x) == \/ x.slot # 0
                \/ x.pc \in {"rlock", "scan"} \cup ClaimPcs
                \/ x.then = "scan"

LiveInv == /\ \A p \in Procs : env[p].live => p \in pidlock
           /\ \A p \in Procs : \A t \in Threads[p] : NeedsLive(T(p, t)) => env[p].live

\* One thread of one process owns the mutex of the table.
InTable(x) == x.pc \in TablePcs

TableInv ==
    /\ \A p \in Procs : \A t \in Threads[p] : InTable(T(p, t)) => rmutex.by = p
    /\ \A p, q \in Procs : \A t \in Threads[p], u \in Threads[q] :
           InTable(T(p, t)) /\ InTable(T(q, u)) => q = p /\ u = t

\* The slot a thread has, and the one it is claiming: below the limits of the
\* table and of mdb_env_close0, with the right contents.
SlotAt(p, x, num, close, table) ==
    /\ x.slot # 0 => /\ x.slot <= num /\ x.slot <= close
                     /\ table[x.slot] = [pid |-> p, txnid |-> x.txn]
    /\ x.pc \in {"publish", "take"} => table[x.r] = [pid |-> Nobody, txnid |-> NoTxn]
    /\ x.pc = "publish" => x.r <= num + 1
    /\ x.pc \in {"take", "unlock"} => x.r <= num /\ x.r <= close
    /\ x.pc = "unlock" => table[x.r] = [pid |-> p, txnid |-> NoTxn]

SlotInv == \A p \in Procs : \A t \in Threads[p] :
    SlotAt(p, T(p, t), region.num, env[p].close, readers)

\* No two threads have or claim the same slot.
Owns(x, i) == i # 0 /\ (x.slot = i \/ x.r = i)

OwnInv == \A p, q \in Procs : \A t \in Threads[p], u \in Threads[q] : \A i \in 1..Slots :
    Owns(T(p, t), i) /\ Owns(T(q, u), i) => p = q /\ t = u

\* A slot that is taken has a thread, or mdb_env_close0 will clear it, or its
\* process died.
AccountInv == \A i \in 1..region.num : i \notin orphans /\ readers[i].pid # Nobody =>
    \/ /\ env[readers[i].pid].pc = "open"
       /\ \E t \in Threads[readers[i].pid] : Owns(T(readers[i].pid, t), i)
    \/ env[readers[i].pid].pc = "close" /\ i <= env[readers[i].pid].close

\* What mdb_env_close0 has to clear is in the table.
CloseInv == \A p \in Procs : /\ env[p].pc = "open" => env[p].close <= region.num
                             /\ env[p].pc \notin {"open", "close"} => env[p].close = 0

\* One thread of one process owns the mutex of the writer.
Writing(x) == x.pc \in {"write", "wrote"} \/ x.then = "write"

WriterInv ==
    /\ \A p \in Procs : \A t \in Threads[p] : Writing(T(p, t)) => wmutex.by = p
    /\ \A p, q \in Procs : \A t \in Threads[p], u \in Threads[q] :
           Writing(T(p, t)) /\ Writing(T(q, u)) => q = p /\ u = t

\* While nobody has the exclusive lock, whoever uses the lock file or waits for
\* it finds it current, but for an interrupted commit.
CommitAt(x, id, newest) == /\ x.pc = "wrote" => id + 1 = newest
                           /\ x.pc = "write" \/ x.then = "write" => id = newest

Current == \/ region.txnid = Newest
           \/ /\ region.txnid + 1 = Newest
              /\ \/ wmutex.dead /\ wmutex.by = Nobody
                 \/ \E p \in Procs : \E t \in Threads[p] : T(p, t).pc = "wrote"

InUse == /\ \E p \in Procs : env[p].pc # "closed"
         /\ \A p \in Procs : flock[p] # "excl"

RegionInv == /\ \A p \in Procs : \A t \in Threads[p] : CommitAt(T(p, t), region.txnid, Newest)
             /\ InUse => Current

\* A process that was dead since the check began has not locked its byte; its
\* slots are among those still to be looked at, and not skipped by then.
CheckAt(p, x, num, table, locks) ==
    /\ x.dead \cap locks = {}
    /\ \A j \in 1..num : table[j].pid \in x.dead \ {p} =>
           /\ x.i <= j /\ j <= x.rdrs
           /\ x.pc \in {"check", "locked"} => table[j].pid \notin x.pids
           /\ x.pc \in {"chklock", "recheck"} =>
                  (table[j].pid \in x.pids \/ j = x.i => table[j].pid = x.pid)

CheckInv == \A p \in Procs : \A t \in Threads[p] :
    CheckAt(p, T(p, t), region.num, readers, pidlock)

IInv == /\ TypeInv /\ FileInv /\ ActiveInv /\ StageInv /\ LiveInv /\ TableInv
        /\ SlotInv /\ OwnInv /\ CloseInv /\ AccountInv
        /\ WriterInv /\ (~OpenBreaks => RegionInv) /\ CheckInv

-----------------------------------------------------------------------------
(* Facts about the operators of LockFile. *)

\* The scan of mdb_txn_renew0 finds a slot that nobody has, or the one after
\* the last.
LEMMA FirstFreeIsFree ==
    ASSUME TypeInv
    PROVE  /\ FirstFree \in 1..region.num + 1
           /\ FirstFree <= region.num => readers[FirstFree].pid = Nobody
<1> DEFINE S == {i \in 1..region.num : readers[i].pid = Nobody} \cup {region.num + 1}
<1>1. region.num \in Nat
  BY SlotsAssumption DEF TypeInv
<1>2. S \subseteq Nat /\ S # {}
  BY <1>1
<1>3. FirstFree \in S
  BY <1>2, MinIsLeast DEF FirstFree
<1> QED BY <1>1, <1>3

\* A step of one thread leaves the records of the others alone.
LEMMA MoveEffect ==
    ASSUME ThType, NEW p \in Procs, NEW t \in Threads[p], NEW rec \in ThreadRecord,
           Move(p, t, rec)
    PROVE  /\ ThType' /\ th'[p][t] = rec
           /\ \A q \in Procs : \A u \in Threads[q] : q # p \/ u # t => th'[q][u] = th[q][u]
<1>1. \A q \in Procs : th'[q] = IF q = p THEN [th[p] EXCEPT ![t] = rec] ELSE th[q]
  BY DEF ThType, Move
<1>2. th' = [q \in Procs |-> th'[q]]
  BY DEF ThType, Move
<1> QED BY <1>1, <1>2 DEF ThType

\* What a thread has in the table is not disturbed by changes to other slots.
LEMMA SlotFrame ==
    ASSUME NEW p, NEW x, StageOK(x), NEW n \in Int, NEW m \in Int, n <= m,
           NEW c \in Int, NEW d \in Int, c <= d, NEW a, NEW b,
           x.slot \in Int, x.r \in Int,
           SlotAt(p, x, n, c, a),
           x.slot # 0 => b[x.slot] = a[x.slot],
           x.r # 0 => b[x.r] = a[x.r]
    PROVE  SlotAt(p, x, m, d, b)
BY DEF SlotAt, StageOK, ClaimPcs

\* A check of the readers is not disturbed by slots that are given back, or
\* taken by processes that live.
LEMMA CheckFrame ==
    ASSUME NEW p, NEW x, NEW n, NEW m, NEW a, NEW b, NEW k, NEW l,
           CheckAt(p, x, n, a, k), x.dead \cap l = {},
           \A j \in 1..m : b[j].pid \in x.dead => j \in 1..n /\ b[j].pid = a[j].pid
    PROVE  CheckAt(p, x, m, b, l)
BY DEF CheckAt

\* The records of threads, and what the invariant says of one.
LEMMA ThreadFacts ==
    ASSUME IInv, NEW q \in Procs, NEW u \in Threads[q]
    PROVE  /\ th[q][u] \in ThreadRecord /\ StageOK(th[q][u])
           /\ th[q][u].slot \in Int /\ th[q][u].r \in Int /\ th[q][u].dead \subseteq Procs
           /\ SlotAt(q, th[q][u], region.num, env[q].close, readers)
           /\ CheckAt(q, th[q][u], region.num, readers, pidlock)
           /\ region.num \in Int /\ env[q].close \in Int
           /\ th[q][u].slot # 0 => /\ th[q][u].slot \in 1..Slots /\ th[q][u].slot <= region.num
                                   /\ readers[th[q][u].slot].pid = q /\ q \in pidlock
           /\ th[q][u].r # 0 => /\ th[q][u].r \in 1..Slots /\ InTable(th[q][u])
                                /\ q \in pidlock
                                /\ readers[th[q][u].r].pid \in {q, Nobody}
<1>1. th[q][u] \in ThreadRecord /\ region.num \in Int /\ env[q].close \in Int
  BY SlotsAssumption DEF IInv, TypeInv, ThType
<1>2. /\ StageOK(th[q][u]) /\ SlotAt(q, th[q][u], region.num, env[q].close, readers)
      /\ CheckAt(q, th[q][u], region.num, readers, pidlock)
  BY DEF IInv, StageInv, SlotInv, CheckInv, T
<1>3. th[q][u].slot \in 0..Slots /\ th[q][u].r \in 0..Slots /\ th[q][u].dead \subseteq Procs
  BY <1>1 DEF ThreadRecord
<1>4. th[q][u].slot # 0 \/ th[q][u].r # 0 => q \in pidlock
  BY <1>2 DEF IInv, LiveInv, NeedsLive, StageOK, T
<1>5. th[q][u].slot # 0 => /\ th[q][u].slot \in 1..Slots /\ th[q][u].slot <= region.num
                           /\ readers[th[q][u].slot].pid = q
  BY <1>2, <1>3, SlotsAssumption DEF SlotAt
<1>6. th[q][u].r # 0 => /\ th[q][u].r \in 1..Slots /\ InTable(th[q][u])
                        /\ readers[th[q][u].r].pid \in {q, Nobody}
  BY <1>2, <1>3, SlotsAssumption DEF SlotAt, StageOK, InTable, ClaimPcs, TablePcs
<1> QED BY <1>1, <1>2, <1>3, <1>4, <1>5, <1>6, SlotsAssumption

\* A thread record with other values in some fields is one, too.
LEMMA IdleIsThread ==
    ASSUME NEW x \in ThreadRecord
    PROVE  /\ 0 \in 0..Slots /\ IdleThread \in ThreadRecord
           /\ [IdleThread EXCEPT !.slot = x.slot, !.txn = x.txn] \in ThreadRecord
<1>1. 0 \in 0..Slots
  BY SlotsAssumption
<1> QED BY <1>1 DEF IdleThread, ThreadRecord, ThreadPcs, Idle, NoTxn

\* A thread that does nothing has no part in the invariant.
LEMMA IdleHas ==
    /\ StageOK(IdleThread) /\ ~NeedsLive(IdleThread) /\ ~InTable(IdleThread)
    /\ ~Writing(IdleThread) /\ IdleThread.pc # "wrote" /\ \A i : ~Owns(IdleThread, i)
    /\ \A p, n, c, a : SlotAt(p, IdleThread, n, c, a)
    /\ \A p, n, a, k : CheckAt(p, IdleThread, n, a, k)
    /\ \A id, newest : CommitAt(IdleThread, id, newest)
<1> USE DEF IdleThread, Idle, NoTxn, ClaimPcs, TablePcs, CheckPcs
<1>1. StageOK(IdleThread) /\ ~NeedsLive(IdleThread) /\ ~InTable(IdleThread)
  BY DEF StageOK, NeedsLive, InTable
<1>2. ~Writing(IdleThread) /\ IdleThread.pc # "wrote" /\ \A i : ~Owns(IdleThread, i)
  BY DEF Writing, Owns
<1>3. \A p, n, c, a : SlotAt(p, IdleThread, n, c, a)
  BY DEF SlotAt
<1>4. \A p, n, a, k : CheckAt(p, IdleThread, n, a, k)
  BY DEF CheckAt
<1>5. \A id, newest : CommitAt(IdleThread, id, newest)
  BY DEF CommitAt
<1> QED BY <1>1, <1>2, <1>3, <1>4, <1>5

\* While a process has the exclusive lock, nobody else has opened the file.
LEMMA ExclusiveAlone ==
    ASSUME IInv, NEW p \in Procs, flock[p] = "excl"
    PROVE  /\ \A q \in Procs : q # p => env[q].pc \in {"closed", "wait"}
           /\ env[p].pc \in {"mutexes", "header", "file"}
           /\ \A q \in Procs : \A u \in Threads[q] : th[q][u] = IdleThread
<1>1. /\ \A q \in Procs : q # p => env[q].pc \in {"closed", "wait"}
      /\ env[p].pc \in {"mutexes", "header", "file"}
  <2>1. \A q \in Procs : q # p => flock[q] = "none"
    BY DEF IInv, FileInv
  <2>2. \A q \in Procs :
            env[q].pc \in {"closed", "wait", "mutexes", "header", "file", "open", "close"}
    BY DEF IInv, TypeInv
  <2> QED BY <2>1, <2>2 DEF IInv, FileInv
<1> QED BY <1>1 DEF IInv, ActiveInv, T

\* Claiming a slot preserves the invariant.
LEMMA RdScanStep ==
    ASSUME IInv, NEW p \in Procs, NEW t \in Threads[p], RdScan(p, t)
    PROVE  IInv'
<1> USE SlotsAssumption DEF T, Idle, NoTxn
<1> DEFINE x == th[p][t]
           y == [x EXCEPT !.pc = "publish", !.r = FirstFree]
<1>1. /\ ThType /\ TypeInv /\ region.num \in 0..Slots
      /\ x \in ThreadRecord /\ StageOK(x) /\ 0 \in 0..Slots
      /\ SlotAt(p, x, region.num, env[p].close, readers)
      /\ CheckAt(p, x, region.num, readers, pidlock)
  BY ThreadFacts DEF IInv, TypeInv, ThType
<1>2. y \in ThreadRecord
  <2>1. FirstFree \in 0..Slots
    BY <1>1, FirstFreeIsFree DEF RdScan, TableFull, TypeInv
  <2> QED BY <1>1, <2>1 DEF ThreadRecord, ThreadPcs, TablePcs
<1>3. Move(p, t, y)
  BY DEF RdScan, Goto, Return
<1>4. /\ ThType'
      /\ th'[p][t] = y
      /\ \A q \in Procs : \A u \in Threads[q] : q # p \/ u # t => th'[q][u] = th[q][u]
  BY <1>1, <1>2, <1>3, MoveEffect
<1>5. /\ env[p].pc = "open"
      /\ x.pc = "scan"
      /\ FirstFree \in 1..Slots /\ FirstFree <= region.num + 1
      /\ FirstFree <= region.num => readers[FirstFree].pid = Nobody
      /\ readers' \in [1..Slots -> [pid : Procs \cup {Nobody}, txnid : Nat \cup {NoTxn}]]
      /\ readers'[FirstFree] = [pid |-> Nobody, txnid |-> NoTxn]
      /\ \A i \in 1..Slots : i # FirstFree => readers'[i] = readers[i]
      /\ orphans' = orphans \ {FirstFree}
      /\ UNCHANGED <<region, rmutex, wmutex, flock, pidlock, metas, env, deaths>>
  BY <1>1, FirstFreeIsFree DEF RdScan, At, TypeInv, TableFull
<1>6. /\ th'[p][t].pc = "publish" /\ th'[p][t].slot = x.slot
      /\ th'[p][t].r = FirstFree /\ th'[p][t].txn = x.txn /\ th'[p][t].i = x.i
      /\ th'[p][t].rdrs = x.rdrs /\ th'[p][t].pids = x.pids
      /\ th'[p][t].pid = x.pid /\ th'[p][t].then = x.then
      /\ th'[p][t].dead = x.dead
  BY <1>1, <1>4 DEF ThreadRecord, IdleThread, CheckFrom
<1>7. \A q \in Procs : \A u \in Threads[q] : q # p \/ u # t => th'[q][u] = th[q][u]
  BY <1>4
<1> HIDE DEF y
<1>8. TypeInv'
  BY <1>1, <1>4, <1>5 DEF TypeInv, Mutexes
<1>9. FileInv'
  BY <1>5 DEF IInv, FileInv
<1>10. ActiveInv'
  BY <1>5, <1>7 DEF IInv, ActiveInv
<1>11. StageInv'
  <2>1. StageOK(th'[p][t])
    BY <1>1, <1>5, <1>6 DEF StageOK, TablePcs, ClaimPcs, CheckPcs
  <2> QED BY <2>1, <1>7 DEF IInv, StageInv
<1>12. LiveInv'
  <2>1. \A q \in Procs : env'[q].live => q \in pidlock'
    BY <1>5 DEF IInv, LiveInv
  <2>2. NeedsLive(th'[p][t]) => NeedsLive(th[p][t])
    BY <1>1, <1>5, <1>6 DEF NeedsLive, StageOK, ClaimPcs
  <2> QED BY <2>1, <2>2, <1>5, <1>7 DEF IInv, LiveInv
<1>13. TableInv'
  <2>1. \A q \in Procs : \A u \in Threads[q] : InTable(th'[q][u]) => InTable(th[q][u])
    BY <1>5, <1>6, <1>7 DEF InTable, TablePcs
  <2> QED BY <2>1, <1>5 DEF IInv, TableInv
<1>14. SlotInv'
  <2>1. SlotAt(p, th'[p][t], region'.num, env'[p].close, readers')
    BY <1>1, <1>5, <1>6 DEF SlotAt, StageOK, TablePcs, ClaimPcs, CheckPcs
  <2>2. ASSUME NEW q \in Procs, NEW u \in Threads[q], q # p \/ u # t
        PROVE  SlotAt(q, th'[q][u], region'.num, env'[q].close, readers')
    <3>1. th'[q][u] = th[q][u]
      BY <1>7, <2>2
    <3>2. /\ th[q][u].slot # 0 => readers'[th[q][u].slot] = readers[th[q][u].slot]
          /\ th[q][u].r # 0 => readers'[th[q][u].r] = readers[th[q][u].r]
      <4>1. th[q][u].r = 0
        BY <1>5, <2>2, ThreadFacts DEF IInv, TableInv, InTable, TablePcs
      <4>2. th[q][u].slot # 0 => th[q][u].slot # FirstFree /\ th[q][u].slot \in 1..Slots
        BY <1>5, ThreadFacts
      <4> QED BY <1>5, <4>1, <4>2
    <3>3. /\ region'.num \in Int /\ region.num <= region'.num
          /\ env'[q].close \in Int /\ env[q].close <= env'[q].close
      BY <1>5, ThreadFacts
    <3> QED BY <3>1, <3>2, <3>3, ThreadFacts, SlotFrame
  <2> QED BY <2>1, <2>2 DEF SlotInv
<1>15. OwnInv'
  <2>1. \A q \in Procs : \A u \in Threads[q] : \A i \in 1..Slots :
            Owns(th'[q][u], i) => Owns(th[q][u], i) \/ (q = p /\ u = t /\ i = FirstFree)
    BY <1>5, <1>6, <1>7 DEF Owns
  <2>2. \A q \in Procs : \A u \in Threads[q] : q # p \/ u # t => ~Owns(th[q][u], FirstFree)
    <3> SUFFICES ASSUME NEW q \in Procs, NEW u \in Threads[q], q # p \/ u # t
                 PROVE  ~Owns(th[q][u], FirstFree)
      OBVIOUS
    <3>1. th[q][u].r = 0
      BY <1>5, ThreadFacts DEF IInv, TableInv, InTable, TablePcs
    <3>2. th[q][u].slot # 0 => th[q][u].slot # FirstFree
      BY <1>5, ThreadFacts
    <3> QED BY <3>1, <3>2, <1>5 DEF Owns
  <2> QED BY <2>1, <2>2 DEF IInv, OwnInv
<1>16. CloseInv'
  BY <1>5 DEF IInv, CloseInv
<1>17. AccountInv'
  <2>1. \A q \in Procs : \A u \in Threads[q] : \A i \in 1..Slots :
            Owns(th[q][u], i) /\ readers'[i].pid # Nobody => Owns(th'[q][u], i)
    BY <1>1, <1>5, <1>6, <1>7 DEF Owns, StageOK, ClaimPcs
  <2>2. ASSUME NEW i \in 1..region'.num, i \notin orphans', readers'[i].pid # Nobody
        PROVE  i \in 1..region.num /\ i \notin orphans /\ readers'[i].pid = readers[i].pid
    BY <2>2, <1>1, <1>5
  <2>3. \A i \in 1..region.num : i \in 1..Slots /\ readers[i].pid \in Procs \cup {Nobody}
    BY <1>1 DEF TypeInv
  <2>4. ASSUME NEW i \in 1..region'.num, i \notin orphans', readers'[i].pid # Nobody, NEW q, q = readers'[i].pid
        PROVE  \/ env'[q].pc = "open" /\ \E u \in Threads[q] : Owns(th'[q][u], i)
               \/ env'[q].pc = "close" /\ i <= env'[q].close
    BY <2>1, <2>2, <2>3, <2>4, <1>5 DEF IInv, AccountInv
  <2> QED BY <2>4 DEF AccountInv
<1>18. WriterInv'
  <2>1. \A q \in Procs : \A u \in Threads[q] : Writing(th'[q][u]) => Writing(th[q][u])
    BY <1>5, <1>6, <1>7 DEF Writing
  <2> QED BY <2>1, <1>5 DEF IInv, WriterInv
<1>19. ~OpenBreaks => RegionInv'
  <2> SUFFICES ASSUME ~OpenBreaks PROVE RegionInv'
    OBVIOUS
  <2>1. Newest' = Newest /\ (InUse' => InUse)
    BY <1>5 DEF Newest, InUse
  <2>2. region'.txnid = region.txnid /\ wmutex' = wmutex
    BY <1>5
  <2>3. \A q \in Procs : \A u \in Threads[q] : CommitAt(th'[q][u], region'.txnid, Newest')
    BY <2>1, <2>2, <1>5, <1>6, <1>7 DEF IInv, RegionInv, CommitAt
  <2>4. \A q \in Procs : \A u \in Threads[q] : th[q][u].pc = "wrote" => th'[q][u].pc = "wrote"
    BY <1>5, <1>6, <1>7
  <2>5. Current => Current'
    BY <2>1, <2>2, <2>4 DEF Current
  <2> QED BY <2>1, <2>3, <2>5 DEF IInv, RegionInv
<1>20. CheckInv'
  <2>1. CheckAt(p, th'[p][t], region'.num, readers', pidlock')
    BY <1>1, <1>5, <1>6 DEF CheckAt, StageOK, TablePcs, ClaimPcs, CheckPcs
  <2>2. ASSUME NEW q \in Procs, NEW u \in Threads[q], q # p \/ u # t
        PROVE  CheckAt(q, th'[q][u], region'.num, readers', pidlock')
    <3>1. th'[q][u] = th[q][u]
      BY <1>7, <2>2
    <3>2. \A j \in 1..region'.num : readers'[j].pid \in th[q][u].dead =>
              j \in 1..region.num /\ readers'[j].pid = readers[j].pid
      BY <1>1, <1>5, ThreadFacts
    <3>3. th[q][u].dead \cap pidlock' = {}
      BY <1>5, ThreadFacts DEF CheckAt
    <3> QED BY <3>1, <3>2, <3>3, ThreadFacts, CheckFrame
  <2> QED BY <2>1, <2>2 DEF CheckInv
<1> QED BY <1>8, <1>9, <1>10, <1>11, <1>12, <1>13, <1>14, <1>15, <1>16, <1>17,
       <1>18, <1>19, <1>20 DEF IInv

\* Locking the mutex of the table preserves the invariant.
LEMMA RdLockStep ==
    ASSUME IInv, NEW p \in Procs, NEW t \in Threads[p], RdLock(p, t)
    PROVE  IInv'
<1> USE SlotsAssumption DEF T, Idle, NoTxn
<1> DEFINE x == th[p][t]
           y == IF rmutex.dead THEN CheckFrom(x, "locked", "scan") ELSE [x EXCEPT !.pc = "scan"]
<1>1. /\ ThType /\ TypeInv /\ region.num \in 0..Slots
      /\ x \in ThreadRecord /\ StageOK(x) /\ 0 \in 0..Slots
      /\ SlotAt(p, x, region.num, env[p].close, readers)
      /\ CheckAt(p, x, region.num, readers, pidlock)
  BY ThreadFacts DEF IInv, TypeInv, ThType
<1>2. y \in ThreadRecord
  BY <1>1 DEF ThreadRecord, ThreadPcs, TablePcs, CheckPcs, CheckFrom, TypeInv
<1>3. Move(p, t, y)
  BY DEF RdLock, Goto, Return
<1>4. /\ ThType'
      /\ th'[p][t] = y
      /\ \A q \in Procs : \A u \in Threads[q] : q # p \/ u # t => th'[q][u] = th[q][u]
  BY <1>1, <1>2, <1>3, MoveEffect
<1>5. /\ env[p].pc = "open"
      /\ x.pc = "rlock"
      /\ rmutex.by = Nobody
      /\ rmutex'.by = p
      /\ rmutex' \in Mutexes
      /\ UNCHANGED <<region, readers, wmutex, flock, pidlock, metas, env, orphans, deaths>>
  BY <1>1 DEF RdLock, At, TypeInv, Mutexes, MayLock, Locked, Unlocked,
     Consistent
<1>6. /\ th'[p][t].pc = (IF rmutex.dead THEN "locked" ELSE "scan")
      /\ th'[p][t].slot = x.slot /\ th'[p][t].r = x.r /\ th'[p][t].txn = x.txn
      /\ th'[p][t].i = (IF rmutex.dead THEN 1 ELSE x.i)
      /\ th'[p][t].rdrs = (IF rmutex.dead THEN region.num ELSE x.rdrs)
      /\ th'[p][t].pids = (IF rmutex.dead THEN {} ELSE x.pids)
      /\ th'[p][t].pid = (IF rmutex.dead THEN Nobody ELSE x.pid)
      /\ th'[p][t].then = (IF rmutex.dead THEN "scan" ELSE x.then)
      /\ th'[p][t].dead = (IF rmutex.dead THEN Procs \ pidlock ELSE x.dead)
  BY <1>1, <1>4 DEF ThreadRecord, IdleThread, CheckFrom
<1>7. \A q \in Procs : \A u \in Threads[q] : q # p \/ u # t => th'[q][u] = th[q][u]
  BY <1>4
<1> HIDE DEF y
<1>8. TypeInv'
  BY <1>1, <1>4, <1>5 DEF TypeInv, Mutexes
<1>9. FileInv'
  BY <1>5 DEF IInv, FileInv
<1>10. ActiveInv'
  BY <1>5, <1>7 DEF IInv, ActiveInv
<1>11. StageInv'
  <2>1. StageOK(th'[p][t])
    BY <1>1, <1>5, <1>6 DEF StageOK, TablePcs, ClaimPcs, CheckPcs
  <2> QED BY <2>1, <1>7 DEF IInv, StageInv
<1>12. LiveInv'
  <2>1. \A q \in Procs : env'[q].live => q \in pidlock'
    BY <1>5 DEF IInv, LiveInv
  <2>2. NeedsLive(th'[p][t]) => NeedsLive(th[p][t])
    BY <1>1, <1>5, <1>6 DEF NeedsLive, StageOK, ClaimPcs
  <2> QED BY <2>1, <2>2, <1>5, <1>7 DEF IInv, LiveInv
<1>13. TableInv'
  <2>1. \A q \in Procs : \A u \in Threads[q] : ~InTable(th[q][u])
    BY <1>5 DEF IInv, TableInv
  <2>2. \A q \in Procs : \A u \in Threads[q] : InTable(th'[q][u]) => q = p /\ u = t
    BY <2>1, <1>7
  <2> QED BY <2>2, <1>5 DEF TableInv
<1>14. SlotInv'
  <2>1. SlotAt(p, th'[p][t], region'.num, env'[p].close, readers')
    BY <1>1, <1>5, <1>6 DEF SlotAt, StageOK, TablePcs, ClaimPcs, CheckPcs
  <2>2. ASSUME NEW q \in Procs, NEW u \in Threads[q], q # p \/ u # t
        PROVE  SlotAt(q, th'[q][u], region'.num, env'[q].close, readers')
    <3>1. th'[q][u] = th[q][u]
      BY <1>7, <2>2
    <3>2. /\ th[q][u].slot # 0 => readers'[th[q][u].slot] = readers[th[q][u].slot]
          /\ th[q][u].r # 0 => readers'[th[q][u].r] = readers[th[q][u].r]
      BY <1>5
    <3>3. /\ region'.num \in Int /\ region.num <= region'.num
          /\ env'[q].close \in Int /\ env[q].close <= env'[q].close
      BY <1>5, ThreadFacts
    <3> QED BY <3>1, <3>2, <3>3, ThreadFacts, SlotFrame
  <2> QED BY <2>1, <2>2 DEF SlotInv
<1>15. OwnInv'
  <2>1. \A q \in Procs : \A u \in Threads[q] : \A i \in 1..Slots :
            Owns(th'[q][u], i) => Owns(th[q][u], i)
    BY <1>5, <1>6, <1>7 DEF Owns
  <2> QED BY <2>1 DEF IInv, OwnInv
<1>16. CloseInv'
  BY <1>5 DEF IInv, CloseInv
<1>17. AccountInv'
  <2>1. \A q \in Procs : \A u \in Threads[q] : \A i \in 1..Slots :
            Owns(th[q][u], i) /\ readers'[i].pid # Nobody => Owns(th'[q][u], i)
    BY <1>1, <1>5, <1>6, <1>7 DEF Owns, StageOK, ClaimPcs
  <2>2. ASSUME NEW i \in 1..region'.num, i \notin orphans', readers'[i].pid # Nobody
        PROVE  i \in 1..region.num /\ i \notin orphans /\ readers'[i].pid = readers[i].pid
    BY <2>2, <1>1, <1>5
  <2>3. \A i \in 1..region.num : i \in 1..Slots /\ readers[i].pid \in Procs \cup {Nobody}
    BY <1>1 DEF TypeInv
  <2>4. ASSUME NEW i \in 1..region'.num, i \notin orphans', readers'[i].pid # Nobody, NEW q, q = readers'[i].pid
        PROVE  \/ env'[q].pc = "open" /\ \E u \in Threads[q] : Owns(th'[q][u], i)
               \/ env'[q].pc = "close" /\ i <= env'[q].close
    BY <2>1, <2>2, <2>3, <2>4, <1>5 DEF IInv, AccountInv
  <2> QED BY <2>4 DEF AccountInv
<1>18. WriterInv'
  <2>1. \A q \in Procs : \A u \in Threads[q] : Writing(th'[q][u]) => Writing(th[q][u])
    BY <1>5, <1>6, <1>7 DEF Writing
  <2> QED BY <2>1, <1>5 DEF IInv, WriterInv
<1>19. ~OpenBreaks => RegionInv'
  <2> SUFFICES ASSUME ~OpenBreaks PROVE RegionInv'
    OBVIOUS
  <2>1. Newest' = Newest /\ (InUse' => InUse)
    BY <1>5 DEF Newest, InUse
  <2>2. region'.txnid = region.txnid /\ wmutex' = wmutex
    BY <1>5
  <2>3. \A q \in Procs : \A u \in Threads[q] : CommitAt(th'[q][u], region'.txnid, Newest')
    BY <2>1, <2>2, <1>5, <1>6, <1>7 DEF IInv, RegionInv, CommitAt
  <2>4. \A q \in Procs : \A u \in Threads[q] : th[q][u].pc = "wrote" => th'[q][u].pc = "wrote"
    BY <1>5, <1>6, <1>7
  <2>5. Current => Current'
    BY <2>1, <2>2, <2>4 DEF Current
  <2> QED BY <2>1, <2>3, <2>5 DEF IInv, RegionInv
<1>20. CheckInv'
  <2>1. CheckAt(p, th'[p][t], region'.num, readers', pidlock')
    BY <1>1, <1>5, <1>6 DEF CheckAt, StageOK, TablePcs, ClaimPcs, CheckPcs
  <2>2. ASSUME NEW q \in Procs, NEW u \in Threads[q], q # p \/ u # t
        PROVE  CheckAt(q, th'[q][u], region'.num, readers', pidlock')
    <3>1. th'[q][u] = th[q][u]
      BY <1>7, <2>2
    <3>2. \A j \in 1..region'.num : readers'[j].pid \in th[q][u].dead =>
              j \in 1..region.num /\ readers'[j].pid = readers[j].pid
      BY <1>1, <1>5, ThreadFacts
    <3>3. th[q][u].dead \cap pidlock' = {}
      BY <1>5, ThreadFacts DEF CheckAt
    <3> QED BY <3>1, <3>2, <3>3, ThreadFacts, CheckFrame
  <2> QED BY <2>1, <2>2 DEF CheckInv
<1> QED BY <1>8, <1>9, <1>10, <1>11, <1>12, <1>13, <1>14, <1>15, <1>16, <1>17,
       <1>18, <1>19, <1>20 DEF IInv

\* Returning MDB_READERS_FULL preserves the invariant.
LEMMA RdFullStep ==
    ASSUME IInv, NEW p \in Procs, NEW t \in Threads[p], RdFull(p, t)
    PROVE  IInv'
<1> USE SlotsAssumption DEF T, Idle, NoTxn
<1> DEFINE x == th[p][t]
           y == [IdleThread EXCEPT !.slot = x.slot, !.txn = x.txn]
<1>1. /\ ThType /\ TypeInv /\ region.num \in 0..Slots
      /\ x \in ThreadRecord /\ StageOK(x) /\ 0 \in 0..Slots
      /\ SlotAt(p, x, region.num, env[p].close, readers)
      /\ CheckAt(p, x, region.num, readers, pidlock)
  BY ThreadFacts DEF IInv, TypeInv, ThType
<1>2. y \in ThreadRecord
  BY <1>1, IdleIsThread
<1>3. Move(p, t, y)
  BY DEF RdFull, Goto, Return
<1>4. /\ ThType'
      /\ th'[p][t] = y
      /\ \A q \in Procs : \A u \in Threads[q] : q # p \/ u # t => th'[q][u] = th[q][u]
  BY <1>1, <1>2, <1>3, MoveEffect
<1>5. /\ env[p].pc = "open"
      /\ x.pc = "scan"
      /\ rmutex'.by = Nobody
      /\ rmutex' \in Mutexes
      /\ UNCHANGED <<region, readers, wmutex, flock, pidlock, metas, env, orphans, deaths>>
  BY <1>1 DEF RdFull, At, TypeInv, Mutexes, MayLock, Locked, Unlocked,
     Consistent
<1>6. /\ th'[p][t].pc = "idle" /\ th'[p][t].slot = x.slot /\ th'[p][t].r = 0
      /\ th'[p][t].txn = x.txn /\ th'[p][t].i = 0 /\ th'[p][t].rdrs = 0
      /\ th'[p][t].pids = {} /\ th'[p][t].pid = Nobody /\ th'[p][t].then = "idle"
      /\ th'[p][t].dead = {}
  BY <1>1, <1>4 DEF ThreadRecord, IdleThread, CheckFrom
<1>7. \A q \in Procs : \A u \in Threads[q] : q # p \/ u # t => th'[q][u] = th[q][u]
  BY <1>4
<1> HIDE DEF y
<1>8. TypeInv'
  BY <1>1, <1>4, <1>5 DEF TypeInv, Mutexes
<1>9. FileInv'
  BY <1>5 DEF IInv, FileInv
<1>10. ActiveInv'
  BY <1>5, <1>7 DEF IInv, ActiveInv
<1>11. StageInv'
  <2>1. StageOK(th'[p][t])
    BY <1>1, <1>5, <1>6 DEF StageOK, TablePcs, ClaimPcs, CheckPcs
  <2> QED BY <2>1, <1>7 DEF IInv, StageInv
<1>12. LiveInv'
  <2>1. \A q \in Procs : env'[q].live => q \in pidlock'
    BY <1>5 DEF IInv, LiveInv
  <2>2. NeedsLive(th'[p][t]) => NeedsLive(th[p][t])
    BY <1>1, <1>5, <1>6 DEF NeedsLive, StageOK, ClaimPcs
  <2> QED BY <2>1, <2>2, <1>5, <1>7 DEF IInv, LiveInv
<1>13. TableInv'
  <2>1. InTable(th[p][t]) /\ ~InTable(th'[p][t])
    BY <1>5, <1>6 DEF InTable, TablePcs
  <2>2. \A q \in Procs : \A u \in Threads[q] : ~InTable(th'[q][u])
    BY <2>1, <1>7 DEF IInv, TableInv
  <2> QED BY <2>2 DEF TableInv
<1>14. SlotInv'
  <2>1. SlotAt(p, th'[p][t], region'.num, env'[p].close, readers')
    BY <1>1, <1>5, <1>6 DEF SlotAt, StageOK, TablePcs, ClaimPcs, CheckPcs
  <2>2. ASSUME NEW q \in Procs, NEW u \in Threads[q], q # p \/ u # t
        PROVE  SlotAt(q, th'[q][u], region'.num, env'[q].close, readers')
    <3>1. th'[q][u] = th[q][u]
      BY <1>7, <2>2
    <3>2. /\ th[q][u].slot # 0 => readers'[th[q][u].slot] = readers[th[q][u].slot]
          /\ th[q][u].r # 0 => readers'[th[q][u].r] = readers[th[q][u].r]
      BY <1>5
    <3>3. /\ region'.num \in Int /\ region.num <= region'.num
          /\ env'[q].close \in Int /\ env[q].close <= env'[q].close
      BY <1>5, ThreadFacts
    <3> QED BY <3>1, <3>2, <3>3, ThreadFacts, SlotFrame
  <2> QED BY <2>1, <2>2 DEF SlotInv
<1>15. OwnInv'
  <2>1. \A q \in Procs : \A u \in Threads[q] : \A i \in 1..Slots :
            Owns(th'[q][u], i) => Owns(th[q][u], i)
    BY <1>5, <1>6, <1>7 DEF Owns
  <2> QED BY <2>1 DEF IInv, OwnInv
<1>16. CloseInv'
  BY <1>5 DEF IInv, CloseInv
<1>17. AccountInv'
  <2>1. \A q \in Procs : \A u \in Threads[q] : \A i \in 1..Slots :
            Owns(th[q][u], i) /\ readers'[i].pid # Nobody => Owns(th'[q][u], i)
    BY <1>1, <1>5, <1>6, <1>7 DEF Owns, StageOK, ClaimPcs
  <2>2. ASSUME NEW i \in 1..region'.num, i \notin orphans', readers'[i].pid # Nobody
        PROVE  i \in 1..region.num /\ i \notin orphans /\ readers'[i].pid = readers[i].pid
    BY <2>2, <1>1, <1>5
  <2>3. \A i \in 1..region.num : i \in 1..Slots /\ readers[i].pid \in Procs \cup {Nobody}
    BY <1>1 DEF TypeInv
  <2>4. ASSUME NEW i \in 1..region'.num, i \notin orphans', readers'[i].pid # Nobody, NEW q, q = readers'[i].pid
        PROVE  \/ env'[q].pc = "open" /\ \E u \in Threads[q] : Owns(th'[q][u], i)
               \/ env'[q].pc = "close" /\ i <= env'[q].close
    BY <2>1, <2>2, <2>3, <2>4, <1>5 DEF IInv, AccountInv
  <2> QED BY <2>4 DEF AccountInv
<1>18. WriterInv'
  <2>1. \A q \in Procs : \A u \in Threads[q] : Writing(th'[q][u]) => Writing(th[q][u])
    BY <1>5, <1>6, <1>7 DEF Writing
  <2> QED BY <2>1, <1>5 DEF IInv, WriterInv
<1>19. ~OpenBreaks => RegionInv'
  <2> SUFFICES ASSUME ~OpenBreaks PROVE RegionInv'
    OBVIOUS
  <2>1. Newest' = Newest /\ (InUse' => InUse)
    BY <1>5 DEF Newest, InUse
  <2>2. region'.txnid = region.txnid /\ wmutex' = wmutex
    BY <1>5
  <2>3. \A q \in Procs : \A u \in Threads[q] : CommitAt(th'[q][u], region'.txnid, Newest')
    BY <2>1, <2>2, <1>5, <1>6, <1>7 DEF IInv, RegionInv, CommitAt
  <2>4. \A q \in Procs : \A u \in Threads[q] : th[q][u].pc = "wrote" => th'[q][u].pc = "wrote"
    BY <1>5, <1>6, <1>7
  <2>5. Current => Current'
    BY <2>1, <2>2, <2>4 DEF Current
  <2> QED BY <2>1, <2>3, <2>5 DEF IInv, RegionInv
<1>20. CheckInv'
  <2>1. CheckAt(p, th'[p][t], region'.num, readers', pidlock')
    BY <1>1, <1>5, <1>6 DEF CheckAt, StageOK, TablePcs, ClaimPcs, CheckPcs
  <2>2. ASSUME NEW q \in Procs, NEW u \in Threads[q], q # p \/ u # t
        PROVE  CheckAt(q, th'[q][u], region'.num, readers', pidlock')
    <3>1. th'[q][u] = th[q][u]
      BY <1>7, <2>2
    <3>2. \A j \in 1..region'.num : readers'[j].pid \in th[q][u].dead =>
              j \in 1..region.num /\ readers'[j].pid = readers[j].pid
      BY <1>1, <1>5, ThreadFacts
    <3>3. th[q][u].dead \cap pidlock' = {}
      BY <1>5, ThreadFacts DEF CheckAt
    <3> QED BY <3>1, <3>2, <3>3, ThreadFacts, CheckFrame
  <2> QED BY <2>1, <2>2 DEF CheckInv
<1> QED BY <1>8, <1>9, <1>10, <1>11, <1>12, <1>13, <1>14, <1>15, <1>16, <1>17,
       <1>18, <1>19, <1>20 DEF IInv

\* Putting the pid into the claimed slot preserves the invariant.
LEMMA RdTakeStep ==
    ASSUME IInv, NEW p \in Procs, NEW t \in Threads[p], RdTake(p, t)
    PROVE  IInv'
<1> USE SlotsAssumption DEF T, Idle, NoTxn
<1> DEFINE x == th[p][t]
           y == [x EXCEPT !.pc = "unlock"]
<1>1. /\ ThType /\ TypeInv /\ region.num \in 0..Slots
      /\ x \in ThreadRecord /\ StageOK(x) /\ 0 \in 0..Slots
      /\ SlotAt(p, x, region.num, env[p].close, readers)
      /\ CheckAt(p, x, region.num, readers, pidlock)
  BY ThreadFacts DEF IInv, TypeInv, ThType
<1>2. y \in ThreadRecord
  BY <1>1 DEF ThreadRecord, ThreadPcs, TablePcs, CheckPcs
<1>3. Move(p, t, y)
  BY DEF RdTake, Goto, Return
<1>4. /\ ThType'
      /\ th'[p][t] = y
      /\ \A q \in Procs : \A u \in Threads[q] : q # p \/ u # t => th'[q][u] = th[q][u]
  BY <1>1, <1>2, <1>3, MoveEffect
<1>5. /\ env[p].pc = "open"
      /\ x.pc = "take"
      /\ x.r \in 1..Slots
      /\ readers' \in [1..Slots -> [pid : Procs \cup {Nobody}, txnid : Nat \cup {NoTxn}]]
      /\ readers'[x.r] = [pid |-> p, txnid |-> NoTxn]
      /\ \A i \in 1..Slots : i # x.r => readers'[i] = readers[i]
      /\ UNCHANGED <<region, rmutex, wmutex, flock, pidlock, metas, env, orphans, deaths>>
  <2>1. env[p].pc = "open" /\ x.pc = "take"
    BY DEF RdTake, At
  <2>2. x.r \in 1..Slots /\ readers[x.r] = [pid |-> Nobody, txnid |-> NoTxn]
    BY <1>1, <2>1 DEF RdTake, SlotAt, StageOK, ClaimPcs, ThreadRecord
  <2>3. readers' = [readers EXCEPT ![x.r].pid = p]
    BY <2>2 DEF RdTake, FreeSlots
  <2> QED BY <1>1, <2>1, <2>2, <2>3 DEF RdTake, TypeInv
<1>6. /\ th'[p][t].pc = "unlock" /\ th'[p][t].slot = x.slot /\ th'[p][t].r = x.r
      /\ th'[p][t].txn = x.txn /\ th'[p][t].i = x.i /\ th'[p][t].rdrs = x.rdrs
      /\ th'[p][t].pids = x.pids /\ th'[p][t].pid = x.pid
      /\ th'[p][t].then = x.then /\ th'[p][t].dead = x.dead
  BY <1>1, <1>4 DEF ThreadRecord, IdleThread, CheckFrom
<1>7. \A q \in Procs : \A u \in Threads[q] : q # p \/ u # t => th'[q][u] = th[q][u]
  BY <1>4
<1> HIDE DEF y
<1>8. TypeInv'
  BY <1>1, <1>4, <1>5 DEF TypeInv, Mutexes
<1>9. FileInv'
  BY <1>5 DEF IInv, FileInv
<1>10. ActiveInv'
  BY <1>5, <1>7 DEF IInv, ActiveInv
<1>11. StageInv'
  <2>1. StageOK(th'[p][t])
    BY <1>1, <1>5, <1>6 DEF StageOK, TablePcs, ClaimPcs, CheckPcs
  <2> QED BY <2>1, <1>7 DEF IInv, StageInv
<1>12. LiveInv'
  <2>1. \A q \in Procs : env'[q].live => q \in pidlock'
    BY <1>5 DEF IInv, LiveInv
  <2>2. NeedsLive(th'[p][t]) => NeedsLive(th[p][t])
    BY <1>1, <1>5, <1>6 DEF NeedsLive, StageOK, ClaimPcs
  <2> QED BY <2>1, <2>2, <1>5, <1>7 DEF IInv, LiveInv
<1>13. TableInv'
  <2>1. \A q \in Procs : \A u \in Threads[q] : InTable(th'[q][u]) => InTable(th[q][u])
    BY <1>5, <1>6, <1>7 DEF InTable, TablePcs
  <2> QED BY <2>1, <1>5 DEF IInv, TableInv
<1>14. SlotInv'
  <2>1. SlotAt(p, th'[p][t], region'.num, env'[p].close, readers')
    BY <1>1, <1>5, <1>6 DEF SlotAt, StageOK, TablePcs, ClaimPcs, CheckPcs
  <2>2. ASSUME NEW q \in Procs, NEW u \in Threads[q], q # p \/ u # t
        PROVE  SlotAt(q, th'[q][u], region'.num, env'[q].close, readers')
    <3>1. th'[q][u] = th[q][u]
      BY <1>7, <2>2
    <3>2. /\ th[q][u].slot # 0 => readers'[th[q][u].slot] = readers[th[q][u].slot]
          /\ th[q][u].r # 0 => readers'[th[q][u].r] = readers[th[q][u].r]
      <4>1. x.r \in 1..Slots /\ Owns(x, x.r)
        BY <1>1, <1>5 DEF Owns
      <4>2. ~Owns(th[q][u], x.r)
        BY <2>2, <4>1 DEF IInv, OwnInv
      <4> QED BY <1>5, <4>2, ThreadFacts DEF Owns
    <3>3. /\ region'.num \in Int /\ region.num <= region'.num
          /\ env'[q].close \in Int /\ env[q].close <= env'[q].close
      BY <1>5, ThreadFacts
    <3> QED BY <3>1, <3>2, <3>3, ThreadFacts, SlotFrame
  <2> QED BY <2>1, <2>2 DEF SlotInv
<1>15. OwnInv'
  <2>1. \A q \in Procs : \A u \in Threads[q] : \A i \in 1..Slots :
            Owns(th'[q][u], i) => Owns(th[q][u], i)
    BY <1>5, <1>6, <1>7 DEF Owns
  <2> QED BY <2>1 DEF IInv, OwnInv
<1>16. CloseInv'
  BY <1>5 DEF IInv, CloseInv
<1>17. AccountInv'
  <2>1. \A q \in Procs : \A u \in Threads[q] : \A i \in 1..Slots :
            Owns(th[q][u], i) => Owns(th'[q][u], i)
    BY <1>5, <1>6, <1>7 DEF Owns
  <2>2. \A i \in 1..region.num : i \in 1..Slots /\ readers[i].pid \in Procs \cup {Nobody}
    BY <1>1 DEF TypeInv
  <2>3. Owns(th'[p][t], x.r) /\ readers'[x.r].pid = p
    BY <1>5, <1>6 DEF Owns
  <2>4. \A i \in 1..region.num : i # x.r => readers'[i] = readers[i]
    BY <2>2, <1>5
  <2>5. ASSUME NEW i \in 1..region.num, i \notin orphans, NEW q, q = readers'[i].pid, q # Nobody
        PROVE  \/ env[q].pc = "open" /\ \E u \in Threads[q] : Owns(th'[q][u], i)
               \/ env[q].pc = "close" /\ i <= env[q].close
    <3>1. CASE i = x.r
      BY <2>3, <2>5, <3>1, <1>5
    <3>2. CASE i # x.r
      <4>1. readers[i].pid = q /\ q \in Procs /\ i \in 1..Slots
        BY <2>2, <2>4, <2>5, <3>2
      <4>2. \/ env[q].pc = "open" /\ \E u \in Threads[q] : Owns(th[q][u], i)
            \/ env[q].pc = "close" /\ i <= env[q].close
        BY <2>5, <4>1 DEF IInv, AccountInv
      <4> QED BY <4>1, <4>2, <2>1
    <3> QED BY <3>1, <3>2
  <2>6. UNCHANGED <<region, orphans, env>>
    BY <1>5
  <2> QED BY <2>5, <2>6 DEF AccountInv
<1>18. WriterInv'
  <2>1. \A q \in Procs : \A u \in Threads[q] : Writing(th'[q][u]) => Writing(th[q][u])
    BY <1>5, <1>6, <1>7 DEF Writing
  <2> QED BY <2>1, <1>5 DEF IInv, WriterInv
<1>19. ~OpenBreaks => RegionInv'
  <2> SUFFICES ASSUME ~OpenBreaks PROVE RegionInv'
    OBVIOUS
  <2>1. Newest' = Newest /\ (InUse' => InUse)
    BY <1>5 DEF Newest, InUse
  <2>2. region'.txnid = region.txnid /\ wmutex' = wmutex
    BY <1>5
  <2>3. \A q \in Procs : \A u \in Threads[q] : CommitAt(th'[q][u], region'.txnid, Newest')
    BY <2>1, <2>2, <1>5, <1>6, <1>7 DEF IInv, RegionInv, CommitAt
  <2>4. \A q \in Procs : \A u \in Threads[q] : th[q][u].pc = "wrote" => th'[q][u].pc = "wrote"
    BY <1>5, <1>6, <1>7
  <2>5. Current => Current'
    BY <2>1, <2>2, <2>4 DEF Current
  <2> QED BY <2>1, <2>3, <2>5 DEF IInv, RegionInv
<1>20. CheckInv'
  <2>1. CheckAt(p, th'[p][t], region'.num, readers', pidlock')
    BY <1>1, <1>5, <1>6 DEF CheckAt, StageOK, TablePcs, ClaimPcs, CheckPcs
  <2>2. ASSUME NEW q \in Procs, NEW u \in Threads[q], q # p \/ u # t
        PROVE  CheckAt(q, th'[q][u], region'.num, readers', pidlock')
    <3>1. th'[q][u] = th[q][u]
      BY <1>7, <2>2
    <3>2. \A j \in 1..region'.num : readers'[j].pid \in th[q][u].dead =>
              j \in 1..region.num /\ readers'[j].pid = readers[j].pid
      <4>1. p \notin th[q][u].dead
        BY <1>5, ThreadFacts DEF CheckAt, StageOK, ClaimPcs
      <4> QED BY <1>1, <1>5, <4>1, ThreadFacts
    <3>3. th[q][u].dead \cap pidlock' = {}
      BY <1>5, ThreadFacts DEF CheckAt
    <3> QED BY <3>1, <3>2, <3>3, ThreadFacts, CheckFrame
  <2> QED BY <2>1, <2>2 DEF CheckInv
<1> QED BY <1>8, <1>9, <1>10, <1>11, <1>12, <1>13, <1>14, <1>15, <1>16, <1>17,
       <1>18, <1>19, <1>20 DEF IInv

\* Giving the mutex back with the slot claimed preserves the invariant.
LEMMA RdUnlockStep ==
    ASSUME IInv, NEW p \in Procs, NEW t \in Threads[p], RdUnlock(p, t)
    PROVE  IInv'
<1> USE SlotsAssumption DEF T, Idle, NoTxn
<1> PICK pc \in {"id", "unset"} :
        Move(p, t, [th[p][t] EXCEPT !.pc = pc, !.slot = th[p][t].r, !.r = 0])
  BY DEF RdUnlock
<1> DEFINE x == th[p][t]
           y == [x EXCEPT !.pc = pc, !.slot = x.r, !.r = 0]
<1>1. /\ ThType /\ TypeInv /\ region.num \in 0..Slots
      /\ x \in ThreadRecord /\ StageOK(x) /\ 0 \in 0..Slots
      /\ SlotAt(p, x, region.num, env[p].close, readers)
      /\ CheckAt(p, x, region.num, readers, pidlock)
  BY ThreadFacts DEF IInv, TypeInv, ThType
<1>2. y \in ThreadRecord
  BY <1>1 DEF ThreadRecord, ThreadPcs, TablePcs, CheckPcs
<1>3. Move(p, t, y)
  OBVIOUS
<1>4. /\ ThType'
      /\ th'[p][t] = y
      /\ \A q \in Procs : \A u \in Threads[q] : q # p \/ u # t => th'[q][u] = th[q][u]
  BY <1>1, <1>2, <1>3, MoveEffect
<1>5. /\ env[p].pc = "open"
      /\ x.pc = "unlock"
      /\ rmutex'.by = Nobody
      /\ rmutex' \in Mutexes
      /\ UNCHANGED <<region, readers, wmutex, flock, pidlock, metas, env, orphans, deaths>>
  BY <1>1 DEF RdUnlock, At, TypeInv, Mutexes, MayLock, Locked, Unlocked,
     Consistent
<1>6. /\ th'[p][t].pc = pc /\ th'[p][t].slot = x.r /\ th'[p][t].r = 0
      /\ th'[p][t].txn = x.txn /\ th'[p][t].i = x.i /\ th'[p][t].rdrs = x.rdrs
      /\ th'[p][t].pids = x.pids /\ th'[p][t].pid = x.pid
      /\ th'[p][t].then = x.then /\ th'[p][t].dead = x.dead
  BY <1>1, <1>4 DEF ThreadRecord, IdleThread, CheckFrom
<1>7. \A q \in Procs : \A u \in Threads[q] : q # p \/ u # t => th'[q][u] = th[q][u]
  BY <1>4
<1> HIDE DEF y
<1>8. TypeInv'
  BY <1>1, <1>4, <1>5 DEF TypeInv, Mutexes
<1>9. FileInv'
  BY <1>5 DEF IInv, FileInv
<1>10. ActiveInv'
  BY <1>5, <1>7 DEF IInv, ActiveInv
<1>11. StageInv'
  <2>1. StageOK(th'[p][t])
    BY <1>1, <1>5, <1>6 DEF StageOK, TablePcs, ClaimPcs, CheckPcs
  <2> QED BY <2>1, <1>7 DEF IInv, StageInv
<1>12. LiveInv'
  <2>1. \A q \in Procs : env'[q].live => q \in pidlock'
    BY <1>5 DEF IInv, LiveInv
  <2>2. NeedsLive(th'[p][t]) => NeedsLive(th[p][t])
    BY <1>1, <1>5, <1>6 DEF NeedsLive, StageOK, ClaimPcs
  <2> QED BY <2>1, <2>2, <1>5, <1>7 DEF IInv, LiveInv
<1>13. TableInv'
  <2>1. InTable(th[p][t]) /\ ~InTable(th'[p][t])
    BY <1>5, <1>6 DEF InTable, TablePcs
  <2>2. \A q \in Procs : \A u \in Threads[q] : ~InTable(th'[q][u])
    BY <2>1, <1>7 DEF IInv, TableInv
  <2> QED BY <2>2 DEF TableInv
<1>14. SlotInv'
  <2>1. SlotAt(p, th'[p][t], region'.num, env'[p].close, readers')
    BY <1>1, <1>5, <1>6 DEF SlotAt, StageOK, TablePcs, ClaimPcs, CheckPcs
  <2>2. ASSUME NEW q \in Procs, NEW u \in Threads[q], q # p \/ u # t
        PROVE  SlotAt(q, th'[q][u], region'.num, env'[q].close, readers')
    <3>1. th'[q][u] = th[q][u]
      BY <1>7, <2>2
    <3>2. /\ th[q][u].slot # 0 => readers'[th[q][u].slot] = readers[th[q][u].slot]
          /\ th[q][u].r # 0 => readers'[th[q][u].r] = readers[th[q][u].r]
      BY <1>5
    <3>3. /\ region'.num \in Int /\ region.num <= region'.num
          /\ env'[q].close \in Int /\ env[q].close <= env'[q].close
      BY <1>5, ThreadFacts
    <3> QED BY <3>1, <3>2, <3>3, ThreadFacts, SlotFrame
  <2> QED BY <2>1, <2>2 DEF SlotInv
<1>15. OwnInv'
  <2>1. \A q \in Procs : \A u \in Threads[q] : \A i \in 1..Slots :
            Owns(th'[q][u], i) => Owns(th[q][u], i)
    BY <1>5, <1>6, <1>7 DEF Owns
  <2> QED BY <2>1 DEF IInv, OwnInv
<1>16. CloseInv'
  BY <1>5 DEF IInv, CloseInv
<1>17. AccountInv'
  <2>1. \A q \in Procs : \A u \in Threads[q] : \A i \in 1..Slots :
            Owns(th[q][u], i) /\ readers'[i].pid # Nobody => Owns(th'[q][u], i)
    BY <1>1, <1>5, <1>6, <1>7 DEF Owns, StageOK, ClaimPcs
  <2>2. ASSUME NEW i \in 1..region'.num, i \notin orphans', readers'[i].pid # Nobody
        PROVE  i \in 1..region.num /\ i \notin orphans /\ readers'[i].pid = readers[i].pid
    BY <2>2, <1>1, <1>5
  <2>3. \A i \in 1..region.num : i \in 1..Slots /\ readers[i].pid \in Procs \cup {Nobody}
    BY <1>1 DEF TypeInv
  <2>4. ASSUME NEW i \in 1..region'.num, i \notin orphans', readers'[i].pid # Nobody, NEW q, q = readers'[i].pid
        PROVE  \/ env'[q].pc = "open" /\ \E u \in Threads[q] : Owns(th'[q][u], i)
               \/ env'[q].pc = "close" /\ i <= env'[q].close
    BY <2>1, <2>2, <2>3, <2>4, <1>5 DEF IInv, AccountInv
  <2> QED BY <2>4 DEF AccountInv
<1>18. WriterInv'
  <2>1. \A q \in Procs : \A u \in Threads[q] : Writing(th'[q][u]) => Writing(th[q][u])
    BY <1>5, <1>6, <1>7 DEF Writing
  <2> QED BY <2>1, <1>5 DEF IInv, WriterInv
<1>19. ~OpenBreaks => RegionInv'
  <2> SUFFICES ASSUME ~OpenBreaks PROVE RegionInv'
    OBVIOUS
  <2>1. Newest' = Newest /\ (InUse' => InUse)
    BY <1>5 DEF Newest, InUse
  <2>2. region'.txnid = region.txnid /\ wmutex' = wmutex
    BY <1>5
  <2>3. \A q \in Procs : \A u \in Threads[q] : CommitAt(th'[q][u], region'.txnid, Newest')
    BY <2>1, <2>2, <1>5, <1>6, <1>7 DEF IInv, RegionInv, CommitAt
  <2>4. \A q \in Procs : \A u \in Threads[q] : th[q][u].pc = "wrote" => th'[q][u].pc = "wrote"
    BY <1>5, <1>6, <1>7
  <2>5. Current => Current'
    BY <2>1, <2>2, <2>4 DEF Current
  <2> QED BY <2>1, <2>3, <2>5 DEF IInv, RegionInv
<1>20. CheckInv'
  <2>1. CheckAt(p, th'[p][t], region'.num, readers', pidlock')
    BY <1>1, <1>5, <1>6 DEF CheckAt, StageOK, TablePcs, ClaimPcs, CheckPcs
  <2>2. ASSUME NEW q \in Procs, NEW u \in Threads[q], q # p \/ u # t
        PROVE  CheckAt(q, th'[q][u], region'.num, readers', pidlock')
    <3>1. th'[q][u] = th[q][u]
      BY <1>7, <2>2
    <3>2. \A j \in 1..region'.num : readers'[j].pid \in th[q][u].dead =>
              j \in 1..region.num /\ readers'[j].pid = readers[j].pid
      BY <1>1, <1>5, ThreadFacts
    <3>3. th[q][u].dead \cap pidlock' = {}
      BY <1>5, ThreadFacts DEF CheckAt
    <3> QED BY <3>1, <3>2, <3>3, ThreadFacts, CheckFrame
  <2> QED BY <2>1, <2>2 DEF CheckInv
<1> QED BY <1>8, <1>9, <1>10, <1>11, <1>12, <1>13, <1>14, <1>15, <1>16, <1>17,
       <1>18, <1>19, <1>20 DEF IInv

\* Giving the slot back that the key did not take preserves the invariant.
LEMMA RdKeyFailsStep ==
    ASSUME IInv, NEW p \in Procs, NEW t \in Threads[p], RdKeyFails(p, t)
    PROVE  IInv'
<1> USE SlotsAssumption DEF T, Idle, NoTxn
<1> DEFINE x == th[p][t]
           y == IdleThread
<1>1. /\ ThType /\ TypeInv /\ region.num \in 0..Slots
      /\ x \in ThreadRecord /\ StageOK(x) /\ 0 \in 0..Slots
      /\ SlotAt(p, x, region.num, env[p].close, readers)
      /\ CheckAt(p, x, region.num, readers, pidlock)
  BY ThreadFacts DEF IInv, TypeInv, ThType
<1>2. y \in ThreadRecord
  BY <1>1, IdleIsThread
<1>3. Move(p, t, y)
  BY DEF RdKeyFails, Goto, Return
<1>4. /\ ThType'
      /\ th'[p][t] = y
      /\ \A q \in Procs : \A u \in Threads[q] : q # p \/ u # t => th'[q][u] = th[q][u]
  BY <1>1, <1>2, <1>3, MoveEffect
<1>5. /\ env[p].pc = "open"
      /\ x.pc = "unset"
      /\ x.slot \in 1..Slots
      /\ readers' \in [1..Slots -> [pid : Procs \cup {Nobody}, txnid : Nat \cup {NoTxn}]]
      /\ readers'[x.slot].pid = Nobody
      /\ \A i \in 1..Slots : i # x.slot => readers'[i] = readers[i]
      /\ orphans' = orphans \ {x.slot}
      /\ UNCHANGED <<region, rmutex, wmutex, flock, pidlock, metas, env, deaths>>
  <2>1. env[p].pc = "open" /\ x.pc = "unset"
    BY DEF RdKeyFails, At
  <2>2. x.slot \in 1..Slots /\ readers[x.slot] = [pid |-> p, txnid |-> x.txn]
    BY <1>1, <2>1 DEF RdKeyFails, SlotAt, StageOK, ClaimPcs, ThreadRecord
  <2>3. readers' = [i \in 1..Slots |-> IF i = x.slot THEN [readers[i] EXCEPT !.pid = Nobody] ELSE readers[i]]
    BY <2>2 DEF RdKeyFails, FreeSlots
  <2>4. \A i \in 1..Slots : [readers[i] EXCEPT !.pid = Nobody] \in
            [pid : {Nobody}, txnid : Nat \cup {NoTxn}]
    BY <1>1 DEF TypeInv
  <2>5. /\ readers' \in [1..Slots -> [pid : Procs \cup {Nobody}, txnid : Nat \cup {NoTxn}]]
        /\ readers'[x.slot].pid = Nobody
        /\ \A i \in 1..Slots : i # x.slot => readers'[i] = readers[i]
    BY <1>1, <2>2, <2>3, <2>4 DEF TypeInv
  <2>6. orphans' = orphans \ {x.slot}
    BY <2>2 DEF RdKeyFails, FreeSlots
  <2> QED BY <2>1, <2>2, <2>5, <2>6 DEF RdKeyFails
<1>6. /\ th'[p][t].pc = "idle" /\ th'[p][t].slot = 0 /\ th'[p][t].r = 0
      /\ th'[p][t].txn = -1 /\ th'[p][t].i = 0 /\ th'[p][t].rdrs = 0
      /\ th'[p][t].pids = {} /\ th'[p][t].pid = Nobody /\ th'[p][t].then = "idle"
      /\ th'[p][t].dead = {}
  BY <1>1, <1>4 DEF ThreadRecord, IdleThread, CheckFrom
<1>7. \A q \in Procs : \A u \in Threads[q] : q # p \/ u # t => th'[q][u] = th[q][u]
  BY <1>4
<1> HIDE DEF y
<1>8. TypeInv'
  BY <1>1, <1>4, <1>5 DEF TypeInv, Mutexes
<1>9. FileInv'
  BY <1>5 DEF IInv, FileInv
<1>10. ActiveInv'
  BY <1>5, <1>7 DEF IInv, ActiveInv
<1>11. StageInv'
  <2>1. StageOK(th'[p][t])
    BY <1>1, <1>5, <1>6 DEF StageOK, TablePcs, ClaimPcs, CheckPcs
  <2> QED BY <2>1, <1>7 DEF IInv, StageInv
<1>12. LiveInv'
  <2>1. \A q \in Procs : env'[q].live => q \in pidlock'
    BY <1>5 DEF IInv, LiveInv
  <2>2. NeedsLive(th'[p][t]) => NeedsLive(th[p][t])
    BY <1>1, <1>5, <1>6 DEF NeedsLive, StageOK, ClaimPcs
  <2> QED BY <2>1, <2>2, <1>5, <1>7 DEF IInv, LiveInv
<1>13. TableInv'
  <2>1. \A q \in Procs : \A u \in Threads[q] : InTable(th'[q][u]) => InTable(th[q][u])
    BY <1>5, <1>6, <1>7 DEF InTable, TablePcs
  <2> QED BY <2>1, <1>5 DEF IInv, TableInv
<1>14. SlotInv'
  <2>1. SlotAt(p, th'[p][t], region'.num, env'[p].close, readers')
    BY <1>1, <1>5, <1>6 DEF SlotAt, StageOK, TablePcs, ClaimPcs, CheckPcs
  <2>2. ASSUME NEW q \in Procs, NEW u \in Threads[q], q # p \/ u # t
        PROVE  SlotAt(q, th'[q][u], region'.num, env'[q].close, readers')
    <3>1. th'[q][u] = th[q][u]
      BY <1>7, <2>2
    <3>2. /\ th[q][u].slot # 0 => readers'[th[q][u].slot] = readers[th[q][u].slot]
          /\ th[q][u].r # 0 => readers'[th[q][u].r] = readers[th[q][u].r]
      <4>1. x.slot \in 1..Slots /\ Owns(x, x.slot)
        BY <1>1, <1>5 DEF Owns
      <4>2. ~Owns(th[q][u], x.slot)
        BY <2>2, <4>1 DEF IInv, OwnInv
      <4> QED BY <1>5, <4>2, ThreadFacts DEF Owns
    <3>3. /\ region'.num \in Int /\ region.num <= region'.num
          /\ env'[q].close \in Int /\ env[q].close <= env'[q].close
      BY <1>5, ThreadFacts
    <3> QED BY <3>1, <3>2, <3>3, ThreadFacts, SlotFrame
  <2> QED BY <2>1, <2>2 DEF SlotInv
<1>15. OwnInv'
  <2>1. \A q \in Procs : \A u \in Threads[q] : \A i \in 1..Slots :
            Owns(th'[q][u], i) => Owns(th[q][u], i)
    BY <1>5, <1>6, <1>7 DEF Owns
  <2> QED BY <2>1 DEF IInv, OwnInv
<1>16. CloseInv'
  BY <1>5 DEF IInv, CloseInv
<1>17. AccountInv'
  <2>1. \A q \in Procs : \A u \in Threads[q] : \A i \in 1..Slots :
            Owns(th[q][u], i) /\ readers'[i].pid # Nobody => Owns(th'[q][u], i)
    BY <1>1, <1>5, <1>6, <1>7 DEF Owns, StageOK, ClaimPcs
  <2>2. ASSUME NEW i \in 1..region'.num, i \notin orphans', readers'[i].pid # Nobody
        PROVE  i \in 1..region.num /\ i \notin orphans /\ readers'[i].pid = readers[i].pid
    BY <2>2, <1>1, <1>5
  <2>3. \A i \in 1..region.num : i \in 1..Slots /\ readers[i].pid \in Procs \cup {Nobody}
    BY <1>1 DEF TypeInv
  <2>4. ASSUME NEW i \in 1..region'.num, i \notin orphans', readers'[i].pid # Nobody, NEW q, q = readers'[i].pid
        PROVE  \/ env'[q].pc = "open" /\ \E u \in Threads[q] : Owns(th'[q][u], i)
               \/ env'[q].pc = "close" /\ i <= env'[q].close
    BY <2>1, <2>2, <2>3, <2>4, <1>5 DEF IInv, AccountInv
  <2> QED BY <2>4 DEF AccountInv
<1>18. WriterInv'
  <2>1. \A q \in Procs : \A u \in Threads[q] : Writing(th'[q][u]) => Writing(th[q][u])
    BY <1>5, <1>6, <1>7 DEF Writing
  <2> QED BY <2>1, <1>5 DEF IInv, WriterInv
<1>19. ~OpenBreaks => RegionInv'
  <2> SUFFICES ASSUME ~OpenBreaks PROVE RegionInv'
    OBVIOUS
  <2>1. Newest' = Newest /\ (InUse' => InUse)
    BY <1>5 DEF Newest, InUse
  <2>2. region'.txnid = region.txnid /\ wmutex' = wmutex
    BY <1>5
  <2>3. \A q \in Procs : \A u \in Threads[q] : CommitAt(th'[q][u], region'.txnid, Newest')
    BY <2>1, <2>2, <1>5, <1>6, <1>7 DEF IInv, RegionInv, CommitAt
  <2>4. \A q \in Procs : \A u \in Threads[q] : th[q][u].pc = "wrote" => th'[q][u].pc = "wrote"
    BY <1>5, <1>6, <1>7
  <2>5. Current => Current'
    BY <2>1, <2>2, <2>4 DEF Current
  <2> QED BY <2>1, <2>3, <2>5 DEF IInv, RegionInv
<1>20. CheckInv'
  <2>1. CheckAt(p, th'[p][t], region'.num, readers', pidlock')
    BY <1>1, <1>5, <1>6 DEF CheckAt, StageOK, TablePcs, ClaimPcs, CheckPcs
  <2>2. ASSUME NEW q \in Procs, NEW u \in Threads[q], q # p \/ u # t
        PROVE  CheckAt(q, th'[q][u], region'.num, readers', pidlock')
    <3>1. th'[q][u] = th[q][u]
      BY <1>7, <2>2
    <3>2. \A j \in 1..region'.num : readers'[j].pid \in th[q][u].dead =>
              j \in 1..region.num /\ readers'[j].pid = readers[j].pid
      BY <1>1, <1>5, ThreadFacts
    <3>3. th[q][u].dead \cap pidlock' = {}
      BY <1>5, ThreadFacts DEF CheckAt
    <3> QED BY <3>1, <3>2, <3>3, ThreadFacts, CheckFrame
  <2> QED BY <2>1, <2>2 DEF CheckInv
<1> QED BY <1>8, <1>9, <1>10, <1>11, <1>12, <1>13, <1>14, <1>15, <1>16, <1>17,
       <1>18, <1>19, <1>20 DEF IInv

\* Storing the id of the snapshot preserves the invariant.
LEMMA RdIdStep ==
    ASSUME IInv, NEW p \in Procs, NEW t \in Threads[p], RdId(p, t)
    PROVE  IInv'
<1> USE SlotsAssumption DEF T, Idle, NoTxn
<1> DEFINE x == th[p][t]
           y == [x EXCEPT !.pc = Idle, !.txn = region.txnid]
<1>1. /\ ThType /\ TypeInv /\ region.num \in 0..Slots
      /\ x \in ThreadRecord /\ StageOK(x) /\ 0 \in 0..Slots
      /\ SlotAt(p, x, region.num, env[p].close, readers)
      /\ CheckAt(p, x, region.num, readers, pidlock)
  BY ThreadFacts DEF IInv, TypeInv, ThType
<1>2. y \in ThreadRecord
  BY <1>1 DEF ThreadRecord, ThreadPcs, TablePcs, CheckPcs, TypeInv
<1>3. Move(p, t, y)
  BY DEF RdId, Goto, Return
<1>4. /\ ThType'
      /\ th'[p][t] = y
      /\ \A q \in Procs : \A u \in Threads[q] : q # p \/ u # t => th'[q][u] = th[q][u]
  BY <1>1, <1>2, <1>3, MoveEffect
<1>5. /\ env[p].pc = "open"
      /\ x.pc = "id"
      /\ x.slot \in 1..Slots
      /\ readers' \in [1..Slots -> [pid : Procs \cup {Nobody}, txnid : Nat \cup {NoTxn}]]
      /\ readers[x.slot].pid = p
      /\ readers'[x.slot] = [pid |-> p, txnid |-> region.txnid]
      /\ \A i \in 1..Slots : i # x.slot => readers'[i] = readers[i]
      /\ UNCHANGED <<region, rmutex, wmutex, flock, pidlock, metas, env, orphans, deaths>>
  <2>1. env[p].pc = "open" /\ x.pc = "id"
    BY DEF RdId, At
  <2>2. x.slot \in 1..Slots /\ readers[x.slot] = [pid |-> p, txnid |-> x.txn]
    BY <1>1, <2>1 DEF RdId, SlotAt, StageOK, ClaimPcs, ThreadRecord
  <2>3. readers' = [readers EXCEPT ![x.slot].txnid = region.txnid]
    BY <2>2 DEF RdId, FreeSlots
  <2> QED BY <1>1, <2>1, <2>2, <2>3 DEF RdId, TypeInv
<1>6. /\ th'[p][t].pc = "idle" /\ th'[p][t].slot = x.slot /\ th'[p][t].r = x.r
      /\ th'[p][t].txn = region.txnid /\ th'[p][t].i = x.i
      /\ th'[p][t].rdrs = x.rdrs /\ th'[p][t].pids = x.pids
      /\ th'[p][t].pid = x.pid /\ th'[p][t].then = x.then
      /\ th'[p][t].dead = x.dead
  BY <1>1, <1>4 DEF ThreadRecord, IdleThread, CheckFrom
<1>7. \A q \in Procs : \A u \in Threads[q] : q # p \/ u # t => th'[q][u] = th[q][u]
  BY <1>4
<1> HIDE DEF y
<1>8. TypeInv'
  BY <1>1, <1>4, <1>5 DEF TypeInv, Mutexes
<1>9. FileInv'
  BY <1>5 DEF IInv, FileInv
<1>10. ActiveInv'
  BY <1>5, <1>7 DEF IInv, ActiveInv
<1>11. StageInv'
  <2>1. StageOK(th'[p][t])
    BY <1>1, <1>5, <1>6 DEF StageOK, TablePcs, ClaimPcs, CheckPcs
  <2> QED BY <2>1, <1>7 DEF IInv, StageInv
<1>12. LiveInv'
  <2>1. \A q \in Procs : env'[q].live => q \in pidlock'
    BY <1>5 DEF IInv, LiveInv
  <2>2. NeedsLive(th'[p][t]) => NeedsLive(th[p][t])
    BY <1>1, <1>5, <1>6 DEF NeedsLive, StageOK, ClaimPcs
  <2> QED BY <2>1, <2>2, <1>5, <1>7 DEF IInv, LiveInv
<1>13. TableInv'
  <2>1. \A q \in Procs : \A u \in Threads[q] : InTable(th'[q][u]) => InTable(th[q][u])
    BY <1>5, <1>6, <1>7 DEF InTable, TablePcs
  <2> QED BY <2>1, <1>5 DEF IInv, TableInv
<1>14. SlotInv'
  <2>1. SlotAt(p, th'[p][t], region'.num, env'[p].close, readers')
    BY <1>1, <1>5, <1>6 DEF SlotAt, StageOK, TablePcs, ClaimPcs, CheckPcs
  <2>2. ASSUME NEW q \in Procs, NEW u \in Threads[q], q # p \/ u # t
        PROVE  SlotAt(q, th'[q][u], region'.num, env'[q].close, readers')
    <3>1. th'[q][u] = th[q][u]
      BY <1>7, <2>2
    <3>2. /\ th[q][u].slot # 0 => readers'[th[q][u].slot] = readers[th[q][u].slot]
          /\ th[q][u].r # 0 => readers'[th[q][u].r] = readers[th[q][u].r]
      <4>1. x.slot \in 1..Slots /\ Owns(x, x.slot)
        BY <1>1, <1>5 DEF Owns
      <4>2. ~Owns(th[q][u], x.slot)
        BY <2>2, <4>1 DEF IInv, OwnInv
      <4> QED BY <1>5, <4>2, ThreadFacts DEF Owns
    <3>3. /\ region'.num \in Int /\ region.num <= region'.num
          /\ env'[q].close \in Int /\ env[q].close <= env'[q].close
      BY <1>5, ThreadFacts
    <3> QED BY <3>1, <3>2, <3>3, ThreadFacts, SlotFrame
  <2> QED BY <2>1, <2>2 DEF SlotInv
<1>15. OwnInv'
  <2>1. \A q \in Procs : \A u \in Threads[q] : \A i \in 1..Slots :
            Owns(th'[q][u], i) => Owns(th[q][u], i)
    BY <1>5, <1>6, <1>7 DEF Owns
  <2> QED BY <2>1 DEF IInv, OwnInv
<1>16. CloseInv'
  BY <1>5 DEF IInv, CloseInv
<1>17. AccountInv'
  <2>1. \A q \in Procs : \A u \in Threads[q] : \A i \in 1..Slots :
            Owns(th[q][u], i) /\ readers'[i].pid # Nobody => Owns(th'[q][u], i)
    BY <1>1, <1>5, <1>6, <1>7 DEF Owns, StageOK, ClaimPcs
  <2>2. ASSUME NEW i \in 1..region'.num, i \notin orphans', readers'[i].pid # Nobody
        PROVE  i \in 1..region.num /\ i \notin orphans /\ readers'[i].pid = readers[i].pid
    BY <2>2, <1>1, <1>5
  <2>3. \A i \in 1..region.num : i \in 1..Slots /\ readers[i].pid \in Procs \cup {Nobody}
    BY <1>1 DEF TypeInv
  <2>4. ASSUME NEW i \in 1..region'.num, i \notin orphans', readers'[i].pid # Nobody, NEW q, q = readers'[i].pid
        PROVE  \/ env'[q].pc = "open" /\ \E u \in Threads[q] : Owns(th'[q][u], i)
               \/ env'[q].pc = "close" /\ i <= env'[q].close
    BY <2>1, <2>2, <2>3, <2>4, <1>5 DEF IInv, AccountInv
  <2> QED BY <2>4 DEF AccountInv
<1>18. WriterInv'
  <2>1. \A q \in Procs : \A u \in Threads[q] : Writing(th'[q][u]) => Writing(th[q][u])
    BY <1>5, <1>6, <1>7 DEF Writing
  <2> QED BY <2>1, <1>5 DEF IInv, WriterInv
<1>19. ~OpenBreaks => RegionInv'
  <2> SUFFICES ASSUME ~OpenBreaks PROVE RegionInv'
    OBVIOUS
  <2>1. Newest' = Newest /\ (InUse' => InUse)
    BY <1>5 DEF Newest, InUse
  <2>2. region'.txnid = region.txnid /\ wmutex' = wmutex
    BY <1>5
  <2>3. \A q \in Procs : \A u \in Threads[q] : CommitAt(th'[q][u], region'.txnid, Newest')
    BY <2>1, <2>2, <1>5, <1>6, <1>7 DEF IInv, RegionInv, CommitAt
  <2>4. \A q \in Procs : \A u \in Threads[q] : th[q][u].pc = "wrote" => th'[q][u].pc = "wrote"
    BY <1>5, <1>6, <1>7
  <2>5. Current => Current'
    BY <2>1, <2>2, <2>4 DEF Current
  <2> QED BY <2>1, <2>3, <2>5 DEF IInv, RegionInv
<1>20. CheckInv'
  <2>1. CheckAt(p, th'[p][t], region'.num, readers', pidlock')
    BY <1>1, <1>5, <1>6 DEF CheckAt, StageOK, TablePcs, ClaimPcs, CheckPcs
  <2>2. ASSUME NEW q \in Procs, NEW u \in Threads[q], q # p \/ u # t
        PROVE  CheckAt(q, th'[q][u], region'.num, readers', pidlock')
    <3>1. th'[q][u] = th[q][u]
      BY <1>7, <2>2
    <3>2. \A j \in 1..region'.num : readers'[j].pid \in th[q][u].dead =>
              j \in 1..region.num /\ readers'[j].pid = readers[j].pid
      BY <1>1, <1>5, ThreadFacts
    <3>3. th[q][u].dead \cap pidlock' = {}
      BY <1>5, ThreadFacts DEF CheckAt
    <3> QED BY <3>1, <3>2, <3>3, ThreadFacts, CheckFrame
  <2> QED BY <2>1, <2>2 DEF CheckInv
<1> QED BY <1>8, <1>9, <1>10, <1>11, <1>12, <1>13, <1>14, <1>15, <1>16, <1>17,
       <1>18, <1>19, <1>20 DEF IInv

\* Ending or resetting a read transaction preserves the invariant.
LEMMA RdResetStep ==
    ASSUME IInv, NEW p \in Procs, NEW t \in Threads[p], RdReset(p, t)
    PROVE  IInv'
<1> USE SlotsAssumption DEF T, Idle, NoTxn
<1> DEFINE x == th[p][t]
           y == [x EXCEPT !.txn = NoTxn]
<1>1. /\ ThType /\ TypeInv /\ region.num \in 0..Slots
      /\ x \in ThreadRecord /\ StageOK(x) /\ 0 \in 0..Slots
      /\ SlotAt(p, x, region.num, env[p].close, readers)
      /\ CheckAt(p, x, region.num, readers, pidlock)
  BY ThreadFacts DEF IInv, TypeInv, ThType
<1>2. y \in ThreadRecord
  BY <1>1 DEF ThreadRecord, ThreadPcs, TablePcs, CheckPcs
<1>3. Move(p, t, y)
  BY DEF RdReset, Goto, Return
<1>4. /\ ThType'
      /\ th'[p][t] = y
      /\ \A q \in Procs : \A u \in Threads[q] : q # p \/ u # t => th'[q][u] = th[q][u]
  BY <1>1, <1>2, <1>3, MoveEffect
<1>5. /\ env[p].pc = "open"
      /\ x.pc = "idle"
      /\ x.txn # NoTxn
      /\ x.slot \in 1..Slots
      /\ readers' \in [1..Slots -> [pid : Procs \cup {Nobody}, txnid : Nat \cup {NoTxn}]]
      /\ readers[x.slot].pid = p
      /\ readers'[x.slot] = [pid |-> p, txnid |-> NoTxn]
      /\ \A i \in 1..Slots : i # x.slot => readers'[i] = readers[i]
      /\ UNCHANGED <<region, rmutex, wmutex, flock, pidlock, metas, env, orphans, deaths>>
  <2>1. env[p].pc = "open" /\ x.pc = "idle" /\ x.txn # NoTxn
    BY DEF RdReset, At
  <2>2. x.slot \in 1..Slots /\ readers[x.slot] = [pid |-> p, txnid |-> x.txn]
    BY <1>1, <2>1 DEF RdReset, SlotAt, StageOK, ClaimPcs, ThreadRecord
  <2>3. readers' = [readers EXCEPT ![x.slot].txnid = NoTxn]
    BY <2>2 DEF RdReset, FreeSlots
  <2> QED BY <1>1, <2>1, <2>2, <2>3 DEF RdReset, TypeInv
<1>6. /\ th'[p][t].pc = x.pc /\ th'[p][t].slot = x.slot /\ th'[p][t].r = x.r
      /\ th'[p][t].txn = NoTxn /\ th'[p][t].i = x.i /\ th'[p][t].rdrs = x.rdrs
      /\ th'[p][t].pids = x.pids /\ th'[p][t].pid = x.pid
      /\ th'[p][t].then = x.then /\ th'[p][t].dead = x.dead
  BY <1>1, <1>4 DEF ThreadRecord, IdleThread, CheckFrom
<1>7. \A q \in Procs : \A u \in Threads[q] : q # p \/ u # t => th'[q][u] = th[q][u]
  BY <1>4
<1> HIDE DEF y
<1>8. TypeInv'
  BY <1>1, <1>4, <1>5 DEF TypeInv, Mutexes
<1>9. FileInv'
  BY <1>5 DEF IInv, FileInv
<1>10. ActiveInv'
  BY <1>5, <1>7 DEF IInv, ActiveInv
<1>11. StageInv'
  <2>1. StageOK(th'[p][t])
    BY <1>1, <1>5, <1>6 DEF StageOK, TablePcs, ClaimPcs, CheckPcs
  <2> QED BY <2>1, <1>7 DEF IInv, StageInv
<1>12. LiveInv'
  <2>1. \A q \in Procs : env'[q].live => q \in pidlock'
    BY <1>5 DEF IInv, LiveInv
  <2>2. NeedsLive(th'[p][t]) => NeedsLive(th[p][t])
    BY <1>1, <1>5, <1>6 DEF NeedsLive, StageOK, ClaimPcs
  <2> QED BY <2>1, <2>2, <1>5, <1>7 DEF IInv, LiveInv
<1>13. TableInv'
  <2>1. \A q \in Procs : \A u \in Threads[q] : InTable(th'[q][u]) => InTable(th[q][u])
    BY <1>5, <1>6, <1>7 DEF InTable, TablePcs
  <2> QED BY <2>1, <1>5 DEF IInv, TableInv
<1>14. SlotInv'
  <2>1. SlotAt(p, th'[p][t], region'.num, env'[p].close, readers')
    BY <1>1, <1>5, <1>6 DEF SlotAt, StageOK, TablePcs, ClaimPcs, CheckPcs
  <2>2. ASSUME NEW q \in Procs, NEW u \in Threads[q], q # p \/ u # t
        PROVE  SlotAt(q, th'[q][u], region'.num, env'[q].close, readers')
    <3>1. th'[q][u] = th[q][u]
      BY <1>7, <2>2
    <3>2. /\ th[q][u].slot # 0 => readers'[th[q][u].slot] = readers[th[q][u].slot]
          /\ th[q][u].r # 0 => readers'[th[q][u].r] = readers[th[q][u].r]
      <4>1. x.slot \in 1..Slots /\ Owns(x, x.slot)
        BY <1>1, <1>5 DEF Owns
      <4>2. ~Owns(th[q][u], x.slot)
        BY <2>2, <4>1 DEF IInv, OwnInv
      <4> QED BY <1>5, <4>2, ThreadFacts DEF Owns
    <3>3. /\ region'.num \in Int /\ region.num <= region'.num
          /\ env'[q].close \in Int /\ env[q].close <= env'[q].close
      BY <1>5, ThreadFacts
    <3> QED BY <3>1, <3>2, <3>3, ThreadFacts, SlotFrame
  <2> QED BY <2>1, <2>2 DEF SlotInv
<1>15. OwnInv'
  <2>1. \A q \in Procs : \A u \in Threads[q] : \A i \in 1..Slots :
            Owns(th'[q][u], i) => Owns(th[q][u], i)
    BY <1>5, <1>6, <1>7 DEF Owns
  <2> QED BY <2>1 DEF IInv, OwnInv
<1>16. CloseInv'
  BY <1>5 DEF IInv, CloseInv
<1>17. AccountInv'
  <2>1. \A q \in Procs : \A u \in Threads[q] : \A i \in 1..Slots :
            Owns(th[q][u], i) /\ readers'[i].pid # Nobody => Owns(th'[q][u], i)
    BY <1>1, <1>5, <1>6, <1>7 DEF Owns, StageOK, ClaimPcs
  <2>2. ASSUME NEW i \in 1..region'.num, i \notin orphans', readers'[i].pid # Nobody
        PROVE  i \in 1..region.num /\ i \notin orphans /\ readers'[i].pid = readers[i].pid
    BY <2>2, <1>1, <1>5
  <2>3. \A i \in 1..region.num : i \in 1..Slots /\ readers[i].pid \in Procs \cup {Nobody}
    BY <1>1 DEF TypeInv
  <2>4. ASSUME NEW i \in 1..region'.num, i \notin orphans', readers'[i].pid # Nobody, NEW q, q = readers'[i].pid
        PROVE  \/ env'[q].pc = "open" /\ \E u \in Threads[q] : Owns(th'[q][u], i)
               \/ env'[q].pc = "close" /\ i <= env'[q].close
    BY <2>1, <2>2, <2>3, <2>4, <1>5 DEF IInv, AccountInv
  <2> QED BY <2>4 DEF AccountInv
<1>18. WriterInv'
  <2>1. \A q \in Procs : \A u \in Threads[q] : Writing(th'[q][u]) => Writing(th[q][u])
    BY <1>5, <1>6, <1>7 DEF Writing
  <2> QED BY <2>1, <1>5 DEF IInv, WriterInv
<1>19. ~OpenBreaks => RegionInv'
  <2> SUFFICES ASSUME ~OpenBreaks PROVE RegionInv'
    OBVIOUS
  <2>1. Newest' = Newest /\ (InUse' => InUse)
    BY <1>5 DEF Newest, InUse
  <2>2. region'.txnid = region.txnid /\ wmutex' = wmutex
    BY <1>5
  <2>3. \A q \in Procs : \A u \in Threads[q] : CommitAt(th'[q][u], region'.txnid, Newest')
    BY <2>1, <2>2, <1>5, <1>6, <1>7 DEF IInv, RegionInv, CommitAt
  <2>4. \A q \in Procs : \A u \in Threads[q] : th[q][u].pc = "wrote" => th'[q][u].pc = "wrote"
    BY <1>5, <1>6, <1>7
  <2>5. Current => Current'
    BY <2>1, <2>2, <2>4 DEF Current
  <2> QED BY <2>1, <2>3, <2>5 DEF IInv, RegionInv
<1>20. CheckInv'
  <2>1. CheckAt(p, th'[p][t], region'.num, readers', pidlock')
    BY <1>1, <1>5, <1>6 DEF CheckAt, StageOK, TablePcs, ClaimPcs, CheckPcs
  <2>2. ASSUME NEW q \in Procs, NEW u \in Threads[q], q # p \/ u # t
        PROVE  CheckAt(q, th'[q][u], region'.num, readers', pidlock')
    <3>1. th'[q][u] = th[q][u]
      BY <1>7, <2>2
    <3>2. \A j \in 1..region'.num : readers'[j].pid \in th[q][u].dead =>
              j \in 1..region.num /\ readers'[j].pid = readers[j].pid
      BY <1>1, <1>5, ThreadFacts
    <3>3. th[q][u].dead \cap pidlock' = {}
      BY <1>5, ThreadFacts DEF CheckAt
    <3> QED BY <3>1, <3>2, <3>3, ThreadFacts, CheckFrame
  <2> QED BY <2>1, <2>2 DEF CheckInv
<1> QED BY <1>8, <1>9, <1>10, <1>11, <1>12, <1>13, <1>14, <1>15, <1>16, <1>17,
       <1>18, <1>19, <1>20 DEF IInv

\* Ending a transaction together with its slot preserves the invariant.
LEMMA RdAbortStep ==
    ASSUME IInv, NEW p \in Procs, NEW t \in Threads[p], RdAbort(p, t)
    PROVE  IInv'
<1> USE SlotsAssumption DEF T, Idle, NoTxn
<1> DEFINE x == th[p][t]
           y == IdleThread
<1>1. /\ ThType /\ TypeInv /\ region.num \in 0..Slots
      /\ x \in ThreadRecord /\ StageOK(x) /\ 0 \in 0..Slots
      /\ SlotAt(p, x, region.num, env[p].close, readers)
      /\ CheckAt(p, x, region.num, readers, pidlock)
  BY ThreadFacts DEF IInv, TypeInv, ThType
<1>2. y \in ThreadRecord
  BY <1>1, IdleIsThread
<1>3. Move(p, t, y)
  BY DEF RdAbort, Goto, Return
<1>4. /\ ThType'
      /\ th'[p][t] = y
      /\ \A q \in Procs : \A u \in Threads[q] : q # p \/ u # t => th'[q][u] = th[q][u]
  BY <1>1, <1>2, <1>3, MoveEffect
<1>5. /\ env[p].pc = "open"
      /\ x.pc = "idle"
      /\ x.slot \in 1..Slots
      /\ readers' \in [1..Slots -> [pid : Procs \cup {Nobody}, txnid : Nat \cup {NoTxn}]]
      /\ readers'[x.slot] = [pid |-> Nobody, txnid |-> NoTxn]
      /\ \A i \in 1..Slots : i # x.slot => readers'[i] = readers[i]
      /\ UNCHANGED <<region, rmutex, wmutex, flock, pidlock, metas, env, orphans, deaths>>
  <2>1. env[p].pc = "open" /\ x.pc = "idle"
    BY DEF RdAbort, At
  <2>2. x.slot \in 1..Slots /\ readers[x.slot] = [pid |-> p, txnid |-> x.txn]
    BY <1>1, <2>1 DEF RdAbort, SlotAt, StageOK, ClaimPcs, ThreadRecord
  <2>3. readers' = [readers EXCEPT ![x.slot] = [pid |-> Nobody, txnid |-> NoTxn]]
    BY <2>2 DEF RdAbort, FreeSlots
  <2> QED BY <1>1, <2>1, <2>2, <2>3 DEF RdAbort, TypeInv
<1>6. /\ th'[p][t].pc = "idle" /\ th'[p][t].slot = 0 /\ th'[p][t].r = 0
      /\ th'[p][t].txn = -1 /\ th'[p][t].i = 0 /\ th'[p][t].rdrs = 0
      /\ th'[p][t].pids = {} /\ th'[p][t].pid = Nobody /\ th'[p][t].then = "idle"
      /\ th'[p][t].dead = {}
  BY <1>1, <1>4 DEF ThreadRecord, IdleThread, CheckFrom
<1>7. \A q \in Procs : \A u \in Threads[q] : q # p \/ u # t => th'[q][u] = th[q][u]
  BY <1>4
<1> HIDE DEF y
<1>8. TypeInv'
  BY <1>1, <1>4, <1>5 DEF TypeInv, Mutexes
<1>9. FileInv'
  BY <1>5 DEF IInv, FileInv
<1>10. ActiveInv'
  BY <1>5, <1>7 DEF IInv, ActiveInv
<1>11. StageInv'
  <2>1. StageOK(th'[p][t])
    BY <1>1, <1>5, <1>6 DEF StageOK, TablePcs, ClaimPcs, CheckPcs
  <2> QED BY <2>1, <1>7 DEF IInv, StageInv
<1>12. LiveInv'
  <2>1. \A q \in Procs : env'[q].live => q \in pidlock'
    BY <1>5 DEF IInv, LiveInv
  <2>2. NeedsLive(th'[p][t]) => NeedsLive(th[p][t])
    BY <1>1, <1>5, <1>6 DEF NeedsLive, StageOK, ClaimPcs
  <2> QED BY <2>1, <2>2, <1>5, <1>7 DEF IInv, LiveInv
<1>13. TableInv'
  <2>1. \A q \in Procs : \A u \in Threads[q] : InTable(th'[q][u]) => InTable(th[q][u])
    BY <1>5, <1>6, <1>7 DEF InTable, TablePcs
  <2> QED BY <2>1, <1>5 DEF IInv, TableInv
<1>14. SlotInv'
  <2>1. SlotAt(p, th'[p][t], region'.num, env'[p].close, readers')
    BY <1>1, <1>5, <1>6 DEF SlotAt, StageOK, TablePcs, ClaimPcs, CheckPcs
  <2>2. ASSUME NEW q \in Procs, NEW u \in Threads[q], q # p \/ u # t
        PROVE  SlotAt(q, th'[q][u], region'.num, env'[q].close, readers')
    <3>1. th'[q][u] = th[q][u]
      BY <1>7, <2>2
    <3>2. /\ th[q][u].slot # 0 => readers'[th[q][u].slot] = readers[th[q][u].slot]
          /\ th[q][u].r # 0 => readers'[th[q][u].r] = readers[th[q][u].r]
      <4>1. x.slot \in 1..Slots /\ Owns(x, x.slot)
        BY <1>1, <1>5 DEF Owns
      <4>2. ~Owns(th[q][u], x.slot)
        BY <2>2, <4>1 DEF IInv, OwnInv
      <4> QED BY <1>5, <4>2, ThreadFacts DEF Owns
    <3>3. /\ region'.num \in Int /\ region.num <= region'.num
          /\ env'[q].close \in Int /\ env[q].close <= env'[q].close
      BY <1>5, ThreadFacts
    <3> QED BY <3>1, <3>2, <3>3, ThreadFacts, SlotFrame
  <2> QED BY <2>1, <2>2 DEF SlotInv
<1>15. OwnInv'
  <2>1. \A q \in Procs : \A u \in Threads[q] : \A i \in 1..Slots :
            Owns(th'[q][u], i) => Owns(th[q][u], i)
    BY <1>5, <1>6, <1>7 DEF Owns
  <2> QED BY <2>1 DEF IInv, OwnInv
<1>16. CloseInv'
  BY <1>5 DEF IInv, CloseInv
<1>17. AccountInv'
  <2>1. \A q \in Procs : \A u \in Threads[q] : \A i \in 1..Slots :
            Owns(th[q][u], i) /\ readers'[i].pid # Nobody => Owns(th'[q][u], i)
    BY <1>1, <1>5, <1>6, <1>7 DEF Owns, StageOK, ClaimPcs
  <2>2. ASSUME NEW i \in 1..region'.num, i \notin orphans', readers'[i].pid # Nobody
        PROVE  i \in 1..region.num /\ i \notin orphans /\ readers'[i].pid = readers[i].pid
    BY <2>2, <1>1, <1>5
  <2>3. \A i \in 1..region.num : i \in 1..Slots /\ readers[i].pid \in Procs \cup {Nobody}
    BY <1>1 DEF TypeInv
  <2>4. ASSUME NEW i \in 1..region'.num, i \notin orphans', readers'[i].pid # Nobody, NEW q, q = readers'[i].pid
        PROVE  \/ env'[q].pc = "open" /\ \E u \in Threads[q] : Owns(th'[q][u], i)
               \/ env'[q].pc = "close" /\ i <= env'[q].close
    BY <2>1, <2>2, <2>3, <2>4, <1>5 DEF IInv, AccountInv
  <2> QED BY <2>4 DEF AccountInv
<1>18. WriterInv'
  <2>1. \A q \in Procs : \A u \in Threads[q] : Writing(th'[q][u]) => Writing(th[q][u])
    BY <1>5, <1>6, <1>7 DEF Writing
  <2> QED BY <2>1, <1>5 DEF IInv, WriterInv
<1>19. ~OpenBreaks => RegionInv'
  <2> SUFFICES ASSUME ~OpenBreaks PROVE RegionInv'
    OBVIOUS
  <2>1. Newest' = Newest /\ (InUse' => InUse)
    BY <1>5 DEF Newest, InUse
  <2>2. region'.txnid = region.txnid /\ wmutex' = wmutex
    BY <1>5
  <2>3. \A q \in Procs : \A u \in Threads[q] : CommitAt(th'[q][u], region'.txnid, Newest')
    BY <2>1, <2>2, <1>5, <1>6, <1>7 DEF IInv, RegionInv, CommitAt
  <2>4. \A q \in Procs : \A u \in Threads[q] : th[q][u].pc = "wrote" => th'[q][u].pc = "wrote"
    BY <1>5, <1>6, <1>7
  <2>5. Current => Current'
    BY <2>1, <2>2, <2>4 DEF Current
  <2> QED BY <2>1, <2>3, <2>5 DEF IInv, RegionInv
<1>20. CheckInv'
  <2>1. CheckAt(p, th'[p][t], region'.num, readers', pidlock')
    BY <1>1, <1>5, <1>6 DEF CheckAt, StageOK, TablePcs, ClaimPcs, CheckPcs
  <2>2. ASSUME NEW q \in Procs, NEW u \in Threads[q], q # p \/ u # t
        PROVE  CheckAt(q, th'[q][u], region'.num, readers', pidlock')
    <3>1. th'[q][u] = th[q][u]
      BY <1>7, <2>2
    <3>2. \A j \in 1..region'.num : readers'[j].pid \in th[q][u].dead =>
              j \in 1..region.num /\ readers'[j].pid = readers[j].pid
      BY <1>1, <1>5, ThreadFacts
    <3>3. th[q][u].dead \cap pidlock' = {}
      BY <1>5, ThreadFacts DEF CheckAt
    <3> QED BY <3>1, <3>2, <3>3, ThreadFacts, CheckFrame
  <2> QED BY <2>1, <2>2 DEF CheckInv
<1> QED BY <1>8, <1>9, <1>10, <1>11, <1>12, <1>13, <1>14, <1>15, <1>16, <1>17,
       <1>18, <1>19, <1>20 DEF IInv

\* The destructor of the key gives the slot back: the invariant is preserved.
LEMMA ThreadExitStep ==
    ASSUME IInv, NEW p \in Procs, NEW t \in Threads[p], ThreadExit(p, t)
    PROVE  IInv'
<1> USE SlotsAssumption DEF T, Idle, NoTxn
<1> DEFINE x == th[p][t]
           y == IdleThread
<1>1. /\ ThType /\ TypeInv /\ region.num \in 0..Slots
      /\ x \in ThreadRecord /\ StageOK(x) /\ 0 \in 0..Slots
      /\ SlotAt(p, x, region.num, env[p].close, readers)
      /\ CheckAt(p, x, region.num, readers, pidlock)
  BY ThreadFacts DEF IInv, TypeInv, ThType
<1>2. y \in ThreadRecord
  BY <1>1, IdleIsThread
<1>3. Move(p, t, y)
  BY DEF ThreadExit, Goto, Return
<1>4. /\ ThType'
      /\ th'[p][t] = y
      /\ \A q \in Procs : \A u \in Threads[q] : q # p \/ u # t => th'[q][u] = th[q][u]
  BY <1>1, <1>2, <1>3, MoveEffect
<1>5. /\ env[p].pc = "open"
      /\ x.pc = "idle"
      /\ x.slot \in 1..Slots
      /\ readers' \in [1..Slots -> [pid : Procs \cup {Nobody}, txnid : Nat \cup {NoTxn}]]
      /\ readers'[x.slot].pid = Nobody
      /\ \A i \in 1..Slots : i # x.slot => readers'[i] = readers[i]
      /\ orphans' = orphans \ {x.slot}
      /\ UNCHANGED <<region, rmutex, wmutex, flock, pidlock, metas, env, deaths>>
  <2>1. env[p].pc = "open" /\ x.pc = "idle"
    BY DEF ThreadExit, At
  <2>2. x.slot \in 1..Slots /\ readers[x.slot] = [pid |-> p, txnid |-> x.txn]
    BY <1>1, <2>1 DEF ThreadExit, SlotAt, StageOK, ClaimPcs, ThreadRecord
  <2>3. readers' = [i \in 1..Slots |-> IF i = x.slot THEN [readers[i] EXCEPT !.pid = Nobody] ELSE readers[i]]
    BY <2>2 DEF ThreadExit, FreeSlots
  <2>4. \A i \in 1..Slots : [readers[i] EXCEPT !.pid = Nobody] \in
            [pid : {Nobody}, txnid : Nat \cup {NoTxn}]
    BY <1>1 DEF TypeInv
  <2>5. /\ readers' \in [1..Slots -> [pid : Procs \cup {Nobody}, txnid : Nat \cup {NoTxn}]]
        /\ readers'[x.slot].pid = Nobody
        /\ \A i \in 1..Slots : i # x.slot => readers'[i] = readers[i]
    BY <1>1, <2>2, <2>3, <2>4 DEF TypeInv
  <2>6. orphans' = orphans \ {x.slot}
    BY <2>2 DEF ThreadExit, FreeSlots
  <2> QED BY <2>1, <2>2, <2>5, <2>6 DEF ThreadExit
<1>6. /\ th'[p][t].pc = "idle" /\ th'[p][t].slot = 0 /\ th'[p][t].r = 0
      /\ th'[p][t].txn = -1 /\ th'[p][t].i = 0 /\ th'[p][t].rdrs = 0
      /\ th'[p][t].pids = {} /\ th'[p][t].pid = Nobody /\ th'[p][t].then = "idle"
      /\ th'[p][t].dead = {}
  BY <1>1, <1>4 DEF ThreadRecord, IdleThread, CheckFrom
<1>7. \A q \in Procs : \A u \in Threads[q] : q # p \/ u # t => th'[q][u] = th[q][u]
  BY <1>4
<1> HIDE DEF y
<1>8. TypeInv'
  BY <1>1, <1>4, <1>5 DEF TypeInv, Mutexes
<1>9. FileInv'
  BY <1>5 DEF IInv, FileInv
<1>10. ActiveInv'
  BY <1>5, <1>7 DEF IInv, ActiveInv
<1>11. StageInv'
  <2>1. StageOK(th'[p][t])
    BY <1>1, <1>5, <1>6 DEF StageOK, TablePcs, ClaimPcs, CheckPcs
  <2> QED BY <2>1, <1>7 DEF IInv, StageInv
<1>12. LiveInv'
  <2>1. \A q \in Procs : env'[q].live => q \in pidlock'
    BY <1>5 DEF IInv, LiveInv
  <2>2. NeedsLive(th'[p][t]) => NeedsLive(th[p][t])
    BY <1>1, <1>5, <1>6 DEF NeedsLive, StageOK, ClaimPcs
  <2> QED BY <2>1, <2>2, <1>5, <1>7 DEF IInv, LiveInv
<1>13. TableInv'
  <2>1. \A q \in Procs : \A u \in Threads[q] : InTable(th'[q][u]) => InTable(th[q][u])
    BY <1>5, <1>6, <1>7 DEF InTable, TablePcs
  <2> QED BY <2>1, <1>5 DEF IInv, TableInv
<1>14. SlotInv'
  <2>1. SlotAt(p, th'[p][t], region'.num, env'[p].close, readers')
    BY <1>1, <1>5, <1>6 DEF SlotAt, StageOK, TablePcs, ClaimPcs, CheckPcs
  <2>2. ASSUME NEW q \in Procs, NEW u \in Threads[q], q # p \/ u # t
        PROVE  SlotAt(q, th'[q][u], region'.num, env'[q].close, readers')
    <3>1. th'[q][u] = th[q][u]
      BY <1>7, <2>2
    <3>2. /\ th[q][u].slot # 0 => readers'[th[q][u].slot] = readers[th[q][u].slot]
          /\ th[q][u].r # 0 => readers'[th[q][u].r] = readers[th[q][u].r]
      <4>1. x.slot \in 1..Slots /\ Owns(x, x.slot)
        BY <1>1, <1>5 DEF Owns
      <4>2. ~Owns(th[q][u], x.slot)
        BY <2>2, <4>1 DEF IInv, OwnInv
      <4> QED BY <1>5, <4>2, ThreadFacts DEF Owns
    <3>3. /\ region'.num \in Int /\ region.num <= region'.num
          /\ env'[q].close \in Int /\ env[q].close <= env'[q].close
      BY <1>5, ThreadFacts
    <3> QED BY <3>1, <3>2, <3>3, ThreadFacts, SlotFrame
  <2> QED BY <2>1, <2>2 DEF SlotInv
<1>15. OwnInv'
  <2>1. \A q \in Procs : \A u \in Threads[q] : \A i \in 1..Slots :
            Owns(th'[q][u], i) => Owns(th[q][u], i)
    BY <1>5, <1>6, <1>7 DEF Owns
  <2> QED BY <2>1 DEF IInv, OwnInv
<1>16. CloseInv'
  BY <1>5 DEF IInv, CloseInv
<1>17. AccountInv'
  <2>1. \A q \in Procs : \A u \in Threads[q] : \A i \in 1..Slots :
            Owns(th[q][u], i) /\ readers'[i].pid # Nobody => Owns(th'[q][u], i)
    BY <1>1, <1>5, <1>6, <1>7 DEF Owns, StageOK, ClaimPcs
  <2>2. ASSUME NEW i \in 1..region'.num, i \notin orphans', readers'[i].pid # Nobody
        PROVE  i \in 1..region.num /\ i \notin orphans /\ readers'[i].pid = readers[i].pid
    BY <2>2, <1>1, <1>5
  <2>3. \A i \in 1..region.num : i \in 1..Slots /\ readers[i].pid \in Procs \cup {Nobody}
    BY <1>1 DEF TypeInv
  <2>4. ASSUME NEW i \in 1..region'.num, i \notin orphans', readers'[i].pid # Nobody, NEW q, q = readers'[i].pid
        PROVE  \/ env'[q].pc = "open" /\ \E u \in Threads[q] : Owns(th'[q][u], i)
               \/ env'[q].pc = "close" /\ i <= env'[q].close
    BY <2>1, <2>2, <2>3, <2>4, <1>5 DEF IInv, AccountInv
  <2> QED BY <2>4 DEF AccountInv
<1>18. WriterInv'
  <2>1. \A q \in Procs : \A u \in Threads[q] : Writing(th'[q][u]) => Writing(th[q][u])
    BY <1>5, <1>6, <1>7 DEF Writing
  <2> QED BY <2>1, <1>5 DEF IInv, WriterInv
<1>19. ~OpenBreaks => RegionInv'
  <2> SUFFICES ASSUME ~OpenBreaks PROVE RegionInv'
    OBVIOUS
  <2>1. Newest' = Newest /\ (InUse' => InUse)
    BY <1>5 DEF Newest, InUse
  <2>2. region'.txnid = region.txnid /\ wmutex' = wmutex
    BY <1>5
  <2>3. \A q \in Procs : \A u \in Threads[q] : CommitAt(th'[q][u], region'.txnid, Newest')
    BY <2>1, <2>2, <1>5, <1>6, <1>7 DEF IInv, RegionInv, CommitAt
  <2>4. \A q \in Procs : \A u \in Threads[q] : th[q][u].pc = "wrote" => th'[q][u].pc = "wrote"
    BY <1>5, <1>6, <1>7
  <2>5. Current => Current'
    BY <2>1, <2>2, <2>4 DEF Current
  <2> QED BY <2>1, <2>3, <2>5 DEF IInv, RegionInv
<1>20. CheckInv'
  <2>1. CheckAt(p, th'[p][t], region'.num, readers', pidlock')
    BY <1>1, <1>5, <1>6 DEF CheckAt, StageOK, TablePcs, ClaimPcs, CheckPcs
  <2>2. ASSUME NEW q \in Procs, NEW u \in Threads[q], q # p \/ u # t
        PROVE  CheckAt(q, th'[q][u], region'.num, readers', pidlock')
    <3>1. th'[q][u] = th[q][u]
      BY <1>7, <2>2
    <3>2. \A j \in 1..region'.num : readers'[j].pid \in th[q][u].dead =>
              j \in 1..region.num /\ readers'[j].pid = readers[j].pid
      BY <1>1, <1>5, ThreadFacts
    <3>3. th[q][u].dead \cap pidlock' = {}
      BY <1>5, ThreadFacts DEF CheckAt
    <3> QED BY <3>1, <3>2, <3>3, ThreadFacts, CheckFrame
  <2> QED BY <2>1, <2>2 DEF CheckInv
<1> QED BY <1>8, <1>9, <1>10, <1>11, <1>12, <1>13, <1>14, <1>15, <1>16, <1>17,
       <1>18, <1>19, <1>20 DEF IInv

\* Starting a check of the readers preserves the invariant.
LEMMA CheckStartStep ==
    ASSUME IInv, NEW p \in Procs, NEW t \in Threads[p], CheckStart(p, t)
    PROVE  IInv'
<1> USE SlotsAssumption DEF T, Idle, NoTxn
<1> DEFINE x == th[p][t]
           y == CheckFrom(x, "check", Idle)
<1>1. /\ ThType /\ TypeInv /\ region.num \in 0..Slots
      /\ x \in ThreadRecord /\ StageOK(x) /\ 0 \in 0..Slots
      /\ SlotAt(p, x, region.num, env[p].close, readers)
      /\ CheckAt(p, x, region.num, readers, pidlock)
  BY ThreadFacts DEF IInv, TypeInv, ThType
<1>2. y \in ThreadRecord
  BY <1>1 DEF ThreadRecord, ThreadPcs, TablePcs, CheckPcs, CheckFrom, TypeInv
<1>3. Move(p, t, y)
  BY DEF CheckStart, Goto, Return
<1>4. /\ ThType'
      /\ th'[p][t] = y
      /\ \A q \in Procs : \A u \in Threads[q] : q # p \/ u # t => th'[q][u] = th[q][u]
  BY <1>1, <1>2, <1>3, MoveEffect
<1>5. /\ env[p].pc = "open"
      /\ x.pc = "idle"
      /\ UNCHANGED <<region, readers, rmutex, wmutex, flock, pidlock, metas, env, orphans, deaths>>
  BY <1>1 DEF CheckStart, At, TypeInv
<1>6. /\ th'[p][t].pc = "check" /\ th'[p][t].slot = x.slot /\ th'[p][t].r = x.r
      /\ th'[p][t].txn = x.txn /\ th'[p][t].i = 1 /\ th'[p][t].rdrs = region.num
      /\ th'[p][t].pids = {} /\ th'[p][t].pid = Nobody /\ th'[p][t].then = "idle"
      /\ th'[p][t].dead = Procs \ pidlock
  BY <1>1, <1>4 DEF ThreadRecord, IdleThread, CheckFrom
<1>7. \A q \in Procs : \A u \in Threads[q] : q # p \/ u # t => th'[q][u] = th[q][u]
  BY <1>4
<1> HIDE DEF y
<1>8. TypeInv'
  BY <1>1, <1>4, <1>5 DEF TypeInv, Mutexes
<1>9. FileInv'
  BY <1>5 DEF IInv, FileInv
<1>10. ActiveInv'
  BY <1>5, <1>7 DEF IInv, ActiveInv
<1>11. StageInv'
  <2>1. StageOK(th'[p][t])
    BY <1>1, <1>5, <1>6 DEF StageOK, TablePcs, ClaimPcs, CheckPcs
  <2> QED BY <2>1, <1>7 DEF IInv, StageInv
<1>12. LiveInv'
  <2>1. \A q \in Procs : env'[q].live => q \in pidlock'
    BY <1>5 DEF IInv, LiveInv
  <2>2. NeedsLive(th'[p][t]) => NeedsLive(th[p][t])
    BY <1>1, <1>5, <1>6 DEF NeedsLive, StageOK, ClaimPcs
  <2> QED BY <2>1, <2>2, <1>5, <1>7 DEF IInv, LiveInv
<1>13. TableInv'
  <2>1. \A q \in Procs : \A u \in Threads[q] : InTable(th'[q][u]) => InTable(th[q][u])
    BY <1>5, <1>6, <1>7 DEF InTable, TablePcs
  <2> QED BY <2>1, <1>5 DEF IInv, TableInv
<1>14. SlotInv'
  <2>1. SlotAt(p, th'[p][t], region'.num, env'[p].close, readers')
    BY <1>1, <1>5, <1>6 DEF SlotAt, StageOK, TablePcs, ClaimPcs, CheckPcs
  <2>2. ASSUME NEW q \in Procs, NEW u \in Threads[q], q # p \/ u # t
        PROVE  SlotAt(q, th'[q][u], region'.num, env'[q].close, readers')
    <3>1. th'[q][u] = th[q][u]
      BY <1>7, <2>2
    <3>2. /\ th[q][u].slot # 0 => readers'[th[q][u].slot] = readers[th[q][u].slot]
          /\ th[q][u].r # 0 => readers'[th[q][u].r] = readers[th[q][u].r]
      BY <1>5
    <3>3. /\ region'.num \in Int /\ region.num <= region'.num
          /\ env'[q].close \in Int /\ env[q].close <= env'[q].close
      BY <1>5, ThreadFacts
    <3> QED BY <3>1, <3>2, <3>3, ThreadFacts, SlotFrame
  <2> QED BY <2>1, <2>2 DEF SlotInv
<1>15. OwnInv'
  <2>1. \A q \in Procs : \A u \in Threads[q] : \A i \in 1..Slots :
            Owns(th'[q][u], i) => Owns(th[q][u], i)
    BY <1>5, <1>6, <1>7 DEF Owns
  <2> QED BY <2>1 DEF IInv, OwnInv
<1>16. CloseInv'
  BY <1>5 DEF IInv, CloseInv
<1>17. AccountInv'
  <2>1. \A q \in Procs : \A u \in Threads[q] : \A i \in 1..Slots :
            Owns(th[q][u], i) /\ readers'[i].pid # Nobody => Owns(th'[q][u], i)
    BY <1>1, <1>5, <1>6, <1>7 DEF Owns, StageOK, ClaimPcs
  <2>2. ASSUME NEW i \in 1..region'.num, i \notin orphans', readers'[i].pid # Nobody
        PROVE  i \in 1..region.num /\ i \notin orphans /\ readers'[i].pid = readers[i].pid
    BY <2>2, <1>1, <1>5
  <2>3. \A i \in 1..region.num : i \in 1..Slots /\ readers[i].pid \in Procs \cup {Nobody}
    BY <1>1 DEF TypeInv
  <2>4. ASSUME NEW i \in 1..region'.num, i \notin orphans', readers'[i].pid # Nobody, NEW q, q = readers'[i].pid
        PROVE  \/ env'[q].pc = "open" /\ \E u \in Threads[q] : Owns(th'[q][u], i)
               \/ env'[q].pc = "close" /\ i <= env'[q].close
    BY <2>1, <2>2, <2>3, <2>4, <1>5 DEF IInv, AccountInv
  <2> QED BY <2>4 DEF AccountInv
<1>18. WriterInv'
  <2>1. \A q \in Procs : \A u \in Threads[q] : Writing(th'[q][u]) => Writing(th[q][u])
    BY <1>5, <1>6, <1>7 DEF Writing
  <2> QED BY <2>1, <1>5 DEF IInv, WriterInv
<1>19. ~OpenBreaks => RegionInv'
  <2> SUFFICES ASSUME ~OpenBreaks PROVE RegionInv'
    OBVIOUS
  <2>1. Newest' = Newest /\ (InUse' => InUse)
    BY <1>5 DEF Newest, InUse
  <2>2. region'.txnid = region.txnid /\ wmutex' = wmutex
    BY <1>5
  <2>3. \A q \in Procs : \A u \in Threads[q] : CommitAt(th'[q][u], region'.txnid, Newest')
    BY <2>1, <2>2, <1>5, <1>6, <1>7 DEF IInv, RegionInv, CommitAt
  <2>4. \A q \in Procs : \A u \in Threads[q] : th[q][u].pc = "wrote" => th'[q][u].pc = "wrote"
    BY <1>5, <1>6, <1>7
  <2>5. Current => Current'
    BY <2>1, <2>2, <2>4 DEF Current
  <2> QED BY <2>1, <2>3, <2>5 DEF IInv, RegionInv
<1>20. CheckInv'
  <2>1. CheckAt(p, th'[p][t], region'.num, readers', pidlock')
    BY <1>1, <1>5, <1>6 DEF CheckAt, StageOK, TablePcs, ClaimPcs, CheckPcs
  <2>2. ASSUME NEW q \in Procs, NEW u \in Threads[q], q # p \/ u # t
        PROVE  CheckAt(q, th'[q][u], region'.num, readers', pidlock')
    <3>1. th'[q][u] = th[q][u]
      BY <1>7, <2>2
    <3>2. \A j \in 1..region'.num : readers'[j].pid \in th[q][u].dead =>
              j \in 1..region.num /\ readers'[j].pid = readers[j].pid
      BY <1>1, <1>5, ThreadFacts
    <3>3. th[q][u].dead \cap pidlock' = {}
      BY <1>5, ThreadFacts DEF CheckAt
    <3> QED BY <3>1, <3>2, <3>3, ThreadFacts, CheckFrame
  <2> QED BY <2>1, <2>2 DEF CheckInv
<1> QED BY <1>8, <1>9, <1>10, <1>11, <1>12, <1>13, <1>14, <1>15, <1>16, <1>17,
       <1>18, <1>19, <1>20 DEF IInv

\* A check that passes a slot preserves the invariant.
LEMMA CheckSkipStep ==
    ASSUME IInv, NEW p \in Procs, NEW t \in Threads[p], CheckSkip(p, t)
    PROVE  IInv'
<1> USE SlotsAssumption DEF T, Idle, NoTxn
<1> DEFINE x == th[p][t]
           y == [x EXCEPT !.i = x.i + 1, !.pids = IF NewPid(x, p) THEN x.pids \cup {readers[x.i].pid} ELSE x.pids]
<1>1. /\ ThType /\ TypeInv /\ region.num \in 0..Slots
      /\ x \in ThreadRecord /\ StageOK(x) /\ 0 \in 0..Slots
      /\ SlotAt(p, x, region.num, env[p].close, readers)
      /\ CheckAt(p, x, region.num, readers, pidlock)
  BY ThreadFacts DEF IInv, TypeInv, ThType
<1>2. y \in ThreadRecord
  <2>1. NewPid(x, p) => readers[x.i].pid \in pidlock
    BY DEF CheckSkip
  <2>2. NewPid(x, p) => readers[x.i].pid \in Procs
    BY <1>1, <2>1 DEF TypeInv
  <2>3. x.i + 1 \in Nat /\ x.pids \in SUBSET Procs
    BY <1>1 DEF ThreadRecord
  <2>4. y.pids \in SUBSET Procs
    BY <2>2, <2>3, <1>1 DEF ThreadRecord
  <2> QED BY <1>1, <2>3, <2>4 DEF ThreadRecord
<1>3. Move(p, t, y)
  BY DEF CheckSkip, Goto, Return
<1>4. /\ ThType'
      /\ th'[p][t] = y
      /\ \A q \in Procs : \A u \in Threads[q] : q # p \/ u # t => th'[q][u] = th[q][u]
  BY <1>1, <1>2, <1>3, MoveEffect
<1>5. /\ env[p].pc = "open"
      /\ x.pc \in {"check", "locked"}
      /\ NewPid(x, p) => readers[x.i].pid \in pidlock
      /\ UNCHANGED <<region, readers, rmutex, wmutex, flock, pidlock, metas, env, orphans, deaths>>
  BY <1>1 DEF CheckSkip, At, TypeInv
<1>6. /\ th'[p][t].pc = x.pc /\ th'[p][t].slot = x.slot /\ th'[p][t].r = x.r
      /\ th'[p][t].txn = x.txn /\ th'[p][t].i = x.i + 1
      /\ th'[p][t].rdrs = x.rdrs
      /\ th'[p][t].pids = (IF NewPid(x, p) THEN x.pids \cup {readers[x.i].pid} ELSE x.pids)
      /\ th'[p][t].pid = x.pid /\ th'[p][t].then = x.then
      /\ th'[p][t].dead = x.dead
  BY <1>1, <1>4 DEF ThreadRecord, IdleThread, CheckFrom
<1>7. \A q \in Procs : \A u \in Threads[q] : q # p \/ u # t => th'[q][u] = th[q][u]
  BY <1>4
<1> HIDE DEF y
<1>8. TypeInv'
  BY <1>1, <1>4, <1>5 DEF TypeInv, Mutexes
<1>9. FileInv'
  BY <1>5 DEF IInv, FileInv
<1>10. ActiveInv'
  BY <1>5, <1>7 DEF IInv, ActiveInv
<1>11. StageInv'
  <2>1. StageOK(th'[p][t])
    BY <1>1, <1>5, <1>6 DEF StageOK, TablePcs, ClaimPcs, CheckPcs
  <2> QED BY <2>1, <1>7 DEF IInv, StageInv
<1>12. LiveInv'
  <2>1. \A q \in Procs : env'[q].live => q \in pidlock'
    BY <1>5 DEF IInv, LiveInv
  <2>2. NeedsLive(th'[p][t]) => NeedsLive(th[p][t])
    BY <1>1, <1>5, <1>6 DEF NeedsLive, StageOK, ClaimPcs
  <2> QED BY <2>1, <2>2, <1>5, <1>7 DEF IInv, LiveInv
<1>13. TableInv'
  <2>1. \A q \in Procs : \A u \in Threads[q] : InTable(th'[q][u]) => InTable(th[q][u])
    BY <1>5, <1>6, <1>7 DEF InTable, TablePcs
  <2> QED BY <2>1, <1>5 DEF IInv, TableInv
<1>14. SlotInv'
  <2>1. SlotAt(p, th'[p][t], region'.num, env'[p].close, readers')
    BY <1>1, <1>5, <1>6 DEF SlotAt, StageOK, TablePcs, ClaimPcs, CheckPcs
  <2>2. ASSUME NEW q \in Procs, NEW u \in Threads[q], q # p \/ u # t
        PROVE  SlotAt(q, th'[q][u], region'.num, env'[q].close, readers')
    <3>1. th'[q][u] = th[q][u]
      BY <1>7, <2>2
    <3>2. /\ th[q][u].slot # 0 => readers'[th[q][u].slot] = readers[th[q][u].slot]
          /\ th[q][u].r # 0 => readers'[th[q][u].r] = readers[th[q][u].r]
      BY <1>5
    <3>3. /\ region'.num \in Int /\ region.num <= region'.num
          /\ env'[q].close \in Int /\ env[q].close <= env'[q].close
      BY <1>5, ThreadFacts
    <3> QED BY <3>1, <3>2, <3>3, ThreadFacts, SlotFrame
  <2> QED BY <2>1, <2>2 DEF SlotInv
<1>15. OwnInv'
  <2>1. \A q \in Procs : \A u \in Threads[q] : \A i \in 1..Slots :
            Owns(th'[q][u], i) => Owns(th[q][u], i)
    BY <1>5, <1>6, <1>7 DEF Owns
  <2> QED BY <2>1 DEF IInv, OwnInv
<1>16. CloseInv'
  BY <1>5 DEF IInv, CloseInv
<1>17. AccountInv'
  <2>1. \A q \in Procs : \A u \in Threads[q] : \A i \in 1..Slots :
            Owns(th[q][u], i) /\ readers'[i].pid # Nobody => Owns(th'[q][u], i)
    BY <1>1, <1>5, <1>6, <1>7 DEF Owns, StageOK, ClaimPcs
  <2>2. ASSUME NEW i \in 1..region'.num, i \notin orphans', readers'[i].pid # Nobody
        PROVE  i \in 1..region.num /\ i \notin orphans /\ readers'[i].pid = readers[i].pid
    BY <2>2, <1>1, <1>5
  <2>3. \A i \in 1..region.num : i \in 1..Slots /\ readers[i].pid \in Procs \cup {Nobody}
    BY <1>1 DEF TypeInv
  <2>4. ASSUME NEW i \in 1..region'.num, i \notin orphans', readers'[i].pid # Nobody, NEW q, q = readers'[i].pid
        PROVE  \/ env'[q].pc = "open" /\ \E u \in Threads[q] : Owns(th'[q][u], i)
               \/ env'[q].pc = "close" /\ i <= env'[q].close
    BY <2>1, <2>2, <2>3, <2>4, <1>5 DEF IInv, AccountInv
  <2> QED BY <2>4 DEF AccountInv
<1>18. WriterInv'
  <2>1. \A q \in Procs : \A u \in Threads[q] : Writing(th'[q][u]) => Writing(th[q][u])
    BY <1>5, <1>6, <1>7 DEF Writing
  <2> QED BY <2>1, <1>5 DEF IInv, WriterInv
<1>19. ~OpenBreaks => RegionInv'
  <2> SUFFICES ASSUME ~OpenBreaks PROVE RegionInv'
    OBVIOUS
  <2>1. Newest' = Newest /\ (InUse' => InUse)
    BY <1>5 DEF Newest, InUse
  <2>2. region'.txnid = region.txnid /\ wmutex' = wmutex
    BY <1>5
  <2>3. \A q \in Procs : \A u \in Threads[q] : CommitAt(th'[q][u], region'.txnid, Newest')
    BY <2>1, <2>2, <1>5, <1>6, <1>7 DEF IInv, RegionInv, CommitAt
  <2>4. \A q \in Procs : \A u \in Threads[q] : th[q][u].pc = "wrote" => th'[q][u].pc = "wrote"
    BY <1>5, <1>6, <1>7
  <2>5. Current => Current'
    BY <2>1, <2>2, <2>4 DEF Current
  <2> QED BY <2>1, <2>3, <2>5 DEF IInv, RegionInv
<1>20. CheckInv'
  <2>1. CheckAt(p, th'[p][t], region'.num, readers', pidlock')
    <3>1. x.dead \subseteq Procs /\ x.i \in Nat /\ x.rdrs \in Nat /\ Nobody \notin x.dead
      BY <1>1 DEF ThreadRecord
    <3>2. CASE NewPid(x, p)
      <4>1. readers[x.i].pid \notin x.dead
        BY <1>1, <1>5, <3>2 DEF CheckAt
      <4>2. th'[p][t].i = x.i + 1 /\ th'[p][t].pids = x.pids \cup {readers[x.i].pid}
        BY <1>6, <3>2
      <4>3. ASSUME NEW j \in 1..region.num, readers[j].pid \in x.dead \ {p}
            PROVE  x.i + 1 <= j /\ j <= x.rdrs /\ readers[j].pid \notin th'[p][t].pids
        <5>1. x.i <= j /\ j <= x.rdrs /\ readers[j].pid \notin x.pids
          BY <4>3, <1>1, <1>5 DEF CheckAt
        <5> QED BY <3>1, <4>1, <4>2, <4>3, <5>1
      <4>4. x.dead \cap pidlock = {}
        BY <1>1 DEF CheckAt
      <4> QED BY <4>1, <4>2, <4>3, <4>4, <1>5, <1>6 DEF CheckAt
    <3>3. CASE ~NewPid(x, p)
      <4>1. th'[p][t].i = x.i + 1 /\ th'[p][t].pids = x.pids
        BY <1>6, <3>3
      <4>2. readers[x.i].pid \in x.dead \ {p} => readers[x.i].pid \in x.pids
        BY <3>1, <3>3 DEF NewPid
      <4>3. ASSUME NEW j \in 1..region.num, readers[j].pid \in x.dead \ {p}
            PROVE  x.i + 1 <= j /\ j <= x.rdrs /\ readers[j].pid \notin th'[p][t].pids
        <5>1. x.i <= j /\ j <= x.rdrs /\ readers[j].pid \notin x.pids
          BY <4>3, <1>1, <1>5 DEF CheckAt
        <5> QED BY <3>1, <4>1, <4>2, <4>3, <5>1
      <4>4. x.dead \cap pidlock = {}
        BY <1>1 DEF CheckAt
      <4> QED BY <4>1, <4>2, <4>3, <4>4, <1>5, <1>6 DEF CheckAt
    <3> QED BY <3>2, <3>3
  <2>2. ASSUME NEW q \in Procs, NEW u \in Threads[q], q # p \/ u # t
        PROVE  CheckAt(q, th'[q][u], region'.num, readers', pidlock')
    <3>1. th'[q][u] = th[q][u]
      BY <1>7, <2>2
    <3>2. \A j \in 1..region'.num : readers'[j].pid \in th[q][u].dead =>
              j \in 1..region.num /\ readers'[j].pid = readers[j].pid
      BY <1>1, <1>5, ThreadFacts
    <3>3. th[q][u].dead \cap pidlock' = {}
      BY <1>5, ThreadFacts DEF CheckAt
    <3> QED BY <3>1, <3>2, <3>3, ThreadFacts, CheckFrame
  <2> QED BY <2>1, <2>2 DEF CheckInv
<1> QED BY <1>8, <1>9, <1>10, <1>11, <1>12, <1>13, <1>14, <1>15, <1>16, <1>17,
       <1>18, <1>19, <1>20 DEF IInv

\* A check that finds a dead process preserves the invariant.
LEMMA CheckDeadStep ==
    ASSUME IInv, NEW p \in Procs, NEW t \in Threads[p], CheckDead(p, t)
    PROVE  IInv'
<1> USE SlotsAssumption DEF T, Idle, NoTxn
<1> DEFINE x == th[p][t]
           y == [x EXCEPT !.pc = "chklock", !.pid = readers[x.i].pid, !.pids = x.pids \cup {readers[x.i].pid}]
<1>1. /\ ThType /\ TypeInv /\ region.num \in 0..Slots
      /\ x \in ThreadRecord /\ StageOK(x) /\ 0 \in 0..Slots
      /\ SlotAt(p, x, region.num, env[p].close, readers)
      /\ CheckAt(p, x, region.num, readers, pidlock)
  BY ThreadFacts DEF IInv, TypeInv, ThType
<1>2. y \in ThreadRecord
  <2>1. x.i \in 1..Slots
    BY <1>1 DEF ThreadRecord, StageOK, CheckPcs, CheckDead, At
  <2>2. readers[x.i].pid \in Procs
    BY <1>1, <2>1 DEF CheckDead, NewPid, TypeInv
  <2> QED BY <1>1, <2>2 DEF ThreadRecord, ThreadPcs, CheckPcs
<1>3. Move(p, t, y)
  BY DEF CheckDead, Goto, Return
<1>4. /\ ThType'
      /\ th'[p][t] = y
      /\ \A q \in Procs : \A u \in Threads[q] : q # p \/ u # t => th'[q][u] = th[q][u]
  BY <1>1, <1>2, <1>3, MoveEffect
<1>5. /\ env[p].pc = "open"
      /\ x.pc = "check"
      /\ UNCHANGED <<region, readers, rmutex, wmutex, flock, pidlock, metas, env, orphans, deaths>>
  BY <1>1 DEF CheckDead, At, TypeInv
<1>6. /\ th'[p][t].pc = "chklock" /\ th'[p][t].slot = x.slot /\ th'[p][t].r = x.r
      /\ th'[p][t].txn = x.txn /\ th'[p][t].i = x.i /\ th'[p][t].rdrs = x.rdrs
      /\ th'[p][t].pids = x.pids \cup {readers[x.i].pid}
      /\ th'[p][t].pid = readers[x.i].pid /\ th'[p][t].then = x.then
      /\ th'[p][t].dead = x.dead
  BY <1>1, <1>4 DEF ThreadRecord, IdleThread, CheckFrom
<1>7. \A q \in Procs : \A u \in Threads[q] : q # p \/ u # t => th'[q][u] = th[q][u]
  BY <1>4
<1> HIDE DEF y
<1>8. TypeInv'
  BY <1>1, <1>4, <1>5 DEF TypeInv, Mutexes
<1>9. FileInv'
  BY <1>5 DEF IInv, FileInv
<1>10. ActiveInv'
  BY <1>5, <1>7 DEF IInv, ActiveInv
<1>11. StageInv'
  <2>1. StageOK(th'[p][t])
    BY <1>1, <1>5, <1>6 DEF StageOK, TablePcs, ClaimPcs, CheckPcs
  <2> QED BY <2>1, <1>7 DEF IInv, StageInv
<1>12. LiveInv'
  <2>1. \A q \in Procs : env'[q].live => q \in pidlock'
    BY <1>5 DEF IInv, LiveInv
  <2>2. NeedsLive(th'[p][t]) => NeedsLive(th[p][t])
    BY <1>1, <1>5, <1>6 DEF NeedsLive, StageOK, ClaimPcs
  <2> QED BY <2>1, <2>2, <1>5, <1>7 DEF IInv, LiveInv
<1>13. TableInv'
  <2>1. \A q \in Procs : \A u \in Threads[q] : InTable(th'[q][u]) => InTable(th[q][u])
    BY <1>5, <1>6, <1>7 DEF InTable, TablePcs
  <2> QED BY <2>1, <1>5 DEF IInv, TableInv
<1>14. SlotInv'
  <2>1. SlotAt(p, th'[p][t], region'.num, env'[p].close, readers')
    BY <1>1, <1>5, <1>6 DEF SlotAt, StageOK, TablePcs, ClaimPcs, CheckPcs
  <2>2. ASSUME NEW q \in Procs, NEW u \in Threads[q], q # p \/ u # t
        PROVE  SlotAt(q, th'[q][u], region'.num, env'[q].close, readers')
    <3>1. th'[q][u] = th[q][u]
      BY <1>7, <2>2
    <3>2. /\ th[q][u].slot # 0 => readers'[th[q][u].slot] = readers[th[q][u].slot]
          /\ th[q][u].r # 0 => readers'[th[q][u].r] = readers[th[q][u].r]
      BY <1>5
    <3>3. /\ region'.num \in Int /\ region.num <= region'.num
          /\ env'[q].close \in Int /\ env[q].close <= env'[q].close
      BY <1>5, ThreadFacts
    <3> QED BY <3>1, <3>2, <3>3, ThreadFacts, SlotFrame
  <2> QED BY <2>1, <2>2 DEF SlotInv
<1>15. OwnInv'
  <2>1. \A q \in Procs : \A u \in Threads[q] : \A i \in 1..Slots :
            Owns(th'[q][u], i) => Owns(th[q][u], i)
    BY <1>5, <1>6, <1>7 DEF Owns
  <2> QED BY <2>1 DEF IInv, OwnInv
<1>16. CloseInv'
  BY <1>5 DEF IInv, CloseInv
<1>17. AccountInv'
  <2>1. \A q \in Procs : \A u \in Threads[q] : \A i \in 1..Slots :
            Owns(th[q][u], i) /\ readers'[i].pid # Nobody => Owns(th'[q][u], i)
    BY <1>1, <1>5, <1>6, <1>7 DEF Owns, StageOK, ClaimPcs
  <2>2. ASSUME NEW i \in 1..region'.num, i \notin orphans', readers'[i].pid # Nobody
        PROVE  i \in 1..region.num /\ i \notin orphans /\ readers'[i].pid = readers[i].pid
    BY <2>2, <1>1, <1>5
  <2>3. \A i \in 1..region.num : i \in 1..Slots /\ readers[i].pid \in Procs \cup {Nobody}
    BY <1>1 DEF TypeInv
  <2>4. ASSUME NEW i \in 1..region'.num, i \notin orphans', readers'[i].pid # Nobody, NEW q, q = readers'[i].pid
        PROVE  \/ env'[q].pc = "open" /\ \E u \in Threads[q] : Owns(th'[q][u], i)
               \/ env'[q].pc = "close" /\ i <= env'[q].close
    BY <2>1, <2>2, <2>3, <2>4, <1>5 DEF IInv, AccountInv
  <2> QED BY <2>4 DEF AccountInv
<1>18. WriterInv'
  <2>1. \A q \in Procs : \A u \in Threads[q] : Writing(th'[q][u]) => Writing(th[q][u])
    BY <1>5, <1>6, <1>7 DEF Writing
  <2> QED BY <2>1, <1>5 DEF IInv, WriterInv
<1>19. ~OpenBreaks => RegionInv'
  <2> SUFFICES ASSUME ~OpenBreaks PROVE RegionInv'
    OBVIOUS
  <2>1. Newest' = Newest /\ (InUse' => InUse)
    BY <1>5 DEF Newest, InUse
  <2>2. region'.txnid = region.txnid /\ wmutex' = wmutex
    BY <1>5
  <2>3. \A q \in Procs : \A u \in Threads[q] : CommitAt(th'[q][u], region'.txnid, Newest')
    BY <2>1, <2>2, <1>5, <1>6, <1>7 DEF IInv, RegionInv, CommitAt
  <2>4. \A q \in Procs : \A u \in Threads[q] : th[q][u].pc = "wrote" => th'[q][u].pc = "wrote"
    BY <1>5, <1>6, <1>7
  <2>5. Current => Current'
    BY <2>1, <2>2, <2>4 DEF Current
  <2> QED BY <2>1, <2>3, <2>5 DEF IInv, RegionInv
<1>20. CheckInv'
  <2>1. CheckAt(p, th'[p][t], region'.num, readers', pidlock')
    BY <1>1, <1>5, <1>6 DEF CheckAt, StageOK, TablePcs, ClaimPcs, CheckPcs
  <2>2. ASSUME NEW q \in Procs, NEW u \in Threads[q], q # p \/ u # t
        PROVE  CheckAt(q, th'[q][u], region'.num, readers', pidlock')
    <3>1. th'[q][u] = th[q][u]
      BY <1>7, <2>2
    <3>2. \A j \in 1..region'.num : readers'[j].pid \in th[q][u].dead =>
              j \in 1..region.num /\ readers'[j].pid = readers[j].pid
      BY <1>1, <1>5, ThreadFacts
    <3>3. th[q][u].dead \cap pidlock' = {}
      BY <1>5, ThreadFacts DEF CheckAt
    <3> QED BY <3>1, <3>2, <3>3, ThreadFacts, CheckFrame
  <2> QED BY <2>1, <2>2 DEF CheckInv
<1> QED BY <1>8, <1>9, <1>10, <1>11, <1>12, <1>13, <1>14, <1>15, <1>16, <1>17,
       <1>18, <1>19, <1>20 DEF IInv

\* Giving back the slots of a dead process with the mutex preserves the invariant.
LEMMA CheckDeadLockedStep ==
    ASSUME IInv, NEW p \in Procs, NEW t \in Threads[p], CheckDeadLocked(p, t)
    PROVE  IInv'
<1> USE SlotsAssumption DEF T, Idle, NoTxn
<1> DEFINE x == th[p][t]
           y == [x EXCEPT !.i = x.i + 1, !.pids = x.pids \cup {readers[x.i].pid}]
<1>1. /\ ThType /\ TypeInv /\ region.num \in 0..Slots
      /\ x \in ThreadRecord /\ StageOK(x) /\ 0 \in 0..Slots
      /\ SlotAt(p, x, region.num, env[p].close, readers)
      /\ CheckAt(p, x, region.num, readers, pidlock)
  BY ThreadFacts DEF IInv, TypeInv, ThType
<1>2. y \in ThreadRecord
  <2>1. x.i \in 1..Slots
    BY <1>1 DEF ThreadRecord, StageOK, CheckPcs, CheckDeadLocked, At
  <2>2. readers[x.i].pid \in Procs
    BY <1>1, <2>1 DEF CheckDeadLocked, NewPid, TypeInv
  <2>3. x.i + 1 \in Nat /\ x.pids \in SUBSET Procs
    BY <1>1 DEF ThreadRecord
  <2>4. y.pids \in SUBSET Procs
    BY <2>2, <2>3, <1>1 DEF ThreadRecord
  <2> QED BY <1>1, <2>3, <2>4 DEF ThreadRecord
<1>3. Move(p, t, y)
  BY DEF CheckDeadLocked, Goto, Return
<1>4. /\ ThType'
      /\ th'[p][t] = y
      /\ \A q \in Procs : \A u \in Threads[q] : q # p \/ u # t => th'[q][u] = th[q][u]
  BY <1>1, <1>2, <1>3, MoveEffect
<1>5. /\ env[p].pc = "open"
      /\ x.pc = "locked"
      /\ readers[x.i].pid \notin pidlock
      /\ readers' \in [1..Slots -> [pid : Procs \cup {Nobody}, txnid : Nat \cup {NoTxn}]]
      /\ \A i \in 1..Slots : i \notin StaleSlots(x, readers[x.i].pid) => readers'[i] = readers[i]
      /\ \A i \in 1..Slots : i \in StaleSlots(x, readers[x.i].pid) => readers'[i].pid = Nobody
      /\ \A i \in 1..Slots : i \in StaleSlots(x, readers[x.i].pid) => readers[i].pid \notin pidlock
      /\ orphans' = orphans \ StaleSlots(x, readers[x.i].pid)
      /\ UNCHANGED <<region, rmutex, wmutex, flock, pidlock, metas, env, deaths>>
  <2>1. /\ env[p].pc = "open" /\ x.pc = "locked" /\ readers[x.i].pid \notin pidlock
        /\ FreeSlots(StaleSlots(x, readers[x.i].pid))
        /\ UNCHANGED <<region, rmutex, wmutex, flock, pidlock, metas, env, deaths>>
    BY DEF CheckDeadLocked, At
  <2>2. \A i \in StaleSlots(x, readers[x.i].pid) : readers[i].pid \notin pidlock
    BY <2>1 DEF StaleSlots
  <2>3. \A i \in 1..Slots : [readers[i] EXCEPT !.pid = Nobody] \in
            [pid : {Nobody}, txnid : Nat \cup {NoTxn}]
    BY <1>1 DEF TypeInv
  <2> QED BY <1>1, <2>1, <2>2, <2>3 DEF FreeSlots, TypeInv
<1>6. /\ th'[p][t].pc = x.pc /\ th'[p][t].slot = x.slot /\ th'[p][t].r = x.r
      /\ th'[p][t].txn = x.txn /\ th'[p][t].i = x.i + 1
      /\ th'[p][t].rdrs = x.rdrs
      /\ th'[p][t].pids = x.pids \cup {readers[x.i].pid} /\ th'[p][t].pid = x.pid
      /\ th'[p][t].then = x.then /\ th'[p][t].dead = x.dead
  BY <1>1, <1>4 DEF ThreadRecord, IdleThread, CheckFrom
<1>7. \A q \in Procs : \A u \in Threads[q] : q # p \/ u # t => th'[q][u] = th[q][u]
  BY <1>4
<1> HIDE DEF y
<1>8. TypeInv'
  BY <1>1, <1>4, <1>5 DEF TypeInv, Mutexes
<1>9. FileInv'
  BY <1>5 DEF IInv, FileInv
<1>10. ActiveInv'
  BY <1>5, <1>7 DEF IInv, ActiveInv
<1>11. StageInv'
  <2>1. StageOK(th'[p][t])
    BY <1>1, <1>5, <1>6 DEF StageOK, TablePcs, ClaimPcs, CheckPcs
  <2> QED BY <2>1, <1>7 DEF IInv, StageInv
<1>12. LiveInv'
  <2>1. \A q \in Procs : env'[q].live => q \in pidlock'
    BY <1>5 DEF IInv, LiveInv
  <2>2. NeedsLive(th'[p][t]) => NeedsLive(th[p][t])
    BY <1>1, <1>5, <1>6 DEF NeedsLive, StageOK, ClaimPcs
  <2> QED BY <2>1, <2>2, <1>5, <1>7 DEF IInv, LiveInv
<1>13. TableInv'
  <2>1. \A q \in Procs : \A u \in Threads[q] : InTable(th'[q][u]) => InTable(th[q][u])
    BY <1>5, <1>6, <1>7 DEF InTable, TablePcs
  <2> QED BY <2>1, <1>5 DEF IInv, TableInv
<1>14. SlotInv'
  <2>1. SlotAt(p, th'[p][t], region'.num, env'[p].close, readers')
    <3>1. x.slot # 0 => x.slot \in 1..Slots /\ readers[x.slot].pid \in pidlock
      BY ThreadFacts
    <3>2. x.slot # 0 => readers'[x.slot] = readers[x.slot]
      BY <1>5, <3>1
    <3> QED BY <3>2, <1>1, <1>5, <1>6 DEF SlotAt, StageOK, TablePcs, ClaimPcs, CheckPcs
  <2>2. ASSUME NEW q \in Procs, NEW u \in Threads[q], q # p \/ u # t
        PROVE  SlotAt(q, th'[q][u], region'.num, env'[q].close, readers')
    <3>1. th'[q][u] = th[q][u]
      BY <1>7, <2>2
    <3>2. /\ th[q][u].slot # 0 => readers'[th[q][u].slot] = readers[th[q][u].slot]
          /\ th[q][u].r # 0 => readers'[th[q][u].r] = readers[th[q][u].r]
      <4>1. th[q][u].r = 0
        BY <1>5, <2>2, ThreadFacts DEF IInv, TableInv, InTable, TablePcs
      <4>2. th[q][u].slot # 0 => th[q][u].slot \in 1..Slots /\ readers[th[q][u].slot].pid \in pidlock
        BY ThreadFacts
      <4> QED BY <1>5, <4>1, <4>2
    <3>3. /\ region'.num \in Int /\ region.num <= region'.num
          /\ env'[q].close \in Int /\ env[q].close <= env'[q].close
      BY <1>5, ThreadFacts
    <3> QED BY <3>1, <3>2, <3>3, ThreadFacts, SlotFrame
  <2> QED BY <2>1, <2>2 DEF SlotInv
<1>15. OwnInv'
  <2>1. \A q \in Procs : \A u \in Threads[q] : \A i \in 1..Slots :
            Owns(th'[q][u], i) => Owns(th[q][u], i)
    BY <1>5, <1>6, <1>7 DEF Owns
  <2> QED BY <2>1 DEF IInv, OwnInv
<1>16. CloseInv'
  BY <1>5 DEF IInv, CloseInv
<1>17. AccountInv'
  <2>1. \A q \in Procs : \A u \in Threads[q] : \A i \in 1..Slots :
            Owns(th[q][u], i) /\ readers'[i].pid # Nobody => Owns(th'[q][u], i)
    BY <1>6, <1>7 DEF Owns
  <2>2. ASSUME NEW i \in 1..region'.num, i \notin orphans', readers'[i].pid # Nobody
        PROVE  i \in 1..region.num /\ i \notin orphans /\ readers'[i].pid = readers[i].pid
    <3>1. i \in 1..Slots
      BY <1>1, <1>5, <2>2
    <3>2. readers'[i] = readers[i] /\ i \notin orphans
      BY <3>1, <2>2, <1>5
    <3> QED BY <3>1, <3>2, <2>2, <1>5
  <2>3. \A i \in 1..region.num : i \in 1..Slots /\ readers[i].pid \in Procs \cup {Nobody}
    BY <1>1 DEF TypeInv
  <2>4. ASSUME NEW i \in 1..region'.num, i \notin orphans', readers'[i].pid # Nobody, NEW q, q = readers'[i].pid
        PROVE  \/ env'[q].pc = "open" /\ \E u \in Threads[q] : Owns(th'[q][u], i)
               \/ env'[q].pc = "close" /\ i <= env'[q].close
    BY <2>1, <2>2, <2>3, <2>4, <1>5 DEF IInv, AccountInv
  <2> QED BY <2>4 DEF AccountInv
<1>18. WriterInv'
  <2>1. \A q \in Procs : \A u \in Threads[q] : Writing(th'[q][u]) => Writing(th[q][u])
    BY <1>5, <1>6, <1>7 DEF Writing
  <2> QED BY <2>1, <1>5 DEF IInv, WriterInv
<1>19. ~OpenBreaks => RegionInv'
  <2> SUFFICES ASSUME ~OpenBreaks PROVE RegionInv'
    OBVIOUS
  <2>1. Newest' = Newest /\ (InUse' => InUse)
    BY <1>5 DEF Newest, InUse
  <2>2. region'.txnid = region.txnid /\ wmutex' = wmutex
    BY <1>5
  <2>3. \A q \in Procs : \A u \in Threads[q] : CommitAt(th'[q][u], region'.txnid, Newest')
    BY <2>1, <2>2, <1>5, <1>6, <1>7 DEF IInv, RegionInv, CommitAt
  <2>4. \A q \in Procs : \A u \in Threads[q] : th[q][u].pc = "wrote" => th'[q][u].pc = "wrote"
    BY <1>5, <1>6, <1>7
  <2>5. Current => Current'
    BY <2>1, <2>2, <2>4 DEF Current
  <2> QED BY <2>1, <2>3, <2>5 DEF IInv, RegionInv
<1>20. CheckInv'
  <2>1. CheckAt(p, th'[p][t], region'.num, readers', pidlock')
    <3>1. x.dead \subseteq Procs /\ x.i \in Nat /\ x.rdrs \in Nat
      BY <1>1 DEF ThreadRecord
    <3>2. \A j \in 1..region.num : readers'[j].pid \in x.dead => j \in 1..Slots /\ readers'[j] = readers[j] /\ j \notin StaleSlots(x, readers[x.i].pid)
      BY <3>1, <1>1, <1>5
    <3>3. x.dead \cap pidlock = {}
      BY <1>1 DEF CheckAt
    <3>4. ASSUME NEW j \in 1..region.num, readers'[j].pid \in x.dead \ {p}
          PROVE  x.i + 1 <= j /\ j <= x.rdrs /\ readers'[j].pid \notin th'[p][t].pids
      <4>1. readers'[j] = readers[j] /\ x.i <= j /\ j <= x.rdrs /\ j \notin StaleSlots(x, readers[x.i].pid)
        BY <3>2, <3>4, <1>1 DEF CheckAt
      <4>2. readers[j].pid # readers[x.i].pid
        BY <4>1, <3>1 DEF StaleSlots
      <4>3. readers[j].pid \notin x.pids
        BY <1>1, <1>5, <3>4, <4>1 DEF CheckAt
      <4> QED BY <3>1, <4>1, <4>2, <4>3, <1>6
    <3>5. UNCHANGED <<region, pidlock>> /\ th'[p][t].pc \in {"check", "locked"}
      BY <1>5, <1>6
    <3> QED BY <3>3, <3>4, <3>5, <1>6 DEF CheckAt
  <2>2. ASSUME NEW q \in Procs, NEW u \in Threads[q], q # p \/ u # t
        PROVE  CheckAt(q, th'[q][u], region'.num, readers', pidlock')
    <3>1. th'[q][u] = th[q][u]
      BY <1>7, <2>2
    <3>2. \A j \in 1..region'.num : readers'[j].pid \in th[q][u].dead =>
              j \in 1..region.num /\ readers'[j].pid = readers[j].pid
      <4>1. th[q][u].dead \subseteq Procs
        BY ThreadFacts
      <4> QED BY <1>1, <1>5, <4>1
    <3>3. th[q][u].dead \cap pidlock' = {}
      BY <1>5, ThreadFacts DEF CheckAt
    <3> QED BY <3>1, <3>2, <3>3, ThreadFacts, CheckFrame
  <2> QED BY <2>1, <2>2 DEF CheckInv
<1> QED BY <1>8, <1>9, <1>10, <1>11, <1>12, <1>13, <1>14, <1>15, <1>16, <1>17,
       <1>18, <1>19, <1>20 DEF IInv

\* Looking at the pid again and giving back its slots preserves the invariant.
LEMMA CheckClearStep ==
    ASSUME IInv, NEW p \in Procs, NEW t \in Threads[p], CheckClear(p, t)
    PROVE  IInv'
<1> USE SlotsAssumption DEF T, Idle, NoTxn
<1> DEFINE x == th[p][t]
           y == [x EXCEPT !.pc = "check", !.i = x.i + 1, !.pid = Nobody]
           F == IF StillDead(x) THEN StaleSlots(x, x.pid) ELSE {}
<1>1. /\ ThType /\ TypeInv /\ region.num \in 0..Slots
      /\ x \in ThreadRecord /\ StageOK(x) /\ 0 \in 0..Slots
      /\ SlotAt(p, x, region.num, env[p].close, readers)
      /\ CheckAt(p, x, region.num, readers, pidlock)
  BY ThreadFacts DEF IInv, TypeInv, ThType
<1>2. y \in ThreadRecord
  <2>1. x.i + 1 \in Nat
    BY <1>1 DEF ThreadRecord
  <2> QED BY <1>1, <2>1 DEF ThreadRecord, ThreadPcs, CheckPcs
<1>3. Move(p, t, y)
  BY DEF CheckClear, Goto, Return
<1>4. /\ ThType'
      /\ th'[p][t] = y
      /\ \A q \in Procs : \A u \in Threads[q] : q # p \/ u # t => th'[q][u] = th[q][u]
  BY <1>1, <1>2, <1>3, MoveEffect
<1>5. /\ env[p].pc = "open"
      /\ x.pc = "recheck"
      /\ readers' \in [1..Slots -> [pid : Procs \cup {Nobody}, txnid : Nat \cup {NoTxn}]]
      /\ \A i \in 1..Slots : i \notin F => readers'[i] = readers[i]
      /\ \A i \in 1..Slots : i \in F => readers'[i].pid = Nobody
      /\ \A i \in 1..Slots : i \in F => readers[i].pid \notin pidlock
      /\ orphans' = orphans \ F
      /\ rmutex'.by = Nobody
      /\ rmutex' \in Mutexes
      /\ UNCHANGED <<region, wmutex, flock, pidlock, metas, env, deaths>>
  <2>1. /\ env[p].pc = "open" /\ x.pc = "recheck"
        /\ FreeSlots(F) /\ rmutex' = Unlocked(rmutex)
        /\ UNCHANGED <<region, wmutex, flock, pidlock, metas, env, deaths>>
    BY DEF CheckClear, At
  <2>2. \A i \in F : readers[i].pid \notin pidlock
    BY DEF StaleSlots, StillDead
  <2> HIDE DEF F
  <2>3. rmutex'.by = Nobody /\ rmutex' \in Mutexes
    BY <1>1, <2>1 DEF TypeInv, Unlocked, Mutexes
  <2> QED BY <1>1, <2>1, <2>2, <2>3 DEF FreeSlots, TypeInv
<1>6. /\ th'[p][t].pc = "check" /\ th'[p][t].slot = x.slot /\ th'[p][t].r = x.r
      /\ th'[p][t].txn = x.txn /\ th'[p][t].i = x.i + 1
      /\ th'[p][t].rdrs = x.rdrs /\ th'[p][t].pids = x.pids
      /\ th'[p][t].pid = Nobody /\ th'[p][t].then = x.then
      /\ th'[p][t].dead = x.dead
  BY <1>1, <1>4 DEF ThreadRecord, IdleThread, CheckFrom
<1>7. \A q \in Procs : \A u \in Threads[q] : q # p \/ u # t => th'[q][u] = th[q][u]
  BY <1>4
<1> HIDE DEF y
<1>8. TypeInv'
  BY <1>1, <1>4, <1>5 DEF TypeInv, Mutexes
<1>9. FileInv'
  BY <1>5 DEF IInv, FileInv
<1>10. ActiveInv'
  BY <1>5, <1>7 DEF IInv, ActiveInv
<1>11. StageInv'
  <2>1. StageOK(th'[p][t])
    BY <1>1, <1>5, <1>6 DEF StageOK, TablePcs, ClaimPcs, CheckPcs
  <2> QED BY <2>1, <1>7 DEF IInv, StageInv
<1>12. LiveInv'
  <2>1. \A q \in Procs : env'[q].live => q \in pidlock'
    BY <1>5 DEF IInv, LiveInv
  <2>2. NeedsLive(th'[p][t]) => NeedsLive(th[p][t])
    BY <1>1, <1>5, <1>6 DEF NeedsLive, StageOK, ClaimPcs
  <2> QED BY <2>1, <2>2, <1>5, <1>7 DEF IInv, LiveInv
<1>13. TableInv'
  <2>1. InTable(th[p][t]) /\ ~InTable(th'[p][t])
    BY <1>5, <1>6 DEF InTable, TablePcs
  <2>2. \A q \in Procs : \A u \in Threads[q] : ~InTable(th'[q][u])
    BY <2>1, <1>7 DEF IInv, TableInv
  <2> QED BY <2>2 DEF TableInv
<1>14. SlotInv'
  <2>1. SlotAt(p, th'[p][t], region'.num, env'[p].close, readers')
    <3>1. x.slot # 0 => x.slot \in 1..Slots /\ readers[x.slot].pid \in pidlock
      BY ThreadFacts
    <3>2. x.slot # 0 => readers'[x.slot] = readers[x.slot]
      BY <1>5, <3>1
    <3> QED BY <3>2, <1>1, <1>5, <1>6 DEF SlotAt, StageOK, TablePcs, ClaimPcs, CheckPcs
  <2>2. ASSUME NEW q \in Procs, NEW u \in Threads[q], q # p \/ u # t
        PROVE  SlotAt(q, th'[q][u], region'.num, env'[q].close, readers')
    <3>1. th'[q][u] = th[q][u]
      BY <1>7, <2>2
    <3>2. /\ th[q][u].slot # 0 => readers'[th[q][u].slot] = readers[th[q][u].slot]
          /\ th[q][u].r # 0 => readers'[th[q][u].r] = readers[th[q][u].r]
      <4>1. th[q][u].r = 0
        BY <1>5, <2>2, ThreadFacts DEF IInv, TableInv, InTable, TablePcs
      <4>2. th[q][u].slot # 0 => th[q][u].slot \in 1..Slots /\ readers[th[q][u].slot].pid \in pidlock
        BY ThreadFacts
      <4> QED BY <1>5, <4>1, <4>2
    <3>3. /\ region'.num \in Int /\ region.num <= region'.num
          /\ env'[q].close \in Int /\ env[q].close <= env'[q].close
      BY <1>5, ThreadFacts
    <3> QED BY <3>1, <3>2, <3>3, ThreadFacts, SlotFrame
  <2> QED BY <2>1, <2>2 DEF SlotInv
<1>15. OwnInv'
  <2>1. \A q \in Procs : \A u \in Threads[q] : \A i \in 1..Slots :
            Owns(th'[q][u], i) => Owns(th[q][u], i)
    BY <1>5, <1>6, <1>7 DEF Owns
  <2> QED BY <2>1 DEF IInv, OwnInv
<1>16. CloseInv'
  BY <1>5 DEF IInv, CloseInv
<1>17. AccountInv'
  <2>1. \A q \in Procs : \A u \in Threads[q] : \A i \in 1..Slots :
            Owns(th[q][u], i) /\ readers'[i].pid # Nobody => Owns(th'[q][u], i)
    BY <1>6, <1>7 DEF Owns
  <2>2. ASSUME NEW i \in 1..region'.num, i \notin orphans', readers'[i].pid # Nobody
        PROVE  i \in 1..region.num /\ i \notin orphans /\ readers'[i].pid = readers[i].pid
    <3>1. i \in 1..Slots
      BY <1>1, <1>5, <2>2
    <3>2. readers'[i] = readers[i] /\ i \notin orphans
      BY <3>1, <2>2, <1>5
    <3> QED BY <3>1, <3>2, <2>2, <1>5
  <2>3. \A i \in 1..region.num : i \in 1..Slots /\ readers[i].pid \in Procs \cup {Nobody}
    BY <1>1 DEF TypeInv
  <2>4. ASSUME NEW i \in 1..region'.num, i \notin orphans', readers'[i].pid # Nobody, NEW q, q = readers'[i].pid
        PROVE  \/ env'[q].pc = "open" /\ \E u \in Threads[q] : Owns(th'[q][u], i)
               \/ env'[q].pc = "close" /\ i <= env'[q].close
    BY <2>1, <2>2, <2>3, <2>4, <1>5 DEF IInv, AccountInv
  <2> QED BY <2>4 DEF AccountInv
<1>18. WriterInv'
  <2>1. \A q \in Procs : \A u \in Threads[q] : Writing(th'[q][u]) => Writing(th[q][u])
    BY <1>5, <1>6, <1>7 DEF Writing
  <2> QED BY <2>1, <1>5 DEF IInv, WriterInv
<1>19. ~OpenBreaks => RegionInv'
  <2> SUFFICES ASSUME ~OpenBreaks PROVE RegionInv'
    OBVIOUS
  <2>1. Newest' = Newest /\ (InUse' => InUse)
    BY <1>5 DEF Newest, InUse
  <2>2. region'.txnid = region.txnid /\ wmutex' = wmutex
    BY <1>5
  <2>3. \A q \in Procs : \A u \in Threads[q] : CommitAt(th'[q][u], region'.txnid, Newest')
    BY <2>1, <2>2, <1>5, <1>6, <1>7 DEF IInv, RegionInv, CommitAt
  <2>4. \A q \in Procs : \A u \in Threads[q] : th[q][u].pc = "wrote" => th'[q][u].pc = "wrote"
    BY <1>5, <1>6, <1>7
  <2>5. Current => Current'
    BY <2>1, <2>2, <2>4 DEF Current
  <2> QED BY <2>1, <2>3, <2>5 DEF IInv, RegionInv
<1>20. CheckInv'
  <2>1. CheckAt(p, th'[p][t], region'.num, readers', pidlock')
    <3>1. x.dead \subseteq Procs /\ x.i \in Nat /\ x.rdrs \in Nat
      BY <1>1 DEF ThreadRecord
    <3>2. \A j \in 1..region.num : readers'[j].pid \in x.dead => j \in 1..Slots /\ readers'[j] = readers[j] /\ j \notin F
      BY <3>1, <1>1, <1>5
    <3>3. x.dead \cap pidlock = {}
      BY <1>1 DEF CheckAt
    <3>4. ASSUME NEW j \in 1..region.num, readers'[j].pid \in x.dead \ {p}
          PROVE  x.i + 1 <= j /\ j <= x.rdrs /\ readers'[j].pid \notin th'[p][t].pids
      <4>1. readers'[j] = readers[j] /\ x.i <= j /\ j <= x.rdrs /\ j \notin F
        BY <3>2, <3>4, <1>1 DEF CheckAt
      <4>2. readers[j].pid = x.pid => j \in F
        BY <4>1, <3>1, <3>3, <3>4 DEF StaleSlots, StillDead
      <4>3. readers[j].pid \in x.pids \/ j = x.i => readers[j].pid = x.pid
        BY <1>1, <1>5, <3>4, <4>1 DEF CheckAt
      <4> QED BY <3>1, <4>1, <4>2, <4>3, <1>6
    <3>5. UNCHANGED <<region, pidlock>> /\ th'[p][t].pc \in {"check", "locked"}
      BY <1>5, <1>6
    <3> QED BY <3>3, <3>4, <3>5, <1>6 DEF CheckAt
  <2>2. ASSUME NEW q \in Procs, NEW u \in Threads[q], q # p \/ u # t
        PROVE  CheckAt(q, th'[q][u], region'.num, readers', pidlock')
    <3>1. th'[q][u] = th[q][u]
      BY <1>7, <2>2
    <3>2. \A j \in 1..region'.num : readers'[j].pid \in th[q][u].dead =>
              j \in 1..region.num /\ readers'[j].pid = readers[j].pid
      <4>1. th[q][u].dead \subseteq Procs
        BY ThreadFacts
      <4> QED BY <1>1, <1>5, <4>1
    <3>3. th[q][u].dead \cap pidlock' = {}
      BY <1>5, ThreadFacts DEF CheckAt
    <3> QED BY <3>1, <3>2, <3>3, ThreadFacts, CheckFrame
  <2> QED BY <2>1, <2>2 DEF CheckInv
<1> QED BY <1>8, <1>9, <1>10, <1>11, <1>12, <1>13, <1>14, <1>15, <1>16, <1>17,
       <1>18, <1>19, <1>20 DEF IInv

\* A check that locks the mutex of the table preserves the invariant.
LEMMA CheckLockStep ==
    ASSUME IInv, NEW p \in Procs, NEW t \in Threads[p], CheckLock(p, t)
    PROVE  IInv'
<1> USE SlotsAssumption DEF T, Idle, NoTxn
<1> DEFINE x == th[p][t]
           y == IF rmutex.dead THEN [CheckFrom(x, "locked", x.then) EXCEPT !.pid = x.pid] ELSE [x EXCEPT !.pc = "recheck"]
<1>1. /\ ThType /\ TypeInv /\ region.num \in 0..Slots
      /\ x \in ThreadRecord /\ StageOK(x) /\ 0 \in 0..Slots
      /\ SlotAt(p, x, region.num, env[p].close, readers)
      /\ CheckAt(p, x, region.num, readers, pidlock)
  BY ThreadFacts DEF IInv, TypeInv, ThType
<1>2. y \in ThreadRecord
  BY <1>1 DEF ThreadRecord, ThreadPcs, TablePcs, CheckPcs, CheckFrom, TypeInv
<1>3. Move(p, t, y)
  BY DEF CheckLock, Goto, Return
<1>4. /\ ThType'
      /\ th'[p][t] = y
      /\ \A q \in Procs : \A u \in Threads[q] : q # p \/ u # t => th'[q][u] = th[q][u]
  BY <1>1, <1>2, <1>3, MoveEffect
<1>5. /\ env[p].pc = "open"
      /\ x.pc = "chklock"
      /\ rmutex.by = Nobody
      /\ rmutex'.by = p
      /\ rmutex' \in Mutexes
      /\ UNCHANGED <<region, readers, wmutex, flock, pidlock, metas, env, orphans, deaths>>
  BY <1>1 DEF CheckLock, At, TypeInv, Mutexes, MayLock, Locked, Unlocked,
     Consistent
<1>6. /\ th'[p][t].pc = (IF rmutex.dead THEN "locked" ELSE "recheck")
      /\ th'[p][t].slot = x.slot /\ th'[p][t].r = x.r /\ th'[p][t].txn = x.txn
      /\ th'[p][t].i = (IF rmutex.dead THEN 1 ELSE x.i)
      /\ th'[p][t].rdrs = (IF rmutex.dead THEN region.num ELSE x.rdrs)
      /\ th'[p][t].pids = (IF rmutex.dead THEN {} ELSE x.pids)
      /\ th'[p][t].pid = x.pid
      /\ th'[p][t].then = (IF rmutex.dead THEN x.then ELSE x.then)
      /\ th'[p][t].dead = (IF rmutex.dead THEN Procs \ pidlock ELSE x.dead)
  BY <1>1, <1>4 DEF ThreadRecord, IdleThread, CheckFrom
<1>7. \A q \in Procs : \A u \in Threads[q] : q # p \/ u # t => th'[q][u] = th[q][u]
  BY <1>4
<1> HIDE DEF y
<1>8. TypeInv'
  BY <1>1, <1>4, <1>5 DEF TypeInv, Mutexes
<1>9. FileInv'
  BY <1>5 DEF IInv, FileInv
<1>10. ActiveInv'
  BY <1>5, <1>7 DEF IInv, ActiveInv
<1>11. StageInv'
  <2>1. StageOK(th'[p][t])
    BY <1>1, <1>5, <1>6 DEF StageOK, TablePcs, ClaimPcs, CheckPcs
  <2> QED BY <2>1, <1>7 DEF IInv, StageInv
<1>12. LiveInv'
  <2>1. \A q \in Procs : env'[q].live => q \in pidlock'
    BY <1>5 DEF IInv, LiveInv
  <2>2. NeedsLive(th'[p][t]) => NeedsLive(th[p][t])
    BY <1>1, <1>5, <1>6 DEF NeedsLive, StageOK, ClaimPcs
  <2> QED BY <2>1, <2>2, <1>5, <1>7 DEF IInv, LiveInv
<1>13. TableInv'
  <2>1. \A q \in Procs : \A u \in Threads[q] : ~InTable(th[q][u])
    BY <1>5 DEF IInv, TableInv
  <2>2. \A q \in Procs : \A u \in Threads[q] : InTable(th'[q][u]) => q = p /\ u = t
    BY <2>1, <1>7
  <2> QED BY <2>2, <1>5 DEF TableInv
<1>14. SlotInv'
  <2>1. SlotAt(p, th'[p][t], region'.num, env'[p].close, readers')
    BY <1>1, <1>5, <1>6 DEF SlotAt, StageOK, TablePcs, ClaimPcs, CheckPcs
  <2>2. ASSUME NEW q \in Procs, NEW u \in Threads[q], q # p \/ u # t
        PROVE  SlotAt(q, th'[q][u], region'.num, env'[q].close, readers')
    <3>1. th'[q][u] = th[q][u]
      BY <1>7, <2>2
    <3>2. /\ th[q][u].slot # 0 => readers'[th[q][u].slot] = readers[th[q][u].slot]
          /\ th[q][u].r # 0 => readers'[th[q][u].r] = readers[th[q][u].r]
      BY <1>5
    <3>3. /\ region'.num \in Int /\ region.num <= region'.num
          /\ env'[q].close \in Int /\ env[q].close <= env'[q].close
      BY <1>5, ThreadFacts
    <3> QED BY <3>1, <3>2, <3>3, ThreadFacts, SlotFrame
  <2> QED BY <2>1, <2>2 DEF SlotInv
<1>15. OwnInv'
  <2>1. \A q \in Procs : \A u \in Threads[q] : \A i \in 1..Slots :
            Owns(th'[q][u], i) => Owns(th[q][u], i)
    BY <1>5, <1>6, <1>7 DEF Owns
  <2> QED BY <2>1 DEF IInv, OwnInv
<1>16. CloseInv'
  BY <1>5 DEF IInv, CloseInv
<1>17. AccountInv'
  <2>1. \A q \in Procs : \A u \in Threads[q] : \A i \in 1..Slots :
            Owns(th[q][u], i) /\ readers'[i].pid # Nobody => Owns(th'[q][u], i)
    BY <1>1, <1>5, <1>6, <1>7 DEF Owns, StageOK, ClaimPcs
  <2>2. ASSUME NEW i \in 1..region'.num, i \notin orphans', readers'[i].pid # Nobody
        PROVE  i \in 1..region.num /\ i \notin orphans /\ readers'[i].pid = readers[i].pid
    BY <2>2, <1>1, <1>5
  <2>3. \A i \in 1..region.num : i \in 1..Slots /\ readers[i].pid \in Procs \cup {Nobody}
    BY <1>1 DEF TypeInv
  <2>4. ASSUME NEW i \in 1..region'.num, i \notin orphans', readers'[i].pid # Nobody, NEW q, q = readers'[i].pid
        PROVE  \/ env'[q].pc = "open" /\ \E u \in Threads[q] : Owns(th'[q][u], i)
               \/ env'[q].pc = "close" /\ i <= env'[q].close
    BY <2>1, <2>2, <2>3, <2>4, <1>5 DEF IInv, AccountInv
  <2> QED BY <2>4 DEF AccountInv
<1>18. WriterInv'
  <2>1. \A q \in Procs : \A u \in Threads[q] : Writing(th'[q][u]) => Writing(th[q][u])
    BY <1>5, <1>6, <1>7 DEF Writing
  <2> QED BY <2>1, <1>5 DEF IInv, WriterInv
<1>19. ~OpenBreaks => RegionInv'
  <2> SUFFICES ASSUME ~OpenBreaks PROVE RegionInv'
    OBVIOUS
  <2>1. Newest' = Newest /\ (InUse' => InUse)
    BY <1>5 DEF Newest, InUse
  <2>2. region'.txnid = region.txnid /\ wmutex' = wmutex
    BY <1>5
  <2>3. \A q \in Procs : \A u \in Threads[q] : CommitAt(th'[q][u], region'.txnid, Newest')
    BY <2>1, <2>2, <1>5, <1>6, <1>7 DEF IInv, RegionInv, CommitAt
  <2>4. \A q \in Procs : \A u \in Threads[q] : th[q][u].pc = "wrote" => th'[q][u].pc = "wrote"
    BY <1>5, <1>6, <1>7
  <2>5. Current => Current'
    BY <2>1, <2>2, <2>4 DEF Current
  <2> QED BY <2>1, <2>3, <2>5 DEF IInv, RegionInv
<1>20. CheckInv'
  <2>1. CheckAt(p, th'[p][t], region'.num, readers', pidlock')
    BY <1>1, <1>5, <1>6 DEF CheckAt, StageOK, TablePcs, ClaimPcs, CheckPcs
  <2>2. ASSUME NEW q \in Procs, NEW u \in Threads[q], q # p \/ u # t
        PROVE  CheckAt(q, th'[q][u], region'.num, readers', pidlock')
    <3>1. th'[q][u] = th[q][u]
      BY <1>7, <2>2
    <3>2. \A j \in 1..region'.num : readers'[j].pid \in th[q][u].dead =>
              j \in 1..region.num /\ readers'[j].pid = readers[j].pid
      BY <1>1, <1>5, ThreadFacts
    <3>3. th[q][u].dead \cap pidlock' = {}
      BY <1>5, ThreadFacts DEF CheckAt
    <3> QED BY <3>1, <3>2, <3>3, ThreadFacts, CheckFrame
  <2> QED BY <2>1, <2>2 DEF CheckInv
<1> QED BY <1>8, <1>9, <1>10, <1>11, <1>12, <1>13, <1>14, <1>15, <1>16, <1>17,
       <1>18, <1>19, <1>20 DEF IInv

\* The end of a check of the readers preserves the invariant.
LEMMA CheckEndStep ==
    ASSUME IInv, NEW p \in Procs, NEW t \in Threads[p], CheckEnd(p, t)
    PROVE  IInv'
<1> USE SlotsAssumption DEF T, Idle, NoTxn
<1> DEFINE x == th[p][t]
           y == IF x.then = Idle THEN [IdleThread EXCEPT !.slot = x.slot, !.txn = x.txn]
           ELSE [IdleThread EXCEPT !.slot = x.slot, !.txn = x.txn, !.pc = x.then]
<1>1. /\ ThType /\ TypeInv /\ region.num \in 0..Slots
      /\ x \in ThreadRecord /\ StageOK(x) /\ 0 \in 0..Slots
      /\ SlotAt(p, x, region.num, env[p].close, readers)
      /\ CheckAt(p, x, region.num, readers, pidlock)
  BY ThreadFacts DEF IInv, TypeInv, ThType
<1>2. y \in ThreadRecord
  <2>1. x.then \in ThreadPcs
    BY <1>1 DEF ThreadRecord, ThreadPcs, TablePcs
  <2> QED BY <1>1, <2>1, IdleIsThread DEF ThreadRecord
<1>3. Move(p, t, y)
  BY DEF CheckEnd, Goto, Return
<1>4. /\ ThType'
      /\ th'[p][t] = y
      /\ \A q \in Procs : \A u \in Threads[q] : q # p \/ u # t => th'[q][u] = th[q][u]
  BY <1>1, <1>2, <1>3, MoveEffect
<1>5. /\ env[p].pc = "open"
      /\ x.pc = "check"
      /\ x.then \in {"idle", "write"}
      /\ wmutex'.by = wmutex.by
      /\ x.then = "idle" => wmutex' = wmutex
      /\ wmutex' \in Mutexes
      /\ UNCHANGED <<region, readers, rmutex, flock, pidlock, metas, env, orphans, deaths>>
  <2>1. /\ env[p].pc = "open" /\ x.pc = "check"
        /\ wmutex' = wmutex \/ wmutex' = Consistent(wmutex)
        /\ UNCHANGED <<region, readers, rmutex, flock, pidlock, metas, env, orphans, deaths>>
    BY DEF CheckEnd, At
  <2>2. x.then \in {"idle", "write"}
    BY <1>1, <2>1 DEF ThreadRecord, StageOK
  <2>3. wmutex'.by = wmutex.by /\ wmutex' \in Mutexes
    BY <1>1, <2>1 DEF TypeInv, Mutexes, Consistent
  <2>4. x.then = "idle" => wmutex' = wmutex
    BY DEF CheckEnd
  <2> QED BY <2>1, <2>2, <2>3, <2>4
<1>6. /\ th'[p][t].pc = x.then /\ th'[p][t].slot = x.slot /\ th'[p][t].r = 0
      /\ th'[p][t].txn = x.txn /\ th'[p][t].i = 0 /\ th'[p][t].rdrs = 0
      /\ th'[p][t].pids = {} /\ th'[p][t].pid = Nobody /\ th'[p][t].then = "idle"
      /\ th'[p][t].dead = {}
  BY <1>1, <1>4 DEF ThreadRecord, IdleThread, CheckFrom
<1>7. \A q \in Procs : \A u \in Threads[q] : q # p \/ u # t => th'[q][u] = th[q][u]
  BY <1>4
<1> HIDE DEF y
<1>8. TypeInv'
  BY <1>1, <1>4, <1>5 DEF TypeInv, Mutexes
<1>9. FileInv'
  BY <1>5 DEF IInv, FileInv
<1>10. ActiveInv'
  BY <1>5, <1>7 DEF IInv, ActiveInv
<1>11. StageInv'
  <2>1. StageOK(th'[p][t])
    BY <1>1, <1>5, <1>6 DEF StageOK, TablePcs, ClaimPcs, CheckPcs
  <2> QED BY <2>1, <1>7 DEF IInv, StageInv
<1>12. LiveInv'
  <2>1. \A q \in Procs : env'[q].live => q \in pidlock'
    BY <1>5 DEF IInv, LiveInv
  <2>2. NeedsLive(th'[p][t]) => NeedsLive(th[p][t])
    BY <1>1, <1>5, <1>6 DEF NeedsLive, StageOK, ClaimPcs
  <2> QED BY <2>1, <2>2, <1>5, <1>7 DEF IInv, LiveInv
<1>13. TableInv'
  <2>1. \A q \in Procs : \A u \in Threads[q] : InTable(th'[q][u]) => InTable(th[q][u])
    BY <1>5, <1>6, <1>7 DEF InTable, TablePcs
  <2> QED BY <2>1, <1>5 DEF IInv, TableInv
<1>14. SlotInv'
  <2>1. SlotAt(p, th'[p][t], region'.num, env'[p].close, readers')
    BY <1>1, <1>5, <1>6 DEF SlotAt, StageOK, TablePcs, ClaimPcs, CheckPcs
  <2>2. ASSUME NEW q \in Procs, NEW u \in Threads[q], q # p \/ u # t
        PROVE  SlotAt(q, th'[q][u], region'.num, env'[q].close, readers')
    <3>1. th'[q][u] = th[q][u]
      BY <1>7, <2>2
    <3>2. /\ th[q][u].slot # 0 => readers'[th[q][u].slot] = readers[th[q][u].slot]
          /\ th[q][u].r # 0 => readers'[th[q][u].r] = readers[th[q][u].r]
      BY <1>5
    <3>3. /\ region'.num \in Int /\ region.num <= region'.num
          /\ env'[q].close \in Int /\ env[q].close <= env'[q].close
      BY <1>5, ThreadFacts
    <3> QED BY <3>1, <3>2, <3>3, ThreadFacts, SlotFrame
  <2> QED BY <2>1, <2>2 DEF SlotInv
<1>15. OwnInv'
  <2>1. \A q \in Procs : \A u \in Threads[q] : \A i \in 1..Slots :
            Owns(th'[q][u], i) => Owns(th[q][u], i)
    BY <1>5, <1>6, <1>7 DEF Owns
  <2> QED BY <2>1 DEF IInv, OwnInv
<1>16. CloseInv'
  BY <1>5 DEF IInv, CloseInv
<1>17. AccountInv'
  <2>1. \A q \in Procs : \A u \in Threads[q] : \A i \in 1..Slots :
            Owns(th[q][u], i) /\ readers'[i].pid # Nobody => Owns(th'[q][u], i)
    BY <1>1, <1>5, <1>6, <1>7 DEF Owns, StageOK, ClaimPcs
  <2>2. ASSUME NEW i \in 1..region'.num, i \notin orphans', readers'[i].pid # Nobody
        PROVE  i \in 1..region.num /\ i \notin orphans /\ readers'[i].pid = readers[i].pid
    BY <2>2, <1>1, <1>5
  <2>3. \A i \in 1..region.num : i \in 1..Slots /\ readers[i].pid \in Procs \cup {Nobody}
    BY <1>1 DEF TypeInv
  <2>4. ASSUME NEW i \in 1..region'.num, i \notin orphans', readers'[i].pid # Nobody, NEW q, q = readers'[i].pid
        PROVE  \/ env'[q].pc = "open" /\ \E u \in Threads[q] : Owns(th'[q][u], i)
               \/ env'[q].pc = "close" /\ i <= env'[q].close
    BY <2>1, <2>2, <2>3, <2>4, <1>5 DEF IInv, AccountInv
  <2> QED BY <2>4 DEF AccountInv
<1>18. WriterInv'
  <2>1. \A q \in Procs : \A u \in Threads[q] : Writing(th'[q][u]) => Writing(th[q][u])
    BY <1>5, <1>6, <1>7 DEF Writing
  <2> QED BY <2>1, <1>5 DEF IInv, WriterInv
<1>19. ~OpenBreaks => RegionInv'
  <2> SUFFICES ASSUME ~OpenBreaks PROVE RegionInv'
    OBVIOUS
  <2>1. Newest' = Newest /\ (InUse' => InUse)
    BY <1>5 DEF Newest, InUse
  <2>2. \A q \in Procs : \A u \in Threads[q] : CommitAt(th'[q][u], region'.txnid, Newest')
    BY <2>1, <1>5, <1>6, <1>7 DEF IInv, RegionInv, CommitAt
  <2>3. Current => Current'
    <3>1. CASE x.then = "idle"
      BY <3>1, <2>1, <1>5, <1>6, <1>7 DEF Current
    <3>2. CASE x.then = "write"
      BY <3>2, <2>1, <1>5 DEF Current, IInv, RegionInv, CommitAt
    <3> QED BY <3>1, <3>2, <1>5
  <2> QED BY <2>1, <2>2, <2>3, <1>5 DEF IInv, RegionInv
<1>20. CheckInv'
  <2>1. CheckAt(p, th'[p][t], region'.num, readers', pidlock')
    BY <1>1, <1>5, <1>6 DEF CheckAt, StageOK, TablePcs, ClaimPcs, CheckPcs
  <2>2. ASSUME NEW q \in Procs, NEW u \in Threads[q], q # p \/ u # t
        PROVE  CheckAt(q, th'[q][u], region'.num, readers', pidlock')
    <3>1. th'[q][u] = th[q][u]
      BY <1>7, <2>2
    <3>2. \A j \in 1..region'.num : readers'[j].pid \in th[q][u].dead =>
              j \in 1..region.num /\ readers'[j].pid = readers[j].pid
      BY <1>1, <1>5, ThreadFacts
    <3>3. th[q][u].dead \cap pidlock' = {}
      BY <1>5, ThreadFacts DEF CheckAt
    <3> QED BY <3>1, <3>2, <3>3, ThreadFacts, CheckFrame
  <2> QED BY <2>1, <2>2 DEF CheckInv
<1> QED BY <1>8, <1>9, <1>10, <1>11, <1>12, <1>13, <1>14, <1>15, <1>16, <1>17,
       <1>18, <1>19, <1>20 DEF IInv

\* The end of the recovery of the mutex preserves the invariant.
LEMMA LockedEndStep ==
    ASSUME IInv, NEW p \in Procs, NEW t \in Threads[p], LockedEnd(p, t)
    PROVE  IInv'
<1> USE SlotsAssumption DEF T, Idle, NoTxn
<1> DEFINE x == th[p][t]
           y == IF x.then = "scan" THEN [IdleThread EXCEPT !.slot = x.slot, !.pc = "scan"] ELSE [x EXCEPT !.pc = "check", !.pid = Nobody]
<1>1. /\ ThType /\ TypeInv /\ region.num \in 0..Slots
      /\ x \in ThreadRecord /\ StageOK(x) /\ 0 \in 0..Slots
      /\ SlotAt(p, x, region.num, env[p].close, readers)
      /\ CheckAt(p, x, region.num, readers, pidlock)
  BY ThreadFacts DEF IInv, TypeInv, ThType
<1>2. y \in ThreadRecord
  BY <1>1 DEF ThreadRecord, ThreadPcs, TablePcs, CheckPcs, IdleThread
<1>3. Move(p, t, y)
  BY DEF LockedEnd, Goto, Return
<1>4. /\ ThType'
      /\ th'[p][t] = y
      /\ \A q \in Procs : \A u \in Threads[q] : q # p \/ u # t => th'[q][u] = th[q][u]
  BY <1>1, <1>2, <1>3, MoveEffect
<1>5. /\ env[p].pc = "open"
      /\ x.pc = "locked"
      /\ x.then = "scan" => rmutex'.by = rmutex.by
      /\ rmutex' \in Mutexes
      /\ UNCHANGED <<region, readers, wmutex, flock, pidlock, metas, env, orphans, deaths>>
  BY <1>1 DEF LockedEnd, At, TypeInv, Mutexes, MayLock, Locked, Unlocked,
     Consistent
<1>6. /\ th'[p][t].pc = (IF x.then = "scan" THEN "scan" ELSE "check")
      /\ th'[p][t].slot = x.slot
      /\ th'[p][t].r = (IF x.then = "scan" THEN 0 ELSE x.r)
      /\ th'[p][t].txn = (IF x.then = "scan" THEN -1 ELSE x.txn)
      /\ th'[p][t].i = (IF x.then = "scan" THEN 0 ELSE x.i)
      /\ th'[p][t].rdrs = (IF x.then = "scan" THEN 0 ELSE x.rdrs)
      /\ th'[p][t].pids = (IF x.then = "scan" THEN {} ELSE x.pids)
      /\ th'[p][t].pid = Nobody
      /\ th'[p][t].then = (IF x.then = "scan" THEN "idle" ELSE x.then)
      /\ th'[p][t].dead = (IF x.then = "scan" THEN {} ELSE x.dead)
  BY <1>1, <1>4 DEF ThreadRecord, IdleThread, CheckFrom
<1>7. \A q \in Procs : \A u \in Threads[q] : q # p \/ u # t => th'[q][u] = th[q][u]
  BY <1>4
<1> HIDE DEF y
<1>8. TypeInv'
  BY <1>1, <1>4, <1>5 DEF TypeInv, Mutexes
<1>9. FileInv'
  BY <1>5 DEF IInv, FileInv
<1>10. ActiveInv'
  BY <1>5, <1>7 DEF IInv, ActiveInv
<1>11. StageInv'
  <2>1. StageOK(th'[p][t])
    BY <1>1, <1>5, <1>6 DEF StageOK, TablePcs, ClaimPcs, CheckPcs
  <2> QED BY <2>1, <1>7 DEF IInv, StageInv
<1>12. LiveInv'
  <2>1. \A q \in Procs : env'[q].live => q \in pidlock'
    BY <1>5 DEF IInv, LiveInv
  <2>2. NeedsLive(th'[p][t]) => NeedsLive(th[p][t])
    BY <1>1, <1>5, <1>6 DEF NeedsLive, StageOK, ClaimPcs
  <2> QED BY <2>1, <2>2, <1>5, <1>7 DEF IInv, LiveInv
<1>13. TableInv'
  <2>1. InTable(th[p][t])
    BY <1>5 DEF InTable, TablePcs
  <2>2. \A q \in Procs : \A u \in Threads[q] : InTable(th'[q][u]) => q = p /\ u = t
    BY <2>1, <1>7 DEF IInv, TableInv
  <2>3. InTable(th'[p][t]) => x.then = "scan"
    BY <1>6 DEF InTable, TablePcs
  <2> QED BY <2>1, <2>2, <2>3, <1>5 DEF IInv, TableInv
<1>14. SlotInv'
  <2>1. SlotAt(p, th'[p][t], region'.num, env'[p].close, readers')
    BY <1>1, <1>5, <1>6 DEF SlotAt, StageOK, TablePcs, ClaimPcs, CheckPcs
  <2>2. ASSUME NEW q \in Procs, NEW u \in Threads[q], q # p \/ u # t
        PROVE  SlotAt(q, th'[q][u], region'.num, env'[q].close, readers')
    <3>1. th'[q][u] = th[q][u]
      BY <1>7, <2>2
    <3>2. /\ th[q][u].slot # 0 => readers'[th[q][u].slot] = readers[th[q][u].slot]
          /\ th[q][u].r # 0 => readers'[th[q][u].r] = readers[th[q][u].r]
      BY <1>5
    <3>3. /\ region'.num \in Int /\ region.num <= region'.num
          /\ env'[q].close \in Int /\ env[q].close <= env'[q].close
      BY <1>5, ThreadFacts
    <3> QED BY <3>1, <3>2, <3>3, ThreadFacts, SlotFrame
  <2> QED BY <2>1, <2>2 DEF SlotInv
<1>15. OwnInv'
  <2>1. \A q \in Procs : \A u \in Threads[q] : \A i \in 1..Slots :
            Owns(th'[q][u], i) => Owns(th[q][u], i)
    BY <1>5, <1>6, <1>7 DEF Owns
  <2> QED BY <2>1 DEF IInv, OwnInv
<1>16. CloseInv'
  BY <1>5 DEF IInv, CloseInv
<1>17. AccountInv'
  <2>1. \A q \in Procs : \A u \in Threads[q] : \A i \in 1..Slots :
            Owns(th[q][u], i) /\ readers'[i].pid # Nobody => Owns(th'[q][u], i)
    BY <1>1, <1>5, <1>6, <1>7 DEF Owns, StageOK, ClaimPcs
  <2>2. ASSUME NEW i \in 1..region'.num, i \notin orphans', readers'[i].pid # Nobody
        PROVE  i \in 1..region.num /\ i \notin orphans /\ readers'[i].pid = readers[i].pid
    BY <2>2, <1>1, <1>5
  <2>3. \A i \in 1..region.num : i \in 1..Slots /\ readers[i].pid \in Procs \cup {Nobody}
    BY <1>1 DEF TypeInv
  <2>4. ASSUME NEW i \in 1..region'.num, i \notin orphans', readers'[i].pid # Nobody, NEW q, q = readers'[i].pid
        PROVE  \/ env'[q].pc = "open" /\ \E u \in Threads[q] : Owns(th'[q][u], i)
               \/ env'[q].pc = "close" /\ i <= env'[q].close
    BY <2>1, <2>2, <2>3, <2>4, <1>5 DEF IInv, AccountInv
  <2> QED BY <2>4 DEF AccountInv
<1>18. WriterInv'
  <2>1. \A q \in Procs : \A u \in Threads[q] : Writing(th'[q][u]) => Writing(th[q][u])
    BY <1>5, <1>6, <1>7 DEF Writing
  <2> QED BY <2>1, <1>5 DEF IInv, WriterInv
<1>19. ~OpenBreaks => RegionInv'
  <2> SUFFICES ASSUME ~OpenBreaks PROVE RegionInv'
    OBVIOUS
  <2>1. Newest' = Newest /\ (InUse' => InUse)
    BY <1>5 DEF Newest, InUse
  <2>2. region'.txnid = region.txnid /\ wmutex' = wmutex
    BY <1>5
  <2>3. \A q \in Procs : \A u \in Threads[q] : CommitAt(th'[q][u], region'.txnid, Newest')
    BY <2>1, <2>2, <1>5, <1>6, <1>7 DEF IInv, RegionInv, CommitAt
  <2>4. \A q \in Procs : \A u \in Threads[q] : th[q][u].pc = "wrote" => th'[q][u].pc = "wrote"
    BY <1>5, <1>6, <1>7
  <2>5. Current => Current'
    BY <2>1, <2>2, <2>4 DEF Current
  <2> QED BY <2>1, <2>3, <2>5 DEF IInv, RegionInv
<1>20. CheckInv'
  <2>1. CheckAt(p, th'[p][t], region'.num, readers', pidlock')
    BY <1>1, <1>5, <1>6 DEF CheckAt, StageOK, TablePcs, ClaimPcs, CheckPcs
  <2>2. ASSUME NEW q \in Procs, NEW u \in Threads[q], q # p \/ u # t
        PROVE  CheckAt(q, th'[q][u], region'.num, readers', pidlock')
    <3>1. th'[q][u] = th[q][u]
      BY <1>7, <2>2
    <3>2. \A j \in 1..region'.num : readers'[j].pid \in th[q][u].dead =>
              j \in 1..region.num /\ readers'[j].pid = readers[j].pid
      BY <1>1, <1>5, ThreadFacts
    <3>3. th[q][u].dead \cap pidlock' = {}
      BY <1>5, ThreadFacts DEF CheckAt
    <3> QED BY <3>1, <3>2, <3>3, ThreadFacts, CheckFrame
  <2> QED BY <2>1, <2>2 DEF CheckInv
<1> QED BY <1>8, <1>9, <1>10, <1>11, <1>12, <1>13, <1>14, <1>15, <1>16, <1>17,
       <1>18, <1>19, <1>20 DEF IInv

\* Locking the mutex of the writer, and recovering the id, preserves the invariant.
LEMMA WrLockStep ==
    ASSUME IInv, NEW p \in Procs, NEW t \in Threads[p], WrLock(p, t)
    PROVE  IInv'
<1> USE SlotsAssumption DEF T, Idle, NoTxn
<1> DEFINE x == th[p][t]
           y == IF wmutex.dead THEN CheckFrom(x, "check", "write") ELSE [x EXCEPT !.pc = "write"]
<1>1. /\ ThType /\ TypeInv /\ region.num \in 0..Slots
      /\ x \in ThreadRecord /\ StageOK(x) /\ 0 \in 0..Slots
      /\ SlotAt(p, x, region.num, env[p].close, readers)
      /\ CheckAt(p, x, region.num, readers, pidlock)
  BY ThreadFacts DEF IInv, TypeInv, ThType
<1>2. y \in ThreadRecord
  BY <1>1 DEF ThreadRecord, ThreadPcs, TablePcs, CheckPcs, CheckFrom, TypeInv
<1>3. Move(p, t, y)
  BY DEF WrLock, Goto, Return
<1>4. /\ ThType'
      /\ th'[p][t] = y
      /\ \A q \in Procs : \A u \in Threads[q] : q # p \/ u # t => th'[q][u] = th[q][u]
  BY <1>1, <1>2, <1>3, MoveEffect
<1>5. /\ env[p].pc = "open"
      /\ x.pc = "idle"
      /\ wmutex.by = Nobody
      /\ wmutex'.by = p /\ wmutex'.dead = wmutex.dead
      /\ wmutex' \in Mutexes
      /\ region' \in [magic : BOOLEAN, txnid : Nat, num : 0..Slots]
      /\ region'.num = region.num /\ region'.magic = region.magic
      /\ region'.txnid = IF wmutex.dead THEN Newest ELSE region.txnid
      /\ UNCHANGED <<readers, rmutex, flock, pidlock, metas, env, orphans, deaths>>
  <2>1. Newest \in Nat
    <3>1. metas[0] \in Nat /\ metas[1] \in Nat
      BY <1>1 DEF TypeInv
    <3> QED BY <3>1, MaxOfTwo DEF Newest
  <2>2. /\ env[p].pc = "open" /\ x.pc = "idle" /\ wmutex.by = Nobody
        /\ wmutex' = Locked(wmutex, p)
        /\ region' = IF wmutex.dead THEN Recovered ELSE region
        /\ UNCHANGED <<readers, rmutex, flock, pidlock, metas, env, orphans, deaths>>
    BY DEF WrLock, At, MayLock
  <2>3. wmutex'.by = p /\ wmutex'.dead = wmutex.dead /\ wmutex' \in Mutexes
    BY <1>1, <2>2 DEF TypeInv, Mutexes, Locked
  <2>4. CASE wmutex.dead
    BY <1>1, <2>1, <2>2, <2>3, <2>4 DEF TypeInv, Recovered
  <2>5. CASE ~wmutex.dead
    BY <1>1, <2>2, <2>3, <2>5 DEF TypeInv
  <2> QED BY <2>4, <2>5
<1>6. /\ th'[p][t].pc = (IF wmutex.dead THEN "check" ELSE "write")
      /\ th'[p][t].slot = x.slot /\ th'[p][t].r = x.r /\ th'[p][t].txn = x.txn
      /\ th'[p][t].i = (IF wmutex.dead THEN 1 ELSE x.i)
      /\ th'[p][t].rdrs = (IF wmutex.dead THEN region.num ELSE x.rdrs)
      /\ th'[p][t].pids = (IF wmutex.dead THEN {} ELSE x.pids)
      /\ th'[p][t].pid = (IF wmutex.dead THEN Nobody ELSE x.pid)
      /\ th'[p][t].then = (IF wmutex.dead THEN "write" ELSE x.then)
      /\ th'[p][t].dead = (IF wmutex.dead THEN Procs \ pidlock ELSE x.dead)
  BY <1>1, <1>4 DEF ThreadRecord, IdleThread, CheckFrom
<1>7. \A q \in Procs : \A u \in Threads[q] : q # p \/ u # t => th'[q][u] = th[q][u]
  BY <1>4
<1> HIDE DEF y
<1>8. TypeInv'
  BY <1>1, <1>4, <1>5 DEF TypeInv, Mutexes
<1>9. FileInv'
  BY <1>5 DEF IInv, FileInv
<1>10. ActiveInv'
  BY <1>5, <1>7 DEF IInv, ActiveInv
<1>11. StageInv'
  <2>1. StageOK(th'[p][t])
    BY <1>1, <1>5, <1>6 DEF StageOK, TablePcs, ClaimPcs, CheckPcs
  <2> QED BY <2>1, <1>7 DEF IInv, StageInv
<1>12. LiveInv'
  <2>1. \A q \in Procs : env'[q].live => q \in pidlock'
    BY <1>5 DEF IInv, LiveInv
  <2>2. NeedsLive(th'[p][t]) => NeedsLive(th[p][t])
    BY <1>1, <1>5, <1>6 DEF NeedsLive, StageOK, ClaimPcs
  <2> QED BY <2>1, <2>2, <1>5, <1>7 DEF IInv, LiveInv
<1>13. TableInv'
  <2>1. \A q \in Procs : \A u \in Threads[q] : InTable(th'[q][u]) => InTable(th[q][u])
    BY <1>5, <1>6, <1>7 DEF InTable, TablePcs
  <2> QED BY <2>1, <1>5 DEF IInv, TableInv
<1>14. SlotInv'
  <2>1. SlotAt(p, th'[p][t], region'.num, env'[p].close, readers')
    BY <1>1, <1>5, <1>6 DEF SlotAt, StageOK, TablePcs, ClaimPcs, CheckPcs
  <2>2. ASSUME NEW q \in Procs, NEW u \in Threads[q], q # p \/ u # t
        PROVE  SlotAt(q, th'[q][u], region'.num, env'[q].close, readers')
    <3>1. th'[q][u] = th[q][u]
      BY <1>7, <2>2
    <3>2. /\ th[q][u].slot # 0 => readers'[th[q][u].slot] = readers[th[q][u].slot]
          /\ th[q][u].r # 0 => readers'[th[q][u].r] = readers[th[q][u].r]
      BY <1>5
    <3>3. /\ region'.num \in Int /\ region.num <= region'.num
          /\ env'[q].close \in Int /\ env[q].close <= env'[q].close
      BY <1>5, ThreadFacts
    <3> QED BY <3>1, <3>2, <3>3, ThreadFacts, SlotFrame
  <2> QED BY <2>1, <2>2 DEF SlotInv
<1>15. OwnInv'
  <2>1. \A q \in Procs : \A u \in Threads[q] : \A i \in 1..Slots :
            Owns(th'[q][u], i) => Owns(th[q][u], i)
    BY <1>5, <1>6, <1>7 DEF Owns
  <2> QED BY <2>1 DEF IInv, OwnInv
<1>16. CloseInv'
  BY <1>5 DEF IInv, CloseInv
<1>17. AccountInv'
  <2>1. \A q \in Procs : \A u \in Threads[q] : \A i \in 1..Slots :
            Owns(th[q][u], i) /\ readers'[i].pid # Nobody => Owns(th'[q][u], i)
    BY <1>1, <1>5, <1>6, <1>7 DEF Owns, StageOK, ClaimPcs
  <2>2. ASSUME NEW i \in 1..region'.num, i \notin orphans', readers'[i].pid # Nobody
        PROVE  i \in 1..region.num /\ i \notin orphans /\ readers'[i].pid = readers[i].pid
    BY <2>2, <1>1, <1>5
  <2>3. \A i \in 1..region.num : i \in 1..Slots /\ readers[i].pid \in Procs \cup {Nobody}
    BY <1>1 DEF TypeInv
  <2>4. ASSUME NEW i \in 1..region'.num, i \notin orphans', readers'[i].pid # Nobody, NEW q, q = readers'[i].pid
        PROVE  \/ env'[q].pc = "open" /\ \E u \in Threads[q] : Owns(th'[q][u], i)
               \/ env'[q].pc = "close" /\ i <= env'[q].close
    BY <2>1, <2>2, <2>3, <2>4, <1>5 DEF IInv, AccountInv
  <2> QED BY <2>4 DEF AccountInv
<1>18. WriterInv'
  <2>1. \A q \in Procs : \A u \in Threads[q] : ~Writing(th[q][u])
    BY <1>5 DEF IInv, WriterInv
  <2>2. \A q \in Procs : \A u \in Threads[q] : Writing(th'[q][u]) => q = p /\ u = t
    BY <2>1, <1>7
  <2> QED BY <2>2, <1>5 DEF WriterInv
<1>19. ~OpenBreaks => RegionInv'
  <2> SUFFICES ASSUME ~OpenBreaks PROVE RegionInv'
    OBVIOUS
  <2>1. Newest' = Newest /\ (InUse' => InUse)
    BY <1>5 DEF Newest, InUse
  <2>2. \A q \in Procs : \A u \in Threads[q] : CommitAt(th'[q][u], region'.txnid, Newest')
    <3>1. \A q \in Procs : \A u \in Threads[q] : ~Writing(th[q][u])
      BY <1>5 DEF IInv, WriterInv
    <3>2. CommitAt(th'[p][t], region'.txnid, Newest')
      <4>1. CASE wmutex.dead
        BY <4>1, <2>1, <1>5, <1>6, <3>1 DEF CommitAt, Writing
      <4>2. CASE ~wmutex.dead
        <5>1. Current
          BY <1>5 DEF IInv, RegionInv, InUse, FileInv
        <5>2. region.txnid = Newest
          BY <5>1, <4>2, <3>1 DEF Current, Writing
        <5> QED BY <4>2, <5>2, <2>1, <1>5, <1>6 DEF CommitAt
      <4> QED BY <4>1, <4>2
    <3>3. \A q \in Procs : \A u \in Threads[q] : q # p \/ u # t => CommitAt(th'[q][u], region'.txnid, Newest')
      BY <3>1, <1>7 DEF CommitAt, Writing
    <3> QED BY <3>2, <3>3
  <2>3. Current => Current'
    <3>1. CASE wmutex.dead
      BY <3>1, <2>1, <1>5 DEF Current
    <3>2. CASE ~wmutex.dead
      BY <3>2, <2>1, <1>5, <1>6, <1>7 DEF Current
    <3> QED BY <3>1, <3>2
  <2> QED BY <2>1, <2>2, <2>3, <1>5 DEF IInv, RegionInv
<1>20. CheckInv'
  <2>1. CheckAt(p, th'[p][t], region'.num, readers', pidlock')
    BY <1>1, <1>5, <1>6 DEF CheckAt, StageOK, TablePcs, ClaimPcs, CheckPcs
  <2>2. ASSUME NEW q \in Procs, NEW u \in Threads[q], q # p \/ u # t
        PROVE  CheckAt(q, th'[q][u], region'.num, readers', pidlock')
    <3>1. th'[q][u] = th[q][u]
      BY <1>7, <2>2
    <3>2. \A j \in 1..region'.num : readers'[j].pid \in th[q][u].dead =>
              j \in 1..region.num /\ readers'[j].pid = readers[j].pid
      BY <1>1, <1>5, ThreadFacts
    <3>3. th[q][u].dead \cap pidlock' = {}
      BY <1>5, ThreadFacts DEF CheckAt
    <3> QED BY <3>1, <3>2, <3>3, ThreadFacts, CheckFrame
  <2> QED BY <2>1, <2>2 DEF CheckInv
<1> QED BY <1>8, <1>9, <1>10, <1>11, <1>12, <1>13, <1>14, <1>15, <1>16, <1>17,
       <1>18, <1>19, <1>20 DEF IInv

\* Aborting a write transaction preserves the invariant.
LEMMA WrAbortStep ==
    ASSUME IInv, NEW p \in Procs, NEW t \in Threads[p], WrAbort(p, t)
    PROVE  IInv'
<1> USE SlotsAssumption DEF T, Idle, NoTxn
<1> DEFINE x == th[p][t]
           y == [IdleThread EXCEPT !.slot = x.slot, !.txn = x.txn]
<1>1. /\ ThType /\ TypeInv /\ region.num \in 0..Slots
      /\ x \in ThreadRecord /\ StageOK(x) /\ 0 \in 0..Slots
      /\ SlotAt(p, x, region.num, env[p].close, readers)
      /\ CheckAt(p, x, region.num, readers, pidlock)
  BY ThreadFacts DEF IInv, TypeInv, ThType
<1>2. y \in ThreadRecord
  BY <1>1, IdleIsThread
<1>3. Move(p, t, y)
  BY DEF WrAbort, Goto, Return
<1>4. /\ ThType'
      /\ th'[p][t] = y
      /\ \A q \in Procs : \A u \in Threads[q] : q # p \/ u # t => th'[q][u] = th[q][u]
  BY <1>1, <1>2, <1>3, MoveEffect
<1>5. /\ env[p].pc = "open"
      /\ x.pc = "write"
      /\ wmutex'.by = Nobody /\ wmutex'.dead = wmutex.dead
      /\ wmutex' \in Mutexes
      /\ UNCHANGED <<region, readers, rmutex, flock, pidlock, metas, env, orphans, deaths>>
  BY <1>1 DEF WrAbort, At, TypeInv, Mutexes, MayLock, Locked, Unlocked,
     Consistent
<1>6. /\ th'[p][t].pc = "idle" /\ th'[p][t].slot = x.slot /\ th'[p][t].r = 0
      /\ th'[p][t].txn = x.txn /\ th'[p][t].i = 0 /\ th'[p][t].rdrs = 0
      /\ th'[p][t].pids = {} /\ th'[p][t].pid = Nobody /\ th'[p][t].then = "idle"
      /\ th'[p][t].dead = {}
  BY <1>1, <1>4 DEF ThreadRecord, IdleThread, CheckFrom
<1>7. \A q \in Procs : \A u \in Threads[q] : q # p \/ u # t => th'[q][u] = th[q][u]
  BY <1>4
<1> HIDE DEF y
<1>8. TypeInv'
  BY <1>1, <1>4, <1>5 DEF TypeInv, Mutexes
<1>9. FileInv'
  BY <1>5 DEF IInv, FileInv
<1>10. ActiveInv'
  BY <1>5, <1>7 DEF IInv, ActiveInv
<1>11. StageInv'
  <2>1. StageOK(th'[p][t])
    BY <1>1, <1>5, <1>6 DEF StageOK, TablePcs, ClaimPcs, CheckPcs
  <2> QED BY <2>1, <1>7 DEF IInv, StageInv
<1>12. LiveInv'
  <2>1. \A q \in Procs : env'[q].live => q \in pidlock'
    BY <1>5 DEF IInv, LiveInv
  <2>2. NeedsLive(th'[p][t]) => NeedsLive(th[p][t])
    BY <1>1, <1>5, <1>6 DEF NeedsLive, StageOK, ClaimPcs
  <2> QED BY <2>1, <2>2, <1>5, <1>7 DEF IInv, LiveInv
<1>13. TableInv'
  <2>1. \A q \in Procs : \A u \in Threads[q] : InTable(th'[q][u]) => InTable(th[q][u])
    BY <1>5, <1>6, <1>7 DEF InTable, TablePcs
  <2> QED BY <2>1, <1>5 DEF IInv, TableInv
<1>14. SlotInv'
  <2>1. SlotAt(p, th'[p][t], region'.num, env'[p].close, readers')
    BY <1>1, <1>5, <1>6 DEF SlotAt, StageOK, TablePcs, ClaimPcs, CheckPcs
  <2>2. ASSUME NEW q \in Procs, NEW u \in Threads[q], q # p \/ u # t
        PROVE  SlotAt(q, th'[q][u], region'.num, env'[q].close, readers')
    <3>1. th'[q][u] = th[q][u]
      BY <1>7, <2>2
    <3>2. /\ th[q][u].slot # 0 => readers'[th[q][u].slot] = readers[th[q][u].slot]
          /\ th[q][u].r # 0 => readers'[th[q][u].r] = readers[th[q][u].r]
      BY <1>5
    <3>3. /\ region'.num \in Int /\ region.num <= region'.num
          /\ env'[q].close \in Int /\ env[q].close <= env'[q].close
      BY <1>5, ThreadFacts
    <3> QED BY <3>1, <3>2, <3>3, ThreadFacts, SlotFrame
  <2> QED BY <2>1, <2>2 DEF SlotInv
<1>15. OwnInv'
  <2>1. \A q \in Procs : \A u \in Threads[q] : \A i \in 1..Slots :
            Owns(th'[q][u], i) => Owns(th[q][u], i)
    BY <1>5, <1>6, <1>7 DEF Owns
  <2> QED BY <2>1 DEF IInv, OwnInv
<1>16. CloseInv'
  BY <1>5 DEF IInv, CloseInv
<1>17. AccountInv'
  <2>1. \A q \in Procs : \A u \in Threads[q] : \A i \in 1..Slots :
            Owns(th[q][u], i) /\ readers'[i].pid # Nobody => Owns(th'[q][u], i)
    BY <1>1, <1>5, <1>6, <1>7 DEF Owns, StageOK, ClaimPcs
  <2>2. ASSUME NEW i \in 1..region'.num, i \notin orphans', readers'[i].pid # Nobody
        PROVE  i \in 1..region.num /\ i \notin orphans /\ readers'[i].pid = readers[i].pid
    BY <2>2, <1>1, <1>5
  <2>3. \A i \in 1..region.num : i \in 1..Slots /\ readers[i].pid \in Procs \cup {Nobody}
    BY <1>1 DEF TypeInv
  <2>4. ASSUME NEW i \in 1..region'.num, i \notin orphans', readers'[i].pid # Nobody, NEW q, q = readers'[i].pid
        PROVE  \/ env'[q].pc = "open" /\ \E u \in Threads[q] : Owns(th'[q][u], i)
               \/ env'[q].pc = "close" /\ i <= env'[q].close
    BY <2>1, <2>2, <2>3, <2>4, <1>5 DEF IInv, AccountInv
  <2> QED BY <2>4 DEF AccountInv
<1>18. WriterInv'
  <2>1. Writing(th[p][t]) /\ ~Writing(th'[p][t])
    BY <1>5, <1>6 DEF Writing
  <2>2. \A q \in Procs : \A u \in Threads[q] : ~Writing(th'[q][u])
    BY <2>1, <1>7 DEF IInv, WriterInv
  <2> QED BY <2>2 DEF WriterInv
<1>19. ~OpenBreaks => RegionInv'
  <2> SUFFICES ASSUME ~OpenBreaks PROVE RegionInv'
    OBVIOUS
  <2>1. Newest' = Newest /\ (InUse' => InUse)
    BY <1>5 DEF Newest, InUse
  <2>2. \A q \in Procs : \A u \in Threads[q] : CommitAt(th'[q][u], region'.txnid, Newest')
    BY <2>1, <1>5, <1>6, <1>7 DEF IInv, RegionInv, CommitAt
  <2>3. Current => Current'
    BY <2>1, <1>5, <1>6, <1>7 DEF Current
  <2> QED BY <2>1, <2>2, <2>3, <1>5 DEF IInv, RegionInv
<1>20. CheckInv'
  <2>1. CheckAt(p, th'[p][t], region'.num, readers', pidlock')
    BY <1>1, <1>5, <1>6 DEF CheckAt, StageOK, TablePcs, ClaimPcs, CheckPcs
  <2>2. ASSUME NEW q \in Procs, NEW u \in Threads[q], q # p \/ u # t
        PROVE  CheckAt(q, th'[q][u], region'.num, readers', pidlock')
    <3>1. th'[q][u] = th[q][u]
      BY <1>7, <2>2
    <3>2. \A j \in 1..region'.num : readers'[j].pid \in th[q][u].dead =>
              j \in 1..region.num /\ readers'[j].pid = readers[j].pid
      BY <1>1, <1>5, ThreadFacts
    <3>3. th[q][u].dead \cap pidlock' = {}
      BY <1>5, ThreadFacts DEF CheckAt
    <3> QED BY <3>1, <3>2, <3>3, ThreadFacts, CheckFrame
  <2> QED BY <2>1, <2>2 DEF CheckInv
<1> QED BY <1>8, <1>9, <1>10, <1>11, <1>12, <1>13, <1>14, <1>15, <1>16, <1>17,
       <1>18, <1>19, <1>20 DEF IInv

\* Storing the id of a commit in the lock file preserves the invariant.
LEMMA WrPublishStep ==
    ASSUME IInv, NEW p \in Procs, NEW t \in Threads[p], WrPublish(p, t)
    PROVE  IInv'
<1> USE SlotsAssumption DEF T, Idle, NoTxn
<1> DEFINE x == th[p][t]
           y == [IdleThread EXCEPT !.slot = x.slot, !.txn = x.txn]
<1>1. /\ ThType /\ TypeInv /\ region.num \in 0..Slots
      /\ x \in ThreadRecord /\ StageOK(x) /\ 0 \in 0..Slots
      /\ SlotAt(p, x, region.num, env[p].close, readers)
      /\ CheckAt(p, x, region.num, readers, pidlock)
  BY ThreadFacts DEF IInv, TypeInv, ThType
<1>2. y \in ThreadRecord
  BY <1>1, IdleIsThread
<1>3. Move(p, t, y)
  BY DEF WrPublish, Goto, Return
<1>4. /\ ThType'
      /\ th'[p][t] = y
      /\ \A q \in Procs : \A u \in Threads[q] : q # p \/ u # t => th'[q][u] = th[q][u]
  BY <1>1, <1>2, <1>3, MoveEffect
<1>5. /\ env[p].pc = "open"
      /\ x.pc = "wrote"
      /\ wmutex'.by = Nobody /\ wmutex'.dead = wmutex.dead
      /\ wmutex' \in Mutexes
      /\ region' \in [magic : BOOLEAN, txnid : Nat, num : 0..Slots]
      /\ region'.num = region.num /\ region'.magic = region.magic
      /\ region'.txnid = region.txnid + 1
      /\ UNCHANGED <<readers, rmutex, flock, pidlock, metas, env, orphans, deaths>>
  <2>1. /\ env[p].pc = "open" /\ x.pc = "wrote"
        /\ region' = [region EXCEPT !.txnid = region.txnid + 1] /\ wmutex' = Unlocked(wmutex)
        /\ UNCHANGED <<readers, rmutex, flock, pidlock, metas, env, orphans, deaths>>
    BY DEF WrPublish, At
  <2>2. wmutex'.by = Nobody /\ wmutex'.dead = wmutex.dead /\ wmutex' \in Mutexes
    BY <1>1, <2>1 DEF TypeInv, Mutexes, Unlocked
  <2>3. region.txnid + 1 \in Nat
    BY <1>1 DEF TypeInv
  <2>4. /\ region' \in [magic : BOOLEAN, txnid : Nat, num : 0..Slots]
        /\ region'.num = region.num /\ region'.magic = region.magic
        /\ region'.txnid = region.txnid + 1
    BY <1>1, <2>1, <2>3 DEF TypeInv
  <2> QED BY <2>1, <2>2, <2>4
<1>6. /\ th'[p][t].pc = "idle" /\ th'[p][t].slot = x.slot /\ th'[p][t].r = 0
      /\ th'[p][t].txn = x.txn /\ th'[p][t].i = 0 /\ th'[p][t].rdrs = 0
      /\ th'[p][t].pids = {} /\ th'[p][t].pid = Nobody /\ th'[p][t].then = "idle"
      /\ th'[p][t].dead = {}
  BY <1>1, <1>4 DEF ThreadRecord, IdleThread, CheckFrom
<1>7. \A q \in Procs : \A u \in Threads[q] : q # p \/ u # t => th'[q][u] = th[q][u]
  BY <1>4
<1> HIDE DEF y
<1>8. TypeInv'
  BY <1>1, <1>4, <1>5 DEF TypeInv, Mutexes
<1>9. FileInv'
  BY <1>5 DEF IInv, FileInv
<1>10. ActiveInv'
  BY <1>5, <1>7 DEF IInv, ActiveInv
<1>11. StageInv'
  <2>1. StageOK(th'[p][t])
    BY <1>1, <1>5, <1>6 DEF StageOK, TablePcs, ClaimPcs, CheckPcs
  <2> QED BY <2>1, <1>7 DEF IInv, StageInv
<1>12. LiveInv'
  <2>1. \A q \in Procs : env'[q].live => q \in pidlock'
    BY <1>5 DEF IInv, LiveInv
  <2>2. NeedsLive(th'[p][t]) => NeedsLive(th[p][t])
    BY <1>1, <1>5, <1>6 DEF NeedsLive, StageOK, ClaimPcs
  <2> QED BY <2>1, <2>2, <1>5, <1>7 DEF IInv, LiveInv
<1>13. TableInv'
  <2>1. \A q \in Procs : \A u \in Threads[q] : InTable(th'[q][u]) => InTable(th[q][u])
    BY <1>5, <1>6, <1>7 DEF InTable, TablePcs
  <2> QED BY <2>1, <1>5 DEF IInv, TableInv
<1>14. SlotInv'
  <2>1. SlotAt(p, th'[p][t], region'.num, env'[p].close, readers')
    BY <1>1, <1>5, <1>6 DEF SlotAt, StageOK, TablePcs, ClaimPcs, CheckPcs
  <2>2. ASSUME NEW q \in Procs, NEW u \in Threads[q], q # p \/ u # t
        PROVE  SlotAt(q, th'[q][u], region'.num, env'[q].close, readers')
    <3>1. th'[q][u] = th[q][u]
      BY <1>7, <2>2
    <3>2. /\ th[q][u].slot # 0 => readers'[th[q][u].slot] = readers[th[q][u].slot]
          /\ th[q][u].r # 0 => readers'[th[q][u].r] = readers[th[q][u].r]
      BY <1>5
    <3>3. /\ region'.num \in Int /\ region.num <= region'.num
          /\ env'[q].close \in Int /\ env[q].close <= env'[q].close
      BY <1>5, ThreadFacts
    <3> QED BY <3>1, <3>2, <3>3, ThreadFacts, SlotFrame
  <2> QED BY <2>1, <2>2 DEF SlotInv
<1>15. OwnInv'
  <2>1. \A q \in Procs : \A u \in Threads[q] : \A i \in 1..Slots :
            Owns(th'[q][u], i) => Owns(th[q][u], i)
    BY <1>5, <1>6, <1>7 DEF Owns
  <2> QED BY <2>1 DEF IInv, OwnInv
<1>16. CloseInv'
  BY <1>5 DEF IInv, CloseInv
<1>17. AccountInv'
  <2>1. \A q \in Procs : \A u \in Threads[q] : \A i \in 1..Slots :
            Owns(th[q][u], i) /\ readers'[i].pid # Nobody => Owns(th'[q][u], i)
    BY <1>1, <1>5, <1>6, <1>7 DEF Owns, StageOK, ClaimPcs
  <2>2. ASSUME NEW i \in 1..region'.num, i \notin orphans', readers'[i].pid # Nobody
        PROVE  i \in 1..region.num /\ i \notin orphans /\ readers'[i].pid = readers[i].pid
    BY <2>2, <1>1, <1>5
  <2>3. \A i \in 1..region.num : i \in 1..Slots /\ readers[i].pid \in Procs \cup {Nobody}
    BY <1>1 DEF TypeInv
  <2>4. ASSUME NEW i \in 1..region'.num, i \notin orphans', readers'[i].pid # Nobody, NEW q, q = readers'[i].pid
        PROVE  \/ env'[q].pc = "open" /\ \E u \in Threads[q] : Owns(th'[q][u], i)
               \/ env'[q].pc = "close" /\ i <= env'[q].close
    BY <2>1, <2>2, <2>3, <2>4, <1>5 DEF IInv, AccountInv
  <2> QED BY <2>4 DEF AccountInv
<1>18. WriterInv'
  <2>1. Writing(th[p][t]) /\ ~Writing(th'[p][t])
    BY <1>5, <1>6 DEF Writing
  <2>2. \A q \in Procs : \A u \in Threads[q] : ~Writing(th'[q][u])
    BY <2>1, <1>7 DEF IInv, WriterInv
  <2> QED BY <2>2 DEF WriterInv
<1>19. ~OpenBreaks => RegionInv'
  <2> SUFFICES ASSUME ~OpenBreaks PROVE RegionInv'
    OBVIOUS
  <2>1. Newest' = Newest /\ (InUse' => InUse)
    BY <1>5 DEF Newest, InUse
  <2>2. \A q \in Procs : \A u \in Threads[q] : CommitAt(th'[q][u], region'.txnid, Newest')
    <3>1. \A q \in Procs : \A u \in Threads[q] : ~Writing(th'[q][u])
      <4>1. Writing(th[p][t]) /\ ~Writing(th'[p][t])
        BY <1>5, <1>6 DEF Writing
      <4> QED BY <4>1, <1>7 DEF IInv, WriterInv
    <3> QED BY <3>1 DEF CommitAt, Writing
  <2>3. Current => Current'
    BY <2>1, <1>5 DEF Current, IInv, RegionInv, CommitAt
  <2> QED BY <2>1, <2>2, <2>3, <1>5 DEF IInv, RegionInv
<1>20. CheckInv'
  <2>1. CheckAt(p, th'[p][t], region'.num, readers', pidlock')
    BY <1>1, <1>5, <1>6 DEF CheckAt, StageOK, TablePcs, ClaimPcs, CheckPcs
  <2>2. ASSUME NEW q \in Procs, NEW u \in Threads[q], q # p \/ u # t
        PROVE  CheckAt(q, th'[q][u], region'.num, readers', pidlock')
    <3>1. th'[q][u] = th[q][u]
      BY <1>7, <2>2
    <3>2. \A j \in 1..region'.num : readers'[j].pid \in th[q][u].dead =>
              j \in 1..region.num /\ readers'[j].pid = readers[j].pid
      BY <1>1, <1>5, ThreadFacts
    <3>3. th[q][u].dead \cap pidlock' = {}
      BY <1>5, ThreadFacts DEF CheckAt
    <3> QED BY <3>1, <3>2, <3>3, ThreadFacts, CheckFrame
  <2> QED BY <2>1, <2>2 DEF CheckInv
<1> QED BY <1>8, <1>9, <1>10, <1>11, <1>12, <1>13, <1>14, <1>15, <1>16, <1>17,
       <1>18, <1>19, <1>20 DEF IInv

\* Writing the meta page of a commit preserves the invariant.
LEMMA WrMetaStep ==
    ASSUME IInv, NEW p \in Procs, NEW t \in Threads[p], WrMeta(p, t)
    PROVE  IInv'
<1> USE SlotsAssumption DEF T, Idle, NoTxn
<1> DEFINE x == th[p][t]
           y == [x EXCEPT !.pc = "wrote"]
<1>1. /\ ThType /\ TypeInv /\ region.num \in 0..Slots
      /\ x \in ThreadRecord /\ StageOK(x) /\ 0 \in 0..Slots
      /\ SlotAt(p, x, region.num, env[p].close, readers)
      /\ CheckAt(p, x, region.num, readers, pidlock)
  BY ThreadFacts DEF IInv, TypeInv, ThType
<1>2. y \in ThreadRecord
  BY <1>1 DEF ThreadRecord, ThreadPcs, TablePcs, CheckPcs
<1>3. Move(p, t, y)
  BY DEF WrMeta, Goto, Return
<1>4. /\ ThType'
      /\ th'[p][t] = y
      /\ \A q \in Procs : \A u \in Threads[q] : q # p \/ u # t => th'[q][u] = th[q][u]
  BY <1>1, <1>2, <1>3, MoveEffect
<1>5. /\ env[p].pc = "open"
      /\ x.pc = "write"
      /\ metas' \in [{0, 1} -> Nat]
      /\ region.txnid = Newest => Newest' = region.txnid + 1
      /\ UNCHANGED <<region, readers, rmutex, wmutex, flock, pidlock, env, orphans, deaths>>
  <2> DEFINE id == region.txnid + 1
  <2>1. /\ env[p].pc = "open" /\ x.pc = "write"
        /\ metas' = [metas EXCEPT ![id % 2] = id]
        /\ UNCHANGED <<region, readers, rmutex, wmutex, flock, pidlock, env, orphans, deaths>>
    BY DEF WrMeta, At
  <2>2. region.txnid \in Nat /\ metas \in [{0, 1} -> Nat]
    BY <1>1 DEF TypeInv
  <2>3. id \in Nat /\ id % 2 \in {0, 1}
    BY <2>2
  <2>4. metas' \in [{0, 1} -> Nat]
    BY <2>1, <2>2, <2>3
  <2>5. region.txnid = Newest => metas[0] <= region.txnid /\ metas[1] <= region.txnid
    BY <2>2, MaxOfTwo DEF Newest
  <2>6. metas'[id % 2] = id /\ metas'[1 - (id % 2)] = metas[1 - (id % 2)]
    BY <2>1, <2>2, <2>3
  <2>7. region.txnid = Newest => Max({metas'[0], metas'[1]}) = id
    <3>1. CASE id % 2 = 0
      BY <3>1, <2>2, <2>3, <2>4, <2>5, <2>6, MaxOfTwo
    <3>2. CASE id % 2 = 1
      BY <3>2, <2>2, <2>3, <2>4, <2>5, <2>6, MaxOfTwo
    <3> QED BY <3>1, <3>2, <2>3
  <2> QED BY <2>1, <2>4, <2>7 DEF Newest
<1>6. /\ th'[p][t].pc = "wrote" /\ th'[p][t].slot = x.slot /\ th'[p][t].r = x.r
      /\ th'[p][t].txn = x.txn /\ th'[p][t].i = x.i /\ th'[p][t].rdrs = x.rdrs
      /\ th'[p][t].pids = x.pids /\ th'[p][t].pid = x.pid
      /\ th'[p][t].then = x.then /\ th'[p][t].dead = x.dead
  BY <1>1, <1>4 DEF ThreadRecord, IdleThread, CheckFrom
<1>7. \A q \in Procs : \A u \in Threads[q] : q # p \/ u # t => th'[q][u] = th[q][u]
  BY <1>4
<1> HIDE DEF y
<1>8. TypeInv'
  BY <1>1, <1>4, <1>5 DEF TypeInv, Mutexes
<1>9. FileInv'
  BY <1>5 DEF IInv, FileInv
<1>10. ActiveInv'
  BY <1>5, <1>7 DEF IInv, ActiveInv
<1>11. StageInv'
  <2>1. StageOK(th'[p][t])
    BY <1>1, <1>5, <1>6 DEF StageOK, TablePcs, ClaimPcs, CheckPcs
  <2> QED BY <2>1, <1>7 DEF IInv, StageInv
<1>12. LiveInv'
  <2>1. \A q \in Procs : env'[q].live => q \in pidlock'
    BY <1>5 DEF IInv, LiveInv
  <2>2. NeedsLive(th'[p][t]) => NeedsLive(th[p][t])
    BY <1>1, <1>5, <1>6 DEF NeedsLive, StageOK, ClaimPcs
  <2> QED BY <2>1, <2>2, <1>5, <1>7 DEF IInv, LiveInv
<1>13. TableInv'
  <2>1. \A q \in Procs : \A u \in Threads[q] : InTable(th'[q][u]) => InTable(th[q][u])
    BY <1>5, <1>6, <1>7 DEF InTable, TablePcs
  <2> QED BY <2>1, <1>5 DEF IInv, TableInv
<1>14. SlotInv'
  <2>1. SlotAt(p, th'[p][t], region'.num, env'[p].close, readers')
    BY <1>1, <1>5, <1>6 DEF SlotAt, StageOK, TablePcs, ClaimPcs, CheckPcs
  <2>2. ASSUME NEW q \in Procs, NEW u \in Threads[q], q # p \/ u # t
        PROVE  SlotAt(q, th'[q][u], region'.num, env'[q].close, readers')
    <3>1. th'[q][u] = th[q][u]
      BY <1>7, <2>2
    <3>2. /\ th[q][u].slot # 0 => readers'[th[q][u].slot] = readers[th[q][u].slot]
          /\ th[q][u].r # 0 => readers'[th[q][u].r] = readers[th[q][u].r]
      BY <1>5
    <3>3. /\ region'.num \in Int /\ region.num <= region'.num
          /\ env'[q].close \in Int /\ env[q].close <= env'[q].close
      BY <1>5, ThreadFacts
    <3> QED BY <3>1, <3>2, <3>3, ThreadFacts, SlotFrame
  <2> QED BY <2>1, <2>2 DEF SlotInv
<1>15. OwnInv'
  <2>1. \A q \in Procs : \A u \in Threads[q] : \A i \in 1..Slots :
            Owns(th'[q][u], i) => Owns(th[q][u], i)
    BY <1>5, <1>6, <1>7 DEF Owns
  <2> QED BY <2>1 DEF IInv, OwnInv
<1>16. CloseInv'
  BY <1>5 DEF IInv, CloseInv
<1>17. AccountInv'
  <2>1. \A q \in Procs : \A u \in Threads[q] : \A i \in 1..Slots :
            Owns(th[q][u], i) /\ readers'[i].pid # Nobody => Owns(th'[q][u], i)
    BY <1>1, <1>5, <1>6, <1>7 DEF Owns, StageOK, ClaimPcs
  <2>2. ASSUME NEW i \in 1..region'.num, i \notin orphans', readers'[i].pid # Nobody
        PROVE  i \in 1..region.num /\ i \notin orphans /\ readers'[i].pid = readers[i].pid
    BY <2>2, <1>1, <1>5
  <2>3. \A i \in 1..region.num : i \in 1..Slots /\ readers[i].pid \in Procs \cup {Nobody}
    BY <1>1 DEF TypeInv
  <2>4. ASSUME NEW i \in 1..region'.num, i \notin orphans', readers'[i].pid # Nobody, NEW q, q = readers'[i].pid
        PROVE  \/ env'[q].pc = "open" /\ \E u \in Threads[q] : Owns(th'[q][u], i)
               \/ env'[q].pc = "close" /\ i <= env'[q].close
    BY <2>1, <2>2, <2>3, <2>4, <1>5 DEF IInv, AccountInv
  <2> QED BY <2>4 DEF AccountInv
<1>18. WriterInv'
  <2>1. \A q \in Procs : \A u \in Threads[q] : Writing(th'[q][u]) => Writing(th[q][u])
    BY <1>5, <1>6, <1>7 DEF Writing
  <2> QED BY <2>1, <1>5 DEF IInv, WriterInv
<1>19. ~OpenBreaks => RegionInv'
  <2> SUFFICES ASSUME ~OpenBreaks PROVE RegionInv'
    OBVIOUS
  <2>1. region.txnid = Newest /\ Newest' = region.txnid + 1 /\ (InUse' => InUse)
    BY <1>5 DEF InUse, IInv, RegionInv, CommitAt
  <2>2. \A q \in Procs : \A u \in Threads[q] : CommitAt(th'[q][u], region'.txnid, Newest')
    <3>1. \A q \in Procs : \A u \in Threads[q] : q # p \/ u # t => ~Writing(th'[q][u])
      BY <1>5, <1>7 DEF IInv, WriterInv, Writing
    <3> QED BY <3>1, <2>1, <1>1, <1>5, <1>6 DEF CommitAt, Writing, StageOK, CheckPcs
  <2>3. Current => Current'
    BY <2>1, <1>5, <1>6 DEF Current
  <2> QED BY <2>1, <2>2, <2>3, <1>5 DEF IInv, RegionInv
<1>20. CheckInv'
  <2>1. CheckAt(p, th'[p][t], region'.num, readers', pidlock')
    BY <1>1, <1>5, <1>6 DEF CheckAt, StageOK, TablePcs, ClaimPcs, CheckPcs
  <2>2. ASSUME NEW q \in Procs, NEW u \in Threads[q], q # p \/ u # t
        PROVE  CheckAt(q, th'[q][u], region'.num, readers', pidlock')
    <3>1. th'[q][u] = th[q][u]
      BY <1>7, <2>2
    <3>2. \A j \in 1..region'.num : readers'[j].pid \in th[q][u].dead =>
              j \in 1..region.num /\ readers'[j].pid = readers[j].pid
      BY <1>1, <1>5, ThreadFacts
    <3>3. th[q][u].dead \cap pidlock' = {}
      BY <1>5, ThreadFacts DEF CheckAt
    <3> QED BY <3>1, <3>2, <3>3, ThreadFacts, CheckFrame
  <2> QED BY <2>1, <2>2 DEF CheckInv
<1> QED BY <1>8, <1>9, <1>10, <1>11, <1>12, <1>13, <1>14, <1>15, <1>16, <1>17,
       <1>18, <1>19, <1>20 DEF IInv

\* Showing the claimed slot to the others preserves the invariant.
LEMMA RdPublishStep ==
    ASSUME IInv, NEW p \in Procs, NEW t \in Threads[p], RdPublish(p, t)
    PROVE  IInv'
<1> USE SlotsAssumption DEF T, Idle, NoTxn
<1> DEFINE x == th[p][t]
           y == [x EXCEPT !.pc = "take"]
<1>1. /\ ThType /\ TypeInv /\ region.num \in 0..Slots
      /\ x \in ThreadRecord /\ StageOK(x) /\ 0 \in 0..Slots
      /\ SlotAt(p, x, region.num, env[p].close, readers)
      /\ CheckAt(p, x, region.num, readers, pidlock)
  BY ThreadFacts DEF IInv, TypeInv, ThType
<1>2. y \in ThreadRecord
  BY <1>1 DEF ThreadRecord, ThreadPcs, TablePcs, CheckPcs
<1>3. Move(p, t, y)
  BY DEF RdPublish, Goto, Return
<1>4. /\ ThType'
      /\ th'[p][t] = y
      /\ \A q \in Procs : \A u \in Threads[q] : q # p \/ u # t => th'[q][u] = th[q][u]
  BY <1>1, <1>2, <1>3, MoveEffect
<1>5. /\ env[p].pc = "open"
      /\ x.pc = "publish"
      /\ x.r \in 1..Slots /\ readers[x.r].pid = Nobody
      /\ region' \in [magic : BOOLEAN, txnid : Nat, num : 0..Slots]
      /\ region'.txnid = region.txnid /\ region'.magic = region.magic
      /\ region.num <= region'.num /\ x.r <= region'.num
      /\ region'.num <= region.num \/ (region'.num = x.r /\ x.r <= region.num + 1)
      /\ env' \in [Procs -> [pc : {"closed", "wait", "mutexes", "header", "file", "open", "close"},
                             live : BOOLEAN, close : 0..Slots]]
      /\ \A q \in Procs : env'[q].pc = env[q].pc /\ env'[q].live = env[q].live
      /\ env'[p].close = region'.num
      /\ \A q \in Procs : q # p => env'[q] = env[q]
      /\ UNCHANGED <<readers, rmutex, wmutex, flock, pidlock, metas, orphans, deaths>>
  <2> DEFINE nr == Max({region.num, x.r})
  <2>1. /\ env[p].pc = "open" /\ x.pc = "publish"
        /\ region' = [region EXCEPT !.num = nr] /\ env' = [env EXCEPT ![p].close = nr]
        /\ UNCHANGED <<readers, rmutex, wmutex, flock, pidlock, metas, orphans, deaths>>
    BY DEF RdPublish, At
  <2>2. x.r \in 1..Slots /\ readers[x.r].pid = Nobody /\ x.r <= region.num + 1
    BY <1>1, <2>1 DEF SlotAt, StageOK, ClaimPcs, ThreadRecord
  <2>3. /\ nr \in 0..Slots /\ region.num <= nr /\ x.r <= nr
        /\ nr <= region.num \/ (nr = x.r /\ x.r <= region.num + 1)
    BY <1>1, <2>2, MaxOfTwo
  <2> HIDE DEF nr
  <2>4. /\ region' \in [magic : BOOLEAN, txnid : Nat, num : 0..Slots]
        /\ region'.txnid = region.txnid /\ region'.magic = region.magic /\ region'.num = nr
    BY <1>1, <2>1, <2>3 DEF TypeInv
  <2>5. /\ env' \in [Procs -> [pc : {"closed", "wait", "mutexes", "header", "file", "open", "close"},
                               live : BOOLEAN, close : 0..Slots]]
        /\ \A q \in Procs : env'[q].pc = env[q].pc /\ env'[q].live = env[q].live
        /\ env'[p].close = nr
        /\ \A q \in Procs : q # p => env'[q] = env[q]
    BY <1>1, <2>1, <2>3 DEF TypeInv
  <2> QED BY <2>1, <2>2, <2>3, <2>4, <2>5
<1>6. /\ th'[p][t].pc = "take" /\ th'[p][t].slot = x.slot /\ th'[p][t].r = x.r
      /\ th'[p][t].txn = x.txn /\ th'[p][t].i = x.i /\ th'[p][t].rdrs = x.rdrs
      /\ th'[p][t].pids = x.pids /\ th'[p][t].pid = x.pid
      /\ th'[p][t].then = x.then /\ th'[p][t].dead = x.dead
  BY <1>1, <1>4 DEF ThreadRecord, IdleThread, CheckFrom
<1>7. \A q \in Procs : \A u \in Threads[q] : q # p \/ u # t => th'[q][u] = th[q][u]
  BY <1>4
<1> HIDE DEF y
<1>8. TypeInv'
  BY <1>1, <1>4, <1>5 DEF TypeInv, Mutexes
<1>9. FileInv'
  BY <1>5 DEF IInv, FileInv
<1>10. ActiveInv'
  BY <1>5, <1>7 DEF IInv, ActiveInv
<1>11. StageInv'
  <2>1. StageOK(th'[p][t])
    BY <1>1, <1>5, <1>6 DEF StageOK, TablePcs, ClaimPcs, CheckPcs
  <2> QED BY <2>1, <1>7 DEF IInv, StageInv
<1>12. LiveInv'
  <2>1. \A q \in Procs : env'[q].live => q \in pidlock'
    BY <1>5 DEF IInv, LiveInv
  <2>2. NeedsLive(th'[p][t]) => NeedsLive(th[p][t])
    BY <1>1, <1>5, <1>6 DEF NeedsLive, StageOK, ClaimPcs
  <2> QED BY <2>1, <2>2, <1>5, <1>7 DEF IInv, LiveInv
<1>13. TableInv'
  <2>1. \A q \in Procs : \A u \in Threads[q] : InTable(th'[q][u]) => InTable(th[q][u])
    BY <1>5, <1>6, <1>7 DEF InTable, TablePcs
  <2> QED BY <2>1, <1>5 DEF IInv, TableInv
<1>14. SlotInv'
  <2>1. SlotAt(p, th'[p][t], region'.num, env'[p].close, readers')
    BY <1>1, <1>5, <1>6 DEF SlotAt, StageOK, TablePcs, ClaimPcs, CheckPcs
  <2>2. ASSUME NEW q \in Procs, NEW u \in Threads[q], q # p \/ u # t
        PROVE  SlotAt(q, th'[q][u], region'.num, env'[q].close, readers')
    <3>1. th'[q][u] = th[q][u]
      BY <1>7, <2>2
    <3>2. /\ th[q][u].slot # 0 => readers'[th[q][u].slot] = readers[th[q][u].slot]
          /\ th[q][u].r # 0 => readers'[th[q][u].r] = readers[th[q][u].r]
      BY <1>5
    <3>3. /\ region'.num \in Int /\ region.num <= region'.num
          /\ env'[q].close \in Int /\ env[q].close <= env'[q].close
      <4>1. region'.num \in Int /\ region.num <= region'.num
        BY <1>5
      <4>2. CASE q = p
        BY <4>1, <4>2, <1>5, ThreadFacts DEF IInv, CloseInv
      <4>3. CASE q # p
        BY <4>1, <4>3, <1>5, ThreadFacts
      <4> QED BY <4>1, <4>2, <4>3
    <3> QED BY <3>1, <3>2, <3>3, ThreadFacts, SlotFrame
  <2> QED BY <2>1, <2>2 DEF SlotInv
<1>15. OwnInv'
  <2>1. \A q \in Procs : \A u \in Threads[q] : \A i \in 1..Slots :
            Owns(th'[q][u], i) => Owns(th[q][u], i)
    BY <1>5, <1>6, <1>7 DEF Owns
  <2> QED BY <2>1 DEF IInv, OwnInv
<1>16. CloseInv'
  <2> SUFFICES ASSUME NEW q \in Procs
               PROVE  /\ env'[q].pc = "open" => env'[q].close <= region'.num
                      /\ env'[q].pc \notin {"open", "close"} => env'[q].close = 0
    BY DEF CloseInv
  <2>1. region.num \in Int /\ region'.num \in Int /\ env[q].close \in Int
    BY <1>1, <1>5 DEF TypeInv
  <2>2. CASE q = p
    BY <2>1, <2>2, <1>5
  <2>3. CASE q # p
    <3>1. env'[q] = env[q]
      BY <2>3, <1>5
    <3> QED BY <3>1, <2>1, <1>5 DEF IInv, CloseInv
  <2> QED BY <2>2, <2>3
<1>17. AccountInv'
  <2>1. \A q \in Procs : \A u \in Threads[q] : \A i \in 1..Slots :
            Owns(th[q][u], i) /\ readers'[i].pid # Nobody => Owns(th'[q][u], i)
    BY <1>1, <1>5, <1>6, <1>7 DEF Owns, StageOK, ClaimPcs
  <2>2. ASSUME NEW i \in 1..region'.num, i \notin orphans', readers'[i].pid # Nobody
        PROVE  i \in 1..region.num /\ i \notin orphans /\ readers'[i].pid = readers[i].pid
    <3>1. region'.num \in Int /\ region.num \in Int
      BY <1>1, <1>5
    <3>2. i # x.r /\ i \notin orphans /\ readers'[i].pid = readers[i].pid
      BY <2>2, <1>5
    <3>3. x.r \in Int /\ (region'.num <= region.num \/ (region'.num = x.r /\ x.r <= region.num + 1))
      BY <1>5
    <3> QED BY <3>1, <3>2, <3>3, <2>2
  <2>3. \A i \in 1..region.num : i \in 1..Slots /\ readers[i].pid \in Procs \cup {Nobody}
    BY <1>1 DEF TypeInv
  <2>4. ASSUME NEW i \in 1..region'.num, i \notin orphans', readers'[i].pid # Nobody, NEW q, q = readers'[i].pid
        PROVE  \/ env'[q].pc = "open" /\ \E u \in Threads[q] : Owns(th'[q][u], i)
               \/ env'[q].pc = "close" /\ i <= env'[q].close
    BY <2>1, <2>2, <2>3, <2>4, <1>5 DEF IInv, AccountInv
  <2> QED BY <2>4 DEF AccountInv
<1>18. WriterInv'
  <2>1. \A q \in Procs : \A u \in Threads[q] : Writing(th'[q][u]) => Writing(th[q][u])
    BY <1>5, <1>6, <1>7 DEF Writing
  <2> QED BY <2>1, <1>5 DEF IInv, WriterInv
<1>19. ~OpenBreaks => RegionInv'
  <2> SUFFICES ASSUME ~OpenBreaks PROVE RegionInv'
    OBVIOUS
  <2>1. Newest' = Newest /\ (InUse' => InUse)
    BY <1>5 DEF Newest, InUse
  <2>2. region'.txnid = region.txnid /\ wmutex' = wmutex
    BY <1>5
  <2>3. \A q \in Procs : \A u \in Threads[q] : CommitAt(th'[q][u], region'.txnid, Newest')
    BY <2>1, <2>2, <1>5, <1>6, <1>7 DEF IInv, RegionInv, CommitAt
  <2>4. \A q \in Procs : \A u \in Threads[q] : th[q][u].pc = "wrote" => th'[q][u].pc = "wrote"
    BY <1>5, <1>6, <1>7
  <2>5. Current => Current'
    BY <2>1, <2>2, <2>4 DEF Current
  <2> QED BY <2>1, <2>3, <2>5 DEF IInv, RegionInv
<1>20. CheckInv'
  <2>1. CheckAt(p, th'[p][t], region'.num, readers', pidlock')
    BY <1>1, <1>5, <1>6 DEF CheckAt, StageOK, TablePcs, ClaimPcs, CheckPcs
  <2>2. ASSUME NEW q \in Procs, NEW u \in Threads[q], q # p \/ u # t
        PROVE  CheckAt(q, th'[q][u], region'.num, readers', pidlock')
    <3>1. th'[q][u] = th[q][u]
      BY <1>7, <2>2
    <3>2. \A j \in 1..region'.num : readers'[j].pid \in th[q][u].dead =>
              j \in 1..region.num /\ readers'[j].pid = readers[j].pid
      <4>1. region'.num \in Int /\ region.num \in Int /\ x.r \in Int
        BY <1>1, <1>5
      <4>2. region'.num <= region.num \/ (region'.num = x.r /\ x.r <= region.num + 1)
        BY <1>5
      <4>3. readers' = readers /\ readers[x.r].pid = Nobody /\ Nobody \notin th[q][u].dead
        BY <1>5, ThreadFacts
      <4> QED BY <4>1, <4>2, <4>3
    <3>3. th[q][u].dead \cap pidlock' = {}
      BY <1>5, ThreadFacts DEF CheckAt
    <3> QED BY <3>1, <3>2, <3>3, ThreadFacts, CheckFrame
  <2> QED BY <2>1, <2>2 DEF CheckInv
<1> QED BY <1>8, <1>9, <1>10, <1>11, <1>12, <1>13, <1>14, <1>15, <1>16, <1>17,
       <1>18, <1>19, <1>20 DEF IInv

\* Starting a read transaction preserves the invariant; a process that shows
\* that it lives is dead for no check under way.
LEMMA RdBeginStep ==
    ASSUME IInv, NEW p \in Procs, NEW t \in Threads[p], RdBegin(p, t)
    PROVE  IInv'
<1> USE SlotsAssumption DEF T, Idle, NoTxn
<1> DEFINE x == th[p][t]
           pc1 == IF x.slot # 0 THEN "id" ELSE "rlock"
           th1 == [th EXCEPT ![p][t].pc = pc1]
<1>1. /\ ThType /\ TypeInv /\ region.num \in 0..Slots
      /\ x \in ThreadRecord /\ StageOK(x) /\ 0 \in 0..Slots
      /\ SlotAt(p, x, region.num, env[p].close, readers)
  BY ThreadFacts DEF IInv, TypeInv, ThType
<1>2. /\ env[p].pc = "open" /\ x.pc = "idle" /\ x.txn = NoTxn
      /\ th' = SeenAlive(p, th1)
      /\ env' = [env EXCEPT ![p].live = @ \/ x.slot = 0]
      /\ pidlock' = IF x.slot = 0 /\ ~env[p].live THEN pidlock \cup {p} ELSE pidlock
      /\ UNCHANGED <<region, readers, rmutex, wmutex, flock, metas, orphans, deaths>>
  BY DEF RdBegin, At
<1>3. \A q \in Procs : \A u \in Threads[q] : th1[q][u] =
          IF q = p /\ u = t THEN [x EXCEPT !.pc = pc1] ELSE th[q][u]
  BY <1>1 DEF ThType
<1>4. /\ th' = [q \in Procs |-> th'[q]]
      /\ \A q \in Procs : th'[q] = [u \in Threads[q] |-> th'[q][u]]
      /\ \A q \in Procs : \A u \in Threads[q] : th'[q][u] = [th1[q][u] EXCEPT !.dead = th1[q][u].dead \ {p}]
  <2>1. th' = [q \in Procs |-> [u \in Threads[q] |-> [th1[q][u] EXCEPT !.dead = @ \ {p}]]]
    BY <1>2 DEF SeenAlive
  <2> HIDE DEF th1
  <2> QED BY <2>1
<1>5. \A q \in Procs : \A u \in Threads[q] : th'[q][u] \in ThreadRecord
  <2> SUFFICES ASSUME NEW q \in Procs, NEW u \in Threads[q] PROVE th'[q][u] \in ThreadRecord
    OBVIOUS
  <2>1. [x EXCEPT !.pc = pc1] \in ThreadRecord /\ th[q][u] \in ThreadRecord
    BY <1>1, ThreadFacts DEF ThreadRecord, ThreadPcs
  <2>2. \A z \in ThreadRecord : [z EXCEPT !.dead = z.dead \ {p}] \in ThreadRecord
    BY DEF ThreadRecord
  <2> HIDE DEF th1
  <2>3. th1[q][u] \in ThreadRecord
    BY <2>1, <1>3
  <2> QED BY <2>2, <2>3, <1>4
<1>6. ThType'
  BY <1>4, <1>5 DEF ThType
<1>7. \A q \in Procs : \A u \in Threads[q] :
          /\ th'[q][u].pc = IF q = p /\ u = t THEN pc1 ELSE th[q][u].pc
          /\ th'[q][u].slot = th[q][u].slot /\ th'[q][u].r = th[q][u].r
          /\ th'[q][u].txn = th[q][u].txn /\ th'[q][u].i = th[q][u].i
          /\ th'[q][u].rdrs = th[q][u].rdrs /\ th'[q][u].pids = th[q][u].pids
          /\ th'[q][u].pid = th[q][u].pid /\ th'[q][u].then = th[q][u].then
          /\ th'[q][u].dead = th[q][u].dead \ {p}
  <2> SUFFICES ASSUME NEW q \in Procs, NEW u \in Threads[q]
               PROVE  /\ th'[q][u].pc = IF q = p /\ u = t THEN pc1 ELSE th[q][u].pc
                      /\ th'[q][u].slot = th[q][u].slot /\ th'[q][u].r = th[q][u].r
                      /\ th'[q][u].txn = th[q][u].txn /\ th'[q][u].i = th[q][u].i
                      /\ th'[q][u].rdrs = th[q][u].rdrs /\ th'[q][u].pids = th[q][u].pids
                      /\ th'[q][u].pid = th[q][u].pid /\ th'[q][u].then = th[q][u].then
                      /\ th'[q][u].dead = th[q][u].dead \ {p}
    OBVIOUS
  <2> HIDE DEF th1
  <2>1. th[q][u] \in ThreadRecord /\ th'[q][u] = [th1[q][u] EXCEPT !.dead = th1[q][u].dead \ {p}]
    BY <1>4, ThreadFacts
  <2>2. CASE q = p /\ u = t
    <3>1. th1[q][u] = [x EXCEPT !.pc = pc1]
      BY <2>2, <1>3
    <3> QED BY <2>1, <2>2, <3>1, <1>1 DEF ThreadRecord
  <2>3. CASE ~(q = p /\ u = t)
    <3>1. th1[q][u] = th[q][u]
      BY <2>3, <1>3
    <3> QED BY <2>1, <2>3, <3>1 DEF ThreadRecord
  <2> QED BY <2>2, <2>3
<1>8. /\ env' \in [Procs -> [pc : {"closed", "wait", "mutexes", "header", "file", "open", "close"},
                             live : BOOLEAN, close : 0..Slots]]
      /\ \A q \in Procs : env'[q].pc = env[q].pc /\ env'[q].close = env[q].close
      /\ env'[p].live <=> env[p].live \/ x.slot = 0
      /\ \A q \in Procs : q # p => env'[q] = env[q]
  BY <1>1, <1>2 DEF TypeInv
<1>9. /\ pidlock' \in SUBSET Procs
      /\ \A q \in pidlock : q \in pidlock'
      /\ \A q \in pidlock' : q \in pidlock \/ q = p
      /\ x.slot = 0 => p \in pidlock'
  BY <1>1, <1>2 DEF TypeInv, IInv, LiveInv
<1> HIDE DEF th1
<1>10. TypeInv'
  BY <1>1, <1>2, <1>6, <1>8, <1>9 DEF TypeInv
<1>11. FileInv'
  BY <1>2, <1>8 DEF IInv, FileInv
<1>12. ActiveInv'
  <2> SUFFICES ASSUME NEW q \in Procs, env'[q].pc # "open", NEW u \in Threads[q]
               PROVE  th'[q][u] = IdleThread
    BY DEF ActiveInv
  <2>1. q # p /\ th[q][u] = IdleThread
    BY <1>2, <1>8 DEF IInv, ActiveInv
  <2>2. [IdleThread EXCEPT !.dead = IdleThread.dead \ {p}] = IdleThread
    BY DEF IdleThread
  <2>3. th1[q][u] = IdleThread
    BY <2>1, <1>3
  <2> QED BY <2>2, <2>3, <1>4
<1>13. StageInv'
  <2> SUFFICES ASSUME NEW q \in Procs, NEW u \in Threads[q] PROVE StageOK(th'[q][u])
    BY DEF StageInv
  <2>1. CASE q = p /\ u = t
    BY <2>1, <1>1, <1>2, <1>7 DEF StageOK, TablePcs, ClaimPcs, CheckPcs
  <2>2. CASE ~(q = p /\ u = t)
    BY <2>2, <1>7, ThreadFacts DEF StageOK
  <2> QED BY <2>1, <2>2
<1>14. LiveInv'
  <2>1. \A q \in Procs : env'[q].live => q \in pidlock'
    BY <1>8, <1>9 DEF IInv, LiveInv
  <2>2. \A q \in Procs : \A u \in Threads[q] : NeedsLive(th'[q][u]) => NeedsLive(th[q][u]) \/ (q = p /\ x.slot = 0)
    BY <1>2, <1>7 DEF NeedsLive
  <2>3. \A q \in Procs : env[q].live => env'[q].live
    BY <1>8
  <2> QED BY <2>1, <2>2, <2>3, <1>8 DEF IInv, LiveInv
<1>15. TableInv'
  <2>1. \A q \in Procs : \A u \in Threads[q] : InTable(th'[q][u]) => InTable(th[q][u])
    BY <1>2, <1>7 DEF InTable, TablePcs
  <2> QED BY <2>1, <1>2 DEF IInv, TableInv
<1>16. SlotInv'
  <2> SUFFICES ASSUME NEW q \in Procs, NEW u \in Threads[q]
               PROVE  SlotAt(q, th'[q][u], region'.num, env'[q].close, readers')
    BY DEF SlotInv
  <2>1. SlotAt(q, th[q][u], region.num, env[q].close, readers)
    BY ThreadFacts
  <2> QED BY <2>1, <1>2, <1>7, <1>8 DEF SlotAt
<1>17. OwnInv'
  <2>1. \A q \in Procs : \A u \in Threads[q] : \A i \in 1..Slots : Owns(th'[q][u], i) => Owns(th[q][u], i)
    BY <1>7 DEF Owns
  <2> QED BY <2>1 DEF IInv, OwnInv
<1>18. CloseInv'
  BY <1>2, <1>8 DEF IInv, CloseInv
<1>19. AccountInv'
  <2>1. \A q \in Procs : \A u \in Threads[q] : \A i \in 1..Slots : Owns(th[q][u], i) => Owns(th'[q][u], i)
    BY <1>7 DEF Owns
  <2>2. \A i \in 1..region.num : i \in 1..Slots /\ readers[i].pid \in Procs \cup {Nobody}
    BY <1>1 DEF TypeInv
  <2> QED BY <2>1, <2>2, <1>2, <1>8 DEF IInv, AccountInv
<1>20. WriterInv'
  <2>1. \A q \in Procs : \A u \in Threads[q] : Writing(th'[q][u]) => Writing(th[q][u])
    BY <1>2, <1>7 DEF Writing
  <2> QED BY <2>1, <1>2 DEF IInv, WriterInv
<1>21. ~OpenBreaks => RegionInv'
  <2> SUFFICES ASSUME ~OpenBreaks PROVE RegionInv'
    OBVIOUS
  <2>1. Newest' = Newest /\ (InUse' => InUse)
    BY <1>2, <1>8 DEF Newest, InUse
  <2>2. \A q \in Procs : \A u \in Threads[q] : CommitAt(th'[q][u], region'.txnid, Newest')
    BY <2>1, <1>2, <1>7 DEF IInv, RegionInv, CommitAt
  <2>3. Current => Current'
    BY <2>1, <1>2, <1>7 DEF Current
  <2> QED BY <2>1, <2>2, <2>3, <1>2 DEF IInv, RegionInv
<1>22. CheckInv'
  <2> SUFFICES ASSUME NEW q \in Procs, NEW u \in Threads[q]
               PROVE  CheckAt(q, th'[q][u], region'.num, readers', pidlock')
    BY DEF CheckInv
  <2>1. CheckAt(q, th[q][u], region.num, readers, pidlock)
    BY ThreadFacts
  <2>2. th'[q][u].dead \cap pidlock' = {}
    BY <2>1, <1>7, <1>9 DEF CheckAt
  <2>3. CASE q = p /\ u = t
    <3>1. th'[q][u].dead = {}
      BY <2>3, <1>1, <1>2, <1>7 DEF StageOK, CheckPcs
    <3> QED BY <3>1 DEF CheckAt
  <2>4. CASE ~(q = p /\ u = t)
    <3>1. th'[q][u].pc = th[q][u].pc
      BY <2>4, <1>7
    <3> QED BY <3>1, <2>1, <2>2, <1>2, <1>7 DEF CheckAt
  <2> QED BY <2>3, <2>4
<1> QED BY <1>10, <1>11, <1>12, <1>13, <1>14, <1>15, <1>16, <1>17, <1>18, <1>19, <1>20,
           <1>21, <1>22 DEF IInv

\* Trying to lock the file exclusively preserves the invariant.
LEMMA OpenTryExclStep ==
    ASSUME IInv, NEW p \in Procs, OpenTryExcl(p)
    PROVE  IInv'
<1> USE SlotsAssumption DEF T, Idle, NoTxn
<1>1. TypeInv /\ ThType /\ region.num \in 0..Slots /\ 0 \in 0..Slots
  BY DEF IInv, TypeInv
<1>2. /\ env[p].pc = "closed"
      /\ pidlock' = pidlock
      /\ flock'[p] = IF \A q \in Procs \ {p} : flock[q] = "none" THEN "excl" ELSE "none"
      /\ env' \in [Procs -> [pc : {"closed", "wait", "mutexes", "header", "file", "open", "close"},
                             live : BOOLEAN, close : 0..Slots]]
      /\ env'[p].pc = IF flock'[p] = "excl" THEN "mutexes" ELSE "wait"
      /\ env'[p].live = env[p].live /\ env'[p].close = env[p].close
      /\ \A q \in Procs : q # p => env'[q] = env[q] /\ flock'[q] = flock[q]
      /\ flock' \in [Procs -> {"none", "shared", "excl"}]
      /\ pidlock' \in SUBSET pidlock /\ pidlock \ {p} \in SUBSET pidlock'
      /\ UNCHANGED <<region, readers, rmutex, wmutex, metas, orphans>>
  BY <1>1 DEF OpenTryExcl, OpenPc, TypeInv
<1>3. /\ ThType' /\ \A u \in Threads[p] : th'[p][u] = IdleThread
      /\ \A q \in Procs : \A u \in Threads[q] : q # p => th'[q][u] = th[q][u]
  <2>1. th' = th
    BY DEF OpenTryExcl
  <2>2. \A u \in Threads[p] : th[p][u] = IdleThread
    BY <1>2 DEF IInv, ActiveInv
  <2> QED BY <1>1, <2>1, <2>2 DEF ThType
<1>4. TypeInv'
  BY <1>1, <1>2, <1>3 DEF TypeInv, Mutexes
<1>5. FileInv'
  BY <1>2 DEF IInv, FileInv
<1>6. ActiveInv'
  BY <1>2, <1>3 DEF IInv, ActiveInv
<1>7. StageInv'
  BY <1>2, <1>3, IdleHas DEF IInv, StageInv
<1>8. LiveInv'
  <2>1. \A q \in Procs : env'[q].live => q \in pidlock'
    BY <1>2 DEF IInv, LiveInv
  <2>2. \A q \in Procs : \A u \in Threads[q] : NeedsLive(th'[q][u]) => env'[q].live
    BY <1>2, <1>3, IdleHas DEF IInv, LiveInv
  <2> QED BY <2>1, <2>2 DEF LiveInv
<1>9. TableInv'
  <2>1. \A q \in Procs : \A u \in Threads[q] :
            InTable(th'[q][u]) => q # p /\ InTable(th[q][u])
    BY <1>3, IdleHas
  <2> QED BY <2>1, <1>2 DEF IInv, TableInv
<1>10. SlotInv'
  <2> SUFFICES ASSUME NEW q \in Procs, NEW u \in Threads[q]
               PROVE  SlotAt(q, th'[q][u], region'.num, env'[q].close, readers')
    BY DEF SlotInv
  <2>1. CASE q = p
    BY <2>1, <1>3, IdleHas
  <2>2. CASE q # p
    <3>1. th'[q][u] = th[q][u] /\ env'[q] = env[q] /\ region'.num = region.num
      BY <2>2, <1>2, <1>3
    <3> QED BY <3>1, <1>2, ThreadFacts
  <2> QED BY <2>1, <2>2
<1>11. OwnInv'
  <2>1. \A q \in Procs : \A u \in Threads[q] : \A i \in 1..Slots :
            Owns(th'[q][u], i) => Owns(th[q][u], i)
    BY <1>3, IdleHas
  <2> QED BY <2>1 DEF IInv, OwnInv
<1>12. CloseInv'
  <2> SUFFICES ASSUME NEW q \in Procs
               PROVE  /\ env'[q].pc = "open" => env'[q].close <= region'.num
                      /\ env'[q].pc \notin {"open", "close"} => env'[q].close = 0
    BY DEF CloseInv
  <2>1. CASE q = p
    BY <2>1, <1>1, <1>2 DEF IInv, CloseInv
  <2>2. CASE q # p
    <3>1. env'[q] = env[q]
      BY <2>2, <1>2
    <3> QED BY <3>1, <1>2 DEF IInv, CloseInv
  <2> QED BY <2>1, <2>2
<1>13. AccountInv'
  <2> SUFFICES ASSUME NEW i \in 1..region'.num, i \notin orphans', NEW q, q = readers'[i].pid,
                      q # Nobody
               PROVE  \/ env'[q].pc = "open" /\ \E u \in Threads[q] : Owns(th'[q][u], i)
                      \/ env'[q].pc = "close" /\ i <= env'[q].close
    BY DEF AccountInv
  <2>1. i \in 1..region.num /\ i \notin orphans /\ readers[i].pid = q /\ q \in Procs
    BY <1>1, <1>2 DEF TypeInv
  <2>2. \/ env[q].pc = "open" /\ \E u \in Threads[q] : Owns(th[q][u], i)
        \/ env[q].pc = "close" /\ i <= env[q].close
    BY <2>1 DEF IInv, AccountInv
  <2>3. CASE q # p
    BY <2>1, <2>2, <2>3, <1>2, <1>3
  <2>4. CASE q = p
    BY <2>1, <2>2, <2>4, <1>2
  <2> QED BY <2>3, <2>4
<1>14. WriterInv'
  <2>1. \A q \in Procs : \A u \in Threads[q] :
            Writing(th'[q][u]) => q # p /\ Writing(th[q][u])
    BY <1>3, IdleHas
  <2> QED BY <2>1, <1>2 DEF IInv, WriterInv
<1>15. ~OpenBreaks => RegionInv'
  <2> SUFFICES ASSUME ~OpenBreaks PROVE RegionInv'
    OBVIOUS
  <2>1. Newest' = Newest
    BY <1>2 DEF Newest
  <2>2. \A q \in Procs : \A u \in Threads[q] : CommitAt(th'[q][u], region'.txnid, Newest')
    BY <2>1, <1>2, <1>3, IdleHas DEF IInv, RegionInv
  <2>3. InUse' => Current'
    <3>1. InUse' => InUse
      <4>1. ASSUME InUse' PROVE \E q \in Procs : env[q].pc # "closed"
        <5>1. flock'[p] # "excl"
          BY <4>1 DEF InUse
        <5>2. PICK q \in Procs \ {p} : flock[q] # "none"
          BY <5>1, <1>2
        <5> QED BY <5>2 DEF IInv, FileInv
      <4>2. flock[p] # "excl"
        BY <1>2 DEF IInv, FileInv
      <4> QED BY <4>1, <4>2, <1>2 DEF InUse
    <3>2. Current => Current'
      <4>1. \A u \in Threads[p] : th[p][u].pc # "wrote"
        BY <1>2, IdleHas DEF IInv, ActiveInv
      <4> QED BY <4>1, <2>1, <1>2, <1>3 DEF Current
    <3> QED BY <3>1, <3>2 DEF IInv, RegionInv
  <2> QED BY <2>2, <2>3 DEF RegionInv
<1>16. CheckInv'
  <2> SUFFICES ASSUME NEW q \in Procs, NEW u \in Threads[q]
               PROVE  CheckAt(q, th'[q][u], region'.num, readers', pidlock')
    BY DEF CheckInv
  <2>1. CASE q = p
    BY <2>1, <1>3, IdleHas
  <2>2. CASE q # p
    <3>1. th'[q][u] = th[q][u] /\ region'.num = region.num
      BY <2>2, <1>2, <1>3
    <3>2. th[q][u].dead \cap pidlock' = {}
      BY <1>2, ThreadFacts DEF CheckAt
    <3>3. \A j \in 1..region'.num : readers'[j].pid \in th[q][u].dead =>
              j \in 1..region.num /\ readers'[j].pid = readers[j].pid
      BY <3>1, <1>2
    <3> QED BY <3>1, <3>2, <3>3, ThreadFacts, CheckFrame
  <2> QED BY <2>1, <2>2
<1> QED BY <1>4, <1>5, <1>6, <1>7, <1>8, <1>9, <1>10, <1>11, <1>12, <1>13, <1>14,
       <1>15, <1>16 DEF IInv

\* Initialising the mutexes preserves the invariant: nobody has them.
LEMMA OpenInitMutexesStep ==
    ASSUME IInv, NEW p \in Procs, OpenInitMutexes(p)
    PROVE  IInv'
<1> USE SlotsAssumption DEF T, Idle, NoTxn
<1>1. TypeInv /\ ThType /\ region.num \in 0..Slots /\ 0 \in 0..Slots
  BY DEF IInv, TypeInv
<1>2. /\ env[p].pc = "mutexes"
      /\ flock[p] = "excl"
      /\ flock' = flock /\ pidlock' = pidlock
      /\ rmutex' = FreeMutex /\ wmutex' = FreeMutex
      /\ env' \in [Procs -> [pc : {"closed", "wait", "mutexes", "header", "file", "open", "close"},
                             live : BOOLEAN, close : 0..Slots]]
      /\ env'[p].pc = "header"
      /\ env'[p].live = env[p].live /\ env'[p].close = env[p].close
      /\ \A q \in Procs : q # p => env'[q] = env[q] /\ flock'[q] = flock[q]
      /\ flock' \in [Procs -> {"none", "shared", "excl"}]
      /\ pidlock' \in SUBSET pidlock /\ pidlock \ {p} \in SUBSET pidlock'
      /\ UNCHANGED <<region, readers, metas, orphans>>
  <2>1. /\ env[p].pc = "mutexes" /\ env' = [env EXCEPT ![p].pc = "header"]
        /\ rmutex' = FreeMutex /\ wmutex' = FreeMutex
        /\ UNCHANGED <<region, readers, flock, pidlock, metas, orphans>>
    BY DEF OpenInitMutexes, OpenPc
  <2>2. flock[p] = "excl"
    BY <2>1 DEF IInv, FileInv
  <2>3. /\ env' \in [Procs -> [pc : {"closed", "wait", "mutexes", "header", "file", "open", "close"},
                               live : BOOLEAN, close : 0..Slots]]
        /\ env'[p].pc = "header" /\ env'[p].live = env[p].live /\ env'[p].close = env[p].close
        /\ \A q \in Procs : q # p => env'[q] = env[q]
    BY <1>1, <2>1 DEF TypeInv
  <2> QED BY <1>1, <2>1, <2>2, <2>3 DEF TypeInv
<1>3. /\ ThType' /\ \A u \in Threads[p] : th'[p][u] = IdleThread
      /\ \A q \in Procs : \A u \in Threads[q] : q # p => th'[q][u] = th[q][u]
  <2>1. th' = th
    BY DEF OpenInitMutexes
  <2>2. \A u \in Threads[p] : th[p][u] = IdleThread
    BY <1>2 DEF IInv, ActiveInv
  <2> QED BY <1>1, <2>1, <2>2 DEF ThType
<1>4. TypeInv'
  BY <1>1, <1>2, <1>3 DEF TypeInv, Mutexes, FreeMutex
<1>5. FileInv'
  BY <1>2 DEF IInv, FileInv
<1>6. ActiveInv'
  BY <1>2, <1>3 DEF IInv, ActiveInv
<1>7. StageInv'
  BY <1>2, <1>3, IdleHas DEF IInv, StageInv
<1>8. LiveInv'
  <2>1. \A q \in Procs : env'[q].live => q \in pidlock'
    BY <1>2 DEF IInv, LiveInv
  <2>2. \A q \in Procs : \A u \in Threads[q] : NeedsLive(th'[q][u]) => env'[q].live
    BY <1>2, <1>3, IdleHas DEF IInv, LiveInv
  <2> QED BY <2>1, <2>2 DEF LiveInv
<1>9. TableInv'
  BY <1>2, <1>3, ExclusiveAlone, IdleHas DEF TableInv
<1>10. SlotInv'
  <2> SUFFICES ASSUME NEW q \in Procs, NEW u \in Threads[q]
               PROVE  SlotAt(q, th'[q][u], region'.num, env'[q].close, readers')
    BY DEF SlotInv
  <2>1. CASE q = p
    BY <2>1, <1>3, IdleHas
  <2>2. CASE q # p
    <3>1. th'[q][u] = th[q][u] /\ env'[q] = env[q] /\ region'.num = region.num
      BY <2>2, <1>2, <1>3
    <3> QED BY <3>1, <1>2, ThreadFacts
  <2> QED BY <2>1, <2>2
<1>11. OwnInv'
  <2>1. \A q \in Procs : \A u \in Threads[q] : \A i \in 1..Slots :
            Owns(th'[q][u], i) => Owns(th[q][u], i)
    BY <1>3, IdleHas
  <2> QED BY <2>1 DEF IInv, OwnInv
<1>12. CloseInv'
  <2> SUFFICES ASSUME NEW q \in Procs
               PROVE  /\ env'[q].pc = "open" => env'[q].close <= region'.num
                      /\ env'[q].pc \notin {"open", "close"} => env'[q].close = 0
    BY DEF CloseInv
  <2>1. CASE q = p
    BY <2>1, <1>1, <1>2 DEF IInv, CloseInv
  <2>2. CASE q # p
    <3>1. env'[q] = env[q]
      BY <2>2, <1>2
    <3> QED BY <3>1, <1>2 DEF IInv, CloseInv
  <2> QED BY <2>1, <2>2
<1>13. AccountInv'
  <2> SUFFICES ASSUME NEW i \in 1..region'.num, i \notin orphans', NEW q, q = readers'[i].pid,
                      q # Nobody
               PROVE  \/ env'[q].pc = "open" /\ \E u \in Threads[q] : Owns(th'[q][u], i)
                      \/ env'[q].pc = "close" /\ i <= env'[q].close
    BY DEF AccountInv
  <2>1. i \in 1..region.num /\ i \notin orphans /\ readers[i].pid = q /\ q \in Procs
    BY <1>1, <1>2 DEF TypeInv
  <2>2. \/ env[q].pc = "open" /\ \E u \in Threads[q] : Owns(th[q][u], i)
        \/ env[q].pc = "close" /\ i <= env[q].close
    BY <2>1 DEF IInv, AccountInv
  <2>3. CASE q # p
    BY <2>1, <2>2, <2>3, <1>2, <1>3
  <2>4. CASE q = p
    BY <2>1, <2>2, <2>4, <1>2
  <2> QED BY <2>3, <2>4
<1>14. WriterInv'
  BY <1>2, <1>3, ExclusiveAlone, IdleHas DEF WriterInv
<1>15. ~OpenBreaks => RegionInv'
  <2> SUFFICES ASSUME ~OpenBreaks PROVE RegionInv'
    OBVIOUS
  <2>1. Newest' = Newest
    BY <1>2 DEF Newest
  <2>2. \A q \in Procs : \A u \in Threads[q] : CommitAt(th'[q][u], region'.txnid, Newest')
    BY <2>1, <1>2, <1>3, IdleHas DEF IInv, RegionInv
  <2>3. InUse' => Current'
    BY <1>2 DEF InUse
  <2> QED BY <2>2, <2>3 DEF RegionInv
<1>16. CheckInv'
  <2> SUFFICES ASSUME NEW q \in Procs, NEW u \in Threads[q]
               PROVE  CheckAt(q, th'[q][u], region'.num, readers', pidlock')
    BY DEF CheckInv
  <2>1. CASE q = p
    BY <2>1, <1>3, IdleHas
  <2>2. CASE q # p
    <3>1. th'[q][u] = th[q][u] /\ region'.num = region.num
      BY <2>2, <1>2, <1>3
    <3>2. th[q][u].dead \cap pidlock' = {}
      BY <1>2, ThreadFacts DEF CheckAt
    <3>3. \A j \in 1..region'.num : readers'[j].pid \in th[q][u].dead =>
              j \in 1..region.num /\ readers'[j].pid = readers[j].pid
      BY <3>1, <1>2
    <3> QED BY <3>1, <3>2, <3>3, ThreadFacts, CheckFrame
  <2> QED BY <2>1, <2>2
<1> QED BY <1>4, <1>5, <1>6, <1>7, <1>8, <1>9, <1>10, <1>11, <1>12, <1>13, <1>14,
       <1>15, <1>16 DEF IInv

\* Initialising the header preserves the invariant: nobody has a slot.
LEMMA OpenInitHeaderStep ==
    ASSUME IInv, NEW p \in Procs, OpenInitHeader(p)
    PROVE  IInv'
<1> USE SlotsAssumption DEF T, Idle, NoTxn
<1>1. TypeInv /\ ThType /\ region.num \in 0..Slots /\ 0 \in 0..Slots
  BY DEF IInv, TypeInv
<1>2. /\ env[p].pc = "header"
      /\ flock[p] = "excl"
      /\ flock' = flock /\ pidlock' = pidlock
      /\ region' = [magic |-> TRUE, txnid |-> 0, num |-> 0]
      /\ env' \in [Procs -> [pc : {"closed", "wait", "mutexes", "header", "file", "open", "close"},
                             live : BOOLEAN, close : 0..Slots]]
      /\ env'[p].pc = "file"
      /\ env'[p].live = env[p].live /\ env'[p].close = env[p].close
      /\ \A q \in Procs : q # p => env'[q] = env[q] /\ flock'[q] = flock[q]
      /\ flock' \in [Procs -> {"none", "shared", "excl"}]
      /\ pidlock' \in SUBSET pidlock /\ pidlock \ {p} \in SUBSET pidlock'
      /\ UNCHANGED <<readers, rmutex, wmutex, metas, orphans>>
  <2>1. /\ env[p].pc = "header" /\ env' = [env EXCEPT ![p].pc = "file"]
        /\ region' = [magic |-> TRUE, txnid |-> 0, num |-> 0]
        /\ UNCHANGED <<readers, rmutex, wmutex, flock, pidlock, metas, orphans>>
    BY DEF OpenInitHeader, OpenPc
  <2>2. flock[p] = "excl"
    BY <2>1 DEF IInv, FileInv
  <2>3. /\ env' \in [Procs -> [pc : {"closed", "wait", "mutexes", "header", "file", "open", "close"},
                               live : BOOLEAN, close : 0..Slots]]
        /\ env'[p].pc = "file" /\ env'[p].live = env[p].live /\ env'[p].close = env[p].close
        /\ \A q \in Procs : q # p => env'[q] = env[q]
    BY <1>1, <2>1 DEF TypeInv
  <2> QED BY <1>1, <2>1, <2>2, <2>3 DEF TypeInv
<1>3. /\ ThType' /\ \A u \in Threads[p] : th'[p][u] = IdleThread
      /\ \A q \in Procs : \A u \in Threads[q] : q # p => th'[q][u] = th[q][u]
  <2>1. th' = th
    BY DEF OpenInitHeader
  <2>2. \A u \in Threads[p] : th[p][u] = IdleThread
    BY <1>2 DEF IInv, ActiveInv
  <2> QED BY <1>1, <2>1, <2>2 DEF ThType
<1>4. TypeInv'
  BY <1>1, <1>2, <1>3 DEF TypeInv, Mutexes
<1>5. FileInv'
  BY <1>2 DEF IInv, FileInv
<1>6. ActiveInv'
  BY <1>2, <1>3 DEF IInv, ActiveInv
<1>7. StageInv'
  BY <1>2, <1>3, IdleHas DEF IInv, StageInv
<1>8. LiveInv'
  <2>1. \A q \in Procs : env'[q].live => q \in pidlock'
    BY <1>2 DEF IInv, LiveInv
  <2>2. \A q \in Procs : \A u \in Threads[q] : NeedsLive(th'[q][u]) => env'[q].live
    BY <1>2, <1>3, IdleHas DEF IInv, LiveInv
  <2> QED BY <2>1, <2>2 DEF LiveInv
<1>9. TableInv'
  <2>1. \A q \in Procs : \A u \in Threads[q] :
            InTable(th'[q][u]) => q # p /\ InTable(th[q][u])
    BY <1>3, IdleHas
  <2> QED BY <2>1, <1>2 DEF IInv, TableInv
<1>10. SlotInv'
  BY <1>2, <1>3, ExclusiveAlone, IdleHas DEF SlotInv
<1>11. OwnInv'
  <2>1. \A q \in Procs : \A u \in Threads[q] : \A i \in 1..Slots :
            Owns(th'[q][u], i) => Owns(th[q][u], i)
    BY <1>3, IdleHas
  <2> QED BY <2>1 DEF IInv, OwnInv
<1>12. CloseInv'
  BY <1>1, <1>2, ExclusiveAlone DEF IInv, CloseInv
<1>13. AccountInv'
  BY <1>2 DEF AccountInv
<1>14. WriterInv'
  <2>1. \A q \in Procs : \A u \in Threads[q] :
            Writing(th'[q][u]) => q # p /\ Writing(th[q][u])
    BY <1>3, IdleHas
  <2> QED BY <2>1, <1>2 DEF IInv, WriterInv
<1>15. ~OpenBreaks => RegionInv'
  <2> SUFFICES ASSUME ~OpenBreaks PROVE RegionInv'
    OBVIOUS
  <2>1. Newest' = Newest
    BY <1>2 DEF Newest
  <2>2. \A q \in Procs : \A u \in Threads[q] : CommitAt(th'[q][u], region'.txnid, Newest')
    BY <1>2, <1>3, ExclusiveAlone, IdleHas
  <2>3. InUse' => Current'
    BY <1>2 DEF InUse
  <2> QED BY <2>2, <2>3 DEF RegionInv
<1>16. CheckInv'
  BY <1>2, <1>3, ExclusiveAlone, IdleHas DEF CheckInv
<1> QED BY <1>4, <1>5, <1>6, <1>7, <1>8, <1>9, <1>10, <1>11, <1>12, <1>13, <1>14,
       <1>15, <1>16 DEF IInv

\* Getting the shared lock, or giving up, preserves the invariant.
LEMMA OpenWaitStep ==
    ASSUME IInv, NEW p \in Procs, OpenWait(p)
    PROVE  IInv'
<1> USE SlotsAssumption DEF T, Idle, NoTxn
<1>1. TypeInv /\ ThType /\ region.num \in 0..Slots /\ 0 \in 0..Slots
  BY DEF IInv, TypeInv
<1>2. /\ env[p].pc = "wait"
      /\ \A q \in Procs : q # p => flock[q] # "excl"
      /\ flock'[p] = IF region.magic THEN "shared" ELSE "none"
      /\ region.magic => pidlock' = pidlock
      /\ env' \in [Procs -> [pc : {"closed", "wait", "mutexes", "header", "file", "open", "close"},
                             live : BOOLEAN, close : 0..Slots]]
      /\ env'[p].pc = IF region.magic THEN "file" ELSE "closed"
      /\ env'[p].live = (region.magic /\ env[p].live) /\ env'[p].close = 0
      /\ \A q \in Procs : q # p => env'[q] = env[q] /\ flock'[q] = flock[q]
      /\ flock' \in [Procs -> {"none", "shared", "excl"}]
      /\ pidlock' \in SUBSET pidlock /\ pidlock \ {p} \in SUBSET pidlock'
      /\ UNCHANGED <<region, readers, rmutex, wmutex, metas, orphans>>
  <2>1. env[p].pc = "wait" /\ env[p].close = 0 /\ \A q \in Procs : q # p => flock[q] # "excl"
    BY DEF OpenWait, IInv, CloseInv
  <2>2. CASE region.magic
    <3>1. /\ env' = [env EXCEPT ![p].pc = "file"] /\ flock' = [flock EXCEPT ![p] = "shared"]
          /\ UNCHANGED <<region, readers, rmutex, wmutex, pidlock, metas, orphans>>
      BY <2>2 DEF OpenWait, OpenPc
    <3> QED BY <1>1, <2>1, <2>2, <3>1 DEF TypeInv
  <2>3. CASE ~region.magic
    <3>1. /\ env' = [env EXCEPT ![p] = [pc |-> "closed", live |-> FALSE, close |-> 0]]
          /\ flock' = [flock EXCEPT ![p] = "none"] /\ pidlock' = pidlock \ {p}
          /\ UNCHANGED <<region, readers, rmutex, wmutex, metas, orphans>>
      BY <2>3 DEF OpenWait, Leave, ClosedEnv
    <3> QED BY <1>1, <2>1, <2>3, <3>1 DEF TypeInv
  <2> QED BY <2>2, <2>3
<1>3. /\ ThType' /\ \A u \in Threads[p] : th'[p][u] = IdleThread
      /\ \A q \in Procs : \A u \in Threads[q] : q # p => th'[q][u] = th[q][u]
  <2>1. th' = th
    BY DEF OpenWait
  <2>2. \A u \in Threads[p] : th[p][u] = IdleThread
    BY <1>2 DEF IInv, ActiveInv
  <2> QED BY <1>1, <2>1, <2>2 DEF ThType
<1>4. TypeInv'
  BY <1>1, <1>2, <1>3 DEF TypeInv, Mutexes
<1>5. FileInv'
  BY <1>2 DEF IInv, FileInv
<1>6. ActiveInv'
  BY <1>2, <1>3 DEF IInv, ActiveInv
<1>7. StageInv'
  BY <1>2, <1>3, IdleHas DEF IInv, StageInv
<1>8. LiveInv'
  <2>1. \A q \in Procs : env'[q].live => q \in pidlock'
    BY <1>2 DEF IInv, LiveInv
  <2>2. \A q \in Procs : \A u \in Threads[q] : NeedsLive(th'[q][u]) => env'[q].live
    BY <1>2, <1>3, IdleHas DEF IInv, LiveInv
  <2> QED BY <2>1, <2>2 DEF LiveInv
<1>9. TableInv'
  <2>1. \A q \in Procs : \A u \in Threads[q] :
            InTable(th'[q][u]) => q # p /\ InTable(th[q][u])
    BY <1>3, IdleHas
  <2> QED BY <2>1, <1>2 DEF IInv, TableInv
<1>10. SlotInv'
  <2> SUFFICES ASSUME NEW q \in Procs, NEW u \in Threads[q]
               PROVE  SlotAt(q, th'[q][u], region'.num, env'[q].close, readers')
    BY DEF SlotInv
  <2>1. CASE q = p
    BY <2>1, <1>3, IdleHas
  <2>2. CASE q # p
    <3>1. th'[q][u] = th[q][u] /\ env'[q] = env[q] /\ region'.num = region.num
      BY <2>2, <1>2, <1>3
    <3> QED BY <3>1, <1>2, ThreadFacts
  <2> QED BY <2>1, <2>2
<1>11. OwnInv'
  <2>1. \A q \in Procs : \A u \in Threads[q] : \A i \in 1..Slots :
            Owns(th'[q][u], i) => Owns(th[q][u], i)
    BY <1>3, IdleHas
  <2> QED BY <2>1 DEF IInv, OwnInv
<1>12. CloseInv'
  <2> SUFFICES ASSUME NEW q \in Procs
               PROVE  /\ env'[q].pc = "open" => env'[q].close <= region'.num
                      /\ env'[q].pc \notin {"open", "close"} => env'[q].close = 0
    BY DEF CloseInv
  <2>1. CASE q = p
    BY <2>1, <1>1, <1>2 DEF IInv, CloseInv
  <2>2. CASE q # p
    <3>1. env'[q] = env[q]
      BY <2>2, <1>2
    <3> QED BY <3>1, <1>2 DEF IInv, CloseInv
  <2> QED BY <2>1, <2>2
<1>13. AccountInv'
  <2> SUFFICES ASSUME NEW i \in 1..region'.num, i \notin orphans', NEW q, q = readers'[i].pid,
                      q # Nobody
               PROVE  \/ env'[q].pc = "open" /\ \E u \in Threads[q] : Owns(th'[q][u], i)
                      \/ env'[q].pc = "close" /\ i <= env'[q].close
    BY DEF AccountInv
  <2>1. i \in 1..region.num /\ i \notin orphans /\ readers[i].pid = q /\ q \in Procs
    BY <1>1, <1>2 DEF TypeInv
  <2>2. \/ env[q].pc = "open" /\ \E u \in Threads[q] : Owns(th[q][u], i)
        \/ env[q].pc = "close" /\ i <= env[q].close
    BY <2>1 DEF IInv, AccountInv
  <2>3. CASE q # p
    BY <2>1, <2>2, <2>3, <1>2, <1>3
  <2>4. CASE q = p
    BY <2>1, <2>2, <2>4, <1>2
  <2> QED BY <2>3, <2>4
<1>14. WriterInv'
  <2>1. \A q \in Procs : \A u \in Threads[q] :
            Writing(th'[q][u]) => q # p /\ Writing(th[q][u])
    BY <1>3, IdleHas
  <2> QED BY <2>1, <1>2 DEF IInv, WriterInv
<1>15. ~OpenBreaks => RegionInv'
  <2> SUFFICES ASSUME ~OpenBreaks PROVE RegionInv'
    OBVIOUS
  <2>1. Newest' = Newest
    BY <1>2 DEF Newest
  <2>2. \A q \in Procs : \A u \in Threads[q] : CommitAt(th'[q][u], region'.txnid, Newest')
    BY <2>1, <1>2, <1>3, IdleHas DEF IInv, RegionInv
  <2>3. InUse' => Current'
    <3>1. InUse' => InUse
      BY <1>2 DEF InUse, IInv, FileInv
    <3>2. Current => Current'
      <4>1. \A u \in Threads[p] : th[p][u].pc # "wrote"
        BY <1>2, IdleHas DEF IInv, ActiveInv
      <4> QED BY <4>1, <2>1, <1>2, <1>3 DEF Current
    <3> QED BY <3>1, <3>2 DEF IInv, RegionInv
  <2> QED BY <2>2, <2>3 DEF RegionInv
<1>16. CheckInv'
  <2> SUFFICES ASSUME NEW q \in Procs, NEW u \in Threads[q]
               PROVE  CheckAt(q, th'[q][u], region'.num, readers', pidlock')
    BY DEF CheckInv
  <2>1. CASE q = p
    BY <2>1, <1>3, IdleHas
  <2>2. CASE q # p
    <3>1. th'[q][u] = th[q][u] /\ region'.num = region.num
      BY <2>2, <1>2, <1>3
    <3>2. th[q][u].dead \cap pidlock' = {}
      BY <1>2, ThreadFacts DEF CheckAt
    <3>3. \A j \in 1..region'.num : readers'[j].pid \in th[q][u].dead =>
              j \in 1..region.num /\ readers'[j].pid = readers[j].pid
      BY <3>1, <1>2
    <3> QED BY <3>1, <3>2, <3>3, ThreadFacts, CheckFrame
  <2> QED BY <2>1, <2>2
<1> QED BY <1>4, <1>5, <1>6, <1>7, <1>8, <1>9, <1>10, <1>11, <1>12, <1>13, <1>14,
       <1>15, <1>16 DEF IInv

\* A failing open preserves the invariant.
LEMMA OpenFailsStep ==
    ASSUME IInv, NEW p \in Procs, OpenFails(p)
    PROVE  IInv'
<1> USE SlotsAssumption DEF T, Idle, NoTxn
<1>1. TypeInv /\ ThType /\ region.num \in 0..Slots /\ 0 \in 0..Slots
  BY DEF IInv, TypeInv
<1>2. /\ env[p].pc = "file" /\ MayBreak(p)
      /\ flock'[p] = "none"
      /\ env' \in [Procs -> [pc : {"closed", "wait", "mutexes", "header", "file", "open", "close"},
                             live : BOOLEAN, close : 0..Slots]]
      /\ env'[p].pc = "closed"
      /\ env'[p].live = FALSE /\ env'[p].close = 0
      /\ \A q \in Procs : q # p => env'[q] = env[q] /\ flock'[q] = flock[q]
      /\ flock' \in [Procs -> {"none", "shared", "excl"}]
      /\ pidlock' \in SUBSET pidlock /\ pidlock \ {p} \in SUBSET pidlock'
      /\ UNCHANGED <<region, readers, rmutex, wmutex, metas, orphans>>
  <2>1. Leave(p)
    BY DEF OpenFails
  <2>2. /\ env' = [env EXCEPT ![p] = [pc |-> "closed", live |-> FALSE, close |-> 0]]
        /\ flock' = [flock EXCEPT ![p] = "none"] /\ pidlock' = pidlock \ {p}
    BY <2>1 DEF Leave, ClosedEnv
  <2> QED BY <1>1, <2>2 DEF OpenFails, TypeInv
<1>3. /\ ThType' /\ \A u \in Threads[p] : th'[p][u] = IdleThread
      /\ \A q \in Procs : \A u \in Threads[q] : q # p => th'[q][u] = th[q][u]
  <2>1. th' = th
    BY DEF OpenFails
  <2>2. \A u \in Threads[p] : th[p][u] = IdleThread
    BY <1>2 DEF IInv, ActiveInv
  <2> QED BY <1>1, <2>1, <2>2 DEF ThType
<1>4. TypeInv'
  BY <1>1, <1>2, <1>3 DEF TypeInv, Mutexes
<1>5. FileInv'
  BY <1>2 DEF IInv, FileInv
<1>6. ActiveInv'
  BY <1>2, <1>3 DEF IInv, ActiveInv
<1>7. StageInv'
  BY <1>2, <1>3, IdleHas DEF IInv, StageInv
<1>8. LiveInv'
  <2>1. \A q \in Procs : env'[q].live => q \in pidlock'
    BY <1>2 DEF IInv, LiveInv
  <2>2. \A q \in Procs : \A u \in Threads[q] : NeedsLive(th'[q][u]) => env'[q].live
    BY <1>2, <1>3, IdleHas DEF IInv, LiveInv
  <2> QED BY <2>1, <2>2 DEF LiveInv
<1>9. TableInv'
  <2>1. \A q \in Procs : \A u \in Threads[q] :
            InTable(th'[q][u]) => q # p /\ InTable(th[q][u])
    BY <1>3, IdleHas
  <2> QED BY <2>1, <1>2 DEF IInv, TableInv
<1>10. SlotInv'
  <2> SUFFICES ASSUME NEW q \in Procs, NEW u \in Threads[q]
               PROVE  SlotAt(q, th'[q][u], region'.num, env'[q].close, readers')
    BY DEF SlotInv
  <2>1. CASE q = p
    BY <2>1, <1>3, IdleHas
  <2>2. CASE q # p
    <3>1. th'[q][u] = th[q][u] /\ env'[q] = env[q] /\ region'.num = region.num
      BY <2>2, <1>2, <1>3
    <3> QED BY <3>1, <1>2, ThreadFacts
  <2> QED BY <2>1, <2>2
<1>11. OwnInv'
  <2>1. \A q \in Procs : \A u \in Threads[q] : \A i \in 1..Slots :
            Owns(th'[q][u], i) => Owns(th[q][u], i)
    BY <1>3, IdleHas
  <2> QED BY <2>1 DEF IInv, OwnInv
<1>12. CloseInv'
  <2> SUFFICES ASSUME NEW q \in Procs
               PROVE  /\ env'[q].pc = "open" => env'[q].close <= region'.num
                      /\ env'[q].pc \notin {"open", "close"} => env'[q].close = 0
    BY DEF CloseInv
  <2>1. CASE q = p
    BY <2>1, <1>1, <1>2 DEF IInv, CloseInv
  <2>2. CASE q # p
    <3>1. env'[q] = env[q]
      BY <2>2, <1>2
    <3> QED BY <3>1, <1>2 DEF IInv, CloseInv
  <2> QED BY <2>1, <2>2
<1>13. AccountInv'
  <2> SUFFICES ASSUME NEW i \in 1..region'.num, i \notin orphans', NEW q, q = readers'[i].pid,
                      q # Nobody
               PROVE  \/ env'[q].pc = "open" /\ \E u \in Threads[q] : Owns(th'[q][u], i)
                      \/ env'[q].pc = "close" /\ i <= env'[q].close
    BY DEF AccountInv
  <2>1. i \in 1..region.num /\ i \notin orphans /\ readers[i].pid = q /\ q \in Procs
    BY <1>1, <1>2 DEF TypeInv
  <2>2. \/ env[q].pc = "open" /\ \E u \in Threads[q] : Owns(th[q][u], i)
        \/ env[q].pc = "close" /\ i <= env[q].close
    BY <2>1 DEF IInv, AccountInv
  <2>3. CASE q # p
    BY <2>1, <2>2, <2>3, <1>2, <1>3
  <2>4. CASE q = p
    BY <2>1, <2>2, <2>4, <1>2
  <2> QED BY <2>3, <2>4
<1>14. WriterInv'
  <2>1. \A q \in Procs : \A u \in Threads[q] :
            Writing(th'[q][u]) => q # p /\ Writing(th[q][u])
    BY <1>3, IdleHas
  <2> QED BY <2>1, <1>2 DEF IInv, WriterInv
<1>15. ~OpenBreaks => RegionInv'
  <2> SUFFICES ASSUME ~OpenBreaks PROVE RegionInv'
    OBVIOUS
  <2>1. Newest' = Newest
    BY <1>2 DEF Newest
  <2>2. \A q \in Procs : \A u \in Threads[q] : CommitAt(th'[q][u], region'.txnid, Newest')
    BY <2>1, <1>2, <1>3, IdleHas DEF IInv, RegionInv
  <2>3. InUse' => Current'
    <3>1. CASE flock[p] = "excl"
      <4>1. \A q \in Procs : q # p => env'[q].pc = "closed"
        BY <3>1, <1>2, ExclusiveAlone DEF MayBreak
      <4> QED BY <4>1, <1>2 DEF InUse
    <3>2. CASE flock[p] # "excl"
      <4>1. InUse' => InUse
        BY <3>2, <1>2 DEF InUse
      <4>2. \A u \in Threads[p] : th[p][u].pc # "wrote"
        BY <1>2, IdleHas DEF IInv, ActiveInv
      <4>3. Current => Current'
        BY <4>2, <2>1, <1>2, <1>3 DEF Current
      <4> QED BY <4>1, <4>3 DEF IInv, RegionInv
    <3> QED BY <3>1, <3>2
  <2> QED BY <2>2, <2>3 DEF RegionInv
<1>16. CheckInv'
  <2> SUFFICES ASSUME NEW q \in Procs, NEW u \in Threads[q]
               PROVE  CheckAt(q, th'[q][u], region'.num, readers', pidlock')
    BY DEF CheckInv
  <2>1. CASE q = p
    BY <2>1, <1>3, IdleHas
  <2>2. CASE q # p
    <3>1. th'[q][u] = th[q][u] /\ region'.num = region.num
      BY <2>2, <1>2, <1>3
    <3>2. th[q][u].dead \cap pidlock' = {}
      BY <1>2, ThreadFacts DEF CheckAt
    <3>3. \A j \in 1..region'.num : readers'[j].pid \in th[q][u].dead =>
              j \in 1..region.num /\ readers'[j].pid = readers[j].pid
      BY <3>1, <1>2
    <3> QED BY <3>1, <3>2, <3>3, ThreadFacts, CheckFrame
  <2> QED BY <2>1, <2>2
<1> QED BY <1>4, <1>5, <1>6, <1>7, <1>8, <1>9, <1>10, <1>11, <1>12, <1>13, <1>14,
       <1>15, <1>16 DEF IInv

\* The end of mdb_env_close preserves the invariant: no slot is left.
LEMMA CloseEndStep ==
    ASSUME IInv, NEW p \in Procs, CloseEnd(p)
    PROVE  IInv'
<1> USE SlotsAssumption DEF T, Idle, NoTxn
<1>1. TypeInv /\ ThType /\ region.num \in 0..Slots /\ 0 \in 0..Slots
  BY DEF IInv, TypeInv
<1>2. /\ env[p].pc = "close" /\ env[p].close = 0
      /\ flock'[p] = "none"
      /\ env' \in [Procs -> [pc : {"closed", "wait", "mutexes", "header", "file", "open", "close"},
                             live : BOOLEAN, close : 0..Slots]]
      /\ env'[p].pc = "closed"
      /\ env'[p].live = FALSE /\ env'[p].close = 0
      /\ \A q \in Procs : q # p => env'[q] = env[q] /\ flock'[q] = flock[q]
      /\ flock' \in [Procs -> {"none", "shared", "excl"}]
      /\ pidlock' \in SUBSET pidlock /\ pidlock \ {p} \in SUBSET pidlock'
      /\ UNCHANGED <<region, readers, rmutex, wmutex, metas, orphans>>
  <2>1. Leave(p)
    BY DEF CloseEnd
  <2>2. /\ env' = [env EXCEPT ![p] = [pc |-> "closed", live |-> FALSE, close |-> 0]]
        /\ flock' = [flock EXCEPT ![p] = "none"] /\ pidlock' = pidlock \ {p}
    BY <2>1 DEF Leave, ClosedEnv
  <2> QED BY <1>1, <2>2 DEF CloseEnd, TypeInv
<1>3. /\ ThType' /\ \A u \in Threads[p] : th'[p][u] = IdleThread
      /\ \A q \in Procs : \A u \in Threads[q] : q # p => th'[q][u] = th[q][u]
  <2>1. th' = th
    BY DEF CloseEnd
  <2>2. \A u \in Threads[p] : th[p][u] = IdleThread
    BY <1>2 DEF IInv, ActiveInv
  <2> QED BY <1>1, <2>1, <2>2 DEF ThType
<1>4. TypeInv'
  BY <1>1, <1>2, <1>3 DEF TypeInv, Mutexes
<1>5. FileInv'
  BY <1>2 DEF IInv, FileInv
<1>6. ActiveInv'
  BY <1>2, <1>3 DEF IInv, ActiveInv
<1>7. StageInv'
  BY <1>2, <1>3, IdleHas DEF IInv, StageInv
<1>8. LiveInv'
  <2>1. \A q \in Procs : env'[q].live => q \in pidlock'
    BY <1>2 DEF IInv, LiveInv
  <2>2. \A q \in Procs : \A u \in Threads[q] : NeedsLive(th'[q][u]) => env'[q].live
    BY <1>2, <1>3, IdleHas DEF IInv, LiveInv
  <2> QED BY <2>1, <2>2 DEF LiveInv
<1>9. TableInv'
  <2>1. \A q \in Procs : \A u \in Threads[q] :
            InTable(th'[q][u]) => q # p /\ InTable(th[q][u])
    BY <1>3, IdleHas
  <2> QED BY <2>1, <1>2 DEF IInv, TableInv
<1>10. SlotInv'
  <2> SUFFICES ASSUME NEW q \in Procs, NEW u \in Threads[q]
               PROVE  SlotAt(q, th'[q][u], region'.num, env'[q].close, readers')
    BY DEF SlotInv
  <2>1. CASE q = p
    BY <2>1, <1>3, IdleHas
  <2>2. CASE q # p
    <3>1. th'[q][u] = th[q][u] /\ env'[q] = env[q] /\ region'.num = region.num
      BY <2>2, <1>2, <1>3
    <3> QED BY <3>1, <1>2, ThreadFacts
  <2> QED BY <2>1, <2>2
<1>11. OwnInv'
  <2>1. \A q \in Procs : \A u \in Threads[q] : \A i \in 1..Slots :
            Owns(th'[q][u], i) => Owns(th[q][u], i)
    BY <1>3, IdleHas
  <2> QED BY <2>1 DEF IInv, OwnInv
<1>12. CloseInv'
  <2> SUFFICES ASSUME NEW q \in Procs
               PROVE  /\ env'[q].pc = "open" => env'[q].close <= region'.num
                      /\ env'[q].pc \notin {"open", "close"} => env'[q].close = 0
    BY DEF CloseInv
  <2>1. CASE q = p
    BY <2>1, <1>1, <1>2 DEF IInv, CloseInv
  <2>2. CASE q # p
    <3>1. env'[q] = env[q]
      BY <2>2, <1>2
    <3> QED BY <3>1, <1>2 DEF IInv, CloseInv
  <2> QED BY <2>1, <2>2
<1>13. AccountInv'
  <2> SUFFICES ASSUME NEW i \in 1..region'.num, i \notin orphans', NEW q, q = readers'[i].pid,
                      q # Nobody
               PROVE  \/ env'[q].pc = "open" /\ \E u \in Threads[q] : Owns(th'[q][u], i)
                      \/ env'[q].pc = "close" /\ i <= env'[q].close
    BY DEF AccountInv
  <2>1. i \in 1..region.num /\ i \notin orphans /\ readers[i].pid = q /\ q \in Procs
    BY <1>1, <1>2 DEF TypeInv
  <2>2. \/ env[q].pc = "open" /\ \E u \in Threads[q] : Owns(th[q][u], i)
        \/ env[q].pc = "close" /\ i <= env[q].close
    BY <2>1 DEF IInv, AccountInv
  <2>3. CASE q # p
    BY <2>1, <2>2, <2>3, <1>2, <1>3
  <2>4. CASE q = p
    BY <2>1, <2>2, <2>4, <1>1, <1>2
  <2> QED BY <2>3, <2>4
<1>14. WriterInv'
  <2>1. \A q \in Procs : \A u \in Threads[q] :
            Writing(th'[q][u]) => q # p /\ Writing(th[q][u])
    BY <1>3, IdleHas
  <2> QED BY <2>1, <1>2 DEF IInv, WriterInv
<1>15. ~OpenBreaks => RegionInv'
  <2> SUFFICES ASSUME ~OpenBreaks PROVE RegionInv'
    OBVIOUS
  <2>1. Newest' = Newest
    BY <1>2 DEF Newest
  <2>2. \A q \in Procs : \A u \in Threads[q] : CommitAt(th'[q][u], region'.txnid, Newest')
    BY <2>1, <1>2, <1>3, IdleHas DEF IInv, RegionInv
  <2>3. InUse' => Current'
    <3>1. InUse' => InUse
      BY <1>2 DEF InUse, IInv, FileInv
    <3>2. Current => Current'
      <4>1. \A u \in Threads[p] : th[p][u].pc # "wrote"
        BY <1>2, IdleHas DEF IInv, ActiveInv
      <4> QED BY <4>1, <2>1, <1>2, <1>3 DEF Current
    <3> QED BY <3>1, <3>2 DEF IInv, RegionInv
  <2> QED BY <2>2, <2>3 DEF RegionInv
<1>16. CheckInv'
  <2> SUFFICES ASSUME NEW q \in Procs, NEW u \in Threads[q]
               PROVE  CheckAt(q, th'[q][u], region'.num, readers', pidlock')
    BY DEF CheckInv
  <2>1. CASE q = p
    BY <2>1, <1>3, IdleHas
  <2>2. CASE q # p
    <3>1. th'[q][u] = th[q][u] /\ region'.num = region.num
      BY <2>2, <1>2, <1>3
    <3>2. th[q][u].dead \cap pidlock' = {}
      BY <1>2, ThreadFacts DEF CheckAt
    <3>3. \A j \in 1..region'.num : readers'[j].pid \in th[q][u].dead =>
              j \in 1..region.num /\ readers'[j].pid = readers[j].pid
      BY <3>1, <1>2
    <3> QED BY <3>1, <3>2, <3>3, ThreadFacts, CheckFrame
  <2> QED BY <2>1, <2>2
<1> QED BY <1>4, <1>5, <1>6, <1>7, <1>8, <1>9, <1>10, <1>11, <1>12, <1>13, <1>14,
       <1>15, <1>16 DEF IInv

\* The end of mdb_env_open preserves the invariant.
LEMMA OpenDoneStep ==
    ASSUME IInv, NEW p \in Procs, OpenDone(p)
    PROVE  IInv'
<1> USE SlotsAssumption DEF T, Idle, NoTxn
<1>1. TypeInv /\ ThType /\ region.num \in 0..Slots /\ 0 \in 0..Slots
  BY DEF IInv, TypeInv
<1>2. /\ env[p].pc = "file"
      /\ flock'[p] = "shared" /\ pidlock' = pidlock
      /\ region' \in [magic : BOOLEAN, txnid : Nat, num : 0..Slots]
      /\ region'.num = region.num /\ region'.magic = region.magic
      /\ region'.txnid = IF flock[p] = "excl" THEN Newest ELSE region.txnid
      /\ env' \in [Procs -> [pc : {"closed", "wait", "mutexes", "header", "file", "open", "close"},
                             live : BOOLEAN, close : 0..Slots]]
      /\ env'[p].pc = "open"
      /\ env'[p].live = env[p].live /\ env'[p].close = env[p].close
      /\ \A q \in Procs : q # p => env'[q] = env[q] /\ flock'[q] = flock[q]
      /\ flock' \in [Procs -> {"none", "shared", "excl"}]
      /\ pidlock' \in SUBSET pidlock /\ pidlock \ {p} \in SUBSET pidlock'
      /\ UNCHANGED <<readers, rmutex, wmutex, metas, orphans>>
  <2>1. Newest \in Nat
    <3>1. metas[0] \in Nat /\ metas[1] \in Nat
      BY <1>1 DEF TypeInv
    <3> QED BY <3>1, MaxOfTwo DEF Newest
  <2>2. env[p].pc = "file" /\ flock[p] \in {"shared", "excl"}
    BY DEF OpenDone, IInv, FileInv, TypeInv
  <2>3. /\ env' = [env EXCEPT ![p].pc = "open"]
        /\ UNCHANGED <<readers, rmutex, wmutex, pidlock, metas, th, orphans, deaths>>
    BY DEF OpenDone, OpenPc
  <2>4. CASE flock[p] = "excl"
    <3>1. region' = [region EXCEPT !.txnid = Newest] /\ flock' = [flock EXCEPT ![p] = "shared"]
      BY <2>4 DEF OpenDone
    <3> QED BY <1>1, <2>1, <2>2, <2>3, <2>4, <3>1 DEF TypeInv
  <2>5. CASE flock[p] # "excl"
    <3>1. region' = region /\ flock' = flock
      BY <2>5 DEF OpenDone
    <3> QED BY <1>1, <2>2, <2>3, <2>5, <3>1 DEF TypeInv
  <2> QED BY <2>4, <2>5
<1>3. /\ ThType' /\ \A u \in Threads[p] : th'[p][u] = IdleThread
      /\ \A q \in Procs : \A u \in Threads[q] : q # p => th'[q][u] = th[q][u]
  <2>1. th' = th
    BY DEF OpenDone
  <2>2. \A u \in Threads[p] : th[p][u] = IdleThread
    BY <1>2 DEF IInv, ActiveInv
  <2> QED BY <1>1, <2>1, <2>2 DEF ThType
<1>4. TypeInv'
  BY <1>1, <1>2, <1>3 DEF TypeInv, Mutexes
<1>5. FileInv'
  BY <1>2 DEF IInv, FileInv
<1>6. ActiveInv'
  BY <1>2, <1>3 DEF IInv, ActiveInv
<1>7. StageInv'
  BY <1>2, <1>3, IdleHas DEF IInv, StageInv
<1>8. LiveInv'
  <2>1. \A q \in Procs : env'[q].live => q \in pidlock'
    BY <1>2 DEF IInv, LiveInv
  <2>2. \A q \in Procs : \A u \in Threads[q] : NeedsLive(th'[q][u]) => env'[q].live
    BY <1>2, <1>3, IdleHas DEF IInv, LiveInv
  <2> QED BY <2>1, <2>2 DEF LiveInv
<1>9. TableInv'
  <2>1. \A q \in Procs : \A u \in Threads[q] :
            InTable(th'[q][u]) => q # p /\ InTable(th[q][u])
    BY <1>3, IdleHas
  <2> QED BY <2>1, <1>2 DEF IInv, TableInv
<1>10. SlotInv'
  <2> SUFFICES ASSUME NEW q \in Procs, NEW u \in Threads[q]
               PROVE  SlotAt(q, th'[q][u], region'.num, env'[q].close, readers')
    BY DEF SlotInv
  <2>1. CASE q = p
    BY <2>1, <1>3, IdleHas
  <2>2. CASE q # p
    <3>1. th'[q][u] = th[q][u] /\ env'[q] = env[q] /\ region'.num = region.num
      BY <2>2, <1>2, <1>3
    <3> QED BY <3>1, <1>2, ThreadFacts
  <2> QED BY <2>1, <2>2
<1>11. OwnInv'
  <2>1. \A q \in Procs : \A u \in Threads[q] : \A i \in 1..Slots :
            Owns(th'[q][u], i) => Owns(th[q][u], i)
    BY <1>3, IdleHas
  <2> QED BY <2>1 DEF IInv, OwnInv
<1>12. CloseInv'
  <2> SUFFICES ASSUME NEW q \in Procs
               PROVE  /\ env'[q].pc = "open" => env'[q].close <= region'.num
                      /\ env'[q].pc \notin {"open", "close"} => env'[q].close = 0
    BY DEF CloseInv
  <2>1. CASE q = p
    BY <2>1, <1>1, <1>2 DEF IInv, CloseInv
  <2>2. CASE q # p
    <3>1. env'[q] = env[q]
      BY <2>2, <1>2
    <3> QED BY <3>1, <1>2 DEF IInv, CloseInv
  <2> QED BY <2>1, <2>2
<1>13. AccountInv'
  <2> SUFFICES ASSUME NEW i \in 1..region'.num, i \notin orphans', NEW q, q = readers'[i].pid,
                      q # Nobody
               PROVE  \/ env'[q].pc = "open" /\ \E u \in Threads[q] : Owns(th'[q][u], i)
                      \/ env'[q].pc = "close" /\ i <= env'[q].close
    BY DEF AccountInv
  <2>1. i \in 1..region.num /\ i \notin orphans /\ readers[i].pid = q /\ q \in Procs
    BY <1>1, <1>2 DEF TypeInv
  <2>2. \/ env[q].pc = "open" /\ \E u \in Threads[q] : Owns(th[q][u], i)
        \/ env[q].pc = "close" /\ i <= env[q].close
    BY <2>1 DEF IInv, AccountInv
  <2>3. CASE q # p
    BY <2>1, <2>2, <2>3, <1>2, <1>3
  <2>4. CASE q = p
    BY <2>1, <2>2, <2>4, <1>2
  <2> QED BY <2>3, <2>4
<1>14. WriterInv'
  <2>1. \A q \in Procs : \A u \in Threads[q] :
            Writing(th'[q][u]) => q # p /\ Writing(th[q][u])
    BY <1>3, IdleHas
  <2> QED BY <2>1, <1>2 DEF IInv, WriterInv
<1>15. ~OpenBreaks => RegionInv'
  <2> SUFFICES ASSUME ~OpenBreaks PROVE RegionInv'
    OBVIOUS
  <2>1. Newest' = Newest
    BY <1>2 DEF Newest
  <2>2. \A q \in Procs : \A u \in Threads[q] : CommitAt(th'[q][u], region'.txnid, Newest')
    <3>1. CASE flock[p] = "excl"
      BY <3>1, <1>3, ExclusiveAlone, IdleHas
    <3>2. CASE flock[p] # "excl"
      BY <3>2, <2>1, <1>2, <1>3, IdleHas DEF IInv, RegionInv
    <3> QED BY <3>1, <3>2
  <2>3. InUse' => Current'
    <3>1. CASE flock[p] = "excl"
      BY <3>1, <2>1, <1>2 DEF Current
    <3>2. CASE flock[p] # "excl"
      <4>1. InUse' => InUse
        BY <3>2, <1>2 DEF InUse
      <4>2. \A u \in Threads[p] : th[p][u].pc # "wrote"
        BY <1>2, IdleHas DEF IInv, ActiveInv
      <4>3. Current => Current'
        BY <4>2, <3>2, <2>1, <1>2, <1>3 DEF Current
      <4> QED BY <4>1, <4>3 DEF IInv, RegionInv
    <3> QED BY <3>1, <3>2
  <2> QED BY <2>2, <2>3 DEF RegionInv
<1>16. CheckInv'
  <2> SUFFICES ASSUME NEW q \in Procs, NEW u \in Threads[q]
               PROVE  CheckAt(q, th'[q][u], region'.num, readers', pidlock')
    BY DEF CheckInv
  <2>1. CASE q = p
    BY <2>1, <1>3, IdleHas
  <2>2. CASE q # p
    <3>1. th'[q][u] = th[q][u] /\ region'.num = region.num
      BY <2>2, <1>2, <1>3
    <3>2. th[q][u].dead \cap pidlock' = {}
      BY <1>2, ThreadFacts DEF CheckAt
    <3>3. \A j \in 1..region'.num : readers'[j].pid \in th[q][u].dead =>
              j \in 1..region.num /\ readers'[j].pid = readers[j].pid
      BY <3>1, <1>2
    <3> QED BY <3>1, <3>2, <3>3, ThreadFacts, CheckFrame
  <2> QED BY <2>1, <2>2
<1> QED BY <1>4, <1>5, <1>6, <1>7, <1>8, <1>9, <1>10, <1>11, <1>12, <1>13, <1>14,
       <1>15, <1>16 DEF IInv

\* The start of mdb_env_close preserves the invariant.
LEMMA CloseStartStep ==
    ASSUME IInv, NEW p \in Procs, CloseStart(p)
    PROVE  IInv'
<1> USE SlotsAssumption DEF T, Idle, NoTxn
<1>1. TypeInv /\ ThType /\ region.num \in 0..Slots /\ 0 \in 0..Slots
  BY DEF IInv, TypeInv
<1>2. /\ env[p].pc = "open"
      /\ \A u \in Threads[p] : th[p][u].pc = "idle"
      /\ flock' = flock /\ pidlock' = pidlock
      /\ env' \in [Procs -> [pc : {"closed", "wait", "mutexes", "header", "file", "open", "close"},
                             live : BOOLEAN, close : 0..Slots]]
      /\ env'[p].pc = "close"
      /\ env'[p].live = env[p].live /\ env'[p].close = env[p].close
      /\ \A q \in Procs : q # p => env'[q] = env[q] /\ flock'[q] = flock[q]
      /\ flock' \in [Procs -> {"none", "shared", "excl"}]
      /\ pidlock' \in SUBSET pidlock /\ pidlock \ {p} \in SUBSET pidlock'
      /\ UNCHANGED <<region, readers, rmutex, wmutex, metas, orphans>>
  BY <1>1 DEF CloseStart, OpenPc, TypeInv
<1>3. /\ ThType' /\ \A u \in Threads[p] : th'[p][u] = IdleThread
      /\ \A q \in Procs : \A u \in Threads[q] : q # p => th'[q][u] = th[q][u]
  <2>1. th' = [th EXCEPT ![p] = [u \in Threads[p] |-> IdleThread]]
    BY DEF CloseStart
  <2>2. IdleThread \in ThreadRecord
    BY <1>1 DEF IdleThread, ThreadRecord, ThreadPcs
  <2>3. \A q \in Procs : th'[q] = IF q = p THEN [u \in Threads[p] |-> IdleThread] ELSE th[q]
    BY <1>1, <2>1 DEF ThType
  <2>4. th' = [q \in Procs |-> th'[q]]
    BY <1>1, <2>1 DEF ThType
  <2> QED BY <1>1, <2>2, <2>3, <2>4 DEF ThType
<1>4. TypeInv'
  BY <1>1, <1>2, <1>3 DEF TypeInv, Mutexes
<1>5. FileInv'
  BY <1>2 DEF IInv, FileInv
<1>6. ActiveInv'
  BY <1>2, <1>3 DEF IInv, ActiveInv
<1>7. StageInv'
  BY <1>2, <1>3, IdleHas DEF IInv, StageInv
<1>8. LiveInv'
  <2>1. \A q \in Procs : env'[q].live => q \in pidlock'
    BY <1>2 DEF IInv, LiveInv
  <2>2. \A q \in Procs : \A u \in Threads[q] : NeedsLive(th'[q][u]) => env'[q].live
    BY <1>2, <1>3, IdleHas DEF IInv, LiveInv
  <2> QED BY <2>1, <2>2 DEF LiveInv
<1>9. TableInv'
  <2>1. \A q \in Procs : \A u \in Threads[q] :
            InTable(th'[q][u]) => q # p /\ InTable(th[q][u])
    BY <1>3, IdleHas
  <2> QED BY <2>1, <1>2 DEF IInv, TableInv
<1>10. SlotInv'
  <2> SUFFICES ASSUME NEW q \in Procs, NEW u \in Threads[q]
               PROVE  SlotAt(q, th'[q][u], region'.num, env'[q].close, readers')
    BY DEF SlotInv
  <2>1. CASE q = p
    BY <2>1, <1>3, IdleHas
  <2>2. CASE q # p
    <3>1. th'[q][u] = th[q][u] /\ env'[q] = env[q] /\ region'.num = region.num
      BY <2>2, <1>2, <1>3
    <3> QED BY <3>1, <1>2, ThreadFacts
  <2> QED BY <2>1, <2>2
<1>11. OwnInv'
  <2>1. \A q \in Procs : \A u \in Threads[q] : \A i \in 1..Slots :
            Owns(th'[q][u], i) => Owns(th[q][u], i)
    BY <1>3, IdleHas
  <2> QED BY <2>1 DEF IInv, OwnInv
<1>12. CloseInv'
  <2> SUFFICES ASSUME NEW q \in Procs
               PROVE  /\ env'[q].pc = "open" => env'[q].close <= region'.num
                      /\ env'[q].pc \notin {"open", "close"} => env'[q].close = 0
    BY DEF CloseInv
  <2>1. CASE q = p
    BY <2>1, <1>1, <1>2 DEF IInv, CloseInv
  <2>2. CASE q # p
    <3>1. env'[q] = env[q]
      BY <2>2, <1>2
    <3> QED BY <3>1, <1>2 DEF IInv, CloseInv
  <2> QED BY <2>1, <2>2
<1>13. AccountInv'
  <2> SUFFICES ASSUME NEW i \in 1..region'.num, i \notin orphans', NEW q, q = readers'[i].pid,
                      q # Nobody
               PROVE  \/ env'[q].pc = "open" /\ \E u \in Threads[q] : Owns(th'[q][u], i)
                      \/ env'[q].pc = "close" /\ i <= env'[q].close
    BY DEF AccountInv
  <2>1. i \in 1..region.num /\ i \notin orphans /\ readers[i].pid = q /\ q \in Procs
    BY <1>1, <1>2 DEF TypeInv
  <2>2. \/ env[q].pc = "open" /\ \E u \in Threads[q] : Owns(th[q][u], i)
        \/ env[q].pc = "close" /\ i <= env[q].close
    BY <2>1 DEF IInv, AccountInv
  <2>3. CASE q # p
    BY <2>1, <2>2, <2>3, <1>2, <1>3
  <2>4. CASE q = p
    <3>1. PICK u \in Threads[p] : Owns(th[p][u], i)
      BY <2>2, <2>4, <1>2
    <3>2. i = th[p][u].slot /\ i # 0
      BY <3>1, <1>2, ThreadFacts DEF Owns, StageOK, ClaimPcs
    <3>3. i <= env[p].close
      BY <3>2, ThreadFacts DEF SlotAt
    <3> QED BY <2>4, <3>3, <1>2
  <2> QED BY <2>3, <2>4
<1>14. WriterInv'
  <2>1. \A q \in Procs : \A u \in Threads[q] :
            Writing(th'[q][u]) => q # p /\ Writing(th[q][u])
    BY <1>3, IdleHas
  <2> QED BY <2>1, <1>2 DEF IInv, WriterInv
<1>15. ~OpenBreaks => RegionInv'
  <2> SUFFICES ASSUME ~OpenBreaks PROVE RegionInv'
    OBVIOUS
  <2>1. Newest' = Newest
    BY <1>2 DEF Newest
  <2>2. \A q \in Procs : \A u \in Threads[q] : CommitAt(th'[q][u], region'.txnid, Newest')
    BY <2>1, <1>2, <1>3, IdleHas DEF IInv, RegionInv
  <2>3. InUse' => Current'
    <3>1. InUse' => InUse
      BY <1>2 DEF InUse
    <3>2. Current => Current'
      BY <2>1, <1>2, <1>3 DEF Current
    <3> QED BY <3>1, <3>2 DEF IInv, RegionInv
  <2> QED BY <2>2, <2>3 DEF RegionInv
<1>16. CheckInv'
  <2> SUFFICES ASSUME NEW q \in Procs, NEW u \in Threads[q]
               PROVE  CheckAt(q, th'[q][u], region'.num, readers', pidlock')
    BY DEF CheckInv
  <2>1. CASE q = p
    BY <2>1, <1>3, IdleHas
  <2>2. CASE q # p
    <3>1. th'[q][u] = th[q][u] /\ region'.num = region.num
      BY <2>2, <1>2, <1>3
    <3>2. th[q][u].dead \cap pidlock' = {}
      BY <1>2, ThreadFacts DEF CheckAt
    <3>3. \A j \in 1..region'.num : readers'[j].pid \in th[q][u].dead =>
              j \in 1..region.num /\ readers'[j].pid = readers[j].pid
      BY <3>1, <1>2
    <3> QED BY <3>1, <3>2, <3>3, ThreadFacts, CheckFrame
  <2> QED BY <2>1, <2>2
<1> QED BY <1>4, <1>5, <1>6, <1>7, <1>8, <1>9, <1>10, <1>11, <1>12, <1>13, <1>14,
       <1>15, <1>16 DEF IInv

\* Clearing a slot in mdb_env_close preserves the invariant.
LEMMA CloseSlotStep ==
    ASSUME IInv, NEW p \in Procs, CloseSlot(p)
    PROVE  IInv'
<1> USE SlotsAssumption DEF T, Idle, NoTxn
<1>1. TypeInv /\ ThType /\ region.num \in 0..Slots /\ 0 \in 0..Slots
  BY DEF IInv, TypeInv
<1>2. /\ env[p].pc = "close" /\ env[p].close \in 1..Slots
      /\ flock' = flock /\ pidlock' = pidlock
      /\ readers' \in [1..Slots -> [pid : Procs \cup {Nobody}, txnid : Nat \cup {NoTxn}]]
      /\ \A i \in 1..Slots : readers[i].pid # p => readers'[i] = readers[i]
      /\ \A i \in 1..Slots : i # env[p].close => readers'[i] = readers[i]
      /\ readers[env[p].close].pid = p => readers'[env[p].close].pid = Nobody
      /\ \A i \in 1..Slots : i \notin orphans' => i \notin orphans \/ readers'[i].pid = Nobody
      /\ env' \in [Procs -> [pc : {"closed", "wait", "mutexes", "header", "file", "open", "close"},
                             live : BOOLEAN, close : 0..Slots]]
      /\ env'[p].pc = "close"
      /\ env'[p].live = env[p].live /\ env'[p].close = env[p].close - 1
      /\ \A q \in Procs : q # p => env'[q] = env[q] /\ flock'[q] = flock[q]
      /\ flock' \in [Procs -> {"none", "shared", "excl"}]
      /\ pidlock' \in SUBSET pidlock /\ pidlock \ {p} \in SUBSET pidlock'
      /\ UNCHANGED <<region, rmutex, wmutex, metas>>
  <2>1. env[p].pc = "close" /\ env[p].close \in 1..Slots
    BY <1>1 DEF CloseSlot, TypeInv
  <2>2. PICK k \in 1..Slots : k = env[p].close
    BY <2>1
  <2>3. PICK F : F = IF readers[k].pid = p THEN {k} ELSE {}
    OBVIOUS
  <2>6. /\ FreeSlots(F) /\ env' = [env EXCEPT ![p].close = k - 1]
        /\ UNCHANGED <<region, rmutex, wmutex, flock, pidlock, metas, th, deaths>>
    BY <2>2, <2>3 DEF CloseSlot
  <2>7. k - 1 \in 0..Slots
    OBVIOUS
  <2>8. env' \in [Procs -> [pc : {"closed", "wait", "mutexes", "header", "file", "open", "close"},
                            live : BOOLEAN, close : 0..Slots]]
    <3>1. env[p] \in [pc : {"closed", "wait", "mutexes", "header", "file", "open", "close"},
                      live : BOOLEAN, close : 0..Slots]
      BY <1>1 DEF TypeInv
    <3>2. [env[p] EXCEPT !.close = k - 1] \in
              [pc : {"closed", "wait", "mutexes", "header", "file", "open", "close"},
               live : BOOLEAN, close : 0..Slots]
      BY <3>1, <2>7
    <3> QED BY <1>1, <2>6, <3>2 DEF TypeInv
  <2>9. /\ env'[p].pc = env[p].pc /\ env'[p].live = env[p].live /\ env'[p].close = k - 1
        /\ \A q \in Procs : q # p => env'[q] = env[q]
    BY <1>1, <2>6 DEF TypeInv
  <2>4. /\ readers' = [i \in 1..Slots |-> IF i \in F THEN [readers[i] EXCEPT !.pid = Nobody] ELSE readers[i]]
        /\ orphans' = orphans \ F
    BY <2>6 DEF FreeSlots
  <2>5. /\ readers' \in [1..Slots -> [pid : Procs \cup {Nobody}, txnid : Nat \cup {NoTxn}]]
        /\ \A i \in 1..Slots : i \notin F => readers'[i] = readers[i]
        /\ \A i \in 1..Slots : i \in F => readers'[i].pid = Nobody
    <3>1. \A i \in 1..Slots : readers[i] \in [pid : Procs \cup {Nobody}, txnid : Nat \cup {NoTxn}]
      BY <1>1 DEF TypeInv
    <3>2. \A i \in 1..Slots : [readers[i] EXCEPT !.pid = Nobody] \in [pid : Procs \cup {Nobody}, txnid : Nat \cup {NoTxn}]
      BY <3>1
    <3>3. \A i \in 1..Slots : [readers[i] EXCEPT !.pid = Nobody].pid = Nobody
      BY <3>1
    <3> QED BY <2>4, <3>1, <3>2, <3>3
  <2>10. \A i \in 1..Slots : i \notin F => readers'[i] = readers[i]
    BY <2>5
  <2>11. readers[k].pid = p => readers'[k].pid = Nobody
    BY <2>3, <2>5
  <2>12. \A i \in 1..Slots : i \notin orphans' => i \notin orphans \/ readers'[i].pid = Nobody
    BY <2>4, <2>5
  <2>13. \A i \in 1..Slots : (readers[i].pid # p \/ i # k) => readers'[i] = readers[i]
    BY <2>3, <2>10
  <2> QED BY <1>1, <2>1, <2>2, <2>5, <2>6, <2>8, <2>9, <2>11, <2>12, <2>13 DEF TypeInv
<1>3. /\ ThType' /\ \A u \in Threads[p] : th'[p][u] = IdleThread
      /\ \A q \in Procs : \A u \in Threads[q] : q # p => th'[q][u] = th[q][u]
  <2>1. th' = th
    BY DEF CloseSlot
  <2>2. \A u \in Threads[p] : th[p][u] = IdleThread
    BY <1>2 DEF IInv, ActiveInv
  <2> QED BY <1>1, <2>1, <2>2 DEF ThType
<1>4. TypeInv'
  BY <1>1, <1>2, <1>3 DEF TypeInv, Mutexes
<1>5. FileInv'
  <2>1. /\ \A q \in Procs : env'[q].pc = env[q].pc
        /\ flock' = flock /\ region' = region
    BY <1>2
  <2> QED BY <2>1 DEF IInv, FileInv
<1>6. ActiveInv'
  <2>1. \A q \in Procs : env'[q].pc = env[q].pc
    BY <1>2
  <2> QED BY <2>1, <1>3 DEF IInv, ActiveInv
<1>7. StageInv'
  BY <1>2, <1>3, IdleHas DEF IInv, StageInv
<1>8. LiveInv'
  <2>1. \A q \in Procs : env'[q].live => q \in pidlock'
    BY <1>2 DEF IInv, LiveInv
  <2>2. \A q \in Procs : \A u \in Threads[q] : NeedsLive(th'[q][u]) => env'[q].live
    BY <1>2, <1>3, IdleHas DEF IInv, LiveInv
  <2> QED BY <2>1, <2>2 DEF LiveInv
<1>9. TableInv'
  <2>1. \A q \in Procs : \A u \in Threads[q] :
            InTable(th'[q][u]) => q # p /\ InTable(th[q][u])
    BY <1>3, IdleHas
  <2> QED BY <2>1, <1>2 DEF IInv, TableInv
<1>10. SlotInv'
  <2> SUFFICES ASSUME NEW q \in Procs, NEW u \in Threads[q]
               PROVE  SlotAt(q, th'[q][u], region'.num, env'[q].close, readers')
    BY DEF SlotInv
  <2>1. CASE q = p
    BY <2>1, <1>3, IdleHas
  <2>2. CASE q # p
    <3>1. th'[q][u] = th[q][u] /\ env'[q] = env[q] /\ region'.num = region.num
      BY <2>2, <1>2, <1>3
    <3>2. /\ th[q][u].slot # 0 => readers'[th[q][u].slot] = readers[th[q][u].slot]
          /\ th[q][u].r # 0 => readers'[th[q][u].r] = readers[th[q][u].r]
      <4>1. th[q][u].slot # 0 => th[q][u].slot \in 1..Slots /\ readers[th[q][u].slot].pid = q
        BY ThreadFacts
      <4>2. th[q][u].r # 0 => th[q][u].r \in 1..Slots /\ readers[th[q][u].r].pid \in {q, Nobody}
        BY ThreadFacts
      <4> QED BY <4>1, <4>2, <2>2, <1>2
    <3> QED BY <3>1, <3>2, ThreadFacts, SlotFrame
  <2> QED BY <2>1, <2>2
<1>11. OwnInv'
  <2>1. \A q \in Procs : \A u \in Threads[q] : \A i \in 1..Slots :
            Owns(th'[q][u], i) => Owns(th[q][u], i)
    BY <1>3, IdleHas
  <2> QED BY <2>1 DEF IInv, OwnInv
<1>12. CloseInv'
  <2> SUFFICES ASSUME NEW q \in Procs
               PROVE  /\ env'[q].pc = "open" => env'[q].close <= region'.num
                      /\ env'[q].pc \notin {"open", "close"} => env'[q].close = 0
    BY DEF CloseInv
  <2>1. CASE q = p
    BY <2>1, <1>1, <1>2 DEF IInv, CloseInv
  <2>2. CASE q # p
    <3>1. env'[q] = env[q]
      BY <2>2, <1>2
    <3> QED BY <3>1, <1>2 DEF IInv, CloseInv
  <2> QED BY <2>1, <2>2
<1>13. AccountInv'
  <2> SUFFICES ASSUME NEW i \in 1..region'.num, i \notin orphans', NEW q, q = readers'[i].pid,
                      q # Nobody
               PROVE  \/ env'[q].pc = "open" /\ \E u \in Threads[q] : Owns(th'[q][u], i)
                      \/ env'[q].pc = "close" /\ i <= env'[q].close
    BY DEF AccountInv
  <2>1. i \in 1..region.num /\ i \notin orphans /\ readers[i].pid = q /\ q \in Procs
    <3>1. i \in 1..region.num /\ i \in 1..Slots
      BY <1>1, <1>2
    <3>2. readers'[i] = readers[i]
      <4>1. CASE i = env[p].close
        BY <3>1, <4>1, <1>2
      <4>2. CASE i # env[p].close
        BY <3>1, <4>2, <1>2
      <4> QED BY <4>1, <4>2
    <3> QED BY <3>1, <3>2, <1>1, <1>2 DEF TypeInv
  <2>2. \/ env[q].pc = "open" /\ \E u \in Threads[q] : Owns(th[q][u], i)
        \/ env[q].pc = "close" /\ i <= env[q].close
    BY <2>1 DEF IInv, AccountInv
  <2>3. CASE q # p
    BY <2>1, <2>2, <2>3, <1>2, <1>3
  <2>4. CASE q = p
    <3>1. i <= env[p].close /\ env'[p].pc = "close"
      BY <2>2, <2>4, <1>2
    <3>2. i # env[p].close
      BY <2>1, <2>4, <1>2
    <3> QED BY <3>1, <3>2, <2>1, <2>4, <1>1, <1>2
  <2> QED BY <2>3, <2>4
<1>14. WriterInv'
  <2>1. \A q \in Procs : \A u \in Threads[q] :
            Writing(th'[q][u]) => q # p /\ Writing(th[q][u])
    BY <1>3, IdleHas
  <2> QED BY <2>1, <1>2 DEF IInv, WriterInv
<1>15. ~OpenBreaks => RegionInv'
  <2> SUFFICES ASSUME ~OpenBreaks PROVE RegionInv'
    OBVIOUS
  <2>1. Newest' = Newest
    BY <1>2 DEF Newest
  <2>2. \A q \in Procs : \A u \in Threads[q] : CommitAt(th'[q][u], region'.txnid, Newest')
    <3>1. region' = region
      BY <1>2
    <3> QED BY <3>1, <2>1, <1>3, IdleHas DEF IInv, RegionInv
  <2>3. InUse' => Current'
    <3>1. InUse' => InUse
      BY <1>2 DEF InUse
    <3>2. Current => Current'
      <4>1. \A u \in Threads[p] : th[p][u].pc # "wrote"
        BY <1>2, IdleHas DEF IInv, ActiveInv
      <4>2. region' = region /\ wmutex' = wmutex
        BY <1>2
      <4> QED BY <4>1, <4>2, <2>1, <1>3 DEF Current
    <3> QED BY <3>1, <3>2 DEF IInv, RegionInv
  <2> QED BY <2>2, <2>3 DEF RegionInv
<1>16. CheckInv'
  <2> SUFFICES ASSUME NEW q \in Procs, NEW u \in Threads[q]
               PROVE  CheckAt(q, th'[q][u], region'.num, readers', pidlock')
    BY DEF CheckInv
  <2>1. CASE q = p
    BY <2>1, <1>3, IdleHas
  <2>2. CASE q # p
    <3>1. th'[q][u] = th[q][u] /\ region'.num = region.num
      BY <2>2, <1>2, <1>3
    <3>2. th[q][u].dead \cap pidlock' = {}
      BY <1>2, ThreadFacts DEF CheckAt
    <3>3. \A j \in 1..region'.num : readers'[j].pid \in th[q][u].dead =>
              j \in 1..region.num /\ readers'[j].pid = readers[j].pid
      <4>1. th[q][u].dead \subseteq Procs
        BY ThreadFacts
      <4>2. \A j \in 1..region.num : j \in 1..Slots
        BY <1>1
      <4>3. \A j \in 1..Slots : readers'[j] = readers[j] \/ readers'[j].pid = Nobody
        BY <1>2
      <4> QED BY <3>1, <4>1, <4>2, <4>3
    <3> QED BY <3>1, <3>2, <3>3, ThreadFacts, CheckFrame
  <2> QED BY <2>1, <2>2
<1> QED BY <1>4, <1>5, <1>6, <1>7, <1>8, <1>9, <1>10, <1>11, <1>12, <1>13, <1>14,
       <1>15, <1>16 DEF IInv

\* The death of a process preserves the invariant.
LEMMA DieStep ==
    ASSUME IInv, NEW p \in Procs, Die(p)
    PROVE  IInv'
<1> USE SlotsAssumption DEF T, Idle, NoTxn
<1>1. TypeInv /\ ThType /\ region.num \in 0..Slots /\ 0 \in 0..Slots
  BY DEF IInv, TypeInv
<1>2. /\ env[p].pc # "closed" /\ MayBreak(p)
      /\ flock'[p] = "none"
      /\ rmutex' \in Mutexes /\ wmutex' \in Mutexes
      /\ rmutex.by # p => rmutex' = rmutex
      /\ wmutex.by # p => wmutex' = wmutex
      /\ wmutex.by = p => wmutex'.dead /\ wmutex'.by = Nobody
      /\ orphans' = orphans \cup {i \in 1..Slots : readers[i].pid = p}
      /\ env' \in [Procs -> [pc : {"closed", "wait", "mutexes", "header", "file", "open", "close"},
                             live : BOOLEAN, close : 0..Slots]]
      /\ env'[p].pc = "closed"
      /\ env'[p].live = FALSE /\ env'[p].close = 0
      /\ \A q \in Procs : q # p => env'[q] = env[q] /\ flock'[q] = flock[q]
      /\ flock' \in [Procs -> {"none", "shared", "excl"}]
      /\ pidlock' \in SUBSET pidlock /\ pidlock \ {p} \in SUBSET pidlock'
      /\ UNCHANGED <<region, readers, metas>>
  <2>1. Leave(p)
    BY DEF Die
  <2>2. /\ env' = [env EXCEPT ![p] = [pc |-> "closed", live |-> FALSE, close |-> 0]]
        /\ flock' = [flock EXCEPT ![p] = "none"] /\ pidlock' = pidlock \ {p}
    BY <2>1 DEF Leave, ClosedEnv
  <2>3. rmutex' = AfterDeath(rmutex, p) /\ wmutex' = AfterDeath(wmutex, p)
    BY DEF Die
  <2>4. /\ rmutex' \in Mutexes /\ wmutex' \in Mutexes
        /\ rmutex.by # p => rmutex' = rmutex
        /\ wmutex.by # p => wmutex' = wmutex
        /\ wmutex.by = p => wmutex'.dead /\ wmutex'.by = Nobody
    BY <1>1, <2>3 DEF AfterDeath, Mutexes, TypeInv
  <2>5. /\ env[p].pc # "closed" /\ MayBreak(p) /\ UNCHANGED <<region, readers, metas>>
        /\ orphans' = orphans \cup {i \in 1..Slots : readers[i].pid = p}
    BY DEF Die
  <2> QED BY <1>1, <2>2, <2>4, <2>5 DEF TypeInv
<1>3. /\ ThType' /\ \A u \in Threads[p] : th'[p][u] = IdleThread
      /\ \A q \in Procs : \A u \in Threads[q] : q # p => th'[q][u] = th[q][u]
  <2>1. th' = [th EXCEPT ![p] = [u \in Threads[p] |-> IdleThread]]
    BY DEF Die
  <2>2. IdleThread \in ThreadRecord
    BY <1>1 DEF IdleThread, ThreadRecord, ThreadPcs
  <2>3. \A q \in Procs : th'[q] = IF q = p THEN [u \in Threads[p] |-> IdleThread] ELSE th[q]
    BY <1>1, <2>1 DEF ThType
  <2>4. th' = [q \in Procs |-> th'[q]]
    BY <1>1, <2>1 DEF ThType
  <2> QED BY <1>1, <2>2, <2>3, <2>4 DEF ThType
<1>4. TypeInv'
  BY <1>1, <1>2, <1>3 DEF TypeInv, Mutexes
<1>5. FileInv'
  BY <1>2 DEF IInv, FileInv
<1>6. ActiveInv'
  BY <1>2, <1>3 DEF IInv, ActiveInv
<1>7. StageInv'
  BY <1>2, <1>3, IdleHas DEF IInv, StageInv
<1>8. LiveInv'
  <2>1. \A q \in Procs : env'[q].live => q \in pidlock'
    BY <1>2 DEF IInv, LiveInv
  <2>2. \A q \in Procs : \A u \in Threads[q] : NeedsLive(th'[q][u]) => env'[q].live
    BY <1>2, <1>3, IdleHas DEF IInv, LiveInv
  <2> QED BY <2>1, <2>2 DEF LiveInv
<1>9. TableInv'
  <2>1. \A q \in Procs : \A u \in Threads[q] :
            InTable(th'[q][u]) => q # p /\ InTable(th[q][u])
    BY <1>3, IdleHas
  <2> QED BY <2>1, <1>2 DEF IInv, TableInv
<1>10. SlotInv'
  <2> SUFFICES ASSUME NEW q \in Procs, NEW u \in Threads[q]
               PROVE  SlotAt(q, th'[q][u], region'.num, env'[q].close, readers')
    BY DEF SlotInv
  <2>1. CASE q = p
    BY <2>1, <1>3, IdleHas
  <2>2. CASE q # p
    <3>1. th'[q][u] = th[q][u] /\ env'[q] = env[q] /\ region'.num = region.num
      BY <2>2, <1>2, <1>3
    <3> QED BY <3>1, <1>2, ThreadFacts
  <2> QED BY <2>1, <2>2
<1>11. OwnInv'
  <2>1. \A q \in Procs : \A u \in Threads[q] : \A i \in 1..Slots :
            Owns(th'[q][u], i) => Owns(th[q][u], i)
    BY <1>3, IdleHas
  <2> QED BY <2>1 DEF IInv, OwnInv
<1>12. CloseInv'
  <2> SUFFICES ASSUME NEW q \in Procs
               PROVE  /\ env'[q].pc = "open" => env'[q].close <= region'.num
                      /\ env'[q].pc \notin {"open", "close"} => env'[q].close = 0
    BY DEF CloseInv
  <2>1. CASE q = p
    BY <2>1, <1>1, <1>2 DEF IInv, CloseInv
  <2>2. CASE q # p
    <3>1. env'[q] = env[q]
      BY <2>2, <1>2
    <3> QED BY <3>1, <1>2 DEF IInv, CloseInv
  <2> QED BY <2>1, <2>2
<1>13. AccountInv'
  <2> SUFFICES ASSUME NEW i \in 1..region'.num, i \notin orphans', NEW q, q = readers'[i].pid,
                      q # Nobody
               PROVE  \/ env'[q].pc = "open" /\ \E u \in Threads[q] : Owns(th'[q][u], i)
                      \/ env'[q].pc = "close" /\ i <= env'[q].close
    BY DEF AccountInv
  <2>1. i \in 1..region.num /\ i \notin orphans /\ readers[i].pid = q /\ q \in Procs /\ q # p
    BY <1>1, <1>2 DEF TypeInv
  <2>2. \/ env[q].pc = "open" /\ \E u \in Threads[q] : Owns(th[q][u], i)
        \/ env[q].pc = "close" /\ i <= env[q].close
    BY <2>1 DEF IInv, AccountInv
  <2> QED BY <2>1, <2>2, <1>2, <1>3
<1>14. WriterInv'
  <2>1. \A q \in Procs : \A u \in Threads[q] :
            Writing(th'[q][u]) => q # p /\ Writing(th[q][u])
    BY <1>3, IdleHas
  <2> QED BY <2>1, <1>2 DEF IInv, WriterInv
<1>15. ~OpenBreaks => RegionInv'
  <2> SUFFICES ASSUME ~OpenBreaks PROVE RegionInv'
    OBVIOUS
  <2>1. Newest' = Newest
    BY <1>2 DEF Newest
  <2>2. \A q \in Procs : \A u \in Threads[q] : CommitAt(th'[q][u], region'.txnid, Newest')
    BY <2>1, <1>2, <1>3, IdleHas DEF IInv, RegionInv
  <2>3. InUse' => Current'
    <3>1. CASE flock[p] = "excl"
      <4>1. \A q \in Procs : q # p => env'[q].pc = "closed"
        BY <3>1, <1>2, ExclusiveAlone DEF MayBreak
      <4> QED BY <4>1, <1>2 DEF InUse
    <3>2. CASE flock[p] # "excl"
      <4>1. InUse' => InUse
        BY <3>2, <1>2 DEF InUse
      <4>2. CASE region.txnid = Newest
        BY <4>2, <2>1, <1>2 DEF Current
      <4>3. CASE wmutex.dead /\ wmutex.by = Nobody
        <5>1. wmutex' = wmutex
          BY <4>3, <1>2
        <5> QED BY <4>1, <4>2, <4>3, <5>1, <2>1, <1>2 DEF Current, IInv, RegionInv
      <4>4. ASSUME NEW q \in Procs, NEW u \in Threads[q], th[q][u].pc = "wrote"
            PROVE  \/ wmutex'.dead /\ wmutex'.by = Nobody
                   \/ \E r \in Procs : \E w \in Threads[r] : th'[r][w].pc = "wrote"
        <5>1. CASE q = p
          BY <4>4, <5>1, <1>2 DEF IInv, WriterInv, Writing
        <5>2. CASE q # p
          BY <4>4, <5>2, <1>3
        <5> QED BY <5>1, <5>2
      <4> QED BY <4>1, <4>2, <4>3, <4>4, <2>1, <1>2 DEF Current, IInv, RegionInv
    <3> QED BY <3>1, <3>2
  <2> QED BY <2>2, <2>3 DEF RegionInv
<1>16. CheckInv'
  <2> SUFFICES ASSUME NEW q \in Procs, NEW u \in Threads[q]
               PROVE  CheckAt(q, th'[q][u], region'.num, readers', pidlock')
    BY DEF CheckInv
  <2>1. CASE q = p
    BY <2>1, <1>3, IdleHas
  <2>2. CASE q # p
    <3>1. th'[q][u] = th[q][u] /\ region'.num = region.num
      BY <2>2, <1>2, <1>3
    <3>2. th[q][u].dead \cap pidlock' = {}
      BY <1>2, ThreadFacts DEF CheckAt
    <3>3. \A j \in 1..region'.num : readers'[j].pid \in th[q][u].dead =>
              j \in 1..region.num /\ readers'[j].pid = readers[j].pid
      BY <3>1, <1>2
    <3> QED BY <3>1, <3>2, <3>3, ThreadFacts, CheckFrame
  <2> QED BY <2>1, <2>2
<1> QED BY <1>4, <1>5, <1>6, <1>7, <1>8, <1>9, <1>10, <1>11, <1>12, <1>13, <1>14,
       <1>15, <1>16 DEF IInv

-----------------------------------------------------------------------------
(* The invariant, and what follows from it. *)

\* The invariant holds in the initial states.
LEMMA InitInv == Init => IInv
<1> SUFFICES ASSUME Init PROVE IInv
  OBVIOUS
<1> USE SlotsAssumption DEF Init, T, Idle, NoTxn
<1>1. 0 \in 0..Slots /\ IdleThread \in ThreadRecord
  BY DEF IdleThread, ThreadRecord, ThreadPcs
<1>2. ThType /\ \A p \in Procs : \A t \in Threads[p] : th[p][t] = IdleThread
  BY <1>1 DEF ThType
<1>3. \A p \in Procs : env[p] = [pc |-> "closed", live |-> FALSE, close |-> 0]
  BY DEF ClosedEnv
<1>4. TypeInv
  BY <1>1, <1>2 DEF TypeInv, Mutexes, FreeMutex, ClosedEnv
<1>5. FileInv /\ CloseInv
  BY <1>3 DEF FileInv, CloseInv
<1>6. ActiveInv /\ StageInv /\ TableInv /\ WriterInv
  BY <1>2, IdleHas DEF ActiveInv, StageInv, TableInv, WriterInv
<1>7. LiveInv
  BY <1>2, <1>3, IdleHas DEF LiveInv
<1>8. SlotInv /\ CheckInv
  BY <1>2, IdleHas DEF SlotInv, CheckInv
<1>9. OwnInv
  BY <1>2, IdleHas DEF OwnInv
<1>10. AccountInv
  BY DEF AccountInv
<1>11. RegionInv
  <2>1. ~InUse
    BY <1>3 DEF InUse
  <2> QED BY <2>1, <1>2, IdleHas DEF RegionInv
<1> QED BY <1>4, <1>5, <1>6, <1>7, <1>8, <1>9, <1>10, <1>11 DEF IInv

\* Every step preserves the invariant.
LEMMA StepInv == IInv /\ [Next]_vars => IInv'
<1> SUFFICES ASSUME IInv, [Next]_vars PROVE IInv'
  OBVIOUS
<1>1. CASE UNCHANGED vars
  <2>1. /\ TypeInv' = TypeInv /\ FileInv' = FileInv /\ ActiveInv' = ActiveInv
        /\ StageInv' = StageInv /\ LiveInv' = LiveInv /\ TableInv' = TableInv
        /\ WriterInv' = WriterInv
    BY <1>1 DEF vars, TypeInv, ThType, FileInv, ActiveInv, StageInv, LiveInv, TableInv,
                WriterInv, T
  <2>2. /\ SlotInv' = SlotInv /\ OwnInv' = OwnInv /\ CloseInv' = CloseInv
        /\ AccountInv' = AccountInv /\ CheckInv' = CheckInv
    BY <1>1 DEF vars, SlotInv, OwnInv, CloseInv, AccountInv, CheckInv, T
  <2>3. RegionInv' = RegionInv
    BY <1>1 DEF vars, RegionInv, InUse, Current, Newest, T
  <2> QED BY <2>1, <2>2, <2>3 DEF IInv
<1>2. ASSUME NEW p \in Procs, ProcStep(p) PROVE IInv'
  BY <1>2, OpenTryExclStep, OpenInitMutexesStep, OpenInitHeaderStep,
     OpenWaitStep, OpenFailsStep, OpenDoneStep, CloseStartStep, CloseSlotStep,
     CloseEndStep, DieStep DEF ProcStep
<1>3. ASSUME NEW p \in Procs, NEW t \in Threads[p], ThreadStep(p, t) PROVE IInv'
  BY <1>3, RdBeginStep, RdLockStep, RdScanStep, RdFullStep, RdPublishStep,
     RdTakeStep, RdUnlockStep, RdKeyFailsStep, RdIdStep, RdResetStep, RdAbortStep,
     ThreadExitStep, CheckStartStep, CheckSkipStep, CheckDeadStep,
     CheckDeadLockedStep, CheckLockStep, CheckClearStep, CheckEndStep,
     LockedEndStep, WrLockStep, WrMetaStep, WrPublishStep, WrAbortStep DEF
     ThreadStep
<1> QED BY <1>1, <1>2, <1>3 DEF Next

\* The invariant holds in every reachable state of the lock file and its users.
THEOREM Invariance == Spec => []IInv
BY InitInv, StepInv, PTL DEF Spec

\* Every read transaction keeps its slot: it is in the table with the pid of its
\* process and its id, and no other thread has it or claims it, for any number of
\* processes, threads, slots, deaths, checks of the readers and reused pids.
THEOREM ReadersSafe == Spec => []ReadersProtected
<1>1. IInv => ReadersProtected
  <2> SUFFICES ASSUME IInv, NEW p \in Procs, NEW t \in Threads[p], th[p][t].slot # 0
               PROVE  /\ th[p][t].slot <= region.num
                      /\ readers[th[p][t].slot] = [pid |-> p, txnid |-> th[p][t].txn]
                      /\ \A q \in Procs : \A u \in Threads[q] :
                             <<q, u>> # <<p, t>> =>
                                 th[p][t].slot \notin {th[q][u].slot, th[q][u].r}
    BY DEF ReadersProtected, T
  <2>1. th[p][t].slot \in 1..Slots /\ Owns(th[p][t], th[p][t].slot)
    BY ThreadFacts DEF Owns
  <2>2. /\ th[p][t].slot <= region.num
        /\ readers[th[p][t].slot] = [pid |-> p, txnid |-> th[p][t].txn]
    BY ThreadFacts DEF SlotAt
  <2>3. ASSUME NEW q \in Procs, NEW u \in Threads[q], <<q, u>> # <<p, t>>
        PROVE  ~Owns(th[q][u], th[p][t].slot)
    BY <2>1, <2>3 DEF IInv, OwnInv, T
  <2> QED BY <2>2, <2>3 DEF Owns
<1> QED BY <1>1, Invariance, PTL

\* No slot of the table is lost: one that is taken and whose process did not die
\* belongs to a thread, or mdb_env_close0 is about to clear it.
THEOREM SlotsNeverLost == Spec => []SlotsAccounted
<1>1. IInv => SlotsAccounted
  <2> SUFFICES ASSUME IInv, NEW i \in 1..region.num, i \notin orphans, NEW q, q = readers[i].pid,
                      q # Nobody
               PROVE  \/ env[q].pc = "open" /\ \E t \in Threads[q] : i \in {th[q][t].slot, th[q][t].r}
                      \/ env[q].pc = "close" /\ i <= env[q].close
    BY DEF SlotsAccounted, T
  <2> QED BY DEF IInv, AccountInv, Owns, T
<1> QED BY <1>1, Invariance, PTL

\* Unless an open breaks off while others wait for it, whoever has opened the
\* environment finds in the lock file the id of the newest meta page, but for a
\* commit that is under way or whose process died.
THEOREM RegionStaysCurrent ==
    ASSUME ~OpenBreaks
    PROVE  Spec => []RegionCurrent
<1>1. IInv => RegionCurrent
  <2> SUFFICES ASSUME IInv, NEW p \in Procs, env[p].pc = "open"
               PROVE  /\ region.magic
                      /\ \/ region.txnid = Newest
                         \/ /\ region.txnid + 1 = Newest
                            /\ \/ wmutex.dead
                               \/ \E q \in Procs : \E t \in Threads[q] : T(q, t).pc = "wrote"
    BY DEF RegionCurrent
  <2>1. region.magic /\ flock[p] = "shared"
    BY DEF IInv, FileInv
  <2>2. InUse
    BY <2>1 DEF IInv, FileInv, InUse
  <2> QED BY <2>1, <2>2 DEF IInv, RegionInv, Current
<1> QED BY <1>1, Invariance, PTL

\* A thread leaves the loop of mdb_reader_check0 only at the end of the table, or
\* to clear the slots of a process it has found dead.
LEMMA CheckLeaves ==
    ASSUME IInv, Next, NEW p \in Procs, NEW t \in Threads[p],
           th[p][t].pc = "check", th'[p][t].pc # "check", env'[p].pc = "open",
           th'[p][t].pc # "chklock"
    PROVE  th[p][t].i > th[p][t].rdrs
<1>1. env[p].pc = "open"
  <2>1. env[p].pc # "open" => th[p][t] = IdleThread
    BY DEF IInv, ActiveInv, T
  <2> QED BY <2>1 DEF IdleThread, Idle
<1>2. TypeInv /\ ThType /\ th[p][t] \in ThreadRecord
  BY ThreadFacts DEF IInv, TypeInv
<1>3. ASSUME NEW q \in Procs, ProcStep(q) PROVE FALSE
  <2>1. CASE th' = th
    BY <2>1
  <2>2. CASE th' = [th EXCEPT ![q] = [u \in Threads[q] |-> IdleThread]] /\ env'[q].pc # "open"
    BY <2>2, <1>2 DEF ThType
  <2>3. Die(q) => env'[q].pc # "open"
    BY <1>2 DEF Die, Leave, ClosedEnv, TypeInv
  <2>4. CloseStart(q) => env'[q].pc # "open"
    BY <1>2 DEF CloseStart, OpenPc, TypeInv
  <2> QED BY <1>3, <2>1, <2>2, <2>3, <2>4 DEF ProcStep, OpenTryExcl, OpenInitMutexes,
             OpenInitHeader, OpenWait, OpenFails, OpenDone, CloseStart, CloseSlot, CloseEnd, Die
<1>4. ASSUME NEW q \in Procs, NEW u \in Threads[q], ThreadStep(q, u), q # p \/ u # t PROVE FALSE
  <2>1. CASE RdBegin(q, u)
    <3>1. th'[p][t].pc = th[p][t].pc
      BY <2>1, <1>2, <1>4 DEF RdBegin, SeenAlive, T, ThType, ThreadRecord
    <3> QED BY <3>1
  <2>2. CASE \E y : Move(q, u, y)
    BY <2>2, <1>2, <1>4 DEF Move, ThType
  <2>3. ThreadStep(q, u) => RdBegin(q, u) \/ \E y : Move(q, u, y)
    BY DEF ThreadStep, RdLock, RdScan, RdFull, RdPublish, RdTake, RdUnlock, RdKeyFails, RdId,
           RdReset, RdAbort, ThreadExit, CheckStart, CheckSkip, CheckDead, CheckDeadLocked, CheckLock,
           CheckClear, CheckEnd, LockedEnd, WrLock, WrMeta, WrPublish, WrAbort, Goto, Return
  <2> QED BY <1>4, <2>1, <2>2, <2>3
<1>5. ASSUME ThreadStep(p, t) PROVE th[p][t].i > th[p][t].rdrs
  <2>1. CASE CheckEnd(p, t)
    BY <2>1 DEF CheckEnd, T
  <2>2. CASE CheckSkip(p, t)
    <3>1. PICK y : Move(p, t, y) /\ y.pc = th[p][t].pc
      <4>1. PICK j, s : Move(p, t, [th[p][t] EXCEPT !.i = j, !.pids = s])
        BY <2>2 DEF CheckSkip, T
      <4>2. [th[p][t] EXCEPT !.i = j, !.pids = s].pc = th[p][t].pc
        BY <1>2 DEF ThreadRecord
      <4> QED BY <4>1, <4>2
    <3> QED BY <3>1, <1>2 DEF Move, ThType
  <2>3. CASE CheckDead(p, t)
    <3>1. PICK y : Move(p, t, y) /\ y.pc = "chklock"
      <4>1. PICK j, s : Move(p, t, [th[p][t] EXCEPT !.pc = "chklock", !.pid = j, !.pids = s])
        BY <2>3 DEF CheckDead, T
      <4>2. [th[p][t] EXCEPT !.pc = "chklock", !.pid = j, !.pids = s].pc = "chklock"
        BY <1>2 DEF ThreadRecord
      <4> QED BY <4>1, <4>2
    <3> QED BY <3>1, <1>2 DEF Move, ThType
  <2> QED BY <1>5, <2>1, <2>2, <2>3 DEF ThreadStep, RdBegin, RdLock, RdScan, RdFull,
             RdPublish, RdTake, RdUnlock, RdKeyFails, RdId, RdReset, RdAbort, ThreadExit, CheckStart,
             CheckDeadLocked, CheckLock, CheckClear, LockedEnd, WrLock, WrMeta, WrPublish,
             WrAbort, At, T, Idle
<1> QED BY <1>3, <1>4, <1>5 DEF Next

\* A check of the readers that ends has given back the slots of every process
\* that was dead all the time, whatever the others did meanwhile.
THEOREM ChecksFreeDead == Spec => CheckFreesDead
<1> DEFINE A(p, t) == T(p, t).pc = "check" /\ T(p, t)'.pc # "check" /\ env'[p].pc = "open"
                          /\ T(p, t)'.pc # "chklock"
                      => \A i \in 1..region.num : readers[i].pid \notin T(p, t).dead \ {p}
<1>1. ASSUME IInv, [Next]_vars, NEW p \in Procs, NEW t \in Threads[p] PROVE A(p, t)
  <2> SUFFICES ASSUME th[p][t].pc = "check", th'[p][t].pc # "check", env'[p].pc = "open",
                      th'[p][t].pc # "chklock"
               PROVE  \A i \in 1..region.num : readers[i].pid \notin th[p][t].dead \ {p}
    BY DEF T
  <2>1. Next
    BY <1>1 DEF vars
  <2>2. th[p][t].i > th[p][t].rdrs
    BY <1>1, <2>1, CheckLeaves
  <2>3. th[p][t].i \in Nat /\ th[p][t].rdrs \in Nat /\ region.num \in Nat
    <3>1. th[p][t] \in ThreadRecord /\ region.num \in 0..Slots
      BY <1>1, ThreadFacts DEF IInv, TypeInv
    <3> QED BY <3>1, SlotsAssumption DEF ThreadRecord
  <2> QED BY <1>1, <2>2, <2>3, ThreadFacts DEF CheckAt
<1>2. IInv /\ [Next]_vars => [\A p \in Procs : \A t \in Threads[p] : A(p, t)]_vars
  BY <1>1
<1> QED BY <1>2, Invariance, PTL DEF Spec, CheckFreesDead

=============================================================================
